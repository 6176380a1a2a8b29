-------------------------- MODULE SchedulerProofs ---------------------------
(***************************************************************************)
(* What the operators of RunQueue and Scheduler do to a well-formed        *)
(* runqueue, one lemma per operator, for every value of the constants:     *)
(* first the lists and the queues, then activation, wake-ups,              *)
(* scheduler_tick, schedule() and the system calls.  Then, one lemma per   *)
(* operator again, what they leave of the policies and trials of the tasks *)
(* (the lives), of the order of the overdue ones (the line), of the        *)
(* priorities and need_resched (the ranks), and of the ticks.  Last, sums  *)
(* over the tasks, and what the operations of Lists do to the pointers of  *)
(* the lists.                                                              *)
(***************************************************************************)
EXTENDS SchedInvariant, TLAPS, FiniteSetTheorems, SequenceTheorems, WellFoundedInduction

-----------------------------------------------------------------------------
(* Lists.                                                                  *)

\* A list is empty exactly when it has no elements; its ends are elements of it.
LEMMA Ends ==
  ASSUME NEW s \in Seq(Pid)
  PROVE  /\ s = <<>> <=> Elements(s) = {}
         /\ s # <<>> => Head(s) \in Elements(s) /\ s[Len(s)] \in Elements(s)
         /\ Elements(s) \subseteq Pid
<1>1. s # <<>> => Len(s) \in Nat \ {0} /\ Head(s) = s[1]
  BY EmptySeq
<1>2. s = <<>> => Len(s) = 0
  OBVIOUS
<1>3. \A j \in 1 .. Len(s) : s[j] \in Pid
  OBVIOUS
<1> QED BY <1>1, <1>2, <1>3 DEF Elements

\* list_del takes the task off its list and leaves the others there, in order.
LEMMA WithoutIt ==
  ASSUME NEW s \in Seq(Pid), NEW p \in Pid, NoDuplicates(s)
  PROVE  /\ Without(s, p) \in Seq(Pid)
         /\ Elements(Without(s, p)) = Elements(s) \ {p}
         /\ NoDuplicates(Without(s, p))
<1>1. CASE ~ \E i \in 1 .. Len(s) : s[i] = p
  BY <1>1 DEF Without, Elements
<1>2. CASE \E i \in 1 .. Len(s) : s[i] = p
  <2> DEFINE i == CHOOSE j \in 1 .. Len(s) : s[j] = p
             w == [j \in 1 .. Len(s) - 1 |-> IF j < i THEN s[j] ELSE s[j + 1]]
  <2>1. i \in 1 .. Len(s) /\ s[i] = p
    BY <1>2
  <2>2. Without(s, p) = w
    BY <1>2 DEF Without
  <2>3. Len(s) \in Nat /\ Len(s) - 1 \in Nat /\ s \in [1 .. Len(s) -> Pid]
    BY <2>1, LenProperties
  <2> HIDE DEF i
  <2>4. w \in [1 .. Len(s) - 1 -> Pid]
    BY <2>1, <2>3
  <2>5. w \in Seq(Pid) /\ Len(w) = Len(s) - 1
    BY <2>3, <2>4
  <2>6. \A j \in 1 .. Len(s) : s[j] = p => j = i
    BY <2>1 DEF NoDuplicates
  <2>7. ASSUME NEW j \in 1 .. Len(s) - 1
        PROVE  /\ w[j] \in Elements(s)
               /\ w[j] # p
    <3>1. CASE j < i
      <4>1. w[j] = s[j] /\ j \in 1 .. Len(s) /\ j # i
        BY <2>1, <2>3, <3>1
      <4> QED BY <4>1, <2>6 DEF Elements
    <3>2. CASE ~ (j < i)
      <4>1. w[j] = s[j + 1] /\ j + 1 \in 1 .. Len(s) /\ j + 1 # i
        BY <2>1, <2>3, <3>2
      <4> QED BY <4>1, <2>6 DEF Elements
    <3> QED BY <3>1, <3>2
  <2>8. ASSUME NEW q \in Elements(s), q # p
        PROVE  q \in Elements(w)
    <3>1. PICK j \in 1 .. Len(s) : s[j] = q
      BY <2>8 DEF Elements
    <3>2. CASE j < i
      <4>1. j \in 1 .. Len(s) - 1 /\ w[j] = q
        BY <2>1, <2>3, <3>1, <3>2
      <4> QED BY <4>1, <2>5 DEF Elements
    <3>3. CASE j > i
      <4>1. j - 1 \in 1 .. Len(s) - 1 /\ w[j - 1] = q
        BY <2>1, <2>3, <3>1, <3>3
      <4> QED BY <4>1, <2>5 DEF Elements
    <3> QED BY <3>1, <3>2, <3>3, <2>1, <2>3, <2>8
  <2>9. Elements(w) = Elements(s) \ {p}
    <3>1. Elements(w) \subseteq Elements(s) \ {p}
      BY <2>5, <2>7 DEF Elements
    <3> QED BY <3>1, <2>8
  <2>10. NoDuplicates(w)
    <3> SUFFICES ASSUME NEW m \in 1 .. Len(w), NEW n \in 1 .. Len(w), w[m] = w[n]
                 PROVE  m = n
      BY DEF NoDuplicates
    <3> DEFINE at(j) == IF j < i THEN j ELSE j + 1
    <3>1. \A j \in 1 .. Len(w) : at(j) \in 1 .. Len(s) /\ w[j] = s[at(j)]
      BY <2>1, <2>3, <2>5
    <3>2. at(m) = at(n)
      <4> HIDE DEF at
      <4>1. at(m) \in 1 .. Len(s) /\ at(n) \in 1 .. Len(s) /\ s[at(m)] = s[at(n)]
        BY <3>1
      <4> QED BY <4>1 DEF NoDuplicates
    <3> QED BY <3>2, <2>1, <2>3, <2>5
  <2> QED BY <2>2, <2>5, <2>9, <2>10
<1> QED BY <1>1, <1>2

\* A task put at the end, at the head, or second on a list it is not on.
LEMMA AddedLast ==
  ASSUME NEW s \in Seq(Pid), NEW p \in Pid
  PROVE  /\ Append(s, p) \in Seq(Pid)
         /\ Elements(Append(s, p)) = Elements(s) \cup {p}
         /\ NoDuplicates(s) /\ p \notin Elements(s) => NoDuplicates(Append(s, p))
<1>1. /\ Append(s, p) \in Seq(Pid) /\ Len(s) \in Nat
      /\ Len(Append(s, p)) = Len(s) + 1
      /\ \A i \in 1 .. Len(s) : Append(s, p)[i] = s[i]
      /\ Append(s, p)[Len(s) + 1] = p
  BY AppendProperties
<1>2. Elements(Append(s, p)) = Elements(s) \cup {p}
  <2>1. 1 .. Len(s) + 1 = 1 .. Len(s) \cup {Len(s) + 1}
    BY <1>1
  <2> QED BY <1>1, <2>1 DEF Elements
<1>3. ASSUME NoDuplicates(s), p \notin Elements(s),
             NEW i \in 1 .. Len(s) + 1, NEW j \in 1 .. Len(s) + 1,
             Append(s, p)[i] = Append(s, p)[j]
      PROVE  i = j
  <2>1. \A m \in 1 .. Len(s) : s[m] # p
    BY <1>3 DEF Elements
  <2> QED BY <1>1, <1>3, <2>1 DEF NoDuplicates
<1> QED BY <1>1, <1>2, <1>3 DEF NoDuplicates

\* list_add and hw2_push_front: a list with one more task at its head.
LEMMA AddedFirst ==
  ASSUME NEW s \in Seq(Pid), NEW p \in Pid
  PROVE  /\ <<p>> \o s \in Seq(Pid)
         /\ Elements(<<p>> \o s) = Elements(s) \cup {p}
         /\ NoDuplicates(s) /\ p \notin Elements(s) => NoDuplicates(<<p>> \o s)
<1> DEFINE c == <<p>> \o s
<1>1. /\ c \in Seq(Pid) /\ Len(s) \in Nat
      /\ Len(c) = Len(s) + 1
      /\ c[1] = p
      /\ \A i \in 2 .. Len(s) + 1 : c[i] = s[i - 1]
  <2>1. <<p>> \in Seq(Pid) /\ Len(<<p>>) = 1 /\ <<p>>[1] = p
    OBVIOUS
  <2> QED BY <2>1, ConcatProperties, LenProperties
<1> HIDE DEF c
<1>2. Elements(c) = Elements(s) \cup {p}
  <2>1. Elements(c) \subseteq Elements(s) \cup {p}
    <3> SUFFICES ASSUME NEW i \in 1 .. Len(s) + 1 PROVE c[i] \in Elements(s) \cup {p}
      BY <1>1 DEF Elements
    <3>1. i = 1 \/ (i \in 2 .. Len(s) + 1 /\ i - 1 \in 1 .. Len(s))
      BY <1>1
    <3> QED BY <1>1, <3>1 DEF Elements
  <2>2. ASSUME NEW i \in 1 .. Len(s) PROVE s[i] \in Elements(c)
    <3>1. i + 1 \in 2 .. Len(s) + 1 /\ i + 1 \in 1 .. Len(c) /\ (i + 1) - 1 = i
      BY <1>1
    <3>2. c[i + 1] = s[i]
      BY <1>1, <3>1
    <3> QED BY <3>1, <3>2 DEF Elements
  <2>3. p \in Elements(c)
    BY <1>1 DEF Elements
  <2> QED BY <2>1, <2>2, <2>3 DEF Elements
<1>3. ASSUME NoDuplicates(s), p \notin Elements(s),
             NEW i \in 1 .. Len(s) + 1, NEW j \in 1 .. Len(s) + 1, c[i] = c[j]
      PROVE  i = j
  <2>1. \A m \in 1 .. Len(s) : s[m] # p
    BY <1>3 DEF Elements
  <2>2. \A m \in 1 .. Len(s) + 1 : m = 1 \/ (m \in 2 .. Len(s) + 1 /\ m - 1 \in 1 .. Len(s))
    BY <1>1
  <2>3. CASE i = 1 \/ j = 1
    BY <1>1, <1>3, <2>1, <2>2, <2>3
  <2>4. CASE i # 1 /\ j # 1
    <3>1. i - 1 \in 1 .. Len(s) /\ j - 1 \in 1 .. Len(s) /\ s[i - 1] = s[j - 1]
      BY <1>1, <1>3, <2>2, <2>4
    <3>2. i - 1 = j - 1
      BY <1>3, <3>1 DEF NoDuplicates
    <3> QED BY <1>1, <3>2
  <2> QED BY <2>3, <2>4
<1> QED BY <1>1, <1>2, <1>3 DEF c, NoDuplicates

-----------------------------------------------------------------------------
(* Well-formed runqueues.                                                  *)

\* Two records that are queued in the same way.
SamePlace(t, u) ==
  /\ t.array = u.array /\ t.queued = u.queued /\ t.policy = u.policy
  /\ t.array # NULL => t.prio = u.prio
  /\ is_overdue(t) <=> is_overdue(u)

\* Everything but the tasks.
SameLists(k, j) ==
  /\ j.active = k.active /\ j.nr_active = k.nr_active /\ j.bitmap = k.bitmap
  /\ j.queue = k.queue /\ j.overdue = k.overdue /\ j.nr_running = k.nr_running
  /\ j.nr_uninterruptible = k.nr_uninterruptible /\ j.curr = k.curr

\* From k to j only lists and counters changed, and the record of p, which is t now.
Only(k, j, p, t) ==
  /\ j.active = k.active /\ j.curr = k.curr /\ j.nr_uninterruptible = k.nr_uninterruptible
  /\ j.task \in [Task -> TaskRecord] /\ j.task = [k.task EXCEPT ![p] = t]

\* The processes see no difference between k and j: the same task is current, all have
\* their states, and the same ones are queued.
Calm(k, j) ==
  /\ j.active = k.active /\ j.curr = k.curr /\ j.nr_uninterruptible = k.nr_uninterruptible
  /\ \A q \in Task : j.task[q].state = k.task[q].state /\ j.task[q].policy = k.task[q].policy
  /\ \A q \in Pid : Enqueued(j.task[q]) <=> Enqueued(k.task[q])
  /\ \A q \in Pid : Enqueued(k.task[q]) \/ j.task[q].queued = k.task[q].queued

\* Writing a task_struct leaves the lists, the bitmap and the counters alone.
LEMMA SetFields ==
  ASSUME NEW k \in Kernel, NEW p \in Task, NEW t \in TaskRecord
  PROVE  /\ Set(k, p, t) \in Kernel
         /\ SameLists(k, Set(k, p, t))
         /\ Set(k, p, t).task = [k.task EXCEPT ![p] = t]
  BY DEF Set, Kernel, SameLists

\* Writing a field that has nothing to do with queueing, or any field of a task that
\* is on no list, leaves the runqueue well-formed.
LEMMA Written ==
  ASSUME NEW k, NEW S \in SUBSET Pid, NEW n \in Int, Good(k, S, n),
         NEW p \in Pid, NEW t, Proper(t), p \in S \/ SamePlace(t, k.task[p])
  PROVE  Good(Set(k, p, t), S, n)
<1> DEFINE j == Set(k, p, t)
<1>1. k \in Kernel /\ p \in Task /\ t \in TaskRecord /\ p # Idle /\ Idle \in Task /\ Pid \subseteq Task
  BY PidAssumption DEF Good, Typed, Proper, Task
<1>2. /\ j \in Kernel /\ SameLists(k, j)
      /\ j.task[p] = t
      /\ \A q \in Task \ {p} : j.task[q] = k.task[q]
  <2>1. j \in Kernel /\ SameLists(k, j) /\ j.task = [k.task EXCEPT ![p] = t]
    BY <1>1, SetFields
  <2> QED BY <1>1, <2>1 DEF Kernel
<1> HIDE DEF j
<1>3. Typed(j)
  BY <1>1, <1>2 DEF Good, Typed
<1>4. \A q \in Pid \ S : SamePlace(j.task[q], k.task[q])
  BY <1>1, <1>2 DEF SamePlace
<1>5. Placed(j, S)
  <2>1. ASSUME NEW q \in Pid \ S, NEW h \in ArrayId \X Prio
        PROVE  h = Slot(j.task[q]) <=> h = Slot(k.task[q])
    <3>1. CASE j.task[q].array = NULL
      <4>1. k.task[q].array = NULL
        BY <1>4, <3>1 DEF SamePlace
      <4> QED BY <3>1, <4>1 DEF Slot, ArrayId, NULL
    <3>2. CASE j.task[q].array # NULL
      BY <1>4, <3>2 DEF SamePlace, Slot
    <3> QED BY <3>1, <3>2
  <2> QED BY <1>2, <1>4, <2>1 DEF Good, Placed, SamePlace, SameLists
<1>6. \A q \in Pid \ S : Fits(j.task[q], j.active)
  BY <1>2, <1>4 DEF Good, Fits, SamePlace, SameLists, is_short
<1>7. \A a \in ArrayId : Members(j, S, a) = Members(k, S, a)
  BY <1>4 DEF Members, SamePlace
<1>8. Runnable(j, S) = Runnable(k, S)
  BY <1>4 DEF Runnable, SamePlace, Enqueued
<1> QED BY <1>2, <1>3, <1>5, <1>6, <1>7, <1>8 DEF Good, SameLists, j

\* The idle task is on no list, so writing it leaves the runqueue well-formed.
LEMMA IdleWritten ==
  ASSUME NEW k, NEW S \in SUBSET Pid, NEW n \in Int, Good(k, S, n),
         NEW t \in TaskRecord, t.policy = "OTHER", t.state = "RUNNING"
  PROVE  Good(Set(k, Idle, t), S, n)
<1> DEFINE j == Set(k, Idle, t)
<1>1. k \in Kernel /\ Idle \in Task /\ Idle \notin Pid /\ Pid \subseteq Task
  BY PidAssumption DEF Good, Typed, Task
<1>2. /\ j \in Kernel /\ SameLists(k, j)
      /\ j.task[Idle] = t
      /\ \A q \in Pid : j.task[q] = k.task[q]
  <2>1. j \in Kernel /\ SameLists(k, j) /\ j.task = [k.task EXCEPT ![Idle] = t]
    BY <1>1, SetFields
  <2> QED BY <1>1, <2>1 DEF Kernel
<1> HIDE DEF j
<1>3. Typed(j)
  BY <1>1, <1>2 DEF Good, Typed
<1>4. Placed(j, S)
  BY <1>2 DEF Good, Placed, SameLists
<1>5. \A a \in ArrayId : Members(j, S, a) = Members(k, S, a)
  BY <1>2 DEF Members
<1>6. Runnable(j, S) = Runnable(k, S)
  BY <1>2 DEF Runnable
<1> QED BY <1>2, <1>3, <1>4, <1>5, <1>6 DEF Good, SameLists, j

\* What list_del leaves behind.
LEMMA ListDel ==
  ASSUME NEW k, NEW n \in Int, Good(k, {}, n), NEW p \in Pid, NEW j, j = list_del(k, p)
  PROVE  /\ j \in Kernel
         /\ j.active = k.active /\ j.nr_active = k.nr_active /\ j.bitmap = k.bitmap
         /\ j.nr_running = k.nr_running /\ j.nr_uninterruptible = k.nr_uninterruptible
         /\ j.curr = k.curr /\ j.task = k.task
         /\ Placed(j, {p})
         /\ \A h \in ArrayId \X Prio :
              h # Slot(k.task[p]) => Elements(j.queue[h]) = Elements(k.queue[h])
<1> DEFINE q == [h \in ArrayId \X Prio |-> Without(k.queue[h], p)]
           o == Without(k.overdue, p)
<1>1. k \in Kernel
  BY DEF Good, Typed
<1>2. j = [k EXCEPT !.queue = q, !.overdue = o]
  BY <1>1 DEF Kernel, list_del
<1>3. \A h \in ArrayId \X Prio :
        /\ k.queue[h] \in Seq(Pid) /\ q[h] \in Seq(Pid)
        /\ Elements(q[h]) = Elements(k.queue[h]) \ {p}
        /\ NoDuplicates(q[h])
  <2> TAKE h \in ArrayId \X Prio
  <2>1. k.queue[h] \in Seq(Pid) /\ NoDuplicates(k.queue[h])
    BY <1>1 DEF Kernel, Good, Placed
  <2>2. q[h] = Without(k.queue[h], p)
    OBVIOUS
  <2> QED BY <2>1, <2>2, WithoutIt
<1>4. o \in Seq(Pid) /\ Elements(o) = Elements(k.overdue) \ {p} /\ NoDuplicates(o)
  <2>1. k.overdue \in Seq(Pid) /\ NoDuplicates(k.overdue)
    BY <1>1 DEF Kernel, Good, Placed
  <2> QED BY <2>1, WithoutIt
<1>5. q \in [ArrayId \X Prio -> Seq(Pid)]
  BY <1>3
<1> HIDE DEF q, o
<1>6. /\ j \in Kernel
      /\ j.active = k.active /\ j.nr_active = k.nr_active /\ j.bitmap = k.bitmap
      /\ j.nr_running = k.nr_running /\ j.nr_uninterruptible = k.nr_uninterruptible
      /\ j.curr = k.curr /\ j.task = k.task
      /\ j.queue = q /\ j.overdue = o
  BY <1>1, <1>2, <1>4, <1>5 DEF Kernel
<1>7. Placed(j, {p})
  <2>1. ASSUME NEW x \in Pid, NEW h \in ArrayId \X Prio
        PROVE  x \in Elements(j.queue[h]) <=> x \in Elements(k.queue[h]) /\ x # p
    BY <1>3, <1>6
  <2>2. ASSUME NEW x \in Pid
        PROVE  x \in Elements(j.overdue) <=> x \in Elements(k.overdue) /\ x # p
    BY <1>4, <1>6
  <2>3. (\A h \in ArrayId \X Prio : NoDuplicates(j.queue[h])) /\ NoDuplicates(j.overdue)
    BY <1>3, <1>4, <1>6
  <2> QED BY <1>6, <2>1, <2>2, <2>3 DEF Good, Placed
<1>8. ASSUME NEW h \in ArrayId \X Prio, h # Slot(k.task[p])
      PROVE  Elements(j.queue[h]) = Elements(k.queue[h])
  <2>1. p \notin Elements(k.queue[h])
    BY <1>8 DEF Good, Placed
  <2>2. Elements(k.queue[h]) \ {p} = Elements(k.queue[h])
    BY <2>1
  <2>3. j.queue[h] = q[h]
    BY <1>6
  <2> QED BY <1>3, <2>2, <2>3
<1> QED BY <1>6, <1>7, <1>8

\* dequeue_task takes a task off the list it is on, with bit and counter.
LEMMA DequeueTask ==
  ASSUME NEW k, NEW n \in Int, Good(k, {}, n), NEW p \in Pid, k.task[p].array # NULL,
         NEW j, j = dequeue_task(k, p, k.task[p].array)
  PROVE  /\ Good(j, {p}, n + 1)
         /\ j.active = k.active /\ j.curr = k.curr /\ j.task = k.task
         /\ j.nr_uninterruptible = k.nr_uninterruptible
         /\ j.nr_running = k.nr_running
<1> DEFINE a == k.task[p].array
           h == Slot(k.task[p])
           i == list_del(k, p)
<1>1. /\ k \in Kernel /\ p \in Task /\ a \in ArrayId /\ h \in ArrayId \X Prio
      /\ ~ is_overdue(k.task[p]) /\ Enqueued(k.task[p])
  <2>1. k \in Kernel /\ Proper(k.task[p]) /\ Fits(k.task[p], k.active)
    BY DEF Good, Typed
  <2> QED BY <2>1 DEF Proper, Fits, Enqueued, TaskRecord, Task, Slot
<1>3. j = [i EXCEPT !.nr_active[a] = @ - 1,
                    !.bitmap = IF i.queue[h] = <<>> THEN @ \ {h} ELSE @]
  BY DEF dequeue_task, Slot
<1> HIDE DEF i
<1>2. /\ i \in Kernel
      /\ i.active = k.active /\ i.nr_active = k.nr_active /\ i.bitmap = k.bitmap
      /\ i.nr_running = k.nr_running /\ i.nr_uninterruptible = k.nr_uninterruptible
      /\ i.curr = k.curr /\ i.task = k.task
      /\ Placed(i, {p})
      /\ \A g \in ArrayId \X Prio : g # h => Elements(i.queue[g]) = Elements(k.queue[g])
  BY ListDel, ZenonT(60) DEF i
<1> HIDE DEF a, h
<1>4. /\ j.active = k.active /\ j.nr_running = k.nr_running
      /\ j.nr_uninterruptible = k.nr_uninterruptible
      /\ j.curr = k.curr /\ j.task = k.task
      /\ j.queue = i.queue /\ j.overdue = i.overdue
      /\ j.nr_active = [k.nr_active EXCEPT ![a] = @ - 1]
      /\ j.bitmap = IF j.queue[h] = <<>> THEN k.bitmap \ {h} ELSE k.bitmap
  BY <1>2, <1>3 DEF Kernel
<1>10. j \in Kernel
  <2>1. k.nr_active \in [ArrayId -> Int] /\ k.bitmap \in SUBSET (ArrayId \X Prio)
    BY <1>1 DEF Kernel
  <2>2. j.nr_active \in [ArrayId -> Int] /\ j.bitmap \in SUBSET (ArrayId \X Prio)
    BY <1>1, <1>4, <2>1
  <2> QED BY <1>2, <1>3, <2>2 DEF Kernel
<1>5. Placed(j, {p})
  BY <1>2, <1>4 DEF Placed
<1>6. Typed(j) /\ \A q \in Pid \ {p} : Fits(j.task[q], j.active)
  BY <1>4, <1>10 DEF Good, Typed
<1>7. j.bitmap = {g \in ArrayId \X Prio : j.queue[g] # <<>>}
  <2>1. h \in k.bitmap
    <3>1. p \in Elements(k.queue[h])
      BY <1>1 DEF Good, Placed, h, a
    <3>2. k.queue[h] \in Seq(Pid)
      BY <1>1 DEF Kernel
    <3>3. k.queue[h] # <<>>
      BY <3>1, <3>2, Ends
    <3> QED BY <1>1, <3>3 DEF Good
  <2>2. k.bitmap = {g \in ArrayId \X Prio : k.queue[g] # <<>>}
    BY DEF Good
  <2>3. ASSUME NEW g \in ArrayId \X Prio, g # h
        PROVE  j.queue[g] = <<>> <=> k.queue[g] = <<>>
    <3>1. k.queue[g] \in Seq(Pid) /\ i.queue[g] \in Seq(Pid)
      BY <1>1, <1>2 DEF Kernel
    <3>2. Elements(i.queue[g]) = Elements(k.queue[g])
      BY <1>2, <2>3
    <3> QED BY <1>4, <3>1, <3>2, Ends
  <2> QED BY <1>1, <1>4, <2>1, <2>2, <2>3
<1>8. \A c \in ArrayId : j.nr_active[c] = Cardinality(Members(j, {p}, c))
  <2> TAKE c \in ArrayId
  <2>1. Members(j, {p}, c) = Members(k, {}, c) \ {p}
    BY <1>4 DEF Members
  <2>2. p \in Members(k, {}, c) <=> c = a
    BY DEF Members, a
  <2>3. IsFiniteSet(Members(k, {}, c))
    BY PidAssumption, FS_Subset DEF Members
  <2>4. Cardinality(Members(j, {p}, c)) =
          IF c = a THEN Cardinality(Members(k, {}, c)) - 1 ELSE Cardinality(Members(k, {}, c))
    BY <2>1, <2>2, <2>3, FS_RemoveElement, ZenonT(60)
  <2>5. k.nr_active[c] = Cardinality(Members(k, {}, c)) /\ k.nr_active \in [ArrayId -> Int]
    BY <1>1 DEF Good, Kernel
  <2> QED BY <1>1, <1>2, <1>4, <2>4, <2>5
<1>9. j.nr_running = Cardinality(Runnable(j, {p})) + (n + 1)
  <2>1. Runnable(j, {p}) = Runnable(k, {}) \ {p}
    BY <1>4 DEF Runnable
  <2>2. p \in Runnable(k, {})
    BY <1>1 DEF Runnable
  <2>3. IsFiniteSet(Runnable(k, {}))
    BY PidAssumption, FS_Subset DEF Runnable
  <2>4. Cardinality(Runnable(j, {p})) = Cardinality(Runnable(k, {})) - 1
    BY <2>1, <2>2, <2>3, FS_RemoveElement
  <2>5. Cardinality(Runnable(k, {})) \in Nat
    BY <2>3, FS_CardinalityType
  <2>6. k.nr_running = Cardinality(Runnable(k, {})) + n
    BY DEF Good
  <2> QED BY <1>4, <2>4, <2>5, <2>6
<1> QED BY <1>4, <1>5, <1>6, <1>7, <1>8, <1>9 DEF Good

\* list_del takes an overdue task off its list, which has neither bit nor counter.
LEMMA DelOverdue ==
  ASSUME NEW k, NEW n \in Int, Good(k, {}, n), NEW p \in Pid,
         is_overdue(k.task[p]), k.task[p].queued, NEW j, j = list_del(k, p)
  PROVE  Good(j, {p}, n + 1)
<1>1. /\ k \in Kernel /\ k.task[p].array = NULL /\ Slot(k.task[p]) \notin ArrayId \X Prio
      /\ Enqueued(k.task[p])
  <2>1. k \in Kernel /\ Fits(k.task[p], k.active)
    BY DEF Good, Typed
  <2> QED BY <2>1 DEF Fits, Enqueued, Slot, ArrayId, NULL
<1>2. /\ j \in Kernel
      /\ j.active = k.active /\ j.nr_active = k.nr_active /\ j.bitmap = k.bitmap
      /\ j.nr_running = k.nr_running
      /\ j.task = k.task
      /\ Placed(j, {p})
      /\ \A h \in ArrayId \X Prio : h # Slot(k.task[p]) => Elements(j.queue[h]) = Elements(k.queue[h])
  BY ListDel
<1>3. Typed(j) /\ \A q \in Pid \ {p} : Fits(j.task[q], j.active)
  BY <1>2 DEF Good, Typed
<1>4. j.bitmap = {h \in ArrayId \X Prio : j.queue[h] # <<>>}
  <2>1. k.bitmap = {h \in ArrayId \X Prio : k.queue[h] # <<>>}
    BY DEF Good
  <2>2. ASSUME NEW h \in ArrayId \X Prio
        PROVE  j.queue[h] = <<>> <=> k.queue[h] = <<>>
    <3>1. k.queue[h] \in Seq(Pid) /\ j.queue[h] \in Seq(Pid)
      BY <1>1, <1>2 DEF Kernel
    <3>2. Elements(j.queue[h]) = Elements(k.queue[h])
      BY <1>1, <1>2
    <3> QED BY <3>1, <3>2, Ends
  <2> QED BY <1>2, <2>1, <2>2
<1>5. \A a \in ArrayId : j.nr_active[a] = Cardinality(Members(j, {p}, a))
  <2> TAKE a \in ArrayId
  <2>1. Members(j, {p}, a) = Members(k, {}, a)
    BY <1>1, <1>2 DEF Members, ArrayId, NULL
  <2> QED BY <1>2, <2>1 DEF Good
<1>6. j.nr_running = Cardinality(Runnable(j, {p})) + (n + 1)
  <2>1. Runnable(j, {p}) = Runnable(k, {}) \ {p}
    BY <1>2 DEF Runnable
  <2>2. p \in Runnable(k, {})
    BY <1>1 DEF Runnable
  <2>3. IsFiniteSet(Runnable(k, {}))
    BY PidAssumption, FS_Subset DEF Runnable
  <2>4. Cardinality(Runnable(j, {p})) = Cardinality(Runnable(k, {})) - 1
    BY <2>1, <2>2, <2>3, FS_RemoveElement
  <2>5. Cardinality(Runnable(k, {})) \in Nat
    BY <2>3, FS_CardinalityType
  <2>6. k.nr_running = Cardinality(Runnable(k, {})) + n
    BY DEF Good
  <2> QED BY <1>2, <2>4, <2>5, <2>6
<1> QED BY <1>2, <1>3, <1>4, <1>5, <1>6 DEF Good

\* The record of a task that hw2_dequeue has taken off its list.
Off(t) == IF is_overdue(t) THEN [t EXCEPT !.queued = FALSE] ELSE t

\* hw2_dequeue takes a queued task off its list, whichever that is.
LEMMA Dequeue ==
  ASSUME NEW k, NEW n \in Int, Good(k, {}, n), NEW p \in Pid, Enqueued(k.task[p]),
         NEW j, j = hw2_dequeue(k, p, k.task[p].array)
  PROVE  /\ Good(j, {p}, n + 1) /\ j.nr_running = k.nr_running
         /\ Only(k, j, p, Off(k.task[p]))
<1> DEFINE u == Off(k.task[p])
<1>1. k \in Kernel /\ k.task[p] \in TaskRecord /\ p \in Task /\ Proper(k.task[p])
  BY DEF Good, Typed, Proper, Task
<1>2. CASE is_overdue(k.task[p])
  <2> DEFINE i == list_del(k, p)
  <2>1. k.task[p].queued
    BY <1>2 DEF Enqueued
  <2>2. Good(i, {p}, n + 1)
    BY <1>2, <2>1, DelOverdue
  <2>3. /\ i \in Kernel /\ i.active = k.active /\ i.nr_running = k.nr_running
        /\ i.nr_uninterruptible = k.nr_uninterruptible
        /\ i.curr = k.curr /\ i.task = k.task
    BY ListDel, ZenonT(60)
  <2>4. j = Set(i, p, u)
    BY <1>2, <2>3 DEF hw2_dequeue, list_del_init, INIT_LIST_HEAD, Off
  <2> HIDE DEF i
  <2>5. u \in TaskRecord /\ Proper(u)
    BY <1>1 DEF Proper, TaskRecord, rt_task, Off
  <2> HIDE DEF u
  <2>6. Good(j, {p}, n + 1)
    BY <2>2, <2>4, <2>5, Written
  <2>7. j \in Kernel /\ SameLists(i, j) /\ j.task = [i.task EXCEPT ![p] = u]
    BY <1>1, <2>3, <2>4, <2>5, SetFields
  <2>8. j.nr_running = k.nr_running /\ Only(k, j, p, u)
    BY <2>3, <2>7 DEF SameLists, Only, Kernel
  <2> QED BY <2>6, <2>8 DEF u
<1>3. CASE ~ is_overdue(k.task[p])
  <2>1. k.task[p].array # NULL
    BY <1>3 DEF Enqueued
  <2>2. j = dequeue_task(k, p, k.task[p].array)
    BY <1>3 DEF hw2_dequeue
  <2>3. /\ Good(j, {p}, n + 1)
        /\ j.active = k.active /\ j.curr = k.curr /\ j.task = k.task
        /\ j.nr_uninterruptible = k.nr_uninterruptible
        /\ j.nr_running = k.nr_running
    BY <2>1, <2>2, DequeueTask
  <2>4. u = k.task[p]
    BY <1>3 DEF Off
  <2>5. k.task \in [Task -> TaskRecord]
    BY <1>1 DEF Kernel
  <2>6. j.task = [k.task EXCEPT ![p] = u]
    BY <1>1, <2>3, <2>4, <2>5
  <2> QED BY <2>3, <2>5, <2>6 DEF Only
<1> QED BY <1>2, <1>3

\* The record of a task that is queued in array a.
Put(t, a) == [t EXCEPT !.array = a, !.queued = TRUE]

\* enqueue_task puts a task on the list of array a and of its priority.
LEMMA EnqueueTask ==
  ASSUME NEW k, NEW n \in Int, NEW p \in Pid, Good(k, {p}, n), NEW a \in ArrayId,
         NEW t, t = Put(k.task[p], a), Fits(t, k.active),
         NEW j, j = enqueue_task(k, p, a)
  PROVE  /\ Good(j, {}, n - 1) /\ j.nr_running = k.nr_running
         /\ Only(k, j, p, t) /\ Enqueued(t)
<1> DEFINE i == Set(k, p, t)
           h == Slot(t)
<1>1. /\ k \in Kernel /\ p \in Task /\ t \in TaskRecord /\ Proper(t)
      /\ t.array = a /\ a # NULL /\ t.prio = k.task[p].prio /\ h \in ArrayId \X Prio
      /\ h = <<a, k.task[p].prio>>
  <2>1. k \in Kernel /\ k.task[p] \in TaskRecord /\ p \in Task /\ Proper(k.task[p])
    BY DEF Good, Typed, Proper, Task
  <2>2. a # NULL
    BY DEF ArrayId, NULL
  <2> QED BY <2>1, <2>2 DEF Proper, TaskRecord, rt_task, Slot, Put
<1>2. ~ is_overdue(t) /\ Enqueued(t)
  BY <1>1 DEF Fits, Enqueued
<1>3. /\ i \in Kernel /\ SameLists(k, i) /\ i.task = [k.task EXCEPT ![p] = t]
  BY <1>1, SetFields
<1>4. Good(i, {p}, n)
  BY <1>1, Written
<1>5. j = [i EXCEPT !.queue[h] = Append(@, p), !.bitmap = @ \cup {h}, !.nr_active[a] = @ + 1]
  BY <1>1 DEF enqueue_task, Put
<1> HIDE DEF i, h
<1>6. /\ j.active = k.active /\ j.nr_running = k.nr_running /\ j.curr = k.curr
      /\ j.nr_uninterruptible = k.nr_uninterruptible
      /\ j.task = [k.task EXCEPT ![p] = t] /\ j.overdue = i.overdue
      /\ j.queue = [i.queue EXCEPT ![h] = Append(i.queue[h], p)]
      /\ j.bitmap = i.bitmap \cup {h}
      /\ j.nr_active = [i.nr_active EXCEPT ![a] = @ + 1]
      /\ i.active = k.active /\ i.nr_running = k.nr_running /\ j.task = i.task
  BY <1>3, <1>5 DEF Kernel, SameLists
<1>7. /\ Append(i.queue[h], p) \in Seq(Pid) /\ Append(i.queue[h], p) # <<>>
      /\ Elements(Append(i.queue[h], p)) = Elements(i.queue[h]) \cup {p}
      /\ NoDuplicates(Append(i.queue[h], p))
  <2>1. i.queue[h] \in Seq(Pid)
    BY <1>1, <1>3 DEF Kernel
  <2>2. p \notin Elements(i.queue[h]) /\ NoDuplicates(i.queue[h])
    BY <1>1, <1>4 DEF Good, Placed
  <2> QED BY <2>1, <2>2, AddedLast, AppendProperties
<1>8. j \in Kernel
  <2>1. /\ i.nr_active \in [ArrayId -> Int] /\ i.bitmap \in SUBSET (ArrayId \X Prio)
        /\ i.queue \in [ArrayId \X Prio -> Seq(Pid)]
    BY <1>3 DEF Kernel
  <2>2. j.nr_active \in [ArrayId -> Int]
    <3>1. j.nr_active = [i.nr_active EXCEPT ![a] = i.nr_active[a] + 1]
      BY <1>6
    <3>2. i.nr_active[a] + 1 \in Int
      BY <2>1
    <3> QED BY <2>1, <3>1, <3>2
  <2>3. j.bitmap \in SUBSET (ArrayId \X Prio)
    BY <1>1, <1>6, <2>1
  <2>4. j.queue \in [ArrayId \X Prio -> Seq(Pid)]
    <3>1. PICK s \in Seq(Pid) : j.queue = [i.queue EXCEPT ![h] = s]
      BY <1>6, <1>7
    <3> QED BY <2>1, <3>1
  <2> QED BY <1>3, <1>5, <2>2, <2>3, <2>4 DEF Kernel
<1>9. Typed(j) /\ \A q \in Pid : Fits(j.task[q], j.active)
  <2>1. \A q \in Pid : Proper(i.task[q])
    BY <1>4 DEF Good, Typed
  <2>2. i.task[p] = t
    BY <1>1, <1>3 DEF Kernel
  <2>3. \A q \in Pid \ {p} : Fits(i.task[q], i.active)
    BY <1>4 DEF Good
  <2>4. Fits(i.task[p], i.active)
    BY <1>6, <2>2
  <2> QED BY <1>4, <1>6, <1>8, <2>1, <2>3, <2>4 DEF Good, Typed
<1>10. i.task[p] = t
  BY <1>1, <1>3 DEF Kernel
<1>11. Placed(j, {})
  <2>1. \A g \in ArrayId \X Prio : g # h => j.queue[g] = i.queue[g]
    BY <1>3, <1>6 DEF Kernel
  <2>2. j.queue[h] = Append(i.queue[h], p)
    BY <1>1, <1>3, <1>6 DEF Kernel
  <2>3. ASSUME NEW x \in Pid, NEW g \in ArrayId \X Prio
        PROVE  x \in Elements(j.queue[g]) <=> g = Slot(i.task[x])
    <3>1. CASE g = h
      <4>1. x \in Elements(j.queue[g]) <=> x \in Elements(i.queue[g]) \/ x = p
        BY <1>7, <2>2, <3>1
      <4> QED BY <1>4, <1>10, <3>1, <4>1 DEF Good, Placed, h
    <3>2. CASE g # h
      <4>1. j.queue[g] = i.queue[g]
        BY <2>1, <3>2
      <4> QED BY <1>4, <1>10, <3>2, <4>1 DEF Good, Placed, h
    <3> QED BY <3>1, <3>2
  <2>4. \A x \in Pid : x \in Elements(j.overdue) <=> is_overdue(i.task[x]) /\ i.task[x].queued
    BY <1>2, <1>4, <1>6, <1>10 DEF Good, Placed
  <2>5. (\A g \in ArrayId \X Prio : NoDuplicates(j.queue[g])) /\ NoDuplicates(j.overdue)
    BY <1>4, <1>6, <1>7, <2>1, <2>2 DEF Good, Placed
  <2>6. j.task = i.task
    BY <1>6
  <2> QED BY <2>3, <2>4, <2>5, <2>6 DEF Placed
<1>12. j.bitmap = {g \in ArrayId \X Prio : j.queue[g] # <<>>}
  <2>1. i.bitmap = {g \in ArrayId \X Prio : i.queue[g] # <<>>}
    BY <1>4 DEF Good
  <2>2. \A g \in ArrayId \X Prio : j.queue[g] # <<>> <=> i.queue[g] # <<>> \/ g = h
    BY <1>1, <1>3, <1>6, <1>7 DEF Kernel
  <2> QED BY <1>1, <1>6, <2>1, <2>2
<1>13. \A c \in ArrayId : j.nr_active[c] = Cardinality(Members(j, {}, c))
  <2> TAKE c \in ArrayId
  <2>0. j.task = i.task /\ (i.task[p].array = c <=> c = a)
    BY <1>1, <1>6, <1>10
  <2>1. Members(j, {}, c) = IF c = a THEN Members(i, {p}, c) \cup {p} ELSE Members(i, {p}, c)
    BY <2>0 DEF Members
  <2>2. p \notin Members(i, {p}, c)
    BY DEF Members
  <2>3. IsFiniteSet(Members(i, {p}, c))
    BY PidAssumption, FS_Subset DEF Members
  <2>4. Cardinality(Members(j, {}, c)) =
          IF c = a THEN Cardinality(Members(i, {p}, c)) + 1 ELSE Cardinality(Members(i, {p}, c))
    BY <2>1, <2>2, <2>3, FS_AddElement
  <2>5. i.nr_active[c] = Cardinality(Members(i, {p}, c)) /\ i.nr_active \in [ArrayId -> Int]
    BY <1>3, <1>4 DEF Good, Kernel
  <2> QED BY <1>6, <2>4, <2>5
<1>14. j.nr_running = Cardinality(Runnable(j, {})) + (n - 1)
  <2>1. Runnable(j, {}) = Runnable(i, {p}) \cup {p}
    BY <1>2, <1>6, <1>10 DEF Runnable
  <2>2. p \notin Runnable(i, {p})
    BY DEF Runnable
  <2>3. IsFiniteSet(Runnable(i, {p}))
    BY PidAssumption, FS_Subset DEF Runnable
  <2>4. Cardinality(Runnable(j, {})) = Cardinality(Runnable(i, {p})) + 1
    BY <2>1, <2>2, <2>3, FS_AddElement
  <2>5. Cardinality(Runnable(i, {p})) \in Nat
    BY <2>3, FS_CardinalityType
  <2>6. i.nr_running = Cardinality(Runnable(i, {p})) + n
    BY <1>4 DEF Good
  <2> QED BY <1>6, <2>4, <2>5, <2>6
<1>15. Good(j, {}, n - 1)
  BY <1>9, <1>11, <1>12, <1>13, <1>14 DEF Good
<1>16. Only(k, j, p, t)
  BY <1>3, <1>6 DEF Only, Kernel
<1> QED BY <1>2, <1>6, <1>15, <1>16

\* list_add at the head of overdue_SHORT.
LEMMA EnqueueOverdueTask ==
  ASSUME NEW k, NEW n \in Int, NEW p \in Pid, Good(k, {p}, n), is_overdue(k.task[p]),
         NEW t, t = Put(k.task[p], NULL),
         NEW j, j = EnqueueOverdue(k, p)
  PROVE  /\ Good(j, {}, n - 1) /\ j.nr_running = k.nr_running
         /\ Only(k, j, p, t) /\ Enqueued(t)
<1> DEFINE i == Set(k, p, t)
<1>1. /\ k \in Kernel /\ p \in Task /\ t \in TaskRecord /\ Proper(t)
      /\ t.array = NULL /\ t.queued /\ is_overdue(t) /\ Enqueued(t) /\ NULL \notin ArrayId
      /\ Slot(t) \notin ArrayId \X Prio
  <2>1. k \in Kernel /\ k.task[p] \in TaskRecord /\ p \in Task /\ Proper(k.task[p])
    BY DEF Good, Typed, Proper, Task
  <2>2. NULL \notin ArrayId
    BY DEF ArrayId, NULL
  <2> QED BY <2>1, <2>2 DEF Proper, TaskRecord, rt_task, is_overdue, is_short, Enqueued, Slot, Put
<1>2. Good(i, {p}, n)
  BY <1>1, Written
<1>3. i \in Kernel /\ SameLists(k, i) /\ i.task = [k.task EXCEPT ![p] = t]
  BY <1>1, SetFields
<1>4. j = [i EXCEPT !.overdue = <<p>> \o @]
  BY DEF EnqueueOverdue, Put
<1> HIDE DEF i
<1>5. /\ j.active = i.active /\ j.nr_active = i.nr_active /\ j.bitmap = i.bitmap
      /\ j.queue = i.queue /\ j.nr_running = i.nr_running /\ j.curr = i.curr
      /\ j.nr_uninterruptible = i.nr_uninterruptible /\ j.task = i.task
      /\ j.overdue = <<p>> \o i.overdue
  BY <1>3, <1>4 DEF Kernel
<1>6. i.task[p] = t
  BY <1>1, <1>3 DEF Kernel
<1>7. /\ j.overdue \in Seq(Pid) /\ Elements(j.overdue) = Elements(i.overdue) \cup {p}
      /\ NoDuplicates(j.overdue)
  <2>1. i.overdue \in Seq(Pid)
    BY <1>3 DEF Kernel
  <2>2. p \notin Elements(i.overdue) /\ NoDuplicates(i.overdue)
    BY <1>2 DEF Good, Placed
  <2> QED BY <1>5, <2>1, <2>2, AddedFirst
<1>8. Typed(j)
  <2>1. j \in Kernel
    BY <1>3, <1>4, <1>5, <1>7 DEF Kernel
  <2> QED BY <1>2, <1>5, <2>1 DEF Good, Typed
<1>9. \A q \in Pid : Fits(j.task[q], j.active)
  <2>1. \A q \in Pid \ {p} : Fits(i.task[q], i.active)
    BY <1>2 DEF Good
  <2>2. Fits(i.task[p], i.active)
    BY <1>1, <1>6 DEF Fits
  <2> QED BY <1>5, <2>1, <2>2
<1>10. Placed(j, {})
  <2>0. j.task = i.task /\ j.queue = i.queue
    BY <1>5
  <2>1. ASSUME NEW x \in Pid, NEW g \in ArrayId \X Prio
        PROVE  x \in Elements(i.queue[g]) <=> g = Slot(i.task[x])
    BY <1>1, <1>2, <1>6 DEF Good, Placed
  <2>2. ASSUME NEW x \in Pid
        PROVE  x \in Elements(j.overdue) <=> is_overdue(i.task[x]) /\ i.task[x].queued
    <3>1. x \in Elements(j.overdue) <=> x \in Elements(i.overdue) \/ x = p
      BY <1>7
    <3>2. x \in Elements(i.overdue) <=> x # p /\ is_overdue(i.task[x]) /\ i.task[x].queued
      BY <1>2 DEF Good, Placed
    <3>3. x = p => is_overdue(i.task[x]) /\ i.task[x].queued
      BY <1>1, <1>6
    <3> QED BY <3>1, <3>2, <3>3
  <2>3. \A g \in ArrayId \X Prio : NoDuplicates(i.queue[g])
    BY <1>2 DEF Good, Placed
  <2> QED BY <1>7, <2>0, <2>1, <2>2, <2>3 DEF Placed
<1>11. \A c \in ArrayId : j.nr_active[c] = Cardinality(Members(j, {}, c))
  <2> TAKE c \in ArrayId
  <2>0. j.task = i.task /\ i.task[p].array # c
    BY <1>1, <1>5, <1>6
  <2>1. Members(j, {}, c) = Members(i, {p}, c)
    BY <2>0 DEF Members
  <2> QED BY <1>2, <1>5, <2>1 DEF Good
<1>12. j.nr_running = Cardinality(Runnable(j, {})) + (n - 1)
  <2>0. j.task = i.task /\ Enqueued(i.task[p])
    BY <1>1, <1>5, <1>6
  <2>1. Runnable(j, {}) = Runnable(i, {p}) \cup {p}
    BY <2>0 DEF Runnable
  <2>2. p \notin Runnable(i, {p})
    BY DEF Runnable
  <2>3. IsFiniteSet(Runnable(i, {p}))
    BY PidAssumption, FS_Subset DEF Runnable
  <2>4. Cardinality(Runnable(j, {})) = Cardinality(Runnable(i, {p})) + 1
    BY <2>1, <2>2, <2>3, FS_AddElement
  <2>5. Cardinality(Runnable(i, {p})) \in Nat
    BY <2>3, FS_CardinalityType
  <2>6. i.nr_running = Cardinality(Runnable(i, {p})) + n
    BY <1>2 DEF Good
  <2> QED BY <1>5, <2>4, <2>5, <2>6
<1>13. j.bitmap = {g \in ArrayId \X Prio : j.queue[g] # <<>>}
  BY <1>2, <1>5 DEF Good
<1>14. Good(j, {}, n - 1)
  BY <1>8, <1>9, <1>10, <1>11, <1>12, <1>13 DEF Good
<1>15. Only(k, j, p, t)
  BY <1>3, <1>5 DEF Only, Kernel, SameLists
<1> QED BY <1>1, <1>3, <1>5, <1>14, <1>15 DEF SameLists

\* hw2_enqueue puts a task where it belongs: overdue_SHORT, active_SHORT, or an array
\* of its own, the expired one for OTHER tasks alone.
LEMMA Enqueue ==
  ASSUME NEW k, NEW n \in Int, NEW p \in Pid, Good(k, {p}, n),
         NEW make_active \in BOOLEAN, make_active \/ k.task[p].policy = "OTHER",
         NEW j, j = hw2_enqueue(k, p, make_active)
  PROVE  /\ Good(j, {}, n - 1) /\ j.nr_running = k.nr_running
         /\ \E a \in ArrayId \cup {NULL} :
              Only(k, j, p, Put(k.task[p], a)) /\ Enqueued(Put(k.task[p], a))
<1>1. CASE is_overdue(k.task[p])
  <2>1. j = EnqueueOverdue(k, p)
    BY <1>1 DEF hw2_enqueue
  <2>2. /\ Good(j, {}, n - 1) /\ j.nr_running = k.nr_running
        /\ Only(k, j, p, Put(k.task[p], NULL)) /\ Enqueued(Put(k.task[p], NULL))
    BY <1>1, <2>1, EnqueueOverdueTask
  <2> QED BY <2>2
<1>2. CASE ~ is_overdue(k.task[p])
  <2>1. PICK a : a = IF is_short(k.task[p]) THEN active_SHORT
                     ELSE IF make_active THEN k.active ELSE expired(k)
    OBVIOUS
  <2>2. k.task[p] \in TaskRecord /\ k.active \in {0, 1}
    BY DEF Good, Typed, Proper, Kernel
  <2>3. a \in ArrayId
    BY <2>1, <2>2 DEF ArrayId, active_SHORT, expired
  <2>4. Fits(Put(k.task[p], a), k.active)
    <3>1. PICK t : t = Put(k.task[p], a)
      OBVIOUS
    <3>2. /\ t.array = a /\ t.policy = k.task[p].policy
          /\ t.remaining_trials = k.task[p].remaining_trials
      BY <2>2, <3>1 DEF TaskRecord, Put
    <3> QED BY <1>2, <2>1, <2>2, <3>1, <3>2 DEF Fits, is_overdue, is_short, active_SHORT, expired
  <2>5. j = enqueue_task(k, p, a)
    BY <1>2, <2>1 DEF hw2_enqueue
  <2>6. /\ Good(j, {}, n - 1) /\ j.nr_running = k.nr_running
        /\ Only(k, j, p, Put(k.task[p], a)) /\ Enqueued(Put(k.task[p], a))
    BY <2>3, <2>4, <2>5, EnqueueTask
  <2> QED BY <2>3, <2>6
<1> QED BY <1>1, <1>2

-----------------------------------------------------------------------------
(* The operators built on these two.                                       *)

\* A task that is not queued may be left out, and one that is off its list and
\* whose fields say so may be counted in.
LEMMA LeftOut ==
  ASSUME NEW k, NEW n \in Int, NEW p \in Pid, Good(k, {}, n), ~ Enqueued(k.task[p])
  PROVE  Good(k, {p}, n)
<1>1. Proper(k.task[p]) /\ Fits(k.task[p], k.active)
  BY DEF Good, Typed
<1>2. /\ k.task[p].array = NULL
      /\ ~ (is_overdue(k.task[p]) /\ k.task[p].queued)
      /\ Slot(k.task[p]) \notin ArrayId \X Prio
  <2>1. k.task[p].array = NULL
    BY <1>1 DEF Fits, Enqueued
  <2>2. Slot(k.task[p]) \notin ArrayId \X Prio
    BY <2>1 DEF Slot, ArrayId, NULL
  <2>3. ~ (is_overdue(k.task[p]) /\ k.task[p].queued)
    BY DEF Enqueued
  <2> QED BY <2>1, <2>2, <2>3
<1>3. Placed(k, {p})
  BY <1>2 DEF Good, Placed
<1>4. ASSUME NEW a \in ArrayId PROVE Members(k, {p}, a) = Members(k, {}, a)
  BY <1>2 DEF Members, ArrayId, NULL
<1>5. Runnable(k, {p}) = Runnable(k, {})
  BY DEF Runnable
<1> QED BY <1>3, <1>4, <1>5 DEF Good

\* A task that is on no list, and says so, may be taken among the settled ones.
LEMMA CountedIn ==
  ASSUME NEW k, NEW n \in Int, NEW p \in Pid, Good(k, {p}, n), ~ Enqueued(k.task[p]),
         k.task[p].array = NULL
  PROVE  Good(k, {}, n)
<1>1. /\ Fits(k.task[p], k.active)
      /\ ~ (is_overdue(k.task[p]) /\ k.task[p].queued)
      /\ Slot(k.task[p]) \notin ArrayId \X Prio
  <2>1. Slot(k.task[p]) \notin ArrayId \X Prio
    BY DEF Slot, ArrayId, NULL
  <2>2. ~ (is_overdue(k.task[p]) /\ k.task[p].queued)
    BY DEF Enqueued
  <2> QED BY <2>1, <2>2 DEF Fits
<1>2. Placed(k, {})
  BY <1>1 DEF Good, Placed
<1>3. ASSUME NEW a \in ArrayId PROVE Members(k, {}, a) = Members(k, {p}, a)
  BY DEF Members, ArrayId, NULL
<1>4. Runnable(k, {}) = Runnable(k, {p})
  BY DEF Runnable
<1> QED BY <1>1, <1>2, <1>3, <1>4 DEF Good

\* From k to j only nr_running, by d, and nr_uninterruptible changed.
Recount(k, j, d) ==
  /\ j.active = k.active /\ j.curr = k.curr /\ j.task = k.task
  /\ j.nr_active = k.nr_active /\ j.bitmap = k.bitmap
  /\ j.queue = k.queue /\ j.overdue = k.overdue
  /\ j.nr_running = k.nr_running + d

\* nr_running++ and --: the count is off by as much as it was moved.
LEMMA Recounted ==
  ASSUME NEW k, NEW n \in Int, NEW S \in SUBSET Pid, Good(k, S, n), NEW d \in Int,
         NEW j \in Kernel, Recount(k, j, d)
  PROVE  Good(j, S, n + d)
<1>1. k \in Kernel
  BY DEF Good, Typed
<1>2. Typed(j) /\ Placed(j, S)
  BY DEF Good, Typed, Placed, Recount
<1>3. Runnable(j, S) = Runnable(k, S) /\ \A a \in ArrayId : Members(j, S, a) = Members(k, S, a)
  BY DEF Runnable, Members, Recount
<1>4. j.nr_running = Cardinality(Runnable(j, S)) + (n + d)
  <2>1. IsFiniteSet(Runnable(k, S))
    BY PidAssumption, FS_Subset DEF Runnable
  <2>2. Cardinality(Runnable(k, S)) \in Nat
    BY <2>1, FS_CardinalityType
  <2>3. k.nr_running = Cardinality(Runnable(k, S)) + n
    BY DEF Good
  <2>4. j.nr_running = k.nr_running + d
    BY DEF Recount
  <2> QED BY <1>3, <2>2, <2>3, <2>4
<1> QED BY <1>2, <1>3, <1>4 DEF Good, Recount

\* From k to j nothing changed but lists, counters of queued tasks, and fields of p other
\* than its state and its policy.
Apart(k, j, p) ==
  /\ j.active = k.active /\ j.curr = k.curr /\ j.nr_uninterruptible = k.nr_uninterruptible
  /\ \A q \in Task \ {p} : j.task[q] = k.task[q]
  /\ j.task[p].state = k.task[p].state /\ j.task[p].policy = k.task[p].policy

\* Two operations on the same task are one on that task.
LEMMA ApartTwice ==
  ASSUME NEW k, NEW p, NEW i, NEW j, Apart(k, i, p), Apart(i, j, p)
  PROVE  Apart(k, j, p)
  BY DEF Apart

\* If p was queued and is again, the processes see no difference.
LEMMA ApartCalm ==
  ASSUME NEW k, NEW p \in Task, NEW j, Apart(k, j, p),
         p \in Pid => (Enqueued(j.task[p]) <=> Enqueued(k.task[p])),
         p \in Pid => Enqueued(k.task[p]) \/ j.task[p].queued = k.task[p].queued
  PROVE  Calm(k, j)
<1>1. \A q \in Task : j.task[q].state = k.task[q].state /\ j.task[q].policy = k.task[q].policy
  BY DEF Apart
<1>2. \A q \in Pid : Enqueued(j.task[q]) <=> Enqueued(k.task[q])
  BY DEF Apart, Task
<1>3. \A q \in Pid : Enqueued(k.task[q]) \/ j.task[q].queued = k.task[q].queued
  BY DEF Apart, Task
<1> QED BY <1>1, <1>2, <1>3 DEF Calm, Apart

\* Two operations the processes do not notice are one they do not notice.
LEMMA CalmTwice ==
  ASSUME NEW k, NEW i, NEW j, Calm(k, i), Calm(i, j)
  PROVE  Calm(k, j)
  BY DEF Calm

\* Writing fields of a task that do not change where it is queued, or any of a task that
\* is on no list.
LEMMA Touched ==
  ASSUME NEW k, NEW S \in SUBSET Pid, NEW n \in Int, Good(k, S, n),
         NEW p \in Task, NEW t \in TaskRecord, p \in Pid => Proper(t),
         p \in S \/ SamePlace(t, k.task[p]),
         t.state = k.task[p].state, t.policy = k.task[p].policy,
         NEW j, j = Set(k, p, t)
  PROVE  Good(j, S, n) /\ Apart(k, j, p) /\ j.task[p] = t /\ SameLists(k, j)
<1>1. k \in Kernel
  BY DEF Good, Typed
<1>2. SameLists(k, j) /\ j.task = [k.task EXCEPT ![p] = t]
  BY <1>1, SetFields
<1>3. j.task[p] = t /\ \A q \in Task \ {p} : j.task[q] = k.task[q]
  BY <1>1, <1>2 DEF Kernel
<1>4. Apart(k, j, p)
  BY <1>2, <1>3 DEF Apart, SameLists
<1>5. CASE p = Idle
  <2>1. t.policy = "OTHER" /\ t.state = "RUNNING"
    BY <1>5 DEF Good, Typed
  <2> QED BY <1>2, <1>3, <1>4, <1>5, <2>1, IdleWritten
<1>6. CASE p \in Pid
  BY <1>2, <1>3, <1>4, <1>6, Written
<1> QED BY <1>5, <1>6 DEF Task

\* The record of p after UPDATE_REASON and resched_task is queued as it was.
LEMMA UpdateReason ==
  ASSUME NEW k, NEW S \in SUBSET Pid, NEW n \in Int, Good(k, S, n),
         NEW p \in Task, NEW res \in 0 .. 7, NEW j, j = UPDATE_REASON(k, p, res)
  PROVE  Good(j, S, n) /\ Apart(k, j, p) /\ SamePlace(j.task[p], k.task[p])
<1>1. CASE j = k
  BY <1>1 DEF Apart, SamePlace
<1>2. CASE j = Set(k, p, [k.task[p] EXCEPT !.reason = res])
  <2>1. PICK t : t = [k.task[p] EXCEPT !.reason = res]
    OBVIOUS
  <2>2. k.task[p] \in TaskRecord
    BY DEF Good, Typed, Kernel
  <2>3. /\ t \in TaskRecord /\ SamePlace(t, k.task[p])
        /\ t.state = k.task[p].state /\ t.policy = k.task[p].policy /\ t.prio = k.task[p].prio
    BY <2>1, <2>2 DEF TaskRecord, SamePlace, is_overdue, is_short
  <2>4. p \in Pid => Proper(t)
    BY <2>3 DEF Good, Typed, Proper, rt_task
  <2>5. j = Set(k, p, t)
    BY <1>2, <2>1
  <2>6. p \in S \/ SamePlace(t, k.task[p])
    BY <2>3
  <2>7. t \in TaskRecord /\ t.state = k.task[p].state /\ t.policy = k.task[p].policy
    BY <2>3
  <2>8. Good(Set(k, p, t), S, n) /\ Apart(k, Set(k, p, t), p) /\ Set(k, p, t).task[p] = t
    BY <2>4, <2>6, <2>7, Touched
  <2> QED BY <2>3, <2>5, <2>8
<1> QED BY <1>1, <1>2 DEF UPDATE_REASON

\* resched_task sets need_resched, and moves no task.
LEMMA ReschedTask ==
  ASSUME NEW k, NEW S \in SUBSET Pid, NEW n \in Int, Good(k, S, n),
         NEW p \in Task, NEW j, j = resched_task(k, p)
  PROVE  Good(j, S, n) /\ Apart(k, j, p) /\ SamePlace(j.task[p], k.task[p])
<1>1. PICK t : t = [k.task[p] EXCEPT !.need_resched = TRUE]
  OBVIOUS
<1>2. k.task[p] \in TaskRecord
  BY DEF Good, Typed, Kernel
<1>3. /\ t \in TaskRecord /\ SamePlace(t, k.task[p])
      /\ t.state = k.task[p].state /\ t.policy = k.task[p].policy /\ t.prio = k.task[p].prio
  BY <1>1, <1>2 DEF TaskRecord, SamePlace, is_overdue, is_short
<1>4. p \in Pid => Proper(t)
  BY <1>3 DEF Good, Typed, Proper, rt_task
<1>5. j = Set(k, p, t)
  BY <1>1 DEF resched_task
<1>6. p \in S \/ SamePlace(t, k.task[p])
  BY <1>3
<1>7. t \in TaskRecord /\ t.state = k.task[p].state /\ t.policy = k.task[p].policy
  BY <1>3
<1>8. Good(Set(k, p, t), S, n) /\ Apart(k, Set(k, p, t), p) /\ Set(k, p, t).task[p] = t
  BY <1>4, <1>6, <1>7, Touched
<1> QED BY <1>3, <1>5, <1>8

\* resched_task with its reason for the switch logger moves no task either.
LEMMA ReschedFor ==
  ASSUME NEW k, NEW S \in SUBSET Pid, NEW n \in Int, Good(k, S, n),
         NEW p \in Task, NEW res \in 0 .. 7, NEW j, j = UPDATE_REASON(resched_task(k, p), p, res)
  PROVE  Good(j, S, n) /\ Apart(k, j, p) /\ SamePlace(j.task[p], k.task[p])
<1>1. PICK i : i = resched_task(k, p)
  OBVIOUS
<1>2. Good(i, S, n) /\ Apart(k, i, p) /\ SamePlace(i.task[p], k.task[p])
  BY <1>1, ReschedTask
<1>3. Good(j, S, n) /\ Apart(i, j, p) /\ SamePlace(j.task[p], i.task[p])
  BY <1>1, <1>2, UpdateReason
<1> QED BY <1>2, <1>3, ApartTwice DEF SamePlace

\* Two records of a task that name one place agree on whether it is queued.
LEMMA SamePlaceQueued ==
  ASSUME NEW t, NEW u, SamePlace(t, u)
  PROVE  (Enqueued(t) <=> Enqueued(u)) /\ t.queued = u.queued
  BY DEF SamePlace, Enqueued

\* Off a list and onto another.
LEMMA DequeueApart ==
  ASSUME NEW k, NEW n \in Int, Good(k, {}, n), NEW p \in Pid, Enqueued(k.task[p]),
         NEW j, j = hw2_dequeue(k, p, k.task[p].array)
  PROVE  Good(j, {p}, n + 1) /\ Apart(k, j, p) /\ j.task[p] = Off(k.task[p])
<1>1. Good(j, {p}, n + 1) /\ Only(k, j, p, Off(k.task[p]))
  BY Dequeue
<1>2. k.task \in [Task -> TaskRecord] /\ p \in Task
  BY DEF Good, Typed, Kernel, Task
<1>3. j.task[p] = Off(k.task[p]) /\ \A q \in Task \ {p} : j.task[q] = k.task[q]
  BY <1>1, <1>2 DEF Only
<1>4. Off(k.task[p]).state = k.task[p].state /\ Off(k.task[p]).policy = k.task[p].policy
  BY <1>2 DEF Off, TaskRecord
<1> QED BY <1>1, <1>3, <1>4 DEF Only, Apart

\* Setting the array of a task, as its enqueue does, is an operation on it alone.
LEMMA PutApart ==
  ASSUME NEW k, k \in Kernel, NEW p \in Pid, NEW a, NEW j, Only(k, j, p, Put(k.task[p], a))
  PROVE  Apart(k, j, p) /\ j.task[p] = Put(k.task[p], a)
<1>1. k.task \in [Task -> TaskRecord] /\ p \in Task
  BY DEF Kernel, Task
<1>2. j.task[p] = Put(k.task[p], a) /\ \A q \in Task \ {p} : j.task[q] = k.task[q]
  BY <1>1 DEF Only
<1>3. Put(k.task[p], a).state = k.task[p].state /\ Put(k.task[p], a).policy = k.task[p].policy
  BY <1>1 DEF Put, TaskRecord
<1> QED BY <1>2, <1>3 DEF Only, Apart

\* Onto the list of its array: enqueue_task puts back the task that was off.
LEMMA EnqueueApart ==
  ASSUME NEW k, NEW n \in Int, NEW p \in Pid, Good(k, {p}, n + 1),
         NEW make_active \in BOOLEAN, make_active \/ k.task[p].policy = "OTHER",
         NEW j, j = hw2_enqueue(k, p, make_active)
  PROVE  Good(j, {}, n) /\ Apart(k, j, p) /\ Enqueued(j.task[p])
<1>1. PICK m \in Int : m = n + 1 /\ m - 1 = n
  OBVIOUS
<1>2. Good(k, {p}, m)
  BY <1>1
<1>3. Good(j, {}, m - 1)
  <2> HIDE <1>1
  <2> QED BY <1>2, Enqueue
<1>4. PICK a \in ArrayId \cup {NULL} : Only(k, j, p, Put(k.task[p], a)) /\ Enqueued(Put(k.task[p], a))
  <2> HIDE <1>1
  <2> QED BY <1>2, Enqueue
<1>5. k \in Kernel
  BY DEF Good, Typed
<1>6. Apart(k, j, p) /\ j.task[p] = Put(k.task[p], a)
  BY <1>4, <1>5, PutApart
<1> QED BY <1>1, <1>3, <1>4, <1>6

\* enqueue_task alone, into an array the task fits.
LEMMA EnqueueTaskApart ==
  ASSUME NEW k, NEW n \in Int, NEW p \in Pid, Good(k, {p}, n + 1), NEW a \in ArrayId,
         a = active_SHORT <=> is_short(k.task[p]), ~ is_overdue(k.task[p]),
         a = 1 - k.active => k.task[p].policy = "OTHER",
         NEW j, j = enqueue_task(k, p, a)
  PROVE  Good(j, {}, n) /\ Apart(k, j, p) /\ Enqueued(j.task[p])
<1>1. PICK m \in Int : m = n + 1 /\ m - 1 = n
  OBVIOUS
<1>2. Good(k, {p}, m)
  BY <1>1
<1>3. Fits(Put(k.task[p], a), k.active)
  <2>1. PICK t : t = Put(k.task[p], a)
    OBVIOUS
  <2>2. k.task[p] \in TaskRecord
    BY DEF Good, Typed, Proper
  <2>3. t.array = a /\ t.policy = k.task[p].policy /\ t.remaining_trials = k.task[p].remaining_trials
    BY <2>1, <2>2 DEF TaskRecord, Put
  <2> QED BY <2>1, <2>3 DEF Fits, is_overdue, is_short
<1>4. /\ Good(j, {}, m - 1)
      /\ Only(k, j, p, Put(k.task[p], a)) /\ Enqueued(Put(k.task[p], a))
  <2> HIDE <1>1
  <2> QED BY <1>2, <1>3, EnqueueTask
<1>5. k \in Kernel
  BY DEF Good, Typed
<1>6. Apart(k, j, p) /\ j.task[p] = Put(k.task[p], a)
  BY <1>4, <1>5, PutApart
<1> QED BY <1>1, <1>4, <1>6

\* hw2_back_of_the_queue never drops a task, and queues none that was not.
LEMMA BackOfTheQueue ==
  ASSUME NEW k, NEW n \in Int, Good(k, {}, n), NEW p \in Task, p \in Pid => Enqueued(k.task[p]),
         NEW j, j = hw2_back_of_the_queue(k, p)
  PROVE  Good(j, {}, n) /\ Apart(k, j, p) /\ Calm(k, j)
<1>1. CASE ~ is_short(k.task[p])
  BY <1>1 DEF hw2_back_of_the_queue, Calm, Apart
<1>2. CASE is_short(k.task[p])
  <2>1. p \in Pid /\ Enqueued(k.task[p])
    BY <1>2 DEF Task, Good, Typed, is_short
  <2>2. PICK i : i = hw2_dequeue(k, p, k.task[p].array)
    OBVIOUS
  <2>3. Good(i, {p}, n + 1) /\ Apart(k, i, p)
    BY <2>1, <2>2, DequeueApart
  <2>4. j = hw2_enqueue(i, p, TRUE)
    BY <1>2, <2>2 DEF hw2_back_of_the_queue
  <2>5. Good(j, {}, n) /\ Apart(i, j, p) /\ Enqueued(j.task[p])
    BY <2>1, <2>3, <2>4, EnqueueApart
  <2>6. Apart(k, j, p)
    BY <2>3, <2>5, ApartTwice
  <2> QED BY <2>1, <2>5, <2>6, ApartCalm
<1> QED BY <1>1, <1>2

\* An overdue task goes to the end of the line, and no other moves.
LEMMA OverduePushBack ==
  ASSUME NEW k, NEW n \in Int, Good(k, {}, n), NEW p \in Task, p \in Pid => Enqueued(k.task[p]),
         NEW j, j = OVERDUE_PUSH_BACK(k, p)
  PROVE  Good(j, {}, n) /\ Calm(k, j)
  BY BackOfTheQueue DEF OVERDUE_PUSH_BACK, Calm

-----------------------------------------------------------------------------
(* Activation, deactivation, wake-up.                                      *)

\* A priority that fits the policy of t.
FitPrio(t, prio) == prio \in Prio /\ (t.policy \in {"FIFO", "RR"} <=> prio < MAX_RT_PRIO)

\* activate_task puts a task that is on no list on the one it belongs to.
LEMMA ActivateTask ==
  ASSUME NEW k, NEW n \in Int, Good(k, {}, n), NEW p \in Pid, ~ Enqueued(k.task[p]),
         NEW prio, FitPrio(k.task[p], prio), NEW j, j = activate_task(k, p, prio)
  PROVE  Good(j, {}, n) /\ Apart(k, j, p) /\ Enqueued(j.task[p])
<1>1. Good(k, {p}, n) /\ k.task[p] \in TaskRecord /\ p \in Task /\ {p} \in SUBSET Pid
  <2>1. Good(k, {p}, n)
    BY LeftOut
  <2> QED BY <2>1 DEF Good, Typed, Proper, Task
<1>2. PICK t : t = [k.task[p] EXCEPT !.prio = prio]
  OBVIOUS
<1>3. t \in TaskRecord /\ t.state = k.task[p].state /\ t.policy = k.task[p].policy /\ t.prio = prio
  BY <1>1, <1>2 DEF TaskRecord, FitPrio, Prio
<1>4. Proper(t)
  BY <1>3 DEF Proper, FitPrio, rt_task
<1>5. PICK i : i = Set(k, p, t)
  OBVIOUS
<1>6. Good(i, {p}, n) /\ Apart(k, i, p)
  BY <1>1, <1>3, <1>4, <1>5, Touched
<1>7. PICK m \in Int : n = m + 1
  OBVIOUS
<1>8. PICK l : l = hw2_enqueue(i, p, TRUE)
  OBVIOUS
<1>9. Good(l, {}, m) /\ Apart(i, l, p) /\ Enqueued(l.task[p])
  BY <1>6, <1>7, <1>8, EnqueueApart
<1>10. j = [l EXCEPT !.nr_running = @ + 1]
  BY <1>2, <1>5, <1>8 DEF activate_task
<1>11. j \in Kernel /\ Recount(l, j, 1)
  <2>1. l \in Kernel /\ l.nr_running \in Int
    BY <1>9 DEF Good, Typed, Kernel
  <2>2. PICK v \in Int : v = l.nr_running + 1
    BY <2>1
  <2>3. j = [l EXCEPT !.nr_running = v]
    BY <1>10, <2>2
  <2>4. j \in Kernel
    BY ONLY <2>1, <2>3, v \in Int DEF Kernel
  <2> QED BY <2>1, <2>2, <2>3, <2>4 DEF Kernel, Recount
<1>12. Good(j, {}, n)
  BY <1>7, <1>9, <1>11, Recounted
<1>n. j.nr_uninterruptible = l.nr_uninterruptible
  BY <1>9, <1>10 DEF Good, Typed, Kernel
<1>13. Apart(i, j, p) /\ Enqueued(j.task[p])
  BY <1>9, <1>11, <1>n DEF Apart, Recount
<1> QED BY <1>6, <1>12, <1>13, ApartTwice

\* Apart, with d more tasks counted as sleeping UNINTERRUPTIBLE.
Beside(k, j, p, d) ==
  /\ j.active = k.active /\ j.curr = k.curr
  /\ \A q \in Task \ {p} : j.task[q] = k.task[q]
  /\ j.task[p].state = k.task[p].state /\ j.task[p].policy = k.task[p].policy
  /\ j.nr_uninterruptible = k.nr_uninterruptible + d

\* The part of t in the count of those that sleep so.
Sleeper(t) == IF t.state = "UNINTERRUPTIBLE" THEN 1 ELSE 0

\* deactivate_task takes a queued task off its list for good, and counts it if it sleeps
\* UNINTERRUPTIBLE.
LEMMA DeactivateTask ==
  ASSUME NEW k, NEW n \in Int, Good(k, {}, n), NEW p \in Pid, Enqueued(k.task[p]),
         NEW j, j = deactivate_task(k, p)
  PROVE  /\ Good(j, {}, n) /\ ~ Enqueued(j.task[p])
         /\ Beside(k, j, p, Sleeper(k.task[p]))
<1>1. PICK l : l = [k EXCEPT !.nr_running = @ - 1,
                             !.nr_uninterruptible =
                               IF k.task[p].state = "UNINTERRUPTIBLE" THEN @ + 1 ELSE @]
  OBVIOUS
<1>2. /\ l \in Kernel /\ Recount(k, l, -1)
      /\ l.nr_uninterruptible = k.nr_uninterruptible + Sleeper(k.task[p])
  <2>1. k \in Kernel /\ k.nr_running \in Int /\ k.nr_uninterruptible \in Int
    BY DEF Good, Typed, Kernel
  <2>2. PICK v \in Int : v = k.nr_running - 1 /\ v = k.nr_running + (-1)
    BY <2>1
  <2>3. PICK u \in Int : /\ u = IF k.task[p].state = "UNINTERRUPTIBLE"
                               THEN k.nr_uninterruptible + 1 ELSE k.nr_uninterruptible
                        /\ u = k.nr_uninterruptible + Sleeper(k.task[p])
    BY <2>1 DEF Sleeper
  <2>4. l = [k EXCEPT !.nr_running = v, !.nr_uninterruptible = u]
    BY <1>1, <2>2, <2>3
  <2>5. l \in Kernel
    BY ONLY <2>1, <2>4, v \in Int, u \in Int DEF Kernel
  <2>6. l.nr_uninterruptible = u
    BY <2>1, <2>4 DEF Kernel
  <2> QED BY <2>1, <2>2, <2>3, <2>4, <2>5, <2>6 DEF Kernel, Recount
<1>3. PICK m \in Int : n = m + 1 /\ n + (-1) = m
  OBVIOUS
<1>4. Good(l, {}, m) /\ l.task = k.task
  BY <1>2, <1>3, Recounted DEF Recount
<1>5. Beside(k, l, p, Sleeper(k.task[p]))
  BY <1>2 DEF Beside, Recount
<1>6. PICK i : i = hw2_dequeue(l, p, l.task[p].array)
  OBVIOUS
<1>7. Good(i, {p}, n) /\ Apart(l, i, p) /\ i.task[p] = Off(l.task[p])
  BY <1>3, <1>4, <1>6, DequeueApart
<1>8. PICK t : t = [i.task[p] EXCEPT !.array = NULL]
  OBVIOUS
<1>9. /\ t \in TaskRecord /\ Proper(t) /\ ~ Enqueued(t) /\ t.array = NULL
      /\ t.state = i.task[p].state /\ t.policy = i.task[p].policy
  <2>1. i.task[p] \in TaskRecord /\ Proper(i.task[p]) /\ l.task[p] \in TaskRecord
    BY <1>4, <1>7 DEF Good, Typed, Proper
  <2>2. is_overdue(i.task[p]) => ~ i.task[p].queued
    BY <1>7, <2>1 DEF Off, TaskRecord, is_overdue, is_short
  <2>3. /\ t \in TaskRecord /\ t.array = NULL /\ t.prio = i.task[p].prio
        /\ t.state = i.task[p].state /\ t.policy = i.task[p].policy
        /\ t.queued = i.task[p].queued /\ t.remaining_trials = i.task[p].remaining_trials
    BY <1>8, <2>1 DEF TaskRecord
  <2>4. Proper(t)
    BY <2>1, <2>3 DEF Proper, rt_task
  <2>5. ~ Enqueued(t)
    BY <2>2, <2>3 DEF Enqueued, is_overdue, is_short
  <2> QED BY <2>3, <2>4, <2>5
<1>10. j = Set(i, p, t)
  BY <1>1, <1>4, <1>6, <1>8 DEF deactivate_task
<1>11. p \in Task /\ {p} \in SUBSET Pid
  BY DEF Task
<1>12. Good(j, {p}, n) /\ Apart(i, j, p) /\ j.task[p] = t
  <2>1. Good(Set(i, p, t), {p}, n) /\ Apart(i, Set(i, p, t), p) /\ Set(i, p, t).task[p] = t
    BY <1>7, <1>9, <1>11, Touched
  <2> QED BY <1>10, <2>1
<1>13. Good(j, {}, n)
  BY <1>9, <1>12, CountedIn
<1>14. Beside(k, j, p, Sleeper(k.task[p]))
  <2>1. Apart(l, j, p)
    BY <1>7, <1>12, ApartTwice
  <2> QED BY <1>5, <2>1 DEF Beside, Apart
<1> QED BY <1>9, <1>12, <1>13, <1>14

States == {"RUNNING", "INTERRUPTIBLE", "UNINTERRUPTIBLE", "ZOMBIE"}

\* From k to j only the state of p changed, to s.
Restated(k, j, p, s) ==
  /\ SameLists(k, j)
  /\ \A q \in Task \ {p} : j.task[q] = k.task[q]
  /\ j.task[p].state = s /\ j.task[p].policy = k.task[p].policy
  /\ Enqueued(j.task[p]) <=> Enqueued(k.task[p])

\* Writing p->state changes nothing but the state of p.
LEMMA StateWritten ==
  ASSUME NEW k, NEW n \in Int, Good(k, {}, n), NEW p \in Pid, NEW s \in States,
         NEW j, j = Set(k, p, [k.task[p] EXCEPT !.state = s])
  PROVE  Good(j, {}, n) /\ Restated(k, j, p, s)
<1>1. k \in Kernel /\ k.task[p] \in TaskRecord /\ Proper(k.task[p]) /\ p \in Task
  BY DEF Good, Typed, Proper, Task
<1>2. PICK t : t = [k.task[p] EXCEPT !.state = s]
  OBVIOUS
<1>3. /\ t \in TaskRecord /\ t.state = s /\ t.prio = k.task[p].prio
      /\ t.policy = k.task[p].policy /\ t.array = k.task[p].array /\ t.queued = k.task[p].queued
      /\ t.remaining_trials = k.task[p].remaining_trials
  BY <1>1, <1>2 DEF TaskRecord, States
<1>4. Proper(t) /\ SamePlace(t, k.task[p])
  BY <1>1, <1>3 DEF Proper, rt_task, SamePlace, is_overdue, is_short
<1>5. j = Set(k, p, t)
  BY <1>2
<1>6. Good(Set(k, p, t), {}, n)
  BY <1>4, Written
<1>7. SameLists(k, j) /\ j.task = [k.task EXCEPT ![p] = t]
  BY <1>1, <1>3, <1>5, SetFields
<1>8. j.task[p] = t /\ \A q \in Task \ {p} : j.task[q] = k.task[q]
  BY <1>1, <1>7 DEF Kernel
<1> QED BY <1>3, <1>4, <1>5, <1>6, <1>7, <1>8, SamePlaceQueued DEF Restated

\* The current task is asked to give way.
LEMMA Hurried ==
  ASSUME NEW k, NEW n \in Int, Good(k, {}, n), NEW c \in Task, NEW res \in 0 .. 7,
         NEW j, j = UPDATE_REASON(resched_task(k, c), c, res)
  PROVE  Good(j, {}, n) /\ Calm(k, j)
<1>1. {} \in SUBSET Pid
  OBVIOUS
<1>2. Good(j, {}, n) /\ Apart(k, j, c) /\ SamePlace(j.task[c], k.task[c])
  BY <1>1, ReschedFor
<1> QED BY <1>2, SamePlaceQueued, ApartCalm

\* The current task is asked to give way, and an overdue one goes to the end of its line.
LEMMA GiveWay ==
  ASSUME NEW k, NEW n \in Int, Good(k, {}, n), NEW c \in Task, c \in Pid => Enqueued(k.task[c]),
         NEW j, j = OVERDUE_PUSH_BACK(UPDATE_REASON(resched_task(k, c), c, PRIO), c)
  PROVE  Good(j, {}, n) /\ Calm(k, j)
<1>1. PICK i : i = UPDATE_REASON(resched_task(k, c), c, PRIO)
  OBVIOUS
<1>2. PRIO \in 0 .. 7 /\ {} \in SUBSET Pid
  BY DEF PRIO
<1>3. Good(i, {}, n) /\ Apart(k, i, c) /\ SamePlace(i.task[c], k.task[c])
  BY <1>1, <1>2, ReschedFor
<1>4. Enqueued(i.task[c]) <=> Enqueued(k.task[c])
  BY <1>3, SamePlaceQueued
<1>5. Calm(k, i)
  BY <1>3, <1>4, ApartCalm
<1>6. Good(j, {}, n) /\ Calm(i, j)
  BY <1>1, <1>3, <1>4, OverduePushBack
<1> QED BY <1>5, <1>6, CalmTwice

\* From k to j task p became runnable, if it was not, and no other task's state changed.
Wakes(k, j, p) ==
  /\ j.active = k.active /\ j.curr = k.curr
  /\ \A q \in Task : j.task[q].policy = k.task[q].policy
  /\ \A q \in Task \ {p} : j.task[q].state = k.task[q].state
  /\ \A q \in Pid \ {p} : Enqueued(j.task[q]) <=> Enqueued(k.task[q])
  /\ \A q \in Pid \ {p} : Enqueued(k.task[q]) \/ j.task[q].queued = k.task[q].queued
  /\ j.task[p].state = "RUNNING" /\ Enqueued(j.task[p])

\* try_to_wake_up queues the task, once.
LEMMA TryToWakeUp ==
  ASSUME NEW k, NEW n \in Int, Good(k, {}, n), NEW p \in Pid, NEW prio, FitPrio(k.task[p], prio),
         k.curr \in Pid => Enqueued(k.task[k.curr]), NEW j, j = try_to_wake_up(k, p, prio)
  PROVE  /\ Good(j, {}, n) /\ Wakes(k, j, p)
         /\ j.nr_uninterruptible = IF Enqueued(k.task[p]) THEN k.nr_uninterruptible
                                   ELSE k.nr_uninterruptible - Sleeper(k.task[p])
<1>1. k \in Kernel /\ p \in Task /\ "RUNNING" \in States /\ k.curr \in Task /\ Pid \subseteq Task
  BY DEF Good, Typed, Kernel, Task, States
<1>2. CASE Enqueued(k.task[p])
  <2>1. j = Set(k, p, [k.task[p] EXCEPT !.state = "RUNNING"])
    BY <1>2 DEF try_to_wake_up
  <2>2. Good(j, {}, n) /\ Restated(k, j, p, "RUNNING")
    BY <1>1, <2>1, StateWritten
  <2>3. \A q \in Task : j.task[q].policy = k.task[q].policy
    BY <2>2 DEF Restated
  <2> QED BY <1>1, <1>2, <2>2, <2>3 DEF Restated, Wakes, SameLists
<1>3. CASE ~ Enqueued(k.task[p])
  <2>1. PICK i : i = [k EXCEPT !.nr_uninterruptible =
                        IF k.task[p].state = "UNINTERRUPTIBLE" THEN @ - 1 ELSE @]
    OBVIOUS
  <2>2. /\ i \in Kernel /\ Recount(k, i, 0)
        /\ i.nr_uninterruptible = k.nr_uninterruptible - Sleeper(k.task[p])
    <3>1. k.nr_running \in Int /\ k.nr_uninterruptible \in Int
      BY <1>1 DEF Kernel
    <3>2. PICK u \in Int : /\ u = IF k.task[p].state = "UNINTERRUPTIBLE"
                                 THEN k.nr_uninterruptible - 1 ELSE k.nr_uninterruptible
                          /\ u = k.nr_uninterruptible - Sleeper(k.task[p])
      BY <3>1 DEF Sleeper
    <3>3. i = [k EXCEPT !.nr_uninterruptible = u]
      BY <2>1, <3>2
    <3>4. i \in Kernel
      BY ONLY <1>1, <3>3, u \in Int DEF Kernel
    <3>5. k.nr_running = k.nr_running + 0
      BY <3>1
    <3>6. i.nr_uninterruptible = u
      BY <1>1, <3>3 DEF Kernel
    <3> QED BY <1>1, <3>2, <3>3, <3>4, <3>5, <3>6 DEF Kernel, Recount
  <2>3. Good(i, {}, n) /\ i.task = k.task /\ i.curr = k.curr /\ i.active = k.active
    <3>1. Good(i, {}, n + 0)
      BY <2>2, Recounted
    <3> QED BY <2>2, <3>1 DEF Recount
  <2>4. PICK l : l = activate_task(i, p, prio)
    OBVIOUS
  <2>5. Good(l, {}, n) /\ Apart(i, l, p) /\ Enqueued(l.task[p])
    BY <1>3, <2>3, <2>4, ActivateTask
  <2>6. /\ l.active = k.active /\ l.curr = k.curr
        /\ \A q \in Task : l.task[q].policy = k.task[q].policy /\ l.task[q].state = k.task[q].state
        /\ \A q \in Pid \ {p} : Enqueued(l.task[q]) <=> Enqueued(k.task[q])
        /\ \A q \in Pid \ {p} : l.task[q].queued = k.task[q].queued
    BY <1>1, <2>3, <2>5 DEF Apart
  <2>7. PICK m : m = IF should_switch(l.task[k.curr], l.task[p])
                     THEN OVERDUE_PUSH_BACK(UPDATE_REASON(resched_task(l, k.curr), k.curr, PRIO), k.curr)
                     ELSE l
    OBVIOUS
  <2>8. Good(m, {}, n) /\ Calm(l, m)
    <3>1. k.curr \in Pid => Enqueued(l.task[k.curr])
      BY <2>5, <2>6
    <3>2. CASE m = l
      BY <2>5, <3>2 DEF Calm
    <3>3. CASE m = OVERDUE_PUSH_BACK(UPDATE_REASON(resched_task(l, k.curr), k.curr, PRIO), k.curr)
      BY <1>1, <2>5, <3>1, <3>3, GiveWay
    <3> QED BY <2>7, <3>2, <3>3
  <2>9. j = Set(m, p, [m.task[p] EXCEPT !.state = "RUNNING"])
    BY <1>3, <2>1, <2>4, <2>7 DEF try_to_wake_up
  <2>10. Good(j, {}, n) /\ Restated(m, j, p, "RUNNING")
    BY <1>1, <2>8, <2>9, StateWritten
  <2>11. Enqueued(j.task[p])
    BY <2>5, <2>8, <2>10 DEF Restated, Calm
  <2>12. j.active = k.active /\ j.curr = k.curr
    BY <2>6, <2>8, <2>10 DEF Restated, Calm, SameLists
  <2>13. ASSUME NEW q \in Task
         PROVE  j.task[q].policy = k.task[q].policy
    BY <2>6, <2>8, <2>10 DEF Restated, Calm
  <2>14. ASSUME NEW q \in Task, q # p
         PROVE  j.task[q].state = k.task[q].state
    BY <2>6, <2>8, <2>10, <2>14 DEF Restated, Calm
  <2>15. ASSUME NEW q \in Pid, q # p
         PROVE  /\ Enqueued(j.task[q]) <=> Enqueued(k.task[q])
                /\ Enqueued(k.task[q]) \/ j.task[q].queued = k.task[q].queued
    <3>1. j.task[q] = m.task[q]
      BY <1>1, <2>10, <2>15 DEF Restated
    <3> QED BY <2>6, <2>8, <2>15, <3>1 DEF Calm
  <2>16. j.task[p].state = "RUNNING"
    BY <2>10 DEF Restated
  <2>17. j.nr_uninterruptible = k.nr_uninterruptible - Sleeper(k.task[p])
    BY <2>2, <2>5, <2>8, <2>10 DEF Apart, Calm, Restated, SameLists
  <2> QED BY <1>3, <2>10, <2>11, <2>12, <2>13, <2>14, <2>15, <2>16, <2>17 DEF Wakes
<1> QED BY <1>2, <1>3

\* wake_up_forked_process queues a task that has never run.
LEMMA WakeUpForkedProcess ==
  ASSUME NEW k, NEW n \in Int, Good(k, {}, n), NEW p \in Pid, NEW prio, FitPrio(k.task[p], prio),
         ~ Enqueued(k.task[p]), NEW j, j = wake_up_forked_process(k, p, prio)
  PROVE  /\ Good(j, {}, n) /\ Wakes(k, j, p)
         /\ j.nr_uninterruptible = k.nr_uninterruptible
<1>1. PICK i : i = Set(k, p, [k.task[p] EXCEPT !.state = "RUNNING"])
  OBVIOUS
<1>2. Good(i, {}, n) /\ Restated(k, i, p, "RUNNING")
  BY <1>1, StateWritten DEF States
<1>3. ~ Enqueued(i.task[p]) /\ FitPrio(i.task[p], prio)
  BY <1>2 DEF Restated, FitPrio
<1>4. j = activate_task(i, p, prio)
  BY <1>1 DEF wake_up_forked_process
<1>5. Good(j, {}, n) /\ Apart(i, j, p) /\ Enqueued(j.task[p])
  BY <1>2, <1>3, <1>4, ActivateTask
<1>6. Wakes(k, j, p) /\ j.nr_uninterruptible = k.nr_uninterruptible
  BY <1>2, <1>5 DEF Restated, Apart, Wakes, SameLists, Task
<1> QED BY <1>5, <1>6

-----------------------------------------------------------------------------
(* Priorities and slices.                                                  *)

\* The MAX and MIN macros, on two integers.
LEMMA MaxMin ==
  ASSUME NEW a \in Int, NEW b \in Int
  PROVE  Max({a, b}) = (IF a >= b THEN a ELSE b) /\ Min({a, b}) = (IF a <= b THEN a ELSE b)
<1>1. \E x \in {a, b} : \A y \in {a, b} : x >= y
  BY DEF Max
<1>2. \E x \in {a, b} : \A y \in {a, b} : x <= y
  OBVIOUS
<1>3. Max({a, b}) \in {a, b} /\ \A y \in {a, b} : Max({a, b}) >= y
  BY <1>1 DEF Max
<1>4. Min({a, b}) \in {a, b} /\ \A y \in {a, b} : Min({a, b}) <= y
  BY <1>2 DEF Min
<1> QED BY <1>3, <1>4

\* effective_prio clamps its result into the priorities of OTHER and SHORT tasks.
LEMMA EffectivePrio ==
  ASSUME NEW t \in TaskRecord, NEW prio \in effective_prio(t)
  PROVE  prio \in UserPrio
<1>1. t.static_prio \in UserPrio
  BY DEF TaskRecord
<1>2. CASE is_short(t)
  BY <1>1, <1>2 DEF effective_prio
<1>3. CASE ~ is_short(t)
  <2>1. PICK b \in Bonus : prio = Min({Max({t.static_prio - b, MAX_RT_PRIO}), MAX_PRIO - 1})
    BY <1>3 DEF effective_prio
  <2>2. PICK m : m = Max({t.static_prio - b, MAX_RT_PRIO})
    OBVIOUS
  <2>3. b \in Int /\ t.static_prio \in Int /\ MAX_RT_PRIO \in Int /\ MAX_PRIO - 1 \in Int
    BY <1>1, PrioAssumption, BonusAssumption DEF UserPrio, MAX_RT_PRIO
  <2>4. t.static_prio - b \in Int
    BY <2>3
  <2>5. m \in Int /\ m >= MAX_RT_PRIO
    BY <2>2, <2>3, <2>4, MaxMin
  <2>6. prio = IF m <= MAX_PRIO - 1 THEN m ELSE MAX_PRIO - 1
    BY <2>1, <2>2, <2>3, <2>5, MaxMin, ZenonT(60)
  <2> QED BY <2>5, <2>6, PrioAssumption DEF UserPrio, MAX_RT_PRIO
<1> QED BY <1>2, <1>3

\* A user priority fits the policies OTHER and SHORT.
LEMMA UserPrioFits ==
  ASSUME NEW t, t.policy \in {"OTHER", "SHORT"}, NEW prio \in UserPrio
  PROVE  FitPrio(t, prio)
  BY PrioAssumption DEF FitPrio, UserPrio, Prio, MAX_RT_PRIO

\* A task is never activated with a priority that does not fit its policy.
LEMMA ActivationPrio ==
  ASSUME NEW t, Proper(t), NEW prio \in ActivationPrios(t)
  PROVE  FitPrio(t, prio)
<1>1. CASE prio = t.prio
  BY <1>1 DEF Proper, FitPrio, rt_task
<1>2. CASE prio # t.prio
  <2>1. ~ rt_task(t) /\ prio \in effective_prio(t)
    BY <1>2 DEF ActivationPrios
  <2>2. t.policy \in {"OTHER", "SHORT"} /\ t \in TaskRecord
    BY <2>1 DEF Proper, TaskRecord, Policies
  <2> QED BY <2>1, <2>2, EffectivePrio, UserPrioFits
<1> QED BY <1>1, <1>2

\* A product of naturals is natural: slices are products and quotients.
LEMMA Product == ASSUME NEW a \in Nat, NEW b \in Nat PROVE a * b \in Nat
  OBVIOUS

\* So is a quotient by a positive one.
LEMMA Quotient == ASSUME NEW a \in Nat, NEW b \in Nat, b > 0 PROVE a \div b \in Nat
  OBVIOUS

\* TASK_TIMESLICE, the conversion of milliseconds and --time_slice (unsigned) stay natural.
LEMMA Slices ==
  ASSUME NEW t \in TaskRecord
  PROVE  /\ TASK_TIMESLICE(t) \in Nat
         /\ hw2_ms_to_ticks(t.requested_time) \in Nat
         /\ Decremented(t.time_slice) \in Nat
<1>1. t.static_prio \in UserPrio /\ t.requested_time \in Nat /\ t.time_slice \in Nat
  BY DEF TaskRecord
<1>2. TASK_TIMESLICE(t) \in Nat
  <2>1. PICK a \in Nat : a = MAX_TIMESLICE - MIN_TIMESLICE
    BY SliceAssumption
  <2>2. PICK b \in Nat : b = MAX_PRIO - 1 - t.static_prio
    BY <1>1, PrioAssumption DEF UserPrio, MAX_RT_PRIO
  <2>3. PICK c \in Nat : c = MAX_PRIO - 1 - MAX_RT_PRIO /\ c > 0
    BY PrioAssumption DEF MAX_RT_PRIO
  <2>4. (a * b) \div c \in Nat
    BY <2>3, Product, Quotient
  <2>5. TASK_TIMESLICE(t) = MIN_TIMESLICE + ((a * b) \div c)
    BY <2>1, <2>2, <2>3 DEF TASK_TIMESLICE
  <2> QED BY <2>4, <2>5, SliceAssumption
<1>3. hw2_ms_to_ticks(t.requested_time) \in Nat
  BY <1>1, SliceAssumption, Product, Quotient DEF hw2_ms_to_ticks
<1>4. Decremented(t.time_slice) \in Nat
  BY <1>1, SliceAssumption DEF Decremented
<1> QED BY <1>2, <1>3, <1>4

-----------------------------------------------------------------------------
(* scheduler_tick.                                                         *)

\* The end of a slice asks for a switch, and moves no task.
LEMMA EndOfTurn ==
  ASSUME NEW k, NEW S \in SUBSET Pid, NEW n \in Int, Good(k, S, n), NEW p \in Task,
         NEW j, j = EndOfSlice(k, p)
  PROVE  Good(j, S, n) /\ Apart(k, j, p) /\ SamePlace(j.task[p], k.task[p])
<1>1. j = UPDATE_REASON(resched_task(k, p), p, SLICE) /\ SLICE \in 0 .. 7
  BY DEF EndOfSlice, SLICE
<1> QED BY <1>1, ReschedFor

\* The current task is queued.
CurrQueued(k) == k.curr \in Pid => Enqueued(k.task[k.curr])

\* A real-time task that used up its slice goes to the end of its list.
LEMMA TickedRealTime ==
  ASSUME NEW k, NEW n \in Int, Good(k, {}, n), NEW p \in Pid, Enqueued(k.task[p]),
         is_short(k.task[p]) \/ k.task[p].array = k.active,
         NEW j, j = TickRealTime(k, p)
  PROVE  Good(j, {}, n) /\ Calm(k, j)
<1> DEFINE t == k.task[p]
<1>1. t \in TaskRecord /\ Proper(t) /\ p \in Task /\ {} \in SUBSET Pid /\ k.active \in {0, 1}
  BY DEF Good, Typed, Proper, Task, Kernel
<1>2. CASE t.policy # "RR"
  BY <1>2 DEF TickRealTime, Calm
<1>3. CASE t.policy = "RR" /\ Decremented(t.time_slice) # 0
  <2>1. PICK u : u = [t EXCEPT !.time_slice = Decremented(@)]
    OBVIOUS
  <2>2. /\ u \in TaskRecord /\ Proper(u) /\ SamePlace(u, t)
        /\ u.state = t.state /\ u.policy = t.policy
    <3>1. Decremented(t.time_slice) \in Nat
      BY <1>1, Slices
    <3>2. u = [t EXCEPT !.time_slice = Decremented(t.time_slice)]
      BY <2>1
    <3>3. u \in TaskRecord
      BY <1>1, <3>1, <3>2 DEF TaskRecord
    <3>4. /\ u.array = t.array /\ u.queued = t.queued /\ u.prio = t.prio
          /\ u.remaining_trials = t.remaining_trials
          /\ u.state = t.state /\ u.policy = t.policy
      BY <1>1, <3>2 DEF TaskRecord
    <3> QED BY <1>1, <3>3, <3>4 DEF Proper, rt_task, SamePlace, is_overdue, is_short
  <2>3. j = Set(k, p, u)
    BY <1>3, <2>1 DEF TickRealTime
  <2>4. Good(j, {}, n) /\ Apart(k, j, p) /\ j.task[p] = u
    <3>1. Good(Set(k, p, u), {}, n) /\ Apart(k, Set(k, p, u), p) /\ Set(k, p, u).task[p] = u
      BY <1>1, <2>2, Touched
    <3> QED BY <2>3, <3>1
  <2> QED BY <1>1, <2>2, <2>4, SamePlaceQueued, ApartCalm
<1>4. CASE t.policy = "RR" /\ Decremented(t.time_slice) = 0
  <2>1. PICK u : u = [t EXCEPT !.time_slice = TASK_TIMESLICE(t), !.first_time_slice = FALSE]
    OBVIOUS
  <2>2. /\ u \in TaskRecord /\ Proper(u) /\ SamePlace(u, t)
        /\ u.state = t.state /\ u.policy = t.policy
    <3>1. TASK_TIMESLICE(t) \in Nat
      BY <1>1, Slices
    <3>2. /\ u \in TaskRecord
          /\ u.array = t.array /\ u.queued = t.queued /\ u.prio = t.prio
          /\ u.remaining_trials = t.remaining_trials
          /\ u.state = t.state /\ u.policy = t.policy
      BY <1>1, <2>1, <3>1 DEF TaskRecord
    <3> QED BY <1>1, <3>2 DEF Proper, rt_task, SamePlace, is_overdue, is_short
  <2>3. PICK i : i = Set(k, p, u)
    OBVIOUS
  <2>4. Good(i, {}, n) /\ Apart(k, i, p) /\ i.task[p] = u
    <3>1. Good(Set(k, p, u), {}, n) /\ Apart(k, Set(k, p, u), p) /\ Set(k, p, u).task[p] = u
      BY <1>1, <2>2, Touched
    <3> QED BY <2>3, <3>1
  <2>5. PICK l : l = EndOfSlice(i, p)
    OBVIOUS
  <2>6. Good(l, {}, n) /\ Apart(i, l, p) /\ SamePlace(l.task[p], i.task[p])
    BY <1>1, <2>4, <2>5, EndOfTurn
  <2>7. Apart(k, l, p)
    BY <2>4, <2>6, ApartTwice
  <2>8. l.task[p].array = l.active /\ l.active = k.active /\ l.task[p].policy = "RR"
    BY <1>4, <2>2, <2>4, <2>6, <2>7 DEF SamePlace, Apart, is_short
  <2>9. l.task[p].array # NULL
    BY <1>1, <2>8 DEF NULL
  <2>10. PICK m : m = dequeue_task(l, p, l.task[p].array)
    OBVIOUS
  <2>11. Good(m, {p}, n + 1) /\ Apart(l, m, p) /\ m.task = l.task /\ m.active = l.active
    <3>1. /\ Good(m, {p}, n + 1)
          /\ m.active = l.active /\ m.curr = l.curr /\ m.task = l.task
          /\ m.nr_uninterruptible = l.nr_uninterruptible
      BY <2>6, <2>9, <2>10, DequeueTask
    <3> QED BY <3>1 DEF Apart
  <2>12. j = enqueue_task(m, p, l.active)
    BY <1>4, <2>1, <2>3, <2>5, <2>8, <2>10 DEF TickRealTime
  <2>13. Good(j, {}, n) /\ Apart(m, j, p) /\ Enqueued(j.task[p])
    <3>1. /\ l.active \in ArrayId /\ l.active # active_SHORT /\ l.active # 1 - m.active
          /\ ~ is_short(m.task[p]) /\ ~ is_overdue(m.task[p])
      BY <1>1, <2>8, <2>11 DEF ArrayId, active_SHORT, is_short, is_overdue
    <3> QED BY <2>11, <2>12, <3>1, EnqueueTaskApart
  <2>14. Apart(k, j, p)
    BY <2>7, <2>11, <2>13, ApartTwice
  <2> QED BY <1>1, <2>13, <2>14, ApartCalm
<1> QED BY <1>2, <1>3, <1>4

\* An OTHER task that used up its slice moves to one of its arrays.
LEMMA OtherExpired ==
  ASSUME NEW k, NEW n \in Int, Good(k, {}, n), NEW p \in Pid, k.task[p].policy = "OTHER",
         k.task[p].array = k.active, NEW prio \in UserPrio, NEW stay \in BOOLEAN,
         NEW j, j = ExpireOther(k, p, prio, stay)
  PROVE  Good(j, {}, n) /\ Calm(k, j)
<1>1. /\ k.task[p] \in TaskRecord /\ p \in Task /\ {p} \in SUBSET Pid /\ k.active \in {0, 1}
      /\ n + 1 \in Int
  BY DEF Good, Typed, Proper, Task, Kernel
<1>2. k.task[p].array # NULL /\ Enqueued(k.task[p])
  BY <1>1 DEF NULL, Enqueued, is_overdue, is_short
<1>3. PICK m : m = dequeue_task(k, p, k.task[p].array)
  OBVIOUS
<1>4. Good(m, {p}, n + 1) /\ Apart(k, m, p)
  <2>1. /\ Good(m, {p}, n + 1)
        /\ m.active = k.active /\ m.curr = k.curr /\ m.task = k.task
        /\ m.nr_uninterruptible = k.nr_uninterruptible
    BY <1>2, <1>3, DequeueTask
  <2> QED BY <2>1 DEF Apart
<1>5. PICK l : l = EndOfSlice(m, p)
  OBVIOUS
<1>6. Good(l, {p}, n + 1) /\ Apart(m, l, p)
  BY <1>1, <1>4, <1>5, EndOfTurn
<1>7. PICK u : u = [l.task[p] EXCEPT !.prio = prio, !.first_time_slice = FALSE,
                                     !.time_slice = TASK_TIMESLICE(l.task[p])]
  OBVIOUS
<1>8. l.task[p] \in TaskRecord /\ l.task[p].policy = "OTHER" /\ l.active = k.active
  <2>1. l.task[p] \in TaskRecord
    BY <1>6 DEF Good, Typed, Proper
  <2> QED BY <1>4, <1>6, <2>1 DEF Apart
<1>9. /\ u \in TaskRecord /\ Proper(u)
      /\ u.state = l.task[p].state /\ u.policy = l.task[p].policy
  <2>1. TASK_TIMESLICE(l.task[p]) \in Nat
    BY <1>8, Slices
  <2>2. prio \in Int /\ prio \in Prio /\ ~ (prio < MAX_RT_PRIO)
    BY PrioAssumption DEF UserPrio, Prio, MAX_RT_PRIO
  <2>3. /\ u \in TaskRecord /\ u.prio = prio
        /\ u.state = l.task[p].state /\ u.policy = l.task[p].policy
    BY <1>7, <1>8, <2>1, <2>2 DEF TaskRecord
  <2> QED BY <1>8, <2>2, <2>3 DEF Proper, rt_task
<1>10. PICK i : i = Set(l, p, u)
  OBVIOUS
<1>11. Good(i, {p}, n + 1) /\ Apart(l, i, p)
  BY <1>1, <1>6, <1>9, <1>10, Touched
<1>12. PICK a : a = IF stay THEN k.active ELSE expired(k)
  OBVIOUS
<1>13. j = enqueue_task(i, p, a)
  BY <1>3, <1>5, <1>7, <1>10, <1>12 DEF ExpireOther
<1>14. Good(j, {}, n) /\ Apart(i, j, p) /\ Enqueued(j.task[p])
  <2>1. a \in ArrayId /\ a # active_SHORT
    BY <1>1, <1>12 DEF expired, ArrayId, active_SHORT
  <2>2. i.task[p].policy = "OTHER"
    BY <1>8, <1>11 DEF Apart
  <2>3. ~ is_short(i.task[p]) /\ ~ is_overdue(i.task[p])
    BY <2>2 DEF is_short, is_overdue
  <2> QED BY <1>11, <1>13, <2>1, <2>2, <2>3, EnqueueTaskApart
<1>15. Apart(k, j, p)
  BY <1>4, <1>6, <1>11, <1>14, ApartTwice
<1> QED BY <1>1, <1>2, <1>14, <1>15, ApartCalm

\* A SHORT task that used up a trial, the last one included, is queued again.
LEMMA ShortExpired ==
  ASSUME NEW k, NEW n \in Int, Good(k, {}, n), NEW p \in Pid, Enqueued(k.task[p]),
         is_short(k.task[p]), ~ is_overdue(k.task[p]),
         NEW j, j = ExpireShort(k, p)
  PROVE  Good(j, {}, n) /\ Calm(k, j)
<1>1. /\ k.task[p] \in TaskRecord /\ p \in Task /\ {p} \in SUBSET Pid /\ n + 1 \in Int
  BY DEF Good, Typed, Proper, Task
<1>2. PICK m : m = hw2_dequeue(k, p, k.task[p].array)
  OBVIOUS
<1>3. Good(m, {p}, n + 1) /\ Apart(k, m, p) /\ m.task[p] = k.task[p]
  <2>1. Good(m, {p}, n + 1) /\ Apart(k, m, p) /\ m.task[p] = Off(k.task[p])
    BY <1>2, DequeueApart
  <2> QED BY <2>1 DEF Off
<1>4. PICK l : l = EndOfSlice(m, p)
  OBVIOUS
<1>5. Good(l, {p}, n + 1) /\ Apart(m, l, p) /\ SamePlace(l.task[p], m.task[p])
  BY <1>1, <1>3, <1>4, EndOfTurn
<1>6. PICK t : t = l.task[p]
  OBVIOUS
<1>7. t \in TaskRecord /\ Proper(t) /\ t.remaining_trials # 0
  <2>1. l.task[p] \in TaskRecord /\ Proper(l.task[p])
    BY <1>5 DEF Good, Typed, Proper
  <2> QED BY <1>3, <1>5, <1>6, <2>1 DEF SamePlace, is_overdue, is_short
<1>8. PICK trials : trials = t.remaining_trials - 1
  OBVIOUS
<1>9. PICK slice : slice = hw2_ms_to_ticks(t.requested_time) \div (t.current_trial + 1)
  OBVIOUS
<1>10. trials \in Nat /\ slice \in Nat
  <2>1. t.remaining_trials \in Nat /\ t.current_trial \in Nat
    BY <1>7 DEF TaskRecord
  <2>2. trials \in Nat
    BY <1>7, <1>8, <2>1
  <2>3. hw2_ms_to_ticks(t.requested_time) \in Nat
    BY <1>7, Slices
  <2>4. t.current_trial + 1 \in Nat /\ t.current_trial + 1 > 0
    BY <2>1
  <2> QED BY <1>9, <2>2, <2>3, <2>4, Quotient
<1>11. PICK t1 : t1 = [t EXCEPT !.first_time_slice = FALSE, !.remaining_trials = trials,
                                !.current_trial = @ + 1, !.time_slice = slice]
  OBVIOUS
<1>12. /\ t1 \in TaskRecord /\ Proper(t1) /\ t1.state = t.state /\ t1.policy = t.policy
  <2>0. PICK v \in Nat : v = t.current_trial + 1
    BY <1>7 DEF TaskRecord
  <2>1. /\ t1 \in TaskRecord /\ t1.prio = t.prio
        /\ t1.state = t.state /\ t1.policy = t.policy
    <3>1. t1 = [t EXCEPT !.first_time_slice = FALSE, !.remaining_trials = trials,
                         !.current_trial = v, !.time_slice = slice]
      BY <1>11, <2>0
    <3> HIDE <2>0
    <3> QED BY <1>7, <1>10, <3>1, v \in Nat DEF TaskRecord
  <2> QED BY <1>7, <2>1 DEF Proper, rt_task
<1>13. PICK i : i = Set(l, p, t1)
  OBVIOUS
<1>14. Good(i, {p}, n + 1) /\ Apart(l, i, p)
  BY <1>1, <1>5, <1>6, <1>12, <1>13, Touched
<1>15. ASSUME NEW i2, i2 = INIT_LIST_HEAD(i, p)
       PROVE  Good(i2, {p}, n + 1) /\ Apart(i, i2, p)
  <2>1. PICK u : u = [i.task[p] EXCEPT !.queued = FALSE]
    OBVIOUS
  <2>2. i.task[p] \in TaskRecord /\ Proper(i.task[p])
    BY <1>14 DEF Good, Typed, Proper
  <2>3. /\ u \in TaskRecord /\ u.prio = i.task[p].prio
        /\ u.state = i.task[p].state /\ u.policy = i.task[p].policy
    BY <2>1, <2>2 DEF TaskRecord
  <2>4. Proper(u)
    BY <2>2, <2>3 DEF Proper, rt_task
  <2>5. Good(Set(i, p, u), {p}, n + 1) /\ Apart(i, Set(i, p, u), p)
    BY <1>1, <1>14, <2>3, <2>4, Touched
  <2> QED BY <1>15, <2>1, <2>5 DEF INIT_LIST_HEAD
<1>16. PICK i3 : i3 = UPDATE_REASON(INIT_LIST_HEAD(i, p), p, OVERDUE)
  OBVIOUS
<1>17. Good(i3, {p}, n + 1) /\ Apart(i, i3, p)
  <2>1. PICK i2 : i2 = INIT_LIST_HEAD(i, p)
    OBVIOUS
  <2>2. Good(i2, {p}, n + 1) /\ Apart(i, i2, p)
    BY <1>15, <2>1
  <2>3. Good(i3, {p}, n + 1) /\ Apart(i2, i3, p)
    BY <1>1, <1>16, <2>1, <2>2, UpdateReason DEF OVERDUE
  <2> QED BY <2>2, <2>3, ApartTwice
<1>18. PICK t4 : t4 = [i3.task[p] EXCEPT !.remaining_trials = 0, !.time_slice = 0]
  OBVIOUS
<1>19. PICK i4 : i4 = Set(i3, p, t4)
  OBVIOUS
<1>20. Good(i4, {p}, n + 1) /\ Apart(i3, i4, p)
  <2>1. i3.task[p] \in TaskRecord /\ Proper(i3.task[p])
    BY <1>17 DEF Good, Typed, Proper
  <2>2. /\ t4 \in TaskRecord /\ t4.prio = i3.task[p].prio
        /\ t4.state = i3.task[p].state /\ t4.policy = i3.task[p].policy
    BY <1>18, <2>1 DEF TaskRecord
  <2>3. Proper(t4)
    BY <2>1, <2>2 DEF Proper, rt_task
  <2> QED BY <1>1, <1>17, <1>19, <2>2, <2>3, Touched
<1>21. PICK e : e = IF trials = 0 \/ slice = 0 THEN i4 ELSE i
  OBVIOUS
<1>22. Good(e, {p}, n + 1) /\ Apart(l, e, p)
  BY <1>14, <1>17, <1>20, <1>21, ApartTwice
<1>23. j = hw2_enqueue(e, p, TRUE)
  BY <1>2, <1>4, <1>6, <1>8, <1>9, <1>11, <1>13, <1>16, <1>18, <1>19, <1>21 DEF ExpireShort
<1>24. Good(j, {}, n) /\ Apart(e, j, p) /\ Enqueued(j.task[p])
  BY <1>22, <1>23, EnqueueApart
<1>25. Apart(k, j, p)
  BY <1>3, <1>5, <1>22, <1>24, ApartTwice
<1> QED BY <1>1, <1>24, <1>25, ApartCalm

\* A timer interrupt moves the current task between lists at most.
LEMMA SchedulerTick ==
  ASSUME NEW k, NEW n \in Int, Good(k, {}, n), CurrQueued(k), NEW prio \in UserPrio,
         NEW stay \in BOOLEAN, NEW j, j = scheduler_tick(k, prio, stay)
  PROVE  Good(j, {}, n) /\ Calm(k, j)
<1>p. PICK p : p = k.curr
  OBVIOUS
<1>t. PICK t : t = k.task[p]
  OBVIOUS
<1>0. Calm(k, k) /\ {} \in SUBSET Pid /\ p \in Task
  BY <1>p DEF Calm, Good, Typed, Kernel
<1>1. CASE p = Idle
  BY <1>p, <1>t, <1>0, <1>1 DEF scheduler_tick
<1>2. CASE p \in Pid
  <2>1. Enqueued(t) /\ t \in TaskRecord /\ Proper(t) /\ Fits(t, k.active) /\ p # Idle
    BY <1>p, <1>t, <1>2, PidAssumption DEF CurrQueued, Good, Typed, Proper
  <2>2. CASE ~ is_short(t) /\ t.array # k.active
    <3>1. j = EndOfSlice(k, p)
      BY <1>p, <1>t, <2>1, <2>2 DEF scheduler_tick
    <3>2. Good(j, {}, n) /\ Apart(k, j, p) /\ SamePlace(j.task[p], k.task[p])
      BY <1>p, <1>t, <1>0, <3>1, EndOfTurn
    <3> QED BY <1>p, <1>t, <1>0, <3>2, ApartCalm, SamePlaceQueued
  <2>3. CASE (is_short(t) \/ t.array = k.active) /\ (rt_task(t) \/ is_overdue(t))
    <3>1. j = TickRealTime(k, p)
      BY <1>p, <1>t, <2>1, <2>3 DEF scheduler_tick
    <3> QED BY <1>p, <1>t, <1>2, <2>1, <2>3, <3>1, TickedRealTime
  <2>4. CASE (is_short(t) \/ t.array = k.active) /\ ~ rt_task(t) /\ ~ is_overdue(t)
    <3>1. PICK u : u = [t EXCEPT !.time_slice = Decremented(@)]
      OBVIOUS
    <3>2. /\ u \in TaskRecord /\ Proper(u) /\ SamePlace(u, t)
          /\ u.state = t.state /\ u.policy = t.policy /\ u.array = t.array
      <4>1. Decremented(t.time_slice) \in Nat
        BY <2>1, Slices
      <4>2. u = [t EXCEPT !.time_slice = Decremented(t.time_slice)]
        BY <3>1
      <4>3. u \in TaskRecord
        BY <1>p, <1>t, <2>1, <4>1, <4>2 DEF TaskRecord
      <4>4. /\ u.array = t.array /\ u.queued = t.queued /\ u.prio = t.prio
            /\ u.remaining_trials = t.remaining_trials
            /\ u.state = t.state /\ u.policy = t.policy
        BY <1>p, <1>t, <2>1, <4>2 DEF TaskRecord
      <4> QED BY <1>p, <1>t, <2>1, <4>3, <4>4 DEF Proper, rt_task, SamePlace, is_overdue, is_short
    <3>3. PICK i : i = Set(k, p, u)
      OBVIOUS
    <3>4. Good(i, {}, n) /\ Apart(k, i, p) /\ i.task[p] = u
      <4>1. Good(Set(k, p, u), {}, n) /\ Apart(k, Set(k, p, u), p) /\ Set(k, p, u).task[p] = u
        <5>1. /\ u \in TaskRecord /\ SamePlace(u, k.task[p])
              /\ u.state = k.task[p].state /\ u.policy = k.task[p].policy
          BY <1>t, <3>2
        <5>2. p \in Pid => Proper(u)
          BY <3>2
        <5> QED BY <1>0, <5>1, <5>2, Touched
      <4> QED BY <3>3, <4>1
    <3>5. Enqueued(i.task[p]) /\ Calm(k, i)
      BY <1>p, <1>t, <1>0, <2>1, <3>2, <3>4, SamePlaceQueued, ApartCalm
    <3>6. CASE Decremented(t.time_slice) # 0
      <4>1. j = i
        BY <1>p, <1>t, <2>1, <2>4, <3>1, <3>3, <3>6 DEF scheduler_tick
      <4> QED BY <3>4, <3>5, <4>1
    <3>7. CASE Decremented(t.time_slice) = 0 /\ is_short(t)
      <4>1. j = ExpireShort(i, p)
        BY <1>p, <1>t, <2>1, <2>4, <3>1, <3>3, <3>7 DEF scheduler_tick
      <4>2. is_short(i.task[p]) /\ ~ is_overdue(i.task[p])
        BY <1>p, <1>t, <2>4, <3>2, <3>4, <3>7 DEF SamePlace, is_short
      <4>3. Good(j, {}, n) /\ Calm(i, j)
        BY <1>2, <3>4, <3>5, <4>1, <4>2, ShortExpired
      <4> QED BY <3>5, <4>3, CalmTwice
    <3>8. CASE Decremented(t.time_slice) = 0 /\ ~ is_short(t)
      <4>1. j = ExpireOther(i, p, prio, stay)
        BY <1>p, <1>t, <2>1, <2>4, <3>1, <3>3, <3>8 DEF scheduler_tick
      <4>2. t.policy = "OTHER"
        BY <1>p, <1>t, <2>1, <2>4, <3>8 DEF Proper, TaskRecord, Policies, is_short
      <4>3. i.task[p].policy = "OTHER" /\ i.task[p].array = i.active
        BY <1>p, <1>t, <2>4, <3>2, <3>4, <3>8, <4>2 DEF Apart
      <4>4. Good(j, {}, n) /\ Calm(i, j)
        BY <1>2, <3>4, <4>1, <4>3, OtherExpired
      <4> QED BY <3>5, <4>4, CalmTwice
    <3> QED BY <3>6, <3>7, <3>8
  <2> QED BY <2>2, <2>3, <2>4
<1> QED BY <1>p, <1>t, <1>0, <1>1, <1>2 DEF Task

-----------------------------------------------------------------------------
(* schedule().                                                             *)

\* sched_find_first_bit: a nonempty set of naturals has its least member.
LEMMA Least ==
  ASSUME NEW T \in SUBSET Nat, T # {}
  PROVE  Min(T) \in T /\ \A y \in T : Min(T) <= y
<1>1. IsWellFoundedOn({ss \in Nat \X Nat : ss[1] < ss[2]}, Nat)
  BY NatLessThanWellFounded, Zenon DEF OpToRel
<1>2. PICK R : R = {ss \in Nat \X Nat : ss[1] < ss[2]}
  OBVIOUS
<1>3. PICK x \in T : \A y \in T : ~ (<<y, x>> \in R)
  BY <1>1, <1>2, WFMin, Zenon
<1>4. \A y \in Nat, z \in Nat : y < z => <<y, z>> \in R
  BY <1>2
<1>5. \A y \in T : x <= y
  <2> TAKE y \in T
  <2>1. y \in Nat /\ x \in Nat
    OBVIOUS
  <2>2. ~ (y < x)
    BY <1>3, <1>4, <2>1, Zenon
  <2> QED BY ONLY <2>1, <2>2
<1> QED BY <1>3, <1>5 DEF Min

\* sched_find_first_bit finds a list that is not empty, if there is one.
LEMMA FoundBit ==
  ASSUME NEW k, NEW a
  PROVE  /\ FirstBit(k, a) # MAX_PRIO => FirstBit(k, a) \in Prio /\ <<a, FirstBit(k, a)>> \in k.bitmap
         /\ FirstBit(k, a) = MAX_PRIO => \A i \in Prio : <<a, i>> \notin k.bitmap
         /\ FirstBit(k, a) \in Nat
<1>1. PICK T : T = {i \in Prio : <<a, i>> \in k.bitmap} \cup {MAX_PRIO}
  OBVIOUS
<1>2. T \in SUBSET Nat /\ T # {} /\ \A i \in Prio : i \in Nat /\ i < MAX_PRIO
  BY <1>1, PrioAssumption DEF Prio
<1>3. FirstBit(k, a) = Min(T)
  BY <1>1 DEF FirstBit
<1>4. Min(T) \in T /\ \A y \in T : Min(T) <= y
  BY <1>2, Least
<1>5. FirstBit(k, a) \in T /\ \A y \in T : FirstBit(k, a) <= y
  BY <1>3, <1>4
<1>6. ASSUME FirstBit(k, a) = MAX_PRIO, NEW i \in Prio, <<a, i>> \in k.bitmap
      PROVE  FALSE
  <2>1. i \in T
    BY <1>1, <1>6
  <2>2. MAX_PRIO <= i
    BY <1>5, <1>6, <2>1
  <2> QED BY <1>2, <2>2, PrioAssumption
<1> QED BY <1>1, <1>2, <1>5, <1>6

\* A task is on a list exactly when its fields say so.
LEMMA OnAList ==
  ASSUME NEW k, NEW n \in Int, Good(k, {}, n), NEW p \in Pid
  PROVE  /\ \A h \in ArrayId \X Prio : p \in Elements(k.queue[h]) => Enqueued(k.task[p])
         /\ p \in Elements(k.overdue) => Enqueued(k.task[p]) /\ k.task[p].array = NULL
         /\ Enqueued(k.task[p]) =>
              \/ k.task[p].array = NULL /\ p \in Elements(k.overdue)
              \/ /\ k.task[p].array \in ArrayId /\ Slot(k.task[p]) \in ArrayId \X Prio
                 /\ p \in Elements(k.queue[Slot(k.task[p])])
<1>1. /\ k.task[p] \in TaskRecord /\ Proper(k.task[p]) /\ Fits(k.task[p], k.active)
      /\ k.task[p].array \in ArrayId \cup {NULL} /\ k.task[p].prio \in Prio
  BY DEF Good, Typed, Proper, TaskRecord
<1>2. /\ \A h \in ArrayId \X Prio : p \in Elements(k.queue[h]) <=> h = Slot(k.task[p])
      /\ p \in Elements(k.overdue) <=> is_overdue(k.task[p]) /\ k.task[p].queued
  BY DEF Good, Placed
<1>3. k.task[p].array \in ArrayId => Slot(k.task[p]) \in ArrayId \X Prio
  BY <1>1 DEF Slot
<1>4. k.task[p].array = NULL => Slot(k.task[p]) \notin ArrayId \X Prio
  BY DEF Slot, ArrayId, NULL
<1>5. k.task[p].array = NULL \/ ~ is_overdue(k.task[p])
  BY <1>1 DEF Fits
<1>6. Enqueued(k.task[p]) <=> (k.task[p].array # NULL \/ (is_overdue(k.task[p]) /\ k.task[p].queued))
  BY <1>5 DEF Enqueued
<1> QED BY <1>1, <1>2, <1>3, <1>4, <1>5, <1>6

\* Some task can be picked without looking at the expired array.
Pickable(k) == \E p \in Pid : Enqueued(k.task[p]) /\ k.task[p].array # 1 - k.active

\* Then schedule() finds a task, and one that is queued.
LEMMA Picked ==
  ASSUME NEW k, NEW n \in Int, Good(k, {}, n), Pickable(k), NEW next, next = PickNext(k)
  PROVE  next \in Pid /\ Enqueued(k.task[next])
<1>1. PICK idx : idx = FirstBit(k, k.active)
  OBVIOUS
<1>2. PICK short : short = FirstBit(k, active_SHORT)
  OBVIOUS
<1>3. k \in Kernel /\ k.active \in ArrayId /\ active_SHORT \in ArrayId /\ k.active \in {0, 1}
  BY DEF Good, Typed, Kernel, ArrayId, active_SHORT
<1>4. ASSUME NEW a \in ArrayId, NEW i \in Prio, <<a, i>> \in k.bitmap, next = Head(k.queue[<<a, i>>])
      PROVE  next \in Pid /\ Enqueued(k.task[next])
  <2>1. <<a, i>> \in ArrayId \X Prio /\ k.queue[<<a, i>>] \in Seq(Pid)
    BY <1>3 DEF Kernel
  <2>2. k.queue[<<a, i>>] # <<>>
    BY <1>4, <2>1 DEF Good
  <2>3. next \in Elements(k.queue[<<a, i>>]) /\ next \in Pid
    BY <1>4, <2>1, <2>2, Ends
  <2> QED BY <2>1, <2>3, OnAList
<1>5. CASE idx > MAX_RT_PRIO - 1 /\ short # MAX_PRIO
  <2>1. next = Head(k.queue[<<active_SHORT, short>>])
    BY <1>1, <1>2, <1>5 DEF PickNext
  <2>2. short \in Prio /\ <<active_SHORT, short>> \in k.bitmap
    BY <1>2, <1>5, FoundBit
  <2> QED BY <1>3, <1>4, <2>1, <2>2
<1>6. CASE ~ (idx > MAX_RT_PRIO - 1 /\ short # MAX_PRIO) /\ idx # MAX_PRIO
  <2>1. next = Head(k.queue[<<k.active, idx>>])
    BY <1>1, <1>2, <1>6 DEF PickNext
  <2>2. idx \in Prio /\ <<k.active, idx>> \in k.bitmap
    BY <1>1, <1>6, FoundBit
  <2> QED BY <1>3, <1>4, <2>1, <2>2
<1>7. CASE ~ (idx > MAX_RT_PRIO - 1 /\ short # MAX_PRIO) /\ idx = MAX_PRIO
  <2>1. next = k.overdue[Len(k.overdue)]
    BY <1>1, <1>2, <1>7 DEF PickNext
  <2>2. short = MAX_PRIO
    BY <1>7, PrioAssumption DEF MAX_RT_PRIO
  <2>3. PICK p \in Pid : Enqueued(k.task[p]) /\ k.task[p].array # 1 - k.active
    BY DEF Pickable
  <2>4. p \in Elements(k.overdue)
    <3> SUFFICES ASSUME p \notin Elements(k.overdue) PROVE FALSE
      OBVIOUS
    <3>1. /\ k.task[p].array \in ArrayId /\ Slot(k.task[p]) \in ArrayId \X Prio
          /\ p \in Elements(k.queue[Slot(k.task[p])])
      BY <2>3, OnAList
    <3>2. k.queue[Slot(k.task[p])] \in Seq(Pid)
      BY <1>3, <3>1 DEF Kernel
    <3>3. Slot(k.task[p]) \in k.bitmap
      BY <3>1, <3>2, Ends DEF Good
    <3>4. k.task[p].array \in {k.active, active_SHORT}
      BY <1>3, <2>3, <3>1 DEF ArrayId, active_SHORT
    <3>5. k.task[p].prio \in Prio
      BY DEF Good, Typed, Proper
    <3>6. <<k.task[p].array, k.task[p].prio>> \in k.bitmap
      BY <3>3 DEF Slot
    <3> QED BY <1>1, <1>2, <1>7, <2>2, <3>4, <3>5, <3>6, FoundBit
  <2>5. k.overdue \in Seq(Pid)
    BY <1>3 DEF Kernel
  <2>6. k.overdue # <<>>
    BY <2>4, <2>5, Ends
  <2>7. next \in Elements(k.overdue) /\ next \in Pid
    BY <2>1, <2>5, <2>6, Ends
  <2> QED BY <2>7, OnAList
<1> QED BY <1>5, <1>6, <1>7

\* From k to j the task p left the lists, if it cannot run; the others noticed nothing.
Departs(k, j, p) ==
  /\ \A q \in Task : j.task[q].policy = k.task[q].policy
  /\ \A q \in Task \ {p} : j.task[q].state = k.task[q].state
  /\ \A q \in Pid \ {p} : Enqueued(j.task[q]) <=> Enqueued(k.task[q])
  /\ \A q \in Pid \ {p} : Enqueued(k.task[q]) \/ j.task[q].queued = k.task[q].queued
  /\ p \notin Pid => j.nr_uninterruptible = k.nr_uninterruptible
  /\ p \in Pid =>
       \/ /\ Enqueued(j.task[p]) /\ j.task[p].state = "RUNNING"
          /\ j.nr_uninterruptible = k.nr_uninterruptible
       \/ /\ ~ Enqueued(j.task[p]) /\ j.task[p].state = k.task[p].state /\ j.task[p].state # "RUNNING"
          /\ j.nr_uninterruptible = k.nr_uninterruptible + Sleeper(j.task[p])

\* What follows the departure of a task, unnoticed by the processes, is part of it.
LEMMA DepartsCalm ==
  ASSUME NEW k, NEW i, NEW j, NEW p \in Task, Departs(k, i, p), Calm(i, j)
  PROVE  Departs(k, j, p)
<1>1. j.task[p].state = i.task[p].state /\ Sleeper(j.task[p]) = Sleeper(i.task[p])
  BY DEF Calm, Sleeper
<1>2. p \in Pid => (Enqueued(j.task[p]) <=> Enqueued(i.task[p]))
  BY DEF Calm
<1>3. j.nr_uninterruptible = i.nr_uninterruptible
  BY DEF Calm
<1>4. /\ p \notin Pid => j.nr_uninterruptible = k.nr_uninterruptible
      /\ p \in Pid =>
           \/ /\ Enqueued(j.task[p]) /\ j.task[p].state = "RUNNING"
              /\ j.nr_uninterruptible = k.nr_uninterruptible
           \/ /\ ~ Enqueued(j.task[p]) /\ j.task[p].state = k.task[p].state /\ j.task[p].state # "RUNNING"
              /\ j.nr_uninterruptible = k.nr_uninterruptible + Sleeper(j.task[p])
  BY <1>1, <1>2, <1>3 DEF Departs
<1>5. /\ \A q \in Task : j.task[q].policy = k.task[q].policy
      /\ \A q \in Task \ {p} : j.task[q].state = k.task[q].state
      /\ \A q \in Pid \ {p} : Enqueued(j.task[q]) <=> Enqueued(k.task[q])
      /\ \A q \in Pid \ {p} : Enqueued(k.task[q]) \/ j.task[q].queued = k.task[q].queued
  BY DEF Departs, Calm
<1> QED BY <1>4, <1>5 DEF Departs

\* schedule() takes the task it switches from off its list if that task sleeps.
LEMMA PrevPut ==
  ASSUME NEW k, NEW n \in Int, Good(k, {}, n), CurrQueued(k), NEW sig \in BOOLEAN,
         NEW j, j = PutPrev(k, sig)
  PROVE  Good(j, {}, n) /\ Departs(k, j, k.curr) /\ j.curr = k.curr
<1>p. PICK p : p = k.curr
  OBVIOUS
<1>1. p \in Task /\ Pid \subseteq Task /\ {} \in SUBSET Pid
  BY <1>p DEF Good, Typed, Kernel, Task
<1>2. CASE k.task[p].state = "RUNNING"
  <2>1. j = k
    BY <1>p, <1>2 DEF PutPrev
  <2> QED BY <1>p, <1>2, <2>1 DEF Departs, CurrQueued
<1>3. CASE k.task[p].state # "RUNNING"
  <2>1. p \in Pid /\ Enqueued(k.task[p])
    BY <1>p, <1>1, <1>3 DEF Task, Good, Typed, CurrQueued
  <2>2. CASE k.task[p].state = "INTERRUPTIBLE" /\ sig
    <3>1. j = Set(k, p, [k.task[p] EXCEPT !.state = "RUNNING"])
      BY <1>p, <1>3, <2>2 DEF PutPrev
    <3>2. Good(j, {}, n) /\ Restated(k, j, p, "RUNNING")
      BY <2>1, <3>1, StateWritten DEF States
    <3>3. j.curr = k.curr
      BY <3>2 DEF Restated, SameLists
    <3>4. Departs(k, j, p)
      BY <1>1, <2>1, <3>2 DEF Restated, Departs, SameLists
    <3> QED BY <1>p, <3>2, <3>3, <3>4
  <2>3. CASE ~ (k.task[p].state = "INTERRUPTIBLE" /\ sig)
    <3>1. PICK i : i = deactivate_task(k, p)
      OBVIOUS
    <3>2. Good(i, {}, n) /\ Beside(k, i, p, Sleeper(k.task[p])) /\ ~ Enqueued(i.task[p])
      BY <2>1, <3>1, DeactivateTask
    <3>3. j = UPDATE_REASON(i, p, PREV_WAIT) /\ PREV_WAIT \in 0 .. 7
      BY <1>p, <1>3, <2>3, <3>1 DEF PutPrev, PREV_WAIT
    <3>4. Good(j, {}, n) /\ Apart(i, j, p) /\ SamePlace(j.task[p], i.task[p])
      BY <1>1, <3>2, <3>3, UpdateReason
    <3>5. Beside(k, j, p, Sleeper(k.task[p])) /\ ~ Enqueued(j.task[p])
      BY <3>2, <3>4, SamePlaceQueued DEF Beside, Apart
    <3>6. Departs(k, j, p) /\ j.curr = k.curr
      <4>1. Sleeper(j.task[p]) = Sleeper(k.task[p])
        BY <3>5 DEF Beside, Sleeper
      <4> QED BY <1>1, <1>3, <2>1, <3>5, <4>1 DEF Beside, Departs
    <3> QED BY <1>p, <3>4, <3>6
  <2> QED BY <2>2, <2>3
<1> QED BY <1>2, <1>3

\* With a task on a list, and the active array empty, the other array is the one to use.
LEMMA Swapped ==
  ASSUME NEW k, Good(k, {}, 0), k.nr_running # 0, NEW j, j = SwapArrays(k)
  PROVE  /\ Good(j, {}, 0) /\ Pickable(j) /\ j.task = k.task /\ j.curr = k.curr
         /\ j.nr_uninterruptible = k.nr_uninterruptible
<1>1. k \in Kernel /\ k.active \in ArrayId /\ k.active \in {0, 1}
  BY DEF Good, Typed, Kernel, ArrayId
<1>2. IsFiniteSet(Members(k, {}, k.active)) /\ k.nr_active[k.active] = Cardinality(Members(k, {}, k.active))
  <2>1. IsFiniteSet(Members(k, {}, k.active))
    BY PidAssumption, FS_Subset DEF Members
  <2> QED BY <1>1, <2>1 DEF Good
<1>3. CASE k.nr_active[k.active] = 0 /\ k.overdue = <<>>
  <2>1. j = [k EXCEPT !.active = 1 - k.active]
    BY <1>3 DEF SwapArrays, expired
  <2>2. /\ j \in Kernel /\ j.active = 1 - k.active /\ j.task = k.task /\ j.curr = k.curr
        /\ j.nr_active = k.nr_active /\ j.bitmap = k.bitmap /\ j.queue = k.queue
        /\ j.overdue = k.overdue /\ j.nr_running = k.nr_running
        /\ j.nr_uninterruptible = k.nr_uninterruptible
    <3>1. PICK a \in {0, 1} : a = 1 - k.active
      BY <1>1
    <3>2. j = [k EXCEPT !.active = a]
      BY <2>1, <3>1
    <3> QED BY <1>1, <3>1, <3>2 DEF Kernel
  <2>3. Members(k, {}, k.active) = {}
    BY <1>2, <1>3, FS_EmptySet
  <2>4. ASSUME NEW p \in Pid PROVE k.task[p].array # k.active
    BY <2>3 DEF Members
  <2>5. ASSUME NEW p \in Pid PROVE Fits(j.task[p], j.active)
    <3>1. Fits(k.task[p], k.active)
      BY DEF Good
    <3>2. k.task[p].array # 1 - j.active
      BY <1>1, <2>2, <2>4
    <3> QED BY <2>2, <3>1, <3>2 DEF Fits
  <2>6. Typed(j) /\ Placed(j, {})
    BY <2>2 DEF Good, Typed, Placed
  <2>7. Runnable(j, {}) = Runnable(k, {}) /\ \A a \in ArrayId : Members(j, {}, a) = Members(k, {}, a)
    BY <2>2 DEF Runnable, Members
  <2>8. Good(j, {}, 0)
    BY <2>2, <2>5, <2>6, <2>7 DEF Good
  <2>9. Pickable(j)
    <3>1. IsFiniteSet(Runnable(k, {})) /\ Cardinality(Runnable(k, {})) \in Nat
      <4>1. IsFiniteSet(Runnable(k, {}))
        BY PidAssumption, FS_Subset DEF Runnable
      <4> QED BY <4>1, FS_CardinalityType
    <3>2. Cardinality(Runnable(k, {})) # 0
      BY <3>1 DEF Good
    <3>3. Runnable(k, {}) # {}
      BY <3>2, FS_EmptySet
    <3>4. PICK p \in Pid : Enqueued(k.task[p])
      BY <3>3 DEF Runnable
    <3>5. k.task[p].array # 1 - j.active
      BY <1>1, <2>2, <2>4
    <3> QED BY <2>2, <3>4, <3>5 DEF Pickable
  <2> QED BY <2>2, <2>8, <2>9
<1>4. CASE ~ (k.nr_active[k.active] = 0 /\ k.overdue = <<>>)
  <2>1. j = k
    BY <1>4 DEF SwapArrays
  <2>2. CASE k.nr_active[k.active] # 0
    <3>1. Members(k, {}, k.active) # {}
      BY <1>2, <2>2, FS_EmptySet
    <3>2. PICK p \in Pid : k.task[p].array = k.active
      BY <3>1 DEF Members
    <3>3. k.task[p].array # NULL /\ k.task[p].array # 1 - k.active
      BY <1>1, <3>2 DEF NULL
    <3>4. Enqueued(k.task[p])
      BY <3>3 DEF Good, Fits, Enqueued
    <3> QED BY <2>1, <3>3, <3>4 DEF Pickable
  <2>3. CASE k.overdue # <<>>
    <3>1. k.overdue \in Seq(Pid)
      BY <1>1 DEF Kernel
    <3>2. PICK p \in Pid : p \in Elements(k.overdue)
      BY <2>3, <3>1, Ends
    <3>3. Enqueued(k.task[p]) /\ k.task[p].array = NULL
      BY <3>2, OnAList
    <3>4. k.task[p].array # 1 - k.active
      BY <1>1, <3>3 DEF NULL
    <3> QED BY <2>1, <3>3, <3>4 DEF Pickable
  <2> QED BY <1>4, <2>1, <2>2, <2>3
<1> QED BY <1>3, <1>4

\* schedule() puts an overdue task that loses the CPU, and a SHORT one that forked, at
\* the end of its line.
LEMMA PrevPushedBack ==
  ASSUME NEW k, NEW n \in Int, Good(k, {}, n), Pickable(k),
         k.curr \in Pid /\ k.task[k.curr].state = "RUNNING" => Enqueued(k.task[k.curr]),
         NEW j, j = PushPrevBack(k)
  PROVE  Good(j, {}, n) /\ Calm(k, j) /\ Pickable(j)
<1>p. PICK p : p = k.curr
  OBVIOUS
<1>1. CASE j = k
  BY <1>1 DEF Calm
<1>2. CASE j = hw2_back_of_the_queue(k, p) /\ k.task[p].state = "RUNNING" /\ is_short(k.task[p])
  <2>1. p \in Pid /\ Enqueued(k.task[p]) /\ p \in Task
    BY <1>p, <1>2, PidAssumption DEF Good, Typed, Kernel, Task, is_short
  <2>2. Good(j, {}, n) /\ Apart(k, j, p) /\ Calm(k, j)
    BY <1>2, <2>1, BackOfTheQueue
  <2>3. PICK q \in Pid : Enqueued(k.task[q]) /\ k.task[q].array # 1 - k.active
    BY DEF Pickable
  <2>4. j.active = k.active /\ Enqueued(j.task[q])
    BY <2>2, <2>3 DEF Calm
  <2>5. CASE q # p
    <3>1. j.task[q] = k.task[q]
      BY <2>2, <2>5 DEF Apart, Task
    <3> QED BY <2>2, <2>3, <2>4, <3>1 DEF Pickable
  <2>6. CASE q = p
    <3>1. is_short(j.task[q]) /\ Fits(j.task[q], j.active) /\ j.active \in {0, 1}
      BY <1>2, <2>2, <2>6 DEF Apart, is_short, Good, Typed, Kernel
    <3>2. j.task[q].array # 1 - j.active
      BY <3>1 DEF Fits, is_short, active_SHORT, NULL
    <3> QED BY <2>2, <2>4, <3>2 DEF Pickable
  <2> QED BY <2>5, <2>6
<1> QED BY <1>p, <1>1, <1>2 DEF PushPrevBack, is_overdue

\* schedule() takes a task that cannot run off the lists and picks one that is on them.
LEMMA Scheduled ==
  ASSUME NEW k, Good(k, {}, 0), CurrQueued(k), NEW sig \in BOOLEAN, NEW j, j = schedule(k, sig)
  PROVE  /\ Good(j, {}, 0) /\ Departs(k, j, k.curr) /\ CurrQueued(j) /\ j.curr \in Task
         /\ j.curr = IF j.nr_running = 0 THEN Idle ELSE PickNext(j)
<1>p. PICK p : p = k.curr
  OBVIOUS
<1>0. p \in Task /\ {} \in SUBSET Pid /\ Idle \notin Pid /\ Idle \in Task /\ Pid \subseteq Task
  BY <1>p, PidAssumption DEF Good, Typed, Kernel, Task
<1>1. PICK k1 : k1 = PutPrev(k, sig)
  OBVIOUS
<1>2. Good(k1, {}, 0) /\ Departs(k, k1, p) /\ k1.curr = p
  BY <1>p, <1>1, PrevPut
<1>3. PICK k2 : k2 = IF k1.nr_running = 0 THEN k1 ELSE PushPrevBack(SwapArrays(k1))
  OBVIOUS
<1>4. Good(k2, {}, 0) /\ Departs(k, k2, p) /\ (k1.nr_running # 0 => Pickable(k2))
  <2>1. CASE k1.nr_running = 0
    BY <1>2, <1>3, <2>1
  <2>2. CASE k1.nr_running # 0
    <3>1. PICK i : i = SwapArrays(k1)
      OBVIOUS
    <3>2. /\ Good(i, {}, 0) /\ Pickable(i) /\ i.task = k1.task /\ i.curr = p
          /\ i.nr_uninterruptible = k1.nr_uninterruptible
      BY <1>2, <2>2, <3>1, Swapped
    <3>3. p \in Pid /\ i.task[p].state = "RUNNING" => Enqueued(i.task[p])
      BY <1>2, <3>2 DEF Departs
    <3>4. k2 = PushPrevBack(i)
      BY <1>3, <2>2, <3>1
    <3>5. Good(k2, {}, 0) /\ Calm(i, k2) /\ Pickable(k2)
      BY <3>2, <3>3, <3>4, PrevPushedBack
    <3>6. Departs(k, i, p)
      BY <1>2, <3>2 DEF Departs
    <3> QED BY <1>0, <3>5, <3>6, DepartsCalm
  <2> QED BY <2>1, <2>2
<1>5. PICK next : next = IF k2.nr_running = 0 THEN Idle ELSE PickNext(k2)
  OBVIOUS
<1>6. next = Idle \/ (next \in Pid /\ Enqueued(k2.task[next]))
  <2>1. CASE k2.nr_running = 0
    BY <1>5, <2>1
  <2>2. CASE k2.nr_running # 0
    <3>1. k1.nr_running # 0
      BY <1>3, <2>2
    <3> QED BY <1>4, <1>5, <2>2, <3>1, Picked
  <2> QED BY <2>1, <2>2
<1>7. PICK t : t = [k2.task[p] EXCEPT !.need_resched = FALSE]
  OBVIOUS
<1>8. PICK i : i = Set(k2, p, t)
  OBVIOUS
<1>9. Good(i, {}, 0) /\ Calm(k2, i)
  <2>1. k2.task[p] \in TaskRecord
    BY <1>0, <1>4 DEF Good, Typed, Kernel
  <2>2. /\ t \in TaskRecord /\ SamePlace(t, k2.task[p])
        /\ t.state = k2.task[p].state /\ t.policy = k2.task[p].policy /\ t.prio = k2.task[p].prio
    BY <1>7, <2>1 DEF TaskRecord, SamePlace, is_overdue, is_short
  <2>3. p \in Pid => Proper(t)
    BY <1>4, <2>2 DEF Good, Typed, Proper, rt_task
  <2>4. Good(Set(k2, p, t), {}, 0) /\ Apart(k2, Set(k2, p, t), p) /\ Set(k2, p, t).task[p] = t
    BY <1>0, <1>4, <2>2, <2>3, Touched
  <2> QED BY <1>0, <1>8, <2>2, <2>4, SamePlaceQueued, ApartCalm
<1>10. j = [i EXCEPT !.curr = next]
  BY <1>p, <1>1, <1>3, <1>5, <1>7, <1>8 DEF schedule
<1>11. /\ j \in Kernel /\ j.curr = next
       /\ j.active = i.active /\ j.task = i.task /\ j.nr_active = i.nr_active /\ j.bitmap = i.bitmap
       /\ j.queue = i.queue /\ j.overdue = i.overdue /\ j.nr_running = i.nr_running
       /\ j.nr_uninterruptible = i.nr_uninterruptible
  <2>1. i \in Kernel /\ next \in Task
    BY <1>0, <1>6, <1>9 DEF Good, Typed
  <2> QED BY ONLY <1>10, <2>1 DEF Kernel
<1>12. Good(j, {}, 0)
  <2>1. Typed(j) /\ Placed(j, {})
    BY <1>9, <1>11 DEF Good, Typed, Placed
  <2>2. Runnable(j, {}) = Runnable(i, {}) /\ \A a \in ArrayId : Members(j, {}, a) = Members(i, {}, a)
    BY <1>11 DEF Runnable, Members
  <2> QED BY <1>9, <1>11, <2>1, <2>2 DEF Good
<1>13. Departs(k, j, p)
  <2>1. Departs(k, i, p)
    BY <1>0, <1>4, <1>9, DepartsCalm
  <2> QED BY <1>11, <2>1 DEF Departs
<1>14. CurrQueued(j) /\ j.curr \in Task
  BY <1>0, <1>6, <1>9, <1>11 DEF CurrQueued, Calm
<1>15. next = IF j.nr_running = 0 THEN Idle ELSE PickNext(j)
  <2>1. SameLists(k2, i)
    BY <1>8 DEF SameLists, Set
  <2>2. /\ j.active = k2.active /\ j.bitmap = k2.bitmap /\ j.queue = k2.queue
        /\ j.overdue = k2.overdue /\ j.nr_running = k2.nr_running
    BY <1>11, <2>1 DEF SameLists
  <2>3. PickNext(j) = PickNext(k2)
    BY <2>2 DEF PickNext, FirstBit
  <2> QED BY <1>5, <2>2, <2>3
<1> QED BY <1>p, <1>11, <1>12, <1>13, <1>14, <1>15

-----------------------------------------------------------------------------
(* System calls.                                                           *)

\* From k to j the states are the same, and the same tasks are queued; p may have another
\* policy.
Steady(k, j, p) ==
  /\ j.curr = k.curr
  /\ \A q \in Task : j.task[q].state = k.task[q].state
  /\ \A q \in Pid : Enqueued(j.task[q]) <=> Enqueued(k.task[q])
  /\ \A q \in Pid \ {p} : Enqueued(k.task[q]) \/ j.task[q].queued = k.task[q].queued

\* Calm is Steady with every policy the same.
LEMMA CalmSteady ==
  ASSUME NEW k, NEW j, NEW p, Calm(k, j)
  PROVE  Steady(k, j, p)
  BY DEF Calm, Steady

\* nice moves a task to the list of its new priority and, in a hurry, the current one back.
LEMMA NiceSet ==
  ASSUME NEW k, NEW n \in Int, Good(k, {}, n), CurrQueued(k), NEW p \in Pid, NEW prio \in UserPrio,
         NEW j, j = set_user_nice(k, p, prio)
  PROVE  Good(j, {}, n) /\ Calm(k, j)
<1>t. PICK t : t = k.task[p]
  OBVIOUS
<1>0. /\ t \in TaskRecord /\ Proper(t) /\ Fits(t, k.active) /\ p \in Task /\ {} \in SUBSET Pid
      /\ {p} \in SUBSET Pid /\ n + 1 \in Int /\ k.curr \in Task
  BY <1>t DEF Good, Typed, Proper, Task, Kernel
<1>1. CASE j = k
  BY <1>1 DEF Calm
<1>2. CASE rt_task(t) /\ j = Set(k, p, [t EXCEPT !.static_prio = prio])
  <2>1. PICK u : u = [t EXCEPT !.static_prio = prio]
    OBVIOUS
  <2>2. /\ u \in TaskRecord /\ SamePlace(u, t) /\ u.prio = t.prio
        /\ u.state = t.state /\ u.policy = t.policy
    BY <1>0, <2>1 DEF TaskRecord, SamePlace, is_overdue, is_short
  <2>3. Proper(u)
    BY <1>0, <2>2 DEF Proper, rt_task
  <2>4. Good(Set(k, p, u), {}, n) /\ Apart(k, Set(k, p, u), p) /\ Set(k, p, u).task[p] = u
    <3>1. /\ SamePlace(u, k.task[p]) /\ u.state = k.task[p].state /\ u.policy = k.task[p].policy
      BY <1>t, <2>2
    <3> QED BY <1>0, <2>2, <2>3, <3>1, Touched
  <2>5. j = Set(k, p, u)
    BY <1>2, <2>1
  <2>6. (Enqueued(u) <=> Enqueued(k.task[p])) /\ u.queued = k.task[p].queued
    BY <1>t, <2>2, SamePlaceQueued
  <2> QED BY <1>0, <2>4, <2>5, <2>6, ApartCalm
<1>3. ASSUME ~ rt_task(t)
      PROVE  \E u \in TaskRecord : /\ u = [t EXCEPT !.static_prio = prio, !.prio = prio]
                                   /\ Proper(u) /\ u.array = t.array /\ u.queued = t.queued
                                   /\ u.state = t.state /\ u.policy = t.policy
                                   /\ is_overdue(u) <=> is_overdue(t)
  <2>1. PICK u : u = [t EXCEPT !.static_prio = prio, !.prio = prio]
    OBVIOUS
  <2>2. prio \in Int /\ prio \in Prio /\ ~ (prio < MAX_RT_PRIO)
    BY PrioAssumption DEF UserPrio, Prio, MAX_RT_PRIO
  <2>3. /\ u \in TaskRecord /\ u.prio = prio /\ u.array = t.array /\ u.queued = t.queued
        /\ u.state = t.state /\ u.policy = t.policy /\ u.remaining_trials = t.remaining_trials
    BY <1>0, <2>1, <2>2 DEF TaskRecord
  <2>4. Proper(u)
    BY <1>0, <1>3, <2>2, <2>3 DEF Proper, rt_task
  <2> QED BY <2>1, <2>3, <2>4 DEF is_overdue, is_short
<1>4. CASE ~ rt_task(t) /\ t.array = NULL /\ j = Set(k, p, [t EXCEPT !.static_prio = prio, !.prio = prio])
  <2>1. PICK u \in TaskRecord : /\ u = [t EXCEPT !.static_prio = prio, !.prio = prio]
                                /\ Proper(u) /\ u.array = t.array /\ u.queued = t.queued
                                /\ u.state = t.state /\ u.policy = t.policy
                                /\ is_overdue(u) <=> is_overdue(t)
    BY <1>3, <1>4
  <2>2. SamePlace(u, k.task[p]) /\ u.state = k.task[p].state /\ u.policy = k.task[p].policy
    BY <1>t, <1>4, <2>1 DEF SamePlace
  <2>3. Proper(u)
    BY <2>1
  <2>4. Good(Set(k, p, u), {}, n) /\ Apart(k, Set(k, p, u), p) /\ Set(k, p, u).task[p] = u
    BY <1>0, <2>2, <2>3, Touched
  <2>5. j = Set(k, p, u)
    BY <1>4, <2>1
  <2>6. (Enqueued(u) <=> Enqueued(k.task[p])) /\ u.queued = k.task[p].queued
    BY <2>2, SamePlaceQueued
  <2> QED BY <1>0, <2>4, <2>5, <2>6, ApartCalm
<1>5. CASE /\ ~ rt_task(t) /\ t.array # NULL /\ ~ is_overdue(t) /\ j # k
           /\ t.static_prio # prio
  <2>1. PICK u \in TaskRecord : /\ u = [t EXCEPT !.static_prio = prio, !.prio = prio]
                                /\ Proper(u) /\ u.array = t.array /\ u.queued = t.queued
                                /\ u.state = t.state /\ u.policy = t.policy
                                /\ is_overdue(u) <=> is_overdue(t)
    BY <1>3, <1>5
  <2>2. Enqueued(k.task[p])
    BY <1>t, <1>5 DEF Enqueued
  <2>3. PICK m : m = hw2_dequeue(k, p, k.task[p].array)
    OBVIOUS
  <2>4. Good(m, {p}, n + 1) /\ Apart(k, m, p) /\ m.task[p] = t
    <3>1. Good(m, {p}, n + 1) /\ Apart(k, m, p) /\ m.task[p] = Off(k.task[p])
      BY <2>2, <2>3, DequeueApart
    <3> QED BY <1>t, <1>5, <3>1 DEF Off
  <2>5. PICK i : i = Set(m, p, u)
    OBVIOUS
  <2>6. Good(i, {p}, n + 1) /\ Apart(m, i, p) /\ i.task[p] = u
    <3>1. p \in {p} /\ u.state = m.task[p].state /\ u.policy = m.task[p].policy /\ Proper(u)
      BY <2>1, <2>4
    <3>2. /\ Good(Set(m, p, u), {p}, n + 1) /\ Apart(m, Set(m, p, u), p)
          /\ Set(m, p, u).task[p] = u
      BY <1>0, <2>4, <3>1, Touched
    <3> QED BY <2>5, <3>2
  <2>7. Apart(k, i, p)
    BY <2>4, <2>6, ApartTwice
  <2>8. PICK l : l = enqueue_task(i, p, t.array)
    OBVIOUS
  <2>9. Good(l, {}, n) /\ Apart(i, l, p) /\ Enqueued(l.task[p])
    <3>1. /\ t.array \in ArrayId
          /\ t.array = active_SHORT <=> is_short(t)
          /\ t.array = 1 - k.active => t.policy = "OTHER"
      BY <1>0, <1>5 DEF Fits, TaskRecord
    <3>2. /\ t.array = active_SHORT <=> is_short(i.task[p])
          /\ ~ is_overdue(i.task[p])
          /\ t.array = 1 - i.active => i.task[p].policy = "OTHER"
      BY <1>5, <2>1, <2>6, <2>7, <3>1 DEF Apart, is_short
    <3> QED BY <2>6, <2>8, <3>1, <3>2, EnqueueTaskApart
  <2>10. Calm(k, l)
    <3>1. Apart(k, l, p)
      BY <2>7, <2>9, ApartTwice
    <3> QED BY <1>0, <2>2, <2>9, <3>1, ApartCalm
  <2>11. \/ j = l
         \/ j = OVERDUE_PUSH_BACK(UPDATE_REASON(resched_task(l, k.curr), k.curr, PRIO), k.curr)
    BY <1>t, <1>5, <2>1, <2>3, <2>5, <2>8 DEF set_user_nice
  <2>12. k.curr \in Pid => Enqueued(l.task[k.curr])
    BY <2>10 DEF Calm, CurrQueued
  <2>13. ASSUME j = OVERDUE_PUSH_BACK(UPDATE_REASON(resched_task(l, k.curr), k.curr, PRIO), k.curr)
         PROVE  Good(j, {}, n) /\ Calm(l, j)
    BY <1>0, <2>9, <2>12, <2>13, GiveWay
  <2> QED BY <2>9, <2>10, <2>11, <2>13, CalmTwice
<1> QED BY <1>t, <1>1, <1>2, <1>4, <1>5 DEF set_user_nice

\* A task that is on no list can become any other one that is on none.
LEMMA Replaced ==
  ASSUME NEW k, NEW n \in Int, Good(k, {}, n), NEW p \in Pid, ~ Enqueued(k.task[p]),
         NEW t, Proper(t), t.array = NULL, ~ Enqueued(t), NEW j, j = Set(k, p, t)
  PROVE  /\ Good(j, {}, n) /\ SameLists(k, j)
         /\ j.task[p] = t /\ \A q \in Task \ {p} : j.task[q] = k.task[q]
<1>1. k \in Kernel /\ p \in Task /\ t \in TaskRecord /\ p \in {p} /\ {p} \in SUBSET Pid
  BY DEF Good, Typed, Proper, Task
<1>2. Good(k, {p}, n)
  BY LeftOut
<1>3. Good(Set(k, p, t), {p}, n)
  BY <1>1, <1>2, Written
<1>4. SameLists(k, j) /\ j.task = [k.task EXCEPT ![p] = t]
  BY <1>1, SetFields
<1>5. j.task[p] = t /\ \A q \in Task \ {p} : j.task[q] = k.task[q]
  BY <1>1, <1>4 DEF Kernel
<1>6. Good(j, {}, n)
  <2>1. Good(j, {p}, n) /\ ~ Enqueued(j.task[p]) /\ j.task[p].array = NULL
    BY <1>3, <1>5
  <2> QED BY <2>1, CountedIn
<1> QED BY <1>4, <1>5, <1>6

\* setscheduler writes a proper record, and a task is overdue after it if it was before.
LEMMA PolicyWritten ==
  ASSUME NEW t, Proper(t), NEW policy \in Policies \cup {KEEP},
         NEW rt_priority, NEW requested_time, NEW trials,
         MaySetScheduler(t, policy, rt_priority, requested_time, trials),
         requested_time \in Nat, trials \in Nat,
         NEW new, new = WithPolicy(t, policy, rt_priority, requested_time, trials)
  PROVE  /\ Proper(new)
         /\ new.array = t.array /\ new.queued = t.queued /\ new.state = t.state
         /\ is_overdue(new) <=> is_overdue(t)
         /\ is_overdue(new) => new.policy = t.policy
<1>1. t \in TaskRecord /\ t.prio \in Prio
  BY DEF Proper
<1>2. PICK np : np = NewPolicy(t, policy)
  OBVIOUS
<1>3. np \in Policies
  BY <1>1, <1>2 DEF NewPolicy, TaskRecord
<1>4. /\ rt_priority \in 0 .. MAX_USER_RT_PRIO - 1
      /\ (np \in {"OTHER", "SHORT"}) = (rt_priority = 0)
      /\ np = "SHORT" => trials \in 1 .. 50
      /\ policy # KEEP => t.policy # "SHORT"
  BY <1>2 DEF MaySetScheduler
<1>5. PICK prio : prio = IF np \in {"FIFO", "RR"} THEN MAX_USER_RT_PRIO - 1 - rt_priority
                         ELSE t.static_prio
  OBVIOUS
<1>6. prio \in Int /\ prio \in Prio /\ (np \in {"FIFO", "RR"} <=> prio < MAX_RT_PRIO)
  <2>1. t.static_prio \in UserPrio
    BY <1>1 DEF TaskRecord
  <2>2. CASE np \in {"FIFO", "RR"}
    <3>1. prio = MAX_USER_RT_PRIO - 1 - rt_priority
      BY <1>5, <2>2
    <3> QED BY <1>4, <2>2, <3>1, PrioAssumption DEF Prio, MAX_RT_PRIO
  <2>3. CASE np \notin {"FIFO", "RR"}
    <3>1. prio = t.static_prio
      BY <1>5, <2>3
    <3> QED BY <2>1, <2>3, <3>1, PrioAssumption DEF Prio, UserPrio, MAX_RT_PRIO
  <2> QED BY <2>2, <2>3
<1>7. PICK t1 : t1 = [t EXCEPT !.policy = np, !.prio = prio]
  OBVIOUS
<1>8. /\ t1 \in TaskRecord /\ t1.policy = np /\ t1.prio = prio
      /\ t1.array = t.array /\ t1.queued = t.queued /\ t1.state = t.state
      /\ t1.remaining_trials = t.remaining_trials
  BY <1>1, <1>3, <1>6, <1>7 DEF TaskRecord
<1>9. PICK t2 : t2 = [t1 EXCEPT !.requested_time = requested_time]
  OBVIOUS
<1>10. /\ t2 \in TaskRecord /\ t2.policy = np /\ t2.prio = prio
       /\ t2.array = t.array /\ t2.queued = t.queued /\ t2.state = t.state
       /\ t2.remaining_trials = t.remaining_trials
  BY <1>8, <1>9 DEF TaskRecord
<1>11. PICK slice : slice = Max({1, hw2_ms_to_ticks(requested_time)})
  OBVIOUS
<1>12. slice \in Nat
  <2>1. PICK s : s = hw2_ms_to_ticks(requested_time)
    OBVIOUS
  <2>2. s \in Nat
    BY <2>1, SliceAssumption, Product, Quotient DEF hw2_ms_to_ticks
  <2>3. slice = IF 1 >= s THEN 1 ELSE s
    BY <1>11, <2>1, <2>2, MaxMin
  <2> QED BY <2>2, <2>3
<1>13. PICK t3 : t3 = [t2 EXCEPT !.remaining_trials = trials, !.current_trial = 1, !.time_slice = slice]
  OBVIOUS
<1>14. /\ t3 \in TaskRecord /\ t3.policy = np /\ t3.prio = prio
       /\ t3.array = t.array /\ t3.queued = t.queued /\ t3.state = t.state
       /\ t3.remaining_trials = trials
  BY <1>10, <1>12, <1>13 DEF TaskRecord
<1>15. new = IF np # "SHORT" THEN t1 ELSE IF is_short(t) THEN t2 ELSE t3
  BY <1>2, <1>5, <1>7, <1>9, <1>11, <1>13 DEF WithPolicy
<1>16. /\ new \in TaskRecord /\ new.policy = np /\ new.prio = prio
       /\ new.array = t.array /\ new.queued = t.queued /\ new.state = t.state
       /\ new.remaining_trials = IF np = "SHORT" /\ ~ is_short(t) THEN trials ELSE t.remaining_trials
  BY <1>8, <1>10, <1>14, <1>15
<1>17. Proper(new)
  BY <1>6, <1>16 DEF Proper, rt_task
<1>18. is_short(t) => np = t.policy
  BY <1>2, <1>4 DEF is_short, NewPolicy
<1>19. is_overdue(new) <=> is_overdue(t)
  <2>1. CASE is_short(t)
    BY <1>16, <1>18, <2>1 DEF is_overdue, is_short
  <2>2. CASE ~ is_short(t)
    <3>1. np = "SHORT" => new.remaining_trials # 0
      BY <1>4, <1>16, <2>2
    <3> QED BY <1>16, <2>2, <3>1 DEF is_overdue, is_short
  <2> QED BY <2>1, <2>2
<1>20. is_overdue(new) => new.policy = t.policy
  BY <1>16, <1>18, <1>19 DEF is_overdue
<1> QED BY <1>16, <1>17, <1>19, <1>20

\* setscheduler moves a queued task to the list of its new policy, and no other.
LEMMA SchedulerSet ==
  ASSUME NEW k, NEW n \in Int, Good(k, {}, n), CurrQueued(k), NEW p \in Pid,
         NEW new, Proper(new), new.array = k.task[p].array, new.queued = k.task[p].queued,
         new.state = k.task[p].state, is_overdue(new) <=> is_overdue(k.task[p]),
         is_overdue(new) => new.policy = k.task[p].policy,
         NEW prio, FitPrio(new, prio), NEW j, j = setscheduler(k, p, new, prio)
  PROVE  /\ Good(j, {}, n) /\ Steady(k, j, p)
         /\ (Enqueued(k.task[p]) => k.task[p].state # "UNINTERRUPTIBLE")
              => j.nr_uninterruptible = k.nr_uninterruptible
<1>t. PICK t : t = k.task[p]
  OBVIOUS
<1>0. /\ t \in TaskRecord /\ Proper(t) /\ Fits(t, k.active) /\ p \in Task /\ {} \in SUBSET Pid
      /\ k.curr \in Task /\ Pid \subseteq Task
  BY <1>t DEF Good, Typed, Proper, Task, Kernel
<1>1. PICK u : u = [new EXCEPT !.array = NULL]
  OBVIOUS
<1>2. /\ Proper(u) /\ u.array = NULL /\ u.queued = t.queued /\ u.state = t.state
      /\ u.policy = new.policy
      /\ is_overdue(u) <=> is_overdue(t)
  <2>1. new \in TaskRecord /\ NULL \in ArrayId \cup {NULL}
    BY DEF Proper
  <2>2. /\ u \in TaskRecord /\ u.array = NULL /\ u.queued = new.queued /\ u.state = new.state
        /\ u.policy = new.policy /\ u.prio = new.prio /\ u.remaining_trials = new.remaining_trials
    BY <1>1, <2>1 DEF TaskRecord
  <2>3. Proper(u)
    BY <2>2 DEF Proper, rt_task
  <2>4. is_overdue(u) <=> is_overdue(new)
    BY <2>2 DEF is_overdue, is_short
  <2> QED BY <1>t, <2>2, <2>3, <2>4
<1>3. CASE t.array = NULL /\ Enqueued(t)
  <2>1. is_overdue(t)
    BY <1>3 DEF Enqueued
  <2>2. SamePlace(u, k.task[p]) /\ u.state = k.task[p].state /\ u.policy = k.task[p].policy
    BY <1>t, <1>2, <1>3, <2>1 DEF SamePlace
  <2>3. Proper(u) /\ u \in TaskRecord
    BY <1>2 DEF Proper
  <2>4. Good(Set(k, p, u), {}, n) /\ Apart(k, Set(k, p, u), p) /\ Set(k, p, u).task[p] = u
    BY <1>0, <2>2, <2>3, Touched
  <2>5. PICK l : l = Set(k, p, u)
    OBVIOUS
  <2>6. (Enqueued(u) <=> Enqueued(k.task[p])) /\ u.queued = k.task[p].queued
    BY <2>2, SamePlaceQueued
  <2>7. Good(l, {}, n) /\ Calm(k, l)
    BY <1>0, <2>4, <2>5, <2>6, ApartCalm
  <2>8. j = l
    <3>1. ~ (is_short(new) /\ ~ is_short(t))
      BY <1>t, <2>1 DEF is_overdue
    <3> QED BY <1>t, <1>1, <1>3, <2>5, <3>1 DEF setscheduler
  <2> QED BY <2>7, <2>8, CalmSteady DEF Calm
<1>4. CASE ~ (t.array = NULL /\ Enqueued(t))
  <2>1. t.array # NULL => Enqueued(t) /\ ~ is_overdue(t)
    BY <1>0 DEF Fits, Enqueued
  <2>2. PICK i : i = IF t.array # NULL THEN deactivate_task(k, p) ELSE k
    OBVIOUS
  <2>3. PICK d \in {0, 1} :
          /\ Good(i, {}, n) /\ Beside(k, i, p, d) /\ ~ Enqueued(i.task[p])
          /\ (Enqueued(k.task[p]) => k.task[p].state # "UNINTERRUPTIBLE") => d = 0
    <3>1. CASE t.array # NULL
      <4>1. Sleeper(t) \in {0, 1} /\ (t.state # "UNINTERRUPTIBLE" => Sleeper(t) = 0)
        BY DEF Sleeper
      <4> QED BY <1>t, <2>1, <2>2, <3>1, <4>1, DeactivateTask
    <3>2. CASE t.array = NULL
      <4>1. k.nr_uninterruptible + 0 = k.nr_uninterruptible
        BY DEF Good, Typed, Kernel
      <4> QED BY <1>t, <1>4, <2>2, <3>2, <4>1 DEF Beside
    <3> QED BY <3>1, <3>2
  <2>4. ~ Enqueued(u)
    BY <1>2, <1>4, <2>1 DEF Enqueued
  <2>5. PICK l : l = Set(i, p, u)
    OBVIOUS
  <2>6. /\ Good(l, {}, n) /\ SameLists(i, l)
        /\ l.task[p] = u /\ \A q \in Task \ {p} : l.task[q] = i.task[q]
    BY <1>2, <2>3, <2>4, <2>5, Replaced
  <2>7. /\ l.curr = k.curr /\ \A q \in Task \ {p} : l.task[q] = k.task[q]
        /\ l.task[p].state = k.task[p].state /\ ~ Enqueued(l.task[p])
        /\ FitPrio(l.task[p], prio)
    <3>1. FitPrio(u, prio)
      BY <1>2 DEF FitPrio
    <3> QED BY <1>t, <1>2, <2>3, <2>4, <2>6, <3>1 DEF Beside, SameLists
  <2>8. PICK m : m = IF is_short(new) /\ ~ is_short(t)
                     THEN UPDATE_REASON(resched_task(l, k.curr), k.curr, PRIO) ELSE l
    OBVIOUS
  <2>9. Good(m, {}, n) /\ Calm(l, m)
    <3>1. CASE m = l
      BY <2>6, <3>1 DEF Calm
    <3>2. CASE m = UPDATE_REASON(resched_task(l, k.curr), k.curr, PRIO)
      <4>1. PRIO \in 0 .. 7
        BY DEF PRIO
      <4> QED BY <1>0, <2>6, <3>2, <4>1, Hurried
    <3> QED BY <2>8, <3>1, <3>2
  <2>10. ~ Enqueued(m.task[p]) /\ FitPrio(m.task[p], prio)
    BY <1>0, <2>7, <2>9 DEF Calm, FitPrio
  <2>11. j = IF t.array # NULL THEN activate_task(m, p, prio) ELSE m
    BY <1>t, <1>1, <2>2, <2>5, <2>8 DEF setscheduler
  <2>12. Good(j, {}, n) /\ Apart(m, j, p) /\ (Enqueued(j.task[p]) <=> t.array # NULL)
    <3>1. CASE t.array # NULL
      BY <2>9, <2>10, <2>11, <3>1, ActivateTask
    <3>2. CASE t.array = NULL
      BY <2>9, <2>10, <2>11, <3>2 DEF Apart
    <3> QED BY <3>1, <3>2
  <2>13. j.curr = k.curr
    BY <2>7, <2>9, <2>12 DEF Apart, Calm
  <2>14. ASSUME NEW q \in Task PROVE j.task[q].state = k.task[q].state
    <3>1. m.task[q].state = k.task[q].state
      BY <2>7, <2>9 DEF Calm
    <3> QED BY <2>12, <3>1 DEF Apart
  <2>15. ASSUME NEW q \in Pid \ {p}
         PROVE  /\ Enqueued(j.task[q]) <=> Enqueued(k.task[q])
                /\ Enqueued(k.task[q]) \/ j.task[q].queued = k.task[q].queued
    <3>1. l.task[q] = k.task[q] /\ j.task[q] = m.task[q]
      BY <1>0, <2>7, <2>12 DEF Apart
    <3> QED BY <2>9, <3>1 DEF Calm
  <2>16. Enqueued(j.task[p]) <=> Enqueued(k.task[p])
    BY <1>t, <1>4, <2>1, <2>12
  <2>17. (Enqueued(k.task[p]) => k.task[p].state # "UNINTERRUPTIBLE")
           => j.nr_uninterruptible = k.nr_uninterruptible
    <3>1. j.nr_uninterruptible = i.nr_uninterruptible
      BY <2>6, <2>9, <2>12 DEF SameLists, Calm, Apart
    <3>2. k.nr_uninterruptible \in Int /\ i.nr_uninterruptible = k.nr_uninterruptible + d
      BY <2>3 DEF Beside, Good, Typed, Kernel
    <3> QED BY <2>3, <3>1, <3>2
  <2> QED BY <2>12, <2>13, <2>14, <2>15, <2>16, <2>17 DEF Steady
<1> QED BY <1>3, <1>4

-----------------------------------------------------------------------------
(* sys_sched_yield.                                                        *)

\* list_add puts the task behind the head of the list, once.
LEMMA AddedSecond ==
  ASSUME NEW s \in Seq(Pid), NEW p \in Pid, NEW c, c = Second(s, p)
  PROVE  /\ c \in Seq(Pid)
         /\ Elements(c) = Elements(s) \cup {p}
         /\ NoDuplicates(s) /\ p \notin Elements(s) => NoDuplicates(c)
<1>1. CASE s = <<>>
  <2>1. c = <<p>> /\ c \in Seq(Pid) /\ Len(c) = 1 /\ c[1] = p
    BY <1>1 DEF Second
  <2>2. Elements(s) = {}
    BY <1>1, Ends
  <2>3. Elements(c) = {p}
    BY <2>1 DEF Elements
  <2>4. NoDuplicates(c)
    BY <2>1 DEF NoDuplicates
  <2> QED BY <2>1, <2>2, <2>3, <2>4
<1>2. CASE s # <<>>
  <2>1. Len(s) \in Nat \ {0} /\ Head(s) = s[1] /\ s[1] \in Pid
    BY <1>2, EmptySeq
  <2>2. PICK r : r = Tail(s)
    OBVIOUS
  <2>3. r \in Seq(Pid) /\ Len(r) = Len(s) - 1 /\ \A i \in 1 .. Len(r) : r[i] = s[i + 1]
    BY <1>2, <2>2, HeadTailProperties
  <2>4. PICK h : h = <<Head(s), p>>
    OBVIOUS
  <2>5. h \in Seq(Pid) /\ Len(h) = 2 /\ h[1] = s[1] /\ h[2] = p
    BY <2>1, <2>4
  <2>6. c = h \o r
    BY <1>2, <2>2, <2>4 DEF Second
  <2>7. /\ c \in Seq(Pid) /\ Len(c) = 2 + Len(r)
        /\ \A i \in 1 .. 2 + Len(r) : c[i] = IF i <= 2 THEN h[i] ELSE r[i - 2]
    <3>1. /\ h \o r \in Seq(Pid) /\ Len(h \o r) = Len(h) + Len(r)
          /\ \A i \in 1 .. Len(h) + Len(r) : (h \o r)[i] = IF i <= Len(h) THEN h[i] ELSE r[i - Len(h)]
      BY <2>3, <2>5, ConcatProperties
    <3>2. Len(h) = 2
      BY <2>5
    <3> QED BY ONLY <2>6, <3>1, <3>2
  <2>8. /\ Len(c) = Len(s) + 1 /\ c[1] = s[1] /\ c[2] = p
        /\ \A i \in 3 .. Len(s) + 1 : c[i] = s[i - 1]
    <3>1. Len(c) = Len(s) + 1 /\ c[1] = s[1] /\ c[2] = p
      BY <2>1, <2>3, <2>5, <2>7
    <3>2. ASSUME NEW i \in 3 .. Len(s) + 1 PROVE c[i] = s[i - 1]
      <4>1. i \in 1 .. 2 + Len(r) /\ ~ (i <= 2) /\ i - 2 \in 1 .. Len(r) /\ (i - 2) + 1 = i - 1
        BY <2>1, <2>3
      <4>2. c[i] = r[i - 2] /\ r[i - 2] = s[(i - 2) + 1]
        BY <2>3, <2>7, <4>1
      <4> QED BY <4>1, <4>2
    <3> QED BY <3>1, <3>2
  <2>9. PICK at : at = [i \in 1 .. Len(s) + 1 |-> IF i = 1 THEN 1 ELSE i - 1]
    OBVIOUS
  <2>10. \A i \in 1 .. Len(s) + 1 :
           i # 2 => at[i] \in 1 .. Len(s) /\ c[i] = s[at[i]]
    <3> TAKE i \in 1 .. Len(s) + 1
    <3> HAVE i # 2
    <3>1. i = 1 \/ i \in 3 .. Len(s) + 1
      BY <2>1
    <3>2. at[i] = IF i = 1 THEN 1 ELSE i - 1
      BY <2>9
    <3>3. at[i] \in 1 .. Len(s)
      BY <2>1, <3>1, <3>2
    <3> QED BY <2>8, <3>1, <3>2, <3>3
  <2>11. Elements(c) = Elements(s) \cup {p}
    <3>1. Elements(c) \subseteq Elements(s) \cup {p}
      <4> SUFFICES ASSUME NEW i \in 1 .. Len(s) + 1 PROVE c[i] \in Elements(s) \cup {p}
        BY <2>8 DEF Elements
      <4> QED BY <2>8, <2>10 DEF Elements
    <3>2. ASSUME NEW i \in 1 .. Len(s) PROVE s[i] \in Elements(c)
      <4>1. CASE i = 1
        <5>1. 1 \in 1 .. Len(c) /\ c[1] = s[1]
          BY <2>1, <2>8
        <5> QED BY <4>1, <5>1 DEF Elements
      <4>2. CASE i # 1
        <5>1. i + 1 \in 3 .. Len(s) + 1 /\ i + 1 \in 1 .. Len(c) /\ (i + 1) - 1 = i
          BY <2>1, <2>8, <4>2
        <5>2. c[i + 1] = s[i]
          BY <2>8, <5>1
        <5> QED BY <5>1, <5>2 DEF Elements
      <4> QED BY <4>1, <4>2
    <3>3. p \in Elements(c)
      <4>1. 2 \in 1 .. Len(c)
        BY <2>1, <2>8
      <4> QED BY <2>8, <4>1 DEF Elements
    <3> QED BY <3>1, <3>2, <3>3 DEF Elements
  <2>12. ASSUME NoDuplicates(s), p \notin Elements(s),
                NEW i \in 1 .. Len(s) + 1, NEW j \in 1 .. Len(s) + 1, c[i] = c[j]
         PROVE  i = j
    <3>1. \A m \in 1 .. Len(s) : s[m] # p
      BY <2>12 DEF Elements
    <3>2. CASE i = 2 \/ j = 2
      BY <2>8, <2>10, <2>12, <3>1, <3>2
    <3>3. CASE i # 2 /\ j # 2
      <4>1. at[i] \in 1 .. Len(s) /\ at[j] \in 1 .. Len(s) /\ s[at[i]] = s[at[j]]
        BY <2>10, <2>12, <3>3
      <4>2. at[i] = at[j]
        BY <2>12, <4>1 DEF NoDuplicates
      <4> QED BY <2>1, <2>9, <3>3, <4>2
    <3> QED BY <3>2, <3>3
  <2> QED BY <2>7, <2>8, <2>11, <2>12 DEF NoDuplicates
<1> QED BY <1>1, <1>2

\* list_del and list_add of p within one array: its record is u now, and its list s.
Relisted(k, l, j, p, u, s) ==
  /\ j.active = k.active /\ j.curr = k.curr /\ j.nr_active = k.nr_active
  /\ j.nr_running = k.nr_running /\ j.nr_uninterruptible = k.nr_uninterruptible
  /\ j.overdue = l.overdue
  /\ j.task = [k.task EXCEPT ![p] = u]
  /\ j.queue = [l.queue EXCEPT ![Slot(u)] = s]

\* A task taken off its list and put on the one of its new record, as sched_yield does
\* to a real-time or SHORT task, is on the list its fields name.
LEMMA Reinserted ==
  ASSUME NEW k, NEW n \in Int, Good(k, {}, n), NEW p \in Pid, k.task[p].array # NULL,
         NEW l, l = list_del(k, p),
         NEW u, Proper(u), u.array = k.task[p].array, u.state = k.task[p].state,
         u.policy = k.task[p].policy, u.remaining_trials = k.task[p].remaining_trials,
         NEW s \in Seq(Pid), Elements(s) = Elements(l.queue[Slot(u)]) \cup {p}, NoDuplicates(s),
         NEW j \in Kernel, Relisted(k, l, j, p, u, s),
         j.bitmap = {g \in ArrayId \X Prio : j.queue[g] # <<>>}
  PROVE  Good(j, {}, n) /\ Calm(k, j)
<1>1. /\ k \in Kernel /\ k.task[p] \in TaskRecord /\ Proper(k.task[p]) /\ Fits(k.task[p], k.active)
      /\ p \in Task /\ Idle # p /\ Idle \in Task /\ Pid \subseteq Task
  BY PidAssumption DEF Good, Typed, Proper, Task
<1>2. /\ l \in Kernel /\ l.task = k.task /\ Placed(l, {p})
  BY ListDel
<1>3. u \in TaskRecord /\ u.array \in ArrayId /\ Slot(u) \in ArrayId \X Prio
  <2>1. u \in TaskRecord /\ u.prio \in Prio /\ u.array # NULL
    BY DEF Proper
  <2> QED BY <2>1 DEF TaskRecord, Slot
<1>4. j.task[p] = u /\ \A q \in Task \ {p} : j.task[q] = k.task[q]
  BY <1>1 DEF Relisted, Kernel
<1>5. /\ j.queue[Slot(u)] = s
      /\ \A g \in ArrayId \X Prio : g # Slot(u) => j.queue[g] = l.queue[g]
  BY <1>2, <1>3 DEF Relisted, Kernel
<1>6. ~ is_overdue(k.task[p]) /\ ~ is_overdue(u) /\ (is_short(u) <=> is_short(k.task[p]))
  BY <1>1 DEF Fits, is_overdue, is_short
<1>7. Enqueued(k.task[p]) /\ Enqueued(u)
  BY <1>3, <1>6 DEF Enqueued, ArrayId, NULL
<1>8. Typed(j)
  <2>1. \A q \in Pid : Proper(j.task[q])
    BY <1>1, <1>4 DEF Good, Typed
  <2> QED BY <1>1, <1>4, <2>1 DEF Good, Typed
<1>9. Placed(j, {})
  <2>1. ASSUME NEW x \in Pid, NEW g \in ArrayId \X Prio
        PROVE  x \in Elements(j.queue[g]) <=> g = Slot(j.task[x])
    <3>1. x \in Elements(l.queue[g]) <=> x # p /\ g = Slot(k.task[x])
      BY <1>2 DEF Placed
    <3>2. x # p => j.task[x] = k.task[x]
      BY <1>1, <1>4
    <3>3. CASE g = Slot(u)
      BY <1>4, <1>5, <3>1, <3>2, <3>3
    <3>4. CASE g # Slot(u)
      BY <1>4, <1>5, <3>1, <3>2, <3>4
    <3> QED BY <3>3, <3>4
  <2>2. ASSUME NEW x \in Pid
        PROVE  x \in Elements(j.overdue) <=> is_overdue(j.task[x]) /\ j.task[x].queued
    <3>1. x \in Elements(l.overdue) <=> x # p /\ is_overdue(k.task[x]) /\ k.task[x].queued
      BY <1>2 DEF Placed
    <3>2. j.overdue = l.overdue
      BY DEF Relisted
    <3> QED BY <1>1, <1>4, <1>6, <3>1, <3>2
  <2>3. \A g \in ArrayId \X Prio : NoDuplicates(j.queue[g])
    BY <1>2, <1>5 DEF Placed
  <2>4. NoDuplicates(j.overdue)
    BY <1>2 DEF Placed, Relisted
  <2> QED BY <2>1, <2>2, <2>3, <2>4 DEF Placed
<1>10. ASSUME NEW q \in Pid PROVE Fits(j.task[q], j.active)
  <2>1. Fits(k.task[q], k.active) /\ j.active = k.active
    BY DEF Good, Relisted
  <2>2. CASE q # p
    BY <1>1, <1>4, <2>1, <2>2
  <2>3. CASE q = p
    BY <1>4, <1>6, <2>1, <2>3 DEF Fits
  <2> QED BY <2>2, <2>3
<1>11. ASSUME NEW a \in ArrayId PROVE Members(j, {}, a) = Members(k, {}, a)
  BY <1>1, <1>4 DEF Members
<1>12. Runnable(j, {}) = Runnable(k, {})
  BY <1>1, <1>4, <1>7 DEF Runnable
<1>13. Good(j, {}, n)
  <2>1. j.nr_active = k.nr_active /\ j.nr_running = k.nr_running
    BY DEF Relisted
  <2> QED BY <1>8, <1>9, <1>10, <1>11, <1>12, <2>1 DEF Good
<1>14. Apart(k, j, p)
  BY <1>4 DEF Apart, Relisted
<1> QED BY <1>1, <1>4, <1>7, <1>13, <1>14, ApartCalm

\* sched_yield moves the task within its array, to its own list or one of lower priority.
LEMMA YieldPlaced ==
  ASSUME NEW k, NEW n \in Int, Good(k, {}, n), NEW p \in Pid, k.task[p].array # NULL,
         ~ is_short(k.task[p]), NEW j, j = YieldPlace(k, p)
  PROVE  Good(j, {}, n) /\ Calm(k, j)
<1>t. PICK t : t = k.task[p]
  OBVIOUS
<1>h. PICK h : h = <<t.array, t.prio>>
  OBVIOUS
<1>l. PICK l : l = list_del(k, p)
  OBVIOUS
<1>1. k \in Kernel /\ t \in TaskRecord /\ Proper(t) /\ t.array # NULL /\ ~ is_short(t) /\ p \in Task
  BY <1>t DEF Good, Typed, Proper, Task
<1>2. t.array \in ArrayId /\ t.prio \in Prio
  BY <1>1 DEF TaskRecord, Proper
<1>3. h = Slot(t) /\ h \in ArrayId \X Prio
  BY <1>h, <1>2 DEF Slot
<1>4. /\ l \in Kernel
      /\ l.active = k.active /\ l.nr_active = k.nr_active /\ l.bitmap = k.bitmap
      /\ l.nr_running = k.nr_running /\ l.nr_uninterruptible = k.nr_uninterruptible
      /\ l.curr = k.curr /\ l.task = k.task
      /\ Placed(l, {p})
      /\ \A g \in ArrayId \X Prio : g # h => Elements(l.queue[g]) = Elements(k.queue[g])
  BY <1>t, <1>l, <1>3, ListDel
<1>5. \A g \in ArrayId \X Prio :
        /\ l.queue[g] \in Seq(Pid) /\ k.queue[g] \in Seq(Pid)
        /\ p \notin Elements(l.queue[g]) /\ NoDuplicates(l.queue[g])
        /\ g # h => (l.queue[g] = <<>> <=> k.queue[g] = <<>>)
  <2> TAKE g \in ArrayId \X Prio
  <2>1. l.queue[g] \in Seq(Pid) /\ k.queue[g] \in Seq(Pid)
    BY <1>1, <1>4 DEF Kernel
  <2>2. p \notin Elements(l.queue[g]) /\ NoDuplicates(l.queue[g])
    BY <1>4 DEF Placed
  <2>3. g # h => (l.queue[g] = <<>> <=> k.queue[g] = <<>>)
    BY <1>4, <2>1, Ends
  <2> QED BY <2>1, <2>2, <2>3
<1>6. k.bitmap = {g \in ArrayId \X Prio : k.queue[g] # <<>>}
  BY DEF Good
<1>7. h \in k.bitmap
  <2>1. p \in Elements(k.queue[h])
    BY <1>t, <1>3 DEF Good, Placed
  <2>2. k.queue[h] # <<>>
    BY <1>3, <1>5, <2>1, Ends
  <2> QED BY <1>3, <1>6, <2>2
<1>8. k.task \in [Task -> TaskRecord] /\ k.task = [k.task EXCEPT ![p] = t]
  BY <1>t, <1>1 DEF Kernel
<1>9. CASE rt_task(t)
  <2>1. PICK s : s = Append(l.queue[h], p)
    OBVIOUS
  <2>2. s \in Seq(Pid) /\ Elements(s) = Elements(l.queue[h]) \cup {p} /\ NoDuplicates(s)
    BY <1>3, <1>5, <2>1, AddedLast
  <2>3. j = [l EXCEPT !.queue[h] = Append(@, p)]
    BY <1>t, <1>h, <1>l, <1>9 DEF YieldPlace
  <2>4. /\ j \in Kernel /\ Relisted(k, l, j, p, t, s) /\ j.bitmap = k.bitmap
        /\ j.queue = [l.queue EXCEPT ![h] = s]
    <3>1. /\ j \in Kernel /\ j.queue = [l.queue EXCEPT ![h] = s]
          /\ j.active = l.active /\ j.nr_active = l.nr_active /\ j.bitmap = l.bitmap
          /\ j.nr_running = l.nr_running /\ j.nr_uninterruptible = l.nr_uninterruptible
          /\ j.overdue = l.overdue /\ j.curr = l.curr /\ j.task = l.task
      <4>1. l \in Kernel /\ h \in ArrayId \X Prio /\ s \in Seq(Pid)
        BY <1>3, <1>4, <2>2
      <4>2. j = [l EXCEPT !.queue[h] = s]
        BY <2>1, <2>3
      <4> QED BY ONLY <4>1, <4>2 DEF Kernel
    <3> QED BY <1>3, <1>4, <1>8, <3>1 DEF Relisted
  <2>5. j.bitmap = {g \in ArrayId \X Prio : j.queue[g] # <<>>}
    <3>1. s # <<>>
      BY <2>2, Ends
    <3>2. l.queue \in [ArrayId \X Prio -> Seq(Pid)]
      BY <1>4 DEF Kernel
    <3>3. \A g \in ArrayId \X Prio : j.queue[g] = IF g = h THEN s ELSE l.queue[g]
      BY <1>3, <2>4, <3>2
    <3>4. \A g \in ArrayId \X Prio : j.queue[g] # <<>> <=> k.queue[g] # <<>>
      BY <1>5, <1>6, <1>7, <3>1, <3>3
    <3> QED BY <1>6, <2>4, <3>4
  <2> QED BY <1>t, <1>l, <1>1, <1>3, <2>2, <2>4, <2>5, Reinserted
<1>10. CASE ~ rt_task(t) /\ l.queue[h] # <<>>
  <2>1. PICK s : s = Second(l.queue[h], p)
    OBVIOUS
  <2>2. s \in Seq(Pid) /\ Elements(s) = Elements(l.queue[h]) \cup {p} /\ NoDuplicates(s)
    BY <1>3, <1>5, <2>1, AddedSecond
  <2>3. j = [l EXCEPT !.queue[h] = Second(@, p)]
    BY <1>t, <1>h, <1>l, <1>10 DEF YieldPlace
  <2>4. /\ j \in Kernel /\ Relisted(k, l, j, p, t, s) /\ j.bitmap = k.bitmap
        /\ j.queue = [l.queue EXCEPT ![h] = s]
    <3>1. /\ j \in Kernel /\ j.queue = [l.queue EXCEPT ![h] = s]
          /\ j.active = l.active /\ j.nr_active = l.nr_active /\ j.bitmap = l.bitmap
          /\ j.nr_running = l.nr_running /\ j.nr_uninterruptible = l.nr_uninterruptible
          /\ j.overdue = l.overdue /\ j.curr = l.curr /\ j.task = l.task
      <4>1. l \in Kernel /\ h \in ArrayId \X Prio /\ s \in Seq(Pid)
        BY <1>3, <1>4, <2>2
      <4>2. j = [l EXCEPT !.queue[h] = s]
        BY <2>1, <2>3
      <4> QED BY ONLY <4>1, <4>2 DEF Kernel
    <3> QED BY <1>3, <1>4, <1>8, <3>1 DEF Relisted
  <2>5. j.bitmap = {g \in ArrayId \X Prio : j.queue[g] # <<>>}
    <3>1. s # <<>>
      BY <2>2, Ends
    <3>2. l.queue \in [ArrayId \X Prio -> Seq(Pid)]
      BY <1>4 DEF Kernel
    <3>3. \A g \in ArrayId \X Prio : j.queue[g] = IF g = h THEN s ELSE l.queue[g]
      BY <1>3, <2>4, <3>2
    <3>4. \A g \in ArrayId \X Prio : j.queue[g] # <<>> <=> k.queue[g] # <<>>
      BY <1>5, <1>6, <1>7, <3>1, <3>3
    <3> QED BY <1>6, <2>4, <3>4
  <2> QED BY <1>t, <1>l, <1>1, <1>3, <2>2, <2>4, <2>5, Reinserted
<1>11. CASE ~ rt_task(t) /\ l.queue[h] = <<>>
  <2>1. PICK m : m = [l EXCEPT !.bitmap = @ \ {h}]
    OBVIOUS
  <2>2. /\ m \in Kernel /\ m.bitmap = k.bitmap \ {h} /\ m.queue = l.queue
        /\ m.active = k.active /\ m.nr_active = k.nr_active
        /\ m.nr_running = k.nr_running /\ m.nr_uninterruptible = k.nr_uninterruptible
        /\ m.overdue = l.overdue /\ m.curr = k.curr /\ m.task = k.task
    BY <1>4, <2>1 DEF Kernel
  <2>3. PICK i : i = FirstBit(m, t.array)
    OBVIOUS
  <2>4. PICK d : d = IF i = MAX_PRIO \/ i <= t.prio THEN h ELSE <<t.array, i>>
    OBVIOUS
  <2>5. i \in Nat /\ (i # MAX_PRIO => i \in Prio)
    BY <2>3, FoundBit
  <2>6. PICK g : g = d[2]
    OBVIOUS
  <2>7. g \in Prio /\ d = <<t.array, g>> /\ g >= t.prio /\ d \in ArrayId \X Prio
    BY <1>h, <1>2, <2>4, <2>5, <2>6 DEF Prio
  <2>8. PICK u : u = [t EXCEPT !.prio = g]
    OBVIOUS
  <2>9. /\ u \in TaskRecord /\ u.array = t.array /\ u.state = t.state /\ u.policy = t.policy
        /\ u.remaining_trials = t.remaining_trials /\ u.prio = g
    BY <1>1, <2>7, <2>8 DEF TaskRecord, Prio
  <2>10. Proper(u) /\ Slot(u) = d
    BY <1>1, <1>2, <1>11, <2>7, <2>9, PrioAssumption DEF Proper, rt_task, Slot, Prio, MAX_RT_PRIO
  <2>11. PICK s : s = Second(l.queue[d], p)
    OBVIOUS
  <2>12. s \in Seq(Pid) /\ Elements(s) = Elements(l.queue[d]) \cup {p} /\ NoDuplicates(s)
    BY <1>5, <2>7, <2>11, AddedSecond
  <2>13. PICK o : o = [m EXCEPT !.queue[d] = Second(@, p)]
    OBVIOUS
  <2>14. j = [Set(o, p, u) EXCEPT !.bitmap = @ \cup {d}]
    BY <1>t, <1>h, <1>l, <1>11, <2>1, <2>3, <2>4, <2>6, <2>8, <2>13 DEF YieldPlace
  <2>15. /\ o \in Kernel /\ o.queue = [l.queue EXCEPT ![d] = s] /\ o.bitmap = m.bitmap
         /\ o.active = k.active /\ o.nr_active = k.nr_active
         /\ o.nr_running = k.nr_running /\ o.nr_uninterruptible = k.nr_uninterruptible
         /\ o.overdue = l.overdue /\ o.curr = k.curr /\ o.task = k.task
    BY <2>2, <2>7, <2>11, <2>12, <2>13 DEF Kernel
  <2>16. PICK w : w = Set(o, p, u)
    OBVIOUS
  <2>17. w \in Kernel /\ SameLists(o, w) /\ w.task = [o.task EXCEPT ![p] = u]
    BY <1>1, <2>9, <2>15, <2>16, SetFields
  <2>18. /\ j \in Kernel /\ j.queue = w.queue /\ j.bitmap = w.bitmap \cup {d}
         /\ j.active = w.active /\ j.nr_active = w.nr_active
         /\ j.nr_running = w.nr_running /\ j.nr_uninterruptible = w.nr_uninterruptible
         /\ j.overdue = w.overdue /\ j.curr = w.curr /\ j.task = w.task
    <3>1. j = [w EXCEPT !.bitmap = @ \cup {d}]
      BY <2>14, <2>16
    <3>2. w \in Kernel /\ d \in ArrayId \X Prio
      BY <2>7, <2>17
    <3> QED BY ONLY <3>1, <3>2 DEF Kernel
  <2>19. /\ Relisted(k, l, j, p, u, s) /\ j.bitmap = (k.bitmap \ {h}) \cup {d}
         /\ j.queue = [l.queue EXCEPT ![d] = s]
    BY <2>2, <2>10, <2>15, <2>17, <2>18 DEF Relisted, SameLists
  <2>20. j.bitmap = {f \in ArrayId \X Prio : j.queue[f] # <<>>}
    <3>1. s # <<>>
      BY <2>12, Ends
    <3>2. l.queue \in [ArrayId \X Prio -> Seq(Pid)]
      BY <1>4 DEF Kernel
    <3>3. \A f \in ArrayId \X Prio : j.queue[f] = IF f = d THEN s ELSE l.queue[f]
      BY <2>7, <2>19, <3>2
    <3>4. \A f \in ArrayId \X Prio : j.queue[f] # <<>> <=> f \in (k.bitmap \ {h}) \cup {d}
      BY <1>5, <1>6, <1>11, <3>1, <3>3
    <3>5. (k.bitmap \ {h}) \cup {d} \subseteq ArrayId \X Prio
      BY <1>6, <2>7
    <3> QED BY <2>19, <3>4, <3>5
  <2> QED BY <1>t, <1>l, <1>1, <2>9, <2>10, <2>12, <2>18, <2>19, <2>20, Reinserted
<1> QED BY <1>9, <1>10, <1>11

\* sched_yield changes nothing the processes see.
LEMMA Yielded ==
  ASSUME NEW k, NEW n \in Int, Good(k, {}, n), NEW p \in Pid, Enqueued(k.task[p]),
         ~ is_short(k.task[p]), NEW j, j = sys_sched_yield(k, p)
  PROVE  Good(j, {}, n) /\ Calm(k, j)
<1>1. k.task[p].array # NULL /\ p \in Task /\ {} \in SUBSET Pid
  BY DEF Enqueued, is_overdue, is_short, Task
<1>2. PICK i : i = YieldPlace(k, p)
  OBVIOUS
<1>3. Good(i, {}, n) /\ Calm(k, i)
  BY <1>1, <1>2, YieldPlaced
<1>4. j = UPDATE_REASON(i, p, YIELD) /\ YIELD \in 0 .. 7
  BY <1>2 DEF sys_sched_yield, YIELD
<1>5. Good(j, {}, n) /\ Apart(i, j, p) /\ SamePlace(j.task[p], i.task[p])
  BY <1>1, <1>3, <1>4, UpdateReason
<1>6. Calm(i, j)
  BY <1>1, <1>5, SamePlaceQueued, ApartCalm
<1> QED BY <1>3, <1>5, <1>6, CalmTwice

-----------------------------------------------------------------------------
(* The scheduling halves of do_fork and release_task.                      *)

\* do_fork's end changes nothing the processes see, but for the reason and the hurry.
LEMMA ForkRescheduled ==
  ASSUME NEW k, NEW n \in Int, Good(k, {}, n), NEW p \in Pid, NEW vfork,
         NEW j, j = ForkResched(k, p, vfork)
  PROVE  Good(j, {}, n) /\ Calm(k, j)
<1>1. CASE j = k
  BY <1>1 DEF Calm
<1>2. CASE j = UPDATE_REASON(resched_task(k, p), p, CREATED)
  <2>1. p \in Task /\ CREATED \in 0 .. 7
    BY DEF Task, CREATED
  <2> QED BY <1>2, <2>1, Hurried
<1> QED BY <1>1, <1>2 DEF ForkResched

\* The reaper's slice grows.
LEMMA SchedExited ==
  ASSUME NEW k, NEW n \in Int, Good(k, {}, n), NEW p \in Pid, NEW c \in Pid,
         NEW j, j = sched_exit(k, p, c)
  PROVE  Good(j, {}, n) /\ Calm(k, j)
<1>0. {} \in SUBSET Pid /\ p \in Task /\ c \in Task
  BY DEF Task
<1>t. PICK t : t = k.task[p]
  OBVIOUS
<1>1. /\ k \in Kernel /\ t \in TaskRecord /\ Proper(t) /\ k.task[c] \in TaskRecord
      /\ t.time_slice \in Nat /\ k.task[c].time_slice \in Nat
  <2>1. k \in Kernel /\ t \in TaskRecord /\ Proper(t) /\ k.task[c] \in TaskRecord
    BY <1>t DEF Good, Typed, Proper
  <2> QED BY <2>1 DEF TaskRecord
<1>2. PICK m : m = Min({t.time_slice + k.task[c].time_slice, MAX_TIMESLICE})
  OBVIOUS
<1>3. m \in Nat
  <2>1. PICK a : a = t.time_slice + k.task[c].time_slice
    OBVIOUS
  <2>2. a \in Nat /\ MAX_TIMESLICE \in Nat
    BY <1>1, <2>1, SliceAssumption
  <2>3. Min({a, MAX_TIMESLICE}) = (IF a <= MAX_TIMESLICE THEN a ELSE MAX_TIMESLICE)
    <3>1. PICK b : b = MAX_TIMESLICE
      OBVIOUS
    <3>2. a \in Int /\ b \in Int
      BY <2>2, <3>1
    <3>3. Min({a, b}) = (IF a <= b THEN a ELSE b)
      BY <3>2, MaxMin
    <3> QED BY <3>1, <3>3
  <2> QED BY <1>2, <2>1, <2>2, <2>3
<1>4. PICK u : u = [t EXCEPT !.time_slice = m]
  OBVIOUS
<1>5. /\ u \in TaskRecord /\ u.array = t.array /\ u.queued = t.queued /\ u.policy = t.policy
      /\ u.prio = t.prio /\ u.remaining_trials = t.remaining_trials /\ u.state = t.state
  BY <1>1, <1>3, <1>4 DEF TaskRecord
<1>6. Proper(u) /\ SamePlace(u, t)
  BY <1>1, <1>5 DEF Proper, SamePlace, rt_task, is_overdue, is_short
<1>7. CASE j = k
  BY <1>7 DEF Calm
<1>8. CASE j = Set(k, p, u)
  <2>1. Good(j, {}, n) /\ Apart(k, j, p) /\ j.task[p] = u
    BY <1>0, <1>t, <1>5, <1>6, <1>8, Touched
  <2>2. (Enqueued(j.task[p]) <=> Enqueued(k.task[p])) /\ j.task[p].queued = k.task[p].queued
    BY <1>t, <1>6, <2>1, SamePlaceQueued
  <2> QED BY <1>0, <2>1, <2>2, ApartCalm
<1> QED BY <1>t, <1>2, <1>4, <1>7, <1>8 DEF sched_exit

\* The shares of a number of ticks or trials.
LEMMA Halves ==
  ASSUME NEW r \in Nat
  PROVE  /\ ChildShare(r) \in Nat /\ r \div 2 \in Nat
         /\ r \div 2 = 0 <=> r \in {0, 1}
  BY DEF ChildShare

\* Sharing slice and trials between p and c changes no priority, and makes nobody overdue
\* but maybe the child.
Divides(k, j, p, c) ==
  /\ \A q \in Task : /\ j.task[q].prio = k.task[q].prio
                      /\ j.task[q].static_prio = k.task[q].static_prio
                      /\ j.task[q].need_resched = k.task[q].need_resched
  /\ is_overdue(j.task[p]) <=> is_overdue(k.task[p])
  /\ \A q \in Task \ {p, c} : j.task[q] = k.task[q]

\* Parent and child share slice and trials, and the parent's slice may be over.
LEMMA SliceShared ==
  ASSUME NEW k, NEW n \in Int, Good(k, {}, n), CurrQueued(k), NEW p \in Pid, p = k.curr,
         NEW c \in Pid, c # p, ~ Enqueued(k.task[c]), ~ k.task[c].queued,
         NEW prio \in UserPrio, NEW stay \in BOOLEAN, NEW j, j = SplitSlice(k, p, c, prio, stay)
  PROVE  \E i : /\ Good(i, {}, n) /\ Calm(k, i) /\ CurrQueued(i) /\ Divides(k, i, p, c)
                /\ j = scheduler_tick(i, prio, stay) \/ j = i
<1>0. {} \in SUBSET Pid /\ p \in Task /\ c \in Task
  BY DEF Task
<1>t. PICK t : t = k.task[p]
  OBVIOUS
<1>d. PICK d : d = k.task[c]
  OBVIOUS
<1>1. k \in Kernel /\ t \in TaskRecord /\ Proper(t) /\ d \in TaskRecord /\ Proper(d)
  BY <1>t, <1>d DEF Good, Typed, Proper
<1>r. PICK r : r = t.remaining_trials
  OBVIOUS
<1>2. r \in Nat /\ t.time_slice \in Nat
  BY <1>1, <1>r DEF TaskRecord
<1>3. d.array = NULL
  <2>1. Fits(d, k.active)
    BY <1>d DEF Good
  <2> QED BY <1>d, <2>1 DEF Fits, Enqueued
<1>4. PICK slice : slice = IF r = 1 THEN 0 ELSE t.time_slice \div 2
  OBVIOUS
<1>5. PICK cs : cs = ChildShare(t.time_slice)
  OBVIOUS
<1>6. PICK cr : cr = ChildShare(r)
  OBVIOUS
<1>7. PICK ps : ps = Max({1, slice})
  OBVIOUS
<1>8. PICK pr : pr = IF r = 1 THEN 1 ELSE r \div 2
  OBVIOUS
<1>9. slice \in Nat /\ cs \in Nat /\ cr \in Nat /\ pr \in Nat /\ (pr = 0 <=> r = 0)
  BY <1>2, <1>4, <1>5, <1>6, <1>8, Halves
<1>10. ps \in Nat
  BY <1>7, <1>9, MaxMin
<1>11. PICK child : child = [d EXCEPT !.time_slice = cs, !.first_time_slice = TRUE,
                                      !.remaining_trials = cr, !.current_trial = 1]
  OBVIOUS
<1>12. /\ child \in TaskRecord /\ child.array = NULL /\ child.queued = d.queued
       /\ child.policy = d.policy /\ child.prio = d.prio /\ child.state = d.state
  BY <1>1, <1>3, <1>9, <1>11 DEF TaskRecord
<1>13. Proper(child) /\ ~ Enqueued(child)
  BY <1>1, <1>d, <1>12 DEF Proper, rt_task, Enqueued
<1>14. PICK k0 : k0 = Set(k, c, child)
  OBVIOUS
<1>15. Good(k0, {}, n) /\ SameLists(k, k0) /\ k0.task[c] = child
       /\ \A q \in Task \ {c} : k0.task[q] = k.task[q]
  BY <1>12, <1>13, <1>14, Replaced
<1>16. Calm(k, k0)
  <2>1. ASSUME NEW q \in Task
        PROVE  /\ k0.task[q].state = k.task[q].state /\ k0.task[q].policy = k.task[q].policy
               /\ Enqueued(k0.task[q]) <=> Enqueued(k.task[q])
               /\ k0.task[q].queued = k.task[q].queued
    <3>1. CASE q = c
      BY <1>d, <1>12, <1>13, <1>15, <3>1
    <3>2. CASE q # c
      BY <1>15, <3>2
    <3> QED BY <3>1, <3>2
  <2> QED BY <1>15, <2>1 DEF Calm, SameLists, Task
<1>17. PICK u : u = [t EXCEPT !.remaining_trials = pr, !.time_slice = ps]
  OBVIOUS
<1>18. /\ u \in TaskRecord /\ u.array = t.array /\ u.queued = t.queued /\ u.policy = t.policy
       /\ u.prio = t.prio /\ u.remaining_trials = pr /\ u.state = t.state
  BY <1>1, <1>9, <1>10, <1>17 DEF TaskRecord
<1>19. Proper(u) /\ SamePlace(u, t)
  BY <1>1, <1>r, <1>9, <1>18 DEF Proper, SamePlace, rt_task, is_overdue, is_short
<1>20. PICK k1 : k1 = Set(k0, p, u)
  OBVIOUS
<1>21. k0.task[p] = t
  BY <1>0, <1>t, <1>15
<1>22. Good(k1, {}, n) /\ Apart(k0, k1, p) /\ k1.task[p] = u
  <2>1. SamePlace(u, k0.task[p]) /\ u.state = k0.task[p].state /\ u.policy = k0.task[p].policy
    BY <1>18, <1>19, <1>21
  <2> QED BY <1>0, <1>15, <1>18, <1>19, <1>20, <2>1, Touched, SMTT(60)
<1>23. (Enqueued(k1.task[p]) <=> Enqueued(k0.task[p])) /\ k1.task[p].queued = k0.task[p].queued
  BY <1>19, <1>21, <1>22, SamePlaceQueued
<1>24. Calm(k, k1)
  <2>1. Calm(k0, k1)
    BY <1>0, <1>22, <1>23, ApartCalm
  <2> QED BY <1>16, <2>1, CalmTwice
<1>25. j = IF slice = 0 THEN scheduler_tick(k1, prio, stay) ELSE k1
  BY <1>t, <1>d, <1>r, <1>4, <1>5, <1>6, <1>7, <1>8, <1>11, <1>14, <1>17, <1>20 DEF SplitSlice
<1>26. CurrQueued(k1)
  BY <1>24 DEF CurrQueued, Calm
<1>27. /\ child.static_prio = d.static_prio /\ child.need_resched = d.need_resched
       /\ u.static_prio = t.static_prio /\ u.need_resched = t.need_resched
  BY <1>1, <1>11, <1>17 DEF TaskRecord
<1>28. Divides(k, k1, p, c)
  <2>1. k1.task[c] = child /\ \A q \in Task \ {p, c} : k1.task[q] = k.task[q]
    BY <1>0, <1>15, <1>22 DEF Apart
  <2>2. is_overdue(u) <=> is_overdue(t)
    BY <1>r, <1>9, <1>18 DEF is_overdue, is_short
  <2> QED BY <1>t, <1>d, <1>12, <1>18, <1>22, <1>27, <2>1, <2>2 DEF Divides
<1> QED BY <1>22, <1>24, <1>25, <1>26, <1>28

\* If that ends the parent's slice, it stays queued.
LEMMA SliceSplit ==
  ASSUME NEW k, NEW n \in Int, Good(k, {}, n), CurrQueued(k), NEW p \in Pid, p = k.curr,
         NEW c \in Pid, c # p, ~ Enqueued(k.task[c]), ~ k.task[c].queued,
         NEW prio \in UserPrio, NEW stay \in BOOLEAN, NEW j, j = SplitSlice(k, p, c, prio, stay)
  PROVE  Good(j, {}, n) /\ Calm(k, j)
<1>1. PICK i : /\ Good(i, {}, n) /\ Calm(k, i) /\ CurrQueued(i)
               /\ j = scheduler_tick(i, prio, stay) \/ j = i
  BY SliceShared
<1>2. CASE j = scheduler_tick(i, prio, stay)
  BY <1>1, <1>2, SchedulerTick, CalmTwice
<1>3. CASE j = i
  BY <1>1, <1>3
<1> QED BY <1>1, <1>2, <1>3

-----------------------------------------------------------------------------
(* Policies and trials: what each operator leaves of them.                 *)

Bearing(t) == /\ {"policy", "remaining_trials"} \subseteq DOMAIN t
              /\ t.remaining_trials \in Nat

\* Of the runqueue only this is needed here.
Shaped(k) ==
  /\ {"task", "curr"} \subseteq DOMAIN k
  /\ DOMAIN k.task = Task /\ k.curr \in Task
  /\ \A q \in Task : Bearing(k.task[q])

SameLife(t, u) == Bearing(t) /\ t.policy = u.policy /\ t.remaining_trials = u.remaining_trials
SameLives(k, j) ==
  /\ {"task", "curr"} \subseteq DOMAIN j
  /\ DOMAIN j.task = Task /\ j.curr = k.curr
  /\ \A q \in Task : SameLife(j.task[q], k.task[q])

\* A well-formed runqueue has that shape.
LEMMA ShapedNow ==
  ASSUME NEW k, Typed(k)
  PROVE  Shaped(k)
BY DEF Typed, Kernel, Shaped, Bearing, TaskRecord

\* Lives that are the same stay the same over several operators.
LEMMA LivesTwice ==
  ASSUME NEW k, Shaped(k), NEW i, SameLives(k, i)
  PROVE  Shaped(i) /\ \A j : SameLives(i, j) => SameLives(k, j)
BY DEF Shaped, SameLives, SameLife

\* A field of one task is written, or a list.
LEMMA LifeKept ==
  ASSUME NEW k, Shaped(k), NEW p \in Task, NEW t, SameLife(t, k.task[p])
  PROVE  SameLives(k, Set(k, p, t)) /\ Set(k, p, t).task[p] = t
BY DEF Shaped, SameLives, SameLife, Set

\* Writing any other field leaves the life of a task alone.
LEMMA OtherFields ==
  ASSUME NEW t, Bearing(t)
  PROVE  /\ SameLife(t, t)
         /\ \A x : /\ SameLife([t EXCEPT !.reason = x], t)
                   /\ SameLife([t EXCEPT !.need_resched = x], t)
                   /\ SameLife([t EXCEPT !.queued = x], t)
                   /\ SameLife([t EXCEPT !.array = x], t)
                   /\ SameLife([t EXCEPT !.prio = x], t)
                   /\ SameLife([t EXCEPT !.static_prio = x], t)
                   /\ SameLife([t EXCEPT !.state = x], t)
                   /\ SameLife([t EXCEPT !.time_slice = x], t)
                   /\ SameLife([t EXCEPT !.first_time_slice = x], t)
BY DEF Bearing, SameLife

\* list_del unlinks and writes no record.
LEMMA ListDelLives ==
  ASSUME NEW k, Shaped(k), NEW p
  PROVE  SameLives(k, list_del(k, p)) /\ list_del(k, p).task = k.task
BY DEF list_del, Shaped, SameLives, SameLife

\* Nor does dequeue_task.
LEMMA DequeueTaskLives ==
  ASSUME NEW k, Shaped(k), NEW p, NEW a
  PROVE  SameLives(k, dequeue_task(k, p, a)) /\ dequeue_task(k, p, a).task = k.task
BY DEF dequeue_task, list_del, Shaped, SameLives, SameLife

\* enqueue_task writes where the task is queued.
LEMMA EnqueueTaskLives ==
  ASSUME NEW k, Shaped(k), NEW p \in Task, NEW a
  PROVE  SameLives(k, enqueue_task(k, p, a))
<1> DEFINE t == [k.task[p] EXCEPT !.array = a, !.queued = TRUE]
           i == Set(k, p, t)
<1>1. SameLife(t, k.task[p])
  BY DEF Shaped, SameLife, Bearing
<1>2. SameLives(k, i)
  BY <1>1, LifeKept
<1>3. SameLives(i, enqueue_task(k, p, a))
  <2>1. Shaped(i)
    BY <1>2, LivesTwice
  <2> HIDE DEF i
  <2> QED BY <2>1 DEF enqueue_task, Shaped, SameLives, SameLife, i
<1> QED BY <1>2, <1>3, LivesTwice

\* So does the insertion in the list of the overdue tasks.
LEMMA EnqueueOverdueLives ==
  ASSUME NEW k, Shaped(k), NEW p \in Task
  PROVE  SameLives(k, EnqueueOverdue(k, p))
<1> DEFINE t == [k.task[p] EXCEPT !.array = NULL, !.queued = TRUE]
           i == Set(k, p, t)
<1>1. SameLife(t, k.task[p])
  BY DEF Shaped, SameLife, Bearing
<1>2. SameLives(k, i)
  BY <1>1, LifeKept
<1>3. SameLives(i, EnqueueOverdue(k, p))
  <2>1. Shaped(i)
    BY <1>2, LivesTwice
  <2> HIDE DEF i
  <2> QED BY <2>1 DEF EnqueueOverdue, Shaped, SameLives, SameLife, i
<1> QED BY <1>2, <1>3, LivesTwice

\* Doing nothing leaves every life as it is.
LEMMA LivesSame ==
  ASSUME NEW k, Shaped(k)
  PROVE  SameLives(k, k) /\ \A q \in Task : Bearing(k.task[q])
BY DEF Shaped, SameLives, SameLife

\* The reason, need_resched and the state of a task.
LEMMA FlagLives ==
  ASSUME NEW k, Shaped(k), NEW p \in Task
  PROVE  /\ \A res : SameLives(k, UPDATE_REASON(k, p, res))
         /\ SameLives(k, resched_task(k, p))
         /\ SameLives(k, INIT_LIST_HEAD(k, p))
         /\ \A s : SameLives(k, SetState(k, p, s))
<1>1. Bearing(k.task[p])
  BY LivesSame
<1> QED BY <1>1, LifeKept, LivesSame, OtherFields DEF UPDATE_REASON, resched_task, INIT_LIST_HEAD, SetState

\* Asking for a switch and saying why changes no life.
LEMMA HurryLives ==
  ASSUME NEW k, Shaped(k), NEW p \in Task, NEW q \in Task, NEW res
  PROVE  SameLives(k, UPDATE_REASON(resched_task(k, p), q, res))
BY FlagLives, LivesTwice

\* Queueing a task, wherever its policy puts it, changes no life.
LEMMA Hw2EnqueueLives ==
  ASSUME NEW k, Shaped(k), NEW p \in Task, NEW b
  PROVE  SameLives(k, hw2_enqueue(k, p, b))
BY EnqueueTaskLives, EnqueueOverdueLives DEF hw2_enqueue

\* Nor does taking it off.
LEMMA Hw2DequeueLives ==
  ASSUME NEW k, Shaped(k), NEW p \in Task, NEW a
  PROVE  SameLives(k, hw2_dequeue(k, p, a))
<1>1. SameLives(k, list_del_init(k, p))
  BY ListDelLives, FlagLives, LivesTwice DEF list_del_init
<1> QED BY <1>1, DequeueTaskLives DEF hw2_dequeue

\* Nor does sending it to the end of its queue.
LEMMA PushBackLives ==
  ASSUME NEW k, Shaped(k), NEW p \in Task
  PROVE  SameLives(k, hw2_back_of_the_queue(k, p)) /\ SameLives(k, OVERDUE_PUSH_BACK(k, p))
<1> DEFINE i == hw2_dequeue(k, p, k.task[p].array)
<1>1. SameLives(k, i)
  BY Hw2DequeueLives
<1>2. SameLives(k, hw2_enqueue(i, p, TRUE))
  <2> HIDE DEF i
  <2> QED BY <1>1, Hw2EnqueueLives, LivesTwice
<1>3. SameLives(k, hw2_back_of_the_queue(k, p))
  BY <1>2, LivesSame DEF hw2_back_of_the_queue
<1> QED BY <1>3, LivesSame DEF OVERDUE_PUSH_BACK

\* The running task gives way as what it is.
LEMMA GiveWayLives ==
  ASSUME NEW k, Shaped(k), NEW p \in Task, NEW res
  PROVE  SameLives(k, OVERDUE_PUSH_BACK(UPDATE_REASON(resched_task(k, p), p, res), p))
BY HurryLives, PushBackLives, LivesTwice

\* A counter of the runqueue is written, and nothing else.
LEMMA CountLives ==
  ASSUME NEW k, Shaped(k)
  PROVE  /\ \A n : SameLives(k, [k EXCEPT !.nr_running = n])
         /\ \A n : SameLives(k, [k EXCEPT !.nr_uninterruptible = n])
         /\ \A n, m : SameLives(k, [k EXCEPT !.nr_running = n, !.nr_uninterruptible = m])
         /\ \A a : SameLives(k, [k EXCEPT !.active = a])
<1> SUFFICES ASSUME NEW n, NEW m
             PROVE  /\ SameLives(k, [k EXCEPT !.nr_running = n])
                    /\ SameLives(k, [k EXCEPT !.nr_uninterruptible = n])
                    /\ SameLives(k, [k EXCEPT !.nr_running = n, !.nr_uninterruptible = m])
                    /\ SameLives(k, [k EXCEPT !.active = n])
  OBVIOUS
<1>1. SameLives(k, [k EXCEPT !.nr_running = n])
  BY DEF Shaped, SameLives, SameLife
<1>2. SameLives(k, [k EXCEPT !.nr_uninterruptible = n])
  BY DEF Shaped, SameLives, SameLife
<1>3. SameLives(k, [k EXCEPT !.nr_running = n, !.nr_uninterruptible = m])
  BY DEF Shaped, SameLives, SameLife
<1>4. SameLives(k, [k EXCEPT !.active = n])
  BY DEF Shaped, SameLives, SameLife
<1> QED BY <1>1, <1>2, <1>3, <1>4

\* activate_task queues the task as what it is.
LEMMA ActivateLives ==
  ASSUME NEW k, Shaped(k), NEW p \in Task, NEW prio
  PROVE  SameLives(k, activate_task(k, p, prio))
<1> DEFINE k0 == Set(k, p, [k.task[p] EXCEPT !.prio = prio])
           k1 == hw2_enqueue(k0, p, TRUE)
<1>1. SameLives(k, k0)
  BY LifeKept, OtherFields, LivesSame
<1>2. SameLives(k, k1)
  <2> HIDE DEF k0
  <2> QED BY <1>1, Hw2EnqueueLives, LivesTwice
<1>3. activate_task(k, p, prio) = [k1 EXCEPT !.nr_running = k1.nr_running + 1]
  BY DEF activate_task
<1> HIDE DEF k1
<1>4. SameLives(k1, [k1 EXCEPT !.nr_running = k1.nr_running + 1])
  BY <1>2, CountLives, LivesTwice
<1> QED BY <1>2, <1>3, <1>4, LivesTwice

\* deactivate_task takes it off as what it is.
LEMMA DeactivateLives ==
  ASSUME NEW k, Shaped(k), NEW p \in Task
  PROVE  SameLives(k, deactivate_task(k, p))
<1> DEFINE n  == k.nr_running - 1
           m  == IF k.task[p].state = "UNINTERRUPTIBLE" THEN k.nr_uninterruptible + 1
                 ELSE k.nr_uninterruptible
           k0 == [k EXCEPT !.nr_running = n, !.nr_uninterruptible = m]
           k1 == hw2_dequeue(k0, p, k.task[p].array)
<1>1. SameLives(k, k0)
  <2> HIDE DEF n, m
  <2> QED BY CountLives
<1>2. SameLives(k, k1)
  <2> HIDE DEF k0
  <2> QED BY <1>1, Hw2DequeueLives, LivesTwice
<1>3. deactivate_task(k, p) = Set(k1, p, [k1.task[p] EXCEPT !.array = NULL])
  BY SMT DEF deactivate_task, Shaped
<1> HIDE DEF k1
<1>4. Shaped(k1) /\ Bearing(k1.task[p])
  BY <1>2, LivesTwice, LivesSame
<1>5. SameLives(k1, Set(k1, p, [k1.task[p] EXCEPT !.array = NULL]))
  BY <1>4, LifeKept, OtherFields
<1> QED BY <1>2, <1>3, <1>5, LivesTwice

\* A wake-up changes no life, that of the running task included.
LEMMA TryToWakeUpLives ==
  ASSUME NEW k, Shaped(k), NEW p \in Task, NEW prio
  PROVE  SameLives(k, try_to_wake_up(k, p, prio))
<1> DEFINE n  == IF k.task[p].state = "UNINTERRUPTIBLE" THEN k.nr_uninterruptible - 1
                 ELSE k.nr_uninterruptible
           k1 == [k EXCEPT !.nr_uninterruptible = n]
           k2 == activate_task(k1, p, prio)
           k3 == IF should_switch(k2.task[k.curr], k2.task[p])
                 THEN OVERDUE_PUSH_BACK(UPDATE_REASON(resched_task(k2, k.curr), k.curr, PRIO), k.curr)
                 ELSE k2
           k4 == IF Enqueued(k.task[p]) THEN k ELSE k3
<1>1. SameLives(k, k1)
  <2> HIDE DEF n
  <2> QED BY CountLives
<1>2. SameLives(k, k2)
  <2> HIDE DEF k1
  <2> QED BY <1>1, ActivateLives, LivesTwice
<1>3. SameLives(k, k3)
  <2> HIDE DEF k2
  <2>1. k.curr \in Task
    BY DEF Shaped
  <2> QED BY <1>2, <2>1, GiveWayLives, LivesTwice
<1>4. SameLives(k, k4)
  <2> HIDE DEF k3
  <2> QED BY <1>3, LivesSame
<1>5. try_to_wake_up(k, p, prio) = SetState(k4, p, "RUNNING")
  BY DEF try_to_wake_up, SetState
<1> HIDE DEF k4
<1> QED BY <1>4, <1>5, FlagLives, LivesTwice

\* Nor does the first wake-up of a child.
LEMMA WakeForkedLives ==
  ASSUME NEW k, Shaped(k), NEW p \in Task, NEW prio
  PROVE  SameLives(k, wake_up_forked_process(k, p, prio))
<1>1. SameLives(k, SetState(k, p, "RUNNING"))
  BY FlagLives
<1>2. wake_up_forked_process(k, p, prio) = activate_task(SetState(k, p, "RUNNING"), p, prio)
  BY DEF wake_up_forked_process, SetState
<1> HIDE DEF SetState
<1> QED BY <1>1, <1>2, ActivateLives, LivesTwice

-----------------------------------------------------------------------------
(* scheduler_tick and schedule().                                          *)

\* The end of a slice alone takes no trial.
LEMMA EndOfSliceLives ==
  ASSUME NEW k, Shaped(k), NEW p \in Task
  PROVE  SameLives(k, EndOfSlice(k, p))
BY HurryLives DEF EndOfSlice

\* A tick of a real-time or overdue task takes no trial.
LEMMA TickRealTimeLives ==
  ASSUME NEW k, Shaped(k), NEW p \in Task
  PROVE  SameLives(k, TickRealTime(k, p))
<1> DEFINE t  == k.task[p]
           u  == [t EXCEPT !.time_slice = TASK_TIMESLICE(t), !.first_time_slice = FALSE]
           k0 == Set(k, p, u)
           k1 == EndOfSlice(k0, p)
           k2 == dequeue_task(k1, p, k1.active)
           k3 == enqueue_task(k2, p, k1.active)
<1>1. Bearing(t) /\ SameLife(t, t)
  BY LivesSame, OtherFields
<1>2. SameLife(u, t)
  <2> DEFINE n == TASK_TIMESLICE(t)
  <2> HIDE DEF n
  <2> QED BY <1>1 DEF SameLife, Bearing
<1>3. SameLives(k, k0)
  <2> HIDE DEF u
  <2> QED BY <1>2, LifeKept
<1>4. SameLives(k, k1)
  <2> HIDE DEF k0
  <2> QED BY <1>3, EndOfSliceLives, LivesTwice
<1>5. SameLives(k, k3)
  <2> HIDE DEF k1
  <2> SUFFICES SameLives(k1, k3)
    BY <1>4, LivesTwice
  <2>1. Shaped(k1)
    BY <1>4, LivesTwice
  <2>2. SameLives(k1, k2)
    BY <2>1, DequeueTaskLives
  <2> HIDE DEF k2
  <2> QED BY <2>1, <2>2, EnqueueTaskLives, LivesTwice
<1>6. SameLives(k, Set(k, p, [t EXCEPT !.time_slice = Decremented(t.time_slice)]))
  <2> DEFINE v == [t EXCEPT !.time_slice = Decremented(t.time_slice)]
  <2>1. SameLife(v, k.task[p])
    BY <1>1, OtherFields
  <2> HIDE DEF v
  <2>2. SameLives(k, Set(k, p, v))
    BY <2>1, LifeKept
  <2> QED BY <2>2 DEF v
<1>7. TickRealTime(k, p) = IF t.policy # "RR" THEN k
                           ELSE IF Decremented(t.time_slice) # 0
                                THEN Set(k, p, [t EXCEPT !.time_slice = Decremented(t.time_slice)])
                                ELSE k3
  BY DEF TickRealTime
<1> HIDE DEF k3, t
<1> QED BY <1>5, <1>6, <1>7, LivesSame

\* Nor does the end of the slice of an OTHER task.
LEMMA ExpireOtherLives ==
  ASSUME NEW k, Shaped(k), NEW p \in Task, NEW prio, NEW stay
  PROVE  SameLives(k, ExpireOther(k, p, prio, stay))
<1> DEFINE k0 == dequeue_task(k, p, k.active)
           k1 == EndOfSlice(k0, p)
           n  == TASK_TIMESLICE(k1.task[p])
           u  == [k1.task[p] EXCEPT !.prio = prio, !.first_time_slice = FALSE, !.time_slice = n]
           k2 == Set(k1, p, u)
           a  == IF stay THEN k.active ELSE expired(k)
<1>1. SameLives(k, k0)
  BY DequeueTaskLives
<1>2. SameLives(k, k1)
  <2> HIDE DEF k0
  <2> QED BY <1>1, EndOfSliceLives, LivesTwice
<1>3. SameLives(k, k2)
  <2> HIDE DEF k1, n
  <2>1. Shaped(k1) /\ Bearing(k1.task[p])
    BY <1>2, LivesTwice, LivesSame
  <2>2. SameLife(u, k1.task[p])
    BY <2>1 DEF SameLife, Bearing
  <2> HIDE DEF u
  <2> QED BY <1>2, <2>1, <2>2, LifeKept, LivesTwice
<1>4. ExpireOther(k, p, prio, stay) = enqueue_task(k2, p, a)
  BY DEF ExpireOther
<1> HIDE DEF k2, a
<1> QED BY <1>3, <1>4, EnqueueTaskLives, LivesTwice

\* A task that leaves the CPU keeps its policy and its trials.
LEMMA PutPrevLives ==
  ASSUME NEW k, Shaped(k), NEW sig
  PROVE  SameLives(k, PutPrev(k, sig))
<1>1. k.curr \in Task
  BY DEF Shaped
<1>2. SameLives(k, UPDATE_REASON(deactivate_task(k, k.curr), k.curr, PREV_WAIT))
  BY <1>1, DeactivateLives, FlagLives, LivesTwice
<1>3. SameLives(k, Set(k, k.curr, [k.task[k.curr] EXCEPT !.state = "RUNNING"]))
  BY <1>1, LifeKept, LivesSame, OtherFields
<1> QED BY <1>2, <1>3, LivesSame DEF PutPrev

\* The swap of the arrays is no concern of the tasks.
LEMMA SwapLives ==
  ASSUME NEW k, Shaped(k)
  PROVE  SameLives(k, SwapArrays(k))
BY CountLives, LivesSame DEF SwapArrays

\* The task that is switched out goes back as what it is.
LEMMA PushPrevLives ==
  ASSUME NEW k, Shaped(k)
  PROVE  SameLives(k, PushPrevBack(k))
<1>1. k.curr \in Task
  BY DEF Shaped
<1> QED BY <1>1, PushBackLives, LivesSame DEF PushPrevBack

\* After schedule() another task may be current, and all of them are as they were.
LEMMA ScheduleLives ==
  ASSUME NEW k, Shaped(k), NEW sig
  PROVE  LET j == schedule(k, sig)
         IN  /\ {"task", "curr"} \subseteq DOMAIN j /\ DOMAIN j.task = Task
             /\ \A q \in Task : SameLife(j.task[q], k.task[q])
<1> DEFINE k1 == PutPrev(k, sig)
           k2 == IF k1.nr_running = 0 THEN k1 ELSE PushPrevBack(SwapArrays(k1))
           k3 == Set(k2, k.curr, [k2.task[k.curr] EXCEPT !.need_resched = FALSE])
           next == IF k2.nr_running = 0 THEN Idle ELSE PickNext(k2)
<1>1. SameLives(k, k1)
  BY PutPrevLives
<1>2. SameLives(k, k2)
  <2> HIDE DEF k1
  <2>1. SameLives(k, SwapArrays(k1))
    BY <1>1, SwapLives, LivesTwice
  <2> QED BY <1>1, <2>1, PushPrevLives, LivesTwice
<1>3. SameLives(k, k3)
  <2> HIDE DEF k2
  <2> DEFINE u == [k2.task[k.curr] EXCEPT !.need_resched = FALSE]
  <2>1. Shaped(k2) /\ k.curr \in Task
    BY <1>2, LivesTwice DEF Shaped
  <2>2. SameLife(u, k2.task[k.curr])
    BY <2>1, LivesSame, OtherFields
  <2> HIDE DEF u
  <2>3. SameLives(k2, Set(k2, k.curr, u))
    BY <2>1, <2>2, LifeKept
  <2> QED BY <1>2, <2>3, LivesTwice DEF u
<1>4. schedule(k, sig) = [k3 EXCEPT !.curr = next]
  BY DEF schedule
<1> HIDE DEF k3, next
<1> QED BY <1>3, <1>4 DEF SameLives

-----------------------------------------------------------------------------
(* System calls.                                                           *)

\* nice changes priorities only.
LEMMA NiceLives ==
  ASSUME NEW k, Shaped(k), NEW p \in Task, NEW prio
  PROVE  SameLives(k, set_user_nice(k, p, prio))
<1> DEFINE t  == k.task[p]
           t1 == [t EXCEPT !.static_prio = prio, !.prio = prio]
           i  == hw2_dequeue(k, p, t.array)
           j  == Set(i, p, t1)
           k1 == enqueue_task(j, p, t.array)
           k2 == IF p = k.curr \/ should_switch(k1.task[k.curr], k1.task[p])
                 THEN OVERDUE_PUSH_BACK(UPDATE_REASON(resched_task(k1, k.curr), k.curr, PRIO), k.curr)
                 ELSE k1
<1>1. Bearing(t) /\ SameLife(t1, t) /\ SameLife([t EXCEPT !.static_prio = prio], t)
  BY LivesSame, OtherFields DEF Bearing, SameLife
<1>2. SameLives(k, i)
  BY Hw2DequeueLives
<1>3. SameLives(k, j)
  <2> HIDE DEF i, t1
  <2>1. SameLife(t1, i.task[p]) /\ Shaped(i)
    BY <1>1, <1>2, LivesTwice DEF SameLives, SameLife
  <2> QED BY <1>2, <2>1, LifeKept, LivesTwice
<1>4. SameLives(k, k1)
  <2> HIDE DEF j
  <2> QED BY <1>3, EnqueueTaskLives, LivesTwice
<1>5. SameLives(k, k2)
  <2> HIDE DEF k1
  <2>1. k.curr \in Task
    BY DEF Shaped
  <2> QED BY <1>4, <2>1, GiveWayLives, LivesTwice
<1>6. SameLives(k, Set(k, p, t1)) /\ SameLives(k, Set(k, p, [t EXCEPT !.static_prio = prio]))
  <2> HIDE DEF t1
  <2> QED BY <1>1, LifeKept
<1>7. set_user_nice(k, p, prio) = IF t.static_prio = prio \/ is_overdue(t) THEN k
                                  ELSE IF rt_task(t) THEN Set(k, p, [t EXCEPT !.static_prio = prio])
                                  ELSE IF t.array = NULL THEN Set(k, p, t1)
                                  ELSE k2
  BY DEF set_user_nice
<1> HIDE DEF k2, t1, t
<1> QED BY <1>5, <1>6, <1>7, LivesSame

\* sched_yield moves the task, at most to another priority.
LEMMA YieldLives ==
  ASSUME NEW k, Shaped(k), NEW p \in Task
  PROVE  SameLives(k, sys_sched_yield(k, p))
<1> DEFINE t  == k.task[p]
           h  == <<t.array, t.prio>>
           k1 == list_del(k, p)
           k2 == [k1 EXCEPT !.bitmap = k1.bitmap \ {h}]
           i  == FirstBit(k2, t.array)
           d  == IF i = MAX_PRIO \/ i <= t.prio THEN h ELSE <<t.array, i>>
           Insert(j, h2) == [j EXCEPT !.queue[h2] = Second(j.queue[h2], p)]
           k3 == Insert(k2, d)
           u  == [t EXCEPT !.prio = d[2]]
           k4 == Set(k3, p, u)
<1>1. SameLives(k, k1) /\ k1.task = k.task
  BY ListDelLives
<1> HIDE DEF k1, d
<1>2. SameLives(k1, [k1 EXCEPT !.queue[h] = Append(k1.queue[h], p)]) /\ SameLives(k1, Insert(k1, h))
  <2>1. Shaped(k1)
    BY <1>1, LivesTwice
  <2> HIDE DEF h
  <2> QED BY <2>1 DEF Shaped, SameLives, SameLife
<1>3. SameLives(k1, k3) /\ k3.task = k.task
  <2>1. Shaped(k1)
    BY <1>1, LivesTwice
  <2> HIDE DEF h
  <2> QED BY <1>1, <2>1 DEF Shaped, SameLives, SameLife
<1>4. SameLives(k, k4)
  <2> HIDE DEF k3
  <2>1. SameLife(u, k3.task[p])
    BY <1>3, LivesSame, OtherFields
  <2> HIDE DEF u
  <2> QED BY <1>1, <1>3, <2>1, LifeKept, LivesTwice
<1>5. SameLives(k, [k4 EXCEPT !.bitmap = k4.bitmap \cup {d}])
  <2> HIDE DEF k4
  <2>1. Shaped(k4)
    BY <1>4, LivesTwice
  <2>2. SameLives(k4, [k4 EXCEPT !.bitmap = k4.bitmap \cup {d}])
    BY <2>1 DEF Shaped, SameLives, SameLife
  <2> QED BY <1>4, <2>2, LivesTwice
<1>6. YieldPlace(k, p) \in {[k1 EXCEPT !.queue[h] = Append(k1.queue[h], p)], Insert(k1, h),
                            [k4 EXCEPT !.bitmap = k4.bitmap \cup {d}]}
  BY DEF YieldPlace, k1, d
<1>7. SameLives(k, YieldPlace(k, p))
  <2> DEFINE x == [k1 EXCEPT !.queue[h] = Append(k1.queue[h], p)]
             y == Insert(k1, h)
             z == [k4 EXCEPT !.bitmap = k4.bitmap \cup {d}]
  <2> HIDE DEF x, y, z
  <2>1. SameLives(k, x) /\ SameLives(k, y) /\ SameLives(k, z)
    BY <1>1, <1>2, <1>5, LivesTwice DEF x, y, z
  <2>2. YieldPlace(k, p) \in {x, y, z}
    BY <1>6 DEF x, y, z
  <2> QED BY <2>1, <2>2
<1> QED BY <1>7, FlagLives, LivesTwice DEF sys_sched_yield

\* Handing the CPU to the child changes no life.
LEMMA ForkReschedLives ==
  ASSUME NEW k, Shaped(k), NEW p \in Task, NEW vfork
  PROVE  SameLives(k, ForkResched(k, p, vfork))
BY HurryLives, LivesSame DEF ForkResched

\* The reaper gets ticks, and no trials.
LEMMA SchedExitLives ==
  ASSUME NEW k, Shaped(k), NEW p \in Task, NEW c
  PROVE  SameLives(k, sched_exit(k, p, c))
<1> DEFINE n == Min({k.task[p].time_slice + k.task[c].time_slice, MAX_TIMESLICE})
<1>1. sched_exit(k, p, c) \in {k, Set(k, p, [k.task[p] EXCEPT !.time_slice = n])}
  BY DEF sched_exit
<1> HIDE DEF n
<1>2. SameLives(k, Set(k, p, [k.task[p] EXCEPT !.time_slice = n]))
  BY LifeKept, LivesSame, OtherFields
<1> QED BY <1>1, <1>2, LivesSame

\* exit_notify writes who may give ticks back, and no trials.
LEMMA OrphanLives ==
  ASSUME NEW k, Shaped(k), NEW S
  PROVE  SameLives(k, forget_original_parent(k, S))
<1> DEFINE f == [q \in Task |-> IF q \in S THEN [k.task[q] EXCEPT !.first_time_slice = FALSE]
                              ELSE k.task[q]]
<1>1. DOMAIN f = Task /\ \A q \in Task : SameLife(f[q], k.task[q])
  BY LivesSame, OtherFields
<1>2. forget_original_parent(k, S) = [k EXCEPT !.task = f]
  BY DEF forget_original_parent
<1> HIDE DEF f
<1> QED BY <1>1, <1>2 DEF Shaped, SameLives

-----------------------------------------------------------------------------
(* Where trials are used up, shared and given.                             *)

Declined(t, u) == Bearing(t) /\ t.policy = u.policy /\ t.remaining_trials <= u.remaining_trials

\* One task may have lost trials.
Ages(k, j, p) ==
  /\ {"task", "curr"} \subseteq DOMAIN j
  /\ DOMAIN j.task = Task /\ j.curr = k.curr
  /\ \A q \in Task \ {p} : SameLife(j.task[q], k.task[q])
  /\ Declined(j.task[p], k.task[p])

\* A life that goes on twice has gone on.
LEMMA AgesTwice ==
  ASSUME NEW k, Shaped(k), NEW p \in Task, NEW i, Ages(k, i, p)
  PROVE  Shaped(i) /\ \A j : Ages(i, j, p) => Ages(k, j, p)
BY DEF Shaped, Ages, SameLife, Declined, Bearing

\* A life that is the same has gone on.
LEMMA SameAges ==
  ASSUME NEW k, Shaped(k), NEW p \in Task, NEW j, SameLives(k, j)
  PROVE  Ages(k, j, p)
BY DEF Shaped, SameLives, Ages, SameLife, Declined, Bearing

\* A record that has declined may be written.
LEMMA AgeWritten ==
  ASSUME NEW k, Shaped(k), NEW p \in Task, NEW t, Declined(t, k.task[p])
  PROVE  Ages(k, Set(k, p, t), p)
BY DEF Shaped, Ages, SameLife, Set

\* The end of a slice takes a trial from a SHORT task, and only from that one.
LEMMA ExpireShortAges ==
  ASSUME NEW k, Shaped(k), NEW p \in Task, is_short(k.task[p]), ~ is_overdue(k.task[p])
  PROVE  Ages(k, ExpireShort(k, p), p)
<1> DEFINE k0     == hw2_dequeue(k, p, k.task[p].array)
           k1     == EndOfSlice(k0, p)
           t      == k1.task[p]
           trials == t.remaining_trials - 1
           slice  == hw2_ms_to_ticks(t.requested_time) \div (t.current_trial + 1)
           t1     == [t EXCEPT !.first_time_slice = FALSE, !.remaining_trials = trials,
                               !.current_trial = t.current_trial + 1, !.time_slice = slice]
           k4     == Set(k1, p, t1)
           k5     == INIT_LIST_HEAD(k4, p)
           k2     == UPDATE_REASON(k5, p, OVERDUE)
           t3     == [k2.task[p] EXCEPT !.remaining_trials = 0, !.time_slice = 0]
           k3     == Set(k2, p, t3)
           i      == IF trials = 0 \/ slice = 0 THEN k3 ELSE k4
<1>1. SameLives(k, k0)
  BY Hw2DequeueLives
<1>2. SameLives(k, k1)
  <2> HIDE DEF k0
  <2> QED BY <1>1, EndOfSliceLives, LivesTwice
<1>3. Shaped(k1) /\ Ages(k, k1, p)
  <2> HIDE DEF k1
  <2> QED BY <1>2, LivesTwice, SameAges
<1>4. Bearing(t) /\ is_short(t) /\ t.remaining_trials # 0
  <2> HIDE DEF k1
  <2> QED BY <1>2, <1>3, LivesSame DEF SameLives, SameLife, is_short, is_overdue
<1>5. Declined(t1, t)
  <2> HIDE DEF t, slice
  <2> QED BY <1>4 DEF Declined, Bearing
<1>6. Ages(k, k4, p) /\ Shaped(k4)
  <2> HIDE DEF k1, t1
  <2>1. Ages(k1, k4, p)
    BY <1>3, <1>5, AgeWritten
  <2> QED BY <2>1, <1>3, AgesTwice
<1>7. SameLives(k4, k2)
  <2> HIDE DEF k4
  <2>1. SameLives(k4, k5) /\ Shaped(k5)
    BY <1>6, FlagLives, LivesTwice
  <2> HIDE DEF k5
  <2> QED BY <1>6, <2>1, FlagLives, LivesTwice
<1>8. Ages(k, k2, p) /\ Shaped(k2)
  <2> HIDE DEF k4, k2
  <2> QED BY <1>6, <1>7, LivesTwice, SameAges, AgesTwice
<1>9. Ages(k, k3, p)
  <2> HIDE DEF k2
  <2>1. Declined(t3, k2.task[p])
    BY <1>8, LivesSame DEF Declined, Bearing
  <2> HIDE DEF t3
  <2>2. Ages(k2, k3, p)
    BY <1>8, <2>1, AgeWritten
  <2> QED BY <2>2, <1>8, AgesTwice
<1>10. ExpireShort(k, p) = hw2_enqueue(i, p, TRUE)
  BY DEF ExpireShort
<1>11. Ages(k, i, p)
  <2> HIDE DEF k3, k4
  <2> QED BY <1>6, <1>9
<1> HIDE DEF i
<1>12. Shaped(i)
  BY <1>11, AgesTwice
<1>13. Ages(i, hw2_enqueue(i, p, TRUE), p)
  BY <1>12, Hw2EnqueueLives, SameAges
<1> QED BY <1>10, <1>11, <1>13, AgesTwice

\* A tick ages the running task and no other.
LEMMA TickAges ==
  ASSUME NEW k, Shaped(k), NEW prio, NEW stay
  PROVE  Ages(k, scheduler_tick(k, prio, stay), k.curr)
<1> DEFINE p == k.curr
           t == k.task[p]
           u == [t EXCEPT !.time_slice = Decremented(t.time_slice)]
           k1 == Set(k, p, u)
<1>1. p \in Task /\ Bearing(t) /\ SameLife(u, t)
  BY LivesSame, OtherFields DEF Shaped
<1>2. SameLives(k, k1) /\ Shaped(k1) /\ k1.task[p] = u
  <2> HIDE DEF u
  <2> QED BY <1>1, LifeKept, LivesTwice
<1> HIDE DEF k1
<1>3. Ages(k, EndOfSlice(k, p), p) /\ Ages(k, TickRealTime(k, p), p) /\ Ages(k, k, p) /\ Ages(k, k1, p)
  BY <1>1, <1>2, EndOfSliceLives, TickRealTimeLives, LivesSame, SameAges
<1>4. ASSUME is_short(t), ~ is_overdue(t)
      PROVE  Ages(k, ExpireShort(k1, p), p)
  <2>1. is_short(k1.task[p]) /\ ~ is_overdue(k1.task[p])
    <3> HIDE DEF u
    <3> QED BY <1>1, <1>2, <1>4 DEF SameLife, is_short, is_overdue
  <2> QED BY <1>1, <1>2, <1>3, <2>1, ExpireShortAges, AgesTwice
<1>5. Ages(k, ExpireOther(k1, p, prio, stay), p)
  BY <1>1, <1>2, <1>3, ExpireOtherLives, SameAges, AgesTwice
<1>6. scheduler_tick(k, prio, stay) =
        IF p = Idle THEN k
        ELSE IF ~ is_short(t) /\ t.array # k.active THEN EndOfSlice(k, p)
        ELSE IF rt_task(t) \/ is_overdue(t) THEN TickRealTime(k, p)
        ELSE IF Decremented(t.time_slice) # 0 THEN k1
        ELSE IF is_short(t) THEN ExpireShort(k1, p)
        ELSE ExpireOther(k1, p, prio, stay)
  BY DEF scheduler_tick, k1
<1> HIDE DEF t, p
<1>7. Ages(k, scheduler_tick(k, prio, stay), p)
  BY <1>3, <1>4, <1>5, <1>6
<1> QED BY <1>7 DEF p

\* The parent has no more trials than before, the child as many as it is given, and no
\* more than the parent had.
Shares(k, j, p, c) ==
  /\ \A q \in Task \ {p, c} : SameLife(j.task[q], k.task[q])
  /\ Declined(j.task[p], k.task[p])
  /\ j.task[c].policy = k.task[c].policy
  /\ Bearing(j.task[c]) /\ j.task[c].remaining_trials <= k.task[p].remaining_trials

\* do_fork's parent keeps part of its trials, and the child gets no more than it had.
LEMMA SplitAges ==
  ASSUME NEW k, Shaped(k), NEW p \in Task, p = k.curr, NEW c \in Task, c # p,
         NEW prio, NEW stay
  PROVE  Shares(k, SplitSlice(k, p, c, prio, stay), p, c)
<1> DEFINE t     == k.task[p]
           r     == t.remaining_trials
           last_ == r = 1
           slice == IF last_ THEN 0 ELSE t.time_slice \div 2
           n     == ChildShare(t.time_slice)
           m     == Max({1, slice})
           child == [k.task[c] EXCEPT !.time_slice = n, !.first_time_slice = TRUE,
                                      !.remaining_trials = ChildShare(r), !.current_trial = 1]
           own   == [t EXCEPT !.remaining_trials = IF last_ THEN 1 ELSE r \div 2, !.time_slice = m]
           k0    == Set(k, c, child)
           k1    == Set(k0, p, own)
           j     == SplitSlice(k, p, c, prio, stay)
<1>1. Bearing(t) /\ Bearing(k.task[c])
  BY LivesSame
<1>2. ChildShare(r) \in Nat /\ ChildShare(r) <= r /\ r \in Nat /\ r \div 2 \in Nat /\ r \div 2 <= r
  <2>1. r \in Nat
    BY <1>1 DEF Bearing
  <2> HIDE DEF r
  <2> QED BY <2>1 DEF ChildShare
<1>3. Declined(own, t)
  <2> HIDE DEF t, m
  <2> QED BY <1>1, <1>2 DEF Declined, Bearing
<1>4. Bearing(child) /\ child.policy = k.task[c].policy /\ child.remaining_trials <= r
  <2> DEFINE u == k.task[c]
             s == ChildShare(r)
  <2> HIDE DEF n, s, r, u
  <2>1. Bearing(u) /\ s \in Nat /\ s <= r
    BY <1>1, <1>2 DEF u, s
  <2>2. child = [u EXCEPT !.time_slice = n, !.first_time_slice = TRUE,
                          !.remaining_trials = s, !.current_trial = 1]
    BY DEF u, s
  <2> HIDE DEF child
  <2>3. Bearing(child) /\ child.policy = u.policy /\ child.remaining_trials = s
    BY <2>1, <2>2 DEF Bearing
  <2> QED BY <2>1, <2>3 DEF u
<1>5. /\ Shaped(k1) /\ k1.curr = p /\ k1.task[p] = own /\ k1.task[c] = child
      /\ \A q \in Task \ {p, c} : k1.task[q] = k.task[q]
  <2> HIDE DEF child, own
  <2>1. /\ Shaped(k0) /\ k0.curr = p /\ k0.task[c] = child
        /\ \A q \in Task \ {c} : k0.task[q] = k.task[q]
    BY <1>4 DEF Shaped, Set
  <2> HIDE DEF k0
  <2> QED BY <2>1, <1>3 DEF Shaped, Set, Declined
<1>6. j = IF slice = 0 THEN scheduler_tick(k1, prio, stay) ELSE k1
  BY DEF SplitSlice
<1> HIDE DEF k1, own, child, slice, j
<1>7. Ages(k1, j, p)
  BY <1>5, <1>6, TickAges, LivesSame, SameAges
<1>8. /\ \A q \in Task \ {p, c} : SameLife(j.task[q], k1.task[q])
      /\ SameLife(j.task[c], child) /\ Declined(j.task[p], own)
  BY <1>5, <1>7 DEF Ages
<1>9. Declined(j.task[p], t)
  BY <1>1, <1>3, <1>8 DEF Declined, Bearing
<1>10. Shares(k, j, p, c)
  BY <1>4, <1>5, <1>8, <1>9 DEF SameLife, Shares
<1> QED BY <1>10 DEF j

\* What a task becomes is written by setscheduler, and kept when it is queued again.
LEMMA SetschedulerLives ==
  ASSUME NEW k, Shaped(k), NEW p \in Task, NEW new, Bearing(new), NEW prio,
         NEW j, j = setscheduler(k, p, new, prio)
  PROVE  /\ DOMAIN j.task = Task
         /\ \A q \in Task \ {p} : SameLife(j.task[q], k.task[q])
         /\ SameLife(j.task[p], new)
<1> DEFINE k0 == IF k.task[p].array # NULL THEN deactivate_task(k, p) ELSE k
           u  == [new EXCEPT !.array = NULL]
           k1 == Set(k0, p, u)
           k2 == IF is_short(new) /\ ~ is_short(k.task[p])
                 THEN UPDATE_REASON(resched_task(k1, k.curr), k.curr, PRIO) ELSE k1
<1>1. SameLives(k, k0) /\ Shaped(k0)
  BY DeactivateLives, LivesSame, LivesTwice
<1>2. SameLife(u, new)
  BY OtherFields
<1>3. /\ Shaped(k1) /\ k1.task[p] = u
      /\ \A q \in Task \ {p} : k1.task[q] = k0.task[q]
  <2> HIDE DEF k0, u
  <2> QED BY <1>1, <1>2 DEF Shaped, Set, SameLife
<1>4. SameLives(k1, k2) /\ Shaped(k2)
  <2> HIDE DEF k1
  <2>1. k.curr \in Task
    BY DEF Shaped
  <2> QED BY <2>1, <1>3, HurryLives, LivesSame, LivesTwice
<1>5. j = IF k.task[p].array # NULL THEN activate_task(k2, p, prio) ELSE k2
  BY DEF setscheduler
<1> HIDE DEF k0, k1, k2, u
<1>6. SameLives(k1, j)
  BY <1>3, <1>4, <1>5, ActivateLives, LivesTwice
<1> QED BY <1>1, <1>2, <1>3, <1>6 DEF SameLives, SameLife

\* A task that is SHORT stays so and keeps its trials: only sched_setparam may name it.
LEMMA PolicyLives ==
  ASSUME NEW t, Bearing(t), NEW policy, NEW rt_priority, NEW requested_time, NEW trials \in Nat,
         MaySetScheduler(t, policy, rt_priority, requested_time, trials),
         NEW new, new = WithPolicy(t, policy, rt_priority, requested_time, trials)
  PROVE  Bearing(new) /\ (is_short(t) => SameLife(new, t))
<1> DEFINE q  == NewPolicy(t, policy)
           x  == IF q \in {"FIFO", "RR"} THEN MAX_USER_RT_PRIO - 1 - rt_priority ELSE t.static_prio
           t1 == [t EXCEPT !.policy = q, !.prio = x]
           t2 == [t1 EXCEPT !.requested_time = requested_time]
           y  == Max({1, hw2_ms_to_ticks(requested_time)})
           t3 == [t2 EXCEPT !.remaining_trials = trials, !.current_trial = 1, !.time_slice = y]
<1>1. new = IF q # "SHORT" THEN t1 ELSE IF is_short(t) THEN t2 ELSE t3
  BY DEF WithPolicy
<1>2. is_short(t) => q = t.policy
  BY DEF MaySetScheduler, NewPolicy, is_short
<1> HIDE DEF q, x, y
<1>3. Bearing(t1) /\ t1.policy = q /\ t1.remaining_trials = t.remaining_trials
  BY DEF Bearing
<1> HIDE DEF t1
<1>4. Bearing(t2) /\ t2.policy = t1.policy /\ t2.remaining_trials = t1.remaining_trials
  BY <1>3 DEF Bearing
<1> HIDE DEF t2
<1>5. Bearing(t3)
  BY <1>4 DEF Bearing
<1> HIDE DEF t3
<1>6. Bearing(new)
  BY <1>1, <1>3, <1>4, <1>5
<1>7. is_short(t) => new \in {t1, t2} /\ q = t.policy
  BY <1>1, <1>2
<1> QED BY <1>3, <1>4, <1>6, <1>7 DEF SameLife

-----------------------------------------------------------------------------
(* The line of the overdue tasks.                                          *)

\* Nobody but c has left the line, and whoever comes after a task of s other than c in w
\* came after it in s.
InLine(s, w, c) ==
  /\ w \in Seq(Pid)
  /\ Elements(s) \ {c} \subseteq Elements(w)
  /\ \A q \in Elements(s) \ {c} : \A p \in Pid : Before(w, q, p) => Before(s, q, p)

\* A line kept twice is kept.
LEMMA InLineTwice ==
  ASSUME NEW s, NEW u, NEW w, NEW c, InLine(s, u, c), InLine(u, w, c)
  PROVE  InLine(s, w, c)
BY DEF InLine

\* A line that is the same is kept.
LEMMA InLineSame ==
  ASSUME NEW s \in Seq(Pid), NEW c
  PROVE  InLine(s, s, c)
BY DEF InLine

\* A task is taken off the line: it is the current one, or it was not on it.
LEMMA InLineWithout ==
  ASSUME NEW s \in Seq(Pid), NEW p, NEW c, p = c \/ p \notin Elements(s)
  PROVE  InLine(s, Without(s, p), c)
<1>1. CASE ~ \E i \in 1 .. Len(s) : s[i] = p
  BY <1>1, InLineSame DEF Without
<1>2. CASE \E i \in 1 .. Len(s) : s[i] = p
  <2> DEFINE i == CHOOSE j \in 1 .. Len(s) : s[j] = p
             w == [j \in 1 .. Len(s) - 1 |-> IF j < i THEN s[j] ELSE s[j + 1]]
             at(j) == IF j < i THEN j ELSE j + 1
  <2>1. i \in 1 .. Len(s) /\ s[i] = p /\ p = c
    BY <1>2 DEF Elements
  <2>2. Without(s, p) = w
    BY <1>2 DEF Without
  <2>3. Len(s) \in Nat /\ Len(s) - 1 \in Nat /\ s \in [1 .. Len(s) -> Pid]
    BY <2>1, LenProperties
  <2> HIDE DEF i
  <2>4. w \in [1 .. Len(s) - 1 -> Pid]
    BY <2>1, <2>3
  <2>5. w \in Seq(Pid) /\ Len(w) = Len(s) - 1
    BY <2>3, <2>4
  <2>6. \A j \in 1 .. Len(w) : at(j) \in 1 .. Len(s) /\ w[j] = s[at(j)]
    BY <2>1, <2>3, <2>5
  <2>7. \A m, n \in 1 .. Len(w) : m < n => at(m) < at(n)
    BY <2>1, <2>3, <2>5
  <2>8. ASSUME NEW q \in Elements(s), q # c
        PROVE  q \in Elements(w)
    <3>1. PICK j \in 1 .. Len(s) : s[j] = q
      BY <2>8 DEF Elements
    <3>2. CASE j < i
      <4>1. j \in 1 .. Len(s) - 1 /\ w[j] = q
        BY <2>1, <2>3, <3>1, <3>2
      <4> QED BY <4>1, <2>5 DEF Elements
    <3>3. CASE j > i
      <4>1. j - 1 \in 1 .. Len(s) - 1 /\ w[j - 1] = q
        BY <2>1, <2>3, <3>1, <3>3
      <4> QED BY <4>1, <2>5 DEF Elements
    <3> QED BY <3>1, <3>2, <3>3, <2>1, <2>3, <2>8
  <2>9. ASSUME NEW q, NEW r, Before(w, q, r)
        PROVE  Before(s, q, r)
    <3> HIDE DEF w, at
    <3> QED BY <2>6, <2>7, <2>9 DEF Before
  <2> QED BY <2>2, <2>5, <2>8, <2>9 DEF InLine
<1> QED BY <1>1, <1>2

\* A task that was not on the line is put at its head, where the last to run comes from.
LEMMA InLineAdded ==
  ASSUME NEW s \in Seq(Pid), NEW p \in Pid, NEW c, p \notin Elements(s)
  PROVE  InLine(s, <<p>> \o s, c)
<1> DEFINE w == <<p>> \o s
<1>1. <<p>> \in Seq(Pid) /\ Len(<<p>>) = 1 /\ <<p>>[1] = p
  OBVIOUS
<1>2. w \in Seq(Pid) /\ Len(w) = 1 + Len(s) /\ Len(s) \in Nat
  BY <1>1, ConcatProperties
<1>3. w[1] = p /\ \A j \in 1 .. Len(s) : w[j + 1] = s[j]
  BY <1>1, <1>2, ConcatProperties
<1> HIDE DEF w
<1>4. Elements(s) \subseteq Elements(w)
  <2> SUFFICES ASSUME NEW j \in 1 .. Len(s) PROVE s[j] \in Elements(w)
    BY DEF Elements
  <2>1. j + 1 \in 1 .. Len(w)
    BY <1>2
  <2> QED BY <1>3, <2>1 DEF Elements
<1>5. ASSUME NEW q \in Elements(s), NEW r, Before(w, q, r)
      PROVE  Before(s, q, r)
  <2>1. PICK m, n \in 1 .. Len(w) : m < n /\ w[m] = q /\ w[n] = r
    BY <1>5 DEF Before
  <2>2. m # 1
    BY <1>3, <1>5, <2>1
  <2>3. /\ m - 1 \in 1 .. Len(s) /\ n - 1 \in 1 .. Len(s) /\ m - 1 < n - 1
        /\ (m - 1) + 1 = m /\ (n - 1) + 1 = n
    BY <1>2, <2>1, <2>2
  <2>4. s[m - 1] = q /\ s[n - 1] = r
    BY <1>3, <2>1, <2>3
  <2> QED BY <2>3, <2>4 DEF Before
<1>6. InLine(s, w, c)
  BY <1>2, <1>4, <1>5 DEF InLine
<1> QED BY <1>6 DEF w

\* The current task goes to the end of the line.
LEMMA InLineAgain ==
  ASSUME NEW s \in Seq(Pid), NoDuplicates(s), NEW c \in Pid
  PROVE  InLine(s, <<c>> \o Without(s, c), c)
<1>1. Without(s, c) \in Seq(Pid) /\ c \notin Elements(Without(s, c))
  BY WithoutIt
<1> QED BY <1>1, InLineWithout, InLineAdded, InLineTwice

\* What the operators do to the line.
Lined(k) == Shaped(k) /\ "overdue" \in DOMAIN k
Has(j, s) == "overdue" \in DOMAIN j /\ j.overdue = s
Last(s, p) == <<p>> \o Without(s, p)

\* Writing a record leaves the line alone.
LEMMA SetLine ==
  ASSUME NEW k, Lined(k), NEW p, NEW t
  PROVE  Has(Set(k, p, t), k.overdue)
BY DEF Lined, Shaped, Has, Set

\* So do the flags, the reason and the state.
LEMMA FlagLine ==
  ASSUME NEW k, Lined(k), NEW p
  PROVE  /\ Has(k, k.overdue)
         /\ \A res : Has(UPDATE_REASON(k, p, res), k.overdue)
         /\ Has(resched_task(k, p), k.overdue)
         /\ Has(INIT_LIST_HEAD(k, p), k.overdue)
         /\ \A s : Has(SetState(k, p, s), k.overdue)
<1>1. Has(k, k.overdue)
  BY DEF Has, Lined
<1> QED BY <1>1, SetLine DEF UPDATE_REASON, resched_task, INIT_LIST_HEAD, SetState

\* So does asking for a switch and saying why.
LEMMA HurryLine ==
  ASSUME NEW k, Lined(k), NEW p \in Task, NEW q \in Task, NEW res
  PROVE  Has(UPDATE_REASON(resched_task(k, p), q, res), k.overdue)
<1>1. Lined(resched_task(k, p)) /\ Has(resched_task(k, p), k.overdue)
  BY FlagLine, FlagLives, LivesTwice DEF Lined, Has
<1>2. Has(UPDATE_REASON(resched_task(k, p), q, res), resched_task(k, p).overdue)
  BY <1>1, FlagLine
<1> QED BY <1>1, <1>2 DEF Has

\* Whatever list a task is taken off, it is off the line.
LEMMA DequeueLine ==
  ASSUME NEW k, Lined(k), NEW p \in Task, NEW a
  PROVE  /\ Has(list_del(k, p), Without(k.overdue, p))
         /\ Has(dequeue_task(k, p, a), Without(k.overdue, p))
         /\ Has(hw2_dequeue(k, p, a), Without(k.overdue, p))
<1>1. Has(list_del(k, p), Without(k.overdue, p))
  BY DEF Lined, Shaped, Has, list_del
<1>2. Has(dequeue_task(k, p, a), Without(k.overdue, p))
  BY <1>1 DEF Has, dequeue_task
<1>3. Has(list_del_init(k, p), Without(k.overdue, p))
  <2>1. Lined(list_del(k, p))
    BY <1>1, ListDelLives, LivesTwice DEF Lined, Has
  <2> QED BY <1>1, <2>1, FlagLine DEF list_del_init, Has
<1> QED BY <1>1, <1>2, <1>3 DEF hw2_dequeue

\* A task that is put into an array is not put on the line.
LEMMA EnqueueTaskLine ==
  ASSUME NEW k, Lined(k), NEW p \in Task, NEW a
  PROVE  Has(enqueue_task(k, p, a), k.overdue)
<1> DEFINE i == Set(k, p, [k.task[p] EXCEPT !.array = a, !.queued = TRUE])
<1>1. Has(i, k.overdue)
  BY SetLine
<1> HIDE DEF i
<1> QED BY <1>1 DEF enqueue_task, Has, i

\* An overdue task is put at the head of the line, any other one into an array.
LEMMA EnqueueLine ==
  ASSUME NEW k, Lined(k), NEW p \in Task, NEW b
  PROVE  Has(hw2_enqueue(k, p, b), IF is_overdue(k.task[p]) THEN <<p>> \o k.overdue ELSE k.overdue)
<1> DEFINE i == Set(k, p, [k.task[p] EXCEPT !.array = NULL, !.queued = TRUE])
<1>1. Has(i, k.overdue)
  BY SetLine
<1>2. Has(EnqueueOverdue(k, p), <<p>> \o k.overdue)
  <2> HIDE DEF i
  <2> QED BY <1>1 DEF EnqueueOverdue, Has, i
<1> QED BY <1>2, EnqueueTaskLine DEF hw2_enqueue

\* An operator that changes no life makes nobody overdue.
LEMMA SameOverdue ==
  ASSUME NEW k, Lined(k), NEW j, SameLives(k, j), NEW s, Has(j, s)
  PROVE  /\ Lined(j) /\ j.overdue = s /\ j.curr = k.curr
         /\ \A q \in Task : /\ is_overdue(j.task[q]) <=> is_overdue(k.task[q])
                            /\ is_short(j.task[q]) <=> is_short(k.task[q])
BY LivesTwice DEF Lined, Has, SameLives, SameLife, is_overdue, is_short

\* An overdue task that is sent back goes to the end of the line.
LEMMA PushBackLine ==
  ASSUME NEW k, Lined(k), NEW p \in Task
  PROVE  /\ Has(hw2_back_of_the_queue(k, p),
                IF is_overdue(k.task[p]) THEN Last(k.overdue, p)
                ELSE IF is_short(k.task[p]) THEN Without(k.overdue, p) ELSE k.overdue)
         /\ Has(OVERDUE_PUSH_BACK(k, p),
                IF is_overdue(k.task[p]) THEN Last(k.overdue, p) ELSE k.overdue)
<1> DEFINE i == hw2_dequeue(k, p, k.task[p].array)
<1>1. SameLives(k, i) /\ Has(i, Without(k.overdue, p))
  BY Hw2DequeueLives, DequeueLine DEF Lined
<1>2. /\ Lined(i) /\ i.overdue = Without(k.overdue, p)
      /\ is_overdue(i.task[p]) <=> is_overdue(k.task[p])
  <2> HIDE DEF i
  <2> QED BY <1>1, SameOverdue
<1>3. Has(hw2_enqueue(i, p, TRUE), IF is_overdue(k.task[p]) THEN Last(k.overdue, p)
                                   ELSE Without(k.overdue, p))
  <2> HIDE DEF i
  <2> QED BY <1>2, EnqueueLine DEF Last
<1>4. is_overdue(k.task[p]) => is_short(k.task[p])
  BY DEF is_overdue
<1>5. Has(k, k.overdue)
  BY FlagLine
<1>6. Has(hw2_back_of_the_queue(k, p),
          IF is_overdue(k.task[p]) THEN Last(k.overdue, p)
          ELSE IF is_short(k.task[p]) THEN Without(k.overdue, p) ELSE k.overdue)
  <2> HIDE DEF i
  <2> QED BY <1>3, <1>4, <1>5 DEF hw2_back_of_the_queue, i
<1> QED BY <1>5, <1>6 DEF OVERDUE_PUSH_BACK

\* So does the running task when it gives way.
LEMMA GiveWayLine ==
  ASSUME NEW k, Lined(k), NEW p \in Task, NEW res
  PROVE  Has(OVERDUE_PUSH_BACK(UPDATE_REASON(resched_task(k, p), p, res), p),
             IF is_overdue(k.task[p]) THEN Last(k.overdue, p) ELSE k.overdue)
<1> DEFINE i == UPDATE_REASON(resched_task(k, p), p, res)
<1>1. Has(i, k.overdue) /\ SameLives(k, i)
  BY HurryLine, HurryLives DEF Lined
<1> HIDE DEF i
<1>2. Lined(i) /\ i.overdue = k.overdue /\ (is_overdue(i.task[p]) <=> is_overdue(k.task[p]))
  BY <1>1, SameOverdue
<1>3. Has(OVERDUE_PUSH_BACK(i, p), IF is_overdue(k.task[p]) THEN Last(k.overdue, p) ELSE k.overdue)
  BY <1>2, PushBackLine
<1> QED BY <1>3 DEF i

\* The counters, the swap and the switch leave the line alone.
LEMMA CountLine ==
  ASSUME NEW k, Lined(k), NEW n
  PROVE  /\ Has([k EXCEPT !.nr_running = n], k.overdue)
         /\ Has([k EXCEPT !.nr_uninterruptible = n], k.overdue)
         /\ \A m : Has([k EXCEPT !.nr_running = n, !.nr_uninterruptible = m], k.overdue)
         /\ Has([k EXCEPT !.active = n], k.overdue)
         /\ Has([k EXCEPT !.curr = n], k.overdue)
<1> SUFFICES ASSUME NEW m
             PROVE  /\ Has([k EXCEPT !.nr_running = n], k.overdue)
                    /\ Has([k EXCEPT !.nr_uninterruptible = n], k.overdue)
                    /\ Has([k EXCEPT !.nr_running = n, !.nr_uninterruptible = m], k.overdue)
                    /\ Has([k EXCEPT !.active = n], k.overdue)
                    /\ Has([k EXCEPT !.curr = n], k.overdue)
  OBVIOUS
<1> QED BY DEF Lined, Has

\* A task that is activated is put at the head of the line if it is overdue.
LEMMA ActivateLine ==
  ASSUME NEW k, Lined(k), NEW p \in Task, NEW prio
  PROVE  Has(activate_task(k, p, prio),
             IF is_overdue(k.task[p]) THEN <<p>> \o k.overdue ELSE k.overdue)
<1> DEFINE k0 == Set(k, p, [k.task[p] EXCEPT !.prio = prio])
           k1 == hw2_enqueue(k0, p, TRUE)
<1>1. SameLives(k, k0) /\ Has(k0, k.overdue)
  BY LifeKept, OtherFields, LivesSame, SetLine DEF Lined
<1>2. Lined(k0) /\ k0.overdue = k.overdue /\ (is_overdue(k0.task[p]) <=> is_overdue(k.task[p]))
  <2> HIDE DEF k0
  <2> QED BY <1>1, SameOverdue
<1>3. Lined(k1) /\ Has(k1, IF is_overdue(k.task[p]) THEN <<p>> \o k.overdue ELSE k.overdue)
  <2> HIDE DEF k0
  <2> QED BY <1>2, EnqueueLine, Hw2EnqueueLives, LivesTwice DEF Lined, Has
<1>4. activate_task(k, p, prio) = [k1 EXCEPT !.nr_running = k1.nr_running + 1]
  BY DEF activate_task
<1> HIDE DEF k1
<1>5. Has([k1 EXCEPT !.nr_running = k1.nr_running + 1], k1.overdue)
  BY <1>3, CountLine
<1> QED BY <1>3, <1>4, <1>5 DEF Has

\* One that is deactivated is off the line.
LEMMA DeactivateLine ==
  ASSUME NEW k, Lined(k), NEW p \in Task
  PROVE  Has(deactivate_task(k, p), Without(k.overdue, p))
<1> DEFINE n  == k.nr_running - 1
           m  == IF k.task[p].state = "UNINTERRUPTIBLE" THEN k.nr_uninterruptible + 1
                 ELSE k.nr_uninterruptible
           k0 == [k EXCEPT !.nr_running = n, !.nr_uninterruptible = m]
           k1 == hw2_dequeue(k0, p, k.task[p].array)
<1>1. Lined(k0) /\ k0.overdue = k.overdue
  <2> HIDE DEF n, m
  <2>1. SameLives(k, k0) /\ Has(k0, k.overdue)
    BY CountLives, CountLine DEF Lined
  <2> QED BY <2>1, SameOverdue
<1>2. Lined(k1) /\ k1.overdue = Without(k.overdue, p)
  <2> HIDE DEF k0
  <2>1. SameLives(k0, k1) /\ Has(k1, Without(k0.overdue, p))
    BY <1>1, Hw2DequeueLives, DequeueLine DEF Lined
  <2> QED BY <1>1, <2>1, SameOverdue
<1>3. deactivate_task(k, p) = Set(k1, p, [k1.task[p] EXCEPT !.array = NULL])
  BY SMT DEF deactivate_task, Lined, Shaped
<1> HIDE DEF k1
<1> QED BY <1>2, <1>3, SetLine

Follows(k, j) == "overdue" \in DOMAIN j /\ InLine(k.overdue, j.overdue, k.curr)

\* What a well-formed runqueue has of this.
LEMMA LineFacts ==
  ASSUME NEW k, NEW n \in Int, Good(k, {}, n)
  PROVE  /\ Lined(k) /\ Shaped(k) /\ k.overdue \in Seq(Pid) /\ NoDuplicates(k.overdue)
         /\ k.curr \in Task /\ Pid \subseteq Task
         /\ k.curr \in Pid \/ ~ is_short(k.task[k.curr])
<1>1. Shaped(k)
  BY ShapedNow DEF Good
<1> QED BY <1>1 DEF Good, Typed, Kernel, Placed, Lined, Task, is_short

\* A wake-up puts an overdue task at the head of the line, and what it puts out of the way
\* at the end of it.
LEMMA TryToWakeUpLine ==
  ASSUME NEW k, NEW n \in Int, Good(k, {}, n), NEW p \in Pid, NEW prio
  PROVE  Follows(k, try_to_wake_up(k, p, prio))
<1>1. /\ Lined(k) /\ k.overdue \in Seq(Pid) /\ NoDuplicates(k.overdue) /\ k.curr \in Task /\ p \in Task
      /\ k.curr \in Pid \/ ~ is_overdue(k.task[k.curr])
  BY LineFacts DEF is_overdue
<1> DEFINE m  == IF k.task[p].state = "UNINTERRUPTIBLE" THEN k.nr_uninterruptible - 1
                 ELSE k.nr_uninterruptible
           k1 == [k EXCEPT !.nr_uninterruptible = m]
           k2 == activate_task(k1, p, prio)
           g  == OVERDUE_PUSH_BACK(UPDATE_REASON(resched_task(k2, k.curr), k.curr, PRIO), k.curr)
           k3 == IF should_switch(k2.task[k.curr], k2.task[p]) THEN g ELSE k2
           k4 == IF Enqueued(k.task[p]) THEN k ELSE k3
<1>2. /\ Lined(k1) /\ k1.overdue = k.overdue /\ k1.curr = k.curr
      /\ \A q \in Task : is_overdue(k1.task[q]) <=> is_overdue(k.task[q])
  <2> HIDE DEF m
  <2>1. SameLives(k, k1) /\ Has(k1, k.overdue)
    BY <1>1, CountLives, CountLine DEF Lined
  <2> QED BY <1>1, <2>1, SameOverdue
<1>3. /\ Lined(k2) /\ k2.curr = k.curr
      /\ k2.overdue = IF is_overdue(k.task[p]) THEN <<p>> \o k.overdue ELSE k.overdue
      /\ \A q \in Task : is_overdue(k2.task[q]) <=> is_overdue(k.task[q])
  <2> HIDE DEF k1
  <2>1. /\ SameLives(k1, k2)
        /\ Has(k2, IF is_overdue(k1.task[p]) THEN <<p>> \o k1.overdue ELSE k1.overdue)
    BY <1>1, <1>2, ActivateLives, ActivateLine DEF Lined
  <2> QED BY <1>1, <1>2, <2>1, SameOverdue
<1>4. /\ ~ Enqueued(k.task[p]) =>
           /\ InLine(k.overdue, k2.overdue, k.curr)
           /\ k2.overdue \in Seq(Pid) /\ NoDuplicates(k2.overdue)
  <2> HIDE DEF k2
  <2>1. CASE is_overdue(k.task[p]) /\ ~ Enqueued(k.task[p])
    <3>1. p \notin Elements(k.overdue)
      BY <2>1, OnAList
    <3> QED BY <1>1, <1>3, <2>1, <3>1, InLineAdded, AddedFirst
  <2>2. CASE ~ is_overdue(k.task[p])
    BY <1>1, <1>3, <2>2, InLineSame
  <2> QED BY <2>1, <2>2
<1>5. /\ Lined(g)
      /\ ~ Enqueued(k.task[p]) => InLine(k.overdue, g.overdue, k.curr)
  <2> HIDE DEF k2, g
  <2>1. Has(g, IF is_overdue(k2.task[k.curr]) THEN Last(k2.overdue, k.curr) ELSE k2.overdue)
    BY <1>1, <1>3, GiveWayLine DEF g
  <2>2. Lined(g)
    BY <1>1, <1>3, <2>1, GiveWayLives, LivesTwice DEF Lined, Has, g
  <2>3. CASE is_overdue(k2.task[k.curr]) /\ ~ Enqueued(k.task[p])
    <3>1. k.curr \in Pid
      BY <1>1, <1>3, <2>3
    <3>2. InLine(k2.overdue, Last(k2.overdue, k.curr), k.curr)
      BY <1>4, <2>3, <3>1, InLineAgain DEF Last
    <3> QED BY <1>4, <2>1, <2>2, <2>3, <3>2, InLineTwice DEF Has
  <2>4. CASE ~ is_overdue(k2.task[k.curr])
    BY <1>4, <2>1, <2>2, <2>4 DEF Has
  <2> QED BY <2>2, <2>3, <2>4
<1>6. Lined(k4) /\ InLine(k.overdue, k4.overdue, k.curr)
  <2> HIDE DEF k2, g
  <2>1. InLine(k.overdue, k.overdue, k.curr)
    BY <1>1, InLineSame
  <2> QED BY <1>1, <1>3, <1>4, <1>5, <2>1
<1>7. try_to_wake_up(k, p, prio) = Set(k4, p, [k4.task[p] EXCEPT !.state = "RUNNING"])
  BY DEF try_to_wake_up
<1> HIDE DEF k4
<1>8. Has(Set(k4, p, [k4.task[p] EXCEPT !.state = "RUNNING"]), k4.overdue)
  BY <1>6, SetLine
<1> QED BY <1>6, <1>7, <1>8 DEF Has, Follows

\* The current task leaves the line, or goes to the end of it.
CurrMoves(k, j) ==
  /\ "overdue" \in DOMAIN j
  /\ \/ j.overdue = k.overdue
     \/ j.overdue = Without(k.overdue, k.curr)
     \/ j.overdue = Last(k.overdue, k.curr) /\ k.curr \in Pid

\* Either way the others keep their places.
LEMMA MovesFollows ==
  ASSUME NEW k, NEW n \in Int, Good(k, {}, n), NEW j, CurrMoves(k, j)
  PROVE  Follows(k, j)
BY LineFacts, InLineSame, InLineWithout, InLineAgain DEF CurrMoves, Follows, Last

\* A round of RR takes the task off the line if it was on it.
LEMMA TickRealTimeLine ==
  ASSUME NEW k, Lined(k), NEW p \in Task
  PROVE  \/ Has(TickRealTime(k, p), k.overdue)
         \/ Has(TickRealTime(k, p), Without(k.overdue, p))
<1> DEFINE t  == k.task[p]
           u  == [t EXCEPT !.time_slice = TASK_TIMESLICE(t), !.first_time_slice = FALSE]
           k0 == Set(k, p, u)
           k1 == EndOfSlice(k0, p)
           k2 == dequeue_task(k1, p, k1.active)
           k3 == enqueue_task(k2, p, k1.active)
<1>1. SameLives(k, k0) /\ Has(k0, k.overdue)
  <2>1. Bearing(t)
    BY LivesSame DEF Lined
  <2>2. SameLife(u, t)
    <3> DEFINE n == TASK_TIMESLICE(t)
    <3> HIDE DEF n
    <3> QED BY <2>1 DEF SameLife, Bearing
  <2> HIDE DEF u
  <2> QED BY <2>2, LifeKept, SetLine DEF Lined
<1>2. Lined(k0) /\ k0.overdue = k.overdue
  <2> HIDE DEF k0
  <2> QED BY <1>1, SameOverdue
<1>3. Lined(k1) /\ k1.overdue = k.overdue
  <2> HIDE DEF k0
  <2>1. SameLives(k0, k1) /\ Has(k1, k0.overdue)
    BY <1>2, EndOfSliceLives, HurryLine DEF Lined, EndOfSlice
  <2> QED BY <1>2, <2>1, SameOverdue
<1>4. Lined(k2) /\ k2.overdue = Without(k.overdue, p)
  <2> HIDE DEF k1
  <2>1. SameLives(k1, k2) /\ Has(k2, Without(k1.overdue, p))
    BY <1>3, DequeueTaskLives, DequeueLine DEF Lined
  <2> QED BY <1>3, <2>1, SameOverdue
<1>5. Has(k3, Without(k.overdue, p))
  <2> HIDE DEF k1, k2
  <2> QED BY <1>4, EnqueueTaskLine
<1>6. Has(Set(k, p, [t EXCEPT !.time_slice = Decremented(t.time_slice)]), k.overdue) /\ Has(k, k.overdue)
  BY SetLine, FlagLine
<1>7. TickRealTime(k, p) = IF t.policy # "RR" THEN k
                           ELSE IF Decremented(t.time_slice) # 0
                                THEN Set(k, p, [t EXCEPT !.time_slice = Decremented(t.time_slice)])
                                ELSE k3
  BY DEF TickRealTime
<1> HIDE DEF k3, t
<1> QED BY <1>5, <1>6, <1>7

\* The end of the slice of an OTHER task leaves it off the line.
LEMMA ExpireOtherLine ==
  ASSUME NEW k, Lined(k), NEW p \in Task, NEW prio, NEW stay
  PROVE  Has(ExpireOther(k, p, prio, stay), Without(k.overdue, p))
<1> DEFINE k0 == dequeue_task(k, p, k.active)
           k1 == EndOfSlice(k0, p)
           n  == TASK_TIMESLICE(k1.task[p])
           u  == [k1.task[p] EXCEPT !.prio = prio, !.first_time_slice = FALSE, !.time_slice = n]
           k2 == Set(k1, p, u)
           a  == IF stay THEN k.active ELSE expired(k)
<1>1. Lined(k0) /\ k0.overdue = Without(k.overdue, p)
  <2>1. SameLives(k, k0) /\ Has(k0, Without(k.overdue, p))
    BY DequeueTaskLives, DequeueLine DEF Lined
  <2> HIDE DEF k0
  <2> QED BY <2>1, SameOverdue
<1>2. Lined(k1) /\ k1.overdue = Without(k.overdue, p)
  <2> HIDE DEF k0
  <2>1. SameLives(k0, k1) /\ Has(k1, k0.overdue)
    BY <1>1, EndOfSliceLives, HurryLine DEF Lined, EndOfSlice
  <2> QED BY <1>1, <2>1, SameOverdue
<1>3. Lined(k2) /\ k2.overdue = Without(k.overdue, p)
  <2> HIDE DEF k1, n
  <2>1. Bearing(k1.task[p])
    BY <1>2, LivesSame DEF Lined
  <2>2. SameLife(u, k1.task[p])
    BY <2>1 DEF SameLife, Bearing
  <2> HIDE DEF u
  <2>3. SameLives(k1, k2) /\ Has(k2, k1.overdue)
    BY <1>2, <2>2, LifeKept, SetLine DEF Lined
  <2> QED BY <1>2, <2>3, SameOverdue
<1>4. ExpireOther(k, p, prio, stay) = enqueue_task(k2, p, a)
  BY DEF ExpireOther
<1> HIDE DEF k2, a
<1>5. Has(enqueue_task(k2, p, a), k2.overdue)
  BY <1>3, EnqueueTaskLine
<1> QED BY <1>3, <1>4, <1>5

\* A SHORT task out of trials goes to the head of the line.
LEMMA ExpireShortLine ==
  ASSUME NEW k, Lined(k), NEW p \in Task, is_short(k.task[p]), ~ is_overdue(k.task[p])
  PROVE  \/ Has(ExpireShort(k, p), Without(k.overdue, p))
         \/ Has(ExpireShort(k, p), Last(k.overdue, p))
<1> DEFINE k0     == hw2_dequeue(k, p, k.task[p].array)
           k1     == EndOfSlice(k0, p)
           t      == k1.task[p]
           trials == t.remaining_trials - 1
           slice  == hw2_ms_to_ticks(t.requested_time) \div (t.current_trial + 1)
           t1     == [t EXCEPT !.first_time_slice = FALSE, !.remaining_trials = trials,
                               !.current_trial = t.current_trial + 1, !.time_slice = slice]
           k4     == Set(k1, p, t1)
           k5     == INIT_LIST_HEAD(k4, p)
           k2     == UPDATE_REASON(k5, p, OVERDUE)
           t3     == [k2.task[p] EXCEPT !.remaining_trials = 0, !.time_slice = 0]
           k3     == Set(k2, p, t3)
           i      == IF trials = 0 \/ slice = 0 THEN k3 ELSE k4
           s      == Without(k.overdue, p)
<1>1. /\ Lined(k0) /\ k0.overdue = s
      /\ is_short(k0.task[p]) /\ ~ is_overdue(k0.task[p])
  <2>1. SameLives(k, k0) /\ Has(k0, s)
    BY Hw2DequeueLives, DequeueLine DEF Lined
  <2> HIDE DEF k0
  <2> QED BY <2>1, SameOverdue
<1> HIDE DEF s
<1>2. /\ Lined(k1) /\ k1.overdue = s
      /\ is_short(t) /\ ~ is_overdue(t)
  <2> HIDE DEF k0
  <2>1. SameLives(k0, k1) /\ Has(k1, k0.overdue)
    BY <1>1, EndOfSliceLives, HurryLine DEF Lined, EndOfSlice
  <2> QED BY <1>1, <2>1, SameOverdue
<1>3. Bearing(t) /\ Bearing(t1)
  <2>1. Bearing(t)
    <3> HIDE DEF k1
    <3> QED BY <1>2, LivesSame DEF Lined
  <2> HIDE DEF t, slice
  <2> QED BY <1>2, <2>1 DEF is_overdue, Bearing
<1>4. Lined(k4) /\ k4.overdue = s
  <2> HIDE DEF k1, t1
  <2>1. Has(k4, s)
    BY <1>2, SetLine
  <2>2. Shaped(k4)
    BY <1>2, <1>3 DEF Lined, Shaped, Set
  <2> QED BY <2>1, <2>2 DEF Has, Lined
<1>5. Lined(k5) /\ k5.overdue = s
  <2> HIDE DEF k4
  <2>1. SameLives(k4, k5) /\ Has(k5, k4.overdue)
    BY <1>4, FlagLives, FlagLine DEF Lined
  <2> QED BY <1>4, <2>1, SameOverdue
<1>6. Lined(k2) /\ k2.overdue = s
  <2> HIDE DEF k5
  <2>1. SameLives(k5, k2) /\ Has(k2, k5.overdue)
    BY <1>5, FlagLives, FlagLine DEF Lined
  <2> QED BY <1>5, <2>1, SameOverdue
<1>7. Lined(k3) /\ k3.overdue = s
  <2> HIDE DEF k2
  <2>1. Bearing(t3)
    BY <1>6, LivesSame DEF Lined, Bearing
  <2> HIDE DEF t3
  <2>2. Has(k3, s)
    BY <1>6, SetLine
  <2>3. Shaped(k3)
    BY <1>6, <2>1 DEF Lined, Shaped, Set
  <2> QED BY <2>2, <2>3 DEF Has, Lined
<1>8. Lined(i) /\ i.overdue = s
  <2> HIDE DEF k3, k4
  <2> QED BY <1>4, <1>7
<1>9. ExpireShort(k, p) = hw2_enqueue(i, p, TRUE)
  BY DEF ExpireShort
<1> HIDE DEF i
<1>10. Has(hw2_enqueue(i, p, TRUE), IF is_overdue(i.task[p]) THEN <<p>> \o s ELSE s)
  BY <1>8, EnqueueLine
<1> QED BY <1>9, <1>10 DEF Last, s

\* A tick moves the running task, if any.
LEMMA TickMoves ==
  ASSUME NEW k, Lined(k), NEW prio, NEW stay
  PROVE  CurrMoves(k, scheduler_tick(k, prio, stay))
<1> DEFINE p == k.curr
           t == k.task[p]
           u == [t EXCEPT !.time_slice = Decremented(t.time_slice)]
           k1 == Set(k, p, u)
           j == scheduler_tick(k, prio, stay)
<1>1. p \in Task /\ Bearing(t) /\ SameLife(u, t) /\ Shaped(k) /\ (p = Idle \/ p \in Pid)
  BY LivesSame, OtherFields DEF Lined, Shaped, Task
<1>2. /\ Lined(k1) /\ k1.overdue = k.overdue
      /\ is_overdue(k1.task[p]) <=> is_overdue(t)
      /\ is_short(k1.task[p]) <=> is_short(t)
  <2> HIDE DEF u
  <2>1. SameLives(k, k1) /\ Has(k1, k.overdue)
    BY <1>1, LifeKept, SetLine
  <2> HIDE DEF k1
  <2> QED BY <1>1, <2>1, SameOverdue
<1> HIDE DEF k1
<1>3. CurrMoves(k, k) /\ CurrMoves(k, k1) /\ CurrMoves(k, EndOfSlice(k, p))
  BY <1>1, <1>2, HurryLine, FlagLine DEF EndOfSlice, CurrMoves, Has, Lined
<1>4. CurrMoves(k, TickRealTime(k, p))
  BY <1>1, TickRealTimeLine DEF CurrMoves, Has
<1>5. CurrMoves(k, ExpireOther(k1, p, prio, stay))
  BY <1>1, <1>2, ExpireOtherLine DEF CurrMoves, Has
<1>6. p # Idle /\ is_short(t) /\ ~ is_overdue(t) => CurrMoves(k, ExpireShort(k1, p))
  BY <1>1, <1>2, ExpireShortLine DEF CurrMoves, Has
<1>7. j = IF p = Idle THEN k
          ELSE IF ~ is_short(t) /\ t.array # k.active THEN EndOfSlice(k, p)
          ELSE IF rt_task(t) \/ is_overdue(t) THEN TickRealTime(k, p)
          ELSE IF Decremented(t.time_slice) # 0 THEN k1
          ELSE IF is_short(t) THEN ExpireShort(k1, p)
          ELSE ExpireOther(k1, p, prio, stay)
  BY DEF scheduler_tick, k1
<1> HIDE DEF t, p, j
<1>8. CurrMoves(k, j)
  BY <1>3, <1>4, <1>5, <1>6, <1>7
<1> QED BY <1>8 DEF j

\* So whoever waits keeps its place through a tick,
LEMMA TickFollows ==
  ASSUME NEW k, NEW n \in Int, Good(k, {}, n), NEW prio, NEW stay
  PROVE  Follows(k, scheduler_tick(k, prio, stay))
BY LineFacts, TickMoves, MovesFollows

\* ... and through the tick of a parent that fork left with nothing.
LEMMA SplitFollows ==
  ASSUME NEW k, NEW n \in Int, Good(k, {}, n), NEW p \in Task, NEW c \in Task, NEW prio, NEW stay
  PROVE  Follows(k, SplitSlice(k, p, c, prio, stay))
<1> DEFINE t     == k.task[p]
           r     == t.remaining_trials
           slice == IF r = 1 THEN 0 ELSE t.time_slice \div 2
           n1    == ChildShare(t.time_slice)
           m     == Max({1, slice})
           child == [k.task[c] EXCEPT !.time_slice = n1, !.first_time_slice = TRUE,
                                      !.remaining_trials = ChildShare(r), !.current_trial = 1]
           own   == [t EXCEPT !.remaining_trials = IF r = 1 THEN 1 ELSE r \div 2, !.time_slice = m]
           k0    == Set(k, c, child)
           k1    == Set(k0, p, own)
           j     == SplitSlice(k, p, c, prio, stay)
<1>1. Lined(k) /\ Shaped(k) /\ Bearing(t) /\ Bearing(k.task[c]) /\ r \in Nat
  BY LineFacts, LivesSame DEF Bearing
<1>2. Bearing(own)
  <2>1. (IF r = 1 THEN 1 ELSE r \div 2) \in Nat
    <3> HIDE DEF r
    <3> QED BY <1>1
  <2> HIDE DEF t, r, m
  <2> QED BY <1>1, <2>1 DEF Bearing
<1>3. Bearing(child)
  <2>1. ChildShare(r) \in Nat
    <3> HIDE DEF r
    <3> QED BY <1>1, Halves
  <2> HIDE DEF r, n1
  <2> QED BY <1>1, <2>1 DEF Bearing
<1>4. Lined(k1) /\ k1.overdue = k.overdue /\ k1.curr = k.curr
  <2> HIDE DEF child, own
  <2>1. Lined(k0) /\ k0.overdue = k.overdue /\ k0.curr = k.curr
    BY <1>1, <1>3 DEF Lined, Shaped, Set
  <2> HIDE DEF k0
  <2> QED BY <2>1, <1>2 DEF Lined, Shaped, Set
<1>5. j = IF slice = 0 THEN scheduler_tick(k1, prio, stay) ELSE k1
  BY DEF SplitSlice
<1> HIDE DEF k1, slice, j
<1>6. CurrMoves(k, j)
  BY <1>4, <1>5, TickMoves DEF CurrMoves, Lined
<1>7. Follows(k, j)
  BY <1>6, MovesFollows
<1> QED BY <1>7 DEF j

\* A task that leaves the CPU leaves the line only if it sleeps.
LEMMA PutPrevLine ==
  ASSUME NEW k, Lined(k), NEW sig
  PROVE  \/ Has(PutPrev(k, sig), k.overdue)
         \/ /\ Has(PutPrev(k, sig), Without(k.overdue, k.curr))
            /\ k.task[k.curr].state # "RUNNING" /\ ~ (k.task[k.curr].state = "INTERRUPTIBLE" /\ sig)
<1> DEFINE p == k.curr
           i == deactivate_task(k, p)
<1>1. p \in Task /\ Shaped(k)
  BY DEF Lined, Shaped
<1>2. Lined(i) /\ i.overdue = Without(k.overdue, p)
  <2>1. SameLives(k, i) /\ Has(i, Without(k.overdue, p))
    BY <1>1, DeactivateLives, DeactivateLine
  <2> HIDE DEF i
  <2> QED BY <2>1, SameOverdue
<1> HIDE DEF i
<1>3. Has(UPDATE_REASON(i, p, PREV_WAIT), Without(k.overdue, p))
  BY <1>2, FlagLine DEF Has
<1>4. Has(k, k.overdue) /\ Has(Set(k, p, [k.task[p] EXCEPT !.state = "RUNNING"]), k.overdue)
  BY FlagLine, SetLine
<1> QED BY <1>3, <1>4 DEF PutPrev, i

\* schedule() takes the current task off the line if it sleeps, and otherwise sends it to
\* the end of it; it is still RUNNING exactly then.
LEMMA ScheduleFollows ==
  ASSUME NEW k, Good(k, {}, 0), CurrQueued(k), NEW sig \in BOOLEAN, NEW j, j = schedule(k, sig)
  PROVE  /\ Follows(k, j)
         /\ k.curr \in Pid /\ is_overdue(k.task[k.curr]) /\ j.task[k.curr].state = "RUNNING"
              => j.overdue[1] = k.curr
<1>p. PICK p : p = k.curr
  OBVIOUS
<1>0. p \in Task /\ Lined(k) /\ Shaped(k) /\ (p \in Pid \/ ~ is_short(k.task[p]))
  BY <1>p, LineFacts
<1>1. PICK k1 : k1 = PutPrev(k, sig)
  OBVIOUS
<1>2. Good(k1, {}, 0) /\ Departs(k, k1, p) /\ k1.curr = p
  BY <1>p, <1>1, PrevPut
<1>3. /\ Follows(k, k1) /\ SameLives(k, k1) /\ Lined(k1)
      /\ is_overdue(k1.task[p]) <=> is_overdue(k.task[p])
      /\ is_short(k1.task[p]) <=> is_short(k.task[p])
  <2>1. SameLives(k, k1) /\ CurrMoves(k, k1)
    BY <1>0, <1>1, PutPrevLives, PutPrevLine DEF CurrMoves, Has
  <2>2. Follows(k, k1)
    BY <2>1, MovesFollows
  <2> QED BY <1>0, <2>1, <2>2, SameOverdue DEF CurrMoves, Has
<1>4. PICK i : i = SwapArrays(k1)
  OBVIOUS
<1>5. Lined(i) /\ i.overdue = k1.overdue /\ i.task = k1.task /\ i.curr = p
  <2>1. SameLives(k1, i) /\ Has(i, k1.overdue)
    BY <1>3, <1>4, SwapLives, CountLine, FlagLine DEF SwapArrays, Lined
  <2>2. i.task = k1.task
    BY <1>3, <1>4 DEF SwapArrays, Lined, Shaped
  <2> QED BY <1>2, <1>3, <2>1, <2>2, SameOverdue
<1>6. PICK k2 : k2 = IF k1.nr_running = 0 THEN k1 ELSE PushPrevBack(i)
  OBVIOUS
<1>7. Lined(k2) /\ CurrMoves(k1, k2)
  <2>1. Lined(PushPrevBack(i)) /\ CurrMoves(k1, PushPrevBack(i))
    <3>1. SameLives(i, PushPrevBack(i))
      BY <1>5, PushPrevLives DEF Lined
    <3>2. CurrMoves(k1, PushPrevBack(i))
      <4>1. is_overdue(i.task[p]) => p \in Pid
        BY <1>0, <1>3, <1>5 DEF is_overdue
      <4> QED BY <1>0, <1>2, <1>5, <4>1, PushBackLine DEF PushPrevBack, CurrMoves, Has, Lined
    <3> QED BY <1>5, <3>1, <3>2, LivesTwice DEF CurrMoves, Lined
  <2> QED BY <1>3, <1>6, <2>1 DEF CurrMoves, Lined
<1>8. PICK h : h = Set(k2, p, [k2.task[p] EXCEPT !.need_resched = FALSE])
  OBVIOUS
<1>9. PICK next : j = [h EXCEPT !.curr = next]
  BY <1>p, <1>1, <1>4, <1>6, <1>8 DEF schedule
<1>10. /\ Has(h, k2.overdue) /\ Has(j, k2.overdue)
       /\ j.task[p].state = k2.task[p].state
  <2>1. Has(h, k2.overdue)
    BY <1>7, <1>8, SetLine
  <2>2. Has(j, k2.overdue) /\ j.task = h.task
    <3>1. "task" \in DOMAIN h
      BY <1>7, <1>8 DEF Set, Lined, Shaped
    <3> QED BY <1>9, <2>1, <3>1 DEF Has
  <2>3. h.task[p].state = k2.task[p].state
    BY <1>0, <1>7, <1>8 DEF Set, Lined, Shaped
  <2> QED BY <2>1, <2>2, <2>3
<1>11. Follows(k, j)
  <2>1. InLine(k.overdue, k1.overdue, p) /\ InLine(k1.overdue, k2.overdue, p)
    BY <1>p, <1>2, <1>3, <1>7, MovesFollows DEF Follows
  <2> QED BY <1>p, <1>10, <2>1, InLineTwice DEF Follows, Has
<1>12. ASSUME p \in Pid, is_overdue(k.task[p]), j.task[p].state = "RUNNING"
       PROVE  j.overdue[1] = p
  <2>1. k1.task[p].state = "RUNNING"
    <3> SUFFICES ASSUME k1.task[p].state # "RUNNING" PROVE FALSE
      OBVIOUS
    <3>1. k2.task = k1.task
      BY <1>5, <1>6 DEF PushPrevBack
    <3> QED BY <1>10, <1>12, <3>1
  <2>2. Enqueued(k1.task[p])
    BY <1>2, <1>12, <2>1 DEF Departs
  <2>3. k1.nr_running # 0
    <3>1. IsFiniteSet(Runnable(k1, {})) /\ Runnable(k1, {}) # {}
      BY <1>12, <2>2, PidAssumption, FS_Subset DEF Runnable
    <3>2. Cardinality(Runnable(k1, {})) \in Nat /\ Cardinality(Runnable(k1, {})) # 0
      BY <3>1, FS_CardinalityType, FS_EmptySet
    <3> QED BY <1>2, <3>2 DEF Good
  <2>4. k2.overdue = Last(k1.overdue, p)
    <3>1. k2 = hw2_back_of_the_queue(i, p)
      BY <1>3, <1>5, <1>6, <1>12, <2>1, <2>3 DEF PushPrevBack
    <3> QED BY <1>0, <1>3, <1>5, <1>12, <3>1, PushBackLine DEF Has
  <2>5. Without(k1.overdue, p) \in Seq(Pid)
    BY <1>2, <1>12, LineFacts, WithoutIt
  <2>6. Last(k1.overdue, p)[1] = p
    <3> DEFINE s == Without(k1.overdue, p)
    <3> HIDE DEF s
    <3>1. s \in Seq(Pid) /\ <<p>> \in Seq(Pid) /\ Len(<<p>>) = 1 /\ <<p>>[1] = p
      BY <1>12, <2>5 DEF s
    <3>2. (<<p>> \o s)[1] = p
      BY <3>1, ConcatProperties
    <3> QED BY <3>2 DEF Last, s
  <2> QED BY <1>10, <2>4, <2>6 DEF Has
<1> QED BY <1>p, <1>11, <1>12

\* Tasks that are not on the line may be taken off any other list.
LEMMA OffTheLine ==
  ASSUME NEW k, NEW n \in Int, Good(k, {}, n), NEW p \in Pid, k.task[p].array # NULL
  PROVE  Without(k.overdue, p) = k.overdue
<1>1. p \notin Elements(k.overdue)
  BY OnAList
<1> QED BY <1>1 DEF Without, Elements

\* nice takes no overdue task off its list; the running one may have to give way.
LEMMA NiceFollows ==
  ASSUME NEW k, NEW n \in Int, Good(k, {}, n), NEW p \in Pid, NEW prio
  PROVE  Follows(k, set_user_nice(k, p, prio))
<1> DEFINE t  == k.task[p]
           t1 == [t EXCEPT !.static_prio = prio, !.prio = prio]
           i  == hw2_dequeue(k, p, t.array)
           j  == Set(i, p, t1)
           k1 == enqueue_task(j, p, t.array)
           g  == OVERDUE_PUSH_BACK(UPDATE_REASON(resched_task(k1, k.curr), k.curr, PRIO), k.curr)
           k2 == IF p = k.curr \/ should_switch(k1.task[k.curr], k1.task[p]) THEN g ELSE k1
<1>1. /\ Lined(k) /\ Shaped(k) /\ p \in Task /\ k.curr \in Task
      /\ k.curr \in Pid \/ ~ is_overdue(k.task[k.curr])
      /\ Bearing(t) /\ SameLife(t1, t)
  BY LineFacts, LivesSame, OtherFields DEF is_overdue, Bearing, SameLife
<1>2. CurrMoves(k, k) /\ CurrMoves(k, Set(k, p, t1)) /\ CurrMoves(k, Set(k, p, [t EXCEPT !.static_prio = prio]))
  BY <1>1, SetLine DEF CurrMoves, Has, Lined
<1>3. ASSUME t.array # NULL
      PROVE  CurrMoves(k, k2)
  <2>1. Lined(i) /\ i.overdue = k.overdue /\ SameLives(k, i)
    <3>1. SameLives(k, i) /\ Has(i, k.overdue)
      BY <1>1, <1>3, OffTheLine, Hw2DequeueLives, DequeueLine
    <3> HIDE DEF i
    <3> QED BY <1>1, <3>1, SameOverdue
  <2>2. Lined(j) /\ j.overdue = k.overdue /\ SameLives(k, j)
    <3> HIDE DEF i, t1
    <3>1. SameLife(t1, i.task[p]) /\ Shaped(i)
      BY <1>1, <2>1, LivesTwice DEF SameLives, SameLife
    <3>2. SameLives(k, j) /\ Has(j, k.overdue)
      BY <1>1, <2>1, <3>1, LifeKept, LivesTwice, SetLine
    <3> HIDE DEF j
    <3> QED BY <1>1, <3>2, SameOverdue
  <2>3. /\ Lined(k1) /\ k1.overdue = k.overdue
        /\ is_overdue(k1.task[k.curr]) <=> is_overdue(k.task[k.curr])
    <3> HIDE DEF j
    <3>1. SameLives(k, k1) /\ Has(k1, k.overdue)
      BY <1>1, <2>2, EnqueueTaskLives, LivesTwice, EnqueueTaskLine
    <3> HIDE DEF k1
    <3> QED BY <1>1, <3>1, SameOverdue
  <2> HIDE DEF k1
  <2>4. CurrMoves(k, g)
    BY <1>1, <2>3, GiveWayLine DEF CurrMoves, Has
  <2> QED BY <2>3, <2>4 DEF CurrMoves, Lined
<1>4. set_user_nice(k, p, prio) = IF t.static_prio = prio \/ is_overdue(t) THEN k
                                  ELSE IF rt_task(t) THEN Set(k, p, [t EXCEPT !.static_prio = prio])
                                  ELSE IF t.array = NULL THEN Set(k, p, t1)
                                  ELSE k2
  BY DEF set_user_nice
<1> HIDE DEF k2, t1, t
<1>5. CurrMoves(k, set_user_nice(k, p, prio))
  BY <1>2, <1>3, <1>4
<1> QED BY <1>5, MovesFollows

\* Nobody becomes overdue in setscheduler, nor is an overdue task queued again there.
LEMMA SetschedulerFollows ==
  ASSUME NEW k, NEW n \in Int, Good(k, {}, n), NEW p \in Pid,
         NEW new, Bearing(new), is_overdue(new) <=> is_overdue(k.task[p]), NEW prio
  PROVE  Follows(k, setscheduler(k, p, new, prio))
<1> DEFINE t  == k.task[p]
           k0 == IF t.array # NULL THEN deactivate_task(k, p) ELSE k
           u  == [new EXCEPT !.array = NULL]
           k1 == Set(k0, p, u)
           g  == UPDATE_REASON(resched_task(k1, k.curr), k.curr, PRIO)
           k2 == IF is_short(new) /\ ~ is_short(t) THEN g ELSE k1
           j  == setscheduler(k, p, new, prio)
<1>1. /\ Lined(k) /\ Shaped(k) /\ p \in Task /\ k.curr \in Task
      /\ t.array # NULL => ~ is_overdue(t)
  <2>1. Fits(k.task[p], k.active)
    BY DEF Good
  <2> QED BY <2>1, LineFacts DEF Fits
<1>2. Lined(k0) /\ k0.overdue = k.overdue
  <2>1. t.array # NULL => SameLives(k, deactivate_task(k, p)) /\ Has(deactivate_task(k, p), k.overdue)
    BY <1>1, OffTheLine, DeactivateLives, DeactivateLine
  <2> QED BY <1>1, <2>1, SameOverdue
<1>3. SameLife(u, new)
  BY OtherFields
<1>4. Lined(k1) /\ k1.overdue = k.overdue /\ k1.task[p] = u
  <2> HIDE DEF k0, u
  <2>1. Has(k1, k.overdue)
    BY <1>2, SetLine
  <2>2. Shaped(k1) /\ k1.task[p] = u
    BY <1>1, <1>2, <1>3 DEF Lined, Shaped, Set, SameLife
  <2> QED BY <2>1, <2>2 DEF Has, Lined
<1>5. Lined(k2) /\ k2.overdue = k.overdue /\ (is_overdue(k2.task[p]) <=> is_overdue(u))
  <2> HIDE DEF k1
  <2>1. SameLives(k1, g) /\ Has(g, k1.overdue)
    BY <1>1, <1>4, HurryLives, HurryLine DEF Lined
  <2> HIDE DEF g
  <2>2. Lined(g) /\ g.overdue = k.overdue /\ (is_overdue(g.task[p]) <=> is_overdue(u))
    BY <1>1, <1>4, <2>1, SameOverdue
  <2> QED BY <1>4, <2>2
<1>6. is_overdue(u) <=> is_overdue(t)
  BY <1>3 DEF SameLife, is_overdue, is_short
<1>7. j = IF t.array # NULL THEN activate_task(k2, p, prio) ELSE k2
  BY DEF setscheduler
<1> HIDE DEF k2, u, t, j
<1>8. CurrMoves(k, j)
  <2>1. t.array # NULL => Has(activate_task(k2, p, prio), k.overdue)
    BY <1>1, <1>5, <1>6, ActivateLine
  <2> QED BY <1>5, <1>7, <2>1 DEF CurrMoves, Has, Lined
<1>9. Follows(k, j)
  BY <1>8, MovesFollows
<1> QED BY <1>9 DEF j

\* sched_yield moves the running task alone.
LEMMA YieldFollows ==
  ASSUME NEW k, NEW n \in Int, Good(k, {}, n), NEW p \in Pid, p = k.curr
  PROVE  Follows(k, sys_sched_yield(k, p))
<1> DEFINE t  == k.task[p]
           h  == <<t.array, t.prio>>
           k1 == list_del(k, p)
           b  == k1.bitmap \ {h}
           k2 == [k1 EXCEPT !.bitmap = b]
           i  == FirstBit(k2, t.array)
           d  == IF i = MAX_PRIO \/ i <= t.prio THEN h ELSE <<t.array, i>>
           Insert(j, h2) == [j EXCEPT !.queue[h2] = Second(j.queue[h2], p)]
           k3 == Insert(k2, d)
           u  == [t EXCEPT !.prio = d[2]]
           k4 == Set(k3, p, u)
           s  == Without(k.overdue, p)
<1>1. Lined(k) /\ p \in Task /\ Has(k1, s)
  BY LineFacts, DequeueLine
<1> HIDE DEF k1, d, s, h, t, b
<1>2. /\ Has([k1 EXCEPT !.queue[h] = Append(k1.queue[h], p)], s)
      /\ Has(Insert(k1, h), s)
  BY <1>1 DEF Has
<1>3. Has(k3, s)
  <2>1. Has(k2, s)
    BY <1>1 DEF Has
  <2> HIDE DEF k2
  <2> QED BY <2>1 DEF Has
<1>4. Has(k4, s)
  <2> HIDE DEF k3, u
  <2> QED BY <1>3 DEF Has, Set
<1>5. Has([k4 EXCEPT !.bitmap = k4.bitmap \cup {d}], s)
  <2> HIDE DEF k4
  <2> QED BY <1>4 DEF Has
<1>6. YieldPlace(k, p) \in {[k1 EXCEPT !.queue[h] = Append(k1.queue[h], p)], Insert(k1, h),
                            [k4 EXCEPT !.bitmap = k4.bitmap \cup {d}]}
  BY DEF YieldPlace, k1, d, h, t, b
<1>7. Has(YieldPlace(k, p), s)
  <2> DEFINE x == [k1 EXCEPT !.queue[h] = Append(k1.queue[h], p)]
             y == Insert(k1, h)
             z == [k4 EXCEPT !.bitmap = k4.bitmap \cup {d}]
  <2> HIDE DEF x, y, z
  <2>1. Has(x, s) /\ Has(y, s) /\ Has(z, s)
    BY <1>2, <1>5 DEF x, y, z
  <2>2. YieldPlace(k, p) \in {x, y, z}
    BY <1>6 DEF x, y, z
  <2> QED BY <2>1, <2>2
<1>8. Has(sys_sched_yield(k, p), s)
  BY <1>7 DEF sys_sched_yield, UPDATE_REASON, Set, Has
<1>9. CurrMoves(k, sys_sched_yield(k, p))
  BY <1>8 DEF CurrMoves, Has, s
<1> QED BY <1>9, MovesFollows

\* A new task is on no list yet.
LEMMA WakeForkedFollows ==
  ASSUME NEW k, NEW n \in Int, Good(k, {}, n), NEW p \in Pid, ~ Enqueued(k.task[p]), NEW prio
  PROVE  Lined(wake_up_forked_process(k, p, prio)) /\ Follows(k, wake_up_forked_process(k, p, prio))
<1> DEFINE k0 == Set(k, p, [k.task[p] EXCEPT !.state = "RUNNING"])
           j  == wake_up_forked_process(k, p, prio)
<1>1. /\ Lined(k) /\ Shaped(k) /\ p \in Task /\ k.overdue \in Seq(Pid)
      /\ p \notin Elements(k.overdue)
  BY LineFacts, OnAList
<1>2. Lined(k0) /\ k0.overdue = k.overdue
  <2>1. SameLife([k.task[p] EXCEPT !.state = "RUNNING"], k.task[p])
    BY <1>1, LivesSame, OtherFields
  <2>2. SameLives(k, k0) /\ Has(k0, k.overdue)
    BY <1>1, <2>1, LifeKept, SetLine
  <2> HIDE DEF k0
  <2> QED BY <1>1, <2>2, SameOverdue
<1>3. j = activate_task(k0, p, prio)
  BY DEF wake_up_forked_process
<1> HIDE DEF k0, j
<1>4. Has(j, k.overdue) \/ Has(j, <<p>> \o k.overdue)
  BY <1>1, <1>2, <1>3, ActivateLine
<1>5. Lined(j)
  BY <1>1, <1>2, <1>3, <1>4, ActivateLives, LivesTwice DEF Lined, Has
<1>6. Follows(k, j)
  BY <1>1, <1>4, InLineSame, InLineAdded DEF Follows, Has
<1> QED BY <1>5, <1>6 DEF j

\* The other operators leave the line alone.
LEMMA ForkReschedLine ==
  ASSUME NEW k, Lined(k), NEW p \in Task, NEW vfork
  PROVE  Has(ForkResched(k, p, vfork), k.overdue)
BY HurryLine, FlagLine DEF ForkResched

\* ... nor has the reaper's share,
LEMMA SchedExitLine ==
  ASSUME NEW k, Lined(k), NEW p, NEW c
  PROVE  Has(sched_exit(k, p, c), k.overdue)
BY SetLine, FlagLine DEF sched_exit

\* ... nor the orphans' claim.
LEMMA OrphanLine ==
  ASSUME NEW k, Lined(k), NEW S
  PROVE  Has(forget_original_parent(k, S), k.overdue)
BY DEF forget_original_parent, Has, Lined

-----------------------------------------------------------------------------
(* Priorities and need_resched: what each operator leaves of them.         *)

\* Of a record only these fields are needed here.
Graded(t) == {"prio", "static_prio", "need_resched"} \subseteq DOMAIN t

\* Of the runqueue only this is needed here.
Ranked(k) ==
  /\ {"task", "curr"} \subseteq DOMAIN k
  /\ DOMAIN k.task = Task /\ k.curr \in Task
  /\ \A q \in Task : Graded(k.task[q])

\* t has the priorities of u, and has been told to go if u had been.
SamePrio(t, u) == Graded(t) /\ t.prio = u.prio /\ t.static_prio = u.static_prio
SameRank(t, u) == SamePrio(t, u) /\ (Told(u) => Told(t))
\* The same task runs, and every task has the rank it had.
SameRanks(k, j) ==
  /\ {"task", "curr"} \subseteq DOMAIN j
  /\ DOMAIN j.task = Task /\ j.curr = k.curr
  /\ \A q \in Task : SameRank(j.task[q], k.task[q])

\* A well-formed runqueue has that shape.
LEMMA RankedNow ==
  ASSUME NEW k, Typed(k)
  PROVE  Ranked(k)
BY DEF Typed, Kernel, Ranked, Graded, TaskRecord

\* Ranks that are the same stay the same over several operators.
LEMMA RanksTwice ==
  ASSUME NEW k, Ranked(k), NEW i, SameRanks(k, i)
  PROVE  Ranked(i) /\ \A j : SameRanks(i, j) => SameRanks(k, j)
BY DEF Ranked, SameRanks, SameRank, SamePrio

\* A field of one task is written, or a list.
LEMMA RankKept ==
  ASSUME NEW k, Ranked(k), NEW p \in Task, NEW t, SameRank(t, k.task[p])
  PROVE  SameRanks(k, Set(k, p, t)) /\ Set(k, p, t).task[p] = t
BY DEF Ranked, SameRanks, SameRank, SamePrio, Set

\* Writing any other field leaves the rank of a task alone; it may be told to go.
LEMMA OtherRanks ==
  ASSUME NEW t, Graded(t)
  PROVE  /\ SameRank(t, t)
         /\ \A x : /\ SameRank([t EXCEPT !.reason = x], t)
                   /\ SameRank([t EXCEPT !.queued = x], t)
                   /\ SameRank([t EXCEPT !.array = x], t)
                   /\ SameRank([t EXCEPT !.state = x], t)
                   /\ SameRank([t EXCEPT !.time_slice = x], t)
                   /\ SameRank([t EXCEPT !.first_time_slice = x], t)
         /\ LET u == [t EXCEPT !.need_resched = TRUE] IN SameRank(u, t) /\ Told(u)
BY DEF Graded, SameRank, SamePrio, Told

\* list_del unlinks and writes no record.
LEMMA ListDelRanks ==
  ASSUME NEW k, Ranked(k), NEW p
  PROVE  SameRanks(k, list_del(k, p)) /\ list_del(k, p).task = k.task
BY DEF list_del, Ranked, SameRanks, SameRank, SamePrio

\* Nor does dequeue_task.
LEMMA DequeueTaskRanks ==
  ASSUME NEW k, Ranked(k), NEW p, NEW a
  PROVE  SameRanks(k, dequeue_task(k, p, a)) /\ dequeue_task(k, p, a).task = k.task
BY DEF dequeue_task, list_del, Ranked, SameRanks, SameRank, SamePrio

\* enqueue_task writes where the task is queued.
LEMMA EnqueueTaskRanks ==
  ASSUME NEW k, Ranked(k), NEW p \in Task, NEW a
  PROVE  SameRanks(k, enqueue_task(k, p, a))
<1> DEFINE t == [k.task[p] EXCEPT !.array = a, !.queued = TRUE]
           i == Set(k, p, t)
<1>1. SameRank(t, k.task[p])
  BY DEF Ranked, SameRank, SamePrio, Graded, Told
<1>2. SameRanks(k, i)
  BY <1>1, RankKept
<1>3. SameRanks(i, enqueue_task(k, p, a))
  <2>1. Ranked(i)
    BY <1>2, RanksTwice
  <2> HIDE DEF i
  <2> QED BY <2>1 DEF enqueue_task, Ranked, SameRanks, SameRank, SamePrio, i
<1> QED BY <1>2, <1>3, RanksTwice

\* So does the insertion in the list of the overdue tasks.
LEMMA EnqueueOverdueRanks ==
  ASSUME NEW k, Ranked(k), NEW p \in Task
  PROVE  SameRanks(k, EnqueueOverdue(k, p))
<1> DEFINE t == [k.task[p] EXCEPT !.array = NULL, !.queued = TRUE]
           i == Set(k, p, t)
<1>1. SameRank(t, k.task[p])
  BY DEF Ranked, SameRank, SamePrio, Graded, Told
<1>2. SameRanks(k, i)
  BY <1>1, RankKept
<1>3. SameRanks(i, EnqueueOverdue(k, p))
  <2>1. Ranked(i)
    BY <1>2, RanksTwice
  <2> HIDE DEF i
  <2> QED BY <2>1 DEF EnqueueOverdue, Ranked, SameRanks, SameRank, SamePrio, i
<1> QED BY <1>2, <1>3, RanksTwice

\* Doing nothing leaves every rank as it is.
LEMMA RanksSame ==
  ASSUME NEW k, Ranked(k)
  PROVE  SameRanks(k, k) /\ \A q \in Task : Graded(k.task[q])
BY DEF Ranked, SameRanks, SameRank, SamePrio

\* The reason, need_resched and the state of a task.
LEMMA FlagRanks ==
  ASSUME NEW k, Ranked(k), NEW p \in Task
  PROVE  /\ \A res : SameRanks(k, UPDATE_REASON(k, p, res))
         /\ SameRanks(k, resched_task(k, p)) /\ Told(resched_task(k, p).task[p])
         /\ SameRanks(k, INIT_LIST_HEAD(k, p))
         /\ \A s : SameRanks(k, SetState(k, p, s))
<1>1. Graded(k.task[p])
  BY RanksSame
<1>2. \A res : SameRanks(k, UPDATE_REASON(k, p, res))
  BY <1>1, RankKept, RanksSame, OtherRanks DEF UPDATE_REASON
<1>3. SameRanks(k, INIT_LIST_HEAD(k, p)) /\ \A s : SameRanks(k, SetState(k, p, s))
  BY <1>1, RankKept, OtherRanks DEF INIT_LIST_HEAD, SetState
<1>4. SameRanks(k, resched_task(k, p)) /\ Told(resched_task(k, p).task[p])
  <2> DEFINE u == [k.task[p] EXCEPT !.need_resched = TRUE]
  <2>1. SameRank(u, k.task[p]) /\ Told(u)
    BY <1>1, OtherRanks
  <2> HIDE DEF u
  <2>2. SameRanks(k, Set(k, p, u)) /\ Set(k, p, u).task[p] = u
    BY <2>1, RankKept
  <2> QED BY <2>1, <2>2 DEF resched_task, u
<1> QED BY <1>2, <1>3, <1>4

\* Asking for a switch and saying why changes no rank, and the task has been told.
LEMMA HurryRanks ==
  ASSUME NEW k, Ranked(k), NEW p \in Task, NEW q \in Task, NEW res,
         NEW j, j = UPDATE_REASON(resched_task(k, p), q, res)
  PROVE  SameRanks(k, j) /\ Told(j.task[p])
<1> DEFINE i == resched_task(k, p)
<1>1. SameRanks(k, i) /\ Ranked(i) /\ Told(i.task[p])
  BY FlagRanks, RanksTwice
<1> HIDE DEF i
<1>2. SameRanks(i, j)
  BY <1>1, FlagRanks DEF i
<1> QED BY <1>1, <1>2, RanksTwice DEF SameRanks, SameRank, SamePrio

\* Queueing a task, wherever its policy puts it, changes no rank.
LEMMA Hw2EnqueueRanks ==
  ASSUME NEW k, Ranked(k), NEW p \in Task, NEW b
  PROVE  SameRanks(k, hw2_enqueue(k, p, b))
BY EnqueueTaskRanks, EnqueueOverdueRanks DEF hw2_enqueue

\* Nor does taking it off.
LEMMA Hw2DequeueRanks ==
  ASSUME NEW k, Ranked(k), NEW p \in Task, NEW a
  PROVE  SameRanks(k, hw2_dequeue(k, p, a))
<1>1. SameRanks(k, list_del_init(k, p))
  BY ListDelRanks, FlagRanks, RanksTwice DEF list_del_init
<1> QED BY <1>1, DequeueTaskRanks DEF hw2_dequeue

\* Nor does sending it to the end of its queue.
LEMMA PushBackRanks ==
  ASSUME NEW k, Ranked(k), NEW p \in Task
  PROVE  SameRanks(k, hw2_back_of_the_queue(k, p)) /\ SameRanks(k, OVERDUE_PUSH_BACK(k, p))
<1> DEFINE i == hw2_dequeue(k, p, k.task[p].array)
<1>1. SameRanks(k, i)
  BY Hw2DequeueRanks
<1>2. SameRanks(k, hw2_enqueue(i, p, TRUE))
  <2> HIDE DEF i
  <2> QED BY <1>1, Hw2EnqueueRanks, RanksTwice
<1>3. SameRanks(k, hw2_back_of_the_queue(k, p))
  BY <1>2, RanksSame DEF hw2_back_of_the_queue
<1> QED BY <1>3, RanksSame DEF OVERDUE_PUSH_BACK

\* The running task gives way with the rank it has.
LEMMA GiveWayRanks ==
  ASSUME NEW k, Ranked(k), NEW p \in Task, NEW res,
         NEW j, j = OVERDUE_PUSH_BACK(UPDATE_REASON(resched_task(k, p), p, res), p)
  PROVE  SameRanks(k, j) /\ Told(j.task[p])
<1> DEFINE i == UPDATE_REASON(resched_task(k, p), p, res)
<1>1. SameRanks(k, i) /\ Ranked(i) /\ Told(i.task[p])
  BY HurryRanks, RanksTwice
<1> HIDE DEF i
<1>2. SameRanks(i, j)
  BY <1>1, PushBackRanks DEF i
<1> QED BY <1>1, <1>2, RanksTwice DEF SameRanks, SameRank, SamePrio

\* A counter of the runqueue is written, and nothing else.
LEMMA CountRanks ==
  ASSUME NEW k, Ranked(k)
  PROVE  /\ \A n : SameRanks(k, [k EXCEPT !.nr_running = n])
         /\ \A n : SameRanks(k, [k EXCEPT !.nr_uninterruptible = n])
         /\ \A n, m : SameRanks(k, [k EXCEPT !.nr_running = n, !.nr_uninterruptible = m])
         /\ \A a : SameRanks(k, [k EXCEPT !.active = a])
<1> SUFFICES ASSUME NEW n, NEW m
             PROVE  /\ SameRanks(k, [k EXCEPT !.nr_running = n])
                    /\ SameRanks(k, [k EXCEPT !.nr_uninterruptible = n])
                    /\ SameRanks(k, [k EXCEPT !.nr_running = n, !.nr_uninterruptible = m])
                    /\ SameRanks(k, [k EXCEPT !.active = n])
  OBVIOUS
<1>1. SameRanks(k, [k EXCEPT !.nr_running = n])
  BY DEF Ranked, SameRanks, SameRank, SamePrio
<1>2. SameRanks(k, [k EXCEPT !.nr_uninterruptible = n])
  BY DEF Ranked, SameRanks, SameRank, SamePrio
<1>3. SameRanks(k, [k EXCEPT !.nr_running = n, !.nr_uninterruptible = m])
  BY DEF Ranked, SameRanks, SameRank, SamePrio
<1>4. SameRanks(k, [k EXCEPT !.active = n])
  BY DEF Ranked, SameRanks, SameRank, SamePrio
<1> QED BY <1>1, <1>2, <1>3, <1>4

\* deactivate_task takes it off as what it is.
LEMMA DeactivateRanks ==
  ASSUME NEW k, Ranked(k), NEW p \in Task
  PROVE  SameRanks(k, deactivate_task(k, p))
<1> DEFINE n  == k.nr_running - 1
           m  == IF k.task[p].state = "UNINTERRUPTIBLE" THEN k.nr_uninterruptible + 1
                 ELSE k.nr_uninterruptible
           k0 == [k EXCEPT !.nr_running = n, !.nr_uninterruptible = m]
           k1 == hw2_dequeue(k0, p, k.task[p].array)
<1>1. SameRanks(k, k0)
  <2> HIDE DEF n, m
  <2> QED BY CountRanks
<1>2. SameRanks(k, k1)
  <2> HIDE DEF k0
  <2> QED BY <1>1, Hw2DequeueRanks, RanksTwice
<1>3. deactivate_task(k, p) = Set(k1, p, [k1.task[p] EXCEPT !.array = NULL])
  BY SMT DEF deactivate_task, Ranked
<1> HIDE DEF k1
<1>4. Ranked(k1) /\ Graded(k1.task[p])
  BY <1>2, RanksTwice, RanksSame
<1>5. SameRanks(k1, Set(k1, p, [k1.task[p] EXCEPT !.array = NULL]))
  BY <1>4, RankKept, OtherRanks
<1> QED BY <1>2, <1>3, <1>5, RanksTwice

\* At the end of its slice the running task is told to go.
LEMMA EndOfSliceRanks ==
  ASSUME NEW k, Ranked(k), NEW p \in Task, NEW j, j = EndOfSlice(k, p)
  PROVE  SameRanks(k, j) /\ Told(j.task[p])
BY HurryRanks DEF EndOfSlice

\* A task that leaves the CPU keeps its priority.
LEMMA PutPrevRanks ==
  ASSUME NEW k, Ranked(k), NEW sig
  PROVE  SameRanks(k, PutPrev(k, sig))
<1>1. k.curr \in Task
  BY DEF Ranked
<1>2. SameRanks(k, UPDATE_REASON(deactivate_task(k, k.curr), k.curr, PREV_WAIT))
  BY <1>1, DeactivateRanks, FlagRanks, RanksTwice
<1>3. SameRanks(k, Set(k, k.curr, [k.task[k.curr] EXCEPT !.state = "RUNNING"]))
  BY <1>1, RankKept, RanksSame, OtherRanks
<1> QED BY <1>2, <1>3, RanksSame DEF PutPrev

\* The swap of the arrays is no concern of the tasks.
LEMMA SwapRanks ==
  ASSUME NEW k, Ranked(k)
  PROVE  SameRanks(k, SwapArrays(k))
BY CountRanks, RanksSame DEF SwapArrays

\* The task that is switched out goes back as what it is.
LEMMA PushPrevRanks ==
  ASSUME NEW k, Ranked(k)
  PROVE  SameRanks(k, PushPrevBack(k))
<1>1. k.curr \in Task
  BY DEF Ranked
<1> QED BY <1>1, PushBackRanks, RanksSame DEF PushPrevBack

\* Handing the CPU to the child changes no priority.
LEMMA ForkReschedRanks ==
  ASSUME NEW k, Ranked(k), NEW p \in Task, NEW vfork
  PROVE  SameRanks(k, ForkResched(k, p, vfork))
BY HurryRanks, RanksSame DEF ForkResched

\* The reaper gets ticks, and no other priority.
LEMMA SchedExitRanks ==
  ASSUME NEW k, Ranked(k), NEW p \in Task, NEW c
  PROVE  SameRanks(k, sched_exit(k, p, c))
<1> DEFINE n == Min({k.task[p].time_slice + k.task[c].time_slice, MAX_TIMESLICE})
<1>1. sched_exit(k, p, c) \in {k, Set(k, p, [k.task[p] EXCEPT !.time_slice = n])}
  BY DEF sched_exit
<1> HIDE DEF n
<1>2. SameRanks(k, Set(k, p, [k.task[p] EXCEPT !.time_slice = n]))
  BY RankKept, RanksSame, OtherRanks
<1> QED BY <1>1, <1>2, RanksSame

\* exit_notify writes who may give ticks back, and no priority.
LEMMA OrphanRanks ==
  ASSUME NEW k, Ranked(k), NEW S
  PROVE  SameRanks(k, forget_original_parent(k, S))
<1> DEFINE f == [q \in Task |-> IF q \in S THEN [k.task[q] EXCEPT !.first_time_slice = FALSE]
                              ELSE k.task[q]]
<1>1. DOMAIN f = Task /\ \A q \in Task : SameRank(f[q], k.task[q])
  BY RanksSame, OtherRanks
<1>2. forget_original_parent(k, S) = [k EXCEPT !.task = f]
  BY DEF forget_original_parent
<1> HIDE DEF f
<1> QED BY <1>1, <1>2 DEF Ranked, SameRanks

-----------------------------------------------------------------------------
\* Only the priorities of p may have changed.
RanksBut(k, j, p) ==
  /\ {"task", "curr"} \subseteq DOMAIN j
  /\ DOMAIN j.task = Task /\ j.curr = k.curr
  /\ \A q \in Task \ {p} : SameRank(j.task[q], k.task[q])
  /\ Graded(j.task[p]) /\ (Told(k.task[p]) => Told(j.task[p]))

\* Ranks that are the same but for one task are so after another operator.
LEMMA ButTwice ==
  ASSUME NEW k, Ranked(k), NEW p \in Task, NEW i, RanksBut(k, i, p), NEW j,
         RanksBut(i, j, p) \/ SameRanks(i, j)
  PROVE  RanksBut(k, j, p)
<1>1. CASE RanksBut(i, j, p)
  BY <1>1 DEF Ranked, RanksBut, SameRank, SamePrio
<1>2. CASE SameRanks(i, j)
  BY <1>2 DEF Ranked, RanksBut, SameRanks, SameRank, SamePrio
<1> QED BY <1>1, <1>2

\* The runqueue has the same shape after it.
LEMMA ButRanked ==
  ASSUME NEW k, Ranked(k), NEW p \in Task, NEW i, RanksBut(k, i, p)
  PROVE  Ranked(i)
<1>1. ASSUME NEW q \in Task PROVE Graded(i.task[q])
  BY DEF RanksBut, SameRank, SamePrio
<1> QED BY <1>1 DEF Ranked, RanksBut

\* Ranks that are all the same are so but for any task.
LEMMA SameBut ==
  ASSUME NEW k, NEW p \in Task, NEW j, SameRanks(k, j)
  PROVE  RanksBut(k, j, p)
BY DEF SameRanks, RanksBut, SameRank, SamePrio

\* The priorities of one task are written, after operators that keep them.
LEMMA Rewritten ==
  ASSUME NEW k, Ranked(k), NEW i, SameRanks(k, i), NEW p \in Task,
         NEW t, Graded(t), Told(k.task[p]) => Told(t), NEW j, j = Set(i, p, t)
  PROVE  RanksBut(k, j, p) /\ j.task[p] = t /\ Ranked(j)
<1>1. RanksBut(k, j, p) /\ j.task[p] = t
  BY DEF SameRanks, RanksBut, Set
<1> QED BY <1>1, ButRanked

\* ... or first of all.
LEMMA GradeWritten ==
  ASSUME NEW k, Ranked(k), NEW p \in Task, NEW t, Graded(t), Told(k.task[p]) => Told(t)
  PROVE  RanksBut(k, Set(k, p, t), p) /\ Set(k, p, t).task[p] = t
BY RanksSame, Rewritten

\* activate_task queues the task with the priority it is given.
LEMMA ActivateRanks ==
  ASSUME NEW k, Ranked(k), NEW p \in Task, NEW prio, NEW j, j = activate_task(k, p, prio)
  PROVE  /\ RanksBut(k, j, p)
         /\ j.task[p].prio = prio /\ j.task[p].static_prio = k.task[p].static_prio
<1> DEFINE t  == k.task[p]
           u  == [t EXCEPT !.prio = prio]
           k0 == Set(k, p, u)
           k1 == hw2_enqueue(k0, p, TRUE)
<1>1. Graded(t)
  BY RanksSame
<1>2. Graded(u) /\ (Told(t) => Told(u)) /\ u.prio = prio /\ u.static_prio = t.static_prio
  <2> HIDE DEF t
  <2> QED BY <1>1 DEF Graded, Told
<1>3. RanksBut(k, k0, p) /\ Ranked(k0) /\ k0.task[p] = u
  <2> HIDE DEF u
  <2> QED BY <1>2, GradeWritten, ButRanked
<1>4. SameRanks(k0, k1) /\ Ranked(k1)
  <2> HIDE DEF k0
  <2> QED BY <1>3, Hw2EnqueueRanks, RanksTwice
<1>5. j = [k1 EXCEPT !.nr_running = k1.nr_running + 1]
  BY DEF activate_task
<1>6. SameRanks(k1, j)
  <2> DEFINE n == k1.nr_running + 1
  <2> HIDE DEF k1, n
  <2>1. SameRanks(k1, [k1 EXCEPT !.nr_running = n])
    BY <1>4, CountRanks
  <2> QED BY <1>5, <2>1 DEF n
<1>7. SameRanks(k0, j)
  <2> HIDE DEF k0, k1
  <2> QED BY <1>3, <1>4, <1>6, RanksTwice
<1>8. RanksBut(k, j, p)
  <2> HIDE DEF k0
  <2> QED BY <1>3, <1>7, ButTwice
<1>9. SamePrio(j.task[p], u)
  <2> HIDE DEF u, k0
  <2> QED BY <1>3, <1>7 DEF SameRanks, SameRank
<1> QED BY <1>2, <1>8, <1>9 DEF SamePrio

-----------------------------------------------------------------------------
(* The tick.                                                               *)

\* A tick of a real-time or overdue task changes no priority, and tells it to go if it
\* changes more than its slice.
LEMMA TickRealTimeRanks ==
  ASSUME NEW k, Ranked(k), NEW p \in Task, NEW j, j = TickRealTime(k, p)
  PROVE  SameRanks(k, j)
<1> DEFINE t  == k.task[p]
           u  == [t EXCEPT !.time_slice = TASK_TIMESLICE(t), !.first_time_slice = FALSE]
           k0 == Set(k, p, u)
           k1 == EndOfSlice(k0, p)
           k2 == dequeue_task(k1, p, k1.active)
           k3 == enqueue_task(k2, p, k1.active)
<1>1. Graded(t) /\ SameRank(t, t)
  BY RanksSame, OtherRanks
<1>2. SameRank(u, t)
  <2> DEFINE n == TASK_TIMESLICE(t)
  <2> HIDE DEF n, t
  <2> QED BY <1>1 DEF SameRank, SamePrio, Graded, Told
<1>3. SameRanks(k, k0)
  <2> HIDE DEF u
  <2> QED BY <1>2, RankKept
<1>4. SameRanks(k, k1)
  <2> HIDE DEF k0
  <2> QED BY <1>3, EndOfSliceRanks, RanksTwice
<1>5. SameRanks(k, k3)
  <2> HIDE DEF k1
  <2> SUFFICES SameRanks(k1, k3)
    BY <1>4, RanksTwice
  <2>1. Ranked(k1)
    BY <1>4, RanksTwice
  <2>2. SameRanks(k1, k2)
    BY <2>1, DequeueTaskRanks
  <2> HIDE DEF k2
  <2> QED BY <2>1, <2>2, EnqueueTaskRanks, RanksTwice
<1>6. SameRanks(k, Set(k, p, [t EXCEPT !.time_slice = Decremented(t.time_slice)]))
  <2> DEFINE v == [t EXCEPT !.time_slice = Decremented(t.time_slice)]
  <2>1. SameRank(v, k.task[p])
    BY <1>1, OtherRanks
  <2> HIDE DEF v
  <2>2. SameRanks(k, Set(k, p, v))
    BY <2>1, RankKept
  <2> QED BY <2>2 DEF v
<1>7. j = IF t.policy # "RR" THEN k
          ELSE IF Decremented(t.time_slice) # 0
               THEN Set(k, p, [t EXCEPT !.time_slice = Decremented(t.time_slice)])
               ELSE k3
  BY DEF TickRealTime
<1> HIDE DEF k3, t
<1> QED BY <1>5, <1>6, <1>7, RanksSame

\* An OTHER task out of slice gets a new priority and is told to go.
LEMMA ExpireOtherRanks ==
  ASSUME NEW k, Ranked(k), NEW p \in Task, NEW prio, NEW stay, NEW j, j = ExpireOther(k, p, prio, stay)
  PROVE  RanksBut(k, j, p) /\ Told(j.task[p])
<1> DEFINE k0 == dequeue_task(k, p, k.active)
           k1 == EndOfSlice(k0, p)
           n  == TASK_TIMESLICE(k1.task[p])
           u  == [k1.task[p] EXCEPT !.prio = prio, !.first_time_slice = FALSE, !.time_slice = n]
           k2 == Set(k1, p, u)
           a  == IF stay THEN k.active ELSE expired(k)
<1>1. SameRanks(k, k0) /\ Ranked(k0)
  BY DequeueTaskRanks, RanksTwice
<1>2. SameRanks(k, k1) /\ Ranked(k1) /\ Told(k1.task[p])
  <2> HIDE DEF k0
  <2> QED BY <1>1, EndOfSliceRanks, RanksTwice
<1>3. RanksBut(k1, k2, p) /\ Told(k2.task[p]) /\ Ranked(k2)
  <2> HIDE DEF k1, n
  <2> DEFINE t == k1.task[p]
  <2>1. Graded(t) /\ Told(t)
    BY <1>2, RanksSame
  <2>2. Graded(u) /\ Told(u)
    <3> HIDE DEF t
    <3>1. u = [t EXCEPT !.prio = prio, !.first_time_slice = FALSE, !.time_slice = n]
      BY DEF t
    <3> QED BY <2>1, <3>1 DEF Graded, Told
  <2> HIDE DEF u
  <2> QED BY <1>2, <2>2, GradeWritten, ButRanked
<1>4. j = enqueue_task(k2, p, a)
  BY DEF ExpireOther
<1>5. RanksBut(k, k2, p)
  <2> HIDE DEF k1, k2
  <2> QED BY <1>2, <1>3, SameBut, ButTwice
<1>6. SameRanks(k2, j)
  <2> HIDE DEF k2, a
  <2> QED BY <1>3, <1>4, EnqueueTaskRanks
<1> HIDE DEF k2
<1> QED BY <1>3, <1>5, <1>6, ButTwice DEF SameRanks, SameRank

\* A SHORT task out of slice keeps its priority and is told to go.
LEMMA ExpireShortRanks ==
  ASSUME NEW k, Ranked(k), NEW p \in Task, NEW j, j = ExpireShort(k, p)
  PROVE  SameRanks(k, j) /\ Told(j.task[p])
<1> DEFINE k0     == hw2_dequeue(k, p, k.task[p].array)
           k1     == EndOfSlice(k0, p)
           t      == k1.task[p]
           trials == t.remaining_trials - 1
           slice  == hw2_ms_to_ticks(t.requested_time) \div (t.current_trial + 1)
           cur    == t.current_trial + 1
           t1     == [t EXCEPT !.first_time_slice = FALSE, !.remaining_trials = trials,
                               !.current_trial = cur, !.time_slice = slice]
           k4     == Set(k1, p, t1)
           k5     == INIT_LIST_HEAD(k4, p)
           k2     == UPDATE_REASON(k5, p, OVERDUE)
           t3     == [k2.task[p] EXCEPT !.remaining_trials = 0, !.time_slice = 0]
           k3     == Set(k2, p, t3)
           i      == IF trials = 0 \/ slice = 0 THEN k3 ELSE k4
<1>1. SameRanks(k, k0) /\ Ranked(k0)
  BY Hw2DequeueRanks, RanksTwice
<1>2. SameRanks(k, k1) /\ Ranked(k1) /\ Told(k1.task[p])
  <2> HIDE DEF k0
  <2> QED BY <1>1, EndOfSliceRanks, RanksTwice
<1>3. SameRanks(k1, k4) /\ Ranked(k4)
  <2> HIDE DEF k1, trials, slice, cur
  <2>1. Graded(t)
    BY <1>2, RanksSame
  <2>2. SameRank(t1, t)
    <3> HIDE DEF t
    <3> QED BY <2>1 DEF SameRank, SamePrio, Graded, Told
  <2> HIDE DEF t1
  <2> QED BY <1>2, <2>2, RankKept, RanksTwice
<1>4. SameRanks(k4, k2) /\ Ranked(k2)
  <2> HIDE DEF k4
  <2>1. SameRanks(k4, k5) /\ Ranked(k5)
    BY <1>3, FlagRanks, RanksTwice
  <2> HIDE DEF k5
  <2> QED BY <1>3, <2>1, FlagRanks, RanksTwice
<1>5. SameRanks(k2, k3)
  <2> HIDE DEF k2
  <2> DEFINE u == k2.task[p]
  <2>1. Graded(u)
    BY <1>4, RanksSame
  <2>2. SameRank(t3, u)
    <3> HIDE DEF u
    <3>1. t3 = [u EXCEPT !.remaining_trials = 0, !.time_slice = 0]
      BY DEF u
    <3> QED BY <2>1, <3>1 DEF SameRank, SamePrio, Graded, Told
  <2> HIDE DEF t3
  <2> QED BY <1>4, <2>2, RankKept
<1>6. SameRanks(k1, i) /\ Ranked(i)
  <2> HIDE DEF k1, k2, k3, k4, trials, slice
  <2>1. SameRanks(k4, k3)
    BY <1>3, <1>4, <1>5, RanksTwice
  <2>2. SameRanks(k1, k3) /\ SameRanks(k1, k4)
    BY <1>2, <1>3, <2>1, RanksTwice
  <2> QED BY <1>2, <2>2, RanksTwice
<1>7. j = hw2_enqueue(i, p, TRUE)
  BY DEF ExpireShort
<1> HIDE DEF i, k1
<1>8. SameRanks(k1, j)
  BY <1>2, <1>6, <1>7, Hw2EnqueueRanks, RanksTwice
<1> QED BY <1>2, <1>8, RanksTwice DEF SameRanks, SameRank

\* A tick tells the running task to go, or leaves priorities and trials as they are; if
\* the task is SHORT it keeps its priority in any case.
LEMMA TickRanks ==
  ASSUME NEW k, Ranked(k), Shaped(k), NEW p, p = k.curr, NEW prio, NEW stay,
         NEW j, j = scheduler_tick(k, prio, stay)
  PROVE  /\ RanksBut(k, j, p)
         /\ is_short(k.task[p]) => SameRanks(k, j)
         /\ Told(j.task[p]) \/ (SameLives(k, j) /\ SameRanks(k, j))
<1> DEFINE t == k.task[p]
           u == [t EXCEPT !.time_slice = Decremented(t.time_slice)]
           k1 == Set(k, p, u)
<1>1. p \in Task /\ Bearing(t) /\ SameLife(u, t) /\ Graded(t) /\ SameRank(u, t)
  BY LivesSame, OtherFields, RanksSame, OtherRanks DEF Shaped
<1>2. /\ SameLives(k, k1) /\ SameRanks(k, k1) /\ Ranked(k1)
  <2> HIDE DEF u
  <2> QED BY <1>1, LifeKept, RankKept, RanksTwice
<1>3. CASE j = k
  BY <1>1, <1>3, LivesSame, RanksSame, SameBut
<1>4. CASE j = EndOfSlice(k, p)
  BY <1>1, <1>4, EndOfSliceRanks, SameBut
<1>5. CASE j = TickRealTime(k, p)
  BY <1>1, <1>5, TickRealTimeRanks, TickRealTimeLives, SameBut
<1>6. CASE j = k1
  BY <1>1, <1>2, <1>6, SameBut
<1>7. CASE j = ExpireShort(k1, p)
  <2> HIDE DEF k1
  <2>1. SameRanks(k1, j) /\ Told(j.task[p])
    BY <1>1, <1>2, <1>7, ExpireShortRanks
  <2> QED BY <1>1, <1>2, <2>1, RanksTwice, SameBut
<1>8. CASE j = ExpireOther(k1, p, prio, stay) /\ ~ is_short(t)
  <2> HIDE DEF k1
  <2>1. RanksBut(k1, j, p) /\ Told(j.task[p])
    BY <1>1, <1>2, <1>8, ExpireOtherRanks
  <2> QED BY <1>1, <1>2, <1>8, <2>1, SameBut, ButTwice
<1>9. scheduler_tick(k, prio, stay) =
        IF p = Idle THEN k
        ELSE IF ~ is_short(t) /\ t.array # k.active THEN EndOfSlice(k, p)
        ELSE IF rt_task(t) \/ is_overdue(t) THEN TickRealTime(k, p)
        ELSE IF Decremented(t.time_slice) # 0 THEN k1
        ELSE IF is_short(t) THEN ExpireShort(k1, p)
        ELSE ExpireOther(k1, p, prio, stay)
  BY DEF scheduler_tick
<1> HIDE DEF t, k1
<1> QED BY <1>3, <1>4, <1>5, <1>6, <1>7, <1>8, <1>9

-----------------------------------------------------------------------------
(* Wake-ups, fork, schedule() and the system calls.                        *)

\* Whether a task gives way to another depends on policy, trials and priority alone.
LEMMA SwitchesAlike ==
  ASSUME NEW t, NEW t1, SameLife(t1, t), SamePrio(t1, t),
         NEW u, NEW u1, SameLife(u1, u), SamePrio(u1, u)
  PROVE  should_switch(t1, u1) <=> should_switch(t, u)
<1>1. /\ t1.policy = t.policy /\ t1.remaining_trials = t.remaining_trials /\ t1.prio = t.prio
      /\ u1.policy = u.policy /\ u1.remaining_trials = u.remaining_trials /\ u1.prio = u.prio
  BY DEF SameLife, SamePrio
<1> QED BY <1>1 DEF should_switch, is_overdue, is_short, rt_task

\* The task that wakes up is queued with the priority it is given, and the running task
\* is told to go if it should give way.
LEMMA TryToWakeUpRanks ==
  ASSUME NEW k, Ranked(k), Shaped(k), NEW p \in Task, p # k.curr, NEW prio,
         ~ Enqueued(k.task[p]), NEW j, j = try_to_wake_up(k, p, prio)
  PROVE  /\ RanksBut(k, j, p)
         /\ j.task[p].prio = prio /\ j.task[p].static_prio = k.task[p].static_prio
         /\ Told(j.task[k.curr]) \/ ~ should_switch(j.task[k.curr], j.task[p])
<1> DEFINE n  == IF k.task[p].state = "UNINTERRUPTIBLE" THEN k.nr_uninterruptible - 1
                 ELSE k.nr_uninterruptible
           k1 == [k EXCEPT !.nr_uninterruptible = n]
           k2 == activate_task(k1, p, prio)
           curr_ == k.curr
           k3 == IF should_switch(k2.task[curr_], k2.task[p])
                 THEN OVERDUE_PUSH_BACK(UPDATE_REASON(resched_task(k2, curr_), curr_, PRIO), curr_)
                 ELSE k2
<1>0. curr_ \in Task
  BY DEF Ranked
<1>1. SameRanks(k, k1) /\ Ranked(k1) /\ SameLives(k, k1) /\ Shaped(k1)
  <2> HIDE DEF n
  <2> QED BY CountRanks, RanksTwice, CountLives, LivesTwice
<1>2. /\ RanksBut(k1, k2, p) /\ Ranked(k2) /\ Shaped(k2)
      /\ k2.task[p].prio = prio /\ k2.task[p].static_prio = k1.task[p].static_prio
  <2> HIDE DEF k1
  <2> QED BY <1>1, ActivateRanks, ButRanked, ActivateLives, LivesTwice
<1>3. SameRanks(k2, k3) /\ Ranked(k3) /\ SameLives(k2, k3) /\ Shaped(k3)
  <2> HIDE DEF k2, curr_
  <2> QED BY <1>0, <1>2, GiveWayRanks, RanksSame, RanksTwice, GiveWayLives, LivesSame, LivesTwice
<1>4. Told(k3.task[curr_]) \/ ~ should_switch(k2.task[curr_], k2.task[p])
  <2> HIDE DEF k2, curr_
  <2> QED BY <1>0, <1>2, GiveWayRanks
<1>5. j = SetState(k3, p, "RUNNING")
  BY DEF try_to_wake_up, SetState
<1> HIDE DEF k1, k2, k3, curr_
<1>6. SameRanks(k3, j) /\ SameLives(k3, j)
  BY <1>3, <1>5, FlagRanks, FlagLives
<1>7. SameRanks(k2, j) /\ SameLives(k2, j)
  BY <1>2, <1>3, <1>6, RanksTwice, LivesTwice
<1>8. RanksBut(k, k2, p) /\ RanksBut(k, j, p)
  BY <1>1, <1>2, <1>7, SameBut, ButTwice
<1>9. j.task[p].prio = prio /\ j.task[p].static_prio = k.task[p].static_prio
  BY <1>1, <1>2, <1>7 DEF SameRanks, SameRank, SamePrio
<1>10. Told(j.task[curr_]) \/ ~ should_switch(j.task[curr_], j.task[p])
  <2>1. Told(k3.task[curr_]) => Told(j.task[curr_])
    BY <1>0, <1>6 DEF SameRanks, SameRank
  <2>2. should_switch(j.task[curr_], j.task[p]) <=> should_switch(k2.task[curr_], k2.task[p])
    BY <1>0, <1>7, SwitchesAlike DEF SameRanks, SameRank, SameLives
  <2> QED BY <1>4, <2>1, <2>2
<1> QED BY <1>8, <1>9, <1>10 DEF curr_

\* A task that is queued already keeps its place, and only its state is set.
LEMMA AwakeRanks ==
  ASSUME NEW k, Ranked(k), NEW p \in Task, NEW prio,
         Enqueued(k.task[p]), NEW j, j = try_to_wake_up(k, p, prio)
  PROVE  SameRanks(k, j)
<1>1. j = SetState(k, p, "RUNNING")
  BY DEF try_to_wake_up, SetState
<1> QED BY <1>1, FlagRanks

\* The first wake-up of a child.
LEMMA WakeForkedRanks ==
  ASSUME NEW k, Ranked(k), NEW p \in Task, NEW prio, NEW j, j = wake_up_forked_process(k, p, prio)
  PROVE  /\ RanksBut(k, j, p)
         /\ j.task[p].prio = prio /\ j.task[p].static_prio = k.task[p].static_prio
<1> DEFINE i == SetState(k, p, "RUNNING")
<1>1. SameRanks(k, i) /\ Ranked(i)
  BY FlagRanks, RanksTwice
<1>2. j = activate_task(i, p, prio)
  BY DEF wake_up_forked_process, SetState
<1> HIDE DEF i
<1>3. /\ RanksBut(i, j, p)
      /\ j.task[p].prio = prio /\ j.task[p].static_prio = i.task[p].static_prio
  BY <1>1, <1>2, ActivateRanks
<1>4. RanksBut(k, j, p)
  BY <1>1, <1>3, SameBut, ButTwice
<1> QED BY <1>1, <1>3, <1>4 DEF SameRanks, SameRank, SamePrio

\* nice on a task that is queued: the running task is told to go if it should give way.
LEMMA NiceRanks ==
  ASSUME NEW k, Ranked(k), Shaped(k), NEW p \in Task, NEW prio,
         k.task[p].array # NULL, ~ rt_task(k.task[p]), ~ is_overdue(k.task[p]),
         k.task[p].static_prio # prio, NEW j, j = set_user_nice(k, p, prio)
  PROVE  /\ RanksBut(k, j, p)
         /\ j.task[p].prio = prio /\ j.task[p].static_prio = prio
         /\ \/ Told(j.task[k.curr])
            \/ p # k.curr /\ ~ should_switch(j.task[k.curr], j.task[p])
<1> DEFINE t  == k.task[p]
           t1 == [t EXCEPT !.static_prio = prio, !.prio = prio]
           i  == hw2_dequeue(k, p, t.array)
           k0 == Set(i, p, t1)
           k1 == enqueue_task(k0, p, t.array)
           curr_ == k.curr
           switch == p = curr_ \/ should_switch(k1.task[curr_], k1.task[p])
<1>0. curr_ \in Task /\ Graded(t)
  BY RanksSame DEF Ranked
<1>1. Graded(t1) /\ (Told(t) => Told(t1)) /\ t1.prio = prio /\ t1.static_prio = prio
  <2> HIDE DEF t
  <2> QED BY <1>0 DEF Graded, Told
<1>2. SameRanks(k, i) /\ Ranked(i)
  BY Hw2DequeueRanks, RanksTwice
<1>3. RanksBut(k, k0, p) /\ k0.task[p] = t1 /\ Ranked(k0)
  <2> HIDE DEF i, t1
  <2> QED BY <1>1, <1>2, Rewritten
<1>4. SameRanks(k0, k1) /\ Ranked(k1)
  <2> HIDE DEF k0
  <2> QED BY <1>3, EnqueueTaskRanks, RanksTwice
<1>5. SameLives(k, k1) /\ Shaped(k1)
  <2>1. SameLife(t1, t) /\ Bearing(t)
    BY LivesSame DEF Bearing, SameLife
  <2>2. SameLives(k, i) /\ Shaped(i)
    BY Hw2DequeueLives, LivesTwice
  <2>3. SameLives(k, k0) /\ Shaped(k0)
    <3> HIDE DEF i, t1
    <3>1. SameLife(t1, i.task[p])
      BY <2>1, <2>2 DEF SameLives, SameLife
    <3> QED BY <2>2, <3>1, LifeKept, LivesTwice
  <2> HIDE DEF k0
  <2> QED BY <2>3, EnqueueTaskLives, LivesTwice
<1>6. j = IF switch THEN OVERDUE_PUSH_BACK(UPDATE_REASON(resched_task(k1, curr_), curr_, PRIO), curr_)
          ELSE k1
  BY DEF set_user_nice
<1> HIDE DEF t, t1, i, k0, k1, curr_
<1>7. SameRanks(k1, j) /\ SameLives(k1, j) /\ (switch => Told(j.task[curr_]))
  BY <1>0, <1>4, <1>5, <1>6, GiveWayRanks, RanksSame, GiveWayLives, LivesSame
<1>8. SameRanks(k0, j) /\ RanksBut(k, j, p)
  BY <1>3, <1>4, <1>7, RanksTwice, ButTwice
<1>9. j.task[p].prio = prio /\ j.task[p].static_prio = prio
  BY <1>1, <1>3, <1>8 DEF SameRanks, SameRank, SamePrio
<1>10. should_switch(j.task[curr_], j.task[p]) <=> should_switch(k1.task[curr_], k1.task[p])
  BY <1>0, <1>7, SwitchesAlike DEF SameRanks, SameRank, SameLives
<1> QED BY <1>7, <1>8, <1>9, <1>10 DEF curr_

\* sched_yield: only an OTHER task gets another priority.
LEMMA YieldRanks ==
  ASSUME NEW k, Ranked(k), NEW p \in Task, NEW j, j = sys_sched_yield(k, p)
  PROVE  RanksBut(k, j, p) /\ (rt_task(k.task[p]) => j.task[p].prio = k.task[p].prio)
<1> DEFINE t  == k.task[p]
           h  == <<t.array, t.prio>>
           k1 == list_del(k, p)
           k2 == [k1 EXCEPT !.bitmap = k1.bitmap \ {h}]
           i  == FirstBit(k2, t.array)
           d  == IF i = MAX_PRIO \/ i <= t.prio THEN h ELSE <<t.array, i>>
           Insert(m, h2) == [m EXCEPT !.queue[h2] = Second(m.queue[h2], p)]
           x  == [k1 EXCEPT !.queue[h] = Append(k1.queue[h], p)]
           y  == Insert(k1, h)
           k3 == Insert(k2, d)
           u  == [t EXCEPT !.prio = d[2]]
           k4 == Set(k3, p, u)
           z  == [k4 EXCEPT !.bitmap = k4.bitmap \cup {d}]
           w  == YieldPlace(k, p)
<1>1. SameRanks(k, k1) /\ Ranked(k1) /\ k1.task = k.task
  BY ListDelRanks, RanksTwice
<1> HIDE DEF k1, d
<1>2. SameRanks(k1, x)
  <2> HIDE DEF h
  <2> QED BY <1>1, RanksSame DEF Ranked, SameRanks
<1>3. SameRanks(k1, y)
  <2> HIDE DEF h
  <2> QED BY <1>1, RanksSame DEF Ranked, SameRanks
<1>4. SameRanks(k1, k3) /\ Ranked(k3) /\ k3.task = k.task
  <2> HIDE DEF h
  <2>1. k3.task = k1.task /\ k3.curr = k1.curr /\ {"task", "curr"} \subseteq DOMAIN k3
    BY <1>1 DEF Ranked
  <2> HIDE DEF k3
  <2>2. SameRanks(k1, k3)
    BY <1>1, <2>1, RanksSame DEF SameRanks, Ranked
  <2> QED BY <1>1, <2>1, <2>2, RanksTwice
<1>5. RanksBut(k3, k4, p) /\ Ranked(k4)
  <2> DEFINE e == d[2]
  <2>1. Graded(t)
    BY RanksSame
  <2>2. Graded(u) /\ (Told(t) => Told(u))
    <3> HIDE DEF t, e
    <3>1. u = [t EXCEPT !.prio = e]
      BY DEF e
    <3> QED BY <2>1, <3>1 DEF Graded, Told
  <2> HIDE DEF k3, u
  <2> QED BY <1>4, <2>2, GradeWritten, ButRanked
<1>6. SameRanks(k4, z)
  <2> HIDE DEF k4
  <2> QED BY <1>5, RanksSame DEF Ranked, SameRanks
<1>7. IF rt_task(t) THEN w = x ELSE w \in {y, z}
  BY DEF YieldPlace, k1, d
<1>8. RanksBut(k, x, p) /\ RanksBut(k, y, p) /\ RanksBut(k, z, p)
  <2> HIDE DEF x, y, z, k3, k4
  <2>1. RanksBut(k, k1, p) /\ RanksBut(k, k3, p)
    BY <1>1, <1>4, SameBut, ButTwice
  <2>2. RanksBut(k, k4, p)
    BY <1>5, <2>1, ButTwice
  <2> QED BY <1>2, <1>3, <1>6, <2>1, <2>2, ButTwice
<1> HIDE DEF x, y, z, w
<1>9. RanksBut(k, w, p) /\ (rt_task(t) => w.task[p].prio = t.prio) /\ Ranked(w)
  <2>1. RanksBut(k, w, p)
    BY <1>7, <1>8
  <2>2. rt_task(t) => w.task[p].prio = t.prio
    BY <1>1, <1>2, <1>7 DEF SameRanks, SameRank, SamePrio
  <2> QED BY <2>1, <2>2, ButRanked
<1>10. SameRanks(w, j)
  BY <1>9, FlagRanks DEF sys_sched_yield, w
<1> QED BY <1>9, <1>10, ButTwice DEF SameRanks, SameRank, SamePrio

\* setscheduler queues the task with the priority its new policy gives it.
LEMMA SetschedulerRanks ==
  ASSUME NEW k, Ranked(k), NEW p \in Task, NEW new, Graded(new), Told(k.task[p]) => Told(new),
         NEW prio, NEW j, j = setscheduler(k, p, new, prio)
  PROVE  /\ RanksBut(k, j, p)
         /\ j.task[p].prio = IF k.task[p].array # NULL THEN prio ELSE new.prio
         /\ j.task[p].static_prio = new.static_prio
         /\ is_short(new) /\ ~ is_short(k.task[p]) => Told(j.task[k.curr])
<1> DEFINE queued == k.task[p].array # NULL
           turns == is_short(new) /\ ~ is_short(k.task[p])
           curr_ == k.curr
           k0 == IF queued THEN deactivate_task(k, p) ELSE k
           u  == [new EXCEPT !.array = NULL]
           k1 == Set(k0, p, u)
           k2 == IF turns THEN UPDATE_REASON(resched_task(k1, curr_), curr_, PRIO) ELSE k1
<1>0. curr_ \in Task
  BY DEF Ranked
<1>1. SameRanks(k, k0)
  BY DeactivateRanks, RanksSame
<1>2. SameRank(u, new)
  BY OtherRanks
<1>3. RanksBut(k, k1, p) /\ Ranked(k1) /\ k1.task[p] = u
  <2> HIDE DEF k0, u
  <2> QED BY <1>1, <1>2, Rewritten DEF SameRank, SamePrio
<1>4. SameRanks(k1, k2) /\ Ranked(k2) /\ (turns => Told(k2.task[curr_]))
  <2> HIDE DEF k1, turns, curr_
  <2> QED BY <1>0, <1>3, HurryRanks, RanksSame, RanksTwice
<1>5. j = IF queued THEN activate_task(k2, p, prio) ELSE k2
  BY DEF setscheduler
<1> HIDE DEF k0, k1, k2, u, queued, turns, curr_
<1>6. k1.curr = k.curr /\ k2.curr = k.curr /\ SamePrio(k2.task[p], new)
  BY <1>2, <1>3, <1>4 DEF RanksBut, SameRanks, SameRank, SamePrio
<1>7. CASE queued
  <2>1. /\ RanksBut(k2, j, p)
        /\ j.task[p].prio = prio /\ j.task[p].static_prio = k2.task[p].static_prio
    BY <1>4, <1>5, <1>7, ActivateRanks
  <2>2. RanksBut(k, k2, p) /\ RanksBut(k, j, p)
    BY <1>3, <1>4, <2>1, ButTwice
  <2>3. turns => Told(j.task[curr_])
    BY <1>0, <1>4, <2>1 DEF RanksBut, SameRank
  <2> QED BY <1>6, <1>7, <2>1, <2>2, <2>3 DEF queued, turns, curr_, SamePrio
<1>8. CASE ~ queued
  <2>1. RanksBut(k, j, p)
    BY <1>3, <1>4, <1>5, <1>8, ButTwice
  <2> QED BY <1>4, <1>5, <1>6, <1>8, <2>1 DEF queued, turns, curr_, SamePrio
<1> QED BY <1>7, <1>8

\* schedule() changes no priority.
LEMMA ScheduleRanks ==
  ASSUME NEW k, Ranked(k), NEW sig, NEW j, j = schedule(k, sig)
  PROVE  \A q \in Task : SamePrio(j.task[q], k.task[q])
<1> DEFINE k1 == PutPrev(k, sig)
           k2 == IF k1.nr_running = 0 THEN k1 ELSE PushPrevBack(SwapArrays(k1))
           t  == k2.task[k.curr]
           u  == [t EXCEPT !.need_resched = FALSE]
           k3 == Set(k2, k.curr, u)
           next == IF k2.nr_running = 0 THEN Idle ELSE PickNext(k2)
<1>1. SameRanks(k, k1) /\ Ranked(k1)
  BY PutPrevRanks, RanksTwice
<1>2. SameRanks(k, k2) /\ Ranked(k2)
  <2> HIDE DEF k1
  <2>1. SameRanks(k, SwapArrays(k1)) /\ Ranked(SwapArrays(k1))
    BY <1>1, SwapRanks, RanksTwice
  <2> QED BY <1>1, <2>1, PushPrevRanks, RanksTwice
<1>3. SamePrio(u, t)
  <2> HIDE DEF k2
  <2>1. Graded(t)
    BY <1>2, RanksSame DEF Ranked
  <2> HIDE DEF t
  <2> QED BY <2>1 DEF SamePrio, Graded
<1>4. \A q \in Task : SamePrio(k3.task[q], k.task[q])
  <2> HIDE DEF k2, u
  <2>1. k3.task = [k2.task EXCEPT ![k.curr] = u]
    BY <1>2 DEF Set, Ranked
  <2> HIDE DEF k3
  <2> QED BY <1>2, <1>3, <2>1 DEF Ranked, SameRanks, SameRank, SamePrio
<1>5. j = [k3 EXCEPT !.curr = next]
  BY DEF schedule
<1> HIDE DEF k3, next
<1> QED BY <1>4, <1>5

-----------------------------------------------------------------------------
(* Ticks: what each operator leaves of the slices.                         *)

Ticking(t) ==
  /\ {"policy", "remaining_trials", "time_slice", "static_prio", "requested_time", "current_trial"}
       \subseteq DOMAIN t
  /\ t.remaining_trials \in Nat /\ t.time_slice \in Nat /\ t.static_prio \in UserPrio
  /\ t.requested_time \in Nat /\ t.current_trial \in Nat

\* Of the runqueue only this is needed here.
Wound(k) ==
  /\ {"task", "curr"} \subseteq DOMAIN k
  /\ DOMAIN k.task = Task /\ k.curr \in Task
  /\ \A q \in Task : Ticking(k.task[q])

SameSlice(t, u) ==
  /\ Ticking(t) /\ t.policy = u.policy
  /\ t.remaining_trials = u.remaining_trials /\ t.time_slice = u.time_slice
SameSlices(k, j) ==
  /\ {"task", "curr"} \subseteq DOMAIN j
  /\ DOMAIN j.task = Task /\ j.curr = k.curr
  /\ \A q \in Task : SameSlice(j.task[q], k.task[q])

\* A well-formed runqueue is of that kind.
LEMMA WoundNow ==
  ASSUME NEW k, Typed(k)
  PROVE  Wound(k)
BY DEF Typed, Kernel, Wound, Ticking, TaskRecord

\* Ticks that are kept are kept over several operators.
LEMMA SlicesTwice ==
  ASSUME NEW k, Wound(k), NEW i, SameSlices(k, i)
  PROVE  Wound(i) /\ \A j : SameSlices(i, j) => SameSlices(k, j)
BY DEF Wound, SameSlices, SameSlice

\* A record with the same ticks is written.
LEMMA SliceKept ==
  ASSUME NEW k, Wound(k), NEW p \in Task, NEW t, SameSlice(t, k.task[p])
  PROVE  SameSlices(k, Set(k, p, t)) /\ Set(k, p, t).task[p] = t
BY DEF Wound, SameSlices, SameSlice, Set

\* Writing another field takes no tick.
LEMMA OtherSlices ==
  ASSUME NEW t, Ticking(t)
  PROVE  /\ SameSlice(t, t)
         /\ \A x : /\ SameSlice([t EXCEPT !.reason = x], t)
                   /\ SameSlice([t EXCEPT !.need_resched = x], t)
                   /\ SameSlice([t EXCEPT !.queued = x], t)
                   /\ SameSlice([t EXCEPT !.array = x], t)
                   /\ SameSlice([t EXCEPT !.prio = x], t)
                   /\ x \in UserPrio => SameSlice([t EXCEPT !.static_prio = x], t)
                   /\ SameSlice([t EXCEPT !.state = x], t)
                   /\ SameSlice([t EXCEPT !.first_time_slice = x], t)
BY DEF Ticking, SameSlice

\* list_del writes no record,
LEMMA ListDelSlices ==
  ASSUME NEW k, Wound(k), NEW p
  PROVE  SameSlices(k, list_del(k, p)) /\ list_del(k, p).task = k.task
BY DEF list_del, Wound, SameSlices, SameSlice

\* ... and dequeue_task none.
LEMMA DequeueTaskSlices ==
  ASSUME NEW k, Wound(k), NEW p, NEW a
  PROVE  SameSlices(k, dequeue_task(k, p, a)) /\ dequeue_task(k, p, a).task = k.task
BY DEF dequeue_task, list_del, Wound, SameSlices, SameSlice

\* enqueue_task writes where the task is queued,
LEMMA EnqueueTaskSlices ==
  ASSUME NEW k, Wound(k), NEW p \in Task, NEW a
  PROVE  SameSlices(k, enqueue_task(k, p, a))
<1> DEFINE t == [k.task[p] EXCEPT !.array = a, !.queued = TRUE]
           i == Set(k, p, t)
<1>1. SameSlice(t, k.task[p])
  BY DEF Wound, SameSlice, Ticking
<1>2. SameSlices(k, i)
  BY <1>1, SliceKept
<1>3. SameSlices(i, enqueue_task(k, p, a))
  <2>1. Wound(i)
    BY <1>2, SlicesTwice
  <2> HIDE DEF i
  <2> QED BY <2>1 DEF enqueue_task, Wound, SameSlices, SameSlice, i
<1> QED BY <1>2, <1>3, SlicesTwice

\* ... as the insertion in the list of the overdue tasks does.
LEMMA EnqueueOverdueSlices ==
  ASSUME NEW k, Wound(k), NEW p \in Task
  PROVE  SameSlices(k, EnqueueOverdue(k, p))
<1> DEFINE t == [k.task[p] EXCEPT !.array = NULL, !.queued = TRUE]
           i == Set(k, p, t)
<1>1. SameSlice(t, k.task[p])
  BY DEF Wound, SameSlice, Ticking
<1>2. SameSlices(k, i)
  BY <1>1, SliceKept
<1>3. SameSlices(i, EnqueueOverdue(k, p))
  <2>1. Wound(i)
    BY <1>2, SlicesTwice
  <2> HIDE DEF i
  <2> QED BY <2>1 DEF EnqueueOverdue, Wound, SameSlices, SameSlice, i
<1> QED BY <1>2, <1>3, SlicesTwice

\* Doing nothing takes no tick.
LEMMA SlicesSame ==
  ASSUME NEW k, Wound(k)
  PROVE  SameSlices(k, k) /\ \A q \in Task : Ticking(k.task[q])
BY DEF Wound, SameSlices, SameSlice

\* Nor does writing the reason, need_resched or the state of a task,
LEMMA FlagSlices ==
  ASSUME NEW k, Wound(k), NEW p \in Task
  PROVE  /\ \A res : SameSlices(k, UPDATE_REASON(k, p, res))
         /\ SameSlices(k, resched_task(k, p))
         /\ SameSlices(k, INIT_LIST_HEAD(k, p))
         /\ \A s : SameSlices(k, SetState(k, p, s))
<1>1. Ticking(k.task[p])
  BY SlicesSame
<1> QED BY <1>1, SliceKept, SlicesSame, OtherSlices DEF UPDATE_REASON, resched_task, INIT_LIST_HEAD, SetState

\* ... or asking for a switch and saying why,
LEMMA HurrySlices ==
  ASSUME NEW k, Wound(k), NEW p \in Task, NEW q \in Task, NEW res
  PROVE  SameSlices(k, UPDATE_REASON(resched_task(k, p), q, res))
BY FlagSlices, SlicesTwice

\* ... or queueing a task, wherever its policy puts it,
LEMMA Hw2EnqueueSlices ==
  ASSUME NEW k, Wound(k), NEW p \in Task, NEW b
  PROVE  SameSlices(k, hw2_enqueue(k, p, b))
BY EnqueueTaskSlices, EnqueueOverdueSlices DEF hw2_enqueue

\* ... or taking it off,
LEMMA Hw2DequeueSlices ==
  ASSUME NEW k, Wound(k), NEW p \in Task, NEW a
  PROVE  SameSlices(k, hw2_dequeue(k, p, a))
<1>1. SameSlices(k, list_del_init(k, p))
  BY ListDelSlices, FlagSlices, SlicesTwice DEF list_del_init
<1> QED BY <1>1, DequeueTaskSlices DEF hw2_dequeue

\* ... or sending it to the end of its queue,
LEMMA PushBackSlices ==
  ASSUME NEW k, Wound(k), NEW p \in Task
  PROVE  SameSlices(k, hw2_back_of_the_queue(k, p)) /\ SameSlices(k, OVERDUE_PUSH_BACK(k, p))
<1> DEFINE i == hw2_dequeue(k, p, k.task[p].array)
<1>1. SameSlices(k, i)
  BY Hw2DequeueSlices
<1>2. SameSlices(k, hw2_enqueue(i, p, TRUE))
  <2> HIDE DEF i
  <2> QED BY <1>1, Hw2EnqueueSlices, SlicesTwice
<1>3. SameSlices(k, hw2_back_of_the_queue(k, p))
  BY <1>2, SlicesSame DEF hw2_back_of_the_queue
<1> QED BY <1>3, SlicesSame DEF OVERDUE_PUSH_BACK

\* ... the running one included,
LEMMA GiveWaySlices ==
  ASSUME NEW k, Wound(k), NEW p \in Task, NEW res
  PROVE  SameSlices(k, OVERDUE_PUSH_BACK(UPDATE_REASON(resched_task(k, p), p, res), p))
BY HurrySlices, PushBackSlices, SlicesTwice

\* ... or counting it.
LEMMA CountSlices ==
  ASSUME NEW k, Wound(k)
  PROVE  /\ \A n : SameSlices(k, [k EXCEPT !.nr_running = n])
         /\ \A n : SameSlices(k, [k EXCEPT !.nr_uninterruptible = n])
         /\ \A n, m : SameSlices(k, [k EXCEPT !.nr_running = n, !.nr_uninterruptible = m])
         /\ \A a : SameSlices(k, [k EXCEPT !.active = a])
<1> SUFFICES ASSUME NEW n, NEW m
             PROVE  /\ SameSlices(k, [k EXCEPT !.nr_running = n])
                    /\ SameSlices(k, [k EXCEPT !.nr_uninterruptible = n])
                    /\ SameSlices(k, [k EXCEPT !.nr_running = n, !.nr_uninterruptible = m])
                    /\ SameSlices(k, [k EXCEPT !.active = n])
  OBVIOUS
<1>1. SameSlices(k, [k EXCEPT !.nr_running = n])
  BY DEF Wound, SameSlices, SameSlice
<1>2. SameSlices(k, [k EXCEPT !.nr_uninterruptible = n])
  BY DEF Wound, SameSlices, SameSlice
<1>3. SameSlices(k, [k EXCEPT !.nr_running = n, !.nr_uninterruptible = m])
  BY DEF Wound, SameSlices, SameSlice
<1>4. SameSlices(k, [k EXCEPT !.active = n])
  BY DEF Wound, SameSlices, SameSlice
<1> QED BY <1>1, <1>2, <1>3, <1>4

\* activate_task queues the task with the ticks it has,
LEMMA ActivateSlices ==
  ASSUME NEW k, Wound(k), NEW p \in Task, NEW prio
  PROVE  SameSlices(k, activate_task(k, p, prio))
<1> DEFINE k0 == Set(k, p, [k.task[p] EXCEPT !.prio = prio])
           k1 == hw2_enqueue(k0, p, TRUE)
<1>1. SameSlices(k, k0)
  BY SliceKept, OtherSlices, SlicesSame
<1>2. SameSlices(k, k1)
  <2> HIDE DEF k0
  <2> QED BY <1>1, Hw2EnqueueSlices, SlicesTwice
<1>3. activate_task(k, p, prio) = [k1 EXCEPT !.nr_running = k1.nr_running + 1]
  BY DEF activate_task
<1> HIDE DEF k1
<1>4. SameSlices(k1, [k1 EXCEPT !.nr_running = k1.nr_running + 1])
  BY <1>2, CountSlices, SlicesTwice
<1> QED BY <1>2, <1>3, <1>4, SlicesTwice

\* ... deactivate_task takes it off with them,
LEMMA DeactivateSlices ==
  ASSUME NEW k, Wound(k), NEW p \in Task
  PROVE  SameSlices(k, deactivate_task(k, p))
<1> DEFINE n  == k.nr_running - 1
           m  == IF k.task[p].state = "UNINTERRUPTIBLE" THEN k.nr_uninterruptible + 1
                 ELSE k.nr_uninterruptible
           k0 == [k EXCEPT !.nr_running = n, !.nr_uninterruptible = m]
           k1 == hw2_dequeue(k0, p, k.task[p].array)
<1>1. SameSlices(k, k0)
  <2> HIDE DEF n, m
  <2> QED BY CountSlices
<1>2. SameSlices(k, k1)
  <2> HIDE DEF k0
  <2> QED BY <1>1, Hw2DequeueSlices, SlicesTwice
<1>3. deactivate_task(k, p) = Set(k1, p, [k1.task[p] EXCEPT !.array = NULL])
  BY SMT DEF deactivate_task, Wound
<1> HIDE DEF k1
<1>4. Wound(k1) /\ Ticking(k1.task[p])
  BY <1>2, SlicesTwice, SlicesSame
<1>5. SameSlices(k1, Set(k1, p, [k1.task[p] EXCEPT !.array = NULL]))
  BY <1>4, SliceKept, OtherSlices
<1> QED BY <1>2, <1>3, <1>5, SlicesTwice

\* ... and a wake-up takes none, from the running task neither.
LEMMA TryToWakeUpSlices ==
  ASSUME NEW k, Wound(k), NEW p \in Task, NEW prio
  PROVE  SameSlices(k, try_to_wake_up(k, p, prio))
<1> DEFINE n  == IF k.task[p].state = "UNINTERRUPTIBLE" THEN k.nr_uninterruptible - 1
                 ELSE k.nr_uninterruptible
           k1 == [k EXCEPT !.nr_uninterruptible = n]
           k2 == activate_task(k1, p, prio)
           k3 == IF should_switch(k2.task[k.curr], k2.task[p])
                 THEN OVERDUE_PUSH_BACK(UPDATE_REASON(resched_task(k2, k.curr), k.curr, PRIO), k.curr)
                 ELSE k2
           k4 == IF Enqueued(k.task[p]) THEN k ELSE k3
<1>1. SameSlices(k, k1)
  <2> HIDE DEF n
  <2> QED BY CountSlices
<1>2. SameSlices(k, k2)
  <2> HIDE DEF k1
  <2> QED BY <1>1, ActivateSlices, SlicesTwice
<1>3. SameSlices(k, k3)
  <2> HIDE DEF k2
  <2>1. k.curr \in Task
    BY DEF Wound
  <2> QED BY <1>2, <2>1, GiveWaySlices, SlicesTwice
<1>4. SameSlices(k, k4)
  <2> HIDE DEF k3
  <2> QED BY <1>3, SlicesSame
<1>5. try_to_wake_up(k, p, prio) = SetState(k4, p, "RUNNING")
  BY DEF try_to_wake_up, SetState
<1> HIDE DEF k4
<1> QED BY <1>4, <1>5, FlagSlices, SlicesTwice

\* The first wake-up of a child leaves it what do_fork gave it.
LEMMA WakeForkedSlices ==
  ASSUME NEW k, Wound(k), NEW p \in Task, NEW prio
  PROVE  SameSlices(k, wake_up_forked_process(k, p, prio))
<1>1. SameSlices(k, SetState(k, p, "RUNNING"))
  BY FlagSlices
<1>2. wake_up_forked_process(k, p, prio) = activate_task(SetState(k, p, "RUNNING"), p, prio)
  BY DEF wake_up_forked_process, SetState
<1> HIDE DEF SetState
<1> QED BY <1>1, <1>2, ActivateSlices, SlicesTwice

\* Telling that the slice is at its end takes no tick.
LEMMA EndOfSliceSlices ==
  ASSUME NEW k, Wound(k), NEW p \in Task
  PROVE  SameSlices(k, EndOfSlice(k, p))
BY HurrySlices DEF EndOfSlice

\* A task that leaves the CPU keeps what is left of its slice.
LEMMA PutPrevSlices ==
  ASSUME NEW k, Wound(k), NEW sig
  PROVE  SameSlices(k, PutPrev(k, sig))
<1>1. k.curr \in Task
  BY DEF Wound
<1>2. SameSlices(k, UPDATE_REASON(deactivate_task(k, k.curr), k.curr, PREV_WAIT))
  BY <1>1, DeactivateSlices, FlagSlices, SlicesTwice
<1>3. SameSlices(k, Set(k, k.curr, [k.task[k.curr] EXCEPT !.state = "RUNNING"]))
  BY <1>1, SliceKept, SlicesSame, OtherSlices
<1> QED BY <1>2, <1>3, SlicesSame DEF PutPrev

\* The swap of the arrays gives nobody a slice.
LEMMA SwapSlices ==
  ASSUME NEW k, Wound(k)
  PROVE  SameSlices(k, SwapArrays(k))
BY CountSlices, SlicesSame DEF SwapArrays

\* The task that is switched out goes back with its ticks.
LEMMA PushPrevSlices ==
  ASSUME NEW k, Wound(k)
  PROVE  SameSlices(k, PushPrevBack(k))
<1>1. k.curr \in Task
  BY DEF Wound
<1> QED BY <1>1, PushBackSlices, SlicesSame DEF PushPrevBack

\* schedule() may make another task current, and takes no tick from any.
LEMMA ScheduleSlices ==
  ASSUME NEW k, Wound(k), NEW sig
  PROVE  LET j == schedule(k, sig)
         IN  /\ {"task", "curr"} \subseteq DOMAIN j /\ DOMAIN j.task = Task
             /\ \A q \in Task : SameSlice(j.task[q], k.task[q])
<1> DEFINE k1 == PutPrev(k, sig)
           k2 == IF k1.nr_running = 0 THEN k1 ELSE PushPrevBack(SwapArrays(k1))
           k3 == Set(k2, k.curr, [k2.task[k.curr] EXCEPT !.need_resched = FALSE])
           next == IF k2.nr_running = 0 THEN Idle ELSE PickNext(k2)
<1>1. SameSlices(k, k1)
  BY PutPrevSlices
<1>2. SameSlices(k, k2)
  <2> HIDE DEF k1
  <2>1. SameSlices(k, SwapArrays(k1))
    BY <1>1, SwapSlices, SlicesTwice
  <2> QED BY <1>1, <2>1, PushPrevSlices, SlicesTwice
<1>3. SameSlices(k, k3)
  <2> HIDE DEF k2
  <2> DEFINE u == [k2.task[k.curr] EXCEPT !.need_resched = FALSE]
  <2>1. Wound(k2) /\ k.curr \in Task
    BY <1>2, SlicesTwice DEF Wound
  <2>2. SameSlice(u, k2.task[k.curr])
    BY <2>1, SlicesSame, OtherSlices
  <2> HIDE DEF u
  <2>3. SameSlices(k2, Set(k2, k.curr, u))
    BY <2>1, <2>2, SliceKept
  <2> QED BY <1>2, <2>3, SlicesTwice DEF u
<1>4. schedule(k, sig) = [k3 EXCEPT !.curr = next]
  BY DEF schedule
<1> HIDE DEF k3, next
<1> QED BY <1>3, <1>4 DEF SameSlices

\* nice changes what the next slice will be, and not this one.
LEMMA NiceSlices ==
  ASSUME NEW k, Wound(k), NEW p \in Task, NEW prio \in UserPrio
  PROVE  SameSlices(k, set_user_nice(k, p, prio))
<1> DEFINE t  == k.task[p]
           t1 == [t EXCEPT !.static_prio = prio, !.prio = prio]
           i  == hw2_dequeue(k, p, t.array)
           j  == Set(i, p, t1)
           k1 == enqueue_task(j, p, t.array)
           k2 == IF p = k.curr \/ should_switch(k1.task[k.curr], k1.task[p])
                 THEN OVERDUE_PUSH_BACK(UPDATE_REASON(resched_task(k1, k.curr), k.curr, PRIO), k.curr)
                 ELSE k1
<1>1. Ticking(t) /\ SameSlice(t1, t) /\ SameSlice([t EXCEPT !.static_prio = prio], t)
  BY SlicesSame, OtherSlices DEF Ticking, SameSlice
<1>2. SameSlices(k, i)
  BY Hw2DequeueSlices
<1>3. SameSlices(k, j)
  <2> HIDE DEF i, t1
  <2>1. SameSlice(t1, i.task[p]) /\ Wound(i)
    BY <1>1, <1>2, SlicesTwice DEF SameSlices, SameSlice
  <2> QED BY <1>2, <2>1, SliceKept, SlicesTwice
<1>4. SameSlices(k, k1)
  <2> HIDE DEF j
  <2> QED BY <1>3, EnqueueTaskSlices, SlicesTwice
<1>5. SameSlices(k, k2)
  <2> HIDE DEF k1
  <2>1. k.curr \in Task
    BY DEF Wound
  <2> QED BY <1>4, <2>1, GiveWaySlices, SlicesTwice
<1>6. SameSlices(k, Set(k, p, t1)) /\ SameSlices(k, Set(k, p, [t EXCEPT !.static_prio = prio]))
  <2> HIDE DEF t1
  <2> QED BY <1>1, SliceKept
<1>7. set_user_nice(k, p, prio) = IF t.static_prio = prio \/ is_overdue(t) THEN k
                                  ELSE IF rt_task(t) THEN Set(k, p, [t EXCEPT !.static_prio = prio])
                                  ELSE IF t.array = NULL THEN Set(k, p, t1)
                                  ELSE k2
  BY DEF set_user_nice
<1> HIDE DEF k2, t1, t
<1> QED BY <1>5, <1>6, <1>7, SlicesSame

\* sched_yield keeps the slice of the task it moves.
LEMMA YieldSlices ==
  ASSUME NEW k, Wound(k), NEW p \in Task
  PROVE  SameSlices(k, sys_sched_yield(k, p))
<1> DEFINE t  == k.task[p]
           h  == <<t.array, t.prio>>
           k1 == list_del(k, p)
           k2 == [k1 EXCEPT !.bitmap = k1.bitmap \ {h}]
           i  == FirstBit(k2, t.array)
           d  == IF i = MAX_PRIO \/ i <= t.prio THEN h ELSE <<t.array, i>>
           Insert(j, h2) == [j EXCEPT !.queue[h2] = Second(j.queue[h2], p)]
           k3 == Insert(k2, d)
           u  == [t EXCEPT !.prio = d[2]]
           k4 == Set(k3, p, u)
<1>1. SameSlices(k, k1) /\ k1.task = k.task
  BY ListDelSlices
<1> HIDE DEF k1, d
<1>2. SameSlices(k1, [k1 EXCEPT !.queue[h] = Append(k1.queue[h], p)]) /\ SameSlices(k1, Insert(k1, h))
  <2>1. Wound(k1)
    BY <1>1, SlicesTwice
  <2> HIDE DEF h
  <2> QED BY <2>1 DEF Wound, SameSlices, SameSlice
<1>3. SameSlices(k1, k3) /\ k3.task = k.task
  <2>1. Wound(k1)
    BY <1>1, SlicesTwice
  <2> HIDE DEF h
  <2> QED BY <1>1, <2>1 DEF Wound, SameSlices, SameSlice
<1>4. SameSlices(k, k4)
  <2> HIDE DEF k3
  <2>1. SameSlice(u, k3.task[p])
    BY <1>3, SlicesSame, OtherSlices
  <2> HIDE DEF u
  <2> QED BY <1>1, <1>3, <2>1, SliceKept, SlicesTwice
<1>5. SameSlices(k, [k4 EXCEPT !.bitmap = k4.bitmap \cup {d}])
  <2> HIDE DEF k4
  <2>1. Wound(k4)
    BY <1>4, SlicesTwice
  <2>2. SameSlices(k4, [k4 EXCEPT !.bitmap = k4.bitmap \cup {d}])
    BY <2>1 DEF Wound, SameSlices, SameSlice
  <2> QED BY <1>4, <2>2, SlicesTwice
<1>6. YieldPlace(k, p) \in {[k1 EXCEPT !.queue[h] = Append(k1.queue[h], p)], Insert(k1, h),
                            [k4 EXCEPT !.bitmap = k4.bitmap \cup {d}]}
  BY DEF YieldPlace, k1, d
<1>7. SameSlices(k, YieldPlace(k, p))
  <2> DEFINE x == [k1 EXCEPT !.queue[h] = Append(k1.queue[h], p)]
             y == Insert(k1, h)
             z == [k4 EXCEPT !.bitmap = k4.bitmap \cup {d}]
  <2> HIDE DEF x, y, z
  <2>1. SameSlices(k, x) /\ SameSlices(k, y) /\ SameSlices(k, z)
    BY <1>1, <1>2, <1>5, SlicesTwice DEF x, y, z
  <2>2. YieldPlace(k, p) \in {x, y, z}
    BY <1>6 DEF x, y, z
  <2> QED BY <2>1, <2>2
<1> QED BY <1>7, FlagSlices, SlicesTwice DEF sys_sched_yield

\* Handing the CPU to the child takes no tick.
LEMMA ForkReschedSlices ==
  ASSUME NEW k, Wound(k), NEW p \in Task, NEW vfork
  PROVE  SameSlices(k, ForkResched(k, p, vfork))
BY HurrySlices, SlicesSame DEF ForkResched

\* exit_notify writes who may give ticks back, and no ticks.
LEMMA OrphanSlices ==
  ASSUME NEW k, Wound(k), NEW S
  PROVE  SameSlices(k, forget_original_parent(k, S))
<1> DEFINE f == [q \in Task |-> IF q \in S THEN [k.task[q] EXCEPT !.first_time_slice = FALSE]
                              ELSE k.task[q]]
<1>1. DOMAIN f = Task /\ \A q \in Task : SameSlice(f[q], k.task[q])
  BY SlicesSame, OtherSlices
<1>2. forget_original_parent(k, S) = [k EXCEPT !.task = f]
  BY DEF forget_original_parent
<1> HIDE DEF f
<1> QED BY <1>1, <1>2 DEF Wound, SameSlices

-----------------------------------------------------------------------------
(* Who has ticks: where they are used up, shared and given.                *)

HasTicks(t) == t.time_slice > 0 \/ is_overdue(t)

\* One task may have lost ticks, but not all of them unless it is overdue.
Feeds(k, j, p) ==
  /\ {"task", "curr"} \subseteq DOMAIN j
  /\ DOMAIN j.task = Task /\ j.curr = k.curr
  /\ \A q \in Task \ {p} : SameSlice(j.task[q], k.task[q])
  /\ Ticking(j.task[p]) /\ j.task[p].policy = k.task[p].policy
  /\ HasTicks(k.task[p]) => HasTicks(j.task[p])

\* Who has the ticks of a task that has some has some.
LEMMA SameTicks ==
  ASSUME NEW t, NEW u, SameSlice(t, u)
  PROVE  HasTicks(u) => HasTicks(t)
BY DEF SameSlice, HasTicks, is_overdue, is_short

\* Two operators that leave a task ticks leave it some together.
LEMMA FeedsTwice ==
  ASSUME NEW k, Wound(k), NEW p \in Task, NEW i, Feeds(k, i, p)
  PROVE  Wound(i) /\ \A j : Feeds(i, j, p) => Feeds(k, j, p)
<1>1. Wound(i)
  BY DEF Wound, Feeds, SameSlice
<1>2. ASSUME NEW j, Feeds(i, j, p)
      PROVE  Feeds(k, j, p)
  <2>1. \A q \in Task \ {p} : SameSlice(j.task[q], k.task[q])
    BY <1>2 DEF Feeds, SameSlice
  <2> QED BY <1>2, <2>1 DEF Feeds
<1> QED BY <1>1, <1>2

\* So does one that takes none.
LEMMA SameFeeds ==
  ASSUME NEW k, Wound(k), NEW p \in Task, NEW j, SameSlices(k, j)
  PROVE  Feeds(k, j, p)
<1>1. SameSlice(j.task[p], k.task[p])
  BY DEF SameSlices
<1> QED BY <1>1, SameTicks DEF SameSlices, Feeds, SameSlice

\* A record that has ticks may be written.
LEMMA FeedWritten ==
  ASSUME NEW k, Wound(k), NEW p \in Task, NEW t, Ticking(t), t.policy = k.task[p].policy,
         HasTicks(k.task[p]) => HasTicks(t)
  PROVE  Feeds(k, Set(k, p, t), p) /\ Set(k, p, t).task[p] = t
BY DEF Wound, Feeds, SameSlice, Set

\* A whole slice is never empty; the other numbers stay natural.
LEMMA SliceFacts ==
  ASSUME NEW t, Ticking(t)
  PROVE  /\ TASK_TIMESLICE(t) \in Nat /\ TASK_TIMESLICE(t) > 0
         /\ hw2_ms_to_ticks(t.requested_time) \in Nat
         /\ Decremented(t.time_slice) \in Nat
<1>1. t.static_prio \in UserPrio /\ t.requested_time \in Nat /\ t.time_slice \in Nat
  BY DEF Ticking
<1>2. TASK_TIMESLICE(t) \in Nat /\ TASK_TIMESLICE(t) > 0
  <2>1. PICK a \in Nat : a = MAX_TIMESLICE - MIN_TIMESLICE
    BY SliceAssumption
  <2>2. PICK b \in Nat : b = MAX_PRIO - 1 - t.static_prio
    BY <1>1, PrioAssumption DEF UserPrio, MAX_RT_PRIO
  <2>3. PICK c \in Nat : c = MAX_PRIO - 1 - MAX_RT_PRIO /\ c > 0
    BY PrioAssumption DEF MAX_RT_PRIO
  <2>4. (a * b) \div c \in Nat
    BY <2>3, Product, Quotient
  <2>5. TASK_TIMESLICE(t) = MIN_TIMESLICE + ((a * b) \div c)
    BY <2>1, <2>2, <2>3 DEF TASK_TIMESLICE
  <2> QED BY <2>4, <2>5, SliceAssumption
<1>3. hw2_ms_to_ticks(t.requested_time) \in Nat
  BY <1>1, SliceAssumption, Product, Quotient DEF hw2_ms_to_ticks
<1>4. Decremented(t.time_slice) \in Nat
  BY <1>1, SliceAssumption DEF Decremented
<1> QED BY <1>2, <1>3, <1>4

\* A tick of a real-time or overdue task: a new slice comes when the old one is used up.
LEMMA TickRealTimeFeeds ==
  ASSUME NEW k, Wound(k), NEW p \in Task
  PROVE  Feeds(k, TickRealTime(k, p), p)
<1> DEFINE t  == k.task[p]
           n  == TASK_TIMESLICE(t)
           m  == Decremented(t.time_slice)
           u  == [t EXCEPT !.time_slice = n, !.first_time_slice = FALSE]
           v  == [t EXCEPT !.time_slice = m]
           k0 == Set(k, p, u)
           k1 == EndOfSlice(k0, p)
           k2 == dequeue_task(k1, p, k1.active)
           k3 == enqueue_task(k2, p, k1.active)
<1>1. Ticking(t) /\ n \in Nat /\ n > 0 /\ m \in Nat
  BY SliceFacts DEF Wound
<1>2. Ticking(u) /\ u.policy = t.policy /\ HasTicks(u)
  <2> HIDE DEF n, t
  <2> QED BY <1>1 DEF Ticking, HasTicks
<1>3. Feeds(k, k0, p) /\ Wound(k0)
  <2> HIDE DEF u
  <2> QED BY <1>2, FeedWritten, FeedsTwice
<1>4. SameSlices(k0, k1) /\ Wound(k1)
  <2> HIDE DEF k0
  <2> QED BY <1>3, EndOfSliceSlices, SlicesTwice
<1>5. SameSlices(k1, k2) /\ Wound(k2)
  <2> HIDE DEF k1
  <2> QED BY <1>4, DequeueTaskSlices, SlicesTwice
<1>6. SameSlices(k2, k3)
  <2> HIDE DEF k2
  <2> QED BY <1>5, EnqueueTaskSlices
<1>7. Feeds(k, k3, p)
  <2> HIDE DEF k0, k1, k2, k3
  <2>1. SameSlices(k0, k3)
    BY <1>3, <1>4, <1>5, <1>6, SlicesTwice
  <2> QED BY <1>3, <2>1, SameFeeds, FeedsTwice
<1>8. ASSUME m # 0
      PROVE  Feeds(k, Set(k, p, v), p)
  <2>1. Ticking(v) /\ v.policy = t.policy /\ HasTicks(v)
    <3> HIDE DEF m, t
    <3> QED BY <1>1, <1>8 DEF Ticking, HasTicks
  <2> HIDE DEF v
  <2> QED BY <2>1, FeedWritten
<1>9. TickRealTime(k, p) = IF t.policy # "RR" THEN k
                           ELSE IF m # 0 THEN Set(k, p, v) ELSE k3
  BY DEF TickRealTime
<1>10. Feeds(k, k, p)
  BY SlicesSame, SameFeeds
<1> HIDE DEF k3, t, m, v
<1> QED BY <1>7, <1>8, <1>9, <1>10

\* An OTHER task is refilled before it is queued again.
LEMMA ExpireOtherFeeds ==
  ASSUME NEW k, Wound(k), NEW p \in Task, NEW prio, NEW stay
  PROVE  /\ Feeds(k, ExpireOther(k, p, prio, stay), p)
         /\ HasTicks(ExpireOther(k, p, prio, stay).task[p])
<1> DEFINE k0 == dequeue_task(k, p, k.active)
           k1 == EndOfSlice(k0, p)
           n  == TASK_TIMESLICE(k1.task[p])
           u  == [k1.task[p] EXCEPT !.prio = prio, !.first_time_slice = FALSE, !.time_slice = n]
           k2 == Set(k1, p, u)
           a  == IF stay THEN k.active ELSE expired(k)
<1>1. SameSlices(k, k0) /\ Wound(k0)
  BY DequeueTaskSlices, SlicesTwice
<1>2. SameSlices(k, k1) /\ Wound(k1)
  <2> HIDE DEF k0
  <2> QED BY <1>1, EndOfSliceSlices, SlicesTwice
<1>3. Feeds(k1, k2, p) /\ Wound(k2) /\ k2.task[p] = u /\ HasTicks(u)
  <2> HIDE DEF k1
  <2>1. Ticking(k1.task[p]) /\ n \in Nat /\ n > 0
    BY <1>2, SliceFacts DEF Wound
  <2> HIDE DEF n
  <2>2. Ticking(u) /\ u.policy = k1.task[p].policy /\ HasTicks(u)
    BY <2>1 DEF Ticking, HasTicks
  <2> HIDE DEF u
  <2> QED BY <1>2, <2>2, FeedWritten, FeedsTwice
<1>4. ExpireOther(k, p, prio, stay) = enqueue_task(k2, p, a)
  BY DEF ExpireOther
<1> HIDE DEF k1, k2, a, u
<1>5. SameSlices(k2, enqueue_task(k2, p, a))
  BY <1>3, EnqueueTaskSlices
<1>6. Feeds(k, k1, p) /\ Feeds(k2, enqueue_task(k2, p, a), p)
  BY <1>2, <1>3, <1>5, SameFeeds
<1>7. HasTicks(enqueue_task(k2, p, a).task[p])
  <2>1. SameSlice(enqueue_task(k2, p, a).task[p], k2.task[p])
    BY <1>5 DEF SameSlices
  <2> QED BY <1>3, <2>1, SameTicks
<1> QED BY <1>3, <1>4, <1>6, <1>7, FeedsTwice

\* A SHORT task starts its next trial with a tick at least, or is overdue.
LEMMA ExpireShortFeeds ==
  ASSUME NEW k, Wound(k), NEW p \in Task, is_short(k.task[p]), ~ is_overdue(k.task[p])
  PROVE  Feeds(k, ExpireShort(k, p), p) /\ HasTicks(ExpireShort(k, p).task[p])
<1> DEFINE k0     == hw2_dequeue(k, p, k.task[p].array)
           k1     == EndOfSlice(k0, p)
           t      == k1.task[p]
           trials == t.remaining_trials - 1
           slice  == hw2_ms_to_ticks(t.requested_time) \div (t.current_trial + 1)
           t1     == [t EXCEPT !.first_time_slice = FALSE, !.remaining_trials = trials,
                               !.current_trial = t.current_trial + 1, !.time_slice = slice]
           k4     == Set(k1, p, t1)
           k5     == INIT_LIST_HEAD(k4, p)
           k2     == UPDATE_REASON(k5, p, OVERDUE)
           t3     == [k2.task[p] EXCEPT !.remaining_trials = 0, !.time_slice = 0]
           k3     == Set(k2, p, t3)
           i      == IF trials = 0 \/ slice = 0 THEN k3 ELSE k4
<1>1. SameSlices(k, k0) /\ Wound(k0)
  BY Hw2DequeueSlices, SlicesTwice
<1>2. SameSlices(k, k1) /\ Wound(k1)
  <2> HIDE DEF k0
  <2> QED BY <1>1, EndOfSliceSlices, SlicesTwice
<1>3. /\ Ticking(t) /\ is_short(t) /\ trials \in Nat /\ slice \in Nat
      /\ t.policy = k.task[p].policy
  <2> HIDE DEF k1
  <2>1. Ticking(t) /\ is_short(t) /\ t.remaining_trials # 0 /\ t.policy = k.task[p].policy
    BY <1>2 DEF SameSlices, SameSlice, is_short, is_overdue
  <2>2. hw2_ms_to_ticks(t.requested_time) \in Nat /\ t.current_trial + 1 \in Nat
        /\ t.current_trial + 1 > 0
    BY <2>1, SliceFacts DEF Ticking
  <2>3. slice \in Nat
    BY <2>2, Quotient
  <2> QED BY <2>1, <2>3 DEF Ticking
<1>4. Ticking(t1) /\ t1.policy = t.policy /\ (slice # 0 => HasTicks(t1))
  <2> HIDE DEF t, slice, trials
  <2> QED BY <1>3 DEF Ticking, HasTicks
<1>5. /\ Wound(k4) /\ k4.curr = k.curr /\ k4.task[p] = t1
      /\ \A q \in Task \ {p} : SameSlice(k4.task[q], k.task[q])
  <2> HIDE DEF k1, t1
  <2> QED BY <1>2, <1>4 DEF Wound, Set, SameSlices, SameSlice
<1>6. SameSlices(k4, k2) /\ Wound(k2)
  <2> HIDE DEF k4
  <2>1. SameSlices(k4, k5) /\ Wound(k5)
    BY <1>5, FlagSlices, SlicesTwice
  <2> HIDE DEF k5
  <2> QED BY <1>5, <2>1, FlagSlices, SlicesTwice
<1>7. Ticking(t3) /\ t3.policy = t.policy /\ HasTicks(t3)
  <2> HIDE DEF k2, k4, t1, t
  <2>1. Ticking(k2.task[p]) /\ k2.task[p].policy = t.policy
    BY <1>4, <1>5, <1>6 DEF SameSlices, SameSlice
  <2> QED BY <1>3, <2>1 DEF Ticking, HasTicks, is_overdue, is_short
<1>8. /\ {"task", "curr"} \subseteq DOMAIN k3 /\ DOMAIN k3.task = Task /\ k3.curr = k.curr
      /\ k3.task[p] = t3 /\ \A q \in Task \ {p} : SameSlice(k3.task[q], k.task[q])
  <2> HIDE DEF k2, t3, k4
  <2> QED BY <1>5, <1>6 DEF Wound, Set, SameSlices, SameSlice
<1>9. Feeds(k, i, p) /\ HasTicks(i.task[p])
  <2>1. CASE trials = 0 \/ slice = 0
    <3>1. i = k3
      BY <2>1
    <3> HIDE DEF i, k3, t3, t
    <3> QED BY <1>3, <1>7, <1>8, <3>1 DEF Feeds
  <2>2. CASE ~ (trials = 0 \/ slice = 0)
    <3>1. i = k4 /\ slice # 0
      BY <2>2
    <3> HIDE DEF i, k4, t1, t, slice
    <3> QED BY <1>3, <1>4, <1>5, <3>1 DEF Feeds, Wound
  <2> QED BY <2>1, <2>2
<1>10. ExpireShort(k, p) = hw2_enqueue(i, p, TRUE)
  BY DEF ExpireShort
<1> HIDE DEF i
<1>11. Wound(i)
  BY <1>9, FeedsTwice
<1>12. SameSlices(i, hw2_enqueue(i, p, TRUE))
  BY <1>11, Hw2EnqueueSlices
<1>13. HasTicks(hw2_enqueue(i, p, TRUE).task[p])
  <2>1. SameSlice(hw2_enqueue(i, p, TRUE).task[p], i.task[p])
    BY <1>12 DEF SameSlices
  <2> QED BY <1>9, <2>1, SameTicks
<1>14. Feeds(i, hw2_enqueue(i, p, TRUE), p)
  BY <1>11, <1>12, SameFeeds
<1> QED BY <1>9, <1>10, <1>13, <1>14, FeedsTwice

\* A tick of the timer leaves every task ticks that had some: the next slice, or the next
\* trial, starts in the same tick that ends this one.
LEMMA TickFeeds ==
  ASSUME NEW k, Wound(k), NEW prio, NEW stay
  PROVE  Feeds(k, scheduler_tick(k, prio, stay), k.curr)
<1> DEFINE p == k.curr
           t == k.task[p]
           n == Decremented(t.time_slice)
           u == [t EXCEPT !.time_slice = n]
           k1 == Set(k, p, u)
           j == scheduler_tick(k, prio, stay)
<1>1. p \in Task /\ Ticking(t) /\ n \in Nat
  BY SliceFacts DEF Wound
<1>2. Ticking(u) /\ u.policy = t.policy /\ u.remaining_trials = t.remaining_trials
      /\ (n # 0 => HasTicks(u))
  <2> HIDE DEF n, t
  <2> QED BY <1>1 DEF Ticking, HasTicks
<1>3. /\ Wound(k1) /\ k1.curr = p /\ k1.task[p] = u
      /\ \A q \in Task \ {p} : SameSlice(k1.task[q], k.task[q])
  <2> HIDE DEF u
  <2> QED BY <1>1, <1>2 DEF Wound, Set, SameSlice
<1>4. Feeds(k, k, p) /\ Feeds(k, EndOfSlice(k, p), p) /\ Feeds(k, TickRealTime(k, p), p)
  BY <1>1, SlicesSame, SameFeeds, EndOfSliceSlices, TickRealTimeFeeds
<1>5. n # 0 => Feeds(k, k1, p)
  <2> HIDE DEF u, n
  <2> QED BY <1>1, <1>2, FeedWritten
<1>6. ASSUME NEW i, Feeds(k1, i, p), HasTicks(i.task[p])
      PROVE  Feeds(k, i, p)
  <2> HIDE DEF k1, u
  <2> QED BY <1>1, <1>2, <1>3, <1>6 DEF Feeds, SameSlice
<1>7. Feeds(k, ExpireOther(k1, p, prio, stay), p)
  <2> HIDE DEF k1
  <2> QED BY <1>1, <1>3, <1>6, ExpireOtherFeeds
<1>8. ASSUME is_short(t), ~ is_overdue(t)
      PROVE  Feeds(k, ExpireShort(k1, p), p)
  <2>1. is_short(k1.task[p]) /\ ~ is_overdue(k1.task[p])
    BY <1>2, <1>3, <1>8 DEF is_short, is_overdue
  <2> HIDE DEF k1
  <2> QED BY <1>1, <1>3, <1>6, <2>1, ExpireShortFeeds
<1>9. j = IF p = Idle THEN k
          ELSE IF ~ is_short(t) /\ t.array # k.active THEN EndOfSlice(k, p)
          ELSE IF rt_task(t) \/ is_overdue(t) THEN TickRealTime(k, p)
          ELSE IF n # 0 THEN k1
          ELSE IF is_short(t) THEN ExpireShort(k1, p)
          ELSE ExpireOther(k1, p, prio, stay)
  BY DEF scheduler_tick
<1> HIDE DEF t, n, k1, j
<1>10. Feeds(k, j, p)
  BY <1>4, <1>5, <1>7, <1>8, <1>9
<1> QED BY <1>10 DEF p, j

\* do_fork's parent keeps a tick or gets its next slice at once, and its child starts with
\* ticks unless the parent had none and was overdue, which the copy is then as well.
Divided(k, j, p, c) ==
  /\ \A q \in Task \ {p, c} : SameSlice(j.task[q], k.task[q])
  /\ j.task[p].policy = k.task[p].policy /\ HasTicks(j.task[p])
  /\ j.task[c].policy = k.task[c].policy
  /\ HasTicks(k.task[p]) /\ (is_short(k.task[p]) => is_short(k.task[c])) => HasTicks(j.task[c])

\* The slices are shared.
LEMMA SplitFeeds ==
  ASSUME NEW k, Wound(k), NEW p \in Task, p = k.curr, NEW c \in Task, c # p,
         NEW prio, NEW stay
  PROVE  Divided(k, SplitSlice(k, p, c, prio, stay), p, c)
<1> DEFINE t     == k.task[p]
           r     == t.remaining_trials
           last_ == r = 1
           slice == IF last_ THEN 0 ELSE t.time_slice \div 2
           n     == ChildShare(t.time_slice)
           s     == ChildShare(r)
           m     == Max({1, slice})
           left  == IF last_ THEN 1 ELSE r \div 2
           child == [k.task[c] EXCEPT !.time_slice = n, !.first_time_slice = TRUE,
                                      !.remaining_trials = s, !.current_trial = 1]
           own   == [t EXCEPT !.remaining_trials = left, !.time_slice = m]
           k0    == Set(k, c, child)
           k1    == Set(k0, p, own)
           j     == SplitSlice(k, p, c, prio, stay)
<1>1. Ticking(t) /\ Ticking(k.task[c])
  BY DEF Wound
<1>2. /\ n \in Nat /\ s \in Nat /\ left \in Nat /\ m \in Nat /\ m > 0
      /\ (t.time_slice > 0 => n > 0) /\ (r = 0 => s = 0)
  <2>1. r \in Nat /\ t.time_slice \in Nat
    BY <1>1 DEF Ticking
  <2> HIDE DEF t, r
  <2>2. slice \in Nat
    BY <2>1
  <2> HIDE DEF slice
  <2>3. m \in Nat /\ m > 0
    BY <2>2, MaxMin
  <2>4. left \in Nat /\ s \in Nat /\ (r = 0 => s = 0)
    BY <2>1 DEF ChildShare
  <2>5. n \in Nat /\ (t.time_slice > 0 => n > 0)
    BY <2>1 DEF ChildShare
  <2> QED BY <2>3, <2>4, <2>5
<1>3. Ticking(own) /\ own.policy = t.policy /\ HasTicks(own)
  <2> HIDE DEF t, m, left
  <2> QED BY <1>1, <1>2 DEF Ticking, HasTicks
<1>4. Ticking(child) /\ child.policy = k.task[c].policy /\ child.time_slice = n
      /\ child.remaining_trials = s
  <2> DEFINE u == k.task[c]
  <2> HIDE DEF n, s, u
  <2>1. Ticking(u) /\ n \in Nat /\ s \in Nat
    BY <1>1, <1>2 DEF u
  <2>2. child = [u EXCEPT !.time_slice = n, !.first_time_slice = TRUE,
                          !.remaining_trials = s, !.current_trial = 1]
    BY DEF u
  <2> HIDE DEF child
  <2>3. Ticking(child) /\ child.policy = u.policy /\ child.time_slice = n
        /\ child.remaining_trials = s
    BY <2>1, <2>2 DEF Ticking
  <2> QED BY <2>3 DEF u
<1>5. /\ Wound(k1) /\ k1.curr = p /\ k1.task[p] = own /\ k1.task[c] = child
      /\ \A q \in Task \ {p, c} : k1.task[q] = k.task[q]
  <2> HIDE DEF child, own
  <2>1. /\ Wound(k0) /\ k0.curr = p /\ k0.task[c] = child
        /\ \A q \in Task \ {c} : k0.task[q] = k.task[q]
    BY <1>4 DEF Wound, Set
  <2> HIDE DEF k0
  <2> QED BY <2>1, <1>3 DEF Wound, Set
<1>6. j = IF slice = 0 THEN scheduler_tick(k1, prio, stay) ELSE k1
  BY DEF SplitSlice
<1>7. ASSUME HasTicks(t), is_short(t) => is_short(k.task[c])
      PROVE  HasTicks(child)
  <2> HIDE DEF child, n, s, t, r
  <2>1. CASE t.time_slice > 0
    BY <1>2, <1>4, <2>1 DEF HasTicks
  <2>2. CASE is_overdue(t)
    BY <1>2, <1>4, <1>7, <2>2 DEF HasTicks, is_overdue, is_short, r
  <2> QED BY <1>7, <2>1, <2>2 DEF HasTicks
<1> HIDE DEF k1, own, child, slice, j, n, s
<1>8. Feeds(k1, j, p)
  BY <1>5, <1>6, TickFeeds, SlicesSame, SameFeeds
<1>9. /\ \A q \in Task \ {p, c} : SameSlice(j.task[q], k.task[q])
      /\ SameSlice(j.task[c], child) /\ j.task[p].policy = t.policy /\ HasTicks(j.task[p])
  BY <1>3, <1>5, <1>8 DEF Feeds
<1>10. HasTicks(child) => HasTicks(j.task[c])
  BY <1>9, SameTicks
<1>11. Divided(k, j, p, c)
  BY <1>4, <1>7, <1>9, <1>10 DEF Divided, SameSlice
<1> QED BY <1>11 DEF j

\* The reaper gets ticks, and loses none that it needs.
LEMMA SchedExitFeeds ==
  ASSUME NEW k, Wound(k), NEW p \in Task, NEW c \in Task
  PROVE  Feeds(k, sched_exit(k, p, c), p)
<1> DEFINE t == k.task[p]
           a == t.time_slice + k.task[c].time_slice
           n == Min({a, MAX_TIMESLICE})
           u == [t EXCEPT !.time_slice = n]
<1>1. sched_exit(k, p, c) \in {k, Set(k, p, u)}
  BY DEF sched_exit
<1>2. Ticking(t) /\ a \in Nat /\ (t.time_slice > 0 => a > 0)
  BY DEF Wound, Ticking
<1>3. n \in Nat /\ (t.time_slice > 0 => n > 0)
  <2>1. MAX_TIMESLICE \in Nat /\ MAX_TIMESLICE > 0
    BY SliceAssumption
  <2> HIDE DEF a
  <2>2. n = IF a <= MAX_TIMESLICE THEN a ELSE MAX_TIMESLICE
    BY <1>2, <2>1, MaxMin
  <2> HIDE DEF n, t
  <2> QED BY <1>2, <2>1, <2>2
<1>4. Ticking(u) /\ u.policy = t.policy /\ (HasTicks(t) => HasTicks(u))
  <2> HIDE DEF n, t
  <2> QED BY <1>2, <1>3 DEF Ticking, HasTicks, is_overdue, is_short
<1> HIDE DEF u
<1>5. Feeds(k, Set(k, p, u), p)
  BY <1>4, FeedWritten
<1> QED BY <1>1, <1>5, SlicesSame, SameFeeds

\* setscheduler queues a task again with the ticks it gave it.
LEMMA SetschedulerFeeds ==
  ASSUME NEW k, Wound(k), NEW p \in Task, NEW new, Ticking(new), NEW prio,
         NEW j, j = setscheduler(k, p, new, prio)
  PROVE  /\ \A q \in Task \ {p} : SameSlice(j.task[q], k.task[q])
         /\ SameSlice(j.task[p], new)
<1> DEFINE k0 == IF k.task[p].array # NULL THEN deactivate_task(k, p) ELSE k
           u  == [new EXCEPT !.array = NULL]
           k1 == Set(k0, p, u)
           k2 == IF is_short(new) /\ ~ is_short(k.task[p])
                 THEN UPDATE_REASON(resched_task(k1, k.curr), k.curr, PRIO) ELSE k1
<1>1. SameSlices(k, k0) /\ Wound(k0)
  BY DeactivateSlices, SlicesSame, SlicesTwice
<1>2. SameSlice(u, new)
  BY OtherSlices
<1>3. /\ Wound(k1) /\ k1.task[p] = u
      /\ \A q \in Task \ {p} : k1.task[q] = k0.task[q]
  <2> HIDE DEF k0, u
  <2> QED BY <1>1, <1>2 DEF Wound, Set, SameSlice
<1>4. SameSlices(k1, k2) /\ Wound(k2)
  <2> HIDE DEF k1
  <2>1. k.curr \in Task
    BY DEF Wound
  <2> QED BY <2>1, <1>3, HurrySlices, SlicesSame, SlicesTwice
<1>5. j = IF k.task[p].array # NULL THEN activate_task(k2, p, prio) ELSE k2
  BY DEF setscheduler
<1> HIDE DEF k0, k1, k2, u
<1>6. SameSlices(k1, j)
  BY <1>3, <1>4, <1>5, ActivateSlices, SlicesSame, SlicesTwice
<1> QED BY <1>1, <1>2, <1>3, <1>6 DEF SameSlices, SameSlice

\* Whoever becomes SHORT gets a tick at least; the others keep what they have.
LEMMA PolicyFeeds ==
  ASSUME NEW t, Ticking(t), NEW policy, NEW rt_priority, NEW requested_time \in Nat,
         NEW trials \in Nat,
         MaySetScheduler(t, policy, rt_priority, requested_time, trials),
         NEW new, new = WithPolicy(t, policy, rt_priority, requested_time, trials)
  PROVE  Ticking(new) /\ (HasTicks(t) => HasTicks(new))
<1> DEFINE q  == NewPolicy(t, policy)
           x  == IF q \in {"FIFO", "RR"} THEN MAX_USER_RT_PRIO - 1 - rt_priority ELSE t.static_prio
           t1 == [t EXCEPT !.policy = q, !.prio = x]
           t2 == [t1 EXCEPT !.requested_time = requested_time]
           z  == hw2_ms_to_ticks(requested_time)
           y  == Max({1, z})
           t3 == [t2 EXCEPT !.remaining_trials = trials, !.current_trial = 1, !.time_slice = y]
<1>1. new = IF q # "SHORT" THEN t1 ELSE IF is_short(t) THEN t2 ELSE t3
  BY DEF WithPolicy
<1>2. is_short(t) => q = t.policy
  BY DEF MaySetScheduler, NewPolicy, is_short
<1>3. y \in Nat /\ y > 0
  <2>1. z \in Nat
    BY SliceAssumption, Product, Quotient DEF hw2_ms_to_ticks
  <2> HIDE DEF z
  <2> QED BY <2>1, MaxMin
<1> HIDE DEF q, x, y
<1>4. Ticking(t1) /\ t1.policy = q /\ t1.remaining_trials = t.remaining_trials
      /\ t1.time_slice = t.time_slice
  BY DEF Ticking
<1> HIDE DEF t1
<1>5. Ticking(t2) /\ t2.policy = q /\ t2.remaining_trials = t.remaining_trials
      /\ t2.time_slice = t.time_slice
  BY <1>4 DEF Ticking
<1> HIDE DEF t2
<1>6. Ticking(t3) /\ HasTicks(t3)
  BY <1>3, <1>5 DEF Ticking, HasTicks
<1> HIDE DEF t3
<1>7. HasTicks(t) => (q = "SHORT" /\ ~ is_short(t)) \/ HasTicks(new)
  BY <1>1, <1>2, <1>4, <1>5 DEF HasTicks, is_overdue, is_short
<1> QED BY <1>1, <1>4, <1>5, <1>6, <1>7

-----------------------------------------------------------------------------
(* The trials that do_fork shares.                                         *)

\* The last trial of a SHORT task ends with its last tick.
LEMMA LastTrialEnds ==
  ASSUME NEW k, Shaped(k), NEW p \in Task, is_short(k.task[p]), k.task[p].remaining_trials = 1
  PROVE  ExpireShort(k, p).task[p].remaining_trials = 0
<1> DEFINE k0     == hw2_dequeue(k, p, k.task[p].array)
           k1     == EndOfSlice(k0, p)
           t      == k1.task[p]
           trials == t.remaining_trials - 1
           slice  == hw2_ms_to_ticks(t.requested_time) \div (t.current_trial + 1)
           t1     == [t EXCEPT !.first_time_slice = FALSE, !.remaining_trials = trials,
                               !.current_trial = t.current_trial + 1, !.time_slice = slice]
           k4     == Set(k1, p, t1)
           k5     == INIT_LIST_HEAD(k4, p)
           k2     == UPDATE_REASON(k5, p, OVERDUE)
           t3     == [k2.task[p] EXCEPT !.remaining_trials = 0, !.time_slice = 0]
           k3     == Set(k2, p, t3)
           i      == IF trials = 0 \/ slice = 0 THEN k3 ELSE k4
<1>1. SameLives(k, k0)
  BY Hw2DequeueLives
<1>2. SameLives(k, k1) /\ Shaped(k1)
  <2> HIDE DEF k0
  <2> QED BY <1>1, EndOfSliceLives, LivesTwice
<1>3. Bearing(t) /\ trials = 0
  <2> HIDE DEF k1
  <2> QED BY <1>2 DEF SameLives, SameLife, Shaped
<1>4. Declined(t1, t)
  <2> HIDE DEF t, slice
  <2> QED BY <1>3 DEF Declined, Bearing
<1>5. Shaped(k4)
  <2> HIDE DEF k1, t1
  <2> QED BY <1>2, <1>4, AgeWritten, AgesTwice
<1>6. Shaped(k2)
  <2> HIDE DEF k4
  <2>1. Shaped(k5)
    BY <1>5, FlagLives, LivesTwice
  <2> HIDE DEF k5
  <2> QED BY <2>1, FlagLives, LivesTwice
<1>7. Shaped(k3) /\ k3.task[p].remaining_trials = 0
  <2> HIDE DEF k2
  <2>1. Declined(t3, k2.task[p]) /\ t3.remaining_trials = 0
    <3> DEFINE v == k2.task[p]
    <3>1. Bearing(v)
      BY <1>6, LivesSame
    <3> HIDE DEF v
    <3>2. Declined([v EXCEPT !.remaining_trials = 0, !.time_slice = 0], v)
          /\ [v EXCEPT !.remaining_trials = 0, !.time_slice = 0].remaining_trials = 0
      BY <3>1 DEF Declined, Bearing
    <3> QED BY <3>2 DEF v
  <2> HIDE DEF t3
  <2>2. Shaped(k3)
    BY <1>6, <2>1, AgeWritten, AgesTwice
  <2>3. k3.task[p] = t3
    BY <1>6 DEF Set, Shaped
  <2> QED BY <2>1, <2>2, <2>3
<1>8. ExpireShort(k, p) = hw2_enqueue(i, p, TRUE)
  BY DEF ExpireShort
<1>9. i = k3
  <2> HIDE DEF k3, k4, trials
  <2> QED BY <1>3
<1> HIDE DEF i, k3
<1>10. Shaped(i) /\ i.task[p].remaining_trials = 0
  BY <1>7, <1>9
<1>11. SameLives(i, hw2_enqueue(i, p, TRUE))
  BY <1>10, Hw2EnqueueLives
<1> QED BY <1>8, <1>10, <1>11 DEF SameLives, SameLife

\* The tick that do_fork makes for a parent whose last trial it has given away.
LEMMA LastTickEnds ==
  ASSUME NEW k, Shaped(k), NEW p \in Task, p = k.curr, p # Idle, NEW prio, NEW stay,
         is_short(k.task[p]), ~ rt_task(k.task[p]),
         k.task[p].remaining_trials = 1, k.task[p].time_slice = 1
  PROVE  scheduler_tick(k, prio, stay).task[p].remaining_trials = 0
<1> DEFINE t  == k.task[p]
           u  == [t EXCEPT !.time_slice = Decremented(t.time_slice)]
           k1 == Set(k, p, u)
<1>1. SameLife(u, t)
  BY LivesSame, OtherFields DEF Shaped
<1>2. Shaped(k1) /\ k1.task[p] = u
  <2> HIDE DEF u
  <2> QED BY <1>1, LifeKept, LivesTwice
<1>3. is_short(u) /\ u.remaining_trials = 1
  <2> HIDE DEF u
  <2> QED BY <1>1 DEF SameLife, is_short
<1>4. Decremented(t.time_slice) = 0 /\ ~ is_overdue(t)
  BY DEF Decremented, is_overdue
<1>5. scheduler_tick(k, prio, stay) = ExpireShort(k1, p)
  BY <1>4 DEF scheduler_tick
<1> HIDE DEF k1, u
<1> QED BY <1>2, <1>3, <1>5, LastTrialEnds

\* do_fork makes no trials: parent and child together have what the parent had.
LEMMA SplitConserves ==
  ASSUME NEW k, Shaped(k), NEW p \in Task, p = k.curr, p # Idle, NEW c \in Task, c # p,
         NEW prio, NEW stay, is_short(k.task[p]), ~ rt_task(k.task[p]),
         NEW j, j = SplitSlice(k, p, c, prio, stay)
  PROVE  j.task[p].remaining_trials + j.task[c].remaining_trials <= k.task[p].remaining_trials
<1> DEFINE t     == k.task[p]
           r     == t.remaining_trials
           last_ == r = 1
           slice == IF last_ THEN 0 ELSE t.time_slice \div 2
           n     == ChildShare(t.time_slice)
           s     == ChildShare(r)
           m     == Max({1, slice})
           left  == IF last_ THEN 1 ELSE r \div 2
           child == [k.task[c] EXCEPT !.time_slice = n, !.first_time_slice = TRUE,
                                      !.remaining_trials = s, !.current_trial = 1]
           own   == [t EXCEPT !.remaining_trials = left, !.time_slice = m]
           k0    == Set(k, c, child)
           k1    == Set(k0, p, own)
<1>1. Bearing(t) /\ Bearing(k.task[c]) /\ r \in Nat
  BY LivesSame DEF Bearing
<1>2. s \in Nat /\ left \in Nat /\ r \div 2 \in Nat /\ s + (r \div 2) <= r /\ (r = 1 => s = 1)
  <2> HIDE DEF r
  <2> QED BY <1>1 DEF ChildShare
<1>3. Bearing(own) /\ own.policy = t.policy /\ own.remaining_trials = left
  <2> HIDE DEF t, m, left
  <2> QED BY <1>1, <1>2 DEF Bearing
<1>4. Bearing(child) /\ child.remaining_trials = s
  <2> DEFINE u == k.task[c]
  <2> HIDE DEF n, s, u
  <2>1. Bearing(u) /\ s \in Nat
    BY <1>1, <1>2 DEF u
  <2>2. child = [u EXCEPT !.time_slice = n, !.first_time_slice = TRUE,
                          !.remaining_trials = s, !.current_trial = 1]
    BY DEF u
  <2> HIDE DEF child
  <2> QED BY <2>1, <2>2 DEF Bearing
<1>5. Shaped(k1) /\ k1.curr = p /\ k1.task[p] = own /\ k1.task[c] = child
  <2> HIDE DEF child, own
  <2>1. Shaped(k0) /\ k0.curr = p /\ k0.task[c] = child
    BY <1>4 DEF Shaped, Set
  <2> HIDE DEF k0
  <2> QED BY <2>1, <1>3 DEF Shaped, Set
<1>6. j = IF slice = 0 THEN scheduler_tick(k1, prio, stay) ELSE k1
  BY DEF SplitSlice
<1>7. ASSUME last_
      PROVE  /\ slice = 0 /\ is_short(own) /\ ~ rt_task(own)
             /\ own.remaining_trials = 1 /\ own.time_slice = 1
  <2>1. slice = 0 /\ left = 1
    BY <1>7
  <2>2. m = 1
    BY <2>1, MaxMin
  <2> HIDE DEF m, left
  <2>3. DOMAIN own = DOMAIN t
    OBVIOUS
  <2>4. is_short(own) /\ (rt_task(own) <=> rt_task(t)) /\ own.remaining_trials = 1
    BY <1>3, <2>1 DEF is_short, rt_task
  <2> QED BY <2>1, <2>2, <2>4
<1> HIDE DEF k1, own, child, slice, s, left
<1>8. SameLife(j.task[c], child) /\ Declined(j.task[p], own)
  <2>1. Ages(k1, j, p)
    BY <1>5, <1>6, TickAges, LivesSame, SameAges
  <2> QED BY <1>5, <2>1 DEF Ages
<1>9. CASE last_
  <2>1. j.task[p].remaining_trials = 0
    BY <1>5, <1>6, <1>7, <1>9, LastTickEnds
  <2> QED BY <1>2, <1>4, <1>8, <1>9, <2>1 DEF SameLife
<1>10. CASE ~ last_
  <2>1. left = r \div 2
    BY <1>10 DEF left
  <2>2. j.task[c].remaining_trials = s /\ j.task[p].remaining_trials <= r \div 2
        /\ j.task[p].remaining_trials \in Nat
    BY <1>3, <1>4, <1>8, <2>1 DEF SameLife, Declined, Bearing
  <2> HIDE DEF r
  <2>3. PICK a \in Nat, b \in Nat : a = j.task[p].remaining_trials /\ b = r \div 2
    BY <1>2, <2>2
  <2> QED BY <1>1, <1>2, <2>2, <2>3 DEF r
<1> QED BY <1>9, <1>10

-----------------------------------------------------------------------------
(* Sums over the tasks.                                                    *)

\* Induction over the natural numbers, for sets.
LEMMA NatSet ==
  ASSUME NEW S, 0 \in S, \A n \in Nat : n \in S => n + 1 \in S
  PROVE  Nat \subseteq S
<1> DEFINE T == Nat \ S
<1> SUFFICES ASSUME T # {} PROVE FALSE
  OBVIOUS
<1>1. \A x, y : x \in Nat /\ y \in Nat /\ y < x => <<y, x>> \in OpToRel(<, Nat)
  BY DEF OpToRel
<1>2. \E x \in T : \A y \in T : ~ (<<y, x>> \in OpToRel(<, Nat))
  <2>1. T \subseteq Nat
    OBVIOUS
  <2> HIDE DEF T
  <2> QED BY <2>1, NatLessThanWellFounded, WFMin
<1>3. PICK x \in T : \A y \in T : ~ (<<y, x>> \in OpToRel(<, Nat))
  BY <1>2
<1>4. x \in Nat \ {0} /\ x - 1 \in Nat /\ x - 1 < x /\ (x - 1) + 1 = x
  OBVIOUS
<1>5. x - 1 \in S
  BY <1>1, <1>3, <1>4
<1> QED BY <1>3, <1>4, <1>5

\* The sums of the values of f, set by set, in the order MapThenSumSet takes them.
Any(T) == CHOOSE x \in T : TRUE
Adds(f, u) ==
  /\ u[{}] = 0
  /\ \A T \in SUBSET Pid : T # {} => u[T] = f[Any(T)] + u[T \ {Any(T)}]

\* A set without one of its members.
LEMMA WithoutAny ==
  ASSUME NEW T \in SUBSET Pid
  PROVE  /\ Cardinality(T) \in Nat /\ (Cardinality(T) = 0 <=> T = {})
         /\ T # {} => /\ Any(T) \in T /\ T \ {Any(T)} \in SUBSET Pid
                      /\ Cardinality(T \ {Any(T)}) = Cardinality(T) - 1
<1>1. IsFiniteSet(T)
  BY PidAssumption, FS_Subset
<1>2. T # {} => Any(T) \in T
  BY DEF Any
<1>3. Cardinality(T) \in Nat /\ (Cardinality(T) = 0 <=> T = {})
  BY <1>1, FS_CardinalityType, FS_EmptySet
<1>4. ASSUME T # {}
      PROVE  Cardinality(T \ {Any(T)}) = Cardinality(T) - 1
  BY <1>1, <1>2, <1>4, FS_RemoveElement
<1>5. T \ {Any(T)} \in SUBSET Pid
  OBVIOUS
<1> QED BY <1>2, <1>3, <1>4, <1>5

\* The sum over T, from the sum over a smaller set.
More(f, u, T) == IF T = {} THEN 0 ELSE f[Any(T)] + u[T \ {Any(T)}]

\* For every function there are such sums.
LEMMA SumsExist ==
  ASSUME NEW f
  PROVE  \E u : u = [T \in SUBSET Pid |-> More(f, u, T)]
<1> DEFINE Upto(u, n) == \A T \in SUBSET Pid : Cardinality(T) <= n => u[T] = More(f, u, T)
           N == {n \in Nat : \E u : Upto(u, n)}
<1>1. 0 \in N
  <2>1. PICK u : u = [T \in SUBSET Pid |-> 0]
    OBVIOUS
  <2>2. ASSUME NEW T \in SUBSET Pid, Cardinality(T) <= 0 PROVE u[T] = More(f, u, T)
    <3>1. Cardinality(T) \in Nat /\ (Cardinality(T) = 0 <=> T = {})
      BY WithoutAny
    <3>2. T = {}
      BY <2>2, <3>1
    <3> QED BY <2>1, <3>2 DEF More
  <2> QED BY <2>2
<1>2. ASSUME NEW n \in Nat, n \in N PROVE n + 1 \in N
  <2>1. PICK u : Upto(u, n)
    BY <1>2
  <2>2. PICK v : v = [T \in SUBSET Pid |-> More(f, u, T)]
    OBVIOUS
  <2>3. ASSUME NEW T \in SUBSET Pid, Cardinality(T) <= n + 1 PROVE v[T] = More(f, v, T)
    <3>1. CASE T = {}
      BY <2>2, <3>1 DEF More
    <3>2. CASE T # {}
      <4>1. PICK U : U = T \ {Any(T)}
        OBVIOUS
      <4>2. U \in SUBSET Pid /\ Cardinality(U) <= n
        BY <2>3, <3>2, <4>1, WithoutAny
      <4>3. v[U] = u[U]
        BY <2>1, <2>2, <4>2
      <4> QED BY <2>2, <3>2, <4>1, <4>3 DEF More
    <3> QED BY <3>1, <3>2
  <2>4. Upto(v, n + 1)
    BY <2>3
  <2> QED BY <2>4
<1>3. PICK u : \A T \in SUBSET Pid : u[T] = More(f, u, T)
  <2>1. Nat \subseteq N
    <3> HIDE DEF N
    <3> QED BY <1>1, <1>2, NatSet
  <2>2. Cardinality(Pid) \in Nat
    BY PidAssumption, FS_CardinalityType
  <2>3. PICK u : Upto(u, Cardinality(Pid))
    BY <2>1, <2>2
  <2>4. \A T \in SUBSET Pid : Cardinality(T) <= Cardinality(Pid)
    BY PidAssumption, FS_Subset
  <2> QED BY <2>3, <2>4
<1>4. PICK v : v = [T \in SUBSET Pid |-> More(f, u, T)]
  OBVIOUS
<1>5. ASSUME NEW T \in SUBSET Pid PROVE v[T] = More(f, v, T)
  <2>1. CASE T = {}
    BY <1>4, <2>1 DEF More
  <2>2. CASE T # {}
    <3>1. PICK U : U = T \ {Any(T)}
      OBVIOUS
    <3>2. U \in SUBSET Pid
      BY <3>1
    <3>3. v[U] = u[U]
      BY <1>3, <1>4, <3>2
    <3> QED BY <1>4, <2>2, <3>1, <3>3 DEF More
  <2> QED BY <2>1, <2>2
<1>6. v = [T \in SUBSET Pid |-> More(f, v, T)]
  BY <1>4, <1>5
<1> QED BY <1>6

\* If two tasks together have no more than before, and no other has more, neither have all.
Over(f, g, T, x) == IF x \in T THEN g[x] - f[x] ELSE 0
Less(f, g, p, c) ==
  /\ p \in Pid /\ c \in Pid /\ p # c /\ g[p] + g[c] <= f[p] + f[c]
  /\ \A x \in Pid \ {p, c} : g[x] <= f[x]

LEMMA SumsLess ==
  ASSUME NEW f \in [Pid -> Nat], NEW g \in [Pid -> Nat], NEW u, Adds(f, u), NEW v, Adds(g, v),
         (\A x \in Pid : g[x] <= f[x]) \/ \E p, c : Less(f, g, p, c)
  PROVE  v[Pid] <= u[Pid] /\ v[Pid] \in Nat /\ u[Pid] \in Nat
<1>1. PICK p, c : /\ p # c /\ \A x \in Pid \ {p, c} : g[x] <= f[x]
                  /\ Over(f, g, Pid, p) + Over(f, g, Pid, c) <= 0
  <2>1. CASE \A x \in Pid : g[x] <= f[x]
    <3>1. PICK p, c : p = 0 /\ c = 1
      OBVIOUS
    <3>2. \A x : Over(f, g, Pid, x) \in Int /\ Over(f, g, Pid, x) <= 0
      BY <2>1 DEF Over
    <3>3. Over(f, g, Pid, p) + Over(f, g, Pid, c) <= 0
      BY <3>2
    <3> QED BY <2>1, <3>1, <3>3
  <2>2. CASE \E p, c : Less(f, g, p, c)
    <3>1. PICK p, c : Less(f, g, p, c)
      BY <2>2
    <3>2. f[p] \in Nat /\ g[p] \in Nat /\ f[c] \in Nat /\ g[c] \in Nat
      BY <3>1 DEF Less
    <3> QED BY <3>1, <3>2 DEF Less, Over
  <2> QED BY <2>1, <2>2
<1> DEFINE AtMost(T) == v[T] \in Nat /\ u[T] \in Nat
                       /\ v[T] - u[T] <= Over(f, g, T, p) + Over(f, g, T, c)
           N == {n \in Nat : \A T \in SUBSET Pid : Cardinality(T) = n => AtMost(T)}
<1>2. 0 \in N
  <2> SUFFICES ASSUME NEW T \in SUBSET Pid, Cardinality(T) = 0 PROVE AtMost(T)
    OBVIOUS
  <2>1. T = {}
    BY WithoutAny
  <2> QED BY <2>1 DEF Adds, Over
<1>3. ASSUME NEW n \in Nat, n \in N PROVE n + 1 \in N
  <2> SUFFICES ASSUME NEW T \in SUBSET Pid, Cardinality(T) = n + 1 PROVE AtMost(T)
    OBVIOUS
  <2>1. PICK x : x = Any(T)
    OBVIOUS
  <2>2. PICK U : U = T \ {x}
    OBVIOUS
  <2>3. T # {} /\ x \in T /\ x \in Pid /\ U \in SUBSET Pid /\ Cardinality(U) = n
    BY <2>1, <2>2, WithoutAny
  <2>4. AtMost(U)
    BY <1>3, <2>3
  <2>5. v[T] = g[x] + v[U] /\ u[T] = f[x] + u[U]
    BY <2>1, <2>2, <2>3 DEF Adds
  <2>6. f[x] \in Nat /\ g[x] \in Nat
    BY <2>3
  <2>7. \A y : y # x => Over(f, g, T, y) = Over(f, g, U, y)
    BY <2>2 DEF Over
  <2>8. Over(f, g, T, x) = g[x] - f[x] /\ Over(f, g, U, x) = 0
    BY <2>2, <2>3 DEF Over
  <2>9. \A y : Over(f, g, U, y) \in Int
    <3>1. \A y \in U : f[y] \in Int /\ g[y] \in Int
      BY <2>3
    <3> QED BY <3>1 DEF Over
  <2>10. v[T] \in Nat /\ u[T] \in Nat /\ v[T] - u[T] = (g[x] - f[x]) + (v[U] - u[U])
    BY <2>4, <2>5, <2>6
  <2>11. CASE x = p
    <3>1. Over(f, g, T, c) = Over(f, g, U, c) /\ Over(f, g, T, p) = g[x] - f[x]
          /\ Over(f, g, U, p) = 0
      BY <1>1, <2>7, <2>8, <2>11
    <3> QED BY <2>4, <2>5, <2>6, <2>9, <2>10, <3>1
  <2>12. CASE x = c
    <3>1. Over(f, g, T, p) = Over(f, g, U, p) /\ Over(f, g, T, c) = g[x] - f[x]
          /\ Over(f, g, U, c) = 0
      BY <1>1, <2>7, <2>8, <2>12
    <3> QED BY <2>4, <2>5, <2>6, <2>9, <2>10, <3>1
  <2>13. CASE x \notin {p, c}
    <3>1. Over(f, g, T, p) = Over(f, g, U, p) /\ Over(f, g, T, c) = Over(f, g, U, c)
      BY <2>7, <2>13
    <3>2. g[x] <= f[x]
      BY <1>1, <2>3, <2>13
    <3>3. g[x] - f[x] <= 0
      BY <2>6, <3>2
    <3> QED BY <2>4, <2>6, <2>9, <2>10, <3>1, <3>3
  <2> QED BY <2>11, <2>12, <2>13
<1>4. AtMost(Pid)
  <2>1. Nat \subseteq N
    <3> HIDE DEF N
    <3> QED BY <1>2, <1>3, NatSet
  <2>2. Cardinality(Pid) \in Nat
    BY PidAssumption, FS_CardinalityType
  <2>3. \A T \in SUBSET Pid : Cardinality(T) = Cardinality(Pid) => AtMost(T)
    <3>1. Cardinality(Pid) \in N
      <4> HIDE DEF N
      <4> QED BY <2>1, <2>2
    <3> HIDE DEF AtMost
    <3> QED BY <3>1
  <2> HIDE DEF AtMost, N
  <2> QED BY <2>3
<1>5. \A x : Over(f, g, Pid, x) \in Int
  <2>1. \A x \in Pid : f[x] \in Int /\ g[x] \in Int
    OBVIOUS
  <2> QED BY <2>1 DEF Over
<1> QED BY <1>1, <1>4, <1>5

-----------------------------------------------------------------------------
(***************************************************************************)
(* The lists of a runqueue are sequences in RunQueue and pointers in the   *)
(* kernel.  Each list operation of kernel/sched.c does to the pointers     *)
(* what its counterpart does to the sequences, also to the pointers of a   *)
(* task that is on no list, by which is_queued tells.                      *)
(***************************************************************************)

CONSTANTS Node, \* the list_heads
          QueueHead(_), OverdueHead \* those of the queues and of overdue_SHORT

Mem == INSTANCE Lists

-----------------------------------------------------------------------------
(* One list.                                                               *)

\* No list_head is met twice on the way around.
LEMMA MetOnce ==
  ASSUME NEW m \in Mem!Memory, NEW h \in Node, NEW s, Mem!Holds(m, h, s)
  PROVE  /\ Len(s) \in Nat
         /\ \A i \in 0 .. Len(s) + 1 : Mem!Nth(h, s, i) \in Node
         /\ \A i, j \in 0 .. Len(s) : Mem!Nth(h, s, i) = Mem!Nth(h, s, j) => i = j
         /\ \A i, j \in 1 .. Len(s) + 1 : Mem!Nth(h, s, i) = Mem!Nth(h, s, j) => i = j
<1>1. s \in Seq(Node) /\ Len(s) \in Nat
  BY LenProperties DEF Mem!Holds
<1>2. \A i \in 1 .. Len(s) : s[i] \in Node /\ s[i] # h
  BY <1>1 DEF Mem!Holds
<1>3. \A i, j \in 1 .. Len(s) : s[i] = s[j] => i = j
  BY DEF Mem!Holds
<1>4. \A i \in 0 .. Len(s) + 1 : Mem!Nth(h, s, i) \in Node
  BY <1>2 DEF Mem!Nth
<1>5. \A i, j \in 0 .. Len(s) : Mem!Nth(h, s, i) = Mem!Nth(h, s, j) => i = j
  BY <1>1, <1>2, <1>3 DEF Mem!Nth
<1>6. \A i, j \in 1 .. Len(s) + 1 : Mem!Nth(h, s, i) = Mem!Nth(h, s, j) => i = j
  BY <1>1, <1>2, <1>3 DEF Mem!Nth
<1> QED BY <1>1, <1>4, <1>5, <1>6

\* No pointer of the list s of h lies outside s and h.
OnlyAt(m, n, S) == \A x \in Node \ S : n.next[x] = m.next[x] /\ n.prev[x] = m.prev[x]
Ring(h, s) == {Mem!Nth(h, s, i) : i \in 0 .. Len(s)}

\* A list none of whose pointers are written stays what it is.
LEMMA Frame ==
  ASSUME NEW m, NEW n, NEW S, OnlyAt(m, n, S),
         NEW h \in Node, NEW s, Mem!Holds(m, h, s), Ring(h, s) \cap S = {}
  PROVE  Mem!Holds(n, h, s)
<1>1. s \in Seq(Node) /\ Len(s) \in Nat
  BY LenProperties DEF Mem!Holds
<1>2. ASSUME NEW i \in 0 .. Len(s) + 1
      PROVE  Mem!Nth(h, s, i) \in Node \ S
  <2>1. Mem!Nth(h, s, i) \in Node
    BY <1>1 DEF Mem!Nth
  <2>2. Mem!Nth(h, s, i) \in Ring(h, s)
    <3>1. CASE i \in 0 .. Len(s)
      BY <3>1 DEF Ring
    <3>2. CASE i = Len(s) + 1
      <4>1. Mem!Nth(h, s, i) = Mem!Nth(h, s, 0) /\ 0 \in 0 .. Len(s)
        BY <1>1, <3>2 DEF Mem!Nth
      <4> QED BY <4>1 DEF Ring
    <3> QED BY <1>1, <3>1, <3>2
  <2> QED BY <2>1, <2>2
<1>3. ASSUME NEW i \in 0 .. Len(s)
      PROVE  /\ n.next[Mem!Nth(h, s, i)] = Mem!Nth(h, s, i + 1)
             /\ n.prev[Mem!Nth(h, s, i + 1)] = Mem!Nth(h, s, i)
  <2>1. Mem!Nth(h, s, i) \in Node \ S /\ Mem!Nth(h, s, i + 1) \in Node \ S
    BY <1>1, <1>2
  <2>2. /\ m.next[Mem!Nth(h, s, i)] = Mem!Nth(h, s, i + 1)
        /\ m.prev[Mem!Nth(h, s, i + 1)] = Mem!Nth(h, s, i)
    BY DEF Mem!Holds
  <2> QED BY <2>1, <2>2 DEF OnlyAt
<1> QED BY <1>3 DEF Mem!Holds

\* t is s with e between its k-th and its next element.
Inserted(s, k, e, t) ==
  /\ t \in Seq(Node) /\ Len(t) = Len(s) + 1 /\ t[k + 1] = e
  /\ \A i \in 1 .. k : t[i] = s[i]
  /\ \A i \in k + 1 .. Len(s) : t[i + 1] = s[i]

\* __list_add puts the new element where its neighbours are, and writes no other pointers.
LEMMA Insert ==
  ASSUME NEW m \in Mem!Memory, NEW h \in Node, NEW s, Mem!Holds(m, h, s),
         NEW e \in Node, e \notin Ring(h, s), NEW k \in 0 .. Len(s),
         NEW t, Inserted(s, k, e, t),
         NEW n, n = Mem!__list_add(m, e, Mem!Nth(h, s, k), Mem!Nth(h, s, k + 1))
  PROVE  /\ n \in Mem!Memory /\ Mem!Holds(n, h, t)
         /\ OnlyAt(m, n, Ring(h, s) \cup {e})
<1>1. /\ s \in Seq(Node) /\ Len(s) \in Nat /\ t \in Seq(Node) /\ Len(t) = Len(s) + 1
      /\ k \in Nat /\ k <= Len(s)
  BY LenProperties DEF Mem!Holds, Inserted
<1> DEFINE a == Mem!Nth(h, s, k)
           b == Mem!Nth(h, s, k + 1)
<1>2. /\ \A i \in 0 .. Len(s) + 1 : Mem!Nth(h, s, i) \in Node
      /\ \A i, j \in 0 .. Len(s) : Mem!Nth(h, s, i) = Mem!Nth(h, s, j) => i = j
      /\ \A i, j \in 1 .. Len(s) + 1 : Mem!Nth(h, s, i) = Mem!Nth(h, s, j) => i = j
  BY MetOnce
<1>3. \A i \in 0 .. Len(s) + 1 : Mem!Nth(h, s, i) \in Ring(h, s)
  <2>1. Mem!Nth(h, s, Len(s) + 1) = Mem!Nth(h, s, 0) /\ 0 \in 0 .. Len(s)
    BY <1>1 DEF Mem!Nth
  <2>2. \A i \in 0 .. Len(s) + 1 : i \in 0 .. Len(s) \/ i = Len(s) + 1
    BY <1>1
  <2> QED BY <2>1, <2>2 DEF Ring
<1>4. a \in Node /\ b \in Node /\ e # a /\ e # b /\ a \in Ring(h, s) /\ b \in Ring(h, s)
  BY <1>1, <1>2, <1>3
<1>5. /\ n.next \in [Node -> Node] /\ n.prev \in [Node -> Node] /\ n \in Mem!Memory
      /\ \A x \in Node : n.next[x] = IF x = a THEN e ELSE IF x = e THEN b ELSE m.next[x]
      /\ \A x \in Node : n.prev[x] = IF x = e THEN a ELSE IF x = b THEN e ELSE m.prev[x]
  <2>1. m.next \in [Node -> Node] /\ m.prev \in [Node -> Node]
    BY DEF Mem!Memory
  <2>2. n = [next |-> [m.next EXCEPT ![e] = b, ![a] = e],
             prev |-> [m.prev EXCEPT ![b] = e, ![e] = a]]
    BY DEF Mem!__list_add
  <2> HIDE DEF a, b
  <2> QED BY <1>4, <2>1, <2>2 DEF Mem!Memory
<1>6. OnlyAt(m, n, Ring(h, s) \cup {e})
  BY <1>4, <1>5 DEF OnlyAt
<1>7. /\ \A i \in 0 .. k : Mem!Nth(h, t, i) = Mem!Nth(h, s, i)
      /\ Mem!Nth(h, t, k + 1) = e
      /\ \A i \in k + 1 .. Len(s) + 1 : Mem!Nth(h, t, i + 1) = Mem!Nth(h, s, i)
  BY <1>1 DEF Mem!Nth, Inserted
<1>8. \A i \in 0 .. Len(s) : /\ m.next[Mem!Nth(h, s, i)] = Mem!Nth(h, s, i + 1)
                             /\ m.prev[Mem!Nth(h, s, i + 1)] = Mem!Nth(h, s, i)
  BY DEF Mem!Holds
<1>9. ASSUME NEW i \in 0 .. Len(t)
      PROVE  /\ n.next[Mem!Nth(h, t, i)] = Mem!Nth(h, t, i + 1)
             /\ n.prev[Mem!Nth(h, t, i + 1)] = Mem!Nth(h, t, i)
  <2>1. CASE i \in 0 .. k - 1
    <3>1. i \in 0 .. Len(s) /\ i + 1 \in 1 .. Len(s) + 1 /\ i \in 0 .. k /\ i + 1 \in 0 .. k
          /\ k \in 0 .. Len(s) /\ k + 1 \in 1 .. Len(s) + 1 /\ i # k /\ i + 1 # k + 1
      BY <1>1, <2>1
    <3>2. Mem!Nth(h, s, i) # a /\ Mem!Nth(h, s, i + 1) # b
      BY <1>2, <3>1
    <3>3. Mem!Nth(h, s, i) # e /\ Mem!Nth(h, s, i + 1) # e
          /\ Mem!Nth(h, s, i) \in Node /\ Mem!Nth(h, s, i + 1) \in Node
      BY <1>1, <1>2, <1>3, <3>1
    <3> QED BY <1>5, <1>7, <1>8, <3>1, <3>2, <3>3
  <2>2. CASE i = k
    <3>1. Mem!Nth(h, t, i) = a /\ Mem!Nth(h, t, i + 1) = e
      BY <1>1, <1>7, <2>2
    <3> HIDE DEF a, b
    <3> QED BY <1>4, <1>5, <3>1
  <2>3. CASE i = k + 1
    <3>1. Mem!Nth(h, t, i) = e /\ Mem!Nth(h, t, i + 1) = b
      BY <1>1, <1>7, <2>3
    <3> HIDE DEF a, b
    <3> QED BY <1>4, <1>5, <3>1
  <2>4. CASE i \in k + 2 .. Len(s) + 1
    <3> DEFINE j == i - 1
    <3>1. j \in 0 .. Len(s) /\ j + 1 \in 1 .. Len(s) + 1 /\ j \in k + 1 .. Len(s) + 1
          /\ j + 1 \in k + 1 .. Len(s) + 1 /\ j # k /\ j + 1 # k + 1 /\ i = j + 1 /\ i + 1 = (j + 1) + 1
          /\ k \in 0 .. Len(s) /\ k + 1 \in 1 .. Len(s) + 1
      BY <1>1, <2>4
    <3> HIDE DEF j
    <3>2. Mem!Nth(h, s, j) # a /\ Mem!Nth(h, s, j + 1) # b
      BY <1>2, <3>1
    <3>3. Mem!Nth(h, s, j) # e /\ Mem!Nth(h, s, j + 1) # e
          /\ Mem!Nth(h, s, j) \in Node /\ Mem!Nth(h, s, j + 1) \in Node
      BY <1>1, <1>2, <1>3, <3>1
    <3>4. Mem!Nth(h, t, i) = Mem!Nth(h, s, j) /\ Mem!Nth(h, t, i + 1) = Mem!Nth(h, s, j + 1)
      BY <1>7, <3>1
    <3> QED BY <1>5, <1>8, <3>1, <3>2, <3>3, <3>4
  <2> QED BY <1>1, <2>1, <2>2, <2>3, <2>4
<1>10. /\ \A i \in 1 .. Len(t) : t[i] # h
       /\ \A i, j \in 1 .. Len(t) : t[i] = t[j] => i = j
  <2>1. \A i \in 1 .. Len(s) : s[i] # h /\ s[i] # e
    BY <1>1, <1>3 DEF Mem!Holds, Mem!Nth
  <2>2. h # e
    BY <1>1, <1>3 DEF Mem!Nth
  <2>3. \A i \in 1 .. Len(t) : \/ i \in 1 .. k /\ i \in 1 .. Len(s) /\ t[i] = s[i]
                               \/ i = k + 1 /\ t[i] = e
                               \/ i - 1 \in k + 1 .. Len(s) /\ i - 1 \in 1 .. Len(s) /\ t[i] = s[i - 1]
    <3> TAKE i \in 1 .. Len(t)
    <3>1. i \in 1 .. k \/ i = k + 1 \/ (i - 1 \in k + 1 .. Len(s) /\ i = (i - 1) + 1)
      BY <1>1
    <3> QED BY <1>1, <3>1 DEF Inserted
  <2>4. \A i, j \in 1 .. Len(s) : s[i] = s[j] => i = j
    BY DEF Mem!Holds
  <2>5. \A i \in 1 .. Len(t) : t[i] # h
    BY <2>1, <2>2, <2>3
  <2>6. ASSUME NEW i \in 1 .. Len(t), NEW j \in 1 .. Len(t), t[i] = t[j], i # k + 1, j # k + 1
        PROVE  i = j
    <3> DEFINE at(x) == IF x \in 1 .. k THEN x ELSE x - 1
    <3>1. at(i) \in 1 .. Len(s) /\ t[i] = s[at(i)]
      BY <1>1, <2>3, <2>6
    <3>2. at(j) \in 1 .. Len(s) /\ t[j] = s[at(j)]
      BY <1>1, <2>3, <2>6
    <3>3. at(i) = at(j)
      <4> HIDE DEF at
      <4> QED BY <2>4, <2>6, <3>1, <3>2
    <3> QED BY <1>1, <2>6, <3>3
  <2>7. \A i \in 1 .. Len(t) : t[i] = e => i = k + 1
    BY <2>1, <2>3
  <2>8. t[k + 1] = e
    BY DEF Inserted
  <2>9. ASSUME NEW i \in 1 .. Len(t), NEW j \in 1 .. Len(t), t[i] = t[j]
        PROVE  i = j
    BY <2>6, <2>7, <2>8, <2>9
  <2> QED BY <2>5, <2>9
<1> QED BY <1>1, <1>5, <1>6, <1>9, <1>10 DEF Mem!Holds

\* s is t with its k-th element left out.
Removed(t, k, s) ==
  /\ s \in Seq(Node) /\ Len(s) = Len(t) - 1
  /\ \A i \in 1 .. k - 1 : s[i] = t[i]
  /\ \A i \in k .. Len(s) : s[i] = t[i + 1]

\* list_del closes the list over the element, whose own pointers stay as they were.
LEMMA Delete ==
  ASSUME NEW m \in Mem!Memory, NEW h \in Node, NEW t, Mem!Holds(m, h, t),
         NEW k \in 1 .. Len(t), NEW s, Removed(t, k, s),
         NEW n, n = Mem!list_del(m, t[k])
  PROVE  /\ n \in Mem!Memory /\ Mem!Holds(n, h, s)
         /\ OnlyAt(m, n, Ring(h, s))
<1>1. /\ t \in Seq(Node) /\ Len(t) \in Nat /\ s \in Seq(Node) /\ Len(s) = Len(t) - 1
      /\ k \in Nat /\ k >= 1 /\ k <= Len(t) /\ Len(s) \in Nat
  BY LenProperties DEF Mem!Holds, Removed
<1>2. /\ \A i \in 0 .. Len(t) + 1 : Mem!Nth(h, t, i) \in Node
      /\ \A i, j \in 0 .. Len(t) : Mem!Nth(h, t, i) = Mem!Nth(h, t, j) => i = j
      /\ \A i, j \in 1 .. Len(t) + 1 : Mem!Nth(h, t, i) = Mem!Nth(h, t, j) => i = j
  BY MetOnce
<1>3. \A i \in 0 .. Len(t) : /\ m.next[Mem!Nth(h, t, i)] = Mem!Nth(h, t, i + 1)
                             /\ m.prev[Mem!Nth(h, t, i + 1)] = Mem!Nth(h, t, i)
  BY DEF Mem!Holds
<1>4. /\ \A i \in 0 .. k - 1 : Mem!Nth(h, s, i) = Mem!Nth(h, t, i)
      /\ \A i \in k .. Len(s) + 1 : Mem!Nth(h, s, i) = Mem!Nth(h, t, i + 1)
  BY <1>1 DEF Mem!Nth, Removed
<1>5. \A i \in 0 .. Len(s) + 1 : Mem!Nth(h, s, i) \in Ring(h, s)
  <2>1. Mem!Nth(h, s, Len(s) + 1) = Mem!Nth(h, s, 0) /\ 0 \in 0 .. Len(s)
    BY <1>1 DEF Mem!Nth
  <2>2. \A i \in 0 .. Len(s) + 1 : i \in 0 .. Len(s) \/ i = Len(s) + 1
    BY <1>1
  <2> QED BY <2>1, <2>2 DEF Ring
<1>6. PICK a, b \in Node : /\ a = Mem!Nth(h, t, k - 1) /\ b = Mem!Nth(h, t, k + 1)
                           /\ a = Mem!Nth(h, s, k - 1) /\ b = Mem!Nth(h, s, k)
                           /\ a = m.prev[t[k]] /\ b = m.next[t[k]]
  <2>1. k - 1 \in 0 .. Len(t) /\ k \in 0 .. Len(t) /\ k + 1 \in 0 .. Len(t) + 1
        /\ k - 1 \in 0 .. k - 1 /\ k \in k .. Len(s) + 1 /\ (k - 1) + 1 = k
    BY <1>1
  <2>2. Mem!Nth(h, t, k) = t[k]
    BY DEF Mem!Nth
  <2>3. m.prev[t[k]] = Mem!Nth(h, t, k - 1) /\ m.next[t[k]] = Mem!Nth(h, t, k + 1)
    BY <1>3, <2>1, <2>2
  <2>4. Mem!Nth(h, s, k - 1) = Mem!Nth(h, t, k - 1) /\ Mem!Nth(h, s, k) = Mem!Nth(h, t, k + 1)
    BY <1>4, <2>1
  <2>5. Mem!Nth(h, t, k - 1) \in Node /\ Mem!Nth(h, t, k + 1) \in Node
    BY <1>1, <1>2, <2>1
  <2> QED BY <2>3, <2>4, <2>5
<1>7. /\ n.next \in [Node -> Node] /\ n.prev \in [Node -> Node] /\ n \in Mem!Memory
      /\ \A x \in Node : n.next[x] = IF x = a THEN b ELSE m.next[x]
      /\ \A x \in Node : n.prev[x] = IF x = b THEN a ELSE m.prev[x]
  <2>1. m.next \in [Node -> Node] /\ m.prev \in [Node -> Node]
    BY DEF Mem!Memory
  <2>2. n = [next |-> [m.next EXCEPT ![a] = b], prev |-> [m.prev EXCEPT ![b] = a]]
    BY <1>6 DEF Mem!list_del, Mem!__list_del
  <2> QED BY <1>6, <2>1, <2>2 DEF Mem!Memory
<1>8. OnlyAt(m, n, Ring(h, s))
  <2>1. k - 1 \in 0 .. Len(s) + 1 /\ k \in 0 .. Len(s) + 1
    BY <1>1
  <2>2. a \in Ring(h, s) /\ b \in Ring(h, s)
    BY <1>5, <1>6, <2>1
  <2> QED BY <1>7, <2>2 DEF OnlyAt
<1>9. ASSUME NEW i \in 0 .. Len(s)
      PROVE  /\ n.next[Mem!Nth(h, s, i)] = Mem!Nth(h, s, i + 1)
             /\ n.prev[Mem!Nth(h, s, i + 1)] = Mem!Nth(h, s, i)
  <2>1. CASE i \in 0 .. k - 2
    <3>1. /\ i \in 0 .. Len(t) /\ i + 1 \in 1 .. Len(t) + 1 /\ i \in 0 .. k - 1 /\ i + 1 \in 0 .. k - 1
          /\ k - 1 \in 0 .. Len(t) /\ k + 1 \in 1 .. Len(t) + 1 /\ i # k - 1 /\ i + 1 # k + 1
          /\ i \in 0 .. Len(t) + 1 /\ i + 1 \in 0 .. Len(t) + 1
      BY <1>1, <2>1
    <3>2. Mem!Nth(h, t, i) # a /\ Mem!Nth(h, t, i + 1) # b
      BY <1>2, <1>6, <3>1
    <3>3. Mem!Nth(h, t, i) \in Node /\ Mem!Nth(h, t, i + 1) \in Node
      BY <1>2, <3>1
    <3> QED BY <1>3, <1>4, <1>7, <3>1, <3>2, <3>3
  <2>2. CASE i = k - 1
    <3>1. i + 1 = k /\ i = k - 1
      BY <1>1, <2>2
    <3>2. Mem!Nth(h, s, i) = a /\ Mem!Nth(h, s, i + 1) = b
      BY ONLY <1>6, <3>1
    <3> QED BY <1>6, <1>7, <3>2
  <2>3. CASE i \in k .. Len(s)
    <3> DEFINE j == i + 1
    <3>1. /\ j \in 0 .. Len(t) /\ j + 1 \in 1 .. Len(t) + 1 /\ i \in k .. Len(s) + 1
          /\ i + 1 \in k .. Len(s) + 1 /\ j # k - 1 /\ j + 1 # k + 1
          /\ k - 1 \in 0 .. Len(t) /\ k + 1 \in 1 .. Len(t) + 1
          /\ j \in 0 .. Len(t) + 1 /\ j + 1 \in 0 .. Len(t) + 1
      BY <1>1, <2>3
    <3>4. Mem!Nth(h, s, i) = Mem!Nth(h, t, j) /\ Mem!Nth(h, s, i + 1) = Mem!Nth(h, t, j + 1)
      BY <1>4, <3>1
    <3> HIDE DEF j
    <3>2. Mem!Nth(h, t, j) # a /\ Mem!Nth(h, t, j + 1) # b
      BY <1>2, <1>6, <3>1
    <3>3. Mem!Nth(h, t, j) \in Node /\ Mem!Nth(h, t, j + 1) \in Node
      BY <1>2, <3>1
    <3> QED BY <1>3, <1>7, <3>1, <3>2, <3>3, <3>4
  <2> QED BY <1>1, <2>1, <2>2, <2>3
<1>10. /\ \A i \in 1 .. Len(s) : s[i] # h
       /\ \A i, j \in 1 .. Len(s) : s[i] = s[j] => i = j
  <2>1. \A i, j \in 1 .. Len(t) : t[i] = t[j] => i = j
    BY DEF Mem!Holds
  <2>2. \A i \in 1 .. Len(t) : t[i] # h
    BY DEF Mem!Holds
  <2> DEFINE at(x) == IF x \in 1 .. k - 1 THEN x ELSE x + 1
  <2>3. \A i \in 1 .. Len(s) : at(i) \in 1 .. Len(t) /\ s[i] = t[at(i)]
    BY <1>1 DEF Removed
  <2>4. \A i, j \in 1 .. Len(s) : at(i) = at(j) => i = j
    BY <1>1
  <2> HIDE DEF at
  <2> QED BY <2>1, <2>2, <2>3, <2>4
<1> QED BY <1>1, <1>7, <1>8, <1>9, <1>10 DEF Mem!Holds

\* An element of a list does not point at itself, so is_queued says yes of it, and a
\* head does exactly when its list is empty.
LEMMA Empty ==
  ASSUME NEW m \in Mem!Memory, NEW h \in Node, NEW s, Mem!Holds(m, h, s)
  PROVE  /\ Mem!list_empty(m, h) <=> s = <<>>
         /\ \A i \in 1 .. Len(s) : ~ Mem!list_empty(m, s[i])
<1>1. s \in Seq(Node) /\ Len(s) \in Nat
  BY LenProperties DEF Mem!Holds
<1>2. \A i \in 0 .. Len(s) : m.next[Mem!Nth(h, s, i)] = Mem!Nth(h, s, i + 1)
  BY DEF Mem!Holds
<1>3. /\ \A i \in 1 .. Len(s) : s[i] # h
      /\ \A i, j \in 1 .. Len(s) : s[i] = s[j] => i = j
  BY DEF Mem!Holds
<1>4. m.next[h] = IF Len(s) = 0 THEN h ELSE s[1]
  <2>1. 0 \in 0 .. Len(s)
    BY <1>1
  <2> QED BY <1>1, <1>2, <2>1 DEF Mem!Nth
<1>5. s = <<>> <=> Len(s) = 0
  BY <1>1, EmptySeq
<1>6. ASSUME NEW i \in 1 .. Len(s)
      PROVE  m.next[s[i]] # s[i]
  <2>1. i \in 0 .. Len(s) /\ Mem!Nth(h, s, i) = s[i]
    BY <1>1 DEF Mem!Nth
  <2>2. m.next[s[i]] = IF i + 1 \in 1 .. Len(s) THEN s[i + 1] ELSE h
    BY <1>2, <2>1 DEF Mem!Nth
  <2> QED BY <1>1, <1>3, <2>2
<1> QED BY <1>1, <1>3, <1>4, <1>5, <1>6 DEF Mem!list_empty

-----------------------------------------------------------------------------
(* What the sequences of RunQueue are for the pointers.                    *)

\* list_add_tail inserts before the head, which comes after the last element.
LEMMA AppendInserts ==
  ASSUME NEW s \in Seq(Node), NEW e \in Node
  PROVE  Inserted(s, Len(s), e, Append(s, e))
<1>1. /\ Append(s, e) \in Seq(Node) /\ Len(s) \in Nat /\ Len(Append(s, e)) = Len(s) + 1
      /\ \A i \in 1 .. Len(s) : Append(s, e)[i] = s[i]
      /\ Append(s, e)[Len(s) + 1] = e
  BY AppendProperties
<1> QED BY <1>1 DEF Inserted

\* list_add inserts after the head, which comes before the first element.
LEMMA PushInserts ==
  ASSUME NEW s \in Seq(Node), NEW e \in Node
  PROVE  Inserted(s, 0, e, <<e>> \o s)
<1>1. <<e>> \in Seq(Node) /\ Len(<<e>>) = 1 /\ <<e>>[1] = e
  OBVIOUS
<1>2. /\ <<e>> \o s \in Seq(Node) /\ Len(s) \in Nat /\ Len(<<e>> \o s) = Len(s) + 1
      /\ (<<e>> \o s)[1] = e
      /\ \A i \in 1 .. Len(s) : (<<e>> \o s)[i + 1] = s[i]
  BY <1>1, ConcatProperties, LenProperties
<1> QED BY <1>2 DEF Inserted

\* list_del removes the one element there is of that name.
LEMMA WithoutRemoves ==
  ASSUME NEW s \in Seq(Pid), NEW p \in Pid, NoDuplicates(s), Pid \subseteq Node,
         NEW k \in 1 .. Len(s), s[k] = p
  PROVE  Removed(s, k, Without(s, p))
<1>1. \A i \in 1 .. Len(s) : s[i] = p => i = k
  BY DEF NoDuplicates
<1>2. Len(s) \in Nat /\ Len(s) - 1 \in Nat /\ s \in [1 .. Len(s) -> Pid]
  BY LenProperties
<1>3. k = CHOOSE i \in 1 .. Len(s) : s[i] = p
  BY <1>1
<1>4. PICK w : w = [j \in 1 .. Len(s) - 1 |-> IF j < k THEN s[j] ELSE s[j + 1]]
  OBVIOUS
<1>5. Without(s, p) = w
  BY <1>3, <1>4 DEF Without
<1>6. w \in [1 .. Len(s) - 1 -> Node]
  BY <1>2, <1>4
<1>7. w \in Seq(Node) /\ Len(w) = Len(s) - 1
  <2>1. PICK z \in Nat : z = Len(s) - 1
    BY <1>2
  <2>2. w \in [1 .. z -> Node]
    BY <1>6, <2>1
  <2>3. w \in Seq(Node) /\ Len(w) = z
    BY ONLY <2>2, z \in Nat
  <2> QED BY <2>1, <2>3
<1> QED BY <1>2, <1>4, <1>5, <1>7 DEF Removed

\* list_del of a task that is elsewhere changes nothing.
LEMMA WithoutNone ==
  ASSUME NEW s \in Seq(Pid), NEW p, p \notin Elements(s)
  PROVE  Without(s, p) = s
BY DEF Without, Elements

-----------------------------------------------------------------------------
(* All lists of a runqueue.                                                *)

\* The heads are list_heads of their own, in the prio_arrays and in the runqueue, and no
\* task's run_list.
HeadsApart ==
  /\ Pid \subseteq Node
  /\ OverdueHead \in Node \ Pid
  /\ \A h \in ArrayId \X Prio : QueueHead(h) \in Node \ (Pid \cup {OverdueHead})
  /\ \A g, h \in ArrayId \X Prio : QueueHead(g) = QueueHead(h) => g = h

Heads == {QueueHead(h) : h \in ArrayId \X Prio} \cup {OverdueHead}

\* The lists on, one for every head, as the pointers m have them.
Threads(m, on) ==
  /\ m \in Mem!Memory
  /\ \A x \in Heads : Mem!Holds(m, x, on[x])

\* The lists on with t for that of x.
Instead(on, x, t) == [on EXCEPT ![x] = t]

\* No task is on two lists, or twice on one.
OnOne(on) ==
  /\ on \in [Heads -> Seq(Pid)]
  /\ \A x \in Heads : NoDuplicates(on[x])
  /\ \A x, y \in Heads : x # y => Elements(on[x]) \cap Elements(on[y]) = {}

\* What is met around a list is its head and its elements.
LEMMA RingOf ==
  ASSUME NEW h, NEW s \in Seq(Pid)
  PROVE  Ring(h, s) = {h} \cup Elements(s)
<1>1. Len(s) \in Nat
  BY LenProperties
<1>2. Ring(h, s) \subseteq {h} \cup Elements(s)
  BY <1>1 DEF Ring, Mem!Nth, Elements
<1>3. h \in Ring(h, s)
  <2>1. 0 \in 0 .. Len(s) /\ Mem!Nth(h, s, 0) = h
    BY <1>1 DEF Mem!Nth
  <2> QED BY <2>1 DEF Ring
<1>4. ASSUME NEW i \in 1 .. Len(s)
      PROVE  s[i] \in Ring(h, s)
  <2>1. i \in 0 .. Len(s) /\ Mem!Nth(h, s, i) = s[i]
    BY <1>1 DEF Mem!Nth
  <2> QED BY <2>1 DEF Ring
<1> QED BY <1>2, <1>3, <1>4 DEF Elements

\* Whether a task's run_list points at itself does not change when it is written only
\* while the task is on a list, and stays on it.
LEMMA SameEmpty ==
  ASSUME HeadsApart, NEW m, NEW n, NEW on, NEW to, Threads(m, on), Threads(n, to),
         NEW S, OnlyAt(m, n, S), NEW p \in Pid,
         on \in [Heads -> Seq(Pid)], to \in [Heads -> Seq(Pid)],
         p \in S => \E x \in Heads : p \in Elements(on[x]) /\ p \in Elements(to[x])
  PROVE  Mem!list_empty(n, p) <=> Mem!list_empty(m, p)
<1>1. CASE p \notin S
  BY <1>1 DEF OnlyAt, HeadsApart, Mem!list_empty
<1>2. CASE p \in S
  <2>1. PICK x \in Heads : p \in Elements(on[x]) /\ p \in Elements(to[x])
    BY <1>2
  <2>2. x \in Node /\ m \in Mem!Memory /\ n \in Mem!Memory
        /\ Mem!Holds(m, x, on[x]) /\ Mem!Holds(n, x, to[x])
    BY <2>1 DEF Threads, Heads, HeadsApart
  <2>3. ~ Mem!list_empty(m, p)
    <3>1. \A i \in 1 .. Len(on[x]) : ~ Mem!list_empty(m, on[x][i])
      BY <2>2, Empty
    <3> QED BY <2>1, <3>1 DEF Elements
  <2>4. ~ Mem!list_empty(n, p)
    <3>1. \A i \in 1 .. Len(to[x]) : ~ Mem!list_empty(n, to[x][i])
      BY <2>2, Empty
    <3> QED BY <2>1, <3>1 DEF Elements
  <2> QED BY <2>3, <2>4
<1> QED BY <1>1, <1>2

\* A task that is on no list, put on one.
LEMMA ThreadIn ==
  ASSUME HeadsApart, NEW m, NEW on, Threads(m, on), OnOne(on),
         NEW x \in Heads, NEW p \in Pid, \A y \in Heads : p \notin Elements(on[y]),
         NEW k \in 0 .. Len(on[x]), NEW t \in Seq(Pid), Inserted(on[x], k, p, t),
         Elements(t) = Elements(on[x]) \cup {p},
         NEW n, n = Mem!__list_add(m, p, Mem!Nth(x, on[x], k), Mem!Nth(x, on[x], k + 1)),
         NEW to, to = Instead(on, x, t)
  PROVE  /\ Threads(n, to)
         /\ \A q \in Pid \ {p} : Mem!list_empty(n, q) <=> Mem!list_empty(m, q)
         /\ ~ Mem!list_empty(n, p)
<1>1. /\ m \in Mem!Memory /\ p \in Node /\ p \notin Heads /\ Heads \subseteq Node
      /\ Heads \cap Pid = {}
      /\ \A y \in Heads : Mem!Holds(m, y, on[y]) /\ on[y] \in Seq(Pid)
  BY DEF Threads, OnOne, Heads, HeadsApart
<1>2. \A y \in Heads : Ring(y, on[y]) = {y} \cup Elements(on[y])
  BY <1>1, RingOf
<1>3. p \notin Ring(x, on[x])
  BY <1>1, <1>2
<1>4. /\ n \in Mem!Memory /\ Mem!Holds(n, x, t)
      /\ OnlyAt(m, n, Ring(x, on[x]) \cup {p})
  BY <1>1, <1>3, Insert
<1>5. /\ to \in [Heads -> Seq(Pid)] /\ to[x] = t
      /\ \A y \in Heads \ {x} : to[y] = on[y]
  BY DEF OnOne, Instead
<1>6. ASSUME NEW y \in Heads \ {x}
      PROVE  Mem!Holds(n, y, on[y])
  <2>1. Elements(on[y]) \cap Elements(on[x]) = {} /\ p \notin Elements(on[y])
        /\ Elements(on[x]) \subseteq Pid /\ Elements(on[y]) \subseteq Pid
    BY <1>1, Ends DEF OnOne
  <2>2. y \notin Pid /\ x \notin Pid /\ y # x /\ y # p
    BY <1>1
  <2>3. Ring(y, on[y]) \cap (Ring(x, on[x]) \cup {p}) = {}
    <3>1. Ring(y, on[y]) = {y} \cup Elements(on[y]) /\ Ring(x, on[x]) = {x} \cup Elements(on[x])
      BY <1>2
    <3> QED BY ONLY <2>1, <2>2, <3>1, Zenon
  <2> QED BY <1>1, <1>4, <2>3, Frame
<1>7. Threads(n, to)
  BY <1>4, <1>5, <1>6 DEF Threads
<1>8. ASSUME NEW q \in Pid \ {p}
      PROVE  Mem!list_empty(n, q) <=> Mem!list_empty(m, q)
  <2>1. q \in Ring(x, on[x]) \cup {p} => q \in Elements(on[x]) /\ q \in Elements(to[x])
    BY <1>1, <1>2, <1>5
  <2>2. on \in [Heads -> Seq(Pid)]
    BY DEF OnOne
  <2>3. q \in Pid /\ (q \in Ring(x, on[x]) \cup {p} =>
                        \E y \in Heads : q \in Elements(on[y]) /\ q \in Elements(to[y]))
    BY <2>1
  <2>4. PICK S : S = Ring(x, on[x]) \cup {p}
    OBVIOUS
  <2>5. OnlyAt(m, n, S) /\ (q \in S => \E y \in Heads : q \in Elements(on[y]) /\ q \in Elements(to[y]))
    BY <1>4, <2>3, <2>4
  <2>6. q \in Pid /\ to \in [Heads -> Seq(Pid)]
    BY <1>5
  <2> QED BY <1>7, <2>2, <2>5, <2>6, SameEmpty
<1>9. ~ Mem!list_empty(n, p)
  <2>1. \A i \in 1 .. Len(t) : ~ Mem!list_empty(n, t[i])
    BY <1>1, <1>4, Empty
  <2>2. p \in Elements(t)
    OBVIOUS
  <2> QED BY <2>1, <2>2 DEF Elements
<1> QED BY <1>7, <1>8, <1>9

\* A task taken off the list it is on; is_queued still says yes of it.
LEMMA ThreadOut ==
  ASSUME HeadsApart, NEW m, NEW on, Threads(m, on), OnOne(on),
         NEW x \in Heads, NEW p \in Pid, p \in Elements(on[x]),
         NEW n, n = Mem!list_del(m, p),
         NEW to, to = Instead(on, x, Without(on[x], p))
  PROVE  /\ Threads(n, to)
         /\ \A q \in Pid : Mem!list_empty(n, q) <=> Mem!list_empty(m, q)
<1>1. /\ m \in Mem!Memory /\ p \in Node /\ p \notin Heads /\ Heads \subseteq Node
      /\ Heads \cap Pid = {} /\ Pid \subseteq Node
      /\ \A y \in Heads : Mem!Holds(m, y, on[y]) /\ on[y] \in Seq(Pid) /\ NoDuplicates(on[y])
  BY DEF Threads, OnOne, Heads, HeadsApart
<1>2. \A y \in Heads : Ring(y, on[y]) = {y} \cup Elements(on[y])
  BY <1>1, RingOf
<1>3. PICK w \in Seq(Pid) : /\ w = Without(on[x], p) /\ Elements(w) = Elements(on[x]) \ {p}
  BY <1>1, WithoutIt
<1>4. PICK k \in 1 .. Len(on[x]) : on[x][k] = p
  BY DEF Elements
<1>5. Removed(on[x], k, w)
  BY <1>1, <1>3, <1>4, WithoutRemoves
<1>6. /\ n \in Mem!Memory /\ Mem!Holds(n, x, w)
      /\ OnlyAt(m, n, Ring(x, w))
  BY <1>1, <1>4, <1>5, Delete
<1>7. Ring(x, w) = {x} \cup Elements(w)
  BY <1>3, RingOf
<1>8. /\ to \in [Heads -> Seq(Pid)] /\ to[x] = w
      /\ \A y \in Heads \ {x} : to[y] = on[y]
  BY <1>3 DEF OnOne, Instead
<1>9. ASSUME NEW y \in Heads \ {x}
      PROVE  Mem!Holds(n, y, on[y])
  <2>1. Elements(on[y]) \cap Elements(on[x]) = {}
        /\ Elements(on[x]) \subseteq Pid /\ Elements(on[y]) \subseteq Pid
    BY <1>1, Ends DEF OnOne
  <2>2. y \notin Pid /\ x \notin Pid /\ y # x
    BY <1>1
  <2>3. Ring(y, on[y]) \cap Ring(x, w) = {}
    <3>1. Ring(y, on[y]) = {y} \cup Elements(on[y]) /\ Ring(x, w) = {x} \cup (Elements(on[x]) \ {p})
      BY <1>2, <1>3, <1>7
    <3> QED BY ONLY <2>1, <2>2, <3>1, Zenon
  <2> QED BY <1>1, <1>6, <2>3, Frame
<1>10. Threads(n, to)
  BY <1>6, <1>8, <1>9 DEF Threads
<1>11. ASSUME NEW q \in Pid
       PROVE  Mem!list_empty(n, q) <=> Mem!list_empty(m, q)
  <2>1. q \in Ring(x, w) => q \in Elements(on[x]) /\ q \in Elements(to[x])
    BY <1>1, <1>3, <1>7, <1>8
  <2>2. on \in [Heads -> Seq(Pid)]
    BY DEF OnOne
  <2>3. q \in Ring(x, w) => \E y \in Heads : q \in Elements(on[y]) /\ q \in Elements(to[y])
    BY <2>1
  <2>4. OnlyAt(m, n, Ring(x, w)) /\ to \in [Heads -> Seq(Pid)]
    BY <1>6, <1>8
  <2> QED BY <1>10, <2>2, <2>3, <2>4, SameEmpty
<1> QED BY <1>10, <1>11

-----------------------------------------------------------------------------
(* The runqueue.                                                           *)

ListsOf(k) ==
  [x \in Heads |-> IF x = OverdueHead THEN k.overdue
                   ELSE k.queue[CHOOSE h \in ArrayId \X Prio : QueueHead(h) = x]]

\* The pointers m are those of the runqueue k, is_queued's included.
Represents(m, k) ==
  /\ Threads(m, ListsOf(k))
  /\ \A p \in Pid : k.task[p].queued <=> ~ Mem!list_empty(m, p)

LEMMA ListsAre ==
  ASSUME HeadsApart, NEW k \in Kernel
  PROVE  /\ ListsOf(k) \in [Heads -> Seq(Pid)]
         /\ OverdueHead \in Heads /\ ListsOf(k)[OverdueHead] = k.overdue
         /\ \A h \in ArrayId \X Prio : /\ QueueHead(h) \in Heads \ {OverdueHead}
                                       /\ ListsOf(k)[QueueHead(h)] = k.queue[h]
<1>1. k.queue \in [ArrayId \X Prio -> Seq(Pid)] /\ k.overdue \in Seq(Pid)
  BY DEF Kernel
<1>2. OverdueHead \in Heads /\ ListsOf(k)[OverdueHead] = k.overdue
  BY DEF Heads, ListsOf
<1>3. ASSUME NEW h \in ArrayId \X Prio
      PROVE  QueueHead(h) \in Heads \ {OverdueHead} /\ ListsOf(k)[QueueHead(h)] = k.queue[h]
  <2>1. QueueHead(h) \in Heads /\ QueueHead(h) # OverdueHead
    BY DEF Heads, HeadsApart
  <2>2. h = CHOOSE g \in ArrayId \X Prio : QueueHead(g) = QueueHead(h)
    BY DEF HeadsApart
  <2> QED BY <2>1, <2>2 DEF ListsOf
<1>4. ASSUME NEW x \in Heads
      PROVE  ListsOf(k)[x] \in Seq(Pid)
  <2>1. x = OverdueHead \/ \E h \in ArrayId \X Prio : x = QueueHead(h)
    BY DEF Heads
  <2> QED BY <1>1, <1>2, <1>3, <2>1
<1>5. PICK f : f = ListsOf(k)
  OBVIOUS
<1>6. f = [x \in Heads |-> f[x]]
  BY <1>5 DEF ListsOf
<1> QED BY <1>2, <1>3, <1>4, <1>5, <1>6

\* One changed queue of the runqueue is one changed list, and so is overdue_SHORT.
LEMMA QueueChanged ==
  ASSUME HeadsApart, NEW k \in Kernel, NEW j \in Kernel, NEW h \in ArrayId \X Prio,
         j.overdue = k.overdue, \A i \in ArrayId \X Prio : i # h => j.queue[i] = k.queue[i]
  PROVE  ListsOf(j) = Instead(ListsOf(k), QueueHead(h), j.queue[h])
<1>1. PICK f, g \in [Heads -> Seq(Pid)] : f = ListsOf(k) /\ g = ListsOf(j)
  BY ListsAre
<1>2. /\ OverdueHead \in Heads /\ f[OverdueHead] = k.overdue /\ g[OverdueHead] = j.overdue
      /\ \A i \in ArrayId \X Prio : /\ QueueHead(i) \in Heads \ {OverdueHead}
                                    /\ f[QueueHead(i)] = k.queue[i]
                                    /\ g[QueueHead(i)] = j.queue[i]
  BY <1>1, ListsAre
<1>3. ASSUME NEW x \in Heads
      PROVE  g[x] = IF x = QueueHead(h) THEN j.queue[h] ELSE f[x]
  <2>1. CASE x = OverdueHead
    <3>1. x # QueueHead(h)
      BY <1>2, <2>1
    <3> QED BY <1>2, <2>1, <3>1
  <2>2. CASE x # OverdueHead
    <3>1. PICK i \in ArrayId \X Prio : x = QueueHead(i)
      BY <2>2 DEF Heads
    <3>2. g[x] = j.queue[i] /\ f[x] = k.queue[i]
      BY <1>2, <3>1
    <3>3. x = QueueHead(h) <=> i = h
      BY <3>1 DEF HeadsApart
    <3> QED BY <3>2, <3>3
  <2> QED BY <2>1, <2>2
<1> QED BY <1>1, <1>2, <1>3 DEF Instead

LEMMA OverdueChanged ==
  ASSUME HeadsApart, NEW k \in Kernel, NEW j \in Kernel, j.queue = k.queue
  PROVE  ListsOf(j) = Instead(ListsOf(k), OverdueHead, j.overdue)
<1>1. PICK f, g \in [Heads -> Seq(Pid)] : f = ListsOf(k) /\ g = ListsOf(j)
  BY ListsAre
<1>2. /\ OverdueHead \in Heads /\ f[OverdueHead] = k.overdue /\ g[OverdueHead] = j.overdue
      /\ \A i \in ArrayId \X Prio : f[QueueHead(i)] = k.queue[i] /\ g[QueueHead(i)] = j.queue[i]
  BY <1>1, ListsAre
<1>3. \A x \in Heads : x = OverdueHead \/ \E i \in ArrayId \X Prio : x = QueueHead(i)
  BY DEF Heads
<1>4. \A x \in Heads : g[x] = IF x = OverdueHead THEN j.overdue ELSE f[x]
  BY <1>2, <1>3
<1> QED BY <1>1, <1>2, <1>4 DEF Instead

\* In a well-formed runqueue every list has its own tasks.
LEMMA ListsOnOne ==
  ASSUME HeadsApart, NEW k, NEW S, NEW n, Good(k, S, n)
  PROVE  OnOne(ListsOf(k))
<1>1. k \in Kernel /\ Placed(k, S) /\ \A p \in Pid \ S : Fits(k.task[p], k.active)
  BY DEF Good, Typed
<1>2. PICK f \in [Heads -> Seq(Pid)] :
        /\ f = ListsOf(k) /\ f[OverdueHead] = k.overdue
        /\ \A h \in ArrayId \X Prio : f[QueueHead(h)] = k.queue[h]
  BY <1>1, ListsAre
<1>3. \A x \in Heads : x = OverdueHead \/ \E h \in ArrayId \X Prio : x = QueueHead(h)
  BY DEF Heads
<1>4. \A x \in Heads : NoDuplicates(f[x])
  BY <1>1, <1>2, <1>3 DEF Placed
<1>5. \A p \in Pid : p \in Elements(k.overdue) =>
         \A h \in ArrayId \X Prio : p \notin Elements(k.queue[h])
  <2> SUFFICES ASSUME NEW p \in Pid, p \in Elements(k.overdue), NEW h \in ArrayId \X Prio,
                      p \in Elements(k.queue[h])
               PROVE  FALSE
    OBVIOUS
  <2>1. p \notin S /\ is_overdue(k.task[p]) /\ h = Slot(k.task[p])
    BY <1>1 DEF Placed
  <2>2. k.task[p].array \in ArrayId
    BY <2>1 DEF Slot
  <2> QED BY <1>1, <2>1, <2>2 DEF Fits, ArrayId, NULL
<1>6. \A p \in Pid : \A g, h \in ArrayId \X Prio :
         p \in Elements(k.queue[g]) /\ p \in Elements(k.queue[h]) => g = h
  BY <1>1 DEF Placed
<1>7. \A x \in Heads : Elements(f[x]) \subseteq Pid
  BY <1>2, Ends
<1>8. ASSUME NEW x \in Heads, NEW y \in Heads, x # y, NEW p \in Elements(f[x]) \cap Elements(f[y])
      PROVE  FALSE
  <2>1. p \in Pid
    BY <1>7
  <2>2. CASE x = OverdueHead
    <3>1. PICK h \in ArrayId \X Prio : y = QueueHead(h)
      BY <1>3, <1>8, <2>2
    <3> QED BY <1>2, <1>5, <2>1, <2>2, <3>1
  <2>3. CASE y = OverdueHead
    <3>1. PICK h \in ArrayId \X Prio : x = QueueHead(h)
      BY <1>3, <1>8, <2>3
    <3> QED BY <1>2, <1>5, <2>1, <2>3, <3>1
  <2>4. CASE x # OverdueHead /\ y # OverdueHead
    <3>1. PICK g \in ArrayId \X Prio : x = QueueHead(g)
      BY <1>3, <2>4
    <3>2. PICK h \in ArrayId \X Prio : y = QueueHead(h)
      BY <1>3, <2>4
    <3> QED BY <1>2, <1>6, <1>8, <2>1, <3>1, <3>2
  <2> QED BY <2>2, <2>3, <2>4
<1> QED BY <1>2, <1>4, <1>8 DEF OnOne

\* A task that Placed keeps off the lists is on none.
LEMMA OffAll ==
  ASSUME HeadsApart, NEW k, NEW p \in Pid, NEW n, Good(k, {p}, n)
  PROVE  \A x \in Heads : p \notin Elements(ListsOf(k)[x])
<1>1. k \in Kernel /\ Placed(k, {p})
  BY DEF Good, Typed
<1>2. \A x \in Heads : x = OverdueHead \/ \E h \in ArrayId \X Prio : x = QueueHead(h)
  BY DEF Heads
<1>3. /\ ListsOf(k)[OverdueHead] = k.overdue
      /\ \A h \in ArrayId \X Prio : ListsOf(k)[QueueHead(h)] = k.queue[h]
  BY <1>1, ListsAre
<1> QED BY <1>1, <1>2, <1>3 DEF Placed

\* RunQueue's list_del is the one of list.h.
LEMMA Unlinked ==
  ASSUME HeadsApart, NEW k, NEW n \in Int, Good(k, {}, n), NEW m, Represents(m, k),
         NEW p \in Pid, Enqueued(k.task[p]), NEW j, j = list_del(k, p)
  PROVE  Represents(Mem!list_del(m, p), j)
<1>1. /\ k \in Kernel /\ Placed(k, {}) /\ Fits(k.task[p], k.active) /\ Proper(k.task[p])
  BY DEF Good, Typed
<1>2. j \in Kernel /\ j.task = k.task
  BY ListDel
<1>3. /\ \A h \in ArrayId \X Prio : /\ j.queue[h] = Without(k.queue[h], p)
                                    /\ k.queue[h] \in Seq(Pid)
      /\ j.overdue = Without(k.overdue, p) /\ k.overdue \in Seq(Pid)
  BY <1>1 DEF list_del, Kernel
<1>4. PICK x \in Heads : /\ p \in Elements(ListsOf(k)[x])
                         /\ ListsOf(j) = Instead(ListsOf(k), x, Without(ListsOf(k)[x], p))
  <2>1. CASE is_overdue(k.task[p])
    <3>1. p \in Elements(k.overdue)
      BY <1>1, <2>1 DEF Placed, Enqueued
    <3>2. \A h \in ArrayId \X Prio : p \notin Elements(k.queue[h])
      BY <1>1, <2>1 DEF Placed, Fits, Slot, ArrayId, NULL
    <3>3. \A h \in ArrayId \X Prio : j.queue[h] = k.queue[h]
      BY <1>3, <3>2, WithoutNone
    <3>4. j.queue = k.queue
      BY <1>1, <1>2, <3>3 DEF Kernel
    <3>5. ListsOf(j) = Instead(ListsOf(k), OverdueHead, j.overdue)
      BY <1>1, <1>2, <3>4, OverdueChanged
    <3>6. OverdueHead \in Heads /\ ListsOf(k)[OverdueHead] = k.overdue
      BY <1>1, ListsAre
    <3> QED BY <1>3, <3>1, <3>5, <3>6
  <2>2. CASE ~ is_overdue(k.task[p])
    <3>1. PICK h \in ArrayId \X Prio : h = Slot(k.task[p])
      BY <1>1, <2>2 DEF Enqueued, Proper, TaskRecord, Slot
    <3>2. p \in Elements(k.queue[h])
      BY <1>1, <3>1 DEF Placed
    <3>3. \A g \in ArrayId \X Prio : g # h => p \notin Elements(k.queue[g])
      BY <1>1, <3>1 DEF Placed
    <3>4. \A g \in ArrayId \X Prio : g # h => j.queue[g] = k.queue[g]
      BY <1>3, <3>3, WithoutNone
    <3>5. p \notin Elements(k.overdue)
      BY <1>1, <2>2 DEF Placed
    <3>6. j.overdue = k.overdue
      BY <1>1, <1>3, <3>5, WithoutNone DEF Kernel
    <3>7. ListsOf(j) = Instead(ListsOf(k), QueueHead(h), j.queue[h])
      BY <1>1, <1>2, <3>4, <3>6, QueueChanged
    <3>8. QueueHead(h) \in Heads /\ ListsOf(k)[QueueHead(h)] = k.queue[h]
      BY <1>1, ListsAre
    <3> QED BY <1>3, <3>2, <3>7, <3>8
  <2> QED BY <2>1, <2>2
<1>5. OnOne(ListsOf(k))
  BY ListsOnOne
<1>6. PICK l : l = Mem!list_del(m, p)
  OBVIOUS
<1>7. /\ Threads(l, ListsOf(j))
      /\ \A q \in Pid : Mem!list_empty(l, q) <=> Mem!list_empty(m, q)
  <2>1. PICK on, to : on = ListsOf(k) /\ to = ListsOf(j)
    OBVIOUS
  <2>2. Threads(m, on) /\ OnOne(on) /\ p \in Elements(on[x])
        /\ to = Instead(on, x, Without(on[x], p))
    BY <1>4, <1>5, <2>1 DEF Represents
  <2>3. Threads(l, to) /\ \A q \in Pid : Mem!list_empty(l, q) <=> Mem!list_empty(m, q)
    BY <1>6, <2>2, ThreadOut
  <2> QED BY <2>1, <2>3
<1> QED BY <1>2, <1>6, <1>7 DEF Represents

\* A task put on one list, with a record that says it is queued.
LEMMA Linked ==
  ASSUME HeadsApart, NEW k, NEW n, NEW p \in Pid, Good(k, {p}, n), NEW m, Represents(m, k),
         NEW j \in Kernel, NEW t, t.queued, j.task = [k.task EXCEPT ![p] = t],
         NEW x \in Heads, NEW s, s = ListsOf(k)[x], NEW i \in 0 .. Len(s),
         NEW w \in Seq(Pid), Inserted(s, i, p, w), Elements(w) = Elements(s) \cup {p},
         ListsOf(j) = Instead(ListsOf(k), x, w),
         NEW l, l = Mem!__list_add(m, p, Mem!Nth(x, s, i), Mem!Nth(x, s, i + 1))
  PROVE  Represents(l, j)
<1>1. k \in Kernel /\ p \in Task /\ Pid \subseteq Task
  BY DEF Good, Typed, Task
<1>2. OnOne(ListsOf(k)) /\ \A y \in Heads : p \notin Elements(ListsOf(k)[y])
  BY ListsOnOne, OffAll
<1>3. PICK on, to : on = ListsOf(k) /\ to = ListsOf(j)
  OBVIOUS
<1>4. /\ Threads(m, on) /\ OnOne(on) /\ \A y \in Heads : p \notin Elements(on[y])
      /\ to = Instead(on, x, w) /\ s = on[x]
  BY <1>2, <1>3 DEF Represents
<1>5. /\ i \in 0 .. Len(on[x]) /\ Inserted(on[x], i, p, w) /\ Elements(w) = Elements(on[x]) \cup {p}
      /\ l = Mem!__list_add(m, p, Mem!Nth(x, on[x], i), Mem!Nth(x, on[x], i + 1))
  BY <1>4
<1>6. /\ Threads(l, to) /\ ~ Mem!list_empty(l, p)
      /\ \A q \in Pid \ {p} : Mem!list_empty(l, q) <=> Mem!list_empty(m, q)
  BY <1>4, <1>5, ThreadIn
<1>7. \A q \in Pid : k.task[q].queued <=> ~ Mem!list_empty(m, q)
  BY DEF Represents
<1>8. k.task \in [Task -> TaskRecord]
  BY <1>1 DEF Kernel
<1>9. ASSUME NEW q \in Pid
      PROVE  j.task[q].queued <=> ~ Mem!list_empty(l, q)
  <2>1. CASE q = p
    <3>1. j.task[q] = t
      BY <1>1, <1>8, <2>1
    <3> QED BY <1>6, <2>1, <3>1
  <2>2. CASE q # p
    <3>1. j.task[q] = k.task[q]
      BY <1>1, <1>8, <2>2
    <3> QED BY <1>6, <1>7, <2>2, <3>1
  <2> QED BY <2>1, <2>2
<1> QED BY <1>3, <1>6, <1>9 DEF Represents

\* enqueue_task is list_add_tail on the queue of the task's priority.
LEMMA LinkedLast ==
  ASSUME HeadsApart, NEW k, NEW n \in Int, NEW p \in Pid, Good(k, {p}, n), NEW a \in ArrayId,
         NEW t, t = Put(k.task[p], a), Fits(t, k.active), NEW m, Represents(m, k),
         NEW j, j = enqueue_task(k, p, a)
  PROVE  Represents(Mem!list_add_tail(m, p, QueueHead(<<a, k.task[p].prio>>)), j)
<1>1. PICK h \in ArrayId \X Prio : h = <<a, k.task[p].prio>>
  <2>1. Proper(k.task[p])
    BY DEF Good, Typed
  <2> QED BY <2>1 DEF Proper
<1>2. k \in Kernel /\ p \in Task /\ t \in TaskRecord /\ t.queued
  <2>1. k \in Kernel /\ k.task[p] \in TaskRecord /\ p \in Task
    BY DEF Good, Typed, Proper, Task
  <2> QED BY <2>1 DEF TaskRecord, Put
<1>3. PICK i : i = Set(k, p, t)
  OBVIOUS
<1>4. i \in Kernel /\ SameLists(k, i) /\ i.task = [k.task EXCEPT ![p] = t]
  BY <1>2, <1>3, SetFields
<1>5. j = [i EXCEPT !.queue[h] = Append(@, p), !.bitmap = @ \cup {h}, !.nr_active[a] = @ + 1]
  BY <1>1, <1>3 DEF enqueue_task, Put
<1>6. /\ j.task = [k.task EXCEPT ![p] = t] /\ j.overdue = k.overdue
      /\ j.queue = [k.queue EXCEPT ![h] = Append(k.queue[h], p)]
  BY <1>4, <1>5 DEF Kernel, SameLists
<1>7. j \in Kernel
  <2>1. Good(j, {}, n - 1)
    BY EnqueueTask
  <2> QED BY <2>1 DEF Good, Typed
<1>8. PICK s \in Seq(Pid) : s = k.queue[h]
  BY <1>2 DEF Kernel
<1>9. PICK w \in Seq(Pid) : w = Append(s, p) /\ Elements(w) = Elements(s) \cup {p}
  BY AddedLast
<1>10. j.queue[h] = w /\ \A g \in ArrayId \X Prio : g # h => j.queue[g] = k.queue[g]
  <2>1. k.queue \in [ArrayId \X Prio -> Seq(Pid)]
    BY <1>2 DEF Kernel
  <2> QED BY <1>6, <1>8, <1>9, <2>1
<1>11. ListsOf(j) = Instead(ListsOf(k), QueueHead(h), w)
  <2>1. ListsOf(j) = Instead(ListsOf(k), QueueHead(h), j.queue[h])
    <3>1. k \in Kernel /\ j \in Kernel /\ j.overdue = k.overdue
      BY <1>2, <1>6, <1>7
    <3>2. \A g \in ArrayId \X Prio : g # h => j.queue[g] = k.queue[g]
      BY <1>10
    <3> QED BY <3>1, <3>2, QueueChanged
  <2> QED BY <1>10, <2>1
<1>12. PICK x \in Heads : x = QueueHead(h) /\ s = ListsOf(k)[x]
  BY <1>2, <1>8, ListsAre
<1>13. s \in Seq(Node) /\ Len(s) \in Nat /\ p \in Node
  <2>1. Pid \subseteq Node
    BY DEF HeadsApart
  <2> QED BY <2>1, LenProperties
<1>14. Inserted(s, Len(s), p, w)
  BY <1>9, <1>13, AppendInserts
<1>15. /\ Mem!Nth(x, s, Len(s)) = m.prev[x]
       /\ Mem!Nth(x, s, Len(s) + 1) = x
       /\ Len(s) \in 0 .. Len(s)
  <2>1. Mem!Holds(m, x, s)
    BY <1>12 DEF Represents, Threads
  <2>2. Mem!Nth(x, s, Len(s) + 1) = x /\ Len(s) \in 0 .. Len(s)
    BY <1>13 DEF Mem!Nth
  <2> QED BY <2>1, <2>2 DEF Mem!Holds
<1>16. Mem!list_add_tail(m, p, x)
         = Mem!__list_add(m, p, Mem!Nth(x, s, Len(s)), Mem!Nth(x, s, Len(s) + 1))
  BY <1>15 DEF Mem!list_add_tail
<1>17. Represents(Mem!list_add_tail(m, p, x), j)
  <2>1. PICK z, l : z = Len(s) /\ l = Mem!__list_add(m, p, Mem!Nth(x, s, z), Mem!Nth(x, s, z + 1))
    OBVIOUS
  <2>2. ListsOf(j) = Instead(ListsOf(k), x, w) /\ z \in 0 .. Len(s) /\ Inserted(s, z, p, w)
    BY <1>11, <1>12, <1>14, <1>15, <2>1
  <2>3. j \in Kernel /\ j.task = [k.task EXCEPT ![p] = t] /\ t.queued /\ s = ListsOf(k)[x]
        /\ Elements(w) = Elements(s) \cup {p}
    BY <1>2, <1>6, <1>7, <1>9, <1>12
  <2>4. Represents(l, j)
    BY <2>1, <2>2, <2>3, Linked
  <2> QED BY <1>16, <2>1, <2>4
<1> QED BY <1>1, <1>12, <1>17

\* An overdue task is put at the head of overdue_SHORT.
LEMMA LinkedFirst ==
  ASSUME HeadsApart, NEW k, NEW n \in Int, NEW p \in Pid, Good(k, {p}, n),
         is_overdue(k.task[p]), NEW m, Represents(m, k), NEW j, j = EnqueueOverdue(k, p)
  PROVE  Represents(Mem!list_add(m, p, OverdueHead), j)
<1>1. PICK t : t = Put(k.task[p], NULL)
  OBVIOUS
<1>2. k \in Kernel /\ p \in Task /\ t \in TaskRecord /\ t.queued
  <2>1. k \in Kernel /\ k.task[p] \in TaskRecord /\ p \in Task
    BY DEF Good, Typed, Proper, Task
  <2> QED BY <1>1, <2>1 DEF TaskRecord, Put
<1>3. PICK i : i = Set(k, p, t)
  OBVIOUS
<1>4. i \in Kernel /\ SameLists(k, i) /\ i.task = [k.task EXCEPT ![p] = t]
  BY <1>2, <1>3, SetFields
<1>5. j = [i EXCEPT !.overdue = <<p>> \o @]
  BY <1>1, <1>3 DEF EnqueueOverdue, Put
<1>6. /\ j.task = [k.task EXCEPT ![p] = t] /\ j.queue = k.queue
      /\ j.overdue = <<p>> \o k.overdue
  BY <1>4, <1>5 DEF Kernel, SameLists
<1>7. j \in Kernel
  <2>1. Good(j, {}, n - 1)
    BY <1>1, EnqueueOverdueTask
  <2> QED BY <2>1 DEF Good, Typed
<1>8. PICK s \in Seq(Pid) : s = k.overdue
  BY <1>2 DEF Kernel
<1>9. PICK w \in Seq(Pid) : w = <<p>> \o s /\ Elements(w) = Elements(s) \cup {p}
  BY AddedFirst
<1>10. PICK x \in Heads : x = OverdueHead /\ s = ListsOf(k)[x]
  BY <1>2, <1>8, ListsAre
<1>11. ListsOf(j) = Instead(ListsOf(k), x, w)
  BY <1>2, <1>6, <1>7, <1>8, <1>9, <1>10, OverdueChanged
<1>12. s \in Seq(Node) /\ Len(s) \in Nat /\ p \in Node
  <2>1. Pid \subseteq Node
    BY DEF HeadsApart
  <2> QED BY <2>1, LenProperties
<1>13. Inserted(s, 0, p, w)
  BY <1>9, <1>12, PushInserts
<1>14. /\ Mem!Nth(x, s, 0) = x
       /\ Mem!Nth(x, s, 0 + 1) = m.next[x]
       /\ 0 \in 0 .. Len(s)
  <2>1. Mem!Holds(m, x, s)
    BY <1>10 DEF Represents, Threads
  <2>2. Mem!Nth(x, s, 0) = x /\ 0 \in 0 .. Len(s)
    BY <1>12 DEF Mem!Nth
  <2> QED BY <2>1, <2>2 DEF Mem!Holds
<1>15. Mem!list_add(m, p, x)
         = Mem!__list_add(m, p, Mem!Nth(x, s, 0), Mem!Nth(x, s, 0 + 1))
  BY <1>14 DEF Mem!list_add
<1>16. Represents(Mem!list_add(m, p, x), j)
  <2>1. PICK l : l = Mem!__list_add(m, p, Mem!Nth(x, s, 0), Mem!Nth(x, s, 0 + 1))
    OBVIOUS
  <2>2. 0 \in 0 .. Len(s) /\ Inserted(s, 0, p, w) /\ Elements(w) = Elements(s) \cup {p}
    BY <1>9, <1>13, <1>14
  <2>3. Represents(l, j)
    BY <1>2, <1>6, <1>7, <1>10, <1>11, <2>1, <2>2, Linked
  <2> QED BY <1>15, <2>1, <2>3
<1> QED BY <1>10, <1>16

-----------------------------------------------------------------------------
(* What sched.c relies on.                                                 *)

\* The tests of sched.c for an empty list are the tests of RunQueue for an empty sequence
\* (dequeue_task's before it clears the bit, schedule()'s for overdue_SHORT).
THEOREM EmptyInPointers ==
  ASSUME HeadsApart, NEW k, NEW S, NEW n, Good(k, S, n), NEW m, Represents(m, k)
  PROVE  /\ \A h \in ArrayId \X Prio : Mem!list_empty(m, QueueHead(h)) <=> k.queue[h] = <<>>
         /\ Mem!list_empty(m, OverdueHead) <=> k.overdue = <<>>
<1>1. k \in Kernel
  BY DEF Good, Typed
<1>2. /\ OverdueHead \in Heads /\ ListsOf(k)[OverdueHead] = k.overdue
      /\ \A h \in ArrayId \X Prio : /\ QueueHead(h) \in Heads
                                    /\ ListsOf(k)[QueueHead(h)] = k.queue[h]
  BY <1>1, ListsAre
<1>3. m \in Mem!Memory /\ \A x \in Heads : x \in Node /\ Mem!Holds(m, x, ListsOf(k)[x])
  BY DEF Represents, Threads, Heads, HeadsApart
<1>4. \A x \in Heads : Mem!list_empty(m, x) <=> ListsOf(k)[x] = <<>>
  BY <1>3, Empty
<1> QED BY <1>2, <1>4

\* hw2_dequeue unlinks the task and no other.  An overdue task then says of itself that
\* it is not queued; any other still says that it is, its own pointers being left as they
\* were.
THEOREM DequeueInPointers ==
  ASSUME HeadsApart, NEW k, NEW n \in Int, Good(k, {}, n), NEW m, Represents(m, k),
         NEW p \in Pid, Enqueued(k.task[p])
  PROVE  Represents(IF is_overdue(k.task[p]) THEN Mem!list_del_init(m, p) ELSE Mem!list_del(m, p),
                    hw2_dequeue(k, p, k.task[p].array))
<1>1. /\ k \in Kernel /\ p \in Task /\ k.task \in [Task -> TaskRecord] /\ Pid \subseteq Task
  BY DEF Good, Typed, Kernel, Task
<1>2. PICK j : j = list_del(k, p)
  OBVIOUS
<1>3. Represents(Mem!list_del(m, p), j)
  BY <1>2, Unlinked
<1>4. j \in Kernel /\ j.task = k.task /\ Placed(j, {p})
  BY <1>2, ListDel
<1>5. CASE is_overdue(k.task[p])
  <2>1. PICK u : u = [k.task[p] EXCEPT !.queued = FALSE]
    OBVIOUS
  <2>2. u \in TaskRecord /\ u.queued = FALSE
    BY <1>1, <2>1 DEF TaskRecord
  <2>3. PICK i : i = Set(j, p, u)
    OBVIOUS
  <2>4. hw2_dequeue(k, p, k.task[p].array) = i
    BY <1>2, <1>4, <1>5, <2>1, <2>3 DEF hw2_dequeue, list_del_init, INIT_LIST_HEAD
  <2>5. i \in Kernel /\ SameLists(j, i) /\ i.task = [j.task EXCEPT ![p] = u]
    BY <1>1, <1>4, <2>2, <2>3, SetFields
  <2>6. PICK on : on = ListsOf(j) /\ on = ListsOf(i)
    <3>1. i.queue = j.queue /\ i.overdue = j.overdue
      BY <2>5 DEF SameLists
    <3>2. ListsOf(i) = ListsOf(j)
      BY <3>1 DEF ListsOf
    <3> QED BY <3>2
  <2>7. PICK l : l = Mem!list_del(m, p)
    OBVIOUS
  <2>8. /\ l \in Mem!Memory /\ \A x \in Heads : Mem!Holds(l, x, on[x])
        /\ \A q \in Pid : j.task[q].queued <=> ~ Mem!list_empty(l, q)
    BY <1>3, <2>6, <2>7 DEF Represents, Threads
  <2>9. PICK r : r = Mem!list_del_init(m, p)
    OBVIOUS
  <2>10. /\ r \in Mem!Memory /\ r.next[p] = p /\ OnlyAt(l, r, {p})
    <3>1. p \in Node /\ l.next \in [Node -> Node] /\ l.prev \in [Node -> Node]
      BY <2>8 DEF Mem!Memory, HeadsApart
    <3>2. r = [next |-> [l.next EXCEPT ![p] = p], prev |-> [l.prev EXCEPT ![p] = p]]
      BY <2>7, <2>9 DEF Mem!list_del_init, Mem!INIT_LIST_HEAD
    <3> QED BY <3>1, <3>2 DEF Mem!Memory, OnlyAt
  <2>11. ASSUME NEW x \in Heads
         PROVE  Mem!Holds(r, x, on[x])
    <3>1. on[x] \in Seq(Pid) /\ x \in Node /\ x \notin Pid
      <4>1. on \in [Heads -> Seq(Pid)]
        BY <1>4, <2>6, ListsAre
      <4>2. x \in Node /\ x \notin Pid
        BY DEF Heads, HeadsApart
      <4> QED BY <4>1, <4>2
    <3>2. p \notin Elements(on[x])
      <4>1. x = OverdueHead \/ \E h \in ArrayId \X Prio : x = QueueHead(h)
        BY DEF Heads
      <4>2. /\ on[OverdueHead] = j.overdue
            /\ \A h \in ArrayId \X Prio : on[QueueHead(h)] = j.queue[h]
        BY <1>4, <2>6, ListsAre
      <4> QED BY <1>4, <4>1, <4>2 DEF Placed
    <3>3. Ring(x, on[x]) \cap {p} = {}
      <4>1. Ring(x, on[x]) = {x} \cup Elements(on[x])
        BY <3>1, RingOf
      <4> QED BY <3>1, <3>2, <4>1
    <3> QED BY <2>8, <2>10, <3>1, <3>3, Frame
  <2>12. ASSUME NEW q \in Pid
         PROVE  i.task[q].queued <=> ~ Mem!list_empty(r, q)
    <3>1. CASE q = p
      <4>1. i.task[q] = u
        BY <1>1, <1>4, <2>5, <3>1
      <4> QED BY <2>2, <2>10, <3>1, <4>1 DEF Mem!list_empty
    <3>2. CASE q # p
      <4>1. i.task[q] = j.task[q]
        BY <1>1, <1>4, <2>5, <3>2
      <4>2. r.next[q] = l.next[q]
        BY <2>10, <3>2 DEF OnlyAt, HeadsApart
      <4> QED BY <2>8, <4>1, <4>2 DEF Mem!list_empty
    <3> QED BY <3>1, <3>2
  <2>13. Represents(r, i)
    BY <2>6, <2>10, <2>11, <2>12 DEF Represents, Threads
  <2> QED BY <1>5, <2>4, <2>9, <2>13
<1>6. CASE ~ is_overdue(k.task[p])
  <2>1. PICK i : i = dequeue_task(k, p, k.task[p].array)
    OBVIOUS
  <2>2. hw2_dequeue(k, p, k.task[p].array) = i
    BY <1>6, <2>1 DEF hw2_dequeue
  <2>3. i.queue = j.queue /\ i.overdue = j.overdue /\ i.task = j.task
    BY <1>2, <1>4, <2>1 DEF dequeue_task, Kernel
  <2>4. ListsOf(i) = ListsOf(j)
    BY <2>3 DEF ListsOf
  <2>5. Represents(Mem!list_del(m, p), i)
    BY <1>3, <2>3, <2>4 DEF Represents
  <2> QED BY <1>6, <2>2, <2>5
<1> QED BY <1>5, <1>6

\* hw2_enqueue links a task that is on no list: an overdue one at the head of
\* overdue_SHORT, any other at the tail of the queue of its priority in its array.
THEOREM EnqueueInPointers ==
  ASSUME HeadsApart, NEW k, NEW n \in Int, NEW p \in Pid, Good(k, {p}, n), NEW m, Represents(m, k),
         NEW make_active \in BOOLEAN, make_active \/ k.task[p].policy = "OTHER",
         NEW a, a = IF is_short(k.task[p]) THEN active_SHORT
                    ELSE IF make_active THEN k.active ELSE expired(k)
  PROVE  Represents(IF is_overdue(k.task[p]) THEN Mem!list_add(m, p, OverdueHead)
                    ELSE Mem!list_add_tail(m, p, QueueHead(<<a, k.task[p].prio>>)),
                    hw2_enqueue(k, p, make_active))
<1>1. CASE is_overdue(k.task[p])
  <2>1. hw2_enqueue(k, p, make_active) = EnqueueOverdue(k, p)
    BY <1>1 DEF hw2_enqueue
  <2> QED BY <1>1, <2>1, LinkedFirst
<1>2. CASE ~ is_overdue(k.task[p])
  <2>1. k.task[p] \in TaskRecord /\ k.active \in {0, 1}
    BY DEF Good, Typed, Proper, Kernel
  <2>2. a \in ArrayId
    BY <2>1 DEF ArrayId, active_SHORT, expired
  <2>3. PICK t : t = Put(k.task[p], a)
    OBVIOUS
  <2>4. Fits(t, k.active)
    <3>1. /\ t.array = a /\ t.policy = k.task[p].policy
          /\ t.remaining_trials = k.task[p].remaining_trials
      BY <2>1, <2>3 DEF TaskRecord, Put
    <3> QED BY <1>2, <2>1, <3>1 DEF Fits, is_overdue, is_short, active_SHORT, expired
  <2>5. hw2_enqueue(k, p, make_active) = enqueue_task(k, p, a)
    BY <1>2 DEF hw2_enqueue
  <2> QED BY <1>2, <2>2, <2>3, <2>4, <2>5, LinkedLast
<1> QED BY <1>1, <1>2
=============================================================================
