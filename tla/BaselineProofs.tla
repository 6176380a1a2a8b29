--------------------------- MODULE BaselineProofs ---------------------------
(***************************************************************************)
(* Without SHORT tasks, the patched scheduler implements the one before    *)
(* it, for any number of tasks.  Shows says that a runqueue of Sched and   *)
(* one of Baseline are the same but for what the patch added.  Each        *)
(* function of RunQueue and Scheduler keeps that, against the function of  *)
(* Baseline of the same name.  Then each step of Sched is a step of        *)
(* Baseline, or one that Baseline does not see, given what SchedProofs     *)
(* shows of the state before it, and four facts more (Sideline).           *)
(***************************************************************************)
EXTENDS SchedBaseline, SchedProofs

-----------------------------------------------------------------------------
(* A runqueue of Sched and one of Baseline that show the same tasks.       *)

BaseStates == States \cup {"FREE", "COPY", "SPLIT"}
BaseRecord ==
  [policy : {"OTHER", "FIFO", "RR"}, prio : Int, static_prio : Int, state : BaseStates,
   time_slice : Nat, first_time_slice : BOOLEAN, array : {0, 1, NULL}, need_resched : BOOLEAN]
BothArrays == (0 .. 1) \X Prio
BaseKernel ==
  [active : {0, 1}, queue : [BothArrays -> Seq(Pid)], curr : Task, task : [Task -> BaseRecord]]

\* The record t of a task that is not SHORT is shown as u; s is its state there, unless
\* it is t's own.
Seen(t, u, s) ==
  /\ t \in TaskRecord /\ t.remaining_trials = 0
  /\ u \in BaseRecord
  /\ u.policy = t.policy /\ u.prio = t.prio /\ u.static_prio = t.static_prio
  /\ u.state = (IF s = "own" THEN t.state ELSE s)
  /\ u.time_slice = t.time_slice /\ u.first_time_slice = t.first_time_slice
  /\ u.array = t.array /\ u.need_resched = t.need_resched

\* l[p] is what the state of p is shown as.
Shows(k, b, l) ==
  /\ k \in Kernel /\ b \in BaseKernel
  /\ b.active = k.active /\ b.curr = k.curr
  /\ \A h \in BothArrays : b.queue[h] = k.queue[h]
  /\ \A p \in Task : Seen(k.task[p], b.task[p], l[p])

\* The same change on either side: the record of p is t now, and
\* p is off the list h; p is at the end of the list h.
Same(m, n) == n.active = m.active /\ n.curr = m.curr
ListsKept(m, n) == \A h \in BothArrays : n.queue[h] = m.queue[h]
Alone(m, n, p, t) == n.task[p] = t /\ \A q \in Task \ {p} : n.task[q] = m.task[q]
Writes(m, n, p, t) == Same(m, n) /\ ListsKept(m, n) /\ Alone(m, n, p, t)
Takes(m, n, p, h) ==
  /\ Same(m, n) /\ \A q \in Task : n.task[q] = m.task[q]
  /\ \A g \in BothArrays : n.queue[g] = IF g = h THEN Without(m.queue[g], p) ELSE m.queue[g]
Puts(m, n, p, h, t) ==
  /\ Same(m, n) /\ Alone(m, n, p, t)
  /\ \A g \in BothArrays : n.queue[g] = IF g = h THEN Append(m.queue[g], p) ELSE m.queue[g]
Shifts(m, n, p, h, g, t) ==
  /\ Same(m, n) /\ Alone(m, n, p, t)
  /\ \A x \in BothArrays :
       LET s == IF x = h THEN Without(m.queue[x], p) ELSE m.queue[x]
       IN n.queue[x] = IF x = g THEN Append(s, p) ELSE s

LEMMA ShownWrites ==
  ASSUME NEW k, NEW b, NEW l, Shows(k, b, l), NEW p \in Task, NEW t, NEW u, Seen(t, u, l[p]),
         NEW j \in Kernel, Writes(k, j, p, t), NEW c \in BaseKernel, Writes(b, c, p, u)
  PROVE  Shows(j, c, l)
BY DEF Shows, Writes, Same, ListsKept, Alone

LEMMA ShownTakes ==
  ASSUME NEW k, NEW b, NEW l, Shows(k, b, l), NEW p \in Task, NEW h,
         NEW j \in Kernel, Takes(k, j, p, h), NEW c \in BaseKernel, Takes(b, c, p, h)
  PROVE  Shows(j, c, l)
BY DEF Shows, Takes, Same

LEMMA ShownPuts ==
  ASSUME NEW k, NEW b, NEW l, Shows(k, b, l), NEW p \in Task, NEW h, NEW t, NEW u, Seen(t, u, l[p]),
         NEW j \in Kernel, Puts(k, j, p, h, t), NEW c \in BaseKernel, Puts(b, c, p, h, u)
  PROVE  Shows(j, c, l)
BY DEF Shows, Puts, Same, Alone

LEMMA ShownShifts ==
  ASSUME NEW k, NEW b, NEW l, Shows(k, b, l), NEW p \in Task, NEW h, NEW g, NEW t, NEW u, Seen(t, u, l[p]),
         NEW j \in Kernel, Shifts(k, j, p, h, g, t), NEW c \in BaseKernel, Shifts(b, c, p, h, g, u)
  PROVE  Shows(j, c, l)
BY DEF Shows, Shifts, Same, Alone

-----------------------------------------------------------------------------
(* The steps of Baseline.                                                  *)

LEMMA BaseSet ==
  ASSUME NEW b \in BaseKernel, NEW p \in Task, NEW u \in BaseRecord, NEW c,
         c = [b EXCEPT !.task[p] = u]
  PROVE  c \in BaseKernel /\ Writes(b, c, p, u)
BY DEF BaseKernel, Writes, Same, ListsKept, Alone

LEMMA BaseRemove ==
  ASSUME NEW s, NEW p
  PROVE  Base!Remove(s, p) = Without(s, p)
BY DEF Base!Remove, Without

LEMMA SeqWithout ==
  ASSUME NEW s \in Seq(Pid), NEW p
  PROVE  Without(s, p) \in Seq(Pid)
<1>1. CASE ~ \E i \in 1 .. Len(s) : s[i] = p
  BY <1>1 DEF Without
<1>2. CASE \E i \in 1 .. Len(s) : s[i] = p
  <2>1. PICK i : i \in 1 .. Len(s) /\ i = CHOOSE j \in 1 .. Len(s) : s[j] = p
    BY <1>2
  <2>2. Without(s, p) = [j \in 1 .. Len(s) - 1 |-> IF j < i THEN s[j] ELSE s[j + 1]]
    BY <1>2, <2>1 DEF Without
  <2>3. Len(s) \in Nat /\ Len(s) - 1 \in Nat /\ s \in [1 .. Len(s) -> Pid]
    BY <2>1, LenProperties
  <2>4. Without(s, p) \in [1 .. Len(s) - 1 -> Pid]
    BY <2>1, <2>2, <2>3
  <2> QED BY <2>3, <2>4
<1> QED BY <1>1, <1>2

LEMMA BaseDequeue ==
  ASSUME NEW b \in BaseKernel, NEW p \in Task, NEW a \in {0, 1}, b.task[p].prio \in Prio, NEW c,
         c = Base!dequeue_task(b, p, a)
  PROVE  c \in BaseKernel /\ Takes(b, c, p, <<a, b.task[p].prio>>)
<1>1. PICK h : h = <<a, b.task[p].prio>>
  OBVIOUS
<1>2. h \in BothArrays /\ b.queue[h] \in Seq(Pid)
  BY <1>1 DEF BothArrays, BaseKernel
<1>3. PICK s \in Seq(Pid) : s = Base!Remove(b.queue[h], p) /\ s = Without(b.queue[h], p)
  BY <1>2, BaseRemove, SeqWithout
<1>4. c = [b EXCEPT !.queue[h] = s]
  BY <1>1, <1>3 DEF Base!dequeue_task
<1>5. /\ c \in BaseKernel /\ c.active = b.active /\ c.curr = b.curr /\ c.task = b.task
      /\ c.queue = [b.queue EXCEPT ![h] = s]
  BY <1>2, <1>4 DEF BaseKernel
<1>6. b.queue \in [BothArrays -> Seq(Pid)]
  BY DEF BaseKernel
<1>7. \A g \in BothArrays : c.queue[g] = IF g = h THEN Without(b.queue[g], p) ELSE b.queue[g]
  BY <1>2, <1>3, <1>5, <1>6
<1> QED BY <1>1, <1>5, <1>7 DEF Takes, Same

LEMMA BaseEnqueue ==
  ASSUME NEW b \in BaseKernel, NEW p \in Pid, NEW a \in {0, 1}, b.task[p].prio \in Prio, NEW c,
         c = Base!enqueue_task(b, p, a)
  PROVE  /\ c \in BaseKernel
         /\ Puts(b, c, p, <<a, b.task[p].prio>>, [b.task[p] EXCEPT !.array = a])
<1>1. PICK h : h = <<a, b.task[p].prio>>
  OBVIOUS
<1>2. h \in BothArrays /\ b.queue[h] \in Seq(Pid) /\ p \in Task
  BY <1>1 DEF BothArrays, BaseKernel, Task
<1>3. PICK s \in Seq(Pid) : s = Append(b.queue[h], p)
  <2>1. \A x \in Seq(Pid) : Append(x, p) \in Seq(Pid)
    OBVIOUS
  <2> QED BY <1>2, <2>1
<1>4. PICK u \in BaseRecord : u = [b.task[p] EXCEPT !.array = a]
  <2>1. PICK r \in BaseRecord : r = b.task[p]
    BY <1>2 DEF BaseKernel
  <2>2. [r EXCEPT !.array = a] \in BaseRecord
    BY DEF BaseRecord
  <2> QED BY <2>1, <2>2
<1>5. c = [b EXCEPT !.queue[h] = s, !.task[p] = u]
  BY <1>1, <1>3, <1>4 DEF Base!enqueue_task, BaseKernel
<1>7. b.queue \in [BothArrays -> Seq(Pid)] /\ b.task \in [Task -> BaseRecord]
  BY DEF BaseKernel
<1>6. /\ c \in BaseKernel /\ c.active = b.active /\ c.curr = b.curr
      /\ c.task = [b.task EXCEPT ![p] = u] /\ c.queue = [b.queue EXCEPT ![h] = s]
  <2>1. PICK f \in [BothArrays -> Seq(Pid)] : f = [b.queue EXCEPT ![h] = s]
    BY <1>7
  <2>2. PICK g \in [Task -> BaseRecord] : g = [b.task EXCEPT ![p] = u]
    BY <1>7
  <2>3. c = [b EXCEPT !.queue = f, !.task = g]
    BY <1>5, <2>1, <2>2
  <2> QED BY <2>1, <2>2, <2>3 DEF BaseKernel
<1>8. \A g \in BothArrays : c.queue[g] = IF g = h THEN Append(b.queue[g], p) ELSE b.queue[g]
  BY <1>2, <1>3, <1>6, <1>7
<1>9. Alone(b, c, p, u)
  BY <1>2, <1>6, <1>7 DEF Alone
<1> QED BY <1>1, <1>4, <1>6, <1>8, <1>9 DEF Puts, Same

-----------------------------------------------------------------------------
(* The same steps in the patched kernel.                                   *)

LEMMA SchedSet ==
  ASSUME NEW k \in Kernel, NEW p \in Task, NEW t \in TaskRecord, NEW j, j = Set(k, p, t)
  PROVE  j \in Kernel /\ Writes(k, j, p, t)
<1>1. /\ j \in Kernel /\ SameLists(k, j) /\ j.task = [k.task EXCEPT ![p] = t]
  BY SetFields
<1>2. k.task \in [Task -> TaskRecord]
  BY DEF Kernel
<1> QED BY <1>1, <1>2 DEF Writes, Same, ListsKept, Alone, SameLists

LEMMA ReasonShown ==
  ASSUME NEW k, NEW b, NEW l, Shows(k, b, l), NEW p \in Task, NEW res \in 0 .. 7,
         NEW j, j = UPDATE_REASON(k, p, res)
  PROVE  Shows(j, b, l)
<1>1. PICK t \in TaskRecord : t = k.task[p]
  BY DEF Shows, Kernel
<1>2. PICK r \in TaskRecord : r = [t EXCEPT !.reason = res]
  BY DEF TaskRecord
<1>3. j = k \/ j = Set(k, p, r)
  BY <1>1, <1>2 DEF UPDATE_REASON
<1>4. CASE j = Set(k, p, r)
  <2>1. j \in Kernel /\ Writes(k, j, p, r)
    BY <1>4, SchedSet DEF Shows
  <2>2. Seen(r, b.task[p], l[p])
    BY <1>1, <1>2 DEF Shows, Seen, TaskRecord
  <2> QED BY <2>1, <2>2 DEF Shows, Writes, Same, ListsKept, Alone
<1> QED BY <1>3, <1>4

\* The record of p is t in Sched, and u in Baseline.
LEMMA SetShown ==
  ASSUME NEW k, NEW b, NEW l, Shows(k, b, l), NEW p \in Task, NEW t, NEW u, Seen(t, u, l[p]),
         NEW j, j = Set(k, p, t), NEW c \in BaseKernel, Writes(b, c, p, u)
  PROVE  Shows(j, c, l)
<1>1. t \in TaskRecord
  BY DEF Seen
<1>2. k \in Kernel
  BY DEF Shows
<1>3. j \in Kernel /\ Writes(k, j, p, t)
  BY <1>1, <1>2, SchedSet
<1> QED BY <1>3, ShownWrites

LEMMA ReschedShown ==
  ASSUME NEW k, NEW b, NEW l, Shows(k, b, l), NEW p \in Task,
         NEW j, j = resched_task(k, p), NEW c, c = [b EXCEPT !.task[p].need_resched = TRUE]
  PROVE  Shows(j, c, l)
<1>1. PICK t \in TaskRecord, u \in BaseRecord : t = k.task[p] /\ u = b.task[p] /\ Seen(t, u, l[p])
  BY DEF Shows, Kernel, BaseKernel
<1>2. PICK r : r = [t EXCEPT !.need_resched = TRUE]
  OBVIOUS
<1>3. PICK v : v = [u EXCEPT !.need_resched = TRUE]
  OBVIOUS
<1>4. Seen(r, v, l[p])
  BY <1>1, <1>2, <1>3 DEF Seen, TaskRecord, BaseRecord
<1>5. j = Set(k, p, r)
  BY <1>1, <1>2 DEF resched_task
<1>6. c \in BaseKernel /\ Writes(b, c, p, v)
  <2>1. b \in BaseKernel /\ v \in BaseRecord
    BY <1>4 DEF Shows, Seen
  <2> QED BY <1>1, <1>3, <2>1 DEF BaseKernel, Writes, Same, ListsKept, Alone
<1> QED BY <1>4, <1>5, <1>6, SetShown

LEMMA SchedDequeue ==
  ASSUME NEW k, NEW n \in Int, Good(k, {}, n), NEW p \in Pid, k.task[p].array # NULL,
         NEW j, j = dequeue_task(k, p, k.task[p].array)
  PROVE  j \in Kernel /\ Good(j, {p}, n + 1) /\ Takes(k, j, p, Slot(k.task[p]))
<1>1. /\ Good(j, {p}, n + 1)
      /\ j.active = k.active /\ j.curr = k.curr /\ j.task = k.task
  BY DequeueTask
<1>2. j.queue = [h \in ArrayId \X Prio |-> Without(k.queue[h], p)]
  BY DEF dequeue_task, list_del, Good, Typed, Kernel
<1>3. ASSUME NEW g \in BothArrays, g # Slot(k.task[p])
      PROVE  Without(k.queue[g], p) = k.queue[g]
  <2>1. g \in ArrayId \X Prio
    BY DEF BothArrays, ArrayId
  <2>2. p \notin Elements(k.queue[g])
    BY <1>3, <2>1 DEF Good, Placed
  <2> QED BY <2>2 DEF Without, Elements
<1>4. BothArrays \subseteq ArrayId \X Prio
  BY DEF BothArrays, ArrayId
<1>5. j \in Kernel
  BY <1>1 DEF Good, Typed
<1> QED BY <1>1, <1>2, <1>3, <1>4, <1>5 DEF Takes, Same

LEMMA SchedEnqueue ==
  ASSUME NEW k \in Kernel, NEW p \in Pid, NEW a \in {0, 1}, k.task[p].prio \in Prio,
         NEW j, j = enqueue_task(k, p, a)
  PROVE  j \in Kernel /\ Puts(k, j, p, <<a, k.task[p].prio>>, Put(k.task[p], a))
<1>1. PICK h : h = <<a, k.task[p].prio>>
  OBVIOUS
<1>2. h \in BothArrays /\ h \in ArrayId \X Prio /\ p \in Task
  BY <1>1 DEF BothArrays, ArrayId, Task
<1>8. PICK t \in TaskRecord : t = Put(k.task[p], a)
  <2>1. k.task[p] \in TaskRecord /\ a \in ArrayId
    BY <1>2 DEF Kernel, ArrayId
  <2> QED BY <2>1 DEF Put, TaskRecord
<1>9. PICK i \in Kernel : i = Set(k, p, t) /\ SameLists(k, i) /\ i.task = [k.task EXCEPT ![p] = t]
  BY <1>2, SetFields
<1>10. /\ i.queue[h] \in Seq(Pid) /\ i.nr_active[a] + 1 \in Int
       /\ Append(i.queue[h], p) \in Seq(Pid) /\ i.bitmap \cup {h} \in SUBSET (ArrayId \X Prio)
  <2>1. a \in ArrayId
    BY DEF ArrayId
  <2>2. i.queue[h] \in Seq(Pid) /\ i.nr_active[a] \in Int /\ i.bitmap \in SUBSET (ArrayId \X Prio)
    BY <1>2, <2>1 DEF Kernel
  <2>3. \A s \in Seq(Pid) : Append(s, p) \in Seq(Pid)
    OBVIOUS
  <2> QED BY <1>2, <2>2, <2>3
<1>11. PICK s \in Seq(Pid), x \in Int, y \in SUBSET (ArrayId \X Prio) :
         s = Append(i.queue[h], p) /\ x = i.nr_active[a] + 1 /\ y = i.bitmap \cup {h}
  BY <1>10, Zenon
<1>12. j = [i EXCEPT !.queue[h] = s, !.bitmap = y, !.nr_active[a] = x]
  BY <1>1, <1>8, <1>9, <1>11, Zenon DEF enqueue_task, Put
<1>13. /\ j \in Kernel /\ j.active = i.active /\ j.curr = i.curr /\ j.task = i.task
       /\ j.queue = [i.queue EXCEPT ![h] = s]
  <2>1. PICK f \in [ArrayId \X Prio -> Seq(Pid)] : f = [i.queue EXCEPT ![h] = s]
    BY <1>2 DEF Kernel
  <2>2. PICK g \in [ArrayId -> Int] : g = [i.nr_active EXCEPT ![a] = x]
    BY DEF Kernel
  <2>3. j = [i EXCEPT !.queue = f, !.bitmap = y, !.nr_active = g]
    BY <1>12, <2>1, <2>2
  <2> QED BY <2>1, <2>3 DEF Kernel
<1>3. /\ j.active = k.active /\ j.curr = k.curr
      /\ j.task = [k.task EXCEPT ![p] = Put(k.task[p], a)]
      /\ j.queue = [k.queue EXCEPT ![h] = Append(@, p)]
  BY <1>8, <1>9, <1>11, <1>13 DEF SameLists
<1>4. k.queue \in [ArrayId \X Prio -> Seq(Pid)] /\ k.task \in [Task -> TaskRecord]
  BY DEF Kernel
<1>5. BothArrays \subseteq ArrayId \X Prio
  BY DEF BothArrays, ArrayId
<1>6. \A g \in BothArrays : j.queue[g] = IF g = h THEN Append(k.queue[g], p) ELSE k.queue[g]
  BY <1>2, <1>3, <1>4, <1>5
<1>7. Alone(k, j, p, Put(k.task[p], a))
  BY <1>2, <1>3, <1>4 DEF Alone
<1> QED BY <1>1, <1>3, <1>6, <1>7, <1>13 DEF Puts, Same

\* The lists, the current task and the tasks are the same.
Alike(k, j) == j.active = k.active /\ j.curr = k.curr /\ j.queue = k.queue /\ j.task = k.task
LEMMA ShownAlike ==
  ASSUME NEW k, NEW b, NEW l, Shows(k, b, l), NEW j \in Kernel, Alike(k, j)
  PROVE  Shows(j, b, l)
BY DEF Shows, Alike

\* What is shown of a task that is not SHORT.
LEMMA ShownTask ==
  ASSUME NEW k, NEW b, NEW l, Shows(k, b, l), NEW p \in Task
  PROVE  /\ k.task[p] \in TaskRecord /\ b.task[p] \in BaseRecord /\ Seen(k.task[p], b.task[p], l[p])
         /\ ~ is_short(k.task[p]) /\ ~ is_overdue(k.task[p])
         /\ k.task[p].array \in {0, 1, NULL}
         /\ Enqueued(k.task[p]) <=> k.task[p].array # NULL
<1>1. Seen(k.task[p], b.task[p], l[p])
  BY DEF Shows
<1> QED BY <1>1 DEF Seen, BaseRecord, is_short, is_overdue, Enqueued

LEMMA DequeueShown ==
  ASSUME NEW k, NEW n \in Int, Good(k, {}, n), NEW b, NEW l, Shows(k, b, l),
         NEW p \in Pid, k.task[p].array # NULL,
         NEW j, j = dequeue_task(k, p, k.task[p].array),
         NEW c, c = Base!dequeue_task(b, p, b.task[p].array)
  PROVE  Shows(j, c, l) /\ Good(j, {p}, n + 1)
<1>1. p \in Task /\ k.task[p].prio \in Prio
  BY DEF Good, Typed, Proper, Task
<1>2. k.task[p].array \in {0, 1} /\ b.task[p].array = k.task[p].array /\ b.task[p].prio = k.task[p].prio
  BY <1>1, ShownTask DEF Seen
<1>3. j \in Kernel /\ Good(j, {p}, n + 1) /\ Takes(k, j, p, Slot(k.task[p]))
  BY SchedDequeue
<1>4. b \in BaseKernel
  BY DEF Shows
<1>5. c \in BaseKernel /\ Takes(b, c, p, Slot(k.task[p]))
  BY <1>1, <1>2, <1>4, BaseDequeue DEF Slot
<1> QED BY <1>1, <1>3, <1>5, ShownTakes

LEMMA SeenPut ==
  ASSUME NEW t \in TaskRecord, NEW u \in BaseRecord, NEW s, Seen(t, u, s), NEW a \in {0, 1},
         NEW r, r = [t EXCEPT !.array = a, !.queued = TRUE], NEW v, v = [u EXCEPT !.array = a]
  PROVE  Seen(r, v, s)
<1>1. r \in TaskRecord
  <2>1. a \in ArrayId
    BY DEF ArrayId
  <2> QED BY <2>1 DEF TaskRecord
<1>2. v \in BaseRecord
  BY DEF BaseRecord
<1>3. r.array = v.array
  BY DEF TaskRecord, BaseRecord
<1> QED BY <1>1, <1>2, <1>3 DEF Seen, TaskRecord, BaseRecord

LEMMA EnqueueShown ==
  ASSUME NEW k, NEW b, NEW l, Shows(k, b, l),
         NEW p \in Pid, NEW a \in {0, 1}, k.task[p].prio \in Prio,
         NEW j, j = enqueue_task(k, p, a), NEW c, c = Base!enqueue_task(b, p, a)
  PROVE  Shows(j, c, l)
<1>1. p \in Task
  BY DEF Task
<1>2. PICK t \in TaskRecord, u \in BaseRecord : t = k.task[p] /\ u = b.task[p] /\ Seen(t, u, l[p])
  BY <1>1, ShownTask
<1>3. PICK r : r = Put(t, a) /\ r = [t EXCEPT !.array = a, !.queued = TRUE]
  BY DEF Put
<1>4. PICK v : v = [u EXCEPT !.array = a]
  OBVIOUS
<1>5. Seen(r, v, l[p])
  BY <1>2, <1>3, <1>4, SeenPut
<1>6. k \in Kernel /\ b \in BaseKernel /\ u.prio = t.prio
  BY <1>2 DEF Shows, Seen
<1>7. j \in Kernel /\ Puts(k, j, p, <<a, t.prio>>, r)
  <2>1. k.task[p].prio = t.prio /\ Put(k.task[p], a) = r
    BY <1>2, <1>3
  <2> QED BY <1>6, <2>1, SchedEnqueue
<1>8. c \in BaseKernel /\ Puts(b, c, p, <<a, t.prio>>, v)
  BY <1>2, <1>4, <1>6, BaseEnqueue
<1> QED BY <1>1, <1>5, <1>7, <1>8, ShownPuts

\* activate_task puts the task on the same list.
LEMMA ActivateShown ==
  ASSUME NEW k, NEW n \in Int, Good(k, {}, n), NEW b, NEW l, Shows(k, b, l),
         NEW p \in Pid, ~ Enqueued(k.task[p]), NEW prio, FitPrio(k.task[p], prio),
         NEW j, j = activate_task(k, p, prio), NEW c, c = Base!activate_task(b, p, prio)
  PROVE  Shows(j, c, l) /\ Good(j, {}, n)
<1>1. p \in Task /\ prio \in Prio /\ prio \in Int /\ k \in Kernel /\ b \in BaseKernel
  BY PrioAssumption DEF Good, Typed, Task, FitPrio, Prio, Shows
<1>2. PICK t \in TaskRecord, u \in BaseRecord : t = k.task[p] /\ u = b.task[p] /\ Seen(t, u, l[p])
  BY <1>1, ShownTask
<1>3. PICK r : r = [t EXCEPT !.prio = prio]
  OBVIOUS
<1>4. PICK v : v = [u EXCEPT !.prio = prio]
  OBVIOUS
<1>5. Seen(r, v, l[p]) /\ r \in TaskRecord /\ v \in BaseRecord /\ r.prio = prio
  BY <1>1, <1>2, <1>3, <1>4 DEF Seen, TaskRecord, BaseRecord
<1>6. PICK i : i = Set(k, p, r)
  OBVIOUS
<1>7. PICK e : e = [b EXCEPT !.task[p].prio = prio]
  OBVIOUS
<1>8. e \in BaseKernel /\ Writes(b, e, p, v)
  BY <1>1, <1>2, <1>4, <1>5, <1>7 DEF BaseKernel, Writes, Same, ListsKept, Alone
<1>9. Shows(i, e, l) /\ i \in Kernel /\ Writes(k, i, p, r)
  BY <1>1, <1>5, <1>6, <1>8, SetShown, SchedSet
<1>10. i.task[p].prio \in Prio /\ ~ is_short(i.task[p]) /\ ~ is_overdue(i.task[p])
  BY <1>1, <1>5, <1>9, ShownTask DEF Writes, Alone
<1>11. i.active \in {0, 1} /\ i.active = b.active
  BY <1>9 DEF Writes, Same, Kernel, Shows
<1>12. PICK m : m = enqueue_task(i, p, i.active)
  OBVIOUS
<1>13. j = [m EXCEPT !.nr_running = @ + 1]
  BY <1>2, <1>3, <1>6, <1>10, <1>12 DEF activate_task, hw2_enqueue
<1>14. c = Base!enqueue_task(e, p, i.active)
  BY <1>7, <1>11 DEF Base!activate_task
<1>15. Good(j, {}, n) /\ j \in Kernel
  <2>1. Good(j, {}, n)
    BY ActivateTask
  <2> QED BY <2>1 DEF Good, Typed
<1>17. Shows(m, c, l)
  BY <1>9, <1>10, <1>11, <1>12, <1>14, EnqueueShown
<1>16. Alike(m, j)
  BY <1>13, <1>17 DEF Shows, Kernel, Alike
<1> QED BY <1>15, <1>16, <1>17, ShownAlike

\* deactivate_task takes it off.
LEMMA DeactivateShown ==
  ASSUME NEW k, NEW n \in Int, Good(k, {}, n), NEW b, NEW l, Shows(k, b, l),
         NEW p \in Pid, k.task[p].array # NULL,
         NEW j, j = deactivate_task(k, p), NEW c, c = Base!deactivate_task(b, p)
  PROVE  Shows(j, c, l) /\ Good(j, {}, n) /\ ~ Enqueued(j.task[p])
<1>1. p \in Task /\ Enqueued(k.task[p])
  BY ShownTask DEF Task
<1>2. PICK e : e = [k EXCEPT !.nr_running = @ - 1,
                             !.nr_uninterruptible =
                               IF k.task[p].state = "UNINTERRUPTIBLE" THEN @ + 1 ELSE @]
  OBVIOUS
<1>3. e \in Kernel /\ Recount(k, e, -1)
  <2>1. k \in Kernel /\ k.nr_running \in Int /\ k.nr_uninterruptible \in Int
    BY DEF Good, Typed, Kernel
  <2>2. PICK v \in Int : v = k.nr_running - 1 /\ v = k.nr_running + (-1)
    BY <2>1
  <2>3. PICK u \in Int : u = IF k.task[p].state = "UNINTERRUPTIBLE"
                             THEN k.nr_uninterruptible + 1 ELSE k.nr_uninterruptible
    BY <2>1
  <2>4. e = [k EXCEPT !.nr_running = v, !.nr_uninterruptible = u]
    BY <1>2, <2>2, <2>3
  <2> QED BY <2>1, <2>2, <2>4 DEF Kernel, Recount
<1>4. PICK m \in Int : n = m + 1 /\ n + (-1) = m
  OBVIOUS
<1>5. Good(e, {}, m) /\ Shows(e, b, l) /\ e.task = k.task
  BY <1>3, <1>4, Recounted, ShownAlike DEF Recount, Alike
<1>6. PICK i : i = dequeue_task(e, p, e.task[p].array)
  OBVIOUS
<1>7. PICK d : d = Base!dequeue_task(b, p, b.task[p].array)
  OBVIOUS
<1>8. Shows(i, d, l)
  BY <1>5, <1>6, <1>7, DequeueShown
<1>9. PICK t \in TaskRecord, u \in BaseRecord : t = i.task[p] /\ u = d.task[p] /\ Seen(t, u, l[p])
  BY <1>1, <1>8, ShownTask
<1>10. PICK r : r = [t EXCEPT !.array = NULL]
  OBVIOUS
<1>11. PICK v : v = [u EXCEPT !.array = NULL]
  OBVIOUS
<1>12. Seen(r, v, l[p]) /\ v \in BaseRecord
  <2>1. /\ r \in TaskRecord /\ r.policy = t.policy /\ r.prio = t.prio
        /\ r.static_prio = t.static_prio /\ r.state = t.state /\ r.time_slice = t.time_slice
        /\ r.first_time_slice = t.first_time_slice /\ r.remaining_trials = t.remaining_trials
        /\ r.array = NULL /\ r.need_resched = t.need_resched
    BY <1>9, <1>10 DEF TaskRecord, NULL
  <2>2. /\ v \in BaseRecord /\ v.policy = u.policy /\ v.prio = u.prio
        /\ v.static_prio = u.static_prio /\ v.state = u.state /\ v.time_slice = u.time_slice
        /\ v.first_time_slice = u.first_time_slice /\ v.array = NULL
        /\ v.need_resched = u.need_resched
    BY <1>9, <1>11 DEF BaseRecord, NULL
  <2> QED BY <1>9, <2>1, <2>2 DEF Seen
<1>13. j = Set(i, p, r)
  <2>1. ~ is_overdue(e.task[p])
    BY <1>1, <1>5, ShownTask
  <2> QED BY <1>2, <1>5, <1>6, <1>9, <1>10, <2>1, Zenon DEF deactivate_task, hw2_dequeue
<1>14. c \in BaseKernel /\ Writes(d, c, p, v)
  <2>1. d \in BaseKernel
    BY <1>8, SMTT(30) DEF Shows
  <2>2. c = [d EXCEPT !.task[p] = v]
    BY <1>7, <1>9, <1>11, <2>1 DEF Base!deactivate_task, BaseKernel, Base!NULL, NULL
  <2> QED BY <1>1, <1>12, <2>1, <2>2, BaseSet
<1>15. Good(j, {}, n) /\ ~ Enqueued(j.task[p])
  BY <1>1, DeactivateTask
<1> QED BY <1>1, <1>8, <1>12, <1>13, <1>14, <1>15, SetShown

\* Who gives way to whom, among tasks that are not SHORT.
LEMMA GivesWay ==
  ASSUME NEW t \in TaskRecord, NEW u \in TaskRecord, ~ is_short(t), ~ is_short(u)
  PROVE  should_switch(t, u) <=> u.prio < t.prio
<1>1. t.prio \in Int /\ u.prio \in Int /\ MAX_RT_PRIO \in Int
  BY PrioAssumption DEF TaskRecord, MAX_RT_PRIO
<1> QED BY <1>1 DEF should_switch, is_overdue, rt_task

LEMMA GiveWayShown ==
  ASSUME NEW k, NEW b, NEW l, Shows(k, b, l), NEW p \in Task, NEW res \in 0 .. 7,
         NEW j, j = OVERDUE_PUSH_BACK(UPDATE_REASON(resched_task(k, p), p, res), p),
         NEW c, c = [b EXCEPT !.task[p].need_resched = TRUE]
  PROVE  Shows(j, c, l)
<1>1. PICK i : i = resched_task(k, p)
  OBVIOUS
<1>2. PICK h : h = UPDATE_REASON(i, p, res)
  OBVIOUS
<1>3. Shows(h, c, l)
  BY <1>1, <1>2, ReschedShown, ReasonShown
<1>4. ~ is_overdue(h.task[p])
  BY <1>3, ShownTask
<1> QED BY <1>1, <1>2, <1>3, <1>4 DEF OVERDUE_PUSH_BACK

\* try_to_wake_up queues the task, and may have the current one give way.
LEMMA TryToWakeUpShown ==
  ASSUME NEW k, NEW n \in Int, Good(k, {}, n), NEW b, NEW l, Shows(k, b, l),
         NEW p \in Pid, l[p] = "own", NEW prio, FitPrio(k.task[p], prio),
         NEW j, j = try_to_wake_up(k, p, prio), NEW c, c = Base!try_to_wake_up(b, p, prio)
  PROVE  Shows(j, c, l)
<1>1. p \in Task /\ k \in Kernel /\ b \in BaseKernel /\ k.curr \in Task
  BY DEF Task, Shows, Kernel
<1>2. PICK e : e = [k EXCEPT !.nr_uninterruptible =
                               IF k.task[p].state = "UNINTERRUPTIBLE" THEN @ - 1 ELSE @]
  OBVIOUS
<1>3. e \in Kernel /\ Recount(k, e, 0)
  <2>1. k.nr_uninterruptible \in Int /\ k.nr_running \in Int
    BY <1>1 DEF Kernel
  <2>2. PICK x \in Int : x = IF k.task[p].state = "UNINTERRUPTIBLE" THEN k.nr_uninterruptible - 1
                             ELSE k.nr_uninterruptible
    BY <2>1
  <2>3. e = [k EXCEPT !.nr_uninterruptible = x]
    BY <1>2, <2>2
  <2>4. e \in Kernel
    BY ONLY <1>1, <2>3, x \in Int DEF Kernel
  <2>5. /\ e.active = k.active /\ e.curr = k.curr /\ e.task = k.task
        /\ e.nr_active = k.nr_active /\ e.bitmap = k.bitmap
        /\ e.queue = k.queue /\ e.overdue = k.overdue /\ e.nr_running = k.nr_running
    BY ONLY <1>1, <2>3 DEF Kernel
  <2> QED BY <2>1, <2>4, <2>5 DEF Recount
<1>4. Good(e, {}, n) /\ Shows(e, b, l) /\ e.task = k.task
  <2>1. 0 \in Int /\ n + 0 = n
    OBVIOUS
  <2> QED BY <1>3, <2>1, Recounted, ShownAlike DEF Recount, Alike
<1>5. PICK i, d : i = activate_task(e, p, prio) /\ d = Base!activate_task(b, p, prio)
  OBVIOUS
<1>6. PICK f, g :
        /\ f = IF should_switch(i.task[k.curr], i.task[p])
               THEN OVERDUE_PUSH_BACK(UPDATE_REASON(resched_task(i, k.curr), k.curr, PRIO), k.curr)
               ELSE i
        /\ g = IF d.task[p].prio < d.task[b.curr].prio THEN Base!resched_task(d) ELSE d
  OBVIOUS
<1>7. ASSUME ~ Enqueued(k.task[p])
      PROVE  Shows(f, g, l)
  <2>1. Shows(i, d, l)
    BY <1>4, <1>5, <1>7, ActivateShown
  <2>2. d.curr = k.curr /\ b.curr = k.curr
    <3>1. Apart(e, i, p)
      BY <1>4, <1>5, <1>7, ActivateTask
    <3> QED BY <1>3, <2>1, <3>1 DEF Shows, Apart, Recount
  <2>3. /\ i.task[p] \in TaskRecord /\ i.task[k.curr] \in TaskRecord
        /\ ~ is_short(i.task[p]) /\ ~ is_short(i.task[k.curr])
        /\ d.task[p].prio = i.task[p].prio /\ d.task[k.curr].prio = i.task[k.curr].prio
    BY <1>1, <2>1, ShownTask DEF Seen
  <2>4. should_switch(i.task[k.curr], i.task[p]) <=> d.task[p].prio < d.task[b.curr].prio
    BY <2>2, <2>3, GivesWay
  <2>5. CASE d.task[p].prio < d.task[b.curr].prio
    <3>1. g = [d EXCEPT !.task[k.curr].need_resched = TRUE]
      BY <1>6, <2>2, <2>5 DEF Base!resched_task
    <3>2. PRIO \in 0 .. 7
      BY DEF PRIO
    <3> QED BY <1>1, <1>6, <2>1, <2>4, <2>5, <3>1, <3>2, GiveWayShown
  <2>6. CASE ~ (d.task[p].prio < d.task[b.curr].prio)
    BY <1>6, <2>1, <2>4, <2>6
  <2> QED BY <2>5, <2>6
<1>8. PICK x, y : /\ x = IF Enqueued(k.task[p]) THEN k ELSE f
                  /\ y = IF b.task[p].array = NULL THEN g ELSE b
  OBVIOUS
<1>9. Shows(x, y, l)
  <2>1. b.task[p].array = NULL <=> ~ Enqueued(k.task[p])
    BY <1>1, ShownTask DEF Seen
  <2> QED BY <1>7, <1>8, <2>1
<1>10. PICK t \in TaskRecord, u \in BaseRecord : t = x.task[p] /\ u = y.task[p] /\ Seen(t, u, l[p])
  BY <1>1, <1>9, ShownTask
<1>11. PICK r : r = [t EXCEPT !.state = "RUNNING"]
  OBVIOUS
<1>12. PICK v : v = [u EXCEPT !.state = "RUNNING"]
  OBVIOUS
<1>13. Seen(r, v, l[p]) /\ v \in BaseRecord
  <2>1. /\ r \in TaskRecord /\ r.policy = t.policy /\ r.prio = t.prio
        /\ r.static_prio = t.static_prio /\ r.state = "RUNNING" /\ r.time_slice = t.time_slice
        /\ r.first_time_slice = t.first_time_slice /\ r.remaining_trials = t.remaining_trials
        /\ r.array = t.array /\ r.need_resched = t.need_resched
    BY <1>10, <1>11 DEF TaskRecord, States
  <2>2. /\ v \in BaseRecord /\ v.policy = u.policy /\ v.prio = u.prio
        /\ v.static_prio = u.static_prio /\ v.state = "RUNNING" /\ v.time_slice = u.time_slice
        /\ v.first_time_slice = u.first_time_slice /\ v.array = u.array
        /\ v.need_resched = u.need_resched
    BY <1>10, <1>12 DEF BaseRecord, BaseStates, States
  <2> QED BY <1>10, <2>1, <2>2 DEF Seen
<1>14. j = Set(x, p, r)
  BY <1>2, <1>5, <1>6, <1>8, <1>10, <1>11, Zenon DEF try_to_wake_up
<1>15. c = [y EXCEPT !.task[p] = v]
  <2>1. c = [y EXCEPT !.task[p].state = "RUNNING"]
    BY <1>5, <1>6, <1>8 DEF Base!try_to_wake_up, Base!NULL, NULL
  <2>2. y \in BaseKernel
    BY <1>9 DEF Shows
  <2> QED BY <1>10, <1>12, <2>1, <2>2 DEF BaseKernel
<1>16. c \in BaseKernel /\ Writes(y, c, p, v)
  <2>1. y \in BaseKernel
    BY <1>9 DEF Shows
  <2> QED BY <1>1, <1>13, <1>15, <2>1, BaseSet
<1> QED BY <1>1, <1>9, <1>13, <1>14, <1>16, SetShown

\* effective_prio and what activation may make of it are the same.
LEMMA PriosShown ==
  ASSUME NEW t, NEW u, NEW s, Seen(t, u, s)
  PROVE  /\ effective_prio(t) = Base!effective_prio(u)
         /\ ActivationPrios(t) = Base!ActivationPrios(u)
         /\ rt_task(t) <=> Base!rt_task(u)
         /\ TASK_TIMESLICE(t) = Base!TASK_TIMESLICE(u)
<1>1. /\ t.static_prio = u.static_prio /\ t.prio = u.prio /\ ~ is_short(t)
      /\ t.static_prio \in Int
  BY DEF Seen, BaseRecord, is_short
<1>2. \A x \in Bonus : Min({Max({t.static_prio - x, MAX_RT_PRIO}), MAX_PRIO - 1})
                         = Base!Clamped(u.static_prio - x)
  <2>1. TAKE x \in Bonus
  <2>2. PICK y \in Int : y = t.static_prio - x /\ y = u.static_prio - x
    BY <1>1, BonusAssumption
  <2>3. MAX_RT_PRIO \in Int /\ MAX_PRIO - 1 \in Int /\ MAX_PRIO - 1 > MAX_RT_PRIO /\ MAX_PRIO \in Int
    BY PrioAssumption DEF MAX_RT_PRIO
  <2>4. PICK z \in Int : z = Max({y, MAX_RT_PRIO}) /\ z = IF y >= MAX_RT_PRIO THEN y ELSE MAX_RT_PRIO
    BY <2>2, <2>3, MaxMin
  <2>5. Min({z, MAX_PRIO - 1}) = IF z <= MAX_PRIO - 1 THEN z ELSE MAX_PRIO - 1
    BY <2>3, <2>4, MaxMin
  <2>6. Base!Clamped(y) = IF y < MAX_RT_PRIO THEN MAX_RT_PRIO ELSE IF y >= MAX_PRIO THEN MAX_PRIO - 1 ELSE y
    BY DEF Base!Clamped, Base!MAX_RT_PRIO, MAX_RT_PRIO
  <2>7. Min({z, MAX_PRIO - 1}) = Base!Clamped(y)
    BY ONLY y \in Int, z \in Int, <2>3, <2>4, <2>5, <2>6
  <2> QED BY <2>2, <2>4, <2>7
<1>3. effective_prio(t) = Base!effective_prio(u)
  BY <1>1, <1>2 DEF effective_prio, Base!effective_prio
<1>4. rt_task(t) <=> Base!rt_task(u)
  BY <1>1 DEF rt_task, Base!rt_task, MAX_RT_PRIO, Base!MAX_RT_PRIO
<1>5. TASK_TIMESLICE(t) = Base!TASK_TIMESLICE(u)
  BY <1>1 DEF TASK_TIMESLICE, Base!TASK_TIMESLICE, MAX_RT_PRIO, Base!MAX_RT_PRIO
<1> QED BY <1>1, <1>3, <1>4, <1>5 DEF ActivationPrios, Base!ActivationPrios

-----------------------------------------------------------------------------
(* Several changes in a row.                                               *)

\* p left the list h, and its record is t.
Shed(m, n, p, h, t) ==
  /\ Same(m, n) /\ Alone(m, n, p, t)
  /\ \A g \in BothArrays : n.queue[g] = IF g = h THEN Without(m.queue[g], p) ELSE m.queue[g]

LEMMA InARow ==
  ASSUME NEW m, NEW i, NEW j, NEW p \in Task, NEW t, NEW u, NEW h, NEW g
  PROVE  /\ Writes(m, i, p, t) /\ Writes(i, j, p, u) => Writes(m, j, p, u)
         /\ Writes(m, i, p, t) /\ Takes(i, j, p, h) => Shed(m, j, p, h, t)
         /\ Takes(m, i, p, h) /\ Writes(i, j, p, u) => Shed(m, j, p, h, u)
         /\ Shed(m, i, p, h, t) /\ Writes(i, j, p, u) => Shed(m, j, p, h, u)
         /\ Shed(m, i, p, h, t) /\ Puts(i, j, p, g, u) => Shifts(m, j, p, h, g, u)
<1>1. Writes(m, i, p, t) /\ Writes(i, j, p, u) => Writes(m, j, p, u)
  BY DEF Writes, Same, ListsKept, Alone
<1>2. Writes(m, i, p, t) /\ Takes(i, j, p, h) => Shed(m, j, p, h, t)
  BY DEF Writes, Same, ListsKept, Alone, Takes, Shed
<1>3. Takes(m, i, p, h) /\ Writes(i, j, p, u) => Shed(m, j, p, h, u)
  BY DEF Writes, Same, ListsKept, Alone, Takes, Shed
<1>4. Shed(m, i, p, h, t) /\ Writes(i, j, p, u) => Shed(m, j, p, h, u)
  BY DEF Writes, Same, ListsKept, Alone, Shed
<1>5. Shed(m, i, p, h, t) /\ Puts(i, j, p, g, u) => Shifts(m, j, p, h, g, u)
  BY DEF Same, Alone, Shed, Puts, Shifts
<1> QED BY <1>1, <1>2, <1>3, <1>4, <1>5

\* r is t, with need_resched set and maybe another reason.
Ended(r, t) ==
  /\ r \in TaskRecord /\ r.need_resched
  /\ r.policy = t.policy /\ r.prio = t.prio /\ r.static_prio = t.static_prio /\ r.state = t.state
  /\ r.time_slice = t.time_slice /\ r.first_time_slice = t.first_time_slice
  /\ r.remaining_trials = t.remaining_trials /\ r.array = t.array /\ r.queued = t.queued

LEMMA EndOfSliceWrites ==
  ASSUME NEW k \in Kernel, NEW p \in Task, NEW j, j = EndOfSlice(k, p)
  PROVE  \E r : j \in Kernel /\ Writes(k, j, p, r) /\ Ended(r, k.task[p])
<1>1. PICK t \in TaskRecord : t = k.task[p]
  BY DEF Kernel
<1>2. PICK u : u = [t EXCEPT !.need_resched = TRUE]
  OBVIOUS
<1>3. Ended(u, t)
  BY <1>2 DEF Ended, TaskRecord
<1>4. PICK i : i = Set(k, p, u)
  OBVIOUS
<1>5. i \in Kernel /\ Writes(k, i, p, u) /\ i = resched_task(k, p)
  BY <1>1, <1>2, <1>3, <1>4, SchedSet DEF Ended, resched_task
<1>6. i.task[p] = u
  BY <1>5 DEF Writes, Alone
<1>7. PICK r : r = [u EXCEPT !.reason = SLICE]
  OBVIOUS
<1>8. Ended(r, t)
  <2>1. SLICE \in 0 .. 7
    BY DEF SLICE
  <2> QED BY <1>3, <1>7, <2>1 DEF Ended, TaskRecord
<1>9. j = i \/ j = Set(i, p, r)
  BY <1>5, <1>6, <1>7 DEF EndOfSlice, UPDATE_REASON
<1>10. CASE j = i
  BY <1>1, <1>3, <1>5, <1>10
<1>11. CASE j = Set(i, p, r)
  <2>1. j \in Kernel /\ Writes(i, j, p, r)
    BY <1>5, <1>8, <1>11, SchedSet DEF Ended
  <2>2. Writes(k, j, p, r)
    BY <1>5, <2>1, InARow
  <2> QED BY <1>1, <1>8, <2>1, <2>2
<1> QED BY <1>9, <1>10, <1>11

\* The list a task that is not SHORT is on, if any.
LEMMA ShownSlot ==
  ASSUME NEW k, NEW n \in Int, Good(k, {}, n), NEW b, NEW l, Shows(k, b, l), NEW p \in Pid
  PROVE  /\ p \in Task /\ k \in Kernel /\ b \in BaseKernel
         /\ k.task[p].prio \in Prio /\ b.task[p].prio = k.task[p].prio
         /\ k.active \in {0, 1} /\ b.active = k.active /\ b.task[p].array = k.task[p].array
<1>1. p \in Task /\ k \in Kernel /\ b \in BaseKernel /\ k.task[p].prio \in Prio
  BY DEF Task, Good, Typed, Proper, Shows
<1>2. Seen(k.task[p], b.task[p], l[p])
  BY <1>1, ShownTask
<1> QED BY <1>1, <1>2 DEF Seen, Shows, Kernel

\* The end of a slice in the baseline.
BaseRefills(b, c, p, u, prio, a) ==
  \E v \in BaseRecord :
    /\ c \in BaseKernel /\ Shifts(b, c, p, <<b.active, u.prio>>, <<a, prio>>, v)
    /\ v.policy = u.policy /\ v.prio = prio /\ v.static_prio = u.static_prio /\ v.state = u.state
    /\ v.time_slice = Base!TASK_TIMESLICE(u) /\ v.first_time_slice = FALSE
    /\ v.array = a /\ v.need_resched = TRUE

LEMMA BaseEndOfSlice ==
  ASSUME NEW b \in BaseKernel, NEW p \in Pid, p = b.curr, b.task[p].prio \in Prio,
         NEW prio \in Prio, NEW a \in {0, 1},
         Base!TASK_TIMESLICE(b.task[p]) \in Nat, NEW c, c = Base!EndOfSlice(b, p, prio, a),
         NEW u, u = b.task[p]
  PROVE  BaseRefills(b, c, p, u, prio, a)
<1>1. p \in Task /\ b.active \in {0, 1} /\ u \in BaseRecord /\ prio \in Int
  BY DEF Task, BaseKernel, Prio
<1>2. PICK d : d = Base!dequeue_task(b, p, b.active)
  OBVIOUS
<1>3. d \in BaseKernel /\ Takes(b, d, p, <<b.active, u.prio>>)
  BY <1>1, <1>2, BaseDequeue
<1>4. d.task[p] = u /\ d.curr = p
  BY <1>1, <1>3 DEF Takes, Same
<1>5. PICK s \in Nat : s = Base!TASK_TIMESLICE(u)
  OBVIOUS
<1>6. PICK v1 : v1 = [u EXCEPT !.prio = prio, !.first_time_slice = FALSE, !.time_slice = s]
  OBVIOUS
<1>7. /\ v1 \in BaseRecord /\ v1.policy = u.policy /\ v1.prio = prio /\ v1.static_prio = u.static_prio
      /\ v1.state = u.state /\ v1.time_slice = s /\ v1.first_time_slice = FALSE
  BY <1>1, <1>6 DEF BaseRecord
<1>8. PICK e : e = [d EXCEPT !.task[p] = v1]
  OBVIOUS
<1>9. e \in BaseKernel /\ Writes(d, e, p, v1)
  BY <1>1, <1>3, <1>7, <1>8, BaseSet
<1>10. e = [d EXCEPT !.task[p].prio = prio, !.task[p].first_time_slice = FALSE, !.task[p].time_slice = s]
  BY <1>1, <1>3, <1>4, <1>6, <1>8 DEF BaseKernel, BaseRecord
<1>11. PICK v2 : v2 = [v1 EXCEPT !.need_resched = TRUE]
  OBVIOUS
<1>12. /\ v2 \in BaseRecord /\ v2.policy = u.policy /\ v2.prio = prio /\ v2.static_prio = u.static_prio
       /\ v2.state = u.state /\ v2.time_slice = s /\ v2.first_time_slice = FALSE /\ v2.need_resched = TRUE
  BY <1>7, <1>11 DEF BaseRecord
<1>13. PICK f : f = [e EXCEPT !.task[p] = v2]
  OBVIOUS
<1>14. f \in BaseKernel /\ Writes(e, f, p, v2)
  BY <1>1, <1>9, <1>12, <1>13, BaseSet
<1>15. f = Base!resched_task(e)
  <2>1. e.curr = p /\ e.task[p] = v1
    BY <1>4, <1>9 DEF Writes, Same, Alone
  <2> QED BY <1>1, <1>9, <1>11, <1>13, <2>1 DEF Base!resched_task, BaseKernel
<1>16. c = Base!enqueue_task(f, p, a)
  BY <1>2, <1>5, <1>10, <1>15 DEF Base!EndOfSlice
<1>17. f.task[p] = v2
  BY <1>14 DEF Writes, Alone
<1>18. PICK v : v = [v2 EXCEPT !.array = a]
  OBVIOUS
<1>19. /\ v \in BaseRecord /\ v.policy = u.policy /\ v.prio = prio /\ v.static_prio = u.static_prio
       /\ v.state = u.state /\ v.time_slice = s /\ v.first_time_slice = FALSE /\ v.need_resched = TRUE
       /\ v.array = a
  BY <1>12, <1>18 DEF BaseRecord
<1>20. c \in BaseKernel /\ Puts(f, c, p, <<a, prio>>, v)
  BY <1>12, <1>14, <1>16, <1>17, <1>18, BaseEnqueue
<1>21. Shed(b, e, p, <<b.active, u.prio>>, v1)
  BY <1>1, <1>3, <1>9, InARow
<1>22. Shed(b, f, p, <<b.active, u.prio>>, v2)
  BY <1>1, <1>14, <1>21, InARow
<1>23. Shifts(b, c, p, <<b.active, u.prio>>, <<a, prio>>, v)
  BY <1>1, <1>20, <1>22, InARow
<1> QED BY <1>5, <1>19, <1>20, <1>23 DEF BaseRefills

\* A record of p at the end of its slice, as it is put back.
Refilled(r, t, prio, a) ==
  /\ r \in TaskRecord /\ r.need_resched = TRUE /\ r.policy = t.policy /\ r.prio = prio
  /\ r.static_prio = t.static_prio /\ r.state = t.state
  /\ r.time_slice = TASK_TIMESLICE(t) /\ r.first_time_slice = FALSE
  /\ r.remaining_trials = t.remaining_trials /\ r.array = a

LEMMA RotatesRealTime ==
  ASSUME NEW k, NEW n \in Int, Good(k, {}, n), NEW p \in Pid, NEW t, t = k.task[p],
         ~ is_short(t), t.array = k.active, t.policy = "RR", Decremented(t.time_slice) = 0,
         NEW j, j = TickRealTime(k, p)
  PROVE  \E r : /\ Refilled(r, t, t.prio, k.active) /\ j \in Kernel
                /\ Shifts(k, j, p, <<k.active, t.prio>>, <<k.active, t.prio>>, r)
<1>0. /\ t \in TaskRecord /\ Proper(t) /\ p \in Task /\ {} \in SUBSET Pid /\ k.active \in {0, 1}
      /\ k \in Kernel /\ t.prio \in Prio
  BY DEF Good, Typed, Proper, Task, Kernel
<1>1. PICK s \in Nat : s = TASK_TIMESLICE(t)
  BY <1>0, Slices
<1>2. PICK u : u = [t EXCEPT !.time_slice = s, !.first_time_slice = FALSE]
  OBVIOUS
<1>3. /\ u \in TaskRecord /\ u.array = t.array /\ u.queued = t.queued /\ u.prio = t.prio
      /\ u.remaining_trials = t.remaining_trials /\ u.state = t.state /\ u.policy = t.policy
      /\ u.static_prio = t.static_prio /\ u.time_slice = s /\ u.first_time_slice = FALSE
  BY <1>0, <1>2 DEF TaskRecord
<1>4. Proper(u) /\ SamePlace(u, t)
  BY <1>0, <1>3 DEF Proper, SamePlace, rt_task, is_overdue, is_short
<1>5. PICK i : i = Set(k, p, u)
  OBVIOUS
<1>6. Good(i, {}, n) /\ i.task[p] = u /\ i \in Kernel /\ Writes(k, i, p, u)
  <2>1. Good(i, {}, n) /\ i.task[p] = u
    BY <1>0, <1>3, <1>4, <1>5, Touched
  <2> QED BY <1>0, <1>3, <1>5, <2>1, SchedSet
<1>7. PICK e : e = EndOfSlice(i, p)
  OBVIOUS
<1>8. Good(e, {}, n) /\ SamePlace(e.task[p], u)
  BY <1>0, <1>6, <1>7, EndOfTurn
<1>9. PICK r : e \in Kernel /\ Writes(i, e, p, r) /\ Ended(r, u)
  BY <1>0, <1>6, <1>7, EndOfSliceWrites
<1>10. e.task[p] = r /\ e.active = k.active
  BY <1>6, <1>9 DEF Writes, Alone, Same
<1>11. r.array = k.active /\ r.array # NULL /\ r.prio = t.prio /\ Slot(r) = <<k.active, t.prio>>
  BY <1>0, <1>3, <1>9 DEF Ended, NULL, Slot
<1>12. PICK d : d = dequeue_task(e, p, e.active)
  OBVIOUS
<1>13. d \in Kernel /\ Takes(e, d, p, <<k.active, t.prio>>)
  BY <1>8, <1>10, <1>11, <1>12, SchedDequeue
<1>14. d.task[p] = r /\ d.active = k.active
  BY <1>0, <1>10, <1>13 DEF Takes, Same
<1>15. j = enqueue_task(d, p, e.active)
  BY <1>1, <1>2, <1>5, <1>7, <1>12 DEF TickRealTime
<1>16. PICK w : w = Put(r, k.active)
  OBVIOUS
<1>17. j \in Kernel /\ Puts(d, j, p, <<k.active, t.prio>>, w)
  BY <1>0, <1>10, <1>11, <1>13, <1>14, <1>15, <1>16, SchedEnqueue
<1>18. Refilled(w, t, t.prio, k.active)
  <2>1. k.active \in ArrayId
    BY <1>0 DEF ArrayId
  <2>2. r \in TaskRecord
    BY <1>9 DEF Ended
  <2>3. w = [r EXCEPT !.array = k.active, !.queued = TRUE]
    BY <1>16 DEF Put
  <2>4. /\ w \in TaskRecord /\ w.array = k.active /\ w.policy = r.policy /\ w.prio = r.prio
        /\ w.static_prio = r.static_prio /\ w.state = r.state /\ w.time_slice = r.time_slice
        /\ w.first_time_slice = r.first_time_slice /\ w.remaining_trials = r.remaining_trials
        /\ w.need_resched = r.need_resched
    BY <2>1, <2>2, <2>3 DEF TaskRecord
  <2> QED BY <1>1, <1>3, <1>9, <1>11, <2>2, <2>4 DEF Refilled, Ended, TaskRecord
<1>19. Writes(k, e, p, r)
  BY <1>0, <1>6, <1>9, InARow
<1>20. Shed(k, d, p, <<k.active, t.prio>>, r)
  BY <1>0, <1>13, <1>19, InARow
<1>21. Shifts(k, j, p, <<k.active, t.prio>>, <<k.active, t.prio>>, w)
  BY <1>0, <1>17, <1>20, InARow
<1> QED BY <1>17, <1>18, <1>21

LEMMA MovesOther ==
  ASSUME NEW k, NEW n \in Int, Good(k, {}, n), NEW p \in Pid, NEW t, t = k.task[p],
         t.policy = "OTHER", t.array = k.active, NEW prio \in UserPrio, NEW stay \in BOOLEAN,
         NEW j, j = ExpireOther(k, p, prio, stay), NEW a, a = IF stay THEN k.active ELSE 1 - k.active
  PROVE  \E r : /\ Refilled(r, t, prio, a) /\ j \in Kernel
                /\ Shifts(k, j, p, <<k.active, t.prio>>, <<a, prio>>, r)
<1>0. /\ t \in TaskRecord /\ p \in Task /\ k.active \in {0, 1} /\ k \in Kernel /\ t.prio \in Prio
      /\ a \in {0, 1} /\ t.array # NULL /\ Slot(t) = <<k.active, t.prio>>
  BY DEF Good, Typed, Proper, Task, Kernel, NULL, Slot
<1>1. PICK d : d = dequeue_task(k, p, k.active)
  OBVIOUS
<1>2. d \in Kernel /\ Takes(k, d, p, <<k.active, t.prio>>)
  BY <1>0, <1>1, SchedDequeue
<1>3. d.task[p] = t /\ d.active = k.active
  BY <1>0, <1>2 DEF Takes, Same
<1>4. PICK e : e = EndOfSlice(d, p)
  OBVIOUS
<1>5. PICK r : e \in Kernel /\ Writes(d, e, p, r) /\ Ended(r, t)
  BY <1>0, <1>2, <1>3, <1>4, EndOfSliceWrites
<1>6. e.task[p] = r /\ e.active = k.active /\ r \in TaskRecord
  BY <1>3, <1>5 DEF Writes, Alone, Same, Ended
<1>7. PICK s \in Nat : s = TASK_TIMESLICE(r) /\ s = TASK_TIMESLICE(t)
  <2>1. TASK_TIMESLICE(r) = TASK_TIMESLICE(t)
    BY <1>5 DEF Ended, TASK_TIMESLICE
  <2> QED BY <1>0, <2>1, Slices
<1>8. PICK u : u = [r EXCEPT !.prio = prio, !.first_time_slice = FALSE, !.time_slice = s]
  OBVIOUS
<1>9. prio \in Int /\ prio \in Prio
  BY PrioAssumption DEF UserPrio, Prio, MAX_RT_PRIO
<1>10. Refilled(u, t, prio, k.active)
  <2>1. /\ r.policy = t.policy /\ r.static_prio = t.static_prio /\ r.state = t.state
        /\ r.remaining_trials = t.remaining_trials /\ r.array = t.array /\ r.need_resched = TRUE
    BY <1>5 DEF Ended
  <2>2. /\ u \in TaskRecord /\ u.prio = prio /\ u.first_time_slice = FALSE /\ u.time_slice = s
        /\ u.policy = r.policy /\ u.static_prio = r.static_prio /\ u.state = r.state
        /\ u.remaining_trials = r.remaining_trials /\ u.array = r.array
        /\ u.need_resched = r.need_resched
    BY <1>6, <1>8, <1>9 DEF TaskRecord
  <2> QED BY <1>0, <1>7, <2>1, <2>2 DEF Refilled
<1>11. PICK i : i = Set(e, p, u)
  OBVIOUS
<1>12. i \in Kernel /\ Writes(e, i, p, u)
  BY <1>0, <1>5, <1>10, <1>11, SchedSet DEF Refilled
<1>13. i.task[p] = u
  BY <1>12 DEF Writes, Alone
<1>14. j = enqueue_task(i, p, a)
  BY <1>1, <1>4, <1>6, <1>7, <1>8, <1>11 DEF ExpireOther, expired
<1>15. PICK w : w = Put(u, a)
  OBVIOUS
<1>16. j \in Kernel /\ Puts(i, j, p, <<a, prio>>, w)
  BY <1>0, <1>9, <1>10, <1>12, <1>13, <1>14, <1>15, SchedEnqueue DEF Refilled
<1>17. Refilled(w, t, prio, a)
  <2>1. a \in ArrayId
    BY <1>0 DEF ArrayId
  <2>2. u \in TaskRecord
    BY <1>10 DEF Refilled
  <2>3. w = [u EXCEPT !.array = a, !.queued = TRUE]
    BY <1>15 DEF Put
  <2>4. /\ w \in TaskRecord /\ w.array = a /\ w.policy = u.policy /\ w.prio = u.prio
        /\ w.static_prio = u.static_prio /\ w.state = u.state /\ w.time_slice = u.time_slice
        /\ w.first_time_slice = u.first_time_slice /\ w.remaining_trials = u.remaining_trials
        /\ w.need_resched = u.need_resched
    BY <2>1, <2>2, <2>3 DEF TaskRecord
  <2> QED BY <1>10, <2>4 DEF Refilled
<1>18. Shed(k, e, p, <<k.active, t.prio>>, r)
  <2>1. p \in Task /\ Takes(k, d, p, <<k.active, t.prio>>) /\ Writes(d, e, p, r)
    BY <1>0, <1>2, <1>5
  <2> QED BY ONLY <2>1, InARow
<1>19. Shed(k, i, p, <<k.active, t.prio>>, u)
  BY <1>0, <1>12, <1>18, InARow
<1>20. Shifts(k, j, p, <<k.active, t.prio>>, <<a, prio>>, w)
  BY <1>0, <1>16, <1>19, InARow
<1> QED BY <1>16, <1>17, <1>20

\* The end of a slice is the same on either side.
LEMMA RefillShown ==
  ASSUME NEW k, NEW n \in Int, Good(k, {}, n), NEW b, NEW l, Shows(k, b, l),
         NEW p \in Pid, p = k.curr, NEW prio \in Prio, NEW a \in {0, 1},
         NEW j \in Kernel, NEW r, Refilled(r, k.task[p], prio, a),
         Shifts(k, j, p, <<k.active, k.task[p].prio>>, <<a, prio>>, r),
         NEW c, c = Base!EndOfSlice(b, p, prio, a)
  PROVE  Shows(j, c, l)
<1>1. PICK t \in TaskRecord, u \in BaseRecord : t = k.task[p] /\ u = b.task[p] /\ Seen(t, u, l[p])
  BY ShownTask DEF Task
<1>2. /\ p \in Task /\ b \in BaseKernel /\ u.prio \in Prio /\ u.prio = t.prio
      /\ b.active = k.active /\ p = b.curr
  BY <1>1, ShownSlot DEF Shows
<1>3. TASK_TIMESLICE(t) = Base!TASK_TIMESLICE(u) /\ Base!TASK_TIMESLICE(u) \in Nat
  BY <1>1, PriosShown, Slices
<1>4. PICK v \in BaseRecord :
        /\ c \in BaseKernel /\ Shifts(b, c, p, <<k.active, t.prio>>, <<a, prio>>, v)
        /\ v.policy = u.policy /\ v.prio = prio /\ v.static_prio = u.static_prio /\ v.state = u.state
        /\ v.time_slice = Base!TASK_TIMESLICE(u) /\ v.first_time_slice = FALSE
        /\ v.array = a /\ v.need_resched = TRUE
  <2>1. b.task[p].prio \in Prio /\ Base!TASK_TIMESLICE(b.task[p]) \in Nat /\ p = b.curr /\ b \in BaseKernel
    BY <1>1, <1>2, <1>3
  <2>2. BaseRefills(b, c, p, u, prio, a)
    BY <1>1, <2>1, BaseEndOfSlice
  <2> QED BY <1>2, <2>2 DEF BaseRefills
<1>5. Seen(r, v, l[p])
  <2>1. /\ r \in TaskRecord /\ r.policy = t.policy /\ r.prio = prio /\ r.static_prio = t.static_prio
        /\ r.state = t.state /\ r.time_slice = TASK_TIMESLICE(t) /\ r.first_time_slice = FALSE
        /\ r.remaining_trials = t.remaining_trials /\ r.array = a /\ r.need_resched = TRUE
    BY <1>1 DEF Refilled
  <2>2. /\ t.remaining_trials = 0 /\ u.policy = t.policy /\ u.static_prio = t.static_prio
        /\ u.state = (IF l[p] = "own" THEN t.state ELSE l[p])
    BY <1>1 DEF Seen
  <2> QED BY <1>3, <1>4, <2>1, <2>2 DEF Seen
<1> QED BY <1>1, <1>2, <1>4, <1>5, ShownShifts

\* Another time_slice on either side.
LEMMA SliceShown ==
  ASSUME NEW k, NEW b, NEW l, Shows(k, b, l), NEW p \in Task, NEW s \in Nat, NEW f \in BOOLEAN,
         NEW r, r = [k.task[p] EXCEPT !.time_slice = s, !.first_time_slice = f], NEW j, j = Set(k, p, r),
         NEW v, v = [b.task[p] EXCEPT !.time_slice = s, !.first_time_slice = f],
         NEW c, c = [b EXCEPT !.task[p] = v]
  PROVE  Shows(j, c, l)
<1>1. PICK t \in TaskRecord, u \in BaseRecord : t = k.task[p] /\ u = b.task[p] /\ Seen(t, u, l[p])
  BY ShownTask
<1>2. Seen(r, v, l[p]) /\ v \in BaseRecord
  BY <1>1 DEF Seen, TaskRecord, BaseRecord
<1>3. b \in BaseKernel
  BY DEF Shows
<1>4. c \in BaseKernel /\ Writes(b, c, p, v)
  BY <1>2, <1>3, BaseSet
<1> QED BY <1>2, <1>4, SetShown

\* One tick less.
LEMMA TickTaken ==
  ASSUME NEW k, NEW b, NEW l, Shows(k, b, l), NEW p \in Task, k.task[p].time_slice > 0,
         NEW j, j = Set(k, p, [k.task[p] EXCEPT !.time_slice = Decremented(@)]),
         NEW c, c = [b EXCEPT !.task[p].time_slice = @ - 1]
  PROVE  /\ Shows(j, c, l)
         /\ Decremented(k.task[p].time_slice) # 0 <=> b.task[p].time_slice # 1
<1>1. PICK t \in TaskRecord, u \in BaseRecord : t = k.task[p] /\ u = b.task[p] /\ Seen(t, u, l[p])
  BY ShownTask
<1>2. t.time_slice \in Nat /\ t.time_slice > 0 /\ u.time_slice = t.time_slice
  BY <1>1 DEF Seen, TaskRecord
<1>3. PICK s \in Nat : s = t.time_slice - 1 /\ s = Decremented(t.time_slice) /\ s = u.time_slice - 1
  BY <1>2 DEF Decremented
<1>5. b \in BaseKernel
  BY DEF Shows
<1>6. PICK r : r = [t EXCEPT !.time_slice = s]
  OBVIOUS
<1>7. PICK v : v = [u EXCEPT !.time_slice = s]
  OBVIOUS
<1>8. Seen(r, v, l[p]) /\ v \in BaseRecord
  BY <1>1, <1>6, <1>7 DEF Seen, TaskRecord, BaseRecord
<1>9. j = Set(k, p, r)
  BY <1>1, <1>3, <1>6
<1>10. c = [b EXCEPT !.task[p] = v]
  BY <1>1, <1>3, <1>5, <1>7 DEF BaseKernel
<1>11. c \in BaseKernel /\ Writes(b, c, p, v)
  BY <1>5, <1>8, <1>10, BaseSet
<1>12. Shows(j, c, l)
  BY <1>8, <1>9, <1>11, SetShown
<1> QED BY <1>1, <1>2, <1>3, <1>12

LEMMA EndShown ==
  ASSUME NEW k, NEW b, NEW l, Shows(k, b, l), NEW p \in Task, p = k.curr,
         NEW j, j = EndOfSlice(k, p), NEW c, c = Base!resched_task(b)
  PROVE  Shows(j, c, l)
<1>1. b.curr = p
  BY DEF Shows
<1>2. c = [b EXCEPT !.task[p].need_resched = TRUE]
  BY <1>1 DEF Base!resched_task
<1>3. SLICE \in 0 .. 7
  BY DEF SLICE
<1>4. PICK i : i = resched_task(k, p)
  OBVIOUS
<1>5. Shows(i, c, l)
  BY <1>2, <1>4, ReschedShown
<1> QED BY <1>3, <1>4, <1>5, ReasonShown DEF EndOfSlice

\* scheduler_tick.
LEMMA TickShown ==
  ASSUME NEW k, NEW n \in Int, Good(k, {}, n), CurrQueued(k), NEW b, NEW l, Shows(k, b, l),
         k.curr \in Pid => k.task[k.curr].time_slice > 0,
         NEW prio \in UserPrio, NEW stay \in BOOLEAN,
         NEW j, j = scheduler_tick(k, prio, stay), NEW c, c = Base!scheduler_tick(b, prio, stay)
  PROVE  Shows(j, c, l)
<1>1. PICK p \in Task : p = k.curr /\ p = b.curr
  BY DEF Shows, BaseKernel
<1>2. CASE p = Idle
  BY <1>1, <1>2 DEF scheduler_tick, Base!scheduler_tick
<1>3. CASE p # Idle
  <2>1. p \in Pid /\ k.task[p].time_slice > 0
    BY <1>1, <1>3 DEF Task
  <2>2. PICK t \in TaskRecord, u \in BaseRecord : t = k.task[p] /\ u = b.task[p] /\ Seen(t, u, l[p])
    BY ShownTask
  <2>3. /\ ~ is_short(t) /\ ~ is_overdue(t) /\ u.policy = t.policy /\ u.prio = t.prio
        /\ u.array = t.array /\ u.time_slice = t.time_slice /\ b.active = k.active
        /\ rt_task(t) <=> Base!rt_task(u)
    <3>1. rt_task(t) <=> Base!rt_task(u)
      BY <2>2, PriosShown
    <3>2. ~ is_short(t) /\ ~ is_overdue(t)
      BY <2>2, ShownTask
    <3> QED BY <2>2, <3>1, <3>2 DEF Seen, Shows
  <2>4. PICK i : i = Set(k, p, [t EXCEPT !.time_slice = Decremented(@)])
    OBVIOUS
  <2>5. PICK d : d = [b EXCEPT !.task[p].time_slice = @ - 1]
    OBVIOUS
  <2>6. Shows(i, d, l) /\ (Decremented(t.time_slice) # 0 <=> u.time_slice # 1)
    BY <2>1, <2>2, <2>4, <2>5, TickTaken
  <2>7. CASE t.array # k.active
    <3>1. j = EndOfSlice(k, p) /\ c = Base!resched_task(b)
      BY <1>1, <1>3, <2>2, <2>3, <2>7 DEF scheduler_tick, Base!scheduler_tick
    <3> QED BY <1>1, <3>1, EndShown
  <2>8. CASE t.array = k.active /\ rt_task(t)
    <3>1. j = TickRealTime(k, p)
      BY <1>1, <1>3, <2>2, <2>3, <2>8 DEF scheduler_tick
    <3>2. CASE t.policy # "RR"
      <4>1. j = k /\ c = b
        BY <1>1, <1>3, <2>2, <2>3, <2>8, <3>1, <3>2 DEF TickRealTime, Base!scheduler_tick
      <4> QED BY <4>1
    <3>3. CASE t.policy = "RR" /\ Decremented(t.time_slice) # 0
      <4>1. j = i
        BY <2>2, <2>4, <3>1, <3>3 DEF TickRealTime
      <4>2. c = d
        BY <1>1, <1>3, <2>2, <2>3, <2>5, <2>6, <2>8, <3>3 DEF Base!scheduler_tick
      <4> QED BY <2>6, <4>1, <4>2
    <3>4. CASE t.policy = "RR" /\ Decremented(t.time_slice) = 0
      <4>1. c = Base!EndOfSlice(b, p, t.prio, k.active)
        BY <1>1, <1>3, <2>2, <2>3, <2>6, <2>8, <3>4 DEF Base!scheduler_tick
      <4>2. PICK r : /\ Refilled(r, t, t.prio, k.active) /\ j \in Kernel
                     /\ Shifts(k, j, p, <<k.active, t.prio>>, <<k.active, t.prio>>, r)
        BY <2>1, <2>2, <2>3, <2>8, <3>1, <3>4, RotatesRealTime
      <4>3. t.prio \in Prio /\ k.active \in {0, 1}
        BY <2>1, <2>2, ShownSlot
      <4> QED BY <1>1, <2>1, <2>2, <4>1, <4>2, <4>3, RefillShown
    <3> QED BY <3>2, <3>3, <3>4
  <2>9. CASE t.array = k.active /\ ~ rt_task(t)
    <3>1. CASE Decremented(t.time_slice) # 0
      <4>1. j = i
        BY <1>1, <1>3, <2>2, <2>3, <2>4, <2>9, <3>1 DEF scheduler_tick
      <4>2. c = d
        BY <1>1, <1>3, <2>2, <2>3, <2>5, <2>6, <2>9, <3>1 DEF Base!scheduler_tick
      <4> QED BY <2>6, <4>1, <4>2
    <3>2. CASE Decremented(t.time_slice) = 0
      <4> PICK a : a = IF stay THEN k.active ELSE 1 - k.active
        OBVIOUS
      <4>1. j = ExpireOther(i, p, prio, stay)
        BY <1>1, <1>3, <2>2, <2>3, <2>4, <2>9, <3>2 DEF scheduler_tick
      <4>2. c = Base!EndOfSlice(b, p, prio, a)
        BY <1>1, <1>3, <2>2, <2>3, <2>6, <2>9, <3>2 DEF Base!scheduler_tick, Base!Expired
      <4>3. PICK w \in TaskRecord : /\ w = i.task[p] /\ i.active = k.active /\ Good(i, {}, n)
                      /\ Writes(k, i, p, w)
                      /\ w.policy = t.policy /\ w.prio = t.prio /\ w.static_prio = t.static_prio
                      /\ w.state = t.state /\ w.array = t.array /\ w.remaining_trials = t.remaining_trials
        <5>1. Decremented(t.time_slice) \in Nat
          BY <2>2, Slices
        <5>2. PICK w \in TaskRecord : w = [t EXCEPT !.time_slice = Decremented(t.time_slice)]
          BY <5>1 DEF TaskRecord
        <5>3. i = Set(k, p, w)
          BY <2>4, <5>2
        <5>4. /\ w.policy = t.policy /\ w.prio = t.prio /\ w.static_prio = t.static_prio
              /\ w.state = t.state /\ w.array = t.array /\ w.remaining_trials = t.remaining_trials
              /\ w.queued = t.queued
          BY <5>2 DEF TaskRecord
        <5>5. k \in Kernel /\ Proper(t)
          BY <2>1, <2>2 DEF Good, Typed
        <5>6. Proper(w) /\ SamePlace(w, t)
          BY <5>2, <5>4, <5>5 DEF Proper, SamePlace, rt_task, is_overdue, is_short
        <5>7. Good(i, {}, n) /\ i.task[p] = w
          BY <2>2, <5>3, <5>4, <5>6, Touched
        <5>8. Writes(k, i, p, w)
          BY <5>3, <5>5, SchedSet
        <5> QED BY <5>4, <5>7, <5>8 DEF Writes, Same
      <4>4. t.policy = "OTHER"
        <5>1. Proper(t)
          BY <2>1, <2>2 DEF Good, Typed
        <5> QED BY <2>3, <2>9, <5>1 DEF Proper, TaskRecord, Policies, is_short
      <4>5. PICK r : /\ Refilled(r, w, prio, a) /\ j \in Kernel
                     /\ Shifts(i, j, p, <<k.active, t.prio>>, <<a, prio>>, r)
        BY <2>1, <2>9, <4>1, <4>3, <4>4, MovesOther
      <4>6. Refilled(r, t, prio, a)
        BY <4>3, <4>5 DEF Refilled, TASK_TIMESLICE
      <4>7. Shifts(k, j, p, <<k.active, t.prio>>, <<a, prio>>, r)
        BY <4>3, <4>5 DEF Writes, Shifts, Same, ListsKept, Alone
      <4>8. prio \in Prio /\ a \in {0, 1}
        <5>1. k.active \in {0, 1}
          BY <2>1, ShownSlot
        <5> QED BY <5>1, PrioAssumption DEF UserPrio, Prio, MAX_RT_PRIO
      <4> QED BY <1>1, <2>1, <2>2, <4>2, <4>5, <4>6, <4>7, <4>8, RefillShown
    <3> QED BY <3>1, <3>2
  <2> QED BY <2>7, <2>8, <2>9
<1> QED BY <1>2, <1>3

-----------------------------------------------------------------------------
(* schedule().                                                             *)

\* Another state on either side.
LEMMA StateShown ==
  ASSUME NEW k, NEW b, NEW l, Shows(k, b, l), NEW p \in Task, l[p] = "own", NEW s \in States,
         NEW j, j = Set(k, p, [k.task[p] EXCEPT !.state = s]),
         NEW c, c = [b EXCEPT !.task[p].state = s]
  PROVE  Shows(j, c, l)
<1>1. PICK t \in TaskRecord, u \in BaseRecord : t = k.task[p] /\ u = b.task[p] /\ Seen(t, u, l[p])
  BY ShownTask
<1>2. PICK r : r = [t EXCEPT !.state = s]
  OBVIOUS
<1>3. PICK v : v = [u EXCEPT !.state = s]
  OBVIOUS
<1>4. Seen(r, v, l[p]) /\ v \in BaseRecord
  BY <1>1, <1>2, <1>3 DEF Seen, TaskRecord, BaseRecord, BaseStates, States
<1>5. b \in BaseKernel
  BY DEF Shows
<1>6. c = [b EXCEPT !.task[p] = v]
  BY <1>1, <1>3, <1>5 DEF BaseKernel
<1>7. c \in BaseKernel /\ Writes(b, c, p, v)
  BY <1>4, <1>5, <1>6, BaseSet
<1> QED BY <1>1, <1>2, <1>4, <1>7, SetShown

LEMMA PutPrevShown ==
  ASSUME NEW k, NEW n \in Int, Good(k, {}, n), CurrQueued(k), NEW b, NEW l, Shows(k, b, l),
         l[k.curr] = "own", NEW sig \in BOOLEAN,
         NEW j, j = PutPrev(k, sig), NEW c, c = Base!PutPrev(b, sig)
  PROVE  Shows(j, c, l)
<1>1. PICK p \in Task : p = k.curr /\ p = b.curr
  BY DEF Shows, BaseKernel
<1>2. PICK t \in TaskRecord, u \in BaseRecord : t = k.task[p] /\ u = b.task[p] /\ Seen(t, u, l[p])
  BY ShownTask
<1>3. u.state = t.state
  BY <1>1, <1>2 DEF Seen
<1>4. CASE t.state = "RUNNING"
  BY <1>1, <1>2, <1>3, <1>4 DEF PutPrev, Base!PutPrev
<1>5. CASE t.state # "RUNNING" /\ t.state = "INTERRUPTIBLE" /\ sig
  <2>1. j = Set(k, p, [k.task[p] EXCEPT !.state = "RUNNING"])
    BY <1>1, <1>2, <1>5 DEF PutPrev
  <2>2. c = [b EXCEPT !.task[p].state = "RUNNING"]
    BY <1>1, <1>2, <1>3, <1>5 DEF Base!PutPrev
  <2>3. "RUNNING" \in States
    BY DEF States
  <2> QED BY <1>1, <2>1, <2>2, <2>3, StateShown
<1>6. CASE t.state # "RUNNING" /\ ~ (t.state = "INTERRUPTIBLE" /\ sig)
  <2>1. p \in Pid /\ t.array # NULL
    <3>1. p # Idle
      BY <1>2, <1>6 DEF Good, Typed
    <3>2. p \in Pid
      BY <3>1 DEF Task
    <3> QED BY <1>1, <1>2, <3>2, ShownTask DEF CurrQueued
  <2>2. PICK i : i = deactivate_task(k, p)
    OBVIOUS
  <2>3. j = UPDATE_REASON(i, p, PREV_WAIT)
    BY <1>1, <1>2, <1>6, <2>2 DEF PutPrev
  <2>4. c = Base!deactivate_task(b, p)
    BY <1>1, <1>2, <1>3, <1>6 DEF Base!PutPrev
  <2>5. Shows(i, c, l)
    BY <1>2, <2>1, <2>2, <2>4, DeactivateShown
  <2>6. PREV_WAIT \in 0 .. 7
    BY DEF PREV_WAIT
  <2> QED BY <2>3, <2>5, <2>6, ReasonShown
<1> QED BY <1>4, <1>5, <1>6

\* The first list that is not empty.
LEMMA BitsAre ==
  ASSUME NEW k, NEW b, NEW a, {i \in Prio : <<a, i>> \in k.bitmap} = Base!Bits(b, a)
  PROVE  /\ Base!Bits(b, a) # {} => /\ FirstBit(k, a) = Base!FirstBit(b, a)
                                    /\ FirstBit(k, a) \in Base!Bits(b, a)
         /\ Base!Bits(b, a) = {} => FirstBit(k, a) = MAX_PRIO
<1>2. PICK B : B = Base!Bits(b, a)
  OBVIOUS
<1>1. B \subseteq Prio
  BY <1>2
<1>3. B \subseteq Prio /\ Prio \subseteq Nat /\ MAX_PRIO \in Nat /\ \A i \in Prio : i < MAX_PRIO
  BY ONLY <1>1, PrioAssumption DEF Prio
<1>4. FirstBit(k, a) = Min(B \cup {MAX_PRIO})
  BY <1>2 DEF FirstBit
<1>5. PICK f : f = FirstBit(k, a)
  OBVIOUS
<1>6. f \in B \cup {MAX_PRIO} /\ \A y \in B \cup {MAX_PRIO} : f <= y
  <2>1. B \cup {MAX_PRIO} \in SUBSET Nat /\ B \cup {MAX_PRIO} # {}
    BY <1>3
  <2> QED BY <1>4, <1>5, <2>1, Least
<1>7. ASSUME B # {}
      PROVE  f \in B /\ f = Base!FirstBit(b, a)
  <2>1. f \in B
    <3>1. PICK y : y \in B /\ y \in Prio
      BY <1>3, <1>7
    <3>2. y \in Nat /\ y < MAX_PRIO /\ f <= y /\ MAX_PRIO \in Nat
      BY <1>3, <1>6, <3>1
    <3>3. f # MAX_PRIO
      BY <3>2
    <3> QED BY <1>6, <3>3
  <2>2. \A j \in B : f <= j
    BY <1>6
  <2>3. \A i \in B : (\A j \in B : i <= j) => i = f
    BY <1>3, <2>1, <2>2
  <2>4. Base!FirstBit(b, a) = CHOOSE i \in B : \A j \in B : i <= j
    BY <1>2 DEF Base!FirstBit
  <2> QED BY <2>1, <2>2, <2>3, <2>4
<1> QED BY <1>2, <1>5, <1>6, <1>7

\* Which lists are empty, and which is the first that is not.
LEMMA BitsShown ==
  ASSUME NEW k, NEW n \in Int, Good(k, {}, n), NEW b, NEW l, Shows(k, b, l), NEW a \in {0, 1}
  PROVE  /\ Base!Bits(b, a) = {i \in Prio : <<a, i>> \in k.bitmap}
         /\ Base!Bits(b, a) # {} => /\ FirstBit(k, a) = Base!FirstBit(b, a)
                                    /\ FirstBit(k, a) \in Base!Bits(b, a)
         /\ Base!Bits(b, a) = {} => FirstBit(k, a) = MAX_PRIO
<1>1. Base!Bits(b, a) = {i \in Prio : <<a, i>> \in k.bitmap}
  <2>1. Base!Bits(b, a) = {i \in Prio : b.queue[<<a, i>>] # <<>>}
    BY DEF Base!Bits, Base!Prio, Prio
  <2>2. k.bitmap = {h \in ArrayId \X Prio : k.queue[h] # <<>>}
    BY DEF Good
  <2>3. ASSUME NEW i \in Prio
        PROVE  <<a, i>> \in ArrayId \X Prio /\ b.queue[<<a, i>>] = k.queue[<<a, i>>]
    BY DEF ArrayId, BothArrays, Shows
  <2> QED BY <2>1, <2>2, <2>3
<1> QED BY <1>1, BitsAre

LEMMA EmptyShown ==
  ASSUME NEW k, Good(k, {}, 0), NEW b, NEW l, Shows(k, b, l)
  PROVE  /\ \A a \in {0, 1} : k.nr_active[a] = 0 <=> Base!Bits(b, a) = {}
         /\ k.nr_running = 0 <=> Base!Bits(b, 0) \cup Base!Bits(b, 1) = {}
         /\ k.overdue = <<>> /\ FirstBit(k, active_SHORT) = MAX_PRIO
<1>1. ASSUME NEW p \in Pid
      PROVE  /\ p \in Task /\ ~ is_overdue(k.task[p]) /\ k.task[p].array \in {0, 1, NULL}
             /\ Enqueued(k.task[p]) <=> k.task[p].array # NULL
             /\ k.task[p].prio \in Prio
  BY ShownTask, ShownSlot
<1>2. ASSUME NEW h \in ArrayId \X Prio
      PROVE  k.queue[h] # <<>> <=> \E p \in Pid : h = Slot(k.task[p])
  <2>1. k.queue[h] \in Seq(Pid)
    BY DEF Good, Typed, Kernel
  <2>2. \A p \in Pid : p \in Elements(k.queue[h]) <=> h = Slot(k.task[p])
    BY DEF Good, Placed
  <2>3. (k.queue[h] = <<>> <=> Elements(k.queue[h]) = {}) /\ Elements(k.queue[h]) \subseteq Pid
    BY <2>1, Ends
  <2> QED BY <2>2, <2>3
<1>3. k.bitmap = {h \in ArrayId \X Prio : k.queue[h] # <<>>}
  BY DEF Good
<1>4. ASSUME NEW a \in {0, 1}
      PROVE  Base!Bits(b, a) = {} <=> Members(k, {}, a) = {}
  <2>1. Base!Bits(b, a) = {i \in Prio : <<a, i>> \in k.bitmap}
    BY BitsShown, 0 \in Int
  <2>2. a \in ArrayId
    BY DEF ArrayId
  <2>3. ASSUME NEW i \in Prio, <<a, i>> \in k.bitmap
        PROVE  Members(k, {}, a) # {}
    BY <1>2, <1>3, <2>3 DEF Members, Slot
  <2>4. ASSUME NEW p \in Members(k, {}, a)
        PROVE  Base!Bits(b, a) # {}
    <3>1. p \in Pid /\ k.task[p].array = a
      BY DEF Members
    <3>2. <<a, k.task[p].prio>> \in ArrayId \X Prio /\ Slot(k.task[p]) = <<a, k.task[p].prio>>
      BY <1>1, <2>2, <3>1 DEF Slot
    <3> QED BY <1>1, <1>2, <1>3, <2>1, <3>1, <3>2
  <2> QED BY <2>1, <2>3, <2>4
<1>5. ASSUME NEW a \in {0, 1}
      PROVE  k.nr_active[a] = 0 <=> Members(k, {}, a) = {}
  <2>1. IsFiniteSet(Members(k, {}, a))
    BY PidAssumption, FS_Subset DEF Members
  <2>2. k.nr_active[a] = Cardinality(Members(k, {}, a))
    BY DEF Good, ArrayId
  <2> QED BY <2>1, <2>2, FS_EmptySet
<1>6. Runnable(k, {}) = Members(k, {}, 0) \cup Members(k, {}, 1)
  BY <1>1 DEF Runnable, Members, NULL
<1>7. k.nr_running = 0 <=> Runnable(k, {}) = {}
  <2>1. IsFiniteSet(Runnable(k, {}))
    BY PidAssumption, FS_Subset DEF Runnable
  <2>2. Cardinality(Runnable(k, {})) \in Nat
    BY <2>1, FS_CardinalityType
  <2>3. k.nr_running = Cardinality(Runnable(k, {}))
    BY <2>2 DEF Good
  <2> QED BY <2>1, <2>3, FS_EmptySet
<1>8. k.overdue = <<>>
  <2>1. k.overdue \in Seq(Pid)
    BY DEF Good, Typed, Kernel
  <2>2. \A p \in Pid : p \notin Elements(k.overdue)
    BY <1>1 DEF Good, Placed
  <2> QED BY <2>1, <2>2, Ends
<1>9. FirstBit(k, active_SHORT) = MAX_PRIO
  <2>1. \A i \in Prio : <<active_SHORT, i>> \notin k.bitmap
    BY <1>1, <1>2, <1>3 DEF Slot, active_SHORT, NULL
  <2> QED BY <2>1, FoundBit
<1> QED BY <1>4, <1>5, <1>6, <1>7, <1>8, <1>9

LEMMA SwapShown ==
  ASSUME NEW k, Good(k, {}, 0), k.nr_running # 0, NEW b, NEW l, Shows(k, b, l),
         NEW j, j = SwapArrays(k), NEW c, c = Base!SwapArrays(b)
  PROVE  /\ Shows(j, c, l) /\ Good(j, {}, 0) /\ j.nr_running # 0
         /\ Base!Bits(c, c.active) # {}
<1>1. /\ k.active \in {0, 1} /\ b.active = k.active /\ k \in Kernel /\ b \in BaseKernel
  BY DEF Good, Typed, Kernel, Shows
<1>2. /\ k.overdue = <<>> /\ (k.nr_active[k.active] = 0 <=> Base!Bits(b, k.active) = {})
      /\ Base!Bits(b, 0) # {} \/ Base!Bits(b, 1) # {}
  BY <1>1, EmptyShown
<1>3. Good(j, {}, 0)
  BY Swapped
<1>4. CASE Base!Bits(b, k.active) # {}
  <2>1. j = k /\ c = b
    BY <1>1, <1>2, <1>4 DEF SwapArrays, Base!SwapArrays
  <2> QED BY <1>1, <1>3, <1>4, <2>1
<1>5. CASE Base!Bits(b, k.active) = {}
  <2>1. PICK a \in {0, 1} : a = 1 - k.active
    BY <1>1
  <2>2. j = [k EXCEPT !.active = a] /\ c = [b EXCEPT !.active = a]
    BY <1>1, <1>2, <1>5, <2>1 DEF SwapArrays, Base!SwapArrays, expired
  <2>3. /\ j \in Kernel /\ j.active = a /\ j.queue = k.queue /\ j.curr = k.curr /\ j.task = k.task
        /\ j.nr_running = k.nr_running
    BY <1>1, <2>2 DEF Kernel
  <2>4. c \in BaseKernel /\ c.active = a /\ c.queue = b.queue /\ c.curr = b.curr /\ c.task = b.task
    BY <1>1, <2>2 DEF BaseKernel
  <2>5. Shows(j, c, l)
    BY <2>3, <2>4 DEF Shows
  <2>6. Base!Bits(c, a) = Base!Bits(b, a)
    BY <2>4 DEF Base!Bits
  <2>7. Base!Bits(b, a) # {}
    BY <1>1, <1>2, <1>5, <2>1
  <2> QED BY <1>3, <2>3, <2>4, <2>5, <2>6, <2>7
<1> QED BY <1>4, <1>5

\* The switch itself.
SwitchedTo(k, p, next) == [Set(k, p, [k.task[p] EXCEPT !.need_resched = FALSE]) EXCEPT !.curr = next]
BaseSwitchedTo(b, p, next) == [[b EXCEPT !.curr = next] EXCEPT !.task[p].need_resched = FALSE]

LEMMA SwitchShown ==
  ASSUME NEW k, NEW b, NEW l, Shows(k, b, l), NEW p \in Task, NEW next \in Task,
         NEW j, j = SwitchedTo(k, p, next), NEW c, c = BaseSwitchedTo(b, p, next)
  PROVE  Shows(j, c, l)
<1>1. PICK t \in TaskRecord, u \in BaseRecord : t = k.task[p] /\ u = b.task[p] /\ Seen(t, u, l[p])
  BY ShownTask
<1>2. PICK r : r = [t EXCEPT !.need_resched = FALSE]
  OBVIOUS
<1>5. PICK i : i = Set(k, p, r)
  OBVIOUS
<1>3. PICK v : v = [u EXCEPT !.need_resched = FALSE]
  OBVIOUS
<1>4. Seen(r, v, l[p]) /\ v \in BaseRecord
  <2>1. /\ r \in TaskRecord /\ r.policy = t.policy /\ r.prio = t.prio
        /\ r.static_prio = t.static_prio /\ r.state = t.state /\ r.time_slice = t.time_slice
        /\ r.first_time_slice = t.first_time_slice /\ r.remaining_trials = t.remaining_trials
        /\ r.array = t.array /\ r.need_resched = FALSE
    BY <1>1, <1>2 DEF TaskRecord
  <2>2. /\ v \in BaseRecord /\ v.policy = u.policy /\ v.prio = u.prio
        /\ v.static_prio = u.static_prio /\ v.state = u.state /\ v.time_slice = u.time_slice
        /\ v.first_time_slice = u.first_time_slice /\ v.array = u.array
        /\ v.need_resched = FALSE
    BY <1>1, <1>3 DEF BaseRecord
  <2> QED BY <1>1, <2>1, <2>2 DEF Seen
<1>6. PICK e : e = [b EXCEPT !.task[p] = v]
  OBVIOUS
<1>7. b \in BaseKernel
  BY DEF Shows
<1>8. e \in BaseKernel /\ Writes(b, e, p, v)
  BY <1>4, <1>6, <1>7, BaseSet
<1>9. Shows(i, e, l)
  BY <1>4, <1>5, <1>8, SetShown
<1>10. i \in Kernel
  BY <1>9 DEF Shows
<1>11. j = [i EXCEPT !.curr = next]
  BY <1>1, <1>2, <1>5 DEF SwitchedTo
<1>12. c = [e EXCEPT !.curr = next]
  BY <1>1, <1>3, <1>6, <1>7 DEF BaseKernel, BaseSwitchedTo
<1>13. /\ j \in Kernel /\ j.active = i.active /\ j.queue = i.queue /\ j.curr = next /\ j.task = i.task
  BY <1>10, <1>11 DEF Kernel
<1>14. /\ c \in BaseKernel /\ c.active = e.active /\ c.queue = e.queue /\ c.curr = next /\ c.task = e.task
  BY <1>8, <1>12 DEF BaseKernel
<1> QED BY <1>9, <1>13, <1>14 DEF Shows

\* schedule().
LEMMA ScheduleShown ==
  ASSUME NEW k, Good(k, {}, 0), CurrQueued(k), NEW b, NEW l, Shows(k, b, l),
         l[k.curr] = "own", NEW sig \in BOOLEAN,
         NEW j, j = schedule(k, sig), NEW c, c = Base!schedule(b, sig)
  PROVE  Shows(j, c, l)
<1>1. PICK p \in Task : p = k.curr /\ p = b.curr
  BY DEF Shows, BaseKernel
<1>2. PICK k1, b1 : k1 = PutPrev(k, sig) /\ b1 = Base!PutPrev(b, sig)
  OBVIOUS
<1>3. Shows(k1, b1, l) /\ Good(k1, {}, 0)
  BY <1>2, PutPrevShown, PrevPut, 0 \in Int
<1>4. PICK B : B = Base!Bits(b1, 0) \cup Base!Bits(b1, 1)
  OBVIOUS
<1>5. k1.nr_running = 0 <=> B = {}
  BY <1>3, <1>4, EmptyShown
<1>6. CASE B = {}
  <2>1. c = BaseSwitchedTo(b1, p, Idle)
    BY <1>1, <1>2, <1>4, <1>6 DEF Base!schedule, BaseSwitchedTo
  <2>2. j = SwitchedTo(k1, p, Idle)
    BY <1>1, <1>2, <1>5, <1>6 DEF schedule, SwitchedTo
  <2> QED BY <1>3, <2>1, <2>2, SwitchShown DEF Task
<1>7. CASE B # {}
  <2>1. PICK k2, b2 : k2 = SwapArrays(k1) /\ b2 = Base!SwapArrays(b1)
    OBVIOUS
  <2>2. Shows(k2, b2, l) /\ Good(k2, {}, 0) /\ k2.nr_running # 0 /\ Base!Bits(b2, b2.active) # {}
    BY <1>3, <1>5, <1>7, <2>1, SwapShown
  <2>3. PushPrevBack(k2) = k2
    <3>1. k2.curr \in Task
      BY <2>2 DEF Shows, Kernel
    <3>2. ~ is_short(k2.task[k2.curr]) /\ ~ is_overdue(k2.task[k2.curr])
      BY <2>2, <3>1, ShownTask
    <3> QED BY <3>2 DEF PushPrevBack
  <2>4. PICK next : next = PickNext(k2)
    OBVIOUS
  <2>5. j = SwitchedTo(k2, p, next)
    BY <1>1, <1>2, <1>5, <1>7, <2>1, <2>2, <2>3, <2>4 DEF schedule, SwitchedTo
  <2>6. PICK a \in {0, 1} : a = k2.active /\ a = b2.active
    BY <2>2 DEF Shows, BaseKernel
  <2>7. PICK f \in Prio : f = FirstBit(k2, a) /\ f = Base!FirstBit(b2, a) /\ <<a, f>> \in k2.bitmap
    <3>1. /\ FirstBit(k2, a) = Base!FirstBit(b2, a) /\ FirstBit(k2, a) \in Base!Bits(b2, a)
          /\ Base!Bits(b2, a) = {i \in Prio : <<a, i>> \in k2.bitmap}
      BY <2>2, <2>6, BitsShown, 0 \in Int
    <3> QED BY <3>1
  <2>8. next = Head(k2.queue[<<a, f>>])
    <3>1. f # MAX_PRIO /\ FirstBit(k2, active_SHORT) = MAX_PRIO
      BY <2>2, <2>7, EmptyShown, PrioAssumption DEF Prio
    <3> QED BY <2>4, <2>6, <2>7, <3>1 DEF PickNext
  <2>9. k2.queue[<<a, f>>] = b2.queue[<<a, f>>] /\ next \in Task
    <3>1. <<a, f>> \in BothArrays /\ <<a, f>> \in ArrayId \X Prio
      BY DEF BothArrays, ArrayId
    <3>2. k2.queue[<<a, f>>] # <<>> /\ k2.queue[<<a, f>>] \in Seq(Pid)
      BY <2>2, <2>7, <3>1 DEF Good, Typed, Kernel
    <3>3. next \in Pid
      BY <2>8, <3>2
    <3> QED BY <2>2, <3>1, <3>3 DEF Shows, Task
  <2>10. c = BaseSwitchedTo(b2, p, next)
    <3>1. next = Head(b2.queue[<<b2.active, Base!FirstBit(b2, b2.active)>>])
      BY <2>6, <2>7, <2>8, <2>9
    <3> QED BY <1>1, <1>2, <1>4, <1>7, <2>1, <2>2, <3>1 DEF Base!schedule, BaseSwitchedTo
  <2> QED BY <2>2, <2>5, <2>9, <2>10, SwitchShown
<1> QED BY <1>6, <1>7

-----------------------------------------------------------------------------
(* System calls.                                                           *)

\* A new record on either side, perhaps shown with another state from now on.
LEMMA SetShownAs ==
  ASSUME NEW k, NEW b, NEW l, Shows(k, b, l), NEW p \in Task, NEW t, NEW u,
         NEW m, \A q \in Task \ {p} : m[q] = l[q], Seen(t, u, m[p]),
         NEW j, j = Set(k, p, t), NEW c, c = [b EXCEPT !.task[p] = u]
  PROVE  Shows(j, c, m)
<1>1. t \in TaskRecord /\ u \in BaseRecord /\ k \in Kernel /\ b \in BaseKernel
  BY DEF Seen, Shows
<1>2. j \in Kernel /\ Writes(k, j, p, t)
  BY <1>1, SchedSet
<1>3. c \in BaseKernel /\ Writes(b, c, p, u)
  BY <1>1, BaseSet
<1> QED BY <1>2, <1>3 DEF Shows, Writes, Same, ListsKept, Alone

LEMMA SetschedulerShown ==
  ASSUME NEW k, NEW n \in Int, Good(k, {}, n), NEW b, NEW l, Shows(k, b, l), NEW p \in Pid,
         NEW new, Proper(new), new.array = k.task[p].array, NEW prio, FitPrio(new, prio),
         NEW r, r = [new EXCEPT !.array = NULL], NEW v, Seen(r, v, l[p]),
         NEW j, j = setscheduler(k, p, new, prio),
         NEW c, c = IF b.task[p].array = NULL THEN [b EXCEPT !.task[p] = v]
                    ELSE Base!activate_task([Base!deactivate_task(b, p) EXCEPT !.task[p] = v], p, prio)
  PROVE  Shows(j, c, l)
<1>1. p \in Task /\ b.task[p].array = k.task[p].array
  BY ShownTask DEF Seen, Task
<1>2. /\ r \in TaskRecord /\ r.array = NULL /\ r.policy = new.policy /\ r.prio = new.prio
      /\ r.remaining_trials = 0 /\ ~ is_short(r) /\ ~ is_short(new) /\ ~ Enqueued(r)
  <2>1. r \in TaskRecord /\ r.array = NULL /\ r.policy = new.policy /\ r.prio = new.prio
    BY DEF Proper, TaskRecord, Seen
  <2>2. r.remaining_trials = 0 /\ ~ is_short(r)
    BY DEF Seen, BaseRecord, is_short
  <2> QED BY <2>1, <2>2 DEF is_short, is_overdue, Enqueued
<1>3. Proper(r)
  BY <1>2 DEF Proper, rt_task
<1>4. CASE k.task[p].array = NULL
  <2>1. PICK h, e : h = Set(k, p, r) /\ e = [b EXCEPT !.task[p] = v]
    OBVIOUS
  <2>2. Shows(h, e, l)
    BY <1>1, <2>1, SetShownAs
  <2>3. j = h /\ c = e
    BY <1>1, <1>2, <1>4, <2>1 DEF setscheduler
  <2> QED BY <2>2, <2>3
<1>5. CASE k.task[p].array # NULL
  <2>1. PICK i, d : i = deactivate_task(k, p) /\ d = Base!deactivate_task(b, p)
    OBVIOUS
  <2>2. Shows(i, d, l) /\ Good(i, {}, n) /\ ~ Enqueued(i.task[p])
    BY <1>5, <2>1, DeactivateShown
  <2>3. PICK h, e : h = Set(i, p, r) /\ e = [d EXCEPT !.task[p] = v]
    OBVIOUS
  <2>4. Shows(h, e, l)
    BY <1>1, <2>2, <2>3, SetShownAs
  <2>5. Good(h, {}, n) /\ h.task[p] = r
    <3>1. h = Set(i, p, r) /\ r.array = NULL /\ ~ Enqueued(r) /\ Proper(r)
      BY <1>2, <1>3, <2>3
    <3> QED BY ONLY p \in Pid, n \in Int, <2>2, <3>1, Replaced
  <2>6. ~ Enqueued(h.task[p]) /\ FitPrio(h.task[p], prio)
    BY <1>2, <2>5 DEF FitPrio
  <2>7. j = activate_task(h, p, prio)
    BY <1>2, <1>5, <2>1, <2>3 DEF setscheduler
  <2>8. c = Base!activate_task(e, p, prio)
    BY <1>1, <1>5, <2>1, <2>3
  <2> QED BY <2>4, <2>5, <2>6, <2>7, <2>8, ActivateShown
<1> QED BY <1>4, <1>5

\* set_user_nice of the current task.
BaseReniced(b, p, prio) == [b.task[p] EXCEPT !.static_prio = prio, !.prio = prio]
BaseNice(b, p, prio) ==
  IF Base!rt_task(b.task[p]) THEN [b EXCEPT !.task[p].static_prio = prio]
  ELSE IF b.task[p].array = NULL THEN [b EXCEPT !.task[p] = BaseReniced(b, p, prio)]
  ELSE Base!resched_task(Base!enqueue_task([Base!dequeue_task(b, p, b.task[p].array)
                                              EXCEPT !.task[p] = BaseReniced(b, p, prio)],
                                           p, b.task[p].array))

LEMMA NiceShown ==
  ASSUME NEW k, NEW n \in Int, Good(k, {}, n), NEW b, NEW l, Shows(k, b, l),
         NEW p \in Pid, p = k.curr, NEW prio \in UserPrio, k.task[p].static_prio # prio,
         NEW j, j = set_user_nice(k, p, prio), NEW c, c = BaseNice(b, p, prio)
  PROVE  Shows(j, c, l)
<1>1. PICK t \in TaskRecord, u \in BaseRecord : t = k.task[p] /\ u = b.task[p] /\ Seen(t, u, l[p])
  BY ShownTask DEF Task
<1>2. /\ p \in Task /\ ~ is_short(t) /\ ~ is_overdue(t) /\ u.array = t.array /\ t.array \in {0, 1, NULL}
      /\ rt_task(t) <=> Base!rt_task(u)
  <2>1. p \in Task /\ ~ is_short(t) /\ ~ is_overdue(t) /\ t.array \in {0, 1, NULL}
    BY <1>1, ShownTask DEF Task
  <2>2. u.array = t.array
    BY <1>1 DEF Seen
  <2>3. rt_task(t) <=> Base!rt_task(u)
    BY <1>1, PriosShown
  <2> QED BY <2>1, <2>2, <2>3
<1>3. prio \in Int /\ prio \in Prio /\ k \in Kernel /\ b \in BaseKernel
  BY PrioAssumption DEF UserPrio, Prio, MAX_RT_PRIO, Shows
<1>4. CASE rt_task(t)
  <2>1. PICK r, v : r = [t EXCEPT !.static_prio = prio] /\ v = [u EXCEPT !.static_prio = prio]
    OBVIOUS
  <2>2. Seen(r, v, l[p])
    BY <1>1, <1>3, <2>1 DEF Seen, TaskRecord, BaseRecord
  <2>3. PICK h, e : h = Set(k, p, r) /\ e = [b EXCEPT !.task[p] = v]
    OBVIOUS
  <2>4. Shows(h, e, l)
    BY <1>2, <2>2, <2>3, SetShownAs
  <2>5. j = h
    BY <1>1, <1>2, <1>4, <2>1, <2>3 DEF set_user_nice
  <2>6. c = e
    BY <1>1, <1>2, <1>3, <1>4, <2>1, <2>3 DEF BaseNice, BaseKernel
  <2> QED BY <2>4, <2>5, <2>6
<1>5. PICK r : r = [t EXCEPT !.static_prio = prio, !.prio = prio]
  OBVIOUS
<1>6. PICK v : v = [u EXCEPT !.static_prio = prio, !.prio = prio]
  OBVIOUS
<1>7. Seen(r, v, l[p]) /\ r.prio = prio /\ v = BaseReniced(b, p, prio)
  <2>1. /\ r \in TaskRecord /\ r.policy = t.policy /\ r.prio = prio /\ r.static_prio = prio
        /\ r.state = t.state /\ r.time_slice = t.time_slice
        /\ r.first_time_slice = t.first_time_slice /\ r.remaining_trials = t.remaining_trials
        /\ r.array = t.array /\ r.need_resched = t.need_resched
    BY <1>1, <1>3, <1>5 DEF TaskRecord
  <2>2. /\ v \in BaseRecord /\ v.policy = u.policy /\ v.prio = prio /\ v.static_prio = prio
        /\ v.state = u.state /\ v.time_slice = u.time_slice
        /\ v.first_time_slice = u.first_time_slice /\ v.array = u.array
        /\ v.need_resched = u.need_resched
    BY <1>1, <1>3, <1>6 DEF BaseRecord
  <2> QED BY <1>1, <1>6, <2>1, <2>2 DEF Seen, BaseReniced
<1>8. CASE ~ rt_task(t) /\ t.array = NULL
  <2>1. PICK h, e : h = Set(k, p, r) /\ e = [b EXCEPT !.task[p] = v]
    OBVIOUS
  <2>2. Shows(h, e, l)
    BY <1>2, <1>7, <2>1, SetShownAs
  <2>3. j = h /\ c = e
    BY <1>1, <1>2, <1>5, <1>7, <1>8, <2>1 DEF set_user_nice, BaseNice
  <2> QED BY <2>2, <2>3
<1>9. CASE ~ rt_task(t) /\ t.array # NULL
  <2>1. PICK i, d : i = dequeue_task(k, p, k.task[p].array) /\ d = Base!dequeue_task(b, p, b.task[p].array)
    OBVIOUS
  <2>2. Shows(i, d, l) /\ Good(i, {p}, n + 1)
    BY <1>1, <1>9, <2>1, DequeueShown
  <2>3. PICK h, e : h = Set(i, p, r) /\ e = [d EXCEPT !.task[p] = v]
    OBVIOUS
  <2>4. Shows(h, e, l)
    BY <1>2, <1>7, <2>2, <2>3, SetShownAs
  <2>5. h.task[p] = r
    BY <1>2, <2>2, <2>3, SchedSet DEF Shows, Writes, Alone, Seen, Set, Kernel
  <2>6. PICK f, g : f = enqueue_task(h, p, t.array) /\ g = Base!enqueue_task(e, p, t.array)
    OBVIOUS
  <2>7. Shows(f, g, l)
    <3>1. t.array \in {0, 1} /\ h.task[p].prio \in Prio
      BY <1>2, <1>3, <1>7, <1>9, <2>5
    <3> QED BY <2>4, <2>6, <3>1, EnqueueShown
  <2>8. j = OVERDUE_PUSH_BACK(UPDATE_REASON(resched_task(f, p), p, PRIO), p)
    BY <1>1, <1>2, <1>5, <1>9, <2>1, <2>3, <2>6, Zenon DEF set_user_nice, hw2_dequeue
  <2>9. g.curr = p
    <3>1. /\ g.curr = f.curr
      BY <2>7 DEF Shows
    <3>2. f.curr = h.curr /\ h.curr = i.curr /\ i.curr = k.curr
      <4>1. h \in Kernel /\ h.task[p].prio \in Prio /\ t.array \in {0, 1}
        BY <1>2, <1>3, <1>7, <1>9, <2>4, <2>5 DEF Shows
      <4>2. f.curr = h.curr
        BY <2>6, <4>1, SchedEnqueue DEF Puts, Same
      <4>3. i.curr = k.curr
        <5>1. k.task[p].array # NULL
          BY <1>1, <1>9
        <5>2. Takes(k, i, p, Slot(k.task[p]))
          BY ONLY n \in Int, Good(k, {}, n), p \in Pid, <2>1, <5>1, SchedDequeue
        <5> QED BY <5>2 DEF Takes, Same
      <4>4. h.curr = i.curr
        BY <2>2, <2>3 DEF Set, Shows, Kernel
      <4> QED BY <4>2, <4>3, <4>4
    <3> QED BY <3>1, <3>2
  <2>10. c = [g EXCEPT !.task[p].need_resched = TRUE]
    <3>1. c = Base!resched_task(g)
      BY <1>1, <1>2, <1>7, <1>9, <2>1, <2>3, <2>6, Zenon DEF BaseNice
    <3> QED BY <2>9, <3>1, SMTT(30) DEF Base!resched_task
  <2>11. PRIO \in 0 .. 7
    BY DEF PRIO
  <2> QED BY <1>2, <2>7, <2>8, <2>10, <2>11, GiveWayShown
<1> QED BY <1>4, <1>8, <1>9

\* The same as Takes, for list_del alone.
LEMMA SchedListDel ==
  ASSUME NEW k, NEW n \in Int, Good(k, {}, n), NEW p \in Pid, NEW j, j = list_del(k, p)
  PROVE  j \in Kernel /\ j.bitmap = k.bitmap /\ Takes(k, j, p, Slot(k.task[p]))
<1>1. /\ j \in Kernel /\ j.bitmap = k.bitmap
      /\ j.active = k.active /\ j.curr = k.curr /\ j.task = k.task
  BY ListDel
<1>2. j.queue = [h \in ArrayId \X Prio |-> Without(k.queue[h], p)]
  BY DEF list_del, Good, Typed, Kernel
<1>3. ASSUME NEW g \in BothArrays, g # Slot(k.task[p])
      PROVE  Without(k.queue[g], p) = k.queue[g]
  <2>1. g \in ArrayId \X Prio
    BY DEF BothArrays, ArrayId
  <2>2. p \notin Elements(k.queue[g])
    BY <1>3, <2>1 DEF Good, Placed
  <2> QED BY <2>2 DEF Without, Elements
<1>4. BothArrays \subseteq ArrayId \X Prio
  BY DEF BothArrays, ArrayId
<1> QED BY <1>1, <1>2, <1>3, <1>4 DEF Takes, Same

\* p second in the list h.
Inserts(m, n, p, h, t) ==
  /\ Same(m, n) /\ Alone(m, n, p, t)
  /\ \A g \in BothArrays : n.queue[g] = IF g = h THEN Second(m.queue[g], p) ELSE m.queue[g]

LEMMA ShownInserts ==
  ASSUME NEW k, NEW b, NEW l, Shows(k, b, l), NEW p \in Task, NEW h, NEW t, NEW u, Seen(t, u, l[p]),
         NEW j \in Kernel, Inserts(k, j, p, h, t), NEW c \in BaseKernel, Inserts(b, c, p, h, u)
  PROVE  Shows(j, c, l)
BY DEF Shows, Inserts, Same, Alone

LEMMA BaseInsert ==
  ASSUME NEW b \in BaseKernel, NEW p \in Pid, NEW h \in BothArrays, NEW v \in BaseRecord,
         NEW c, c = [b EXCEPT !.queue[h] = Second(@, p), !.task[p] = v]
  PROVE  c \in BaseKernel /\ Inserts(b, c, p, h, v)
<1>1. p \in Task /\ b.queue[h] \in Seq(Pid)
  BY DEF Task, BaseKernel
<1>2. PICK s \in Seq(Pid) : s = Second(b.queue[h], p)
  BY <1>1, AddedSecond
<1>3. PICK f \in [BothArrays -> Seq(Pid)] : f = [b.queue EXCEPT ![h] = s]
  BY DEF BaseKernel
<1>4. PICK g \in [Task -> BaseRecord] : g = [b.task EXCEPT ![p] = v]
  BY DEF BaseKernel
<1>5. c = [b EXCEPT !.queue = f, !.task = g]
  BY <1>2, <1>3, <1>4
<1>6. c \in BaseKernel /\ c.active = b.active /\ c.curr = b.curr /\ c.queue = f /\ c.task = g
  BY <1>5 DEF BaseKernel
<1>7. b.queue \in [BothArrays -> Seq(Pid)] /\ b.task \in [Task -> BaseRecord]
  BY DEF BaseKernel
<1>8. \A g1 \in BothArrays : c.queue[g1] = IF g1 = h THEN Second(b.queue[g1], p) ELSE b.queue[g1]
  BY <1>2, <1>3, <1>6, <1>7
<1>9. Alone(b, c, p, v)
  BY <1>1, <1>4, <1>6, <1>7 DEF Alone
<1> QED BY <1>6, <1>8, <1>9 DEF Inserts, Same

LEMMA YieldShown ==
  ASSUME NEW k, NEW n \in Int, Good(k, {}, n), NEW b, NEW l, Shows(k, b, l),
         NEW p \in Pid, k.task[p].array # NULL,
         NEW j, j = sys_sched_yield(k, p), NEW c, c = Base!YieldPlace(b, p)
  PROVE  Shows(j, c, l)
<1>1. PICK t \in TaskRecord, u \in BaseRecord : t = k.task[p] /\ u = b.task[p] /\ Seen(t, u, l[p])
  BY ShownTask DEF Task
<1>2. /\ p \in Task /\ ~ is_short(t) /\ ~ is_overdue(t) /\ u.array = t.array /\ t.array \in {0, 1}
      /\ u.prio = t.prio /\ t.prio \in Prio /\ t.prio \in Nat
      /\ rt_task(t) <=> Base!rt_task(u)
  <2>1. p \in Task /\ k.task[p].prio \in Prio
    BY DEF Task, Good, Typed, Proper
  <2>2. /\ ~ is_short(t) /\ ~ is_overdue(t) /\ u.array = t.array /\ u.prio = t.prio
        /\ rt_task(t) <=> Base!rt_task(u)
    <3>1. ~ is_short(t) /\ ~ is_overdue(t)
      BY <1>1, <2>1, ShownTask
    <3>2. u.array = t.array /\ u.prio = t.prio
      BY <1>1 DEF Seen
    <3>3. rt_task(t) <=> Base!rt_task(u)
      BY <1>1, PriosShown
    <3> QED BY <3>1, <3>2, <3>3
  <2>3. t.array \in {0, 1}
    BY <1>1, <2>1, ShownTask
  <2>4. t.prio \in Prio /\ t.prio \in Nat
    BY <1>1, <2>1, PrioAssumption DEF Prio
  <2> QED BY <2>1, <2>2, <2>3, <2>4
<1>3. PICK a \in {0, 1} : a = t.array
  BY <1>2
<1>4. PICK h \in BothArrays : h = <<a, t.prio>> /\ h = Slot(t)
  <2>1. <<a, t.prio>> \in BothArrays
    BY <1>2 DEF BothArrays
  <2>2. Slot(t) = <<a, t.prio>>
    BY <1>3 DEF Slot
  <2> QED BY <2>1, <2>2
<1>5. PICK y, d : y = list_del(k, p) /\ d = Base!dequeue_task(b, p, a)
  OBVIOUS
<1>6. Shows(y, d, l) /\ y.bitmap = k.bitmap /\ y \in Kernel /\ d \in BaseKernel
      /\ Takes(k, y, p, h) /\ Takes(b, d, p, h)
  <2>1. y \in Kernel /\ y.bitmap = k.bitmap /\ Takes(k, y, p, h)
    BY <1>1, <1>4, <1>5, SchedListDel
  <2>2. d \in BaseKernel /\ Takes(b, d, p, h)
    <3>1. b \in BaseKernel /\ b.task[p].prio \in Prio /\ h = <<a, b.task[p].prio>>
      BY <1>1, <1>2, <1>4 DEF Shows
    <3> QED BY <1>2, <1>5, <3>1, BaseDequeue
  <2> QED BY <1>2, <2>1, <2>2, ShownTakes
<1>7. y.task[p] = t /\ d.task[p] = u
  BY <1>1, <1>2, <1>6 DEF Takes
<1>8. PICK m : m = YieldPlace(k, p)
  OBVIOUS
<1>9. m \in Kernel
  <2>1. Good(m, {}, n)
    BY <1>1, <1>2, <1>8, YieldPlaced
  <2> QED BY <2>1 DEF Good, Typed
<1>10. ASSUME Shows(m, c, l) PROVE Shows(j, c, l)
  <2>1. YIELD \in 0 .. 7
    BY DEF YIELD
  <2> QED BY <1>2, <1>8, <1>10, <2>1, ReasonShown DEF sys_sched_yield
<1>11. CASE rt_task(t)
  <2>1. m = [y EXCEPT !.queue[h] = Append(@, p)]
    BY <1>1, <1>3, <1>4, <1>5, <1>8, <1>11 DEF YieldPlace
  <2>2. Puts(y, m, p, h, t)
    <3>1. y.queue \in [ArrayId \X Prio -> Seq(Pid)] /\ h \in ArrayId \X Prio /\ BothArrays \subseteq ArrayId \X Prio
      BY <1>6 DEF Kernel, BothArrays, ArrayId
    <3>2. /\ m.active = y.active /\ m.curr = y.curr /\ m.task = y.task
          /\ m.queue = [y.queue EXCEPT ![h] = Append(@, p)]
      BY <1>6, <2>1 DEF Kernel
    <3> QED BY <1>7, <3>1, <3>2 DEF Puts, Same, Alone
  <2>3. c = Base!enqueue_task(d, p, a)
    BY <1>1, <1>2, <1>3, <1>5, <1>11 DEF Base!YieldPlace
  <2>4. c \in BaseKernel /\ Puts(d, c, p, h, u)
    <3>1. d.task[p].prio \in Prio /\ h = <<a, d.task[p].prio>>
      BY <1>2, <1>4, <1>7
    <3>2. [u EXCEPT !.array = a] = u
      BY <1>2, <1>3 DEF BaseRecord
    <3>3. c \in BaseKernel /\ Puts(d, c, p, <<a, d.task[p].prio>>, [d.task[p] EXCEPT !.array = a])
      BY <1>6, <2>3, <3>1, BaseEnqueue
    <3> QED BY <1>7, <3>1, <3>2, <3>3
  <2>5. Shows(m, c, l)
    BY <1>1, <1>2, <1>6, <1>9, <2>2, <2>4, ShownPuts
  <2> QED BY <1>10, <2>5
<1>12. CASE ~ rt_task(t)
  <2>1. PICK i : i = Base!YieldAt(b, p)
    OBVIOUS
  <2>2. PICK k2 : k2 = [y EXCEPT !.bitmap = @ \ {h}]
    OBVIOUS
  <2>3. PICK x : x = IF FirstBit(k2, a) = MAX_PRIO \/ FirstBit(k2, a) <= t.prio THEN h ELSE <<a, FirstBit(k2, a)>>
    OBVIOUS
  <2>4. y.queue[h] = d.queue[h]
    BY <1>6 DEF Shows
  <2>5. i \in Prio /\ (y.queue[h] # <<>> => i = t.prio) /\ (y.queue[h] = <<>> => x = <<a, i>>)
    <3>1. CASE y.queue[h] # <<>>
      BY <1>1, <1>2, <1>3, <1>4, <1>5, <2>1, <2>4, <3>1 DEF Base!YieldAt
    <3>2. CASE y.queue[h] = <<>>
      <4>1. {g \in Prio : <<a, g>> \in k2.bitmap} = Base!Bits(d, a)
        <5>1. k2.bitmap = k.bitmap \ {h}
          BY <1>6, <2>2 DEF Kernel
        <5>2. k.bitmap = {g \in ArrayId \X Prio : k.queue[g] # <<>>}
          BY DEF Good
        <5>3. Base!Bits(d, a) = {g \in Prio : d.queue[<<a, g>>] # <<>>}
          BY DEF Base!Bits, Base!Prio, Prio
        <5>4. ASSUME NEW g \in Prio
              PROVE  <<a, g>> \in k2.bitmap <=> d.queue[<<a, g>>] # <<>>
          <6>1. <<a, g>> \in BothArrays /\ <<a, g>> \in ArrayId \X Prio
            BY DEF BothArrays, ArrayId
          <6>2. d.queue[<<a, g>>] = y.queue[<<a, g>>]
            BY <1>6, <6>1 DEF Shows
          <6>3. CASE <<a, g>> = h
            BY <2>4, <3>2, <5>1, <6>3
          <6>4. CASE <<a, g>> # h
            BY <1>6, <5>1, <5>2, <6>1, <6>2, <6>4 DEF Takes
          <6> QED BY <6>3, <6>4
        <5> QED BY <5>3, <5>4
      <4>2. /\ Base!Bits(d, a) # {} => /\ FirstBit(k2, a) = Base!FirstBit(d, a)
                                       /\ FirstBit(k2, a) \in Base!Bits(d, a)
            /\ Base!Bits(d, a) = {} => FirstBit(k2, a) = MAX_PRIO
        BY <4>1, BitsAre
      <4>3. /\ Base!Bits(d, a) \subseteq Prio /\ Prio \subseteq Nat /\ MAX_PRIO \in Nat
            /\ \A g \in Prio : g < MAX_PRIO
        <5>1. Base!Bits(d, a) \subseteq Prio
          BY <4>1
        <5> QED BY ONLY <5>1, PrioAssumption DEF Prio
      <4>4. i = IF Base!Bits(d, a) = {} THEN t.prio
                ELSE IF Base!FirstBit(d, a) < t.prio THEN t.prio ELSE Base!FirstBit(d, a)
        BY <1>1, <1>2, <1>3, <1>4, <1>5, <2>1, <2>4, <3>2 DEF Base!YieldAt
      <4>5. CASE Base!Bits(d, a) = {}
        BY <1>2, <1>4, <2>3, <4>2, <4>4, <4>5, <3>2
      <4>6. CASE Base!Bits(d, a) # {}
        <5>1. PICK f \in Prio : f = FirstBit(k2, a) /\ f = Base!FirstBit(d, a) /\ f \in Nat /\ f # MAX_PRIO
          <6>1. PICK f : f = FirstBit(k2, a)
            OBVIOUS
          <6>2. f \in Prio /\ f = Base!FirstBit(d, a)
            BY <4>2, <4>3, <4>6, <6>1
          <6>3. f \in Nat /\ f # MAX_PRIO
            BY ONLY <4>3, <6>2
          <6> QED BY <6>1, <6>2, <6>3
        <5>2. i = (IF f < t.prio THEN t.prio ELSE f) /\ x = IF f <= t.prio THEN h ELSE <<a, f>>
          BY <2>3, <4>4, <4>6, <5>1
        <5>3. CASE f < t.prio
          BY <1>2, <1>4, <5>1, <5>2, <5>3, <3>2
        <5>4. CASE f = t.prio
          BY <1>2, <1>4, <5>1, <5>2, <5>4, <3>2
        <5>5. CASE f > t.prio
          BY <1>2, <1>4, <5>1, <5>2, <5>5, <3>2
        <5> QED BY <1>2, <5>1, <5>3, <5>4, <5>5
      <4> QED BY <4>5, <4>6
    <3> QED BY <3>1, <3>2
  <2>6. PICK r, v : r = [t EXCEPT !.prio = i] /\ v = [u EXCEPT !.prio = i]
    OBVIOUS
  <2>7. Seen(r, v, l[p]) /\ v \in BaseRecord /\ r \in TaskRecord
    <3>1. i \in Int
      BY <2>5, PrioAssumption DEF Prio
    <3> QED BY <1>1, <2>6, <3>1 DEF Seen, TaskRecord, BaseRecord
  <2>8. PICK g \in BothArrays : g = <<a, i>> /\ g \in ArrayId \X Prio
    <3>1. <<a, i>> \in BothArrays /\ <<a, i>> \in ArrayId \X Prio
      BY <2>5 DEF BothArrays, ArrayId
    <3> QED BY <3>1
  <2>9. c \in BaseKernel /\ Inserts(d, c, p, g, v)
    <3>1. c = [d EXCEPT !.queue[g] = Second(@, p), !.task[p] = v]
      <4>1. c = [d EXCEPT !.queue[g] = Base!Behind(@, p), !.task[p].prio = i]
        BY <1>1, <1>2, <1>3, <1>5, <1>12, <2>1, <2>8 DEF Base!YieldPlace
      <4>2. d \in BaseKernel /\ d.task[p] = u
        BY <1>1, <1>2, <1>6, <1>7 DEF BaseKernel
      <4>3. c = [d EXCEPT !.queue[g] = Base!Behind(@, p), !.task[p] = v]
        BY <1>2, <2>6, <4>1, <4>2 DEF BaseKernel
      <4>4. Base!Behind(d.queue[g], p) = Second(d.queue[g], p)
        BY DEF Base!Behind, Second
      <4> QED BY <4>3, <4>4
    <3>2. d \in BaseKernel /\ v \in BaseRecord /\ g \in BothArrays
      BY <1>6, <2>7, <2>8
    <3> QED BY ONLY p \in Pid, <3>1, <3>2, BaseInsert
  <2>10. y.queue \in [ArrayId \X Prio -> Seq(Pid)] /\ y.task \in [Task -> TaskRecord] /\ BothArrays \subseteq ArrayId \X Prio
    BY <1>6 DEF Kernel, BothArrays, ArrayId
  <2>11. Inserts(y, m, p, g, r)
    <3>1. CASE y.queue[h] # <<>>
      <4>1. m = [y EXCEPT !.queue[h] = Second(@, p)] /\ g = h /\ r = t
        <5>1. g = h /\ r = t
          BY <1>1, <1>4, <2>5, <2>6, <2>8, <3>1 DEF TaskRecord
        <5> QED BY <1>1, <1>3, <1>4, <1>5, <1>8, <1>12, <3>1, <5>1 DEF YieldPlace
      <4>2. m.active = y.active /\ m.curr = y.curr /\ m.task = y.task /\ m.queue = [y.queue EXCEPT ![h] = Second(@, p)]
        BY <1>6, <4>1 DEF Kernel
      <4>3. \A w \in BothArrays : m.queue[w] = IF w = g THEN Second(y.queue[w], p) ELSE y.queue[w]
        <5>1. m.queue = [y.queue EXCEPT ![g] = Second(y.queue[g], p)]
          BY <4>1, <4>2
        <5> QED BY <2>8, <2>10, <5>1
      <4> QED BY <1>7, <4>1, <4>2, <4>3 DEF Inserts, Same, Alone
    <3>2. CASE y.queue[h] = <<>>
      <4>1. x = g /\ x[2] = i
        BY <2>5, <2>8, <3>2
      <4>2. m = [Set([k2 EXCEPT !.queue[x] = Second(@, p)], p, [t EXCEPT !.prio = x[2]]) EXCEPT !.bitmap = @ \cup {x}]
        BY <1>1, <1>3, <1>4, <1>5, <1>8, <1>12, <2>2, <2>3, <3>2, Zenon DEF YieldPlace
      <4>3. m = [Set([k2 EXCEPT !.queue[g] = Second(@, p)], p, r) EXCEPT !.bitmap = @ \cup {g}]
        BY <2>6, <4>1, <4>2
      <4>4. /\ m.active = y.active /\ m.curr = y.curr /\ m.task = [y.task EXCEPT ![p] = r]
            /\ m.queue = [y.queue EXCEPT ![g] = Second(@, p)]
        BY <1>6, <2>2, <4>3 DEF Kernel, Set
      <4> QED BY <1>2, <2>8, <2>10, <4>4 DEF Inserts, Same, Alone
    <3> QED BY <3>1, <3>2
  <2>12. Shows(m, c, l)
    BY <1>2, <1>6, <1>9, <2>7, <2>9, <2>11, ShownInserts
  <2> QED BY <1>10, <2>12
<1> QED BY <1>11, <1>12

LEMMA Half ==
  ASSUME NEW x \in Nat, x > 0
  PROVE  /\ x \div 2 \in Nat /\ (x \div 2 = 0 <=> x = 1)
         /\ Max({1, x \div 2}) = IF x = 1 THEN 1 ELSE x \div 2
         /\ ChildShare(x) = (x + 1) \div 2 /\ ChildShare(x) \in Nat /\ ChildShare(0) = 0
<1>1. PICK y \in Nat : y = x \div 2 /\ (y = 0 <=> x = 1)
  OBVIOUS
<1>2. Max({1, y}) = IF 1 >= y THEN 1 ELSE y
  BY MaxMin
<1>3. Max({1, y}) = IF x = 1 THEN 1 ELSE y
  BY <1>1, <1>2
<1>4. ChildShare(x) = (x + 1) \div 2 /\ ChildShare(x) \in Nat /\ ChildShare(0) = 0
  BY DEF ChildShare
<1> QED BY <1>1, <1>3, <1>4

\* The shares of a task that is not SHORT.
LEMMA SplitShown ==
  ASSUME NEW k, NEW n \in Int, Good(k, {}, n), CurrQueued(k), NEW b, NEW l, Shows(k, b, l),
         NEW p \in Pid, p = k.curr, k.task[p].time_slice > 0,
         NEW c \in Pid, c # p, ~ Enqueued(k.task[c]),
         NEW m, m[c] = "SPLIT", \A q \in Task \ {c} : m[q] = l[q],
         NEW prio \in UserPrio, NEW stay \in BOOLEAN,
         NEW j, j = SplitSlice(k, p, c, prio, stay), NEW d, d = Base!SplitSlice(b, p, c, prio, stay)
  PROVE  Shows(j, d, m)
<1>1. p \in Task /\ c \in Task /\ k \in Kernel /\ b \in BaseKernel
  BY DEF Task, Shows
<1>2. PICK t \in TaskRecord, u \in BaseRecord : t = k.task[p] /\ u = b.task[p] /\ Seen(t, u, l[p])
  BY <1>1, ShownTask
<1>3. PICK x \in Nat : x = t.time_slice /\ x = u.time_slice /\ x > 0
  BY <1>2 DEF Seen, BaseRecord
<1>4. PICK g \in TaskRecord, h \in BaseRecord : g = k.task[c] /\ h = b.task[c] /\ Seen(g, h, l[c])
  BY <1>1, ShownTask
<1>5. PICK z \in Nat : z = ChildShare(x) /\ z = (x + 1) \div 2
  BY <1>3, Half
<1>6. PICK y \in Nat : y = (IF x = 1 THEN 1 ELSE x \div 2) /\ y = Max({1, x \div 2}) /\ y > 0
  BY <1>3, Half
<1>7. PICK r : r = [g EXCEPT !.time_slice = z, !.first_time_slice = TRUE,
                             !.remaining_trials = 0, !.current_trial = 1]
  OBVIOUS
<1>8. PICK v : v = [h EXCEPT !.time_slice = z, !.first_time_slice = TRUE, !.state = "SPLIT"]
  OBVIOUS
<1>9. /\ Seen(r, v, m[c]) /\ v \in BaseRecord /\ r \in TaskRecord
      /\ r.policy = g.policy /\ r.prio = g.prio /\ r.array = g.array
  <2>1. /\ r \in TaskRecord /\ r.policy = g.policy /\ r.prio = g.prio /\ r.static_prio = g.static_prio
        /\ r.array = g.array /\ r.need_resched = g.need_resched /\ r.remaining_trials = 0
        /\ r.time_slice = z /\ r.first_time_slice = TRUE
    BY <1>5, <1>7 DEF TaskRecord
  <2>2. /\ v \in BaseRecord /\ v.policy = h.policy /\ v.prio = h.prio /\ v.static_prio = h.static_prio
        /\ v.array = h.array /\ v.need_resched = h.need_resched /\ v.state = "SPLIT"
        /\ v.time_slice = z /\ v.first_time_slice = TRUE
    BY <1>5, <1>8 DEF BaseRecord, BaseStates
  <2>3. /\ h.policy = g.policy /\ h.prio = g.prio /\ h.static_prio = g.static_prio
        /\ h.array = g.array /\ h.need_resched = g.need_resched
    BY <1>4 DEF Seen
  <2> QED BY <2>1, <2>2, <2>3 DEF Seen
<1>10. PICK k0, b0 : k0 = Set(k, c, r) /\ b0 = [b EXCEPT !.task[c] = v]
  OBVIOUS
<1>11. Shows(k0, b0, m)
  BY <1>1, <1>9, <1>10, SetShownAs
<1>12. PICK w : w = [t EXCEPT !.remaining_trials = 0, !.time_slice = y]
  OBVIOUS
<1>13. PICK e : e = [u EXCEPT !.time_slice = y]
  OBVIOUS
<1>14. /\ Seen(w, e, m[p]) /\ w \in TaskRecord /\ e \in BaseRecord /\ w.time_slice = y
       /\ w.policy = t.policy /\ w.prio = t.prio /\ w.array = t.array /\ w.queued = t.queued
       /\ w.state = t.state
  <2>1. m[p] = l[p]
    BY <1>1
  <2>2. /\ w \in TaskRecord /\ w.policy = t.policy /\ w.prio = t.prio /\ w.static_prio = t.static_prio
        /\ w.array = t.array /\ w.need_resched = t.need_resched /\ w.remaining_trials = 0
        /\ w.time_slice = y /\ w.first_time_slice = t.first_time_slice /\ w.state = t.state
        /\ w.queued = t.queued
    BY <1>6, <1>12 DEF TaskRecord
  <2>3. /\ e \in BaseRecord /\ e.policy = u.policy /\ e.prio = u.prio /\ e.static_prio = u.static_prio
        /\ e.array = u.array /\ e.need_resched = u.need_resched /\ e.state = u.state
        /\ e.time_slice = y /\ e.first_time_slice = u.first_time_slice
    BY <1>6, <1>13 DEF BaseRecord
  <2> QED BY <1>2, <2>1, <2>2, <2>3 DEF Seen
<1>15. PICK k1, b1 : k1 = Set(k0, p, w) /\ b1 = [b0 EXCEPT !.task[p] = e]
  OBVIOUS
<1>16. Shows(k1, b1, m)
  BY <1>1, <1>11, <1>14, <1>15, SetShownAs
<1>17. ~ is_short(t) /\ ~ is_overdue(t) /\ ~ is_short(g) /\ ~ is_overdue(g) /\ g.array = NULL
       /\ t.array # NULL /\ ~ is_short(w) /\ ~ is_short(r)
  <2>1. ~ is_short(t) /\ ~ is_overdue(t) /\ ~ is_short(g) /\ ~ is_overdue(g) /\ g.array = NULL
        /\ t.array # NULL
    BY <1>1, <1>2, <1>4, ShownTask DEF CurrQueued
  <2> QED BY <1>9, <1>14, <2>1 DEF is_short
<1>18. Good(k0, {}, n) /\ k0.task[p] = t /\ k0.curr = k.curr
  <2>1. Proper(g)
    BY <1>4 DEF Good, Typed
  <2>2. Proper(r) /\ r.array = NULL /\ ~ Enqueued(r)
    BY <1>9, <1>17, <2>1 DEF Proper, rt_task, Enqueued, is_overdue
  <2>3. /\ Good(k0, {}, n) /\ SameLists(k, k0)
        /\ \A q \in Task \ {c} : k0.task[q] = k.task[q]
    BY ONLY c \in Pid, n \in Int, Good(k, {}, n), ~ Enqueued(k.task[c]), <1>10, <2>2, Replaced
  <2> QED BY <1>1, <1>2, <2>3 DEF SameLists
<1>19. Good(k1, {}, n) /\ k1.task[p] = w /\ k1.curr = p
  <2>1. Proper(t)
    BY <1>2 DEF Good, Typed
  <2>2. Proper(w) /\ SamePlace(w, t)
    BY <1>14, <1>17, <2>1 DEF Proper, rt_task, SamePlace, is_overdue
  <2>3. w.state = k0.task[p].state /\ w.policy = k0.task[p].policy /\ SamePlace(w, k0.task[p])
    BY <1>14, <1>18, <2>2
  <2>5. {} \in SUBSET Pid
    OBVIOUS
  <2>4. Good(k1, {}, n) /\ k1.task[p] = w /\ SameLists(k0, k1)
    <3>1. Good(k0, {}, n)
      BY <1>18
    <3>2. k1 = Set(k0, p, w)
      BY <1>15
    <3>3. /\ p \in Pid => Proper(w)
          /\ p \in {} \/ SamePlace(w, k0.task[p])
          /\ w.state = k0.task[p].state
          /\ w.policy = k0.task[p].policy
      BY <2>2, <2>3
    <3> QED BY ONLY n \in Int, <1>1, <1>14, <2>5, <3>1, <3>2, <3>3, Touched
  <2> QED BY <1>18, <2>4 DEF SameLists
<1>20. CurrQueued(k1) /\ k1.task[k1.curr].time_slice > 0
  BY <1>6, <1>14, <1>17, <1>19 DEF CurrQueued, Enqueued, is_overdue
<1>21. j = IF x = 1 THEN scheduler_tick(k1, prio, stay) ELSE k1
  <2>1. t.remaining_trials = 0 /\ g.remaining_trials = 0
    BY <1>2, <1>4 DEF Seen
  <2>2. ChildShare(0) = 0 /\ 0 \div 2 = 0 /\ (x \div 2 = 0 <=> x = 1)
    <3>1. 0 \div 2 = 0
      OBVIOUS
    <3> QED BY <1>3, <3>1, Half
  <2>3. r = [k.task[c] EXCEPT !.time_slice = ChildShare(x), !.first_time_slice = TRUE,
                              !.remaining_trials = ChildShare(0), !.current_trial = 1]
    BY <1>4, <1>5, <1>7, <2>2
  <2>4. w = [t EXCEPT !.remaining_trials = 0 \div 2, !.time_slice = Max({1, x \div 2})]
    BY <1>6, <1>12, <2>2
  <2> QED BY <1>2, <1>3, <1>10, <1>15, <2>1, <2>2, <2>3, <2>4 DEF SplitSlice
<1>22. d = IF x = 1 THEN Base!scheduler_tick(b1, prio, stay) ELSE b1
  <2>1. b1 = [b EXCEPT !.task[c] = [b.task[c] EXCEPT !.time_slice = (b.task[p].time_slice + 1) \div 2,
                                                     !.first_time_slice = TRUE, !.state = "SPLIT"],
                       !.task[p] = [b.task[p] EXCEPT !.time_slice = IF b.task[p].time_slice = 1 THEN 1
                                                                    ELSE b.task[p].time_slice \div 2]]
    BY <1>1, <1>2, <1>3, <1>4, <1>5, <1>6, <1>8, <1>10, <1>13, <1>15, Zenon DEF BaseKernel
  <2>2. PICK f : f = [b EXCEPT !.task[c] = [@ EXCEPT !.time_slice = (b.task[p].time_slice + 1) \div 2,
                                                     !.first_time_slice = TRUE, !.state = "SPLIT"],
                       !.task[p].time_slice = IF b.task[p].time_slice = 1 THEN 1
                                                ELSE b.task[p].time_slice \div 2]
    BY SMTT(30)
  <2>3. f = b1
    BY <1>1, <2>1, <2>2 DEF BaseKernel
  <2>4. d = IF b.task[p].time_slice = 1 THEN Base!scheduler_tick(f, prio, stay) ELSE f
    BY <2>2 DEF Base!SplitSlice
  <2> QED BY <1>2, <1>3, <2>3, <2>4
<1>23. CASE x = 1
  BY <1>16, <1>19, <1>20, <1>21, <1>22, <1>23, TickShown
<1>24. CASE x # 1
  BY <1>16, <1>21, <1>22, <1>24
<1> QED BY <1>23, <1>24

-----------------------------------------------------------------------------
(* Fork, exit and release_task.                                            *)

\* The copy of a task: its record on either side.
LEMMA CopyShown ==
  ASSUME NEW k, NEW b, NEW l, Shows(k, b, l), NEW p \in Pid, l[p] = "own",
         NEW c \in Pid, NEW m, m[c] = "COPY", \A q \in Task \ {c} : m[q] = l[q],
         NEW j, j = Set(k, c, CopyTask(k.task[p])),
         NEW d, d = [b EXCEPT !.task[c] = [b.task[p] EXCEPT !.state = "COPY", !.array = NULL]]
  PROVE  Shows(j, d, m)
<1>1. p \in Task /\ c \in Task
  BY DEF Task
<1>2. PICK t \in TaskRecord, u \in BaseRecord : t = k.task[p] /\ u = b.task[p] /\ Seen(t, u, l[p])
  BY <1>1, ShownTask
<1>3. PICK r, v : r = CopyTask(t) /\ v = [u EXCEPT !.state = "COPY", !.array = NULL]
  OBVIOUS
<1>4. Seen(r, v, m[c])
  <2>1. /\ r \in TaskRecord /\ r.policy = t.policy /\ r.prio = t.prio /\ r.static_prio = t.static_prio
        /\ r.time_slice = t.time_slice /\ r.first_time_slice = t.first_time_slice
        /\ r.remaining_trials = t.remaining_trials /\ r.array = NULL /\ r.need_resched = t.need_resched
    BY <1>3 DEF CopyTask, TaskRecord, States, NULL
  <2>2. /\ v \in BaseRecord /\ v.policy = u.policy /\ v.prio = u.prio /\ v.static_prio = u.static_prio
        /\ v.time_slice = u.time_slice /\ v.first_time_slice = u.first_time_slice
        /\ v.state = "COPY" /\ v.array = NULL /\ v.need_resched = u.need_resched
    BY <1>3 DEF BaseRecord, BaseStates, NULL
  <2> QED BY <1>2, <2>1, <2>2 DEF Seen
<1> QED BY <1>1, <1>2, <1>3, <1>4, SetShownAs

LEMMA BlankShown == Seen(BlankTask, Base!BlankTask, "FREE")
<1>1. DEF_PRIO \in Int /\ BlankTask \in TaskRecord
  BY SchedAssumption, PrioAssumption DEF UserPrio, BlankTask, TaskRecord, Policies, States, ArrayId, NULL, UNKNOWN, MAX_RT_PRIO
<1>2. Base!BlankTask \in BaseRecord
  BY <1>1 DEF Base!BlankTask, BaseRecord, BaseStates, Base!NULL, NULL
<1> QED BY <1>1, <1>2 DEF Seen, BlankTask, Base!BlankTask, Base!NULL, NULL

\* A task_struct that is freed.
LEMMA FreedShown ==
  ASSUME NEW k, NEW b, NEW l, Shows(k, b, l),
         NEW c \in Pid, NEW m, m[c] = "FREE", \A q \in Task \ {c} : m[q] = l[q],
         NEW j, j = Set(k, c, BlankTask), NEW d, d = [b EXCEPT !.task[c] = Base!BlankTask]
  PROVE  Shows(j, d, m)
BY BlankShown, SetShownAs DEF Task

\* The child is woken.
LEMMA WokenChildShown ==
  ASSUME NEW k, NEW n \in Int, Good(k, {}, n), NEW b, NEW l, Shows(k, b, l),
         NEW c \in Pid, ~ Enqueued(k.task[c]), NEW prio, FitPrio(k.task[c], prio),
         NEW m, m[c] = "own", \A q \in Task \ {c} : m[q] = l[q],
         NEW j, j = wake_up_forked_process(k, c, prio),
         NEW d, d = Base!activate_task([b EXCEPT !.task[c].state = "RUNNING"], c, prio)
  PROVE  Shows(j, d, m) /\ Good(j, {}, n)
<1>1. c \in Task /\ k \in Kernel /\ b \in BaseKernel
  BY DEF Task, Shows
<1>2. PICK t \in TaskRecord, u \in BaseRecord : t = k.task[c] /\ u = b.task[c] /\ Seen(t, u, l[c])
  BY <1>1, ShownTask
<1>3. PICK r : r = [t EXCEPT !.state = "RUNNING"]
  OBVIOUS
<1>4. PICK v : v = [u EXCEPT !.state = "RUNNING"]
  OBVIOUS
<1>5. Seen(r, v, m[c])
  BY <1>2, <1>3, <1>4 DEF Seen, TaskRecord, BaseRecord, BaseStates, States
<1>6. PICK h, e : h = Set(k, c, r) /\ e = [b EXCEPT !.task[c] = v]
  OBVIOUS
<1>7. Shows(h, e, m)
  BY <1>1, <1>5, <1>6, SetShownAs
<1>8. /\ r \in TaskRecord /\ r.prio = t.prio /\ r.policy = t.policy /\ r.array = t.array
      /\ r.queued = t.queued /\ r.remaining_trials = t.remaining_trials
  BY <1>2, <1>3 DEF TaskRecord
<1>9. Good(h, {}, n) /\ h.task[c] = r
  <2>1. Proper(t)
    BY <1>2 DEF Good, Typed
  <2>2. Proper(r) /\ SamePlace(r, k.task[c])
    BY <1>2, <1>8, <2>1 DEF Proper, rt_task, SamePlace, is_overdue, is_short
  <2>3. {} \in SUBSET Pid
    OBVIOUS
  <2>4. Good(Set(k, c, r), {}, n)
    BY ONLY n \in Int, Good(k, {}, n), c \in Pid, <2>2, <2>3, Written
  <2>5. h.task[c] = r
    BY <1>1, <1>6, <1>8 DEF Set, Kernel
  <2> QED BY <1>6, <2>4, <2>5
<1>10. ~ Enqueued(h.task[c]) /\ FitPrio(h.task[c], prio)
  BY <1>2, <1>8, <1>9 DEF Enqueued, FitPrio, is_overdue, is_short
<1>11. j = activate_task(h, c, prio)
  BY <1>2, <1>3, <1>6 DEF wake_up_forked_process
<1>12. d = Base!activate_task(e, c, prio)
  <2>1. e = [b EXCEPT !.task[c].state = "RUNNING"]
    BY <1>1, <1>2, <1>4, <1>6 DEF BaseKernel
  <2> QED BY <2>1
<1> QED BY <1>7, <1>9, <1>10, <1>11, <1>12, ActivateShown

\* The children of a dead task have no claim on their parent's slice.
LEMMA OrphansShown ==
  ASSUME NEW k, NEW b, NEW l, Shows(k, b, l), NEW S,
         NEW j, j = forget_original_parent(k, S),
         NEW d, d = [b EXCEPT !.task = [p \in Task |->
                       IF p \in S THEN [b.task[p] EXCEPT !.first_time_slice = FALSE] ELSE b.task[p]]]
  PROVE  Shows(j, d, l)
<1>1. k \in Kernel /\ b \in BaseKernel
  BY DEF Shows
<1>2. ASSUME NEW p \in Task
      PROVE  Seen(j.task[p], d.task[p], l[p])
  <2>1. PICK t \in TaskRecord, u \in BaseRecord : t = k.task[p] /\ u = b.task[p] /\ Seen(t, u, l[p])
    BY ShownTask
  <2>2. /\ j.task[p] = IF p \in S THEN [t EXCEPT !.first_time_slice = FALSE] ELSE t
        /\ d.task[p] = IF p \in S THEN [u EXCEPT !.first_time_slice = FALSE] ELSE u
    BY <1>1, <2>1 DEF forget_original_parent, Kernel, BaseKernel
  <2>3. CASE p \notin S
    BY <2>1, <2>2, <2>3
  <2>4. CASE p \in S
    <3>1. PICK r : r = [t EXCEPT !.first_time_slice = FALSE]
      OBVIOUS
    <3>2. PICK v : v = [u EXCEPT !.first_time_slice = FALSE]
      OBVIOUS
    <3>3. Seen(r, v, l[p])
      BY <2>1, <3>1, <3>2 DEF Seen, TaskRecord, BaseRecord
    <3> QED BY <2>2, <2>4, <3>1, <3>2, <3>3
  <2> QED BY <2>3, <2>4
<1>3. /\ j.active = k.active /\ j.nr_active = k.nr_active /\ j.bitmap = k.bitmap
      /\ j.queue = k.queue /\ j.overdue = k.overdue /\ j.nr_running = k.nr_running
      /\ j.nr_uninterruptible = k.nr_uninterruptible /\ j.curr = k.curr
      /\ d.active = b.active /\ d.queue = b.queue /\ d.curr = b.curr
  BY <1>1 DEF forget_original_parent, Kernel, BaseKernel
<1>4. j \in Kernel /\ d \in BaseKernel
  <2>1. j.task \in [Task -> TaskRecord] /\ d.task \in [Task -> BaseRecord]
    <3>1. \A p \in Task : j.task[p] \in TaskRecord /\ d.task[p] \in BaseRecord
      BY <1>2 DEF Seen
    <3>2. PICK f, g : f = j.task /\ g = d.task
      OBVIOUS
    <3>3. f = [q \in Task |-> IF q \in S THEN [k.task[q] EXCEPT !.first_time_slice = FALSE] ELSE k.task[q]]
      BY <1>1, <3>2 DEF forget_original_parent, Kernel
    <3>4. g = [q \in Task |-> IF q \in S THEN [b.task[q] EXCEPT !.first_time_slice = FALSE] ELSE b.task[q]]
      BY <1>1, <3>2 DEF BaseKernel
    <3> QED BY <3>1, <3>2, <3>3, <3>4
  <2>2. j = [k EXCEPT !.task = j.task] /\ d = [b EXCEPT !.task = d.task]
    BY <1>1 DEF forget_original_parent, Kernel, BaseKernel
  <2> QED BY <1>1, <2>1, <2>2 DEF Kernel, BaseKernel
<1> QED BY <1>1, <1>2, <1>3, <1>4 DEF Shows

\* The slice a child gives back, on either side.
LEMMA GivenBack ==
  ASSUME NEW t, NEW u, NEW s, Seen(t, u, s), NEW x \in Nat
  PROVE  /\ Base!sched_exit(u, x) \in Nat
         /\ t.first_time_slice => Base!sched_exit(u, x) = Min({x + t.time_slice, MAX_TIMESLICE})
         /\ ~ t.first_time_slice => Base!sched_exit(u, x) = x
<1>1. t.time_slice \in Nat /\ u.first_time_slice = t.first_time_slice /\ u.time_slice = t.time_slice
  BY DEF Seen, BaseRecord
<1>2. PICK y \in Nat : y = x + t.time_slice
  BY <1>1
<1>3. MAX_TIMESLICE \in Nat
  BY SliceAssumption
<1>4. Min({y, MAX_TIMESLICE}) = IF y <= MAX_TIMESLICE THEN y ELSE MAX_TIMESLICE
  BY <1>3, MaxMin
<1>5. Base!sched_exit(u, x) = IF ~ t.first_time_slice THEN x
                              ELSE IF y > MAX_TIMESLICE THEN MAX_TIMESLICE ELSE y
  BY <1>1, <1>2 DEF Base!sched_exit
<1> QED BY <1>2, <1>3, <1>4, <1>5

\* release_task.
LEMMA ReapShown ==
  ASSUME NEW k, NEW b, NEW l, Shows(k, b, l), NEW p \in Pid, l[p] = "own",
         NEW c \in Pid, c # p, NEW m, m[c] = "FREE", \A q \in Task \ {c} : m[q] = l[q],
         NEW j, j = Set(SetState(sched_exit(k, p, c), p, "RUNNING"), c, BlankTask),
         NEW d, d = [b EXCEPT !.task = [b.task EXCEPT ![c] = Base!BlankTask,
                       ![p] = [b.task[p] EXCEPT !.state = "RUNNING",
                                 !.time_slice = Base!sched_exit(b.task[c], b.task[p].time_slice)]]]
  PROVE  Shows(j, d, m)
<1>1. p \in Task /\ c \in Task /\ k \in Kernel /\ b \in BaseKernel
  BY DEF Task, Shows
<1>2. PICK t \in TaskRecord, u \in BaseRecord : t = k.task[p] /\ u = b.task[p] /\ Seen(t, u, l[p])
  BY <1>1, ShownTask
<1>3. PICK g \in TaskRecord, h \in BaseRecord :
        g = k.task[c] /\ h = b.task[c] /\ Seen(g, h, l[c]) /\ ~ is_short(g)
  BY <1>1, ShownTask
<1>4. PICK x \in Nat : x = t.time_slice /\ x = u.time_slice
  BY <1>2 DEF Seen, BaseRecord
<1>5. PICK y \in Nat : /\ y = Base!sched_exit(h, x)
                       /\ g.first_time_slice => y = Min({x + g.time_slice, MAX_TIMESLICE})
                       /\ ~ g.first_time_slice => y = x
  BY <1>3, GivenBack
<1>6. PICK w : w = [t EXCEPT !.time_slice = y]
  OBVIOUS
<1>7. PICK w2 : w2 = [t EXCEPT !.time_slice = y, !.state = "RUNNING"]
  OBVIOUS
<1>8. PICK v : v = [u EXCEPT !.time_slice = y, !.state = "RUNNING"]
  OBVIOUS
<1>9. w \in TaskRecord /\ w2 = [w EXCEPT !.state = "RUNNING"] /\ Seen(w2, v, l[p])
  <2>1. w \in TaskRecord /\ w2 = [w EXCEPT !.state = "RUNNING"] /\ w2 \in TaskRecord
    BY <1>6, <1>7 DEF TaskRecord, States
  <2>2. v \in BaseRecord
    BY <1>8 DEF BaseRecord, BaseStates, States
  <2>3. /\ w2.policy = t.policy /\ w2.prio = t.prio /\ w2.static_prio = t.static_prio
        /\ w2.array = t.array /\ w2.need_resched = t.need_resched /\ w2.state = "RUNNING"
        /\ w2.remaining_trials = t.remaining_trials
        /\ w2.time_slice = y /\ w2.first_time_slice = t.first_time_slice
    BY <1>7 DEF TaskRecord
  <2>4. /\ v.policy = u.policy /\ v.prio = u.prio /\ v.static_prio = u.static_prio
        /\ v.array = u.array /\ v.need_resched = u.need_resched /\ v.state = "RUNNING"
        /\ v.time_slice = y /\ v.first_time_slice = u.first_time_slice
    BY <1>8 DEF BaseRecord
  <2> QED BY <1>2, <2>1, <2>2, <2>3, <2>4 DEF Seen
<1>10. PICK k1, b1 : k1 = Set(k, p, w2) /\ b1 = [b EXCEPT !.task[p] = v]
  OBVIOUS
<1>11. Shows(k1, b1, l)
  BY <1>1, <1>9, <1>10, SetShownAs
<1>12. PICK i : i = sched_exit(k, p, c)
  OBVIOUS
<1>13. i = Set(k, p, w)
  <2>1. CASE g.first_time_slice
    BY <1>2, <1>3, <1>4, <1>5, <1>6, <1>12, <2>1 DEF sched_exit
  <2>2. CASE ~ g.first_time_slice
    <3>1. w = t
      BY <1>4, <1>5, <1>6, <2>2 DEF TaskRecord
    <3>2. i = k
      BY <1>3, <1>12, <2>2 DEF sched_exit
    <3> QED BY <1>1, <1>2, <3>1, <3>2 DEF Set, Kernel
  <2> QED BY <2>1, <2>2
<1>14. SetState(i, p, "RUNNING") = k1
  <2>1. i \in Kernel /\ i.task[p] = w
    <3>1. i \in Kernel /\ i.task = [k.task EXCEPT ![p] = w]
      BY <1>1, <1>9, <1>13, SetFields
    <3> QED BY <1>1, <3>1 DEF Kernel
  <2>2. Set(i, p, w2) = Set(k, p, w2)
    BY <1>1, <1>13 DEF Set, Kernel
  <2> QED BY <1>9, <1>10, <2>1, <2>2 DEF SetState
<1>15. j = Set(k1, c, BlankTask)
  BY <1>12, <1>14
<1>16. d = [b1 EXCEPT !.task[c] = Base!BlankTask]
  <2>1. v = [b.task[p] EXCEPT !.state = "RUNNING",
                              !.time_slice = Base!sched_exit(b.task[c], b.task[p].time_slice)]
    BY <1>2, <1>3, <1>4, <1>5, <1>8 DEF BaseRecord
  <2>2. PICK f : f = b.task
    OBVIOUS
  <2>3. PICK e : e = Base!BlankTask
    OBVIOUS
  <2>4. d = [b EXCEPT !.task = [f EXCEPT ![c] = e, ![p] = v]]
    BY <2>1, <2>2, <2>3
  <2>5. b1 = [b EXCEPT !.task = [f EXCEPT ![p] = v]]
    BY <1>10, <2>2
  <2>6. [b1 EXCEPT !.task[c] = e] = [b EXCEPT !.task = [f EXCEPT ![c] = e, ![p] = v]]
    BY <1>1, <2>2, <2>5 DEF BaseKernel
  <2> QED BY <2>3, <2>4, <2>6
<1>17. \A q \in Task \ {c} : m[q] = l[q]
  OBVIOUS
<1> QED BY ONLY c \in Pid, m[c] = "FREE", <1>11, <1>15, <1>16, <1>17, FreedShown

-----------------------------------------------------------------------------
(* What a state shows.                                                     *)

\* What Baseline sees as the state of p, unless it is p's own.
Label(p) ==
  IF p = Idle \/ pc[p] \notin {"free", "copy"} THEN "own"
  ELSE IF pc[p] = "free" THEN "FREE" ELSE IF Shared(p) THEN "SPLIT" ELSE "COPY"
Labels == [p \in Task |-> Label(p)]

Shown == Shows(K, Base!K, Labels)

\* A step of Sched is one of Baseline or none.
Mirrors == [Base!Next]_(Base!vars) /\ Shown'

\* The fields of the runqueue that is shown.
LEMMA BaseFields ==
  /\ Base!K.active = active /\ Base!K.queue = BaseQueue /\ Base!K.curr = curr
  /\ Base!K.task = BaseTasks
BY DEF Base!K

\* What is shown of a task.
LEMMA ShownAs ==
  ASSUME NEW p \in Task
  PROVE  /\ BaseTasks[p] = BaseTask(p)
         /\ BaseTask(p).state = (IF Labels[p] = "own" THEN task[p].state ELSE Labels[p])
         /\ BaseTask(p).policy = task[p].policy /\ BaseTask(p).prio = task[p].prio
         /\ BaseTask(p).static_prio = task[p].static_prio /\ BaseTask(p).array = task[p].array
         /\ BaseTask(p).time_slice = task[p].time_slice
         /\ BaseTask(p).first_time_slice = task[p].first_time_slice
         /\ BaseTask(p).need_resched = task[p].need_resched
BY DEF BaseTasks, BaseTask, Labels, Label

\* A record of Baseline is what it is shown as.
LEMMA RecordIs ==
  ASSUME NEW u \in BaseRecord, NEW v,
         v = [policy |-> u.policy, prio |-> u.prio, static_prio |-> u.static_prio, state |-> u.state,
              time_slice |-> u.time_slice, first_time_slice |-> u.first_time_slice,
              array |-> u.array, need_resched |-> u.need_resched]
  PROVE  u = v
BY DEF BaseRecord

\* The next state is shown as d.
LEMMA BecomeShown ==
  ASSUME NEW j, NEW d, NEW m, Shows(j, d, m), Become(j), \A q \in Task : Labels'[q] = m[q]
  PROVE  Base!Become(d) /\ Shown'
<1>1. j \in Kernel /\ d \in BaseKernel
  BY DEF Shows
<1>2. /\ active' = j.active /\ queue' = j.queue /\ curr' = j.curr /\ task' = j.task /\ K' = j
  BY <1>1, Becomes DEF Become
<1>3. active' = d.active /\ curr' = d.curr
  BY <1>2 DEF Shows
<1>4. BaseQueue' = d.queue
  <2>1. BaseQueue' = [h \in BothArrays |-> queue'[h]]
    BY DEF BaseQueue, BothArrays
  <2>2. d.queue = [h \in BothArrays |-> d.queue[h]]
    BY <1>1 DEF BaseKernel
  <2>3. \A h \in BothArrays : queue'[h] = d.queue[h]
    BY <1>2 DEF Shows
  <2> QED BY <2>1, <2>2, <2>3
<1>5. ASSUME NEW p \in Task
      PROVE  BaseTask(p)' = d.task[p]
  <2>1. PICK t \in TaskRecord, u \in BaseRecord : t = j.task[p] /\ u = d.task[p] /\ Seen(t, u, m[p])
    BY ShownTask
  <2>2. t = task'[p] /\ m[p] = Label(p)'
    BY <1>2, <2>1 DEF Labels
  <2>3. Label(p)' = (IF p = Idle \/ pc'[p] \notin {"free", "copy"} THEN "own"
                     ELSE IF pc'[p] = "free" THEN "FREE" ELSE IF Shared(p)' THEN "SPLIT" ELSE "COPY")
    BY DEF Label
  <2>4. u.state = IF p = Idle \/ pc'[p] \notin {"free", "copy"} THEN t.state
                  ELSE IF pc'[p] = "free" THEN "FREE" ELSE IF Shared(p)' THEN "SPLIT" ELSE "COPY"
    BY <2>1, <2>2, <2>3 DEF Seen
  <2>5. BaseTask(p)' = [policy |-> u.policy, prio |-> u.prio, static_prio |-> u.static_prio,
                        state |-> u.state, time_slice |-> u.time_slice,
                        first_time_slice |-> u.first_time_slice, array |-> u.array,
                        need_resched |-> u.need_resched]
    BY <2>1, <2>2, <2>4 DEF BaseTask, Seen
  <2> QED BY <2>1, <2>5, RecordIs
<1>6. BaseTasks' = d.task
  <2>1. BaseTasks' = [p \in Task |-> BaseTask(p)']
    BY DEF BaseTasks
  <2>2. d.task = [p \in Task |-> d.task[p]]
    BY <1>1 DEF BaseKernel
  <2> QED BY <1>5, <2>1, <2>2
<1>7. Base!Become(d)
  BY <1>3, <1>4, <1>6 DEF Base!Become
<1>8. (Base!K)' = d
  <2>1. (Base!K)' = [active |-> d.active, queue |-> d.queue, curr |-> d.curr, task |-> d.task]
    BY <1>3, <1>4, <1>6 DEF Base!K
  <2> QED BY <1>1, <2>1 DEF BaseKernel
<1>9. Shows(K', (Base!K)', Labels')
  BY <1>2, <1>8 DEF Shows
<1> QED BY <1>7, <1>9 DEF Shown

\* A step that Baseline does not see.
LEMMA Stutters ==
  ASSUME NEW j, Shows(j, Base!K, Labels), Become(j), Labels' = Labels, BaseKid' = BaseKid
  PROVE  Mirrors
<1>1. Base!Become(Base!K) /\ Shown'
  BY BecomeShown
<1>2. active' = active /\ BaseQueue' = BaseQueue /\ curr' = curr /\ BaseTasks' = BaseTasks
  BY <1>1, BaseFields DEF Base!Become
<1>3. UNCHANGED Base!vars
  BY <1>2 DEF Base!vars
<1> QED BY <1>1, <1>3 DEF Mirrors

\* The labels change only where do_fork or release_task is.
Hidden == {"free", "copy", "fork2"}
LEMMA SameLabels ==
  ASSUME IInv, kid' = kid,
         \A q \in Pid : pc'[q] = pc[q] \/ (pc'[q] \notin Hidden /\ pc[q] \notin Hidden)
  PROVE  Labels' = Labels /\ BaseKid' = BaseKid
<1>1. \A q \in Pid : Shared(q)' <=> Shared(q)
  BY DEF Shared, Hidden
<1>2. ASSUME NEW p \in Task
      PROVE  Label(p)' = Label(p)
  <2>1. p \in Pid \/ p = Idle
    BY DEF Task
  <2> QED BY <1>1, <2>1 DEF Label, Hidden
<1>3. Labels' = Labels
  BY <1>2 DEF Labels
<1>4. \A p \in Pid : kid[p] \in Pid => (pc'[kid[p]] = "copy" <=> pc[kid[p]] = "copy")
  BY DEF Hidden
<1>5. \A p \in Pid : kid[p] \in Pid \/ kid[p] = None
  BY DEF IInv, ProcTypes
<1>6. BaseKid' = BaseKid
  BY <1>4, <1>5 DEF BaseKid
<1> QED BY <1>3, <1>6

\* p goes on to x.
LEMMA CarriesOn ==
  ASSUME IInv, NEW p \in Pid, pc[p] \notin Hidden, NEW x, x \notin Hidden,
         pc' = [pc EXCEPT ![p] = x], kid' = kid
  PROVE  Labels' = Labels /\ BaseKid' = BaseKid
<1>1. \A q \in Pid : pc'[q] = IF q = p THEN x ELSE pc[q]
  BY DEF IInv, ProcTypes
<1>2. \A q \in Pid : pc'[q] = pc[q] \/ (pc'[q] \notin Hidden /\ pc[q] \notin Hidden)
  BY <1>1
<1> QED BY ONLY IInv, kid' = kid, <1>2, SameLabels

-----------------------------------------------------------------------------
(* What holds before a step.                                               *)

\* Who is in do_exit, who has no copy, and the state in the loop of sys_wait4.
InitStays == \A p \in Pid : pc[p] \in {"exit1", "eblock", "dead"} => p # InitTask
NoStrayKid ==
  \A p \in Pid : pc[p] \notin {"fork1", "fblock", "fork2", "vwait", "vblock"} => kid[p] = None
Scanning == \A p \in Pid : pc[p] = "scan" => task[p].state \in {"RUNNING", "INTERRUPTIBLE"}
OnlyDeadZombies == \A p \in Pid : task[p].state = "ZOMBIE" => pc[p] = "dead"
Sideline == InitStays /\ NoStrayKid /\ Scanning /\ OnlyDeadZombies

Beforehand == Inductive /\ Supplied /\ Sideline /\ Shown

\* The current task in a system call.
Calling == {"run", "fork1", "fork2", "vwait", "exit1", "wait"}
LEMMA Called ==
  ASSUME Beforehand, NEW p \in Pid, NEW l \in Calling, At(p, l)
  PROVE  /\ p = curr /\ p # Idle /\ p \in Task /\ pc[p] = l /\ l \notin {"free", "copy"}
         /\ task[p].state = "RUNNING" /\ BaseTasks[p].state = "RUNNING" /\ Labels[p] = "own"
         /\ \A c \in {"sleep", "yield", "setscheduler", "nice", "fork", "exit"} : Base!Call(c)
<1>1. p = curr /\ p \in Task /\ pc[p] = l /\ l \notin {"free", "copy"} /\ p # Idle
  BY PidAssumption DEF At, Calling, Task
<1>2. task[p].state = "RUNNING"
  BY <1>1 DEF Beforehand, Inductive, Expecting, Drowsy, Bound, Calling
<1>3. Labels[p] = "own"
  BY <1>1 DEF Labels, Label
<1>4. BaseTasks[p].state = "RUNNING"
  BY <1>1, <1>2, <1>3, ShownAs
<1>5. \A c \in {"sleep", "yield", "setscheduler", "nice", "fork", "exit"} : Base!Call(c)
  BY <1>1, <1>4 DEF Base!Call
<1> QED BY <1>1, <1>2, <1>3, <1>4, <1>5

LEMMA Now ==
  ASSUME Beforehand
  PROVE  /\ Good(K, {}, 0) /\ CurrQueued(K) /\ Shows(K, Base!K, Labels) /\ IInv
         /\ K.curr = curr /\ K.task = task /\ curr \in Task /\ Labels[curr] = "own"
         /\ Labels[Idle] = "own" /\ Idle \in Task /\ 0 \in Int
<1>1. IInv /\ Good(K, {}, 0) /\ Shows(K, Base!K, Labels)
  BY DEF Beforehand, Inductive, IInv, Shown
<1>2. CurrQueued(K)
  BY <1>1, Current DEF IInv, Located, NoLostTask, CurrQueued, Hashed, Queued
<1>3. K.curr = curr /\ K.task = task /\ curr \in Task
  BY <1>1, Current DEF Good, Typed, Kernel
<1>4. curr \in Pid => pc[curr] \notin {"free", "copy"}
  BY <1>1 DEF IInv, Located, Hashed
<1>5. Labels[curr] = "own" /\ Labels[Idle] = "own" /\ Idle \in Task
  BY <1>3, <1>4, PidAssumption DEF Labels, Label, Task
<1> QED BY <1>1, <1>2, <1>3, <1>5

-----------------------------------------------------------------------------
(* Steps of the CPU.                                                       *)

LEMMA TickMirrored ==
  ASSUME Beforehand, Tick
  PROVE  Mirrors
<1>1. PICK prio \in effective_prio(task[curr]), stay \in Interactive :
        Become(scheduler_tick(K, prio, stay))
  BY DEF Tick
<1>2. PICK j, d : j = scheduler_tick(K, prio, stay) /\ d = Base!scheduler_tick(Base!K, prio, stay)
  OBVIOUS
<1>3. K.curr \in Pid => K.task[K.curr].time_slice > 0
  <2>1. ASSUME curr \in Pid
        PROVE  task[curr].time_slice > 0
    <3>1. ~ is_overdue(task[curr])
      BY Now, ShownTask
    <3>2. pc[curr] \notin {"free", "copy"}
      BY <2>1, Now DEF IInv, Located, Hashed
    <3> QED BY <2>1, <3>1, <3>2 DEF Beforehand, Supplied, TicksLeft
  <2> QED BY <2>1, Now
<1>4. prio \in UserPrio /\ stay \in BOOLEAN
  <2>1. task[curr] \in TaskRecord
    BY Now, ShownTask
  <2> QED BY <1>1, <2>1, EffectivePrio, SchedAssumption, SMTT(30)
<1>5. Shows(j, d, Labels)
  BY <1>2, <1>3, <1>4, Now, TickShown
<1>6. Labels' = Labels /\ BaseKid' = BaseKid
  BY Now, SameLabels DEF Tick, procVars
<1>7. Base!Become(d) /\ Shown'
  BY <1>1, <1>2, <1>5, <1>6, BecomeShown
<1>8. prio \in Base!effective_prio(BaseTasks[curr])
  <2>1. effective_prio(task[curr]) = Base!effective_prio(BaseTasks[curr])
    BY Now, BaseFields, ShownTask, PriosShown
  <2> QED BY <1>1, <2>1
<1>9. Base!Tick
  BY <1>2, <1>6, <1>7, <1>8 DEF Base!Tick
<1> QED BY <1>7, <1>9 DEF Mirrors, Base!Next

\* Waking a task that sleeps is a wake-up on either side.
LEMMA WakesBoth ==
  ASSUME Beforehand, NEW p \in Pid, pc[p] \notin {"free", "copy"},
         task[p].state \in {"INTERRUPTIBLE", "UNINTERRUPTIBLE"},
         NEW prio \in ActivationPrios(task[p]), Become(try_to_wake_up(K, p, prio)),
         Labels' = Labels, BaseKid' = BaseKid
  PROVE  Base!WakeUp(p) /\ Mirrors
<1>1. p \in Task /\ Labels[p] = "own"
  BY DEF Task, Labels, Label
<1>2. PICK j, d : j = try_to_wake_up(K, p, prio) /\ d = Base!try_to_wake_up(Base!K, p, prio)
  OBVIOUS
<1>3. FitPrio(K.task[p], prio)
  BY Now, Facts, ActivationPrio
<1>4. Shows(j, d, Labels)
  BY <1>1, <1>2, <1>3, Now, TryToWakeUpShown
<1>5. Base!Become(d) /\ Shown'
  BY <1>2, <1>4, BecomeShown
<1>6. prio \in Base!ActivationPrios(BaseTasks[p])
  <2>1. ActivationPrios(task[p]) = Base!ActivationPrios(BaseTasks[p])
    BY <1>1, Now, BaseFields, ShownTask, PriosShown
  <2> QED BY <2>1
<1>7. Base!Asleep(p)
  BY <1>1, ShownAs DEF Base!Asleep
<1>8. Base!WakeUp(p)
  BY <1>2, <1>5, <1>6, <1>7 DEF Base!WakeUp
<1> QED BY <1>5, <1>8 DEF Mirrors, Base!Next

LEMMA WakeUpMirrored ==
  ASSUME Beforehand, NEW p \in Pid, WakeUp(p)
  PROVE  Mirrors
<1>1. pc[p] \notin {"free", "copy"}
  <2>1. pc[p] # "free"
    BY Now DEF WakeUp, IInv, Located
  <2> QED BY <2>1 DEF WakeUp
<1>2. Labels' = Labels /\ BaseKid' = BaseKid
  BY Now, SameLabels DEF WakeUp, procVars
<1>3. PICK prio \in ActivationPrios(task[p]) : Become(try_to_wake_up(K, p, prio))
  BY DEF WakeUp
<1> QED BY <1>1, <1>2, <1>3, WakesBoth DEF WakeUp

LEMMA ScheduleMirrored ==
  ASSUME Beforehand, Schedule
  PROVE  Mirrors
<1>1. PICK sig \in Signals : /\ Become(hw2_log_switch(schedule(K, sig)))
                             /\ pc' = [p \in Pid |->
                                  IF p = schedule(K, sig).curr
                                     /\ (schedule(K, sig).curr \in Pid /\ pc[schedule(K, sig).curr] = "new")
                                  THEN "run" ELSE IF p = curr THEN After(pc[p]) ELSE pc[p]]
  BY DEF Schedule
<1>2. PICK j, d : j = schedule(K, sig) /\ d = Base!schedule(Base!K, sig)
  OBVIOUS
<1>3. sig \in BOOLEAN
  BY <1>1, SchedAssumption
<1>4. Shows(j, d, Labels)
  BY <1>2, <1>3, Now, ScheduleShown
<1>5. PICK h : h = hw2_log_switch(j)
  OBVIOUS
<1>6. Shows(h, d, Labels)
  <2>1. UNKNOWN \in 0 .. 7
    BY DEF UNKNOWN
  <2> QED BY <1>4, <1>5, <2>1, Now, ReasonShown DEF hw2_log_switch
<1>7. Labels' = Labels /\ BaseKid' = BaseKid
  <2>1. ASSUME NEW q \in Pid
        PROVE  pc'[q] = pc[q] \/ (pc'[q] \notin Hidden /\ pc[q] \notin Hidden)
    <3>1. pc'[q] = pc[q] \/ (pc[q] = "new" /\ pc'[q] = "run") \/ (q = curr /\ pc'[q] = After(pc[q]))
      BY <1>1
    <3>2. After(pc[q]) = pc[q] \/ (After(pc[q]) \notin Hidden /\ pc[q] \notin Hidden)
      BY DEF After, Hidden
    <3> QED BY <3>1, <3>2 DEF Hidden
  <2>2. IInv /\ kid' = kid
    BY Now DEF Schedule, procVars
  <2> QED BY <2>1, <2>2, SameLabels
<1>8. Base!Become(d) /\ Shown'
  BY <1>1, <1>2, <1>5, <1>6, <1>7, BecomeShown
<1>9. Base!Schedule
  BY <1>2, <1>3, <1>7, <1>8 DEF Base!Schedule
<1> QED BY <1>8, <1>9 DEF Mirrors, Base!Next

LEMMA TailMirrored ==
  ASSUME Beforehand, TailCheck \/ TailClear
  PROVE  Mirrors
<1>1. Labels' = Labels /\ BaseKid' = BaseKid
  BY Now, SameLabels DEF TailCheck, TailClear, procVars
<1>2. CASE TailCheck
  BY <1>1, <1>2, Now, Current, Stutters DEF TailCheck
<1>3. CASE TailClear
  <2>1. last \in Task /\ UNKNOWN \in 0 .. 7
    BY <1>3, Now DEF TailClear, IInv, ProcTypes, UNKNOWN
  <2>2. PICK h : h = UPDATE_REASON(K, last, UNKNOWN)
    OBVIOUS
  <2>3. Shows(h, Base!K, Labels) /\ Become(h)
    BY <1>3, <2>1, <2>2, Now, ReasonShown DEF TailClear
  <2> QED BY <1>1, <2>3, Stutters
<1> QED BY <1>2, <1>3

-----------------------------------------------------------------------------
(* System calls.                                                           *)

\* p is about to sleep, wherever in the kernel it is.
LEMMA SleepsBoth ==
  ASSUME Beforehand, NEW p \in Pid, NEW l \in Calling, At(p, l),
         NEW s \in {"INTERRUPTIBLE", "UNINTERRUPTIBLE"}, Become(SetState(K, p, s)),
         Labels' = Labels, BaseKid' = BaseKid
  PROVE  Mirrors
<1>1. PICK j, d : j = SetState(K, p, s) /\ d = [Base!K EXCEPT !.task[p].state = s]
  OBVIOUS
<1>2. /\ p = curr /\ p \in Task /\ Labels[p] = "own" /\ Base!Call("sleep") /\ s \in States
  BY Called DEF States
<1>3. Shows(j, d, Labels)
  BY <1>1, <1>2, Now, StateShown DEF SetState
<1>4. Base!Become(d) /\ Shown'
  BY <1>1, <1>3, BecomeShown
<1>5. /\ d.active = active /\ d.queue = BaseQueue /\ d.curr = curr
      /\ d.task = [BaseTasks EXCEPT ![p].state = s]
  BY <1>1 DEF Base!K
<1>6. Base!Sleep
  BY <1>2, <1>4, <1>5 DEF Base!Sleep, Base!Become
<1> QED BY <1>4, <1>6 DEF Mirrors, Base!Next, Base!SysCall

LEMMA SleepMirrored ==
  ASSUME Beforehand, NEW p \in Pid,
         Sleep(p) \/ ForkBlock(p) \/ VforkBlock(p) \/ ExitBlock(p) \/ WaitEnter(p)
  PROVE  Mirrors
<1>1. PICK l \in Calling, s \in {"INTERRUPTIBLE", "UNINTERRUPTIBLE"},
           x \in {"block", "fblock", "vblock", "eblock", "scan"} :
        /\ At(p, l) /\ l # "fork2" /\ Become(SetState(K, p, s))
        /\ pc' = [pc EXCEPT ![p] = x] /\ UNCHANGED procVars
  <2>1. CASE Sleep(p)
    BY <2>1 DEF Sleep, Call, Calling
  <2>2. CASE ForkBlock(p)
    BY <2>2 DEF ForkBlock, Calling
  <2>3. CASE VforkBlock(p)
    BY <2>3 DEF VforkBlock, Calling
  <2>4. CASE ExitBlock(p)
    BY <2>4 DEF ExitBlock, Calling
  <2>5. CASE WaitEnter(p)
    BY <2>5 DEF WaitEnter, Call, Calling
  <2> QED BY <2>1, <2>2, <2>3, <2>4, <2>5
<1>2. pc[p] \notin Hidden /\ x \notin Hidden /\ kid' = kid
  BY <1>1 DEF At, Calling, Hidden, procVars
<1>3. Labels' = Labels /\ BaseKid' = BaseKid
  BY <1>1, <1>2, Now, CarriesOn
<1> QED BY <1>1, <1>3, SleepsBoth

\* A policy that is not SHORT, on either side.
LEMMA PolicyShown ==
  ASSUME NEW t, NEW u, Seen(t, u, "own"), Proper(t), NEW policy \in {"OTHER", "FIFO", "RR"},
         NEW rt_priority \in 0 .. MAX_USER_RT_PRIO - 1, NEW requested_time, NEW trials,
         NEW new, new = WithPolicy(t, policy, rt_priority, requested_time, trials),
         NEW r, r = [new EXCEPT !.array = NULL],
         NEW v, v = Base!WithPolicy(u, policy, rt_priority)
  PROVE  Seen(r, v, "own") /\ ActivationPrios(new) = Base!ActivationPrios(v)
<1>1. t \in TaskRecord /\ u \in BaseRecord
  BY DEF Seen
<1>2. MAX_USER_RT_PRIO \in Int /\ rt_priority \in Int
  BY PrioAssumption
<1>3. PICK n \in Int : n = IF policy = "OTHER" THEN u.static_prio ELSE MAX_USER_RT_PRIO - 1 - rt_priority
  BY <1>1, <1>2 DEF BaseRecord
<1>4. PICK h : h = [t EXCEPT !.policy = policy, !.prio = n]
  OBVIOUS
<1>5. new = h
  BY <1>3, <1>4 DEF WithPolicy, NewPolicy, KEEP, Seen
<1>6. r = [t EXCEPT !.policy = policy, !.prio = n, !.array = NULL]
  BY <1>4, <1>5
<1>7. v = [u EXCEPT !.policy = policy, !.array = NULL, !.prio = n]
  BY <1>3 DEF Base!WithPolicy, NULL, Base!NULL
<1>8. /\ r \in TaskRecord /\ r.policy = policy /\ r.prio = n /\ r.static_prio = t.static_prio
      /\ r.array = NULL /\ r.need_resched = t.need_resched /\ r.state = t.state
      /\ r.remaining_trials = t.remaining_trials /\ r.time_slice = t.time_slice
      /\ r.first_time_slice = t.first_time_slice
  BY <1>1, <1>6 DEF TaskRecord, Policies, ArrayId, NULL
<1>9. /\ v \in BaseRecord /\ v.policy = policy /\ v.prio = n /\ v.static_prio = u.static_prio
      /\ v.array = NULL /\ v.need_resched = u.need_resched /\ v.state = u.state
      /\ v.time_slice = u.time_slice /\ v.first_time_slice = u.first_time_slice
  BY <1>1, <1>7 DEF BaseRecord
<1>10. Seen(r, v, "own")
  BY <1>8, <1>9 DEF Seen
<1>11. ActivationPrios(new) = ActivationPrios(r)
  <2>1. new.prio = r.prio /\ new.static_prio = r.static_prio /\ new.policy = r.policy
    BY <1>1, <1>4, <1>5, <1>8 DEF TaskRecord
  <2> QED BY <2>1 DEF ActivationPrios, effective_prio, rt_task, is_short
<1> QED BY <1>10, <1>11, PriosShown

\* setscheduler by whoever of whomever.
LEMMA SetSchedulerMirrored ==
  ASSUME Beforehand, "SHORT" \notin NewPolicies, NEW p \in Pid, SetScheduler(p)
  PROVE  Mirrors
<1>1. PICK q \in Pid, policy \in NewPolicies, rt_priority \in 0 .. MAX_USER_RT_PRIO - 1,
           requested_time \in Requests, trials \in Trials :
        LET new == WithPolicy(task[q], policy, rt_priority, requested_time, trials)
        IN /\ Call(p, IF p = q THEN "setscheduler" ELSE "setscheduler_other")
           /\ Hashed(q)
           /\ MaySetScheduler(task[q], policy, rt_priority, requested_time, trials)
           /\ \E prio \in ActivationPrios(new) :
                LET k == setscheduler(K, q, new, prio) IN Become(k) /\ Return(k, p)
           /\ UNCHANGED <<procVars, cpuVars, remaining_switches>>
  BY DEF SetScheduler
<1>2. PICK new : new = WithPolicy(task[q], policy, rt_priority, requested_time, trials)
  OBVIOUS
<1>3. PICK prio \in ActivationPrios(new) :
        Become(setscheduler(K, q, new, prio)) /\ Return(setscheduler(K, q, new, prio), p)
  BY <1>1, <1>2
<1>4. PICK j : j = setscheduler(K, q, new, prio)
  OBVIOUS
<1>5. /\ At(p, "run") /\ Hashed(q) /\ kid' = kid /\ q \in Task
      /\ MaySetScheduler(task[q], policy, rt_priority, requested_time, trials)
  BY <1>1 DEF Call, procVars, Task
<1>6. Labels[q] = "own" /\ Base!Hashed(q) /\ Base!Call("setscheduler")
  <2>1. Labels[q] = "own"
    BY <1>5 DEF Labels, Label, Hashed
  <2>2. BaseTasks[q].state = task[q].state
    BY <1>5, <2>1, ShownAs
  <2>3. task[q].state \in States
    <3>1. task[q] \in TaskRecord
      BY Now, Facts
    <3> QED BY <3>1 DEF TaskRecord, States
  <2>4. Base!Hashed(q)
    BY <2>2, <2>3 DEF Base!Hashed, States
  <2>5. "run" \in Calling
    BY DEF Calling
  <2> QED BY <1>5, <2>1, <2>4, <2>5, Called
<1>7. PICK t \in TaskRecord, u \in BaseRecord : t = task[q] /\ u = BaseTasks[q] /\ Seen(t, u, "own")
  BY <1>5, <1>6, Now, BaseFields, ShownTask
<1>8. /\ Proper(t) /\ policy \in (Policies \cup {KEEP}) \ {"SHORT"}
      /\ requested_time \in Nat /\ trials \in Nat
  <2>1. policy \in Policies \cup {KEEP} /\ requested_time \in Nat /\ trials \in Nat
    BY Arguments, SchedAssumption, SMTT(30)
  <2> QED BY <1>7, <2>1, Now, Facts
<1>9. PICK kept \in {"OTHER", "FIFO", "RR"} :
        kept = NewPolicy(t, policy) /\ kept = Base!NewPolicy(BaseTasks[q], policy)
  <2>1. t.policy \in {"OTHER", "FIFO", "RR"} /\ u.policy = t.policy /\ u = BaseTasks[q]
    BY <1>7 DEF Seen, BaseRecord
  <2> QED BY <1>8, <2>1 DEF NewPolicy, Base!NewPolicy, KEEP, Base!KEEP, Policies
<1>10. PICK r, v : /\ r = [new EXCEPT !.array = NULL]
                   /\ v = Base!WithPolicy(u, kept, rt_priority)
  OBVIOUS
<1>11. Seen(r, v, "own") /\ ActivationPrios(new) = Base!ActivationPrios(v)
  <2>1. new = WithPolicy(t, kept, rt_priority, requested_time, trials)
    <3>1. NewPolicy(t, kept) = kept
      BY <1>9 DEF NewPolicy, KEEP
    <3>2. WithPolicy(t, policy, rt_priority, requested_time, trials)
            = WithPolicy(t, kept, rt_priority, requested_time, trials)
      BY <1>9, <3>1 DEF WithPolicy
    <3> QED BY <1>2, <1>7, <3>2
  <2>2. Seen(t, u, "own") /\ rt_priority \in 0 .. MAX_USER_RT_PRIO - 1
    BY <1>7
  <2> QED BY ONLY <1>8, <1>9, <1>10, <2>1, <2>2, PolicyShown
<1>12. /\ Proper(new) /\ new.array = t.array /\ FitPrio(new, prio)
       /\ (kept = "OTHER") = (rt_priority = 0)
  <2>1. MaySetScheduler(t, policy, rt_priority, requested_time, trials)
        /\ new = WithPolicy(t, policy, rt_priority, requested_time, trials)
    BY <1>2, <1>5, <1>7
  <2>2. Proper(new) /\ new.array = t.array
    BY <1>8, <2>1, PolicyWritten
  <2>3. (kept = "OTHER") = (rt_priority = 0)
    BY <1>9, <2>1 DEF MaySetScheduler
  <2> QED BY <2>2, <2>3, ActivationPrio
<1>13. PICK d : d = IF Base!K.task[q].array = NULL THEN [Base!K EXCEPT !.task[q] = v]
                    ELSE Base!activate_task([Base!deactivate_task(Base!K, q) EXCEPT !.task[q] = v], q, prio)
  OBVIOUS
<1>14. Shows(j, d, Labels)
  <2>1. Good(K, {}, 0) /\ Shows(K, Base!K, Labels) /\ 0 \in Int
    BY Now
  <2>2. new.array = K.task[q].array /\ Seen(r, v, Labels[q])
    BY <1>6, <1>7, <1>11, <1>12, Now
  <2>3. Proper(new) /\ FitPrio(new, prio) /\ r = [new EXCEPT !.array = NULL]
    BY <1>12, <1>10
  <2> QED BY ONLY q \in Pid, <1>4, <1>13, <2>1, <2>2, <2>3, SetschedulerShown
<1>15. Labels' = Labels /\ BaseKid' = BaseKid
  <2>1. PICK x \in {"ret", "run"} : pc' = [pc EXCEPT ![p] = x]
    BY <1>3, ReturnLabel
  <2>2. pc[p] \notin Hidden /\ x \notin Hidden
    BY <1>5, <2>1 DEF At, Hidden
  <2> QED BY <1>5, <2>1, <2>2, Now, CarriesOn
<1>16. Base!Become(d) /\ Shown'
  BY <1>3, <1>4, <1>14, <1>15, BecomeShown
<1>17. Base!setscheduler(q, policy, rt_priority)
  <2>1. v = Base!WithPolicy(BaseTasks[q], Base!NewPolicy(BaseTasks[q], policy), rt_priority)
    BY <1>7, <1>9, <1>10
  <2>2. CASE BaseTasks[q].array = NULL
    <3>1. d = [Base!K EXCEPT !.task[q] = v]
      BY <1>13, <2>2, BaseFields
    <3>2. /\ d.active = active /\ d.queue = BaseQueue /\ d.curr = curr
          /\ d.task = [BaseTasks EXCEPT ![q] = v]
      BY <3>1 DEF Base!K
    <3>3. BaseTasks' = [BaseTasks EXCEPT ![q] = v] /\ UNCHANGED <<active, BaseQueue, curr>>
      BY <1>16, <3>2 DEF Base!Become
    <3> QED BY <1>6, <1>9, <1>12, <1>15, <2>1, <2>2, <3>3 DEF Base!setscheduler, NULL, Base!NULL
  <2>3. CASE BaseTasks[q].array # NULL
    <3>1. d = Base!activate_task([Base!deactivate_task(Base!K, q) EXCEPT !.task[q] = v], q, prio)
      BY <1>13, <2>3, BaseFields
    <3>2. prio \in Base!ActivationPrios(v)
      BY <1>11
    <3> QED BY <1>6, <1>9, <1>12, <1>15, <1>16, <2>1, <2>3, <3>1, <3>2 DEF Base!setscheduler, NULL, Base!NULL
  <2> QED BY <2>2, <2>3
<1>18. Base!SysCall
  BY <1>17 DEF Base!SysCall
<1> QED BY <1>16, <1>18 DEF Mirrors, Base!Next

\* nice by the task itself.
LEMMA NiceMirrored ==
  ASSUME Beforehand, "nice_other" \notin Calls, NEW p \in Pid, Nice(p)
  PROVE  Mirrors
<1>1. PICK q \in Pid, prio \in NicePrios :
        LET k == set_user_nice(K, q, prio)
        IN /\ Call(p, IF p = q THEN "nice" ELSE "nice_other")
           /\ Hashed(q)
           /\ Become(k) /\ Return(k, p)
           /\ UNCHANGED <<procVars, cpuVars, remaining_switches>>
  BY DEF Nice
<1>2. PICK j : j = set_user_nice(K, q, prio)
  OBVIOUS
<1>3. /\ q = p /\ At(p, "run") /\ Become(j) /\ Return(j, p) /\ kid' = kid /\ "run" \in Calling
      /\ prio \in UserPrio
  BY <1>1, <1>2, SchedAssumption DEF Call, procVars, Calling
<1>4. Labels' = Labels /\ BaseKid' = BaseKid
  <2>1. PICK x \in {"ret", "run"} : pc' = [pc EXCEPT ![p] = x]
    BY <1>3, ReturnLabel
  <2>2. pc[p] \notin Hidden /\ x \notin Hidden
    BY <1>3, <2>1 DEF At, Hidden
  <2> QED BY <1>3, <2>1, <2>2, Now, CarriesOn
<1>5. /\ p = curr /\ p \in Task /\ Labels[p] = "own" /\ Base!Call("nice") /\ K.task[p] = task[p]
      /\ p = K.curr /\ BaseTasks[p].state = "RUNNING"
  BY <1>3, Now, Called
<1>6. CASE task[p].static_prio = prio
  <2>1. j = K
    BY <1>2, <1>3, <1>5, <1>6 DEF set_user_nice
  <2> QED BY <1>3, <1>4, <2>1, Now, Stutters
<1>7. CASE task[p].static_prio # prio
  <2>1. PICK d : d = BaseNice(Base!K, p, prio)
    OBVIOUS
  <2>2. Shows(j, d, Labels)
    <3>1. /\ Good(K, {}, 0) /\ Shows(K, Base!K, Labels) /\ 0 \in Int
          /\ K.task[p].static_prio # prio /\ p = K.curr /\ prio \in UserPrio
      BY <1>3, <1>5, <1>7, Now
    <3>2. j = set_user_nice(K, p, prio)
      BY <1>2, <1>3
    <3> QED BY ONLY p \in Pid, <2>1, <3>1, <3>2, NiceShown
  <2>3. Base!Become(d) /\ Shown'
    BY <1>3, <1>4, <2>2, BecomeShown
  <2>4. BaseTasks[p].static_prio = task[p].static_prio /\ Base!Hashed(p)
    BY <1>5, ShownAs DEF Base!Hashed
  <2>5. PICK b : b = Base!K
    OBVIOUS
  <2>6. b.task = BaseTasks /\ b.curr = p
    BY <1>5, <2>5, BaseFields
  <2>7. Base!set_user_nice(p, prio)
    <3>1. CASE Base!rt_task(BaseTasks[p])
      <4>1. d = [b EXCEPT !.task[p].static_prio = prio]
        BY <2>1, <2>5, <2>6, <3>1 DEF BaseNice
      <4>2. Base!Become([Base!K EXCEPT !.task[p].static_prio = prio])
        BY <2>3, <2>5, <4>1
      <4> QED BY <1>4, <1>5, <1>7, <2>4, <3>1, <4>2 DEF Base!set_user_nice
    <3>2. CASE ~ Base!rt_task(BaseTasks[p]) /\ BaseTasks[p].array = NULL
      <4>1. d = [b EXCEPT !.task[p] = [BaseTasks[p] EXCEPT !.static_prio = prio, !.prio = prio]]
        BY <2>1, <2>5, <2>6, <3>2 DEF BaseNice, BaseReniced
      <4>2. Base!Become([Base!K EXCEPT !.task[p] = [BaseTasks[p] EXCEPT !.static_prio = prio, !.prio = prio]])
        BY <2>3, <2>5, <4>1
      <4> QED BY <1>4, <1>5, <1>7, <2>4, <3>2, <4>2 DEF Base!set_user_nice, NULL, Base!NULL
    <3>3. CASE ~ Base!rt_task(BaseTasks[p]) /\ BaseTasks[p].array # NULL
      <4>1. PICK v : v = [BaseTasks[p] EXCEPT !.static_prio = prio, !.prio = prio]
        OBVIOUS
      <4>2. PICK e : e = Base!enqueue_task([Base!dequeue_task(b, p, BaseTasks[p].array) EXCEPT !.task[p] = v],
                                           p, BaseTasks[p].array)
        OBVIOUS
      <4>3. d = Base!resched_task(e)
        BY <2>1, <2>5, <2>6, <3>3, <4>1, <4>2 DEF BaseNice, BaseReniced
      <4>4. e = Base!enqueue_task([Base!dequeue_task(Base!K, p, BaseTasks[p].array)
                                     EXCEPT !.task[p] = [BaseTasks[p] EXCEPT !.static_prio = prio,
                                                                             !.prio = prio]],
                                  p, BaseTasks[p].array)
        BY <2>5, <4>1, <4>2
      <4> QED BY <1>4, <1>5, <1>7, <2>3, <2>4, <3>3, <4>3, <4>4 DEF Base!set_user_nice, NULL, Base!NULL
    <3> QED BY <3>1, <3>2, <3>3
  <2>8. Base!SysCall
    <3>1. prio \in NicePrios
      OBVIOUS
    <3> QED BY <2>7, <3>1 DEF Base!SysCall
  <2> QED BY <2>3, <2>8 DEF Mirrors, Base!Next
<1> QED BY <1>6, <1>7

\* sched_yield.
LEMMA YieldMirrored ==
  ASSUME Beforehand, NEW p \in Pid, Yield(p)
  PROVE  Mirrors
<1>1. /\ At(p, "run") /\ Become(sys_sched_yield(K, p)) /\ pc' = [pc EXCEPT ![p] = "yield"]
      /\ kid' = kid /\ "run" \in Calling
  BY DEF Yield, Call, procVars, Calling
<1>2. PICK j, d : j = sys_sched_yield(K, p) /\ d = Base!YieldPlace(Base!K, p)
  OBVIOUS
<1>3. p = curr /\ p \in Task /\ Base!Call("yield") /\ K.task[p] = task[p]
  BY <1>1, Now, Called
<1>4. K.task[p].array # NULL
  BY <1>3, Now, Running, ShownTask
<1>5. Shows(j, d, Labels)
  BY <1>2, <1>4, Now, YieldShown
<1>6. Labels' = Labels /\ BaseKid' = BaseKid
  BY <1>1, Now, CarriesOn DEF At, Hidden
<1>7. Base!Become(d) /\ Shown'
  BY <1>1, <1>2, <1>5, <1>6, BecomeShown
<1>8. Base!sys_sched_yield
  BY <1>2, <1>3, <1>6, <1>7 DEF Base!sys_sched_yield
<1> QED BY <1>7, <1>8 DEF Mirrors, Base!Next, Base!SysCall

\* A task that is not SHORT does not hang in sched_yield.
LEMMA YieldShortNever ==
  ASSUME Beforehand, NEW p \in Pid
  PROVE  ~ YieldShort(p)
BY Now, ShownTask DEF YieldShort, Task

\* Steps of sys_wait4 and vfork that only look.
LEMMA LookMirrored ==
  ASSUME Beforehand, NEW p \in Pid, WaitBlock(p) \/ VforkReturn(p)
  PROVE  Mirrors
<1>1. CASE WaitBlock(p)
  <2>1. pc' = [pc EXCEPT ![p] = "wblock"] /\ kid' = kid /\ pc[p] = "scan" /\ UNCHANGED rqVars
    BY <1>1 DEF WaitBlock, At, procVars
  <2>2. Labels' = Labels /\ BaseKid' = BaseKid
    BY <2>1, Now, CarriesOn DEF Hidden
  <2> QED BY <2>1, <2>2, Now, Current, Stutters
<1>2. CASE VforkReturn(p)
  <2>1. At(p, "vwait") /\ "vwait" \in Calling /\ kid' = [kid EXCEPT ![p] = None]
        /\ Become(ForkResched(K, p, TRUE)) /\ Return(ForkResched(K, p, TRUE), p)
    BY <1>2 DEF VforkReturn, Calling
  <2>2. ForkResched(K, p, TRUE) = K
    BY Now, ShownTask DEF ForkResched, Task
  <2>3. PICK x \in {"ret", "run"} : pc' = [pc EXCEPT ![p] = x]
    BY <2>1, ReturnLabel
  <2>4. \A q \in Pid : /\ pc'[q] = IF q = p THEN x ELSE pc[q]
                       /\ kid'[q] = IF q = p THEN None ELSE kid[q]
    BY <2>1, <2>3, Now DEF IInv, ProcTypes
  <2>5. pc[p] = "vwait" /\ kid[p] \in Pid /\ pc[kid[p]] \notin {"free", "copy"}
    BY <2>1 DEF At, Beforehand, Inductive, Expecting, VforkPending, Hashed
  <2>6. Labels' = Labels
    <3>1. \A q \in Pid : Shared(q)' <=> Shared(q)
      BY <2>4, <2>5 DEF Shared
    <3>2. ASSUME NEW q \in Task
          PROVE  Label(q)' = Label(q)
      <4>1. q \in Pid \/ q = Idle
        BY DEF Task
      <4> QED BY <2>4, <2>5, <3>1, <4>1 DEF Label
    <3> QED BY <3>2 DEF Labels
  <2>7. BaseKid' = BaseKid
    <3>1. \A q \in Pid : kid[q] \in Pid \/ kid[q] = None
      BY Now DEF IInv, ProcTypes
    <3> QED BY <2>4, <2>5, <3>1 DEF BaseKid
  <2> QED BY <2>1, <2>2, <2>6, <2>7, Now, Stutters
<1> QED BY <1>1, <1>2

-----------------------------------------------------------------------------
(* do_fork.                                                                *)

\* A copy belongs to one task that is in do_fork, and a free task_struct to none.
LEMMA CopyOf ==
  ASSUME Beforehand, NEW c \in Pid
  PROVE  /\ pc[c] = "free" => \A q \in Pid : kid[q] # c
         /\ \A p, q \in Pid : Forking(p) /\ kid[p] = c /\ kid[q] = c => q = p
<1>1. ASSUME NEW q \in Pid, kid[q] = c, pc[c] \in {"free", "copy"}
      PROVE  Forking(q)
  <2>1. kid[q] # None
    BY <1>1, Now, SchedAssumption DEF Task
  <2>2. pc[q] \in {"fork1", "fblock", "fork2", "vwait", "vblock"}
    BY <2>1 DEF Beforehand, Sideline, NoStrayKid
  <2>3. pc[q] \notin {"vwait", "vblock"}
    BY <1>1 DEF Beforehand, Inductive, Expecting, VforkPending, Hashed
  <2> QED BY <2>2, <2>3 DEF Forking
<1>2. Copied
  BY Now DEF IInv
<1>3. ASSUME pc[c] = "free", NEW q \in Pid, kid[q] = c
      PROVE  FALSE
  BY <1>1, <1>2, <1>3 DEF Copied
<1>4. ASSUME NEW p \in Pid, NEW q \in Pid, Forking(p), kid[p] = c, kid[q] = c
      PROVE  q = p
  <2>1. pc[c] = "copy"
    BY <1>2, <1>4 DEF Copied
  <2>2. Forking(q)
    BY <1>1, <1>4, <2>1
  <2> QED BY <1>2, <1>4, <2>2 DEF Copied
<1> QED BY <1>3, <1>4

\* The task in do_fork and its copy.
LEMMA Forks ==
  ASSUME Beforehand, NEW p \in Pid, NEW l \in {"fork1", "fork2"}, At(p, l)
  PROVE  /\ kid[p] \in Pid /\ pc[kid[p]] = "copy" /\ kid[p] # p /\ kid[p] # None
         /\ BaseKid[p] = kid[p]
         /\ \A q \in Pid : kid[q] = kid[p] => q = p
         /\ Labels[kid[p]] = IF l = "fork2" THEN "SPLIT" ELSE "COPY"
         /\ BaseTasks[kid[p]].state = IF l = "fork2" THEN "SPLIT" ELSE "COPY"
         /\ ~ Enqueued(K.task[kid[p]]) /\ kid[p] \in Task
<1>1. Forking(p) /\ pc[p] = l
  BY DEF At, Forking
<1>2. kid[p] \in Pid /\ pc[kid[p]] = "copy" /\ kid[p] # p
  BY <1>1, Now DEF IInv, Copied
<1>3. kid[p] # None /\ BaseKid[p] = kid[p]
  BY <1>2, SchedAssumption DEF BaseKid, Task
<1>4. \A q \in Pid : kid[q] = kid[p] => q = p
  BY <1>1, <1>2, CopyOf
<1>5. kid[p] \in Task /\ kid[p] # Idle
  BY <1>2, PidAssumption DEF Task
<1>6. Shared(kid[p]) <=> l = "fork2"
  BY <1>1, <1>4 DEF Shared
<1>7. Labels[kid[p]] = IF l = "fork2" THEN "SPLIT" ELSE "COPY"
  BY <1>2, <1>5, <1>6 DEF Labels, Label
<1>8. BaseTasks[kid[p]].state = IF l = "fork2" THEN "SPLIT" ELSE "COPY"
  BY <1>5, <1>7, ShownAs
<1>9. ~ Enqueued(K.task[kid[p]])
  BY <1>2, Now, Facts DEF Queued
<1> QED BY <1>2, <1>3, <1>4, <1>5, <1>7, <1>8, <1>9

LEMMA ForkCopyMirrored ==
  ASSUME Beforehand, NEW p \in Pid, NEW c \in Pid, NEW vfork \in BOOLEAN, ForkCopy(p, c, vfork)
  PROVE  Mirrors
<1>1. /\ At(p, "run") /\ pc[c] = "free" /\ Become(Set(K, c, CopyTask(task[p])))
      /\ pc' = [pc EXCEPT ![p] = "fork1", ![c] = "copy"] /\ kid' = [kid EXCEPT ![p] = c]
      /\ "run" \in Calling
  BY DEF ForkCopy, Call, Calling
<1>2. /\ p = curr /\ p \in Task /\ c \in Task /\ c # Idle /\ Labels[p] = "own" /\ Base!Call("fork")
      /\ pc[p] = "run" /\ p # c /\ BaseTasks[p].state = "RUNNING"
  BY <1>1, Called, PidAssumption DEF Task
<1>3. PICK m : m = [Labels EXCEPT ![c] = "COPY"]
  OBVIOUS
<1>4. PICK j, d : /\ j = Set(K, c, CopyTask(K.task[p]))
                  /\ d = [Base!K EXCEPT !.task[c] = [Base!K.task[p] EXCEPT !.state = "COPY", !.array = Base!NULL]]
  OBVIOUS
<1>5. Shows(j, d, m)
  <2>1. m[c] = "COPY" /\ \A q \in Task \ {c} : m[q] = Labels[q]
    BY <1>2, <1>3 DEF Labels
  <2>2. d = [Base!K EXCEPT !.task[c] = [Base!K.task[p] EXCEPT !.state = "COPY", !.array = NULL]]
    BY <1>4 DEF NULL, Base!NULL
  <2>3. Shows(K, Base!K, Labels) /\ Labels[p] = "own" /\ j = Set(K, c, CopyTask(K.task[p]))
    BY <1>2, <1>4, Now
  <2> QED BY ONLY p \in Pid, c \in Pid, <2>1, <2>2, <2>3, CopyShown
<1>6. \A q \in Pid : /\ pc'[q] = IF q = c THEN "copy" ELSE IF q = p THEN "fork1" ELSE pc[q]
                     /\ kid'[q] = IF q = p THEN c ELSE kid[q]
  BY <1>1, <1>2, Now DEF IInv, ProcTypes
<1>7. \A q \in Pid : kid[q] # c
  BY <1>1, CopyOf
<1>8. \A q \in Task : Labels'[q] = m[q]
  <2>1. \A q \in Pid : Shared(q)' <=> Shared(q)
    <3>1. ASSUME NEW q \in Pid, NEW r \in Pid
          PROVE  (kid'[r] = q /\ pc'[r] = "fork2") <=> (kid[r] = q /\ pc[r] = "fork2")
      <4>1. CASE r = p
        BY <1>2, <1>6, <4>1
      <4>2. CASE r = c
        <5>1. pc'[r] = "copy" /\ pc[r] = "free"
          BY <1>1, <1>6, <4>2
        <5> QED BY <5>1
      <4>3. CASE r # p /\ r # c
        BY <1>6, <4>3
      <4> QED BY <4>1, <4>2, <4>3
    <3> QED BY <3>1 DEF Shared
  <2>2. ~ Shared(c)
    BY <1>7 DEF Shared
  <2>3. ASSUME NEW q \in Task
        PROVE  Label(q)' = m[q]
    <3>1. q \in Pid \/ q = Idle
      BY DEF Task
    <3>2. m[q] = IF q = c THEN "COPY" ELSE Label(q)
      BY <1>3 DEF Labels
    <3> QED BY <1>2, <1>6, <2>1, <2>2, <3>1, <3>2 DEF Label
  <2> QED BY <2>3 DEF Labels
<1>9. BaseKid' = [BaseKid EXCEPT ![p] = c] /\ BaseKid[p] = None
  <2>1. c # None /\ \A q \in Pid : kid[q] \in Pid \/ kid[q] = None
    BY Now, SchedAssumption DEF IInv, ProcTypes, Task
  <2>2. kid[p] = None
    BY <1>2 DEF Beforehand, Sideline, NoStrayKid
  <2>3. ASSUME NEW q \in Pid, q # p, kid[q] \in Pid
        PROVE  kid'[q] = kid[q] /\ (pc'[kid[q]] = "copy" <=> pc[kid[q]] = "copy")
    BY <1>2, <1>6, <1>7, <2>3
  <2>4. kid'[p] = c /\ pc'[c] = "copy"
    BY <1>6
  <2>5. BaseKid' = [q \in Pid |-> IF kid'[q] # None /\ pc'[kid'[q]] = "copy" THEN kid'[q] ELSE None]
    BY DEF BaseKid
  <2>6. ASSUME NEW q \in Pid
        PROVE  BaseKid'[q] = IF q = p THEN c ELSE BaseKid[q]
    <3>1. BaseKid'[q] = IF kid'[q] # None /\ pc'[kid'[q]] = "copy" THEN kid'[q] ELSE None
      BY <2>5
    <3>2. BaseKid[q] = IF kid[q] # None /\ pc[kid[q]] = "copy" THEN kid[q] ELSE None
      BY DEF BaseKid
    <3> QED BY <1>6, <2>1, <2>3, <2>4, <3>1, <3>2
  <2>7. BaseKid = [q \in Pid |-> BaseKid[q]] /\ BaseKid' = [q \in Pid |-> BaseKid'[q]]
    BY <2>5 DEF BaseKid
  <2> QED BY <2>2, <2>6, <2>7 DEF BaseKid
<1>10. Base!Become(d) /\ Shown'
  BY <1>1, <1>4, <1>5, <1>8, Now, BecomeShown
<1>11. Base!ForkCopy(c)
  <2>1. BaseTasks[c].state = "FREE"
    <3>1. Labels[c] = "FREE"
      BY <1>1, <1>2 DEF Labels, Label
    <3> QED BY <1>2, <3>1, ShownAs
  <2>2. /\ d.active = active /\ d.queue = BaseQueue /\ d.curr = curr
        /\ d.task = [BaseTasks EXCEPT ![c] = [BaseTasks[p] EXCEPT !.state = "COPY", !.array = Base!NULL]]
    BY <1>4 DEF Base!K
  <2> QED BY <1>2, <1>9, <1>10, <2>1, <2>2 DEF Base!ForkCopy, Base!Become
<1>12. Base!SysCall
  BY <1>11 DEF Base!SysCall
<1> QED BY <1>10, <1>12 DEF Mirrors, Base!Next

\* p goes to x and its copy c to y, which p then knows as d.
KidMoves(p, c, x, y, d) ==
  /\ c = kid[p] /\ x \notin {"free", "copy"}
  /\ \/ y = "copy" /\ d = c
     \/ y \in {"free", "new"} /\ d \in {c, None} /\ x \notin Hidden
  /\ \A q \in Pid : /\ pc'[q] = IF q = c THEN y ELSE IF q = p THEN x ELSE pc[q]
                    /\ kid'[q] = IF q = p THEN d ELSE kid[q]
KidLabel(x, y) ==
  IF y = "free" THEN "FREE" ELSE IF y = "new" THEN "own" ELSE IF x = "fork2" THEN "SPLIT" ELSE "COPY"

\* Of the labels m only that of c is new.
Relabeled(m, c, s) ==
  /\ m[c] = s
  /\ \A q \in Task \ {c} : m[q] = Labels[q]
  /\ \A q \in Task : Labels'[q] = m[q]

LEMMA KidShown ==
  ASSUME Beforehand, NEW p \in Pid, NEW l \in {"fork1", "fork2"}, At(p, l),
         NEW c, NEW x, NEW y, NEW d, KidMoves(p, c, x, y, d)
  PROVE  /\ \E m : Relabeled(m, c, KidLabel(x, y))
         /\ BaseKid' = IF y = "copy" THEN BaseKid ELSE [BaseKid EXCEPT ![p] = None]
<1>0. PICK s : s = KidLabel(x, y)
  OBVIOUS
<1>m. PICK m : m = [Labels EXCEPT ![c] = s]
  OBVIOUS
<1>k. /\ c = kid[p] /\ x \notin {"free", "copy"}
      /\ \/ y = "copy" /\ d = c
         \/ y \in {"free", "new"} /\ d \in {c, None} /\ x \notin Hidden
      /\ \A q \in Pid : /\ pc'[q] = IF q = c THEN y ELSE IF q = p THEN x ELSE pc[q]
                        /\ kid'[q] = IF q = p THEN d ELSE kid[q]
  BY DEF KidMoves
<1>1. /\ c \in Pid /\ pc[c] = "copy" /\ c # p /\ c # None /\ BaseKid[p] = c
      /\ \A q \in Pid : kid[q] = c => q = p
  BY <1>k, Forks
<1>2. pc[p] = l /\ pc[p] \notin {"free", "copy"} /\ c # Idle
  BY <1>k, <1>1, PidAssumption DEF At
<1>3. ASSUME NEW q \in Pid, q # c
      PROVE  /\ Shared(q)' <=> Shared(q)
             /\ q # p => pc'[q] = pc[q]
  <2>1. ASSUME NEW r \in Pid
        PROVE  (kid'[r] = q /\ pc'[r] = "fork2") <=> (kid[r] = q /\ pc[r] = "fork2")
    <3>1. CASE r = p
      <4>1. kid[r] = c /\ kid'[r] \in {c, None} /\ q \in Pid
        BY <1>k, <3>1, <1>1
      <4>2. None # q
        BY SchedAssumption DEF Task
      <4> QED BY <1>k, <1>3, <4>1, <4>2
    <3>2. CASE r = c
      BY <1>k, <1>1, <3>2
    <3>3. CASE r # p /\ r # c
      BY <1>k, <3>3
    <3> QED BY <1>k, <3>1, <3>2, <3>3
  <2> QED BY <1>k, <1>3, <2>1 DEF Shared
<1>4. Label(c)' = s
  <2>1. pc'[c] = y /\ pc'[p] = x /\ kid'[p] = d
    BY <1>k, <1>1
  <2>2. CASE y = "free"
    BY <1>0, <1>k, <1>2, <2>1, <2>2 DEF Label, KidLabel
  <2>3. CASE y = "new"
    BY <1>0, <1>k, <1>2, <2>1, <2>3 DEF Label, KidLabel
  <2>4. CASE y = "copy"
    <3>1. Shared(c)' <=> x = "fork2"
      BY <1>k, <1>1, <2>1, <2>4 DEF Shared
    <3> QED BY <1>0, <1>2, <2>1, <2>4, <3>1 DEF Label, KidLabel
  <2> QED BY <1>k, <2>2, <2>3, <2>4
<1>5. m[c] = s /\ (\A q \in Task \ {c} : m[q] = Labels[q]) /\ \A q \in Task : Labels'[q] = m[q]
  <2>1. c \in Task
    BY <1>k, <1>1 DEF Task
  <2>2. m[c] = s /\ \A q \in Task \ {c} : m[q] = Labels[q]
    BY <1>m, <2>1 DEF Labels
  <2>3. ASSUME NEW q \in Task, q # c
        PROVE  Label(q)' = Label(q)
    <3>1. q \in Pid \/ q = Idle
      BY DEF Task
    <3>2. CASE q = p
      <4>1. pc'[q] = x
        BY <1>k, <1>1, <3>2
      <4> QED BY <1>k, <1>2, <3>2, <4>1, <1>1 DEF Label
    <3>3. CASE q # p
      BY <1>k, <1>3, <2>3, <3>1, <3>3 DEF Label
    <3> QED BY <1>k, <3>2, <3>3
  <2> QED BY <1>k, <1>4, <2>2, <2>3 DEF Labels
<1>6. BaseKid' = IF y = "copy" THEN BaseKid ELSE [BaseKid EXCEPT ![p] = None]
  <2>1. BaseKid' = [q \in Pid |-> IF kid'[q] # None /\ pc'[kid'[q]] = "copy" THEN kid'[q] ELSE None]
    BY DEF BaseKid
  <2>2. ASSUME NEW q \in Pid, q # p
        PROVE  kid'[q] = kid[q] /\ (kid[q] # None => (pc'[kid[q]] = "copy" <=> pc[kid[q]] = "copy"))
    <3>1. kid'[q] = kid[q] /\ kid[q] # c /\ (kid[q] \in Pid \/ kid[q] = None)
      BY <1>k, <1>1, <2>2, Now DEF IInv, ProcTypes
    <3>2. kid[q] = p => pc'[p] = x /\ pc[p] # "copy"
      BY <1>k, <1>1, <1>2
    <3> QED BY <1>k, <3>1, <3>2
  <2>3. IF y = "copy" THEN kid'[p] = c /\ pc'[c] = "copy" ELSE kid'[p] = None \/ (kid'[p] = c /\ pc'[c] # "copy")
    BY <1>k, <1>1
  <2>4. ASSUME NEW q \in Pid
        PROVE  BaseKid'[q] = IF q = p /\ y # "copy" THEN None ELSE BaseKid[q]
    <3>1. BaseKid'[q] = IF kid'[q] # None /\ pc'[kid'[q]] = "copy" THEN kid'[q] ELSE None
      BY <1>k, <2>1
    <3>2. BaseKid[q] = IF kid[q] # None /\ pc[kid[q]] = "copy" THEN kid[q] ELSE None
      BY DEF BaseKid
    <3>3. CASE q = p
      BY <1>k, <1>1, <2>3, <3>1, <3>3
    <3>4. CASE q # p
      BY <1>k, <2>2, <3>1, <3>2, <3>4
    <3> QED BY <1>k, <3>3, <3>4
  <2>5. BaseKid = [q \in Pid |-> BaseKid[q]] /\ BaseKid' = [q \in Pid |-> BaseKid'[q]]
    BY <1>k, <2>1 DEF BaseKid
  <2>6. CASE y = "copy"
    BY <1>k, <2>4, <2>5, <2>6
  <2>7. CASE y # "copy"
    BY <1>k, <2>4, <2>5, <2>7
  <2> QED BY <1>k, <2>6, <2>7
<1> QED BY <1>0, <1>5, <1>6 DEF Relabeled

LEMMA ForkFailMirrored ==
  ASSUME Beforehand, NEW p \in Pid, ForkFail(p)
  PROVE  Mirrors
<1>1. PICK c, x : /\ c = kid[p] /\ x = IF task[p].need_resched THEN "ret" ELSE "run"
  OBVIOUS
<1>2. /\ At(p, "fork1") /\ Become(Set(K, c, BlankTask)) /\ pc' = [pc EXCEPT ![p] = x, ![c] = "free"]
      /\ kid' = [kid EXCEPT ![p] = None] /\ "fork1" \in Calling
  BY <1>1 DEF ForkFail, Calling
<1>3. /\ c \in Pid /\ c # p /\ c # None /\ BaseKid[p] = c /\ BaseTasks[c].state = "COPY" /\ c \in Task
  BY <1>1, <1>2, Forks
<1>4. p = curr /\ Base!Call("fork")
  BY <1>2, Called
<1>5. KidMoves(p, c, x, "free", None)
  <2>1. \A q \in Pid : /\ pc'[q] = IF q = c THEN "free" ELSE IF q = p THEN x ELSE pc[q]
                       /\ kid'[q] = IF q = p THEN None ELSE kid[q]
    BY <1>2, <1>3, Now DEF IInv, ProcTypes
  <2>2. x \notin Hidden /\ x \notin {"free", "copy"}
    BY <1>1 DEF Hidden
  <2> QED BY <1>1, <2>1, <2>2 DEF KidMoves
<1>6. (\E m : Relabeled(m, c, "FREE")) /\ BaseKid' = [BaseKid EXCEPT ![p] = None]
  BY <1>2, <1>5, KidShown DEF KidLabel
<1>m. PICK m : Relabeled(m, c, "FREE")
  BY <1>6
<1>7. PICK j, d : j = Set(K, c, BlankTask) /\ d = [Base!K EXCEPT !.task[c] = Base!BlankTask]
  OBVIOUS
<1>8. Shows(j, d, m)
  <2>1. Shows(K, Base!K, Labels)
    BY Now
  <2>2. c \in Pid /\ m[c] = "FREE" /\ \A q \in Task \ {c} : m[q] = Labels[q]
    BY <1>3, <1>m DEF Relabeled
  <2>3. PICK b : b = Base!K
    OBVIOUS
  <2>4. Shows(K, b, Labels) /\ d = [b EXCEPT !.task[c] = Base!BlankTask] /\ j = Set(K, c, BlankTask)
    BY <1>7, <2>1, <2>3
  <2> QED BY ONLY <2>2, <2>4, FreedShown
<1>9. Base!Become(d) /\ Shown'
  BY <1>2, <1>m, <1>7, <1>8, BecomeShown DEF Relabeled
<1>10. /\ d.active = active /\ d.queue = BaseQueue /\ d.curr = curr
       /\ d.task = [BaseTasks EXCEPT ![c] = Base!BlankTask]
  BY <1>7 DEF Base!K
<1>11. Base!ForkFail
  BY <1>3, <1>4, <1>6, <1>9, <1>10 DEF Base!ForkFail, Base!Become
<1> QED BY <1>9, <1>11 DEF Mirrors, Base!Next, Base!SysCall

LEMMA ForkSplitMirrored ==
  ASSUME Beforehand, NEW p \in Pid, ForkSplit(p)
  PROVE  Mirrors
<1>1. PICK c : c = kid[p]
  OBVIOUS
<1>2. PICK prio \in effective_prio(task[p]), stay \in Interactive :
        Become(SplitSlice(K, p, c, prio, stay))
  BY <1>1 DEF ForkSplit
<1>3. At(p, "fork1") /\ pc' = [pc EXCEPT ![p] = "fork2"] /\ kid' = kid /\ "fork1" \in Calling
  BY DEF ForkSplit, Calling, procVars
<1>4. /\ c \in Pid /\ pc[c] = "copy" /\ c # p /\ c # None /\ BaseKid[p] = c
      /\ BaseTasks[c].state = "COPY" /\ c \in Task /\ ~ Enqueued(K.task[c])
  BY <1>1, <1>3, Forks
<1>5. /\ p = curr /\ p = K.curr /\ p \in Task /\ pc[p] = "fork1" /\ Base!Call("fork") /\ K.task[p] = task[p]
  BY <1>3, Now, Called
<1>6. KidMoves(p, c, "fork2", "copy", c)
  <2>1. \A q \in Pid : /\ pc'[q] = IF q = c THEN "copy" ELSE IF q = p THEN "fork2" ELSE pc[q]
                       /\ kid'[q] = IF q = p THEN c ELSE kid[q]
    BY <1>1, <1>3, <1>4, Now DEF IInv, ProcTypes
  <2> QED BY <1>1, <2>1 DEF KidMoves
<1>7. (\E m : Relabeled(m, c, "SPLIT")) /\ BaseKid' = BaseKid
  BY <1>3, <1>6, KidShown DEF KidLabel
<1>8. PICK m : Relabeled(m, c, "SPLIT")
  BY <1>7
<1>9. PICK j, d : j = SplitSlice(K, p, c, prio, stay) /\ d = Base!SplitSlice(Base!K, p, c, prio, stay)
  OBVIOUS
<1>10. K.task[p].time_slice > 0
  <2>1. ~ is_overdue(task[p])
    BY <1>5, Now, ShownTask
  <2> QED BY <1>5, <2>1 DEF Beforehand, Supplied, TicksLeft
<1>11. prio \in UserPrio /\ stay \in BOOLEAN
  <2>1. task[p] \in TaskRecord
    BY <1>5, Now, ShownTask
  <2> QED BY <1>2, <2>1, EffectivePrio, SchedAssumption, SMTT(30)
<1>12. Shows(j, d, m)
  <2>1. Shows(K, Base!K, Labels) /\ Good(K, {}, 0) /\ CurrQueued(K) /\ 0 \in Int
    BY Now
  <2>2. m[c] = "SPLIT" /\ \A q \in Task \ {c} : m[q] = Labels[q]
    BY <1>8 DEF Relabeled
  <2> QED BY ONLY p \in Pid, <1>4, <1>5, <1>9, <1>10, <1>11, <2>1, <2>2, SplitShown
<1>13. Base!Become(d) /\ Shown'
  BY <1>2, <1>8, <1>9, <1>12, BecomeShown DEF Relabeled
<1>14. prio \in Base!effective_prio(BaseTasks[curr])
  <2>1. effective_prio(task[curr]) = Base!effective_prio(BaseTasks[curr])
    BY Now, BaseFields, ShownTask, PriosShown
  <2> QED BY <1>2, <1>5, <2>1
<1>15. Base!ForkSplit
  BY <1>2, <1>4, <1>5, <1>7, <1>9, <1>13, <1>14 DEF Base!ForkSplit
<1> QED BY <1>13, <1>15 DEF Mirrors, Base!Next, Base!SysCall

\* wake_up_forked_process.
LEMMA ForkWakeMirrored ==
  ASSUME Beforehand, NEW p \in Pid, ForkWake(p)
  PROVE  Mirrors
<1>1. PICK c, vfork : c = kid[p] /\ vfork = (vfork_done[c] # None)
  OBVIOUS
<1>2. PICK prio \in IF rt_task(task[c]) THEN {task[c].prio} ELSE effective_prio(task[c]) :
        Become(IF vfork THEN wake_up_forked_process(K, c, prio)
               ELSE ForkResched(wake_up_forked_process(K, c, prio), p, FALSE))
  BY <1>1 DEF ForkWake
<1>3. /\ At(p, "fork2") /\ "fork2" \in Calling
      /\ pc' = [pc EXCEPT ![p] = IF vfork THEN "vwait" ELSE "ret", ![c] = "new"]
      /\ kid' = [kid EXCEPT ![p] = IF vfork THEN c ELSE None]
  BY <1>1 DEF ForkWake, Calling
<1>4. /\ c \in Pid /\ pc[c] = "copy" /\ c # p /\ c # None /\ BaseKid[p] = c
      /\ BaseTasks[c].state = "SPLIT" /\ c \in Task /\ ~ Enqueued(K.task[c]) /\ K.task[c] = task[c]
  BY <1>1, <1>3, Forks, Now
<1>5. /\ p = curr /\ p = K.curr /\ p \in Task /\ pc[p] = "fork2" /\ Base!Call("fork") /\ vfork \in BOOLEAN
  BY <1>1, <1>3, Now, Called
<1>6. PICK x \in {"vwait", "ret"}, e \in {c, None} :
        /\ x = (IF vfork THEN "vwait" ELSE "ret") /\ e = (IF vfork THEN c ELSE None)
  OBVIOUS
<1>7. KidMoves(p, c, x, "new", e)
  <2>1. \A q \in Pid : /\ pc'[q] = IF q = c THEN "new" ELSE IF q = p THEN x ELSE pc[q]
                       /\ kid'[q] = IF q = p THEN e ELSE kid[q]
    BY <1>3, <1>4, <1>6, Now DEF IInv, ProcTypes
  <2> QED BY <1>1, <1>6, <2>1 DEF KidMoves, Hidden
<1>8. (\E m : Relabeled(m, c, "own")) /\ BaseKid' = [BaseKid EXCEPT ![p] = None]
  BY <1>3, <1>7, KidShown DEF KidLabel
<1>9. PICK m : Relabeled(m, c, "own")
  BY <1>8
<1>10. FitPrio(K.task[c], prio)
  <2>1. Proper(task[c]) /\ task[c] \in TaskRecord
    BY <1>4, Now, Facts
  <2>2. CASE rt_task(task[c])
    BY <1>2, <1>4, <2>1, <2>2 DEF FitPrio, Proper, rt_task
  <2>3. CASE ~ rt_task(task[c])
    <3>1. prio \in UserPrio
      BY <1>2, <2>1, <2>3, EffectivePrio
    <3>2. task[c].policy \in {"OTHER", "SHORT"}
      BY <2>1, <2>3 DEF Proper, TaskRecord, Policies
    <3> QED BY <1>4, <3>1, <3>2, UserPrioFits
  <2> QED BY <2>2, <2>3
<1>11. PICK j, d : /\ j = wake_up_forked_process(K, c, prio)
                   /\ d = Base!activate_task([Base!K EXCEPT !.task[c].state = "RUNNING"], c, prio)
  OBVIOUS
<1>12. Shows(j, d, m)
  <2>1. Shows(K, Base!K, Labels) /\ Good(K, {}, 0) /\ 0 \in Int
    BY Now
  <2>2. m[c] = "own" /\ \A q \in Task \ {c} : m[q] = Labels[q]
    BY <1>9 DEF Relabeled
  <2>3. PICK b : b = Base!K
    OBVIOUS
  <2>4. Shows(K, b, Labels) /\ d = Base!activate_task([b EXCEPT !.task[c].state = "RUNNING"], c, prio)
    BY <1>11, <2>1, <2>3
  <2>5. ~ Enqueued(K.task[c]) /\ c \in Pid /\ j = wake_up_forked_process(K, c, prio)
    BY <1>4, <1>11
  <2> QED BY ONLY <1>10, <2>1, <2>2, <2>4, <2>5, WokenChildShown
<1>13. PICK i, f : /\ i = IF vfork THEN j ELSE ForkResched(j, p, FALSE)
                   /\ f = IF vfork THEN d ELSE Base!resched_task(d)
  OBVIOUS
<1>14. Shows(i, f, m)
  <2>1. CASE vfork
    BY <1>12, <1>13, <2>1
  <2>2. CASE ~ vfork
    <3>1. PICK h, g : h = resched_task(j, p) /\ g = [d EXCEPT !.task[p].need_resched = TRUE]
      OBVIOUS
    <3>2. Shows(h, g, m)
      BY <1>5, <1>12, <3>1, ReschedShown
    <3>3. d.curr = p
      <4>1. Good(K, {}, 0) /\ ~ Enqueued(K.task[c]) /\ 0 \in Int
        BY <1>4, Now
      <4>2. Wakes(K, j, c)
        BY <1>4, <1>10, <1>11, <4>1, WakeUpForkedProcess
      <4> QED BY <1>5, <1>12, <4>2 DEF Wakes, Shows
    <3>4. f = g
      BY <1>13, <2>2, <3>1, <3>3 DEF Base!resched_task
    <3>5. i = UPDATE_REASON(h, p, CREATED) /\ CREATED \in 0 .. 7
      BY <1>13, <2>2, <3>1 DEF ForkResched, CREATED
    <3> QED BY <1>5, <3>2, <3>4, <3>5, ReasonShown
  <2> QED BY <1>5, <2>1, <2>2
<1>15. Base!Become(f) /\ Shown'
  BY <1>2, <1>9, <1>11, <1>13, <1>14, BecomeShown DEF Relabeled
<1>16. /\ Base!rt_task(BaseTasks[c]) => prio \in {BaseTasks[c].prio}
       /\ ~ Base!rt_task(BaseTasks[c]) => prio \in Base!effective_prio(BaseTasks[c])
  <2>1. PICK t, u : t = K.task[c] /\ u = BaseTasks[c] /\ Seen(t, u, Labels[c])
    BY <1>4, Now, BaseFields, ShownTask
  <2>2. effective_prio(t) = Base!effective_prio(u) /\ (rt_task(t) <=> Base!rt_task(u)) /\ u.prio = t.prio
    BY <2>1, PriosShown DEF Seen
  <2> QED BY <1>2, <1>4, <2>1, <2>2
<1>17. Base!ForkWake(vfork)
  <2>1. \E y \in IF Base!rt_task(BaseTasks[c]) THEN {BaseTasks[c].prio} ELSE Base!effective_prio(BaseTasks[c]) :
          Base!Become(IF vfork THEN Base!activate_task([Base!K EXCEPT !.task[c].state = "RUNNING"], c, y)
                      ELSE Base!resched_task(Base!activate_task([Base!K EXCEPT !.task[c].state = "RUNNING"], c, y)))
    BY <1>11, <1>13, <1>15, <1>16
  <2>2. BaseKid[curr] = c
    BY <1>4, <1>5
  <2> QED BY <1>4, <1>5, <1>8, <2>1, <2>2 DEF Base!ForkWake
<1> QED BY <1>5, <1>15, <1>17 DEF Mirrors, Base!Next, Base!SysCall

-----------------------------------------------------------------------------
(* exec, exit and wait4.                                                   *)

\* The parent of a vfork is woken by its child.
LEMMA ReleaseMirrored ==
  ASSUME Beforehand, NEW p \in Pid, Exec(p) \/ ExitBegin(p)
  PROVE  Mirrors
<1>0. PICK q : q = vfork_done[p]
  OBVIOUS
<1>1. PICK prio \in WaiterPrios(q) : Become(WakeWaiter(K, q, "vwait", "UNINTERRUPTIBLE", prio))
  BY <1>0 DEF Exec, ExitBegin, mm_release
<1>2. Labels' = Labels /\ BaseKid' = BaseKid
  <2>1. CASE Exec(p)
    BY <2>1, Now, SameLabels DEF Exec
  <2>2. CASE ExitBegin(p)
    <3>1. pc' = [pc EXCEPT ![p] = "exit1"] /\ kid' = kid /\ pc[p] = "run"
      BY <2>2 DEF ExitBegin, Call, At
    <3> QED BY <3>1, Now, CarriesOn DEF Hidden
  <2> QED BY <2>1, <2>2
<1>3. q \in Pid \cup {None}
  BY <1>0, Now DEF IInv, ProcTypes
<1>4. CASE q # None /\ pc[q] = "vwait" /\ K.task[q].state = "UNINTERRUPTIBLE"
  <2>1. /\ q \in Pid /\ Become(try_to_wake_up(K, q, prio)) /\ prio \in ActivationPrios(task[q])
        /\ task[q].state \in {"INTERRUPTIBLE", "UNINTERRUPTIBLE"} /\ pc[q] \notin {"free", "copy"}
    BY <1>1, <1>3, <1>4, Now DEF WakeWaiter, WaiterPrios
  <2> QED BY <1>2, <2>1, WakesBoth
<1>5. CASE ~ (q # None /\ pc[q] = "vwait" /\ K.task[q].state = "UNINTERRUPTIBLE")
  <2>1. Become(K)
    BY <1>1, <1>5 DEF WakeWaiter
  <2> QED BY <1>2, <2>1, Now, Stutters
<1> QED BY <1>4, <1>5

\* p in the loop of sys_wait4.
LEMMA ScansNow ==
  ASSUME Beforehand, NEW p \in Pid, At(p, "scan")
  PROVE  /\ p = curr /\ p \in Task /\ p # Idle /\ pc[p] = "scan" /\ Labels[p] = "own"
         /\ task[p].state \in {"RUNNING", "INTERRUPTIBLE"} /\ BaseTasks[p].state = task[p].state
         /\ K.task[p] = task[p] /\ task[p].array # NULL
<1>1. p = curr /\ p \in Task /\ p # Idle /\ pc[p] = "scan"
  BY PidAssumption DEF At, Task
<1>2. Labels[p] = "own"
  BY <1>1 DEF Labels, Label
<1>3. task[p].state \in {"RUNNING", "INTERRUPTIBLE"}
  BY <1>1 DEF Beforehand, Sideline, Scanning
<1>4. BaseTasks[p].state = task[p].state
  BY <1>1, <1>2, ShownAs
<1>5. K.task[p] = task[p] /\ task[p].array # NULL
  BY <1>1, Now, Running, ShownTask
<1> QED BY <1>1, <1>2, <1>3, <1>4, <1>5

LEMMA WaitReturnMirrored ==
  ASSUME Beforehand, NEW p \in Pid, WaitReturn(p)
  PROVE  Mirrors
<1>1. PICK j : j = SetState(K, p, "RUNNING")
  OBVIOUS
<1>2. /\ At(p, "scan") /\ Become(j) /\ Return(j, p) /\ kid' = kid
  BY <1>1 DEF WaitReturn, procVars
<1>3. Labels' = Labels /\ BaseKid' = BaseKid
  <2>1. PICK x \in {"ret", "run"} : pc' = [pc EXCEPT ![p] = x]
    BY <1>2, ReturnLabel
  <2>2. pc[p] \notin Hidden /\ x \notin Hidden
    BY <1>2, <2>1 DEF At, Hidden
  <2> QED BY <1>2, <2>1, <2>2, Now, CarriesOn
<1>4. CASE task[p].state = "RUNNING"
  <2>1. j = K
    <3>1. PICK t \in TaskRecord : t = K.task[p] /\ t.state = "RUNNING"
      BY <1>2, <1>4, Now, ScansNow, ShownTask
    <3>2. [t EXCEPT !.state = "RUNNING"] = t
      BY <3>1 DEF TaskRecord
    <3>3. K \in Kernel
      BY Now DEF Shows
    <3>4. Set(K, p, t) = K
      BY <3>1, <3>3 DEF Set, Kernel
    <3> QED BY <1>1, <3>1, <3>2, <3>4 DEF SetState
  <2> QED BY <1>2, <1>3, <2>1, Now, Stutters
<1>5. CASE task[p].state = "INTERRUPTIBLE"
  <2>1. PICK b : b = Base!K
    OBVIOUS
  <2>2. PICK d : d = [b EXCEPT !.task[p].state = "RUNNING"]
    OBVIOUS
  <2>3. Shows(j, d, Labels)
    <3>1. j = Set(K, p, [K.task[p] EXCEPT !.state = "RUNNING"]) /\ "RUNNING" \in States
      BY <1>1 DEF SetState, States
    <3>2. Shows(K, b, Labels) /\ p \in Task /\ Labels[p] = "own"
      BY <1>2, <2>1, Now, ScansNow
    <3> QED BY ONLY <2>2, <3>1, <3>2, StateShown
  <2>4. Base!Become(d) /\ Shown'
    BY <1>2, <1>3, <2>3, BecomeShown
  <2>5. PICK prio : prio = BaseTasks[p].prio
    OBVIOUS
  <2>6. prio \in Base!ActivationPrios(BaseTasks[p])
    BY <2>5 DEF Base!ActivationPrios
  <2>7. Base!try_to_wake_up(b, p, prio) = d
    <3>1. b.task[p].array # Base!NULL
      BY <1>2, <2>1, BaseFields, ScansNow, ShownAs DEF NULL, Base!NULL
    <3> QED BY <2>2, <3>1 DEF Base!try_to_wake_up
  <2>8. Base!Asleep(p)
    BY <1>2, <1>5, ScansNow DEF Base!Asleep
  <2>9. Base!WakeUp(p)
    BY <1>3, <2>1, <2>4, <2>6, <2>7, <2>8 DEF Base!WakeUp
  <2> QED BY <2>4, <2>9 DEF Mirrors, Base!Next
<1> QED BY <1>2, <1>4, <1>5, ScansNow

\* release_task.
LEMMA ReapMirrored ==
  ASSUME Beforehand, NEW p \in Pid, Reap(p)
  PROVE  Mirrors
<1>1. PICK c \in Zombies(p) :
        /\ At(p, "scan")
        /\ Become(Set(SetState(sched_exit(K, p, c), p, "RUNNING"), c, BlankTask))
        /\ pc' = [pc EXCEPT ![p] = IF task[p].need_resched THEN "ret" ELSE "run", ![c] = "free"]
        /\ kid' = kid
  BY DEF Reap
<1>2. /\ c \in Pid /\ c # p /\ task[c].state = "ZOMBIE" /\ Hashed(c) /\ c \in Task
      /\ pc[c] = "dead" /\ ~ Queued(c)
  <2>1. c \in Pid /\ c # p /\ Hashed(c) /\ task[c].state = "ZOMBIE"
    BY DEF Zombies, Children
  <2>2. p = curr /\ pc[c] = "dead"
    BY <1>1, <2>1 DEF At, Beforehand, Sideline, OnlyDeadZombies
  <2> QED BY <2>1, <2>2, Now DEF IInv, NoLostTask, Hashed, Task
<1>3. /\ p = curr /\ p \in Task /\ p # Idle /\ Labels[p] = "own" /\ pc[p] = "scan"
      /\ BaseTasks[p].state \in {"RUNNING", "INTERRUPTIBLE"}
  BY <1>1, ScansNow
<1>4. BaseTasks[c].state = "ZOMBIE" /\ BaseTasks[c].array = Base!NULL
  <2>1. Labels[c] = "own"
    BY <1>2 DEF Labels, Label
  <2>2. task[c].array = NULL
    BY <1>2, Now, ShownTask DEF Queued
  <2> QED BY <1>2, <2>1, <2>2, ShownAs DEF NULL, Base!NULL
<1>5. PICK x \in {"ret", "run"} : pc' = [pc EXCEPT ![p] = x, ![c] = "free"]
  BY <1>1
<1>6. \A q \in Pid : pc'[q] = IF q = c THEN "free" ELSE IF q = p THEN x ELSE pc[q]
  BY <1>2, <1>5, Now DEF IInv, ProcTypes
<1>7. PICK m : m = [Labels EXCEPT ![c] = "FREE"]
  OBVIOUS
<1>8. Relabeled(m, c, "FREE")
  <2>1. m[c] = "FREE" /\ \A q \in Task \ {c} : m[q] = Labels[q]
    BY <1>2, <1>7 DEF Labels
  <2>2. \A q \in Pid : (pc'[q] = "fork2" <=> pc[q] = "fork2")
    BY <1>2, <1>3, <1>6
  <2>3. \A q \in Pid : Shared(q)' <=> Shared(q)
    BY <1>1, <2>2 DEF Shared
  <2>4. ASSUME NEW q \in Task
        PROVE  Label(q)' = IF q = c THEN "FREE" ELSE Label(q)
    <3>1. q \in Pid \/ q = Idle
      BY DEF Task
    <3>2. c # Idle
      BY <1>2, PidAssumption
    <3> QED BY <1>3, <1>6, <2>3, <3>1, <3>2 DEF Label
  <2> QED BY <2>1, <2>4 DEF Relabeled, Labels
<1>9. BaseKid' = BaseKid
  <2>1. \A q \in Pid : kid[q] \in Pid => (pc'[kid[q]] = "copy" <=> pc[kid[q]] = "copy")
    BY <1>2, <1>3, <1>6
  <2>2. \A q \in Pid : kid[q] \in Pid \/ kid[q] = None
    BY Now DEF IInv, ProcTypes
  <2> QED BY <1>1, <2>1, <2>2 DEF BaseKid
<1>10. PICK b : b = Base!K
  OBVIOUS
<1>11. PICK j, d :
         /\ j = Set(SetState(sched_exit(K, p, c), p, "RUNNING"), c, BlankTask)
         /\ d = [b EXCEPT !.task = [b.task EXCEPT ![c] = Base!BlankTask,
                    ![p] = [b.task[p] EXCEPT !.state = "RUNNING",
                              !.time_slice = Base!sched_exit(b.task[c], b.task[p].time_slice)]]]
  OBVIOUS
<1>12. Shows(j, d, m)
  <2>1. Shows(K, b, Labels) /\ Labels[p] = "own" /\ m[c] = "FREE" /\ c # p /\ c \in Pid
        /\ \A q \in Task \ {c} : m[q] = Labels[q]
    BY <1>2, <1>3, <1>8, <1>10, Now DEF Relabeled
  <2> QED BY ONLY p \in Pid, <1>11, <2>1, ReapShown
<1>13. Base!Become(d) /\ Shown'
  BY <1>1, <1>8, <1>11, <1>12, BecomeShown DEF Relabeled
<1>14. Base!Reap(c)
  <2>1. /\ d.active = active /\ d.queue = BaseQueue /\ d.curr = curr
        /\ d.task = [BaseTasks EXCEPT ![c] = Base!BlankTask,
                      ![p] = [BaseTasks[p] EXCEPT !.state = "RUNNING",
                               !.time_slice = Base!sched_exit(BaseTasks[c], BaseTasks[p].time_slice)]]
    BY <1>10, <1>11 DEF Base!K
  <2> QED BY <1>3, <1>4, <1>9, <1>13, <2>1 DEF Base!Reap, Base!Become
<1> QED BY <1>2, <1>13, <1>14 DEF Mirrors, Base!Next, Base!SysCall

\* The one exit_notify tells is woken, on either side, if it waits.
LEMMA WokenShown ==
  ASSUME Beforehand, NEW k, NEW b, Good(k, {}, 0), Quiet(k), Shows(k, b, Labels),
         NEW q \in Pid \cup {None}, NEW prio \in WaiterPrios(q),
         q \in Pid => /\ k.task[q].policy = task[q].policy
                      /\ k.task[q].state = "INTERRUPTIBLE" => task[q].state = "INTERRUPTIBLE",
         NEW j, j = WakeWaiter(k, q, "wait", "INTERRUPTIBLE", prio)
  PROVE  \E r \in {y \in Pid : Base!Asleep(y)} \cup {None} :
           \E x \in Base!MayWake(r) : Shows(j, Base!Woken(b, r, x), Labels)
<1>1. CASE ~ (q # None /\ pc[q] = "wait" /\ k.task[q].state = "INTERRUPTIBLE")
  <2>1. j = k
    BY <1>1 DEF WakeWaiter
  <2>2. 0 \in Base!MayWake(None) /\ Base!Woken(b, None, 0) = b
    BY DEF Base!MayWake, Base!Woken
  <2> QED BY <2>1, <2>2
<1>2. CASE q # None /\ pc[q] = "wait" /\ k.task[q].state = "INTERRUPTIBLE"
  <2>1. /\ q \in Pid /\ q \in Task /\ prio \in ActivationPrios(task[q]) /\ pc[q] \notin {"free", "copy"}
        /\ j = try_to_wake_up(k, q, prio) /\ task[q].state = "INTERRUPTIBLE"
    BY <1>2 DEF WaiterPrios, WakeWaiter, Task
  <2>2. FitPrio(k.task[q], prio)
    <3>1. FitPrio(task[q], prio)
      BY <2>1, Now, Facts, ActivationPrio
    <3> QED BY <2>1, <3>1 DEF FitPrio
  <2>3. Labels[q] = "own"
    BY <2>1 DEF Labels, Label
  <2>4. Base!Asleep(q)
    BY <2>1, <2>3, ShownAs DEF Base!Asleep
  <2>5. prio \in Base!MayWake(q)
    <3>1. ActivationPrios(task[q]) = Base!ActivationPrios(BaseTasks[q])
      BY <2>1, Now, BaseFields, ShownTask, PriosShown
    <3> QED BY <1>2, <2>1, <3>1 DEF Base!MayWake
  <2>6. PICK d : d = Base!try_to_wake_up(b, q, prio)
    OBVIOUS
  <2>7. Shows(j, d, Labels)
    BY <2>1, <2>2, <2>3, <2>6, Now, TryToWakeUpShown
  <2>8. Base!Woken(b, q, prio) = d
    BY <1>2, <2>6 DEF Base!Woken
  <2> QED BY <2>1, <2>4, <2>5, <2>7, <2>8
<1> QED BY <1>1, <1>2

\* exit_notify.
LEMMA ExitNotifyMirrored ==
  ASSUME Beforehand, NEW p \in Pid, ExitNotify(p)
  PROVE  Mirrors
<1>1. PICK orphans, heir : /\ orphans = {c \in Pid : parent[c] = p /\ Hashed(c)}
                           /\ heir = IF \E c \in orphans : task[c].state = "ZOMBIE" THEN InitTask ELSE None
  OBVIOUS
<1>2. PICK prio \in WaiterPrios(parent[p]), prio2 \in WaiterPrios(heir) :
        LET k1 == WakeWaiter(SetState(K, p, "ZOMBIE"), parent[p], "wait", "INTERRUPTIBLE", prio)
            k2 == WakeWaiter(k1, heir, "wait", "INTERRUPTIBLE", prio2)
        IN Become(forget_original_parent(UPDATE_REASON(k2, p, ENDED), orphans))
  BY <1>1 DEF ExitNotify
<1>3. At(p, "exit1") /\ pc' = [pc EXCEPT ![p] = "dead"] /\ kid' = kid /\ "exit1" \in Calling
  BY DEF ExitNotify, Calling
<1>4. /\ p = curr /\ p \in Task /\ pc[p] = "exit1" /\ Labels[p] = "own" /\ Base!Call("exit")
      /\ task[p].state = "RUNNING"
  BY <1>3, Called
<1>5. Labels' = Labels /\ BaseKid' = BaseKid
  BY <1>3, <1>4, Now, CarriesOn DEF Hidden
<1>6. PICK q : q = parent[p] /\ q \in Pid \cup {None}
  BY Now DEF IInv, ProcTypes
<1>7. heir \in Pid \cup {None}
  BY <1>1, SchedAssumption
<1>8. PICK k0, b0, b : /\ k0 = SetState(K, p, "ZOMBIE") /\ b = Base!K
                       /\ b0 = [b EXCEPT !.task[p].state = "ZOMBIE"]
  OBVIOUS
<1>9. /\ Shows(k0, b0, Labels) /\ Good(k0, {}, 0) /\ Quiet(k0)
      /\ \A c \in Pid : /\ k0.task[c].policy = task[c].policy
                        /\ c # p => k0.task[c].state = task[c].state
                        /\ k0.task[p].state = "ZOMBIE"
  <2>1. "ZOMBIE" \in States
    BY DEF States
  <2>2. Good(k0, {}, 0) /\ Quiet(k0) /\ Restated(K, k0, p, "ZOMBIE")
    BY <1>4, <1>8, <2>1, Now, QuietNow, StateSet
  <2>3. k0 = Set(K, p, [K.task[p] EXCEPT !.state = "ZOMBIE"]) /\ Shows(K, b, Labels)
    BY <1>8, Now DEF SetState
  <2>4. Shows(k0, b0, Labels)
    BY ONLY <1>4, <1>8, <2>1, <2>3, StateShown
  <2> QED BY <2>2, <2>4, Now DEF Restated, Task
<1>10. PICK k1 : k1 = WakeWaiter(k0, q, "wait", "INTERRUPTIBLE", prio)
  OBVIOUS
<1>11. PICK r1 \in {y \in Pid : Base!Asleep(y)} \cup {None} :
         \E x \in Base!MayWake(r1) : Shows(k1, Base!Woken(b0, r1, x), Labels)
  <2>1. q \in Pid => /\ k0.task[q].policy = task[q].policy
                     /\ k0.task[q].state = "INTERRUPTIBLE" => task[q].state = "INTERRUPTIBLE"
    BY <1>9
  <2> QED BY <1>2, <1>6, <1>9, <1>10, <2>1, WokenShown
<1>x. PICK x1 \in Base!MayWake(r1) : Shows(k1, Base!Woken(b0, r1, x1), Labels)
  BY <1>11
<1>12. PICK b1 : b1 = Base!Woken(b0, r1, x1)
  OBVIOUS
<1>13. /\ Good(k1, {}, 0) /\ Quiet(k1)
       /\ \A c \in Pid : /\ k1.task[c].policy = task[c].policy
                         /\ k1.task[c].state = "INTERRUPTIBLE" => task[c].state = "INTERRUPTIBLE"
  <2>1. /\ Good(k1, {}, 0) /\ Quiet(k1) /\ Roused(k0, k1, q, "wait", "INTERRUPTIBLE")
        /\ \A c \in Pid : k1.task[c].policy = k0.task[c].policy
    BY <1>2, <1>6, <1>9, <1>10, Now, WaiterWoken
  <2>2. \A c \in Pid : k1.task[c].state = k0.task[c].state \/ k1.task[c].state = "RUNNING"
    BY <1>9, <2>1, RousedTask
  <2> QED BY <1>9, <2>1, <2>2
<1>14. PICK k2 : k2 = WakeWaiter(k1, heir, "wait", "INTERRUPTIBLE", prio2)
  OBVIOUS
<1>15. PICK r2 \in {y \in Pid : Base!Asleep(y)} \cup {None} :
         \E x \in Base!MayWake(r2) : Shows(k2, Base!Woken(b1, r2, x), Labels)
  <2>1. heir \in Pid => /\ k1.task[heir].policy = task[heir].policy
                        /\ k1.task[heir].state = "INTERRUPTIBLE" => task[heir].state = "INTERRUPTIBLE"
    BY <1>13
  <2>2. Shows(k1, b1, Labels)
    BY <1>x, <1>12
  <2> QED BY <1>2, <1>7, <1>13, <1>14, <2>1, <2>2, WokenShown
<1>y. PICK x2 \in Base!MayWake(r2) : Shows(k2, Base!Woken(b1, r2, x2), Labels)
  BY <1>15
<1>16. PICK b2 : b2 = Base!Woken(b1, r2, x2)
  OBVIOUS
<1>17. PICK k3 : k3 = UPDATE_REASON(k2, p, ENDED)
  OBVIOUS
<1>18. Shows(k3, b2, Labels)
  <2>1. ENDED \in 0 .. 7
    BY DEF ENDED
  <2> QED BY <1>4, <1>y, <1>16, <1>17, <2>1, ReasonShown
<1>19. PICK j, d : /\ j = forget_original_parent(k3, orphans)
                   /\ d = [b2 EXCEPT !.task = [c \in Task |->
                             IF c \in orphans THEN [b2.task[c] EXCEPT !.first_time_slice = FALSE]
                             ELSE b2.task[c]]]
  OBVIOUS
<1>20. Shows(j, d, Labels)
  BY <1>18, <1>19, OrphansShown
<1>21. Become(j)
  BY <1>2, <1>6, <1>8, <1>10, <1>14, <1>17, <1>19
<1>22. Base!Become(d) /\ Shown'
  BY <1>5, <1>20, <1>21, BecomeShown
<1>23. orphans \in SUBSET {c \in Pid : Base!Hashed(c)}
  <2>1. ASSUME NEW c \in Pid, Hashed(c)
        PROVE  Base!Hashed(c)
    <3>1. c \in Task /\ Labels[c] = "own"
      BY <2>1 DEF Labels, Label, Hashed, Task
    <3>2. BaseTasks[c].state = task[c].state
      BY <3>1, ShownAs
    <3>3. task[c].state \in States
      <4>1. task[c] \in TaskRecord
        BY Now, Facts
      <4> QED BY <4>1 DEF TaskRecord, States
    <3> QED BY <3>2, <3>3 DEF Base!Hashed, States
  <2> QED BY <1>1, <2>1
<1>24. curr # Boot[1]
  BY <1>4, SchedAssumption DEF Beforehand, Sideline, InitStays
<1>25. Base!Exit
  <2>1. DOMAIN BaseTasks = Task
    BY DEF BaseTasks
  <2>2. b2 = Base!Woken(Base!Woken([Base!K EXCEPT !.task[curr].state = "ZOMBIE"], r1, x1), r2, x2)
    BY <1>4, <1>8, <1>12, <1>16
  <2>3. \E o \in SUBSET {c \in Pid : Base!Hashed(c)},
           u, v \in {y \in Pid : Base!Asleep(y)} \cup {None} :
          \E x \in Base!MayWake(u), y \in Base!MayWake(v) :
            LET g == Base!Woken(Base!Woken([Base!K EXCEPT !.task[curr].state = "ZOMBIE"], u, x), v, y)
            IN Base!Become([g EXCEPT !.task = [c \in DOMAIN BaseTasks |->
                              IF c \in o THEN [g.task[c] EXCEPT !.first_time_slice = FALSE]
                              ELSE g.task[c]]])
    <3>1. WITNESS orphans \in SUBSET {c \in Pid : Base!Hashed(c)},
                  r1 \in {y \in Pid : Base!Asleep(y)} \cup {None},
                  r2 \in {y \in Pid : Base!Asleep(y)} \cup {None}
    <3>2. WITNESS x1 \in Base!MayWake(r1), x2 \in Base!MayWake(r2)
    <3> QED BY <1>19, <1>22, <2>1, <2>2
  <2> QED BY <1>4, <1>5, <1>24, <2>3 DEF Base!Exit
<1> QED BY <1>22, <1>25 DEF Mirrors, Base!Next, Base!SysCall

-----------------------------------------------------------------------------
(* What holds before a step holds after it.                                *)

\* Where in do_fork a task has a copy or waits for it, and where it is in do_exit.
InFork == {"fork1", "fblock", "fork2", "vwait", "vblock"}
InExit == {"exit1", "eblock", "dead"}

\* What a step may do to q.
Settles(q) ==
  /\ pc'[q] \in InExit => pc[q] \in InExit \/ q # InitTask
  /\ pc'[q] \in InFork \/ kid'[q] = None \/ (pc[q] \notin InFork /\ kid'[q] = kid[q])
  /\ pc'[q] = "scan" => \/ pc[q] = "scan" /\ task'[q].state \in {task[q].state, "RUNNING"}
                        \/ task'[q].state = "INTERRUPTIBLE"
  /\ task'[q].state = "ZOMBIE" => \/ pc'[q] = "dead"
                                  \/ task[q].state = "ZOMBIE" /\ pc'[q] = pc[q]

LEMMA StaysAside ==
  ASSUME Sideline, \A q \in Pid : Settles(q)
  PROVE  Sideline'
<1>1. InitStays'
  BY DEF Sideline, InitStays, Settles, InExit
<1>2. NoStrayKid'
  BY DEF Sideline, NoStrayKid, Settles, InFork
<1>3. Scanning'
  BY DEF Sideline, Scanning, Settles
<1>4. OnlyDeadZombies'
  BY DEF Sideline, OnlyDeadZombies, Settles
<1> QED BY <1>1, <1>2, <1>3, <1>4 DEF Sideline

\* A task that stays where it is may only be woken.
LEMMA Rests ==
  ASSUME NEW q \in Pid, pc'[q] = pc[q], kid'[q] = kid[q], task'[q].state \in {task[q].state, "RUNNING"}
  PROVE  Settles(q)
BY DEF Settles

\* At the start every task is RUNNING or not there.
LEMMA InitSideline ==
  ASSUME Init
  PROVE  Sideline
<1>1. \A p \in Pid : pc[p] \in {"run", "free"} /\ kid[p] = None
  BY DEF Init
<1>2. \A p \in Pid : task[p].state = "RUNNING"
  <2>1. BootTask.state = "RUNNING" /\ BlankTask.state = "RUNNING"
    BY NewRecords DEF BootTask, TaskRecord
  <2>2. \A p \in Pid : task[p] \in {BootTask, BlankTask}
    BY PidAssumption DEF Init, Task
  <2> QED BY <2>1, <2>2
<1> QED BY <1>1, <1>2 DEF Sideline, InitStays, NoStrayKid, Scanning, OnlyDeadZombies

\* p goes on to x, in the state s, and has the copy it had or none.
LEMMA GoesAside ==
  ASSUME Beforehand, NEW p \in Pid, NEW x, pc' = [pc EXCEPT ![p] = x],
         \A q \in Pid \ {p} : kid'[q] = kid[q] /\ task'[q].state \in {task[q].state, "RUNNING"},
         pc[p] # "dead", x \in InExit => pc[p] \in InExit \/ p # InitTask,
         x \in InFork \/ kid'[p] = None \/ (pc[p] \notin InFork /\ kid'[p] = kid[p]),
         x = "scan" => task'[p].state = "INTERRUPTIBLE",
         task'[p].state = "ZOMBIE" => x = "dead"
  PROVE  Sideline'
<1>1. pc'[p] = x /\ \A q \in Pid \ {p} : pc'[q] = pc[q]
  BY Now DEF IInv, ProcTypes
<1>2. \A q \in Pid \ {p} : Settles(q)
  BY <1>1, Rests
<1>3. Settles(p)
  BY <1>1 DEF Settles
<1> QED BY <1>2, <1>3, StaysAside DEF Beforehand

\* Steps that end a system call, or go to sleep in one.
LEMMA SleepsAside ==
  ASSUME Beforehand, NEW p \in Pid,
         Sleep(p) \/ ForkBlock(p) \/ VforkBlock(p) \/ ExitBlock(p) \/ WaitEnter(p)
  PROVE  Sideline'
<1>1. /\ UNCHANGED procVars
      /\ \E x \in {"block", "fblock", "vblock", "eblock", "scan"} :
           /\ pc' = [pc EXCEPT ![p] = x] /\ pc[p] # "dead"
           /\ x = "eblock" => pc[p] = "exit1"
           /\ x \in {"block", "eblock", "scan"} => pc[p] \notin InFork
           /\ x = "scan" => Become(SetState(K, p, "INTERRUPTIBLE"))
  <2>1. CASE Sleep(p)
    BY <2>1 DEF Sleep, Call, At, InFork
  <2>2. CASE ForkBlock(p)
    BY <2>2 DEF ForkBlock, At
  <2>3. CASE VforkBlock(p)
    BY <2>3 DEF VforkBlock, At
  <2>4. CASE ExitBlock(p)
    BY <2>4 DEF ExitBlock, At, InFork
  <2>5. CASE WaitEnter(p)
    BY <2>5 DEF WaitEnter, Call, At, InFork
  <2> QED BY <2>1, <2>2, <2>3, <2>4, <2>5
<1>2. PICK x \in {"block", "fblock", "vblock", "eblock", "scan"} :
           /\ pc' = [pc EXCEPT ![p] = x] /\ pc[p] # "dead"
           /\ x = "eblock" => pc[p] = "exit1"
           /\ x \in {"block", "eblock", "scan"} => pc[p] \notin InFork
           /\ x = "scan" => Become(SetState(K, p, "INTERRUPTIBLE"))
  BY <1>1
<1>3. kid' = kid
  BY <1>1 DEF procVars
<1>4. /\ \A q \in Pid \ {p} : task'[q].state = task[q].state
      /\ task'[p].state \in {"INTERRUPTIBLE", "UNINTERRUPTIBLE"}
  BY Now, SleepStep DEF Sets, Touches
<1>5. x = "scan" => task'[p].state = "INTERRUPTIBLE"
  <2>1. PICK k : k = SetState(K, p, "INTERRUPTIBLE")
    OBVIOUS
  <2>2. Restated(K, k, p, "INTERRUPTIBLE") /\ Good(k, {}, 0)
    <3>1. "INTERRUPTIBLE" \in States
      BY DEF States
    <3>2. p = curr
      BY DEF Sleep, ForkBlock, VforkBlock, ExitBlock, WaitEnter, Call, At
    <3> QED BY <2>1, <3>1, <3>2, Now, Running, QuietNow, StateSet
  <2>3. x = "scan" => Sets(p, "INTERRUPTIBLE")
    BY <1>2, <2>1, <2>2, Now, RestatedStep
  <2> QED BY <2>3 DEF Sets
<1>6. x \in InExit => pc[p] \in InExit
  BY <1>2 DEF InExit
<1>7. x \in InFork \/ (pc[p] \notin InFork /\ kid'[p] = kid[p])
  BY <1>2, <1>3 DEF InFork
<1> QED BY <1>2, <1>3, <1>4, <1>5, <1>6, <1>7, GoesAside

\* The other steps of the running task that change its state to RUNNING at most.
LEMMA ReturnsAside ==
  ASSUME Beforehand, NEW p \in Pid,
         \/ WaitBlock(p) \/ SetScheduler(p) \/ Nice(p) \/ Yield(p) \/ YieldShort(p)
         \/ VforkReturn(p) \/ WaitReturn(p) \/ ForkSplit(p) \/ Exec(p) \/ ExitBegin(p)
  PROVE  Sideline'
<1>1. /\ p = curr /\ tail = "none" /\ \A q \in Pid \ {p} : kid'[q] = kid[q]
      /\ pc[p] \in {"run", "scan", "vwait", "fork1"}
      /\ \E x \in {"hang", "wblock", "ret", "run", "yield", "fork2", "exit1"} :
           /\ pc' = [pc EXCEPT ![p] = x]
           /\ x = "exit1" => p # InitTask
           /\ x # "fork2" => kid'[p] = None \/ (pc[p] \notin InFork /\ kid'[p] = kid[p])
  <2>0. kid \in [Pid -> Pid \cup {None}] /\ pc \in [Pid -> Locations]
    BY Now DEF IInv, ProcTypes
  <2>1. CASE YieldShort(p)
    BY <2>1 DEF YieldShort, Call, At, procVars, InFork
  <2>2. CASE WaitBlock(p)
    BY <2>2 DEF WaitBlock, At, procVars, InFork
  <2>3. CASE Nice(p)
    BY <2>3 DEF Nice, Call, At, Return, procVars, InFork
  <2>4. CASE Yield(p)
    BY <2>4 DEF Yield, Call, At, procVars, InFork
  <2>5. CASE VforkReturn(p)
    BY <2>0, <2>5 DEF VforkReturn, At, Return
  <2>6. CASE ForkSplit(p)
    BY <2>6 DEF ForkSplit, At, procVars
  <2>7. CASE SetScheduler(p)
    <3>1. \E k : /\ Call(p, "setscheduler") \/ Call(p, "setscheduler_other")
                 /\ Return(k, p) /\ UNCHANGED procVars
      BY <2>7 DEF SetScheduler
    <3> QED BY <3>1 DEF Call, At, Return, procVars, InFork
  <2>8. CASE WaitReturn(p)
    BY <2>8 DEF WaitReturn, At, Return, procVars, InFork
  <2>9. CASE Exec(p)
    <3>1. At(p, "run") /\ pc' = pc /\ kid' = kid
      BY <2>9 DEF Exec
    <3>2. pc' = [pc EXCEPT ![p] = "run"]
      BY <2>0, <3>1 DEF At
    <3> QED BY <3>1, <3>2 DEF At, InFork
  <2>10. CASE ExitBegin(p)
    BY <2>10 DEF ExitBegin, Call, At, InFork
  <2> QED BY <2>1, <2>2, <2>3, <2>4, <2>5, <2>6, <2>7, <2>8, <2>9, <2>10
<1>2. PICK x \in {"hang", "wblock", "ret", "run", "yield", "fork2", "exit1"} :
           /\ pc' = [pc EXCEPT ![p] = x]
           /\ x = "exit1" => p # InitTask
           /\ x # "fork2" => kid'[p] = None \/ (pc[p] \notin InFork /\ kid'[p] = kid[p])
  BY <1>1
<1>3. \A q \in Pid : task'[q].state \in {task[q].state, "RUNNING"}
  <2>1. CASE YieldShort(p) \/ WaitBlock(p) \/ Nice(p) \/ Yield(p) \/ VforkReturn(p)
             \/ ForkSplit(p) \/ SetScheduler(p)
    <3>1. Touches({})
      BY <2>1, Now, GoOnStep, NiceStep, YieldStep, VforkReturnStep, ForkSplitStep, SetSchedulerStep
         DEF AsWas
    <3> QED BY <3>1 DEF Touches
  <2>2. CASE WaitReturn(p)
    BY <2>2, Now, WaitReturnStep DEF Sets, Touches
  <2>3. CASE Exec(p) \/ ExitBegin(p)
    <3>1. Tells(p)
      BY <2>3, Now, ExecStep, ExitBeginStep
    <3>2. AsWas \/ \E w \in Pid : Awakens(w)
      BY <3>1 DEF Tells
    <3> QED BY <3>2 DEF AsWas, Awakens, Touches
  <2> QED BY <2>1, <2>2, <2>3
<1>4. task[p].state # "ZOMBIE"
  BY <1>1 DEF Beforehand, Sideline, OnlyDeadZombies
<1>5. /\ pc[p] # "dead" /\ x # "scan" /\ x \in InFork <=> x = "fork2"
      /\ x \in InExit => x = "exit1"
  BY <1>1, <1>2 DEF InFork, InExit
<1>6. task'[p].state # "ZOMBIE"
  BY <1>3, <1>4
<1>7. x \in InFork \/ kid'[p] = None \/ (pc[p] \notin InFork /\ kid'[p] = kid[p])
  BY <1>2, <1>5
<1> QED BY <1>1, <1>2, <1>3, <1>5, <1>6, <1>7, GoesAside

\* exit_notify.
LEMMA ExitsAside ==
  ASSUME Beforehand, NEW p \in Pid, ExitNotify(p)
  PROVE  Sideline'
<1>1. pc[p] = "exit1" /\ pc' = [pc EXCEPT ![p] = "dead"] /\ kid' = kid
  BY DEF ExitNotify, At
<1>2. \A q \in Pid \ {p} : task'[q].state \in {task[q].state, "RUNNING"}
  BY Now, ExitNotifyStep DEF Notifies
<1> QED BY <1>1, <1>2, GoesAside DEF InFork, InExit

\* do_fork makes a copy, gives it up, or lets it go.
LEMMA ForksAside ==
  ASSUME Beforehand, NEW p \in Pid,
         ForkFail(p) \/ ForkWake(p) \/ \E c \in Pid, vfork \in BOOLEAN : ForkCopy(p, c, vfork)
  PROVE  Sideline'
<1>0. pc \in [Pid -> Locations] /\ kid \in [Pid -> Pid \cup {None}] /\ IInv
  BY Now DEF IInv, ProcTypes
<1>1. PICK c, x, y :
        /\ c \in Pid \ {p} /\ Touches({c}) /\ pc' = [pc EXCEPT ![p] = x, ![c] = y]
        /\ pc[p] \in {"run", "fork1", "fork2"} /\ pc[c] \in {"free", "copy"}
        /\ x \in {"fork1", "ret", "run", "vwait"} /\ y \in {"free", "copy", "new"}
        /\ task'[c].state # "ZOMBIE" /\ \A q \in Pid \ {p} : kid'[q] = kid[q]
        /\ x \notin {"fork1", "vwait"} => kid'[p] = None
  <2>1. CASE ForkFail(p)
    <3>1. /\ kid[p] \in Pid \ {p} /\ Touches({kid[p]}) /\ task'[kid[p]].state = "RUNNING"
      BY <1>0, <2>1, ForkFailStep
    <3>2. pc[p] = "fork1" /\ pc[kid[p]] = "copy"
      BY <1>0, <2>1 DEF ForkFail, At, IInv, Copied, Forking
    <3>3. PICK x \in {"ret", "run"} : pc' = [pc EXCEPT ![p] = x, ![kid[p]] = "free"]
      BY <2>1 DEF ForkFail
    <3>4. kid' = [kid EXCEPT ![p] = None]
      BY <2>1 DEF ForkFail
    <3> QED BY <1>0, <3>1, <3>2, <3>3, <3>4
  <2>2. CASE ForkWake(p)
    <3>1. kid[p] \in Pid \ {p} /\ Touches({kid[p]}) /\ task'[kid[p]].state = "RUNNING"
      BY <1>0, <2>2, ForkWakeStep
    <3>2. pc[p] = "fork2" /\ pc[kid[p]] = "copy"
      BY <1>0, <2>2 DEF ForkWake, At, IInv, Copied, Forking
    <3>3. PICK x \in {"ret", "vwait"} :
            /\ pc' = [pc EXCEPT ![p] = x, ![kid[p]] = "new"]
            /\ kid' = [kid EXCEPT ![p] = IF x = "vwait" THEN kid[p] ELSE None]
      BY <2>2 DEF ForkWake
    <3> QED BY <1>0, <3>1, <3>2, <3>3
  <2>3. CASE \E c \in Pid, vfork \in BOOLEAN : ForkCopy(p, c, vfork)
    <3>1. PICK c \in Pid, vfork \in BOOLEAN : ForkCopy(p, c, vfork)
      BY <2>3
    <3>2. Touches({c}) /\ p # c /\ task'[c].state = "UNINTERRUPTIBLE"
      BY <1>0, <3>1, ForkCopyStep
    <3>3. /\ pc[p] = "run" /\ pc[c] = "free" /\ pc' = [pc EXCEPT ![p] = "fork1", ![c] = "copy"]
          /\ kid' = [kid EXCEPT ![p] = c]
      BY <3>1 DEF ForkCopy, Call, At
    <3> QED BY <1>0, <3>2, <3>3
  <2> QED BY <2>1, <2>2, <2>3
<1>2. \A q \in Pid : pc'[q] = IF q = c THEN y ELSE IF q = p THEN x ELSE pc[q]
  BY <1>0, <1>1
<1>3. ASSUME NEW q \in Pid
      PROVE  Settles(q)
  <2>1. CASE q = c
    <3>1. kid[q] = kid'[q] /\ pc[q] \notin InFork /\ pc'[q] \notin InExit /\ pc'[q] # "scan"
      BY <1>1, <1>2, <2>1 DEF InFork, InExit
    <3> QED BY <1>1, <2>1, <3>1 DEF Settles
  <2>2. CASE q = p
    <3>1. task'[q].state = task[q].state /\ task[q].state # "ZOMBIE"
      BY <1>1, <2>2 DEF Touches, Beforehand, Sideline, OnlyDeadZombies
    <3>2. pc'[q] \in InFork \/ kid'[q] = None
      BY <1>1, <1>2, <2>2 DEF InFork
    <3>3. pc'[q] \notin InExit /\ pc'[q] # "scan"
      BY <1>1, <1>2, <2>2 DEF InExit
    <3> QED BY <3>1, <3>2, <3>3 DEF Settles
  <2>3. CASE q \notin {p, c}
    BY <1>1, <1>2, <2>3, Rests DEF Touches
  <2> QED BY <2>1, <2>2, <2>3
<1> QED BY <1>3, StaysAside DEF Beforehand

\* release_task.
LEMMA ReapsAside ==
  ASSUME Beforehand, NEW p \in Pid, Reap(p)
  PROVE  Sideline'
<1>0. pc \in [Pid -> Locations] /\ IInv
  BY Now DEF IInv, ProcTypes
<1>1. PICK c \in Zombies(p) :
        /\ Touches({p, c}) /\ task'[p].state = "RUNNING" /\ task'[c].state = "RUNNING"
        /\ pc' = [pc EXCEPT ![p] = IF task[p].need_resched THEN "ret" ELSE "run", ![c] = "free"]
  BY <1>0, ReapStep
<1>2. kid' = kid /\ pc[p] = "scan"
  BY DEF Reap, At
<1>3. c \in Pid /\ c # p /\ pc[c] = "dead"
  BY <1>1 DEF Zombies, Children, Beforehand, Sideline, OnlyDeadZombies
<1>4. pc'[c] = "free" /\ pc'[p] \in {"ret", "run"} /\ \A q \in Pid \ {p, c} : pc'[q] = pc[q]
  BY <1>0, <1>1, <1>3
<1>5. ASSUME NEW q \in Pid
      PROVE  Settles(q)
  <2>1. CASE q \in {p, c}
    BY <1>1, <1>2, <1>3, <1>4, <2>1 DEF Settles, InFork, InExit
  <2>2. CASE q \notin {p, c}
    BY <1>1, <1>2, <1>4, <2>2, Rests DEF Touches
  <2> QED BY <2>1, <2>2
<1> QED BY <1>5, StaysAside DEF Beforehand

\* schedule().
LEMMA SwitchAside ==
  ASSUME Beforehand, Schedule
  PROVE  Sideline'
<1>1. kid' = kid
  BY DEF Schedule, procVars
<1>2. \A q \in Pid : task'[q].state \in {task[q].state, "RUNNING"}
  BY Now, ScheduleStep DEF Switches
<1>3. ASSUME NEW q \in Pid
      PROVE  \/ pc'[q] = pc[q] \/ (pc[q] = "new" /\ pc'[q] = "run")
             \/ (q = curr /\ pc'[q] = After(pc[q]))
  BY DEF Schedule
<1>4. \A l : /\ After(l) \in InExit => l \in InExit
             /\ After(l) \in InFork <=> l \in InFork
             /\ After(l) = "scan" => l = "scan"
             /\ l = "dead" => After(l) = "dead"
  BY DEF After, InExit, InFork
<1>5. ASSUME NEW q \in Pid
      PROVE  Settles(q)
  <2>1. task'[q].state = "ZOMBIE" => task[q].state = "ZOMBIE" /\ pc[q] = "dead"
    BY <1>2 DEF Beforehand, Sideline, OnlyDeadZombies
  <2>2. CASE pc'[q] = pc[q]
    BY <1>1, <1>2, <2>2, Rests
  <2>3. CASE pc[q] = "new" /\ pc'[q] = "run"
    BY <1>1, <2>1, <2>3 DEF Settles, InFork, InExit
  <2>4. CASE pc'[q] = After(pc[q])
    BY <1>1, <1>2, <1>4, <2>1, <2>4 DEF Settles
  <2> QED BY <1>3, <2>2, <2>3, <2>4
<1> QED BY <1>5, StaysAside DEF Beforehand

\* All steps.
LEMMA NextSideline ==
  ASSUME Beforehand, [Next]_vars
  PROVE  Sideline'
<1>1. CASE Tick \/ TailCheck \/ TailClear \/ \E p \in Pid : WakeUp(p)
  <2>1. pc' = pc /\ kid' = kid
    BY <1>1 DEF Tick, TailCheck, TailClear, WakeUp, procVars
  <2>2. AsWas \/ \E p \in Pid : Awakens(p)
    BY <1>1, Now, TickStep, TailCheckStep, TailClearStep, WakeUpStep
  <2>3. \A q \in Pid : task'[q].state \in {task[q].state, "RUNNING"}
    BY <2>2 DEF AsWas, Awakens, Touches
  <2>4. \A q \in Pid : Settles(q)
    BY <2>1, <2>3, Rests
  <2> QED BY <2>4, StaysAside DEF Beforehand
<1>2. CASE \E p \in Pid : SysCall(p)
  <2>1. PICK p \in Pid : SysCall(p)
    BY <1>2
  <2>2. CASE Sleep(p) \/ ForkBlock(p) \/ VforkBlock(p) \/ ExitBlock(p) \/ WaitEnter(p)
    BY <2>2, SleepsAside
  <2>3. CASE \/ WaitBlock(p) \/ SetScheduler(p) \/ Nice(p) \/ Yield(p) \/ YieldShort(p)
             \/ VforkReturn(p) \/ WaitReturn(p) \/ ForkSplit(p) \/ Exec(p) \/ ExitBegin(p)
    BY <2>3, ReturnsAside
  <2>4. CASE \/ ForkFail(p) \/ ForkWake(p)
             \/ \E c \in Pid, vfork \in BOOLEAN : ForkCopy(p, c, vfork)
    BY <2>4, ForksAside
  <2> QED BY <2>1, <2>2, <2>3, <2>4, ExitsAside, ReapsAside DEF SysCall
<1>3. CASE UNCHANGED vars
  BY <1>3 DEF vars, rqVars, procVars, Beforehand, Sideline, InitStays, NoStrayKid, Scanning,
              OnlyDeadZombies
<1> QED BY <1>1, <1>2, <1>3, SwitchAside DEF Next

-----------------------------------------------------------------------------
(* The refinement.                                                         *)

\* The record of a task at the start, in Baseline.
Blank(state, prio, slice, array) ==
  [policy |-> "OTHER", prio |-> prio, static_prio |-> DEF_PRIO, state |-> state, time_slice |-> slice,
   first_time_slice |-> FALSE, array |-> array, need_resched |-> FALSE]

\* The initial states of Sched show initial states of Baseline.
LEMMA InitShown ==
  ASSUME Init
  PROVE  Base!Init /\ Shown
<1>1. /\ Booted \subseteq Pid /\ Idle \notin Pid /\ DEF_PRIO \in UserPrio /\ MAX_PRIO \in Int
      /\ Boot \in Seq(Pid) /\ Boot[1] = InitTask /\ \A p : p \in Booted <=> \E i \in 1 .. Len(Boot) : Boot[i] = p
  <2>1. Booted \subseteq Pid
    BY BootCount
  <2>2. \A p : p \in Booted <=> \E i \in 1 .. Len(Boot) : Boot[i] = p
    BY DEF Booted
  <2>3. Idle \notin Pid /\ MAX_PRIO \in Int
    BY PidAssumption, PrioAssumption
  <2>4. DEF_PRIO \in UserPrio /\ Boot \in Seq(Pid) /\ Boot[1] = InitTask
    BY SchedAssumption, SMTT(30)
  <2> QED BY <2>1, <2>2, <2>3, <2>4
<1>2. PICK n \in Nat : n = TASK_TIMESLICE(BlankTask) /\ n = Base!TASK_TIMESLICE(Base!BlankTask)
  <2>1. Ticking(BlankTask)
    BY SchedAssumption DEF Ticking, BlankTask
  <2>2. BlankTask.static_prio = DEF_PRIO /\ Base!BlankTask.static_prio = DEF_PRIO
    BY DEF BlankTask, Base!BlankTask
  <2> QED BY <2>1, <2>2, SliceFacts DEF TASK_TIMESLICE, Base!TASK_TIMESLICE, MAX_RT_PRIO, Base!MAX_RT_PRIO
<1>3. PICK r, s, t : /\ r = BootTask /\ s = [BlankTask EXCEPT !.prio = MAX_PRIO] /\ t = BlankTask
                     /\ r \in TaskRecord /\ s \in TaskRecord /\ t \in TaskRecord
                     /\ r.remaining_trials = 0 /\ s.remaining_trials = 0 /\ t.remaining_trials = 0
  <2>1. BlankTask \in TaskRecord /\ BlankTask.remaining_trials = 0
    BY NewRecords DEF BlankTask
  <2>2. [BlankTask EXCEPT !.prio = MAX_PRIO] \in TaskRecord
    BY <1>1, <2>1 DEF TaskRecord
  <2>3. BootTask = [BlankTask EXCEPT !.time_slice = n, !.array = 0, !.queued = TRUE]
    BY <1>2 DEF BootTask
  <2>4. BootTask \in TaskRecord
    <3>1. 0 \in ArrayId
      BY DEF ArrayId
    <3> QED BY <2>1, <2>3, <3>1 DEF TaskRecord
  <2>5. PICK t \in TaskRecord : t = BlankTask
    BY <2>1
  <2>6. /\ [t EXCEPT !.time_slice = n, !.array = 0, !.queued = TRUE].remaining_trials = 0
        /\ [t EXCEPT !.prio = MAX_PRIO].remaining_trials = 0
    BY <2>1, <2>5 DEF TaskRecord
  <2> QED BY <2>1, <2>2, <2>3, <2>4, <2>5, <2>6
<1>4. PICK u, v, w : /\ u = Blank("RUNNING", DEF_PRIO, n, 0) /\ v = Blank("RUNNING", MAX_PRIO, 0, NULL)
                     /\ w = Blank("FREE", DEF_PRIO, 0, NULL)
  OBVIOUS
<1>5. /\ u \in BaseRecord /\ v \in BaseRecord /\ w \in BaseRecord
      /\ Seen(r, u, "own") /\ Seen(s, v, "own") /\ Seen(t, w, "FREE")
  <2>1. u \in BaseRecord /\ v \in BaseRecord /\ w \in BaseRecord
    BY <1>1, <1>4 DEF Blank, BaseRecord, BaseStates, States, UserPrio, NULL
  <2>2. r = [BlankTask EXCEPT !.time_slice = n, !.array = 0, !.queued = TRUE]
    BY <1>2, <1>3 DEF BootTask
  <2>3. Seen(r, u, "own")
    BY <1>3, <1>4, <2>1, <2>2 DEF Seen, Blank, BlankTask
  <2>4. Seen(s, v, "own") /\ Seen(t, w, "FREE")
    BY <1>3, <1>4, <2>1 DEF Seen, Blank, BlankTask
  <2> QED BY <2>1, <2>3, <2>4
<1>6. /\ w = Base!BlankTask
      /\ v = [Base!BlankTask EXCEPT !.prio = MAX_PRIO, !.state = "RUNNING"]
      /\ u = [Base!BlankTask EXCEPT !.state = "RUNNING", !.array = 0,
                                    !.time_slice = Base!TASK_TIMESLICE(Base!BlankTask)]
  <2>1. Base!NULL = NULL
    BY DEF Base!NULL, NULL
  <2>2. w = Base!BlankTask
    BY <1>4, <2>1 DEF Blank, Base!BlankTask
  <2>3. PICK x \in BaseRecord :
          /\ x = w /\ x.policy = "OTHER" /\ x.prio = DEF_PRIO /\ x.static_prio = DEF_PRIO /\ x.time_slice = 0
          /\ x.first_time_slice = FALSE /\ x.array = NULL /\ x.need_resched = FALSE
    BY <1>4, <1>5 DEF Blank
  <2>4. v = [w EXCEPT !.prio = MAX_PRIO, !.state = "RUNNING"]
    <3>1. PICK y : y = [x EXCEPT !.prio = MAX_PRIO, !.state = "RUNNING"]
      OBVIOUS
    <3>2. /\ y \in BaseRecord /\ y.policy = "OTHER" /\ y.prio = MAX_PRIO /\ y.static_prio = DEF_PRIO
          /\ y.state = "RUNNING" /\ y.time_slice = 0 /\ y.first_time_slice = FALSE /\ y.array = NULL
          /\ y.need_resched = FALSE
      BY <1>1, <2>3, <3>1 DEF BaseRecord, BaseStates, States
    <3>3. y = v
      BY <1>4, <3>2, RecordIs DEF Blank
    <3> QED BY <2>3, <3>1, <3>3
  <2>5. u = [w EXCEPT !.state = "RUNNING", !.array = 0, !.time_slice = n]
    <3>1. PICK y : y = [x EXCEPT !.state = "RUNNING", !.array = 0, !.time_slice = n]
      OBVIOUS
    <3>2. /\ y \in BaseRecord /\ y.policy = "OTHER" /\ y.prio = DEF_PRIO /\ y.static_prio = DEF_PRIO
          /\ y.state = "RUNNING" /\ y.time_slice = n /\ y.first_time_slice = FALSE /\ y.array = 0
          /\ y.need_resched = FALSE
      BY <2>3, <3>1 DEF BaseRecord, BaseStates, States
    <3>3. y = u
      BY <1>4, <3>2, RecordIs DEF Blank
    <3> QED BY <2>3, <3>1, <3>3
  <2> QED BY <1>2, <2>2, <2>4, <2>5
<1>7. ASSUME NEW p \in Task
      PROVE  /\ task[p] = IF p \in Booted THEN r ELSE IF p = Idle THEN s ELSE t
             /\ Labels[p] = IF p \in Booted \/ p = Idle THEN "own" ELSE "FREE"
  <2>1. task[p] = IF p \in Booted THEN r ELSE IF p = Idle THEN s ELSE t
    BY <1>3 DEF Init
  <2>2. p # Idle => pc[p] = IF p \in Booted THEN "run" ELSE "free"
    BY DEF Init, Task
  <2> QED BY <1>1, <2>1, <2>2 DEF Labels, Label
<1>8. ASSUME NEW p \in Task
      PROVE  BaseTask(p) = IF p = Idle THEN v ELSE IF p \in Booted THEN u ELSE w
  <2>1. PICK x \in TaskRecord, y \in BaseRecord :
          /\ x = task[p] /\ Seen(x, y, Labels[p])
          /\ y = IF p = Idle THEN v ELSE IF p \in Booted THEN u ELSE w
    BY <1>1, <1>3, <1>5, <1>7
  <2>2. BaseTask(p) = [policy |-> y.policy, prio |-> y.prio, static_prio |-> y.static_prio, state |-> y.state,
                       time_slice |-> y.time_slice, first_time_slice |-> y.first_time_slice,
                       array |-> y.array, need_resched |-> y.need_resched]
    BY <2>1 DEF BaseTask, Seen, Labels, Label
  <2> QED BY <2>1, <2>2, RecordIs
<1>9. BaseTasks = [p \in Pid \cup {Idle} |-> IF p = Idle THEN v ELSE IF p \in Booted THEN u ELSE w]
  BY <1>8 DEF BaseTasks, Task
<1>10. BaseQueue = [h \in (0 .. 1) \X Prio |-> IF h = <<0, DEF_PRIO>> THEN Boot ELSE <<>>]
  <2>1. \A h \in (0 .. 1) \X Prio : h \in ArrayId \X Prio
    BY DEF ArrayId
  <2> QED BY <2>1 DEF BaseQueue, Init
<1>11. BaseKid = [p \in Pid |-> None]
  BY DEF Init, BaseKid
<1>12. active = 0 /\ curr = Boot[1] /\ curr \in Task
  BY <1>1, SchedAssumption DEF Init, Task
<1>13. Base!Init
  <2>1. BaseTasks = [p \in Pid \cup {Idle} |->
               IF p = Idle THEN [Base!BlankTask EXCEPT !.prio = MAX_PRIO, !.state = "RUNNING"]
               ELSE IF \E i \in 1 .. Len(Boot) : Boot[i] = p
                    THEN [Base!BlankTask EXCEPT !.state = "RUNNING", !.array = 0,
                                           !.time_slice = Base!TASK_TIMESLICE(Base!BlankTask)]
                    ELSE Base!BlankTask]
    BY <1>1, <1>6, <1>9
  <2>2. Prio = Base!Prio
    BY DEF Prio, Base!Prio
  <2> QED BY <1>10, <1>11, <1>12, <2>1, <2>2 DEF Base!Init
<1>14. Shown
  <2>1. K \in Kernel
    BY InitIInv DEF IInv, Good, Typed
  <2>2. BaseTasks \in [Task -> BaseRecord] /\ BaseQueue \in [BothArrays -> Seq(Pid)]
    BY <1>1, <1>5, <1>9, <1>10 DEF Task, BothArrays
  <2>3. Base!K \in BaseKernel
    BY <1>12, <2>2 DEF Base!K, BaseKernel
  <2>4. \A p \in Task : Seen(task[p], BaseTasks[p], Labels[p])
    BY <1>1, <1>5, <1>7, <1>9 DEF Task
  <2>5. \A h \in BothArrays : BaseQueue[h] = queue[h]
    BY DEF BaseQueue, BothArrays
  <2> QED BY <2>1, <2>3, <2>4, <2>5, BaseFields DEF Shown, Shows, K
<1> QED BY <1>13, <1>14

\* Every step of Sched is one of Baseline, or one that Baseline does not see.
LEMMA NextMirrored ==
  ASSUME "nice_other" \notin Calls, "SHORT" \notin NewPolicies,
         Beforehand, [Next]_vars
  PROVE  Mirrors
<1>1. CASE Tick \/ Schedule \/ TailCheck \/ TailClear \/ \E p \in Pid : WakeUp(p)
  BY <1>1, TickMirrored, ScheduleMirrored, TailMirrored, WakeUpMirrored
<1>2. CASE \E p \in Pid : SysCall(p)
  <2>1. PICK p \in Pid : SysCall(p)
    BY <1>2
  <2>2. CASE Sleep(p) \/ ForkBlock(p) \/ VforkBlock(p) \/ ExitBlock(p) \/ WaitEnter(p)
    BY <2>2, SleepMirrored
  <2>3. CASE SetScheduler(p) \/ Nice(p) \/ Yield(p)
    BY <2>3, SetSchedulerMirrored, NiceMirrored, YieldMirrored
  <2>4. CASE \E c \in Pid, vfork \in BOOLEAN : ForkCopy(p, c, vfork)
    BY <2>4, ForkCopyMirrored
  <2>5. CASE ForkFail(p) \/ ForkSplit(p) \/ ForkWake(p)
    BY <2>5, ForkFailMirrored, ForkSplitMirrored, ForkWakeMirrored
  <2>6. CASE VforkReturn(p) \/ WaitBlock(p)
    BY <2>6, LookMirrored
  <2>7. CASE Exec(p) \/ ExitBegin(p)
    BY <2>7, ReleaseMirrored
  <2>8. CASE ExitNotify(p) \/ Reap(p) \/ WaitReturn(p)
    BY <2>8, ExitNotifyMirrored, ReapMirrored, WaitReturnMirrored
  <2> QED BY <2>1, <2>2, <2>3, <2>4, <2>5, <2>6, <2>7, <2>8, YieldShortNever DEF SysCall
<1>3. CASE UNCHANGED vars
  <2>1. UNCHANGED rqVars /\ pc' = pc /\ kid' = kid
    BY <1>3 DEF vars, procVars
  <2>2. Labels' = Labels /\ BaseKid' = BaseKid
    BY <2>1, Now, SameLabels
  <2> QED BY <2>1, <2>2, Now, Current, Stutters
<1> QED BY <1>1, <1>2, <1>3 DEF Next

\* What holds before a step holds after it.
LEMMA NextBeforehand ==
  ASSUME "nice_other" \notin Calls, "SHORT" \notin NewPolicies,
         Beforehand, [Next]_vars
  PROVE  Beforehand'
<1>1. Inductive'
  BY NextIInv, NextExpecting, NextInherited DEF Beforehand, Inductive
<1>2. Supplied'
  BY NextSupplied DEF Beforehand, Inductive
<1>3. Sideline'
  BY NextSideline
<1>4. Shown'
  BY NextMirrored DEF Mirrors
<1> QED BY <1>1, <1>2, <1>3, <1>4 DEF Beforehand

\* Whatever policy but SHORT tasks are given, and whatever they do but change each other's
\* nice value, the patched scheduler treats them, slice by slice and list by list, as the
\* kernel before the patch did: of its third array, its overdue list and its schedule()
\* they see nothing.
THEOREM SchedAsBefore ==
  ASSUME "nice_other" \notin Calls, "SHORT" \notin NewPolicies
  PROVE  Spec => AsBefore
<1>1. Init => Beforehand /\ Base!Init
  BY InitIInv, InitExpecting, InitInherited, InitSupplied, InitSideline, InitShown
     DEF Beforehand, Inductive
<1>2. Beforehand /\ [Next]_vars => Beforehand' /\ [Base!Next]_(Base!vars)
  BY NextBeforehand, NextMirrored DEF Mirrors
<1>3. Spec => Base!Init /\ [][Base!Next]_(Base!vars)
  BY <1>1, <1>2, PTL DEF Spec
<1> QED BY <1>3 DEF AsBefore, Base!Spec
=============================================================================
