--------------------------- MODULE SchedInvariant ---------------------------
(***************************************************************************)
(* The inductive invariant of Sched.  Good says what is true of the        *)
(* runqueue k outside the functions of RunQueue (S = {}, n = 0) and, with  *)
(* other S and n, in the middle of one; Located and Copied say of the      *)
(* processes what the runqueue cannot.                                     *)
(***************************************************************************)
EXTENDS SchedSafety

\* A task_struct with its fields in range and a priority that fits its policy.
Proper(t) ==
  /\ t \in TaskRecord
  /\ t.prio \in Prio
  /\ t.policy \in {"FIFO", "RR"} <=> rt_task(t)

Kernel ==
  [active : {0, 1}, nr_active : [ArrayId -> Int], bitmap : SUBSET (ArrayId \X Prio),
   queue : [ArrayId \X Prio -> Seq(Pid)], overdue : Seq(Pid), nr_running : Int,
   nr_uninterruptible : Int, curr : Task, task : [Task -> TaskRecord]]

Typed(k) ==
  /\ k \in Kernel
  /\ \A p \in Pid : Proper(k.task[p])
  /\ k.task[Idle].policy = "OTHER" /\ k.task[Idle].state = "RUNNING"

\* The list the fields of t name.
Slot(t) == <<t.array, t.prio>>

\* In the middle of an operation the tasks of S are on no list, and nr_running is
\* n more than the number of tasks that are on one.
Placed(k, S) ==
  /\ \A p \in Pid, h \in ArrayId \X Prio :
       p \in Elements(k.queue[h]) <=> p \notin S /\ h = Slot(k.task[p])
  /\ \A p \in Pid :
       p \in Elements(k.overdue) <=> p \notin S /\ is_overdue(k.task[p]) /\ k.task[p].queued
  /\ \A h \in ArrayId \X Prio : NoDuplicates(k.queue[h])
  /\ NoDuplicates(k.overdue)

Fits(t, a) ==
  t.array # NULL => /\ t.array = active_SHORT <=> is_short(t)
                    /\ ~ is_overdue(t)
                    /\ t.array = 1 - a => t.policy = "OTHER"

Members(k, S, a) == {p \in Pid \ S : k.task[p].array = a}
Runnable(k, S) == {p \in Pid \ S : Enqueued(k.task[p])}

Good(k, S, n) ==
  /\ Typed(k)
  /\ Placed(k, S)
  /\ \A p \in Pid \ S : Fits(k.task[p], k.active)
  /\ k.bitmap = {h \in ArrayId \X Prio : k.queue[h] # <<>>}
  /\ \A a \in ArrayId : k.nr_active[a] = Cardinality(Members(k, S, a))
  /\ k.nr_running = Cardinality(Runnable(k, S)) + n

-----------------------------------------------------------------------------
ProcTypes ==
  /\ pc \in [Pid -> Locations]
  /\ kid \in [Pid -> Pid \cup {None}]
  /\ parent \in [Pid -> Pid \cup {None}]
  /\ vfork_done \in [Pid -> Pid \cup {None}]
  /\ tail \in {"none", "check", "clear"}
  /\ last \in Task \cup {None} /\ (tail # "none" => last \in Task)
  /\ remaining_switches \in 0 .. LOG_SWITCHES

\* A task that is not there, or not yet, is on no list and will not be woken.
Located ==
  /\ curr \in Pid => Hashed(curr)
  /\ \A p \in Pid : pc[p] = "free" => task[p].state = "RUNNING" /\ ~ Queued(p)
  /\ \A p \in Pid : pc[p] = "copy" => task[p].state = "UNINTERRUPTIBLE" /\ ~ task[p].queued

\* A task in the middle of do_fork has a copy of its own.
Forking(p) == pc[p] \in {"fork1", "fblock", "fork2"}
Copied ==
  /\ \A p \in Pid : Forking(p) => kid[p] \in Pid /\ pc[kid[p]] = "copy"
  /\ \A p, q \in Pid : Forking(p) /\ Forking(q) /\ kid[p] = kid[q] => p = q

IInv == Good(K, {}, 0) /\ ProcTypes /\ Located /\ Copied /\ NoLostTask

-----------------------------------------------------------------------------
\* The current task is about to call schedule(), or in sys_wait4 between setting its state
\* and looking for dead children.
Bound == {"block", "fblock", "eblock", "vblock", "wblock", "yield", "scan"}
BoundIsCurrent == \A p \in Pid : pc[p] \in Bound => p = curr /\ tail = "none"

\* Nowhere else is the current task in a state in which it would leave the queues.
Drowsy == curr \in Pid /\ task[curr].state # "RUNNING" => pc[curr] \in Bound \cup {"dead"}

\* A copy belongs to the vfork of its parent if to any; the parent of a vfork child waits
\* for it, and sleeps or is about to only as long as the child has not told it.
VforkPending ==
  \A p \in Pid :
    /\ Forking(p) => vfork_done[kid[p]] \in {p, None}
    /\ pc[p] \in {"vblock", "vwait"} =>
         /\ kid[p] \in Pid /\ Hashed(kid[p]) /\ parent[kid[p]] = p
         /\ vfork_done[kid[p]] \in {p, None}
         /\ task[p].state = "UNINTERRUPTIBLE" => vfork_done[kid[p]] = p

\* So does a task in sys_wait4, as long as no child of it is dead.
NothingToReap ==
  \A p \in Pid : pc[p] \in {"wblock", "wait"} /\ task[p].state = "INTERRUPTIBLE" => Zombies(p) = {}

\* Only process 1 is its own parent, so exit_notify leaves no other task a child of itself.
OwnParent == \A p \in Pid : parent[p] = p => p = InitTask

Expecting == BoundIsCurrent /\ Drowsy /\ VforkPending /\ NothingToReap /\ OwnParent

-----------------------------------------------------------------------------
\* A task_struct that is not there is not SHORT, so that whoever is SHORT was made so.
BlankIsOther == \A p \in Pid : pc[p] = "free" => ~ is_short(task[p])

\* Until do_fork shares the trials, the copy holds as many as its parent had when it was
\* copied; the parent may have used some up since, and was SHORT if its copy is.
CopyHolds ==
  \A p \in Pid : pc[p] \in {"fork1", "fblock"} /\ is_short(task[kid[p]]) =>
    is_short(task[p]) /\ task[p].remaining_trials <= task[kid[p]].remaining_trials

Inherited == BlankIsOther /\ CopyHolds

\* What every step keeps: the runqueue and the processes fit each other, those that wait
\* for a child wait for one that will wake them, and a child inherits no more than it may.
Inductive == IInv /\ Expecting /\ Inherited
-----------------------------------------------------------------------------
\* A SHORT task with trials left that is on its queue, and who may run before it.
Vies(t) == is_short(t) /\ ~ is_overdue(t) /\ Enqueued(t)
Outranks(t, u) == rt_task(t) \/ (is_short(t) /\ ~ is_overdue(t) /\ t.prio <= u.prio)
Told(t) == t.need_resched

\* Whoever waits behind the current task is outranked by it, or it has been told to go.
Contended(k) ==
  \A q \in Pid : q # k.curr /\ Vies(k.task[q]) =>
    Told(k.task[k.curr]) \/ Outranks(k.task[k.curr], k.task[q])

\* A SHORT task gets no bonus: its priority is the static one, wherever it is put back.
NoBonus(k) == \A q \in Pid : is_short(k.task[q]) => k.task[q].prio = k.task[q].static_prio

\* Both together: what one step leaves the next to keep.
Fair(k) == Contended(k) /\ NoBonus(k)

\* Where nobody becomes OTHER again and nobody calls vfork.
Ahead == Fair(K) /\ \A p \in Pid : vfork_done[p] = None
=============================================================================
