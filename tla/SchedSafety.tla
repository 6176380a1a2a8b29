----------------------------- MODULE SchedSafety ----------------------------
(***************************************************************************)
(* What module Sched must never do.                                        *)
(***************************************************************************)
EXTENDS Sched

Lists == ArrayId \X Prio
Elements(s) == {s[j] : j \in 1 .. Len(s)}
NoDuplicates(s) == \A i, j \in 1 .. Len(s) : s[i] = s[j] => i = j

TaskRecord ==
  [policy : Policies, prio : Int, static_prio : UserPrio,
   state : {"RUNNING", "INTERRUPTIBLE", "UNINTERRUPTIBLE", "ZOMBIE"},
   time_slice : Nat, first_time_slice : BOOLEAN,
   remaining_trials : Nat, current_trial : Nat, requested_time : Nat,
   array : ArrayId \cup {NULL}, queued : BOOLEAN, need_resched : BOOLEAN,
   reason : 0 .. 7]

Locations ==
  {"run", "ret", "block", "fblock", "eblock", "vblock", "wblock", "yield", "fork1", "fork2",
   "vwait", "exit1", "dead", "wait", "scan", "hang", "copy", "new", "free"}

TypeOK ==
  /\ active \in {0, 1}
  /\ nr_active \in [ArrayId -> Int]
  /\ bitmap \subseteq ArrayId \X Prio
  /\ queue \in [ArrayId \X Prio -> Seq(Pid)]
  /\ overdue \in Seq(Pid)
  /\ nr_running \in Int /\ nr_uninterruptible \in Int
  /\ curr \in Task
  /\ task \in [Task -> TaskRecord]
  /\ \A p \in Pid : task[p].prio \in Prio
  /\ pc \in [Pid -> Locations]
  /\ kid \in [Pid -> Pid \cup {None}]
  /\ parent \in [Pid -> Pid \cup {None}]
  /\ vfork_done \in [Pid -> Pid \cup {None}]
  /\ tail \in {"none", "check", "clear"}
  /\ last \in Task \cup {None}
  /\ remaining_switches \in 0 .. LOG_SWITCHES
-----------------------------------------------------------------------------
(* Where tasks are queued.                                                 *)

OnList(p, h) == p \in Elements(queue[h])
OnOverdue(p) == p \in Elements(overdue)
Queued(p) == Enqueued(task[p])

\* The list the fields of p say it is on, as a set of at most one.
Home(p) == IF task[p].array = NULL THEN {} ELSE {<<task[p].array, task[p].prio>>}

\* Every task is on the one list its fields name, once: a list_del always takes
\* the task off the list it was put on, whatever changed in between (dequeue_task
\* finds the list again from p->array and p->prio).
OneHome ==
  /\ \A p \in Pid : {h \in Lists : OnList(p, h)} = Home(p)
  /\ \A p \in Pid : OnOverdue(p) <=> is_overdue(task[p]) /\ task[p].queued
  /\ \A h \in Lists : NoDuplicates(queue[h])
  /\ NoDuplicates(overdue)

\* The array a task is queued in fits its policy: SHORT tasks with trials left in
\* active_SHORT, overdue ones in none, the others in arrays[0] or arrays[1], and
\* only OTHER tasks in the expired one.
ArrayFitsPolicy ==
  \A p \in Pid : task[p].array # NULL =>
    /\ (task[p].array = active_SHORT) <=> is_short(task[p])
    /\ ~ is_overdue(task[p])
    /\ task[p].array = 1 - active => task[p].policy = "OTHER"

\* The counters and bits that schedule() trusts say what the lists hold.
QueuedOn(a) == {p \in Pid : task[p].array = a}
CountersAgree ==
  /\ \A a \in ArrayId : nr_active[a] = Cardinality(QueuedOn(a))
  /\ bitmap = {h \in Lists : queue[h] # <<>>}
  /\ nr_running = Cardinality({p \in Pid : Queued(p)})

\* nr_uninterruptible, which load averages are computed from, is the number of tasks
\* that sleep so: a task is counted by the schedule() that takes it off its list,
\* uncounted by the wake-up that puts it back, and neither if it never left.
Asleep(p) == task[p].state = "UNINTERRUPTIBLE" /\ pc[p] # "copy" /\ ~ Queued(p)
SleepersCounted == nr_uninterruptible = Cardinality({p \in Pid : Asleep(p)})

\* No runnable task is ever off the queues, the current one included: a wake-up
\* that finds the task "already queued" (array, or is_queued for an overdue one)
\* is right to do no more than set its state.
NoLostTask ==
  \A p \in Pid : pc[p] # "free" =>
    /\ task[p].state = "RUNNING" => Queued(p)
    /\ Queued(p) /\ p # curr => task[p].state = "RUNNING"
    /\ p = curr => Queued(p)

-----------------------------------------------------------------------------
(* Who runs.                                                               *)

\* The current task is in no hurry to leave the CPU.
Settled == tail = "none" /\ ~ task[curr].need_resched

\* A SHORT task with trials left never waits for an OTHER, an overdue or the idle
\* task, nor for a SHORT one of lower priority, past the next schedule().
ShortFirst ==
  Settled => \A p \in Pid :
    Queued(p) /\ is_short(task[p]) /\ ~ is_overdue(task[p]) /\ p # curr =>
      \/ rt_task(task[curr])
      \/ /\ is_short(task[curr]) /\ ~ is_overdue(task[curr])
         /\ task[curr].prio <= task[p].prio

\* Only an overdue task, and the idle one, has no ticks left: do_fork's BUG() and
\* the wrap of scheduler_tick's --time_slice stay out of reach.
TicksLeft ==
  \A p \in Pid : pc[p] \notin {"free", "copy"} /\ ~ is_overdue(task[p]) => task[p].time_slice > 0

-----------------------------------------------------------------------------
(* Waiting.                                                                *)

\* No task sleeps in sys_wait4 while it has a dead child to reap.
NoMissedExit ==
  \A p \in Pid : pc[p] = "wait" /\ task[p].state = "INTERRUPTIBLE" /\ p # curr => Zombies(p) = {}

\* No parent sleeps in vfork after its child has left its memory.
NoMissedVfork ==
  \A p \in Pid : pc[p] = "vwait" /\ task[p].state = "UNINTERRUPTIBLE" /\ p # curr
                   => vfork_done[kid[p]] = p

\* No parent is left asleep by what its child has done.
NoMissedChild == NoMissedExit /\ NoMissedVfork

-----------------------------------------------------------------------------
(* What a step may not do.                                                 *)

\* A SHORT task stays SHORT, an overdue one overdue, until it is gone.
ShortForLife ==
  [][\A p \in Pid : is_short(task[p]) /\ pc'[p] # "free" =>
       /\ is_short(task'[p])
       /\ task'[p].remaining_trials <= task[p].remaining_trials]_vars

\* The trials of all SHORT tasks together, a child counted once it has its share.
Counted(p) == Hashed(p) \/ \E q \in Pid : pc[q] = "fork2" /\ kid[q] = p
TrialsOf(p) == IF is_short(task[p]) /\ Counted(p) THEN task[p].remaining_trials ELSE 0
TotalTrials == MapThenSumSet(TrialsOf, Pid)

\* Trials come from setscheduler alone: fork shares them, and never makes more.
TrialsOnlyShrink ==
  [][TotalTrials' > TotalTrials => \E p \in Pid : ~ is_short(task[p]) /\ is_short(task'[p])]_vars

\* First come, first served among overdue tasks: whoever is behind a waiting task, or
\* becomes overdue or wakes up later, stays behind it (the tail of the list runs first).
Before(s, p, q) == \E m, n \in 1 .. Len(s) : m < n /\ s[m] = p /\ s[n] = q
OverdueInOrder ==
  [][\A p \in Elements(overdue') :
       \A q \in (Elements(overdue) \cap Elements(overdue')) \ {p, curr} :
         (p \notin Elements(overdue) \/ Before(overdue, p, q)) => Before(overdue', p, q)]_vars

\* An overdue task that loses the CPU while it can run goes to the end of the line.
OverdueGoesLast ==
  [][curr' # curr /\ curr \in Pid /\ is_overdue(task[curr]) /\ task'[curr].state = "RUNNING"
       => overdue'[1] = curr]_vars

-----------------------------------------------------------------------------
(* What comments and assertions of the code say, and the code does not do. *)

\* sched.c, at overdue_SHORT: overdue tasks run with "no OTHER, SHORT or real-time
\* process to run".
OverdueRunsAlone ==
  Settled /\ curr \in Pid /\ is_overdue(task[curr]) => \A h \in Lists : queue[h] = <<>>

\* sched.c, schedule(): the idle task is for "nothing to run".
IdleOnlyIfNothingToRun == Settled /\ curr = Idle => nr_running = 0

\* fork.c: BUG() if the current task has no ticks left and is not overdue.
NoForkBug ==
  \A p \in Pid : At(p, "fork1") /\ task[p].time_slice = 0 => is_overdue(task[p])

\* sched.h, SWITCH_REASONS: a switch that is logged has a reason ("Reason unknown - should cause error").
LoggedWithReason ==
  [][curr' # curr /\ remaining_switches > 0 /\ curr # Idle
       => task[curr].reason # UNKNOWN \/ task[curr].state # "RUNNING"]_vars
=============================================================================
