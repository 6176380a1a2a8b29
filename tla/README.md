# A TLA+ model of the SHORT scheduler and the kernel code around it

This project models the patched Linux 2.4.18 of `src/submission_appeal/kernel`:
the O(1) scheduler of `kernel/sched.c` with a third policy, `SCHED_SHORT`, the
process code of `kernel/fork.c` and `kernel/exit.c` that the patch changes, and the
context-switch log of `kernel/hw2_syscalls.c`. `kernel_files/edited` holds the same
`sched.c`; `kernel_files/backup` is the kernel before the patch, which is modelled
too, as what the patched one still implements for everybody else;
`submission_11.5` is an earlier version of the patch.

A SHORT task asks for `requested_time` milliseconds and a number of trials. It
runs before every OTHER task. At the end of a slice it starts its next trial
with a shorter slice (requested time / trial number); when trials or ticks run
out it is *overdue*: it leaves the priority arrays for a FIFO list and should
run only when nobody else can.

## Inventory

| Component | State | Operations | Interacts through |
|---|---|---|---|
| Run queue (`sched.c`) | `arrays[3]` (active, expired, active_SHORT) with `nr_active`, `bitmap`, `queue[]`; `overdue_SHORT`; `nr_running`, `nr_uninterruptible`, `curr` | `enqueue_task`, `dequeue_task`, `hw2_enqueue`, `hw2_dequeue`, `hw2_back_of_the_queue`, `activate_task`, `deactivate_task` | `run_list`, `array`, `prio`, `policy`, `remaining_trials` of each task say where it is queued |
| Scheduler entry points (`sched.c`) | the same, `need_resched` and `switch_reason` of the tasks | `scheduler_tick`, `schedule`, `try_to_wake_up`, `set_user_nice`, `setscheduler`, `sys_sched_yield` | timer interrupt, wake-ups from interrupts, system calls, the return path of `entry.S` |
| Process life cycle (`fork.c`, `exit.c`) | task states, parents, `vfork_done`, slices and trials | `do_fork`, `mm_release`, `do_exit`, `exit_notify`, `sys_wait4`, `release_task` | shares slices with the scheduler, wakes parents |
| Address spaces (`fork.c`, `exit.c`, `sched.c`) | `mm`, `active_mm`, `mm_users`, `mm_count` | `copy_mm`, `mmput`, `exit_mm`, `start_lazy_tlb`, `context_switch` | references of tasks that share or borrow an mm |
| Shared structures (`fork.c`, `exit.c`) | counts of `files`, `fs`, `sig`; `user->processes`, `nr_threads` | `copy_files`, `copy_fs`, `copy_sighand`, `daemonize`, `reparent_to_init`, the error path of `do_fork` | references; limits |
| Pids (`fork.c`) | `last_pid`, `next_safe` | `get_pid` | the task list |
| Process tree (`sched.h`, `exit.c`) | `p_opptr`, `p_pptr`, `p_cptr`, `p_ysptr`, `p_osptr`, thread groups | `SET_LINKS`, `REMOVE_LINKS`, `forget_original_parent`, `exit_notify`, `sys_wait4` | pointers between tasks |
| Process groups (`exit.c`) | `pgrp`, `session`, stopped tasks | `will_become_orphaned_pgrp`, `has_stopped_jobs` | signals |
| Wait queues and completions (`sched.c`, `sched.h`) | `task_list`, `done` | `__wake_up`, `wait_event`, `sleep_on`, `wait_for_completion`, `complete` | task states |
| SMP (`sched.c`) | per-CPU queues and locks, `cpus_allowed`, migration requests | `load_balance`, `set_cpus_allowed`, `migration_thread`, sync wake-ups | locks, `need_resched` of other CPUs |
| Switch log (`sched.c`, `hw2_syscalls.c`) | ring of 150 entries, `next_index`, `logged`, `remaining_switches` | `hw2_start_logging`, `hw2_log_switch`, `sys_get_scheduling_statistic` | written by `schedule`, opened by fork and exit, read without a lock |
| Query system calls (`hw2_syscalls.c`) | none | `sys_is_SHORT`, `sys_remaining_time`, `sys_remaining_trials`, `sys_sched_getscheduler` | read one field; programs tell tasks apart by them |
| User wrappers (`hw2_syscalls.h`) | `errno` | `is_SHORT`, `remaining_time`, `remaining_trials` | system calls |
| Testers, scripts | none in the kernel | | system calls |

What is hard here, and what each part must keep:

* A task's place is implied by five fields that are changed at different times.
  Every change of policy, priority or trials must find the task on the list it
  was put on (`OneHome`, `ArrayFitsPolicy`, `CountersAgree`, `SleepersCounted`), and a wake-up must
  tell queued from sleeping tasks although an overdue task has no array
  (`NoLostTask`).
* Who runs is decided at wake-ups, ticks and system calls by `need_resched`, and
  only later by `schedule()`; interrupts come between any of these and between
  the context switch and the tail of `schedule()` (`ShortFirst`, `OverdueGoesLast`).
* Slices and trials are halved, decremented and divided, down to zero
  (`QueriesAgree`, `TrialsOnlyShrink`, `HogGoesOverdue`).
* `do_fork` may sleep in the middle, with the child already copied.
* `sys_wait4` and vfork sleep on events that may come first (`NoMissedChild`), and
  so does everybody who waits on a queue or for a completion, where an exclusive
  wake-up may be spent on a task that is leaving (`SleeperCanBeWoken`, `NoLostCompletion`,
  `NoLostWakeUp`, `EveryWaiterServed`).
* The log is written while it is read, and wraps.
* What a task shares is counted, and `do_fork` may fail at each of its copies
  (`MemoryCounted`, `VforkGivesBack`, `SharesCounted`, `PidsFree`).
* Parents exit while their children fork, exit, are traced or stopped; the loop that gives
  the children away drops its lock in the middle (`TreeLinked`, `NoStoppedOrphan`,
  `OnlyNewOrphans`).
* On several CPUs a task is moved while another CPU wakes it, balances it away or
  still runs on its stack (`RunsWhereItIs`, `LinkedAtHome`, `AffinityKept`, `IdleTold`,
  `NoLockCycle`).
* All of this was patched into a scheduler that real-time and OTHER tasks rely on
  (`AsBefore`).

## Modules

| Module | What it is |
|---|---|
| `RunQueue` | The run queue as a record `k`, and each function under `rq->lock` as an operator from state to state, named as in the C |
| `Scheduler` | The entry points of `sched.c` and the scheduling halves of `do_fork` and `release_task`, composed from `RunQueue` |
| `Sched` | The state machine: one CPU, one variable per field of the run queue, and the place each task is at; ticks, wake-ups and one action per step of each system call |
| `SchedSafety`, `SchedLiveness` | Type invariant, invariants and action properties of `Sched`; its fairness and liveness |
| `Baseline` | The scheduler, fork and exit of `kernel_files/backup`: an abstract machine with lists and slices, without counters |
| `SchedBaseline` | The refinement mapping from `Sched` to `Baseline` |
| `AddressSpace` | `mm_users`, `mm_count` and lazy borrowing, with every point where fork and exit may sleep |
| `ForkResources` | The copies of `do_fork`, their unwinding and `do_exit`, for shared structures and the counts of users and threads |
| `PidAlloc` | `get_pid` and its window of safe pids |
| `ProcessTree` | Parents, children, siblings, tracers and threads as pointers; `exit_notify` hands one child over in each step, with `tasklist_lock` (`handing`) or without (`window`) |
| `OrphanGroups` | Orphaned process groups with stopped jobs |
| `WaitQueue` | Wait queues, exclusive waiters, `sleep_on` and completions, one action per memory access that matters |
| `Migration` | The `CONFIG_SMP` half of `sched.c`: CPUs as actors that spin for each other's locks |
| `Logger`, `SwitchHistory` | The ring and its reader, one action per round of the copying loop; the abstract log it implements |
| `Queries` | The system calls that read a task, and their wrappers, as functions of the state of `Sched` |
| `Lists` | `list.h`: circular lists as pointers |
| `SchedInvariant` | The inductive invariant of `Sched`, in two parts: `IInv` and `Expecting` |
| `SchedulerProofs`, `SchedProofs` | Proofs about the operators of `RunQueue` and `Scheduler` and the pointers of `Lists` that implement them, and about the actions of `Sched` |
| `BaselineProofs` | The proof that `Sched` implements `Baseline` |
| `LoggerProofs`, `WaitQueueProofs`, `MigrationProofs` | Proofs about the module each is named for |
| `AddressSpaceProofs` | Proofs about `AddressSpace` and `ForkResources` |
| `ProcessProofs` | Proofs about `ProcessTree`, `OrphanGroups` and `PidAlloc` |
| `MCSched` | Constants for TLC |
| `MCWorkloads`, `MCBaseline`, `MCProcesses`, `MCWaitQueue`, `MCMigration` | Several workloads, or several parts, in one run |

`Scheduler` extends `RunQueue`, `Sched` extends `Scheduler`; `SchedSafety`,
`SchedLiveness` and `MCSched` extend each other in this order; `SchedInvariant`
and `Queries` extend `SchedSafety`, and the proof modules follow the first. A switch in
`Sched` calls `hw2_log_switch` for its effect on the reasons; the ring it fills
is the separate module `Logger`, since nothing in the scheduler reads it.

`AddressSpace`, `ForkResources`, `PidAlloc`, `ProcessTree` and `OrphanGroups` are
each a view of `do_fork`, `do_exit` and `sys_wait4`, with the points where these sleep
that matter to it. What one of them decides never depends on the state of
another (a failed allocation is a choice in each), which is why they are not composed:
`MCProcesses` holds them, and the log, side by side, and a behaviour moves in one part
only.  The same way `MCWaitQueue` and `MCMigration` hold several workloads of one module.

Correspondence with the code:

* `Sched` is the uniprocessor, non-preemptible build with `hw2_debug = 0`.
  `rq->lock` and the other spin locks are "interrupts off", so each function
  under the lock is one step, and so is the kernel code between two points
  where interrupts can matter. A task loses the CPU only in `schedule()`.
  `WaitQueue`, `Migration` and the process modules make no such assumption where
  the code takes a lock: there, another CPU may act between any two sections.
* `pc[p]` names the point of the code where task `p` is (the list is at the head
  of each module). `tail` and `last` are the end of `schedule()`: after the switch
  interrupts are on again, and the `need_resched` test and the reset of the
  previous task's reason are steps of their own (`TailCheck`, `TailClear`).
* A list is a sequence. `list_del` takes the task off whatever list it is on and
  leaves `run_list` dangling, which `queued` (`is_queued`) keeps track of;
  `SchedulerProofs` shows that the pointers of `src/documents/list.h` do just that. Bit search and
  `exec` are outside `src` and modelled from their use.
  In `ProcessTree` the sibling pointers are kept as pointers, since their
  agreement is the question.
* `ProcessTree` has two locks. `KernelUnlocked` is the big kernel lock, which do_exit holds
  from before `forget_original_parent` until it leaves the CPU and ptrace always takes.
  `Unlocked` is `tasklist_lock`, which `HandOver` gives up after a child if there are
  `"jobs"`: a child in another process group of the session (`exit.c:478`; any child may be
  one). Between two rounds the first child left keeps a `p_ysptr` that is out of date, as
  in the code, which never clears it before that child's own turn.
* `sleep_avg`, `jiffies` and `expired_timestamp` are abstracted to what they
  decide: which bonus `effective_prio` subtracts (any of `Bonus`) and whether an
  OTHER task stays in the active array (any of `Interactive`). Signals are a
  choice in `schedule()` and at the end of `sys_wait4`. `load_balance` may
  refrain at any time, in place of its history of queue lengths.
* Definitions whose names add a suffix to a neighbour's (`should_switch_no_overdue`,
  `ChildShare_floor`, ...) are mistakes one could make there. They are used by no
  action; putting one in the place of its neighbour makes the property it is listed
  with in `PROJECT.json` fail, which shows that the property depends on that code.

## Runs

The bounds of the `Sched` runs: 4 priorities (2 real-time), slices of 1 or 2
ticks, `HZ = 500` so that a request of 1 ms is no tick, 2 ms one and 4 ms two.
Two or three tasks are enough for each question: one on the CPU, one that
competes with it, and a third where an order among waiters, or an orphan, matters.
A workload names the actions its tasks take; interrupts and `schedule()` are in all.
The scheduler's state is finite by itself (slices and trials only go down,
`SLICE_MAX` stands for the wrap of an unsigned slice). The counters that are bounded
in guards are the switches of `Logger`, `MaxCount` of `AddressSpace` (how far late
failures may leak), `MaxItems` of `WaitQueue`, and `MaxTasks` and `MaxForks` of
`PidAlloc`. Deadlock is checked everywhere but in `waitqueue` and `migration`,
where everybody may have been served, or wait for what nobody is left to do; that nobody is
stuck there without a reason is what their properties say.

| Run | Instance | Shows |
|---|---|---|
| `policies` | 2 tasks that sleep, call setscheduler, sched_setparam and nice on themselves and on each other; or 3 made SHORT by each other with one tick and one trial, which then block | queues, counters (of uninterruptible sleepers too) and fields agree, no task is lost, SHORT runs first, SHORT and overdue are for life, FIFO among overdue tasks (363k states) |
| `fork` | 1 SHORT task growing to 3 with copies that block or fail; 2 tasks of every policy; 1 task growing to 3 by vfork, with exec, exits of which those of parents block, and wait4; windows of 1 switch | ticks and trials when they are shared, and what the query calls say of them, no lost wake-up between parent and child, the inductive invariant (394k) |
| `progress` | 1 task growing to 2, fair | liveness of SHORT tasks (105k) |
| `baseline` | the patched kernel with 2 tasks that sleep, yield and change policy or priority, or fork, exit, wait and renice; the old one with 2 tasks that do everything, slices up to 3, bonuses; the old one with 3 that yield and are reniced, fair | the patched scheduler implements the old one for tasks that are not SHORT; the old one loses no task, no tick, and serves everybody (235k) |
| `processes` | 3 tasks and 3 address spaces; 4 tasks with shared files, or 3 that become kernel threads; 5 pids for 3 tasks, or 3 for 4; 4 tasks that trace and have jobs, or in thread groups with daemons; a shell with two jobs; a log of 4 switches with windows of 3 and 10 switches, so that it wraps twice | counts are exact after every failure, pids are new, pointers agree, stopped orphans are told; the log, its reader, and the refinement of `SwitchHistory` (590k) |
| `waitqueue` | 4 waiters of one completion; 2 of a condition, interrupted by signals; 3 of a condition that nothing interrupts; 2 that wait in all four ways, in either state, with signals and timeouts; the first two workloads fair | no wake-up is lost, at any point between testing the condition and sleeping, and nobody waits for good (289k) |
| `migration` | 2 CPUs: 2 tasks, one of which sets the affinity of both; 3 that sleep, are woken (also by sync wake-ups) and balanced; 2 that only change affinities, fair | nobody runs twice or where it is not, tasks are linked and end up where they may be, no CPUs wait for each other's locks, idle CPUs notice work, requests are answered (154k) |
| `overdue_ticks`, `overdue_alone`, `idle`, `fork_bug`, `reasons` | 1 to 4 tasks | a behaviour that contradicts a comment or assertion of the code, see below |

### What the code does not keep

A property is checked under the workloads in which the code keeps it. Where a workload
or a guard leaves something out, it is because the model, like the code, breaks the
property there:

* `ShortFirst` is checked with OTHER and SHORT tasks only, and proved where no call makes
  a task OTHER and nobody calls vfork. `setscheduler` does not
  reschedule, so a FIFO task that makes itself OTHER keeps the CPU from a waiting
  SHORT task until its slice ends. The parent of a vfork runs on until it waits for its child,
  and may do so with a lower priority than the child has, if it was reniced while
  `do_fork` slept.
* `QueriesAgree` is checked with forking tasks that change only their own policy: with
  a `setscheduler` that makes a task SHORT inside `do_fork` it fails, which is the finding
  of `fork_bug`.
* `ShortGetsCPU` is checked without `sched_yield`: a SHORT task that calls it loops in
  the kernel for ever, which `sched.c:2180` says nobody does.
* `QuietReadInOrder` holds only for calls during which nothing is logged; otherwise
  the code promises no order, and `EachSwitchOnce` says what remains. An entry is
  copied in one step, so a copy torn by a fault in its middle is not represented.
* `AsBefore` is checked and proved without nice on other tasks: the baseline says that a task
  that becomes more important preempts, but tests for the opposite
  (`kernel_files/backup/kernel/sched.c:1059` and `:1062`), and the patch does not.
* `MemoryCounted` counts leaks, and `VforkGivesBack` is asked, where `do_fork` fails
  no later than in `copy_mm`. A later failure runs `exit_mm` for the child on
  behalf of the parent: it leaks a reference to the mm, and completes the vfork of
  the caller.
* `SharesCounted` asks for the counts of users where nobody becomes a kernel thread:
  `reparent_to_init` changes `user` without moving the count. `max_threads` is
  not asked about: it is tested before the copies sleep and counted after them.
* `PidsFree` is asked with one fork at a time and pids to spare: the pid of a
  fork under way is in no list, and a scan that gives up leaves `next_safe` stale.
* `TreeLinked` asks for one release of each zombie where there are no threads:
  two threads of a group may both find it before either takes it out of the list.
* Where `exit_notify` drops `tasklist_lock` (`exit.c:482`), `TreeLinked` is checked, and
  proved, without threads and without tasks that call `reparent_to_init` (`WindowKept`;
  the workloads `Tree`, with `"jobs"`, and `Threads`, without). With them the code breaks
  the lists on several CPUs: a thread of the exiting task's group that reaps the first child
  left, or that child when it becomes a daemon, runs `REMOVE_LINKS` by the stale `p_ysptr`,
  which writes into a child that was handed over and leaves `p_cptr` of the exiting task
  at the one taken off. Forks, exits, tracers, and `sys_wait4` of the parent, which may
  find the exiting task itself, are there in the window.
* `NoStoppedOrphan` and `OnlyNewOrphans` are asked of stops from the terminal; a
  group whose only stopped member dies in between is left to the code's own rules.
* What `migration` asks has no overdue task, which looks unqueued to
  `set_cpus_allowed` (`sched.c:2555`). `AffinityKept` has one task that sets affinities,
  since a mask replaced between the request and its execution is not looked at again.
  `IdleTold`, which is `IdleNotices` there, has none, since a migration
  thread that brings a task does not tell an idle CPU. The theorems have the same hypotheses.

### Findings

* `overdue_ticks`: `do_fork` leaves an overdue parent with a slice of 1, so
  `remaining_time` of an overdue task is not always 0, as `hw2_syscalls.h:18` says and
  `hw2_syscalls.c:51` relies on.
* `overdue_alone`: overdue tasks run while OTHER tasks wait. The arrays are
  not swapped while a task is overdue, and a waking OTHER task does not preempt one.
* `idle`: an overdue task that wakes on an idle CPU is not given it.
* `fork_bug`: the `BUG()` of `fork.c:735` is reachable when a task is made SHORT
  while it sleeps inside `do_fork`.
* `reasons`: a reason set during the tail of `schedule()` is cleared, and the
  switch it announced is logged with reason 0.

## Fairness

* `progress` assumes `FairSpec` of `SchedLiveness`: the kernel always leaves the places
  where it goes on by itself (calls of `schedule()`, the tail, the continuations of
  fork, exit and wait), because nothing preempts it, and the timer ticks while a
  SHORT task spends its slice. Nothing is assumed about tasks in user mode or about
  events that sleeping tasks wait for. OTHER tasks are promised nothing: an overdue
  task can keep them waiting for ever (`overdue_alone`).
* `baseline` assumes a timer and, when the current task must or may reschedule, that
  it does.
* `waitqueue` assumes, for the workloads with liveness, that each task goes on with its own
  code (weak fairness of `Step(p)`), and for `WaiterServed` that wake-ups keep coming.
* `migration` assumes, for the workload with liveness, that a CPU is strongly fair in
  `Kernel(c)`: spin locks are not queued, so that a CPU gets a lock that is free again and
  again, not one that stays free. `Preempt(c)`, the tick that lets another task run, is
  weakly fair.

## Proofs

### The scheduler

`SchedProofs` proves, for any finite set of tasks, any priorities,
slices, bonuses and requests and any workload, `Spec => []P` for an invariant `P`
and `Spec => P` for an action property; all but `TicksLeft`, which the runs check as a
part of `QueriesAgree`, are properties of the runs. Some have hypotheses, which the table
gives; the last is in `BaselineProofs`:

| Theorem | P |
|---|---|
| `SchedTypeOK` | `TypeOK` |
| `SchedOneHome` | `OneHome`: every task is on the one list its fields name |
| `SchedArrayFitsPolicy` | `ArrayFitsPolicy` |
| `SchedCountersAgree` | `CountersAgree`: `nr_active`, bitmaps, `nr_running` |
| `SchedNoLostTask` | `NoLostTask` |
| `SchedInductive` | `Inductive`: `IInv`, `Expecting` and `Inherited`, on which the others rest |
| `SchedNoMissedChild` | `NoMissedChild`: no parent sleeps over what its child has done |
| `SchedSleepersCounted` | `SleepersCounted`: `nr_uninterruptible` |
| `SchedShortForLife` | `ShortForLife`: SHORT for good, and never a trial back |
| `SchedOverdueInOrder` | `OverdueInOrder`: no overdue task overtakes another that waits |
| `SchedOverdueGoesLast` | `OverdueGoesLast`: one that loses the CPU goes to the end of the line |
| `SchedShortFirst` | `ShortFirst`, if `setscheduler` makes nobody OTHER and nobody calls vfork |
| `SchedTrialsOnlyShrink` | `TrialsOnlyShrink`: all trials together, unless a task becomes SHORT |
| `SchedTicksLeft` | `TicksLeft`: only overdue tasks have no ticks, if nobody calls `setscheduler` on another task, or nobody becomes SHORT |
| `SchedQueriesAgree` | `QueriesAgree`, under the same hypothesis |
| `SchedAsBefore` | `AsBefore`: `Sched` implements `Baseline`, if nobody becomes SHORT and nobody is reniced by another task |

The first five follow from `SchedInv`, `Spec => []IInv`. None of them is inductive:

* A step takes a task off one list, changes its fields and puts it on another, so
  what is true between steps is false inside them. `Good(k, S, n)` is the
  invariant of the run queue `k` in the middle of an operation: the tasks of
  `S` are off the lists, whatever their fields say, and `nr_running` is `n` too
  high. `dequeue_task` leads from `Good(k, {}, n)` to `Good(k, {p}, n + 1)`, any
  field of `p` may then be written, and `enqueue_task` leads back.
* `OneHome` needs to know that priorities fit policies (`Proper`), since a SHORT
  task is told from a real-time one by its policy and queued by its priority.
* `NoLostTask` needs the current task to be queued and to be there
  (`Located`), that nobody wakes a copy `do_fork` is still filling, and that two
  tasks in `do_fork` fill different copies (`Copied`): otherwise the one that
  fails would free what the other is about to wake.

The argument has three layers. `SchedulerProofs` has one lemma per
operator of `RunQueue`: it keeps `Good`, with which `S` and `n`, and what it does
to the other tasks. It does the same for the tick, wake-up,
`schedule`, `set_user_nice`, `setscheduler`, `sched_yield` and the accounting of
fork and exit. What a caller needs of the other tasks is one of a few relations:
`Apart` (only `p` changed, and neither its policy nor its state), `Calm` (tasks
were moved or relabelled, but none was queued, dequeued or changed state),
`Steady` (the same, and the policy of one changed), `Departs` (the same, except that
the task switched from may have left) and `Wakes`. `SchedProofs` has one lemma per
action. Most actions are `Quiet`: the current task may have changed its state and
tasks that are there may have been woken. `Undisturbed` says that a quiet step by
a task that only moves on in its program keeps `IInv`; what is left are the
actions where tasks come and go (fork, its failure, reaping) and `schedule`.

The lemma of an action says, besides, what the step does to states, to being queued and
to `nr_uninterruptible`: `AsWas` (nothing), `Sets` (the state of the current task),
`Awakens`, `Tells` (`mm_release`: the vfork parent), `Notifies` (`exit_notify`),
`Switches`. The third layer uses this alone, and never looks into a list again.

* `NoMissedChild` speaks of tasks that sleep. Whether one will miss its child is
  decided earlier, when it has set its state and not yet called `schedule()`, so
  `NothingToReap` and `VforkPending` say it of that point too; a wake-up sets the
  state back, which is what they let happen. That the child finds its parent asleep, and
  not on its way, needs that only the current task is on its way (`BoundIsCurrent`):
  between the test and `schedule()` no other task runs. `exit_notify` may make process 1
  the parent of a zombie, and then tells it; that it does not make a task its own parent
  is `OwnParent`. The non-preemptible build is what makes `BoundIsCurrent` true.
* `SleepersCounted` counts at the switch, not where the state is set. The
  task that leaves is counted by `schedule()` exactly if it is UNINTERRUPTIBLE then, so
  nobody else may change the state of a task that is off the queues without counting:
  a wake-up does count; a copy (`CopyTask`) is UNINTERRUPTIBLE and off the queues from the
  start, is not counted, and is woken without uncounting. `Drowsy` is needed for
  `setscheduler`: the task that calls it is RUNNING.

The action properties compare the run queue before and after each operator, which
`Good` does not do, so each operator has two more lemmas in `SchedulerProofs`: what
becomes of policies and trials, and what becomes of the line of overdue tasks.

* `ShortForLife`: an operator leaves both as they are (`SameLives`) or uses up trials of
  one task (`Ages`); only `setscheduler` makes a task SHORT, and it refuses one that is.
  Fork is the hard case. `do_fork` copies the parent, may block, and then gives the
  child, whose record holds the copied trials, a share of the trials that the *parent*
  has by then. Meanwhile the parent may have aged, or a third task may have made it
  SHORT, and the share must not be more than a copy that is SHORT already held.
  `Inherited` says that it is not: a SHORT copy has a SHORT parent with no more trials
  than the copy (`CopyHolds`). `BlankIsOther` keeps the record of a new task from
  counting as SHORT before it is filled.
* `OverdueInOrder`: `InLine(s, w, c)` says that nobody but the current task `c` has left
  the line, and whoever comes after `q` in `w` came after it, or was absent, in `s`. It is
  transitive for one `c`, so the lemmas of a tick, a wake-up or a system call compose
  those of dequeueing and enqueueing. The overdue list is served from its end and
  filled at its head, hence "after".
* `OverdueGoesLast`: only `schedule` changes `curr`, and it pushes the previous task back
  (`PushPrevBack`) after it has put the others on their lists.

`ShortFirst` says that a SHORT task with trials left waits for a task that outranks it, but
only when `schedule()` is over and the current task has not been told to go. The
invariant `Ahead` asks for it always, also in the tail of `schedule()`: whoever is on a
queue is outranked by the current task, or that task has `need_resched` (`Contended`). So
there are four places where it could break, and a test for each in the code: something is
queued or gets better (`try_to_wake_up`, `set_user_nice`, `setscheduler`, `do_fork`: they
test `should_switch`, or always ask the current task to go), the current task gets worse
(`scheduler_tick`, `set_user_nice`), `schedule` picks the wrong task (`PickedOutranks`, from
the two bitmaps), or `need_resched` is lost, which only `schedule` does. It takes `NoBonus`
as well: a SHORT task has its static priority, so that `sched_setparam`, which puts a
task back on its queue and makes no test, cannot lift it over the current one. Each
operator has a lemma that says what becomes of priorities and `need_resched`
(`SameRanks`, `RanksBut`), which with `SameLives` decides who outranks whom.

`QueriesAgree` needs that a SHORT task with trials left has ticks (`TicksLeft`), and that a
tick is a millisecond at least (`QueryAssumption`: `HZ` is 1000 at most). Each operator has a
lemma that says it leaves ticks alone (`SameSlices`), or leaves everyone ticks who had some
(`Feeds`): a slice that ends is refilled in the tick that ends it, or the task is
overdue. Fork is again the hard case. The parent and the copy get a half each of the ticks the
parent has by then, and an overdue parent has none: its child is without ticks, and so must be
overdue itself, which it is if the copy was SHORT when it was taken. `Supplied` adds to
`TicksLeft` what makes it inductive: until the ticks are shared the copy of a SHORT parent is
SHORT (`CopyIsShort`), and from then on the child has ticks (`ChildHasTicks`). The hypothesis
is there because a parent that another task makes SHORT while it is blocked in `do_fork` has
a copy that is not, which is the finding of `fork_bug`.

`TrialsOnlyShrink` is about a sum over all tasks, and its steps follow from `ShortForLife`
wherever no task begins to be counted (`NoneCounted`); that is everywhere but in
`ForkSplit`, where the child has its trials from then on. Half of the trials, rounded down,
and half, rounded up, are all of them, but a parent with one trial gives it away and keeps one
for the tick that `do_fork` makes next: the theorem needs that this tick makes it overdue
(`SplitConserves`). `SumsLess` carries the inequality from single tasks to the sum: the
recursive function behind `MapThenSumSet` is shown to exist, and compared set by set,
by induction on their size. The induction is over the natural numbers as a set
(`NatSet`), since the induction theorems of the library cannot be instantiated.

The counting facts (a task more or less in a finite set) come from
`FiniteSetTheorems`; that the first bit of a bitmap exists from the well-founded
order of the naturals. Assumptions: `PidAssumption` (finitely many tasks, the idle
one apart), `PrioAssumption`, `SliceAssumption`, `BonusAssumption`,
`SchedAssumption`, each in the module that declares its constants, and `QueryAssumption`
in `Queries`; TLC evaluates them in the runs of `MCSched`.

### The scheduler before the patch

`BaselineProofs` proves `Spec => AsBefore`, so the mapping of `SchedBaseline` is a refinement
for any number of tasks, priorities, slices and bonuses: every step of `Sched` is a step of
`Baseline` or changes nothing there. `Seen(t, u, s)` says that the record `t` of the patched
kernel and `u` of the old one agree, `u` in the state `s`, and `Shows(k, b, l)` that two run
queues do, list by list, where `l` tells what the state of each task is shown as: its own, or
`FREE`, `COPY` or `SPLIT` for one that `do_fork` fills (`Labels`). The argument has two halves:

* Each operator of `RunQueue` and `Scheduler` keeps `Shows` with the operator of `Baseline`
  that models the older function. They are written differently where the code is: the patch
  takes a task off its list by its policy, and keeps a bitmap and `nr_active`, where `Baseline`
  asks which lists are empty; `Good` says that these are the same. `schedule()` of the patch
  decides between real-time, SHORT, OTHER and overdue tasks: without SHORT tasks the first bit
  of the bitmap decides, as before the patch, and `PushPrevBack` finds nobody to push. The two
  ways of sharing the ticks of a parent round alike, and so does the tick made when
  the last one was given away.
* Each action of `Sched` is `Mirrors`: a step of `Baseline`, and `Shown` afterwards. Where a
  task enters a wait, returns, tests its child or asks for its `need_resched`, `Baseline` sees a
  task that changes its state, or nothing.

What holds before each step is `Beforehand`: what `SchedProofs` shows (`Inductive`), that no
task is without ticks (`Supplied`; `Baseline` has no overdue tasks, and ticks would count
below zero there), `Shown`, and `Sideline`, which says of tasks that `Baseline` does
not see on their way that init does not exit, that only a task in `do_fork` has a copy, that a
parent scanning its children is RUNNING or INTERRUPTIBLE, and that zombies have exited.

The hypotheses are those of the run. Who is reniced by another task is the one
difference (above); a task that renices itself is asked to go in both kernels.

### The log

`LoggerProofs` proves, for every `LogSize > 0`, every `Window` and
`MaxSwitches`:

* `LoggerTypeOK`: `Spec => []TypeOK`. `TypeOK` is inductive; the only arithmetic
  is the wrap of `next_index` and of the reader's index, lemma `WrapAround`
  (`(x + 1) % LogSize` is `x + 1`, or 0 at the end).
* `LoggerRing`: `Spec => []RingInv`. `RingInv` is inductive relative to `TypeOK`:
  it says of each slot which switch it holds, separately for the slots before
  and from `next_index` on. The step of `hw2_log_switch` splits on whether
  the index wraps, then on whether the slot is the one just written.
* `LoggerReturns`, `LoggerQuietRead`, `LoggerEachSwitchOnce`: `Spec => []P` for the three
  properties of `sys_get_scheduling_statistic`, which the log may overtake at every entry.
* `LoggerIsHistory`: `Spec => HistorySpec`, the ring implements `SwitchHistory`.

Of the three properties of a call `EachSwitchOnce` needs the most. That a switch is
copied once does not follow from the slots being different, for a slot is copied, written
again, and another slot copied later. `ReaderInv` says that what was copied from a slot
is in no *other* slot, now or after any number of switches, and that the call goes once
round the ring from some slot `s` (`ReadFrom`); a call during which nothing was logged
began at the oldest entry (`s = FirstSlot`), which is what the order follows from. It also
remembers that slots are 0 until they are written (`NotWritten`). The
refinement mapping takes the ring, unrolled from its oldest slot, for the abstract
history; `RecentInOrder` says that it is the sequence of the last `logged` numbers, so
that a step of `hw2_log_switch` is an `Append` that forgets the head once the ring is full
(`RecordStep`).

Assumption: `LoggerAssumption`.

### Waiting

`WaitQueueProofs` proves `Spec => []P` for every number of tasks, whatever ways of waiting
they use, in either state, and every bound on completions and items:

| Theorem | P |
|---|---|
| `WaitTypeOK` | `TypeOK` |
| `SleepersFound` | `SleeperCanBeWoken`: whoever is off the run queue is on a queue, in the state its wake-ups look for |
| `CompletionsReach` | `NoLostCompletion` |
| `WakeUpsPassOn` | `NoLostWakeUp` |

The last two are about sleeping tasks only, and not inductive: what a task does while it
is still on its way to sleep, or awake on its way out, decides what they say later.
`WaitInv` has five parts. `Located` says which states a task can be in at each point of
its loop, `Linked` who is on which queue. `EnoughLook` counts *everybody* that waits for
the completion and is not marked RUNNING, asleep or not: either there is none, or
at least `done` others are about to look. `EnoughTest` does the same for exclusive
waiters, where a task about to test the condition looks whatever its state says, where
wake-ups that are owed count as well, and where a task that a signal or a timeout takes away
may only go if it leaves enough. A wake-up that reaches a task moves it from one set to
the other (`__wake_up_common` goes through the queue until it has woken one exclusive
task); one that reaches nobody finds the first set empty. Hypothesis: `WaitQueueAssumption`.

### Moving tasks between CPUs

`MigrationProofs` proves `Spec => []P` for any number of CPUs and tasks and any affinities,
if no task is overdue:

| Theorem | P | Also assumes |
|---|---|---|
| `MigrationTypeOK` | `TypeOK` | |
| `TasksRunWhereTheyAre` | `RunsWhereItIs`: no task runs on two CPUs, or on another one than its own | |
| `LinkedWhereTheyAre` | `LinkedAtHome`: a queued task is in the run queue of its CPU and in no other | |
| `LocksTakenUpwards` | `LocksAscend`: a CPU spins only for a lock that comes after those it holds | |
| `NoLocksCrossed` | `NoLockCycle` | |
| `AllowedWhereTheyAre` | `AffinityKept` | one task sets affinities |
| `IdleIsTold` | `IdleNotices` | nobody sets affinities |

None of them is inductive; each has an invariant of its own over the first.

* `MigrationInv`, for the first three. `load_balance` inside `schedule()` unlocks the run
  queue when the previous task is off it and still current, so another CPU may queue that
  task again; a wake-up may move a task that has left its queue but not yet its CPU. The
  invariant says which tasks these can be: a current task that is off its run queue is
  leaving (`IsLeaving`), and a migration thread is current on its CPU from taking a
  request to answering it, and what it moves is a worker, never such a thread
  (`KeepsCPU`). `CountInv` adds, for the type, that the count of a balancing stays positive
  while there is a task to pull.
* `LockInv` says which locks a CPU holds at each point of the code (`Held`), and that
  `load_balance` drops its own before it spins for a lower one. From it `LocksAscend`
  follows point by point, and from that `NoLockCycle`: of two CPUs that spin for each
  other's locks one would spin downwards.
* `IdleInv`: a CPU that is idle and has a task in its queue is told, or is inside
  `schedule()` and will look. Every place that puts a task on a queue is followed by a
  test for an idle current task, except one: `migration_thread` activates on the
  destination without it, which is why nobody may set an affinity here.
* `AffinityInv`: there is at most one request in the system (`OneRequest`), the caller
  waits until it is answered (`CallersWait`), and a task that is where it may not be is
  the one that request names (`Placed`). With two callers `Placed` is false, and
  so is the property.

Assumptions: `MigrationAssumption`, and that no task is overdue (`Overdue = {}`).
Without the second one the theorems are false: `set_cpus_allowed` takes a queued
overdue task for a sleeping one (`sched.c:2555`) and changes its CPU where it is linked.

### What tasks share

`AddressSpaceProofs` proves `Spec => []P` for any number of tasks, address spaces and
structures. Its second part is about `ForkResources`, which it instantiates as `Fork`:

| Theorem | P | Also assumes |
|---|---|---|
| `SpaceTypeOK` | `TypeOK` | |
| `SpaceUsersExact` | `UsersExact`: `mm_users` | |
| `SpaceActiveAlive` | `ActiveAlive`: the page tables in use are allocated, the memory of a task mapped | |
| `SpaceNoLeak` | `NoLeak`: an mm is freed as soon as nobody uses, borrows or unmaps it | `do_fork` fails no later than in `copy_mm` |
| `SpaceVforkGivesBack` | `VforkGivesBack`, an action property: no vfork returns before the child has left the mm | the same |
| `ForkCountsExact` | `CountsExact`: `files`, `fs` and `sig` | |
| `ForkThreadsCounted` | `ThreadsCounted`: `nr_threads` | |
| `ForkProcessesExact` | `ProcessesExact`: `user->processes` | nobody becomes a kernel thread |
| `ForkTypeOK` | `TypeOK` | nobody becomes a kernel thread |
| `ForkLimitKept` | `LimitKept`: `RLIMIT_NPROC` | the limit is at least 1 |

These say what `MemoryCounted`, `VforkGivesBack` and `SharesCounted` ask of the run `processes`, of each part
with its hypothesis; the hypotheses are those of the run, and the reasons are above.
A count is the size of a set of tasks, and every step changes it by one. What the
invariants add is who is in the set:

* `Fit` of `AddressSpace` says what a task holds at each point of fork, exit and the
  context switch: only the current task can hold a borrowed mm, a task that is leaving
  still holds what it leaves, two tasks in `do_fork` fill different children. `Counted`
  gives both counts to the last reference. `mm_count` is what it should be or, after a
  late failure, more, so that nothing is freed too early there either: that is
  how `SpaceActiveAlive` does without the hypothesis of `SpaceNoLeak`.
* `VforkInv`: who waits for a vfork has memory, and its child, the only one whose `vfork_done`
  names it, has not been through `exit_mm`.
* `HasAll` of `ForkResources` says how far `do_fork` and `do_exit` have come with each
  kind of structure. A child starts with all the pointers of its parent and none of the
  references, so the number of pointers to a structure is not its count: `Ref` is the pointer
  where a reference goes with it (`Given`: this `copy_` was done and is not yet undone),
  and each step changes the count as it changes `Ref` in one task (`CountMoved`).
* `ForkLimitKept` needs no exact count: only `do_fork` adds to `user->processes`, right
  after its test and before it first sleeps.

Hypotheses: `AddressSpaceAssumption`, `ForkResourcesAssumption`.

### The tree of processes

`ProcessProofs` proves `Spec => []P` for any number of tasks that fork, trace, exit and
wait, between any two rounds of the loop of `exit_notify` too:

| Theorem | P | Also assumes |
|---|---|---|
| `TreeTypeOK` | `TypeOK`, the rings of the thread groups included | |
| `TreeSiblingsLinked` | `SiblingsLinked`: the list of children ends and holds just the children | |
| `TreeParentsLive` | `ParentsLive`: no parent is freed or has left `exit_notify`, no real parent is past `forget_original_parent` | |
| `TreeNoCycle` | `NoCycle`: init is everybody's ancestor | no threads |
| `TreeReleasedOnce` | `ReleasedOnce`: a zombie that was found is there to be released | no threads |

These are the parts of `TreeLinked`, which the run `processes` checks with the same
hypotheses: two exiting threads can be each other's parent for a while, and two threads
can find the same zombie.

`SiblingsLinked` and `NoCycle` follow pointers as far as they lead, by recursive functions.
What such a function computes is proved by induction on the number of steps,
for sets of numbers (`NatSet`, from the well-founded order of the library;
`Iterates` shows that the function exists). The invariants do not follow pointers:

* `Whole(L, P, C)` says of the links `L`, the tasks `P` and the children `C` what each
  pointer and the one at its other end agree on, and that every set of
  children has one whose younger sibling is outside it, so that no list is a circle apart
  from its head. `LinksRemoved` and `LinksSet` say what `REMOVE_LINKS` and
  `SET_LINKS` do to it, one task at a time. It is also exactly what
  makes the walk of `Children` end with all of them (`WalkMeets`).
* Between two rounds of `exit_notify` it is not true of `links`. `Mend(L, B)` is `L` with
  the stale `p_ysptr` set right, for the tasks `B` in the loop, and the invariant is
  `Whole(Mend(links, Busy), ...)`. A round of the loop is, of the mended links, a
  `REMOVE_LINKS` and a `SET_LINKS` (`MendHanded`). `SET_LINKS` may add to a list under way
  (`MendSet`), since it repairs the pointer of what was first; `REMOVE_LINKS` may not
  take from it (`MendRemove`), since it goes by that pointer. That nobody does is
  `WindowKept` and, for `sys_wait4`, `WaitReaps`: either the lock is not dropped, or without
  threads whoever reaps a zombie is its parent and not in the loop. For this `TreeInv` and
  `Unthreaded => Lone` are inductive only together (`TreeInvariant`). A task whose list is
  whole may enter the loop, and one without children leave it (`MendMore`, `MendLess`).
* `Parents` says that a real parent has not yet given its children away: it is running or
  `exiting`. A `p_pptr` may be `forgot` or in the loop as well, since it will hand them
  over. `ReaperLives`: whoever gets them is not exiting, so this holds of them again.
* `Reach`: every set of tasks without init has one whose real parent is outside it. Where
  no task is a thread, forks add a leaf and all other steps leave `p_opptr` alone or make
  it init (`ReachKept`). In each step up from the tasks at most `k` below init one more is met,
  unless all have been (`NearGrows`), so that the walk of `NoCycle` arrives.
* `Kept`: a task that has found a zombie is its parent, and nobody but a parent finds one.

Hypotheses: `ProcessTreeAssumption` and `WindowKept`: where `"jobs"` is among the calls, there
are no threads and no daemons.

### Orphaned process groups

The second part of `ProcessProofs` proves of `OrphanGroups`, for any number of tasks and
groups and where nobody sends SIGSTOP (the hypothesis of the run as well):

| Theorem | What it says |
|---|---|
| `GroupsNoStoppedOrphan` | `NoStoppedOrphan` always: a stopped job is in no orphaned group |
| `GroupsOnlyNewOrphans` | `OnlyNewOrphans`: only groups that this exit orphaned, and that had stopped jobs, are hung up on |
| `GroupsTypeOK` | `TypeOK`, with live parents and every group in one session |

`NoStoppedOrphan` is inductive only together with what says which groups are connected.
`Told`: if a job is stopped then some living member of its group has a parent in another
group of its session. Exits are what can break it, and one exit may break it for the group of
the task (`OwnGroupTold`) and for that of each child (`ChildGroupTold`). Between these
`Notified` holds: every job still stopped has a connection, and who was told had lost it. `WalkIs` carries
it through the fold over the children, by induction on how many are left. Other
steps only add connections, or take away a task that was a zombie and connected nothing;
a job is stopped by the terminal only in a group that is not orphaned.

Hypothesis: `OrphanGroupsAssumption`.

### Pids

The third part proves of `PidAlloc`, for any `PID_MAX`, `RESERVED` and number of tasks:

| Theorem | What it says | Also assumes |
|---|---|---|
| `PidTypeOK` | `TypeOK` always | |
| `PidGivesUp` | `GivesUpOnlyIfFull` | |
| `PidsFresh` | `WindowFree` and `UniquePids` always | one call of `do_fork` at a time; `get_pid` has not failed |

* `Look` is one round of the loop and `Scan` the round after which nothing changes. That
  there is one is `ScanEnds`: `Behind` says that every pid between the first and the one now
  looked at is in use, past the wrap too, so the loop comes back to the first at the
  latest, and `Progress` counts rounds up to `PID_MAX` times the length of the list.
  This needs `Low`, that no id lies above `last_pid` until the pids run over for the first time:
  a loop that began below `RESERVED` and wrapped would never meet its first pid again. When the
  loop gives up, `Behind` is `GivesUpOnlyIfFull`; when it does not, `Looked` says that no
  task uses the pid or one between it and `next_safe`.
* `Fresh` asks of the child under way, too, that its ids lie outside the window, since its parent
  may be gone when `SET_LINKS` puts it into the list. The steps that are not
  `get_pid` bring no id that was not there (`Others`).
* Both hypotheses of `PidsFresh` are real. With two forks under way a second scan may wrap
  and hand out the pid of the first, which is in no list yet; and a scan that gives up
  leaves a `next_safe` that nothing vouches for.

Hypothesis: `PidAllocAssumption`.

### Lists

The end of `SchedulerProofs` justifies the sequences of `RunQueue`. `Represents(m, k)` says that the
pointers `m` hold the lists of the run queue `k`, forwards and backwards, and that the
run_list of a task points at itself exactly if `queued` is false. For `Good` run queues:

* `DequeueInPointers`: it is kept by `hw2_dequeue` with `list_del` on one side and
  `Without` on the other, or `list_del_init` for an overdue task.
* `EnqueueInPointers`: it is kept by `hw2_enqueue` with `list_add_tail` and `Append`, or
  `list_add` and `<<p>> \o s`.
* `EmptyInPointers`: `list_empty` of a head is the test for `<<>>`.

`Insert` and `Delete` are the two lemmas about one list: an element between the `k`-th
and the next, and one taken out. `Frame` says that lists that share no list_head with
what is written stay what they are, and it applies because no task is on two lists,
which is where `Good` comes in (`ListsOnOne`): on any other run queue `list_del` would
corrupt a list that the sequences keep apart. Hypothesis: `HeadsApart`, the list_heads
in the priority arrays are not those of tasks, and are different.

### Model-checked only

`BaseSafe`, the safety of `Baseline` by itself. Liveness (`progress`,
`EveryoneRuns`, `EveryWaiterServed`, `RequestServed`) stays with TLC: the prover has no rules
for fairness and ENABLED.

## Not modelled

`sys_sched_getparam`, `sys_sched_rr_get_interval` and the calls that read affinities;
pids that nobody has in the query calls (of the three only `sys_is_SHORT` does not look
for them, and dereferences NULL); `exec`, signal delivery, page tables and the other
files of the kernel that `src` does not hold, except as the modelled code uses them; what a copied
structure contains; the arithmetic of `sleep_avg`; the debug dumps; namespaces
and executable formats in fork; `exit_mmap` of a failed `do_fork`, which is one step
with the failure although it may sleep; the inline assembly of the user wrappers;
testers and scripts.

`kernel_files/edited` and `submission_11.5` hold a second and a third copy of nearly
the same kernel files (the first differs from the modelled one in 15 lines of
`fork.c`, the other in where `schedule()` pushes the previous task back, in one
assertion and three tests), and `sched.h` is mostly declarations that every copy
repeats. They are not modelled again, so that a large share of the lines of `src` is
outside the model for good.

## Plan

Done: the scheduler with its safety, liveness, inductive invariant and proofs; the log,
proved to implement the abstract one; the unpatched kernel and the refinement, proved; the process
modules, the reference counts among them with proofs; waiting and SMP, with proofs of all
their safety properties; lists as pointers; the query calls.

1. `Policy`: an abstract scheduler with a set of runnable tasks per class and the
   rule of who may run, implemented by `Sched` under a refinement mapping.
