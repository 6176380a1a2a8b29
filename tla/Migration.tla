----------------------------- MODULE Migration -----------------------------
(***************************************************************************)
(* Tasks that move between CPUs: load balancing, wake-ups that bring a     *)
(* task to the waker's CPU, set_cpus_allowed and the migration threads.    *)
(* This is the CONFIG_SMP half of kernel/sched.c.                          *)
(*                                                                         *)
(* A CPU is one sequential actor: it holds and spins for run queue locks   *)
(* with interrupts off.  op[c].pc is where it is, run when it executes     *)
(* curr[c] with interrupts on.  A section under one lock is one step that  *)
(* needs the lock to be free; where a second lock is taken, or the first   *)
(* is dropped, there is a step between.  A list of a run queue is a set:   *)
(* q[p] is the run queue p is linked in.  jiffies and prev_nr_running only *)
(* make balancing more reluctant, so it may refrain at any time.           *)
(***************************************************************************)
EXTENDS Integers, Sequences, FiniteSets

CONSTANTS
  N,        \* the CPUs are 0 .. N - 1
  Worker,   \* the tasks besides the migration threads
  Overdue,  \* those that are overdue SHORT tasks: p->array = NULL though linked
  Setters,  \* the tasks that call set_cpus_allowed
  MThread(_), \* the migration thread of each CPU
  Idle, None,
  Ops       \* of "sleep", "sync", "tick"

MigrationAssumption ==
  /\ N \in Nat \ {0} /\ IsFiniteSet(Worker) /\ Worker # {} /\ Overdue \subseteq Worker /\ Setters \subseteq Worker
  /\ \A c \in 0 .. N - 1 : MThread(c) \notin Worker \cup {Idle, None}
  /\ \A c, d \in 0 .. N - 1 : MThread(c) = MThread(d) => c = d
  /\ Worker \cap {Idle, None} = {} /\ Idle # None /\ None \notin 0 .. N - 1
  /\ Ops \subseteq {"sleep", "sync", "tick"}

Cpu == 0 .. N - 1
Thread == {MThread(c) : c \in Cpu}
Task == Worker \cup Thread
Home(p) == IF p \in Worker THEN 0 ELSE CHOOSE c \in Cpu : MThread(c) = p

VARIABLES
  lock,     \* the CPU that holds rq->lock, or None
  q, cpu, state, cpus_allowed,
  curr, need_resched,
  requests, \* the migration_queue: the task to move and the task that asked
  done,     \* the callers whose semaphore is up
  waiting,  \* the tasks inside down(&req.sem)
  op

taskVars == <<q, cpu, state, cpus_allowed>>
vars == <<lock, taskVars, curr, need_resched, requests, done, waiting, op>>

nr_running(c) == Cardinality({p \in Task : q[p] = c})
InArray(p) == q[p] # None /\ p \notin Overdue
First(mask) == CHOOSE c \in mask : \A d \in mask : c <= d

At(c, l) == op[c].pc = l
Running == [pc |-> "run", p |-> None, rq |-> None, other |-> None, n |-> 0, back |-> "run"]
Goto(c, l) == op' = [op EXCEPT ![c].pc = l]
Back(c) == op' = [op EXCEPT ![c] = [Running EXCEPT !.pc = op[c].back]]

Init ==
  LET w == CHOOSE w \in Worker : TRUE IN
  /\ lock = [c \in Cpu |-> None]
  /\ q = [p \in Task |-> IF p \in Worker THEN 0 ELSE None]
  /\ cpu = [p \in Task |-> Home(p)]
  /\ state = [p \in Task |-> IF p \in Worker THEN "RUNNING" ELSE "INTERRUPTIBLE"]
  /\ cpus_allowed = [p \in Task |-> IF p \in Worker THEN Cpu ELSE {Home(p)}]
  /\ curr = [c \in Cpu |-> IF c = 0 THEN w ELSE Idle]
  /\ need_resched = [c \in Cpu |-> FALSE]
  /\ requests = [c \in Cpu |-> <<>>]
  /\ done = {} /\ waiting = {}
  /\ op = [c \in Cpu |-> Running]

-----------------------------------------------------------------------------
(* schedule().                                                             *)

Sleep(c) ==
  /\ "sleep" \in Ops /\ At(c, "run") /\ curr[c] \in Worker
  /\ state' = [state EXCEPT ![curr[c]] = "INTERRUPTIBLE"]
  /\ Goto(c, "sched")
  /\ UNCHANGED <<lock, q, cpu, cpus_allowed, curr, need_resched, requests, done, waiting>>

Preempt(c) ==
  /\ At(c, "run") /\ need_resched[c] /\ curr[c] \notin Thread
  /\ Goto(c, "sched")
  /\ UNCHANGED <<lock, taskVars, curr, need_resched, requests, done, waiting>>

PutPrev(c) ==
  /\ At(c, "sched") /\ lock[c] = None
  /\ lock' = [lock EXCEPT ![c] = c]
  /\ q' = IF curr[c] # Idle /\ state[curr[c]] # "RUNNING" THEN [q EXCEPT ![curr[c]] = None] ELSE q
  /\ Goto(c, "pick")
  /\ UNCHANGED <<cpu, state, cpus_allowed, curr, need_resched, requests, done, waiting>>

\* The migration thread has the highest priority.
Next_task(c) == IF q[MThread(c)] = c THEN {MThread(c)} ELSE {p \in Worker : q[p] = c}

SwitchTo(c, p) ==
  /\ curr' = [curr EXCEPT ![c] = p]
  /\ need_resched' = [need_resched EXCEPT ![c] = FALSE]
  /\ lock' = [lock EXCEPT ![c] = None]
  /\ Goto(c, IF p \in waiting THEN "down" ELSE "run")

PickNext(c) ==
  /\ At(c, "pick") /\ \E p \in Next_task(c) : SwitchTo(c, p)
  /\ UNCHANGED <<taskVars, requests, done, waiting>>

\* An empty run queue looks for work elsewhere before it goes idle.
PickNone(c) ==
  /\ At(c, "pick") /\ nr_running(c) = 0
  /\ op' = [op EXCEPT ![c].pc = "find", ![c].back = "picked"]
  /\ UNCHANGED <<lock, taskVars, curr, need_resched, requests, done, waiting>>

AfterBalance(c) ==
  /\ At(c, "picked")
  /\ IF nr_running(c) > 0 THEN Goto(c, "pick") /\ UNCHANGED <<lock, curr, need_resched>>
     ELSE SwitchTo(c, Idle)
  /\ UNCHANGED <<taskVars, requests, done, waiting>>

\* A mistake: the idle task is not told.
Preempts_idle(p, c) == IF p \in Thread THEN {TRUE} ELSE IF curr[c] \in Worker THEN BOOLEAN ELSE {FALSE}
\* Whether p, queued on c, makes the running task give way.
Preempts(p, c) ==
  IF p \in Overdue THEN {FALSE}
  ELSE IF p \in Thread \/ curr[c] = Idle THEN {TRUE}
  ELSE IF curr[c] \in Thread THEN {FALSE} ELSE BOOLEAN

-----------------------------------------------------------------------------
(* load_balance, with rq->lock of c held.                                  *)

Tick(c) ==
  /\ "tick" \in Ops /\ At(c, "run") /\ lock[c] = None
  /\ lock' = [lock EXCEPT ![c] = c]
  /\ op' = [op EXCEPT ![c].pc = "find", ![c].back = "ticked"]
  /\ UNCHANGED <<taskVars, curr, need_resched, requests, done, waiting>>

Ticked(c) ==
  /\ At(c, "ticked")
  /\ lock' = [lock EXCEPT ![c] = None]
  /\ Goto(c, "run")
  /\ UNCHANGED <<taskVars, curr, need_resched, requests, done, waiting>>

\* Whether c is idle or about to be.
IdleBalance(c) == op[c].back = "picked" \/ curr[c] = Idle

\* The run queues long enough to take from, looked at without their locks.
Busiest(c) ==
  {b \in Cpu \ {c} :
     LET n == nr_running(b) IN
     /\ n > 1
     /\ IdleBalance(c) \/ (n - nr_running(c)) \div 2 >= (n + 3) \div 4}

BalanceFind(c) ==
  /\ At(c, "find")
  /\ \/ Back(c)
     \/ \E b \in Busiest(c) :
          op' = [op EXCEPT ![c].pc = "try", ![c].rq = b,
                           ![c].n = IF IdleBalance(c) THEN 1
                                    ELSE (nr_running(b) - nr_running(c)) \div 2]
  /\ UNCHANGED <<lock, taskVars, curr, need_resched, requests, done, waiting>>

\* Locks are taken in ascending order.
MustDrop(c) == op[c].rq < c

\* double_lock_balance.
BalanceTry(c) ==
  LET b == op[c].rq IN
  /\ At(c, "try")
  /\ IF lock[b] = None THEN lock' = [lock EXCEPT ![b] = c] /\ Goto(c, "pull")
     ELSE IF MustDrop(c) THEN lock' = [lock EXCEPT ![c] = None] /\ Goto(c, "lock_busiest")
     ELSE Goto(c, "spin") /\ UNCHANGED lock
  /\ UNCHANGED <<taskVars, curr, need_resched, requests, done, waiting>>

BalanceLock(c) ==
  \E l \in {"spin", "lock_busiest", "lock_own"} :
    LET d == IF l = "lock_own" THEN c ELSE op[c].rq IN
    /\ At(c, l) /\ lock[d] = None
    /\ lock' = [lock EXCEPT ![d] = c]
    /\ Goto(c, IF l = "lock_busiest" THEN "lock_own" ELSE "pull")
    /\ UNCHANGED <<taskVars, curr, need_resched, requests, done, waiting>>

\* A mistake: a task that is running is taken as well.
CAN_MIGRATE_TASK_running(p, b, c) == c \in cpus_allowed[p]
CAN_MIGRATE_TASK(p, b, c) == p # curr[b] /\ c \in cpus_allowed[p]

\* Up to imbalance tasks, one after the other, unless the other queue has got shorter
\* before the first.  Any of them may be cache-hot.
BalancePull(c) ==
  LET b == op[c].rq IN
  /\ \/ At(c, "pull") /\ nr_running(b) > nr_running(c) + 1
     \/ At(c, "pulled") /\ op[c].n > 0
  /\ \E p \in Worker :
       /\ q[p] = b /\ InArray(p) /\ CAN_MIGRATE_TASK(p, b, c)
       /\ q' = [q EXCEPT ![p] = c] /\ cpu' = [cpu EXCEPT ![p] = c]
       /\ \E better \in Preempts(p, c) : need_resched' = [need_resched EXCEPT ![c] = @ \/ better]
  /\ op' = [op EXCEPT ![c].n = @ - 1, ![c].pc = "pulled"]
  /\ UNCHANGED <<lock, state, cpus_allowed, curr, requests, done, waiting>>

BalanceEnd(c) ==
  /\ At(c, "pull") \/ At(c, "pulled")
  /\ lock' = [lock EXCEPT ![op[c].rq] = None]
  /\ Back(c)
  /\ UNCHANGED <<taskVars, curr, need_resched, requests, done, waiting>>

-----------------------------------------------------------------------------
(* try_to_wake_up.                                                         *)

\* An interrupt or the running task wakes p.
WakeUp(c, p) ==
  /\ At(c, "run") /\ p \in Worker /\ state[p] = "INTERRUPTIBLE"
  /\ op' = [op EXCEPT ![c].pc = "wake", ![c].p = p]
  /\ UNCHANGED <<lock, taskVars, curr, need_resched, requests, done, waiting>>

\* A mistake: hard affinity is forgotten.
FastMigrates_anywhere(c, p) == curr[cpu[p]] # p /\ cpu[p] # c
\* With sync, a task that is not running anywhere comes to the CPU of the waker.
FastMigrates(c, p) == curr[cpu[p]] # p /\ cpu[p] # c /\ c \in cpus_allowed[p]

FastMigrate(c) ==
  LET p == op[c].p IN
  /\ "sync" \in Ops /\ At(c, "wake") /\ p \in Worker /\ lock[cpu[p]] = None
  /\ q[p] = None /\ FastMigrates(c, p)
  /\ cpu' = [cpu EXCEPT ![p] = c]
  /\ UNCHANGED <<lock, q, state, cpus_allowed, curr, need_resched, requests, done, waiting, op>>

try_to_wake_up(c) ==
  LET p == op[c].p
      r == cpu[p]
  IN /\ At(c, "wake") /\ lock[r] = None
     /\ state' = [state EXCEPT ![p] = "RUNNING"]
     /\ IF q[p] # None THEN UNCHANGED <<q, need_resched>>
        ELSE /\ q' = [q EXCEPT ![p] = r]
             /\ \E b \in Preempts(p, r) : need_resched' = [need_resched EXCEPT ![r] = @ \/ b]
     /\ Back(c)
     /\ UNCHANGED <<lock, cpu, cpus_allowed, curr, requests, done, waiting>>

-----------------------------------------------------------------------------
(* set_cpus_allowed(p, mask).                                              *)

\* A mistake: one that waits in a run queue is.
NotRunning_queued(p) == p # curr[cpu[p]]
NotRunning(p) == ~ InArray(p) /\ p # curr[cpu[p]]

set_cpus_allowed(c, p, mask) ==
  LET r == cpu[p] IN
  /\ At(c, "run") /\ curr[c] \in Setters /\ lock[r] = None /\ cpus_allowed[p] # mask
  /\ cpus_allowed' = [cpus_allowed EXCEPT ![p] = mask]
  /\ IF r \in mask THEN UNCHANGED <<cpu, requests, op>>
     ELSE IF NotRunning(p) THEN cpu' = [cpu EXCEPT ![p] = First(mask)] /\ UNCHANGED <<requests, op>>
     ELSE /\ requests' = [requests EXCEPT ![r] = <<[task |-> p, from |-> curr[c]]>> \o @]
          /\ op' = [op EXCEPT ![c].pc = "wake", ![c].p = MThread(r), ![c].back = "down"]
          /\ UNCHANGED cpu
  /\ UNCHANGED <<lock, q, state, curr, need_resched, done, waiting>>

\* The semaphore is tried again whenever something wakes the caller.
down(c) ==
  LET t == curr[c] IN
  /\ At(c, "down")
  /\ IF t \in done
     THEN done' = done \ {t} /\ waiting' = waiting \ {t} /\ Goto(c, "run") /\ UNCHANGED state
     ELSE /\ waiting' = waiting \cup {t}
          /\ state' = [state EXCEPT ![t] = "UNINTERRUPTIBLE"]
          /\ Goto(c, "sched") /\ UNCHANGED done
  /\ UNCHANGED <<lock, q, cpu, cpus_allowed, curr, need_resched, requests>>

-----------------------------------------------------------------------------
(* migration_thread.                                                       *)

MigrationWait(c) ==
  /\ At(c, "run") /\ curr[c] = MThread(c) /\ lock[c] = None /\ requests[c] = <<>>
  /\ state' = [state EXCEPT ![MThread(c)] = "INTERRUPTIBLE"]
  /\ Goto(c, "sched")
  /\ UNCHANGED <<lock, q, cpu, cpus_allowed, curr, need_resched, requests, done, waiting>>

MigrationTake(c) ==
  /\ At(c, "run") /\ curr[c] = MThread(c) /\ lock[c] = None /\ requests[c] # <<>>
  /\ state' = [state EXCEPT ![MThread(c)] = "INTERRUPTIBLE"]
  /\ requests' = [requests EXCEPT ![c] = Tail(@)]
  /\ op' = [op EXCEPT ![c].pc = "dest", ![c].p = Head(requests[c]).task,
                      ![c].other = Head(requests[c]).from]
  /\ UNCHANGED <<lock, q, cpu, cpus_allowed, curr, need_resched, done, waiting>>

\* cpu_dest, read without a lock, is kept in op[c].n.
MigrationDest(c) ==
  /\ At(c, "dest")
  /\ op' = [op EXCEPT ![c].pc = "lock1", ![c].n = First(cpus_allowed[op[c].p])]
  /\ UNCHANGED <<lock, taskVars, curr, need_resched, requests, done, waiting>>

\* A mistake: the source first.
LockFirst_source(src, dest) == src
LockFirst(src, dest) == IF src < dest THEN src ELSE dest

\* double_rq_lock of rq_src = op[c].rq and rq_dest.
MigrationLock(c) ==
  LET src == cpu[op[c].p]
      l   == LockFirst(src, op[c].n)
  IN /\ At(c, "lock1") /\ lock[l] = None
     /\ lock' = [lock EXCEPT ![l] = c]
     /\ op' = [op EXCEPT ![c].rq = src, ![c].pc = IF src = op[c].n THEN "move" ELSE "lock2"]
     /\ UNCHANGED <<taskVars, curr, need_resched, requests, done, waiting>>

MigrationLock2(c) ==
  \E l \in {op[c].rq, op[c].n} :
    /\ At(c, "lock2") /\ l # LockFirst(op[c].rq, op[c].n) /\ lock[l] = None
    /\ lock' = [lock EXCEPT ![l] = c]
    /\ Goto(c, "move")
    /\ UNCHANGED <<taskVars, curr, need_resched, requests, done, waiting>>

Moves(c, p) == op[c].rq = c /\ cpu[p] = c

MigrationMove(c) ==
  LET p    == op[c].p
      src  == op[c].rq
      dest == op[c].n
  IN /\ At(c, "move")
     /\ lock' = [lock EXCEPT ![src] = None, ![dest] = None]
     /\ cpu' = IF Moves(c, p) THEN [cpu EXCEPT ![p] = dest] ELSE cpu
     /\ q' = IF Moves(c, p) /\ InArray(p) THEN [q EXCEPT ![p] = dest] ELSE q
     /\ Goto(c, IF cpu[p] # src THEN "lock1" ELSE "up")
     /\ UNCHANGED <<state, cpus_allowed, curr, need_resched, requests, done, waiting>>

\* A mistake: only a caller that sleeps already hears of it.
Answered_asleep(t) == IF state[t] = "UNINTERRUPTIBLE" THEN done \cup {t} ELSE done
Answered(t) == done \cup {t}

up(c) ==
  LET t == op[c].other IN
  /\ At(c, "up")
  /\ done' = Answered(t)
  /\ op' = [op EXCEPT ![c] = [Running EXCEPT !.pc = "wake", !.p = t]]
  /\ UNCHANGED <<lock, taskVars, curr, need_resched, requests, waiting>>

-----------------------------------------------------------------------------
Schedule(c) == PutPrev(c) \/ PickNext(c) \/ PickNone(c) \/ AfterBalance(c)
Balance(c) ==
  Ticked(c) \/ BalanceFind(c) \/ BalanceTry(c) \/ BalanceLock(c) \/ BalancePull(c) \/ BalanceEnd(c)
Migrate(c) ==
  \/ MigrationWait(c) \/ MigrationTake(c) \/ MigrationDest(c) \/ MigrationLock(c)
  \/ MigrationLock2(c) \/ MigrationMove(c) \/ up(c)

\* What the kernel on c goes on with once it has begun.
Kernel(c) == Schedule(c) \/ Balance(c) \/ Migrate(c) \/ FastMigrate(c) \/ try_to_wake_up(c) \/ down(c)

Next ==
  \E c \in Cpu :
    \/ Kernel(c) \/ Sleep(c) \/ Preempt(c) \/ Tick(c)
    \/ \E p \in Worker : WakeUp(c, p) \/ \E mask \in (SUBSET Cpu) \ {{}} : set_cpus_allowed(c, p, mask)

Spec == Init /\ [][Next]_vars
\* A CPU goes on with whatever it is at, and gets a lock that is free again and again; it
\* gives way when it is asked to.
FairSpec == Spec /\ \A c \in Cpu : SF_vars(Kernel(c)) /\ WF_vars(Preempt(c))

-----------------------------------------------------------------------------
TypeOK ==
  /\ \A c \in Cpu : lock[c] \in Cpu \cup {None} /\ curr[c] \in Task \cup {Idle} /\ op[c].n \in Nat
  /\ \A p \in Task : /\ q[p] \in Cpu \cup {None} /\ cpu[p] \in Cpu /\ cpus_allowed[p] \subseteq Cpu
                     /\ state[p] \in {"RUNNING", "INTERRUPTIBLE", "UNINTERRUPTIBLE"}
  /\ \A c \in Cpu : \A i \in 1 .. Len(requests[c]) : requests[c][i].from \in Setters

\* Nobody's stack is in use on two CPUs, nor on one that is not the task's own: however
\* wake-ups, balancing and migration meet, a task leaves a CPU before another one runs it.
RunsWhereItIs ==
  \A c \in Cpu : curr[c] # Idle =>
    /\ cpu[curr[c]] = c
    /\ q[curr[c]] = None => ~ At(c, "run")

\* A task is linked in the run queue of its own CPU, so that whoever locks that one may
\* take it out.
LinkedAtHome == \A p \in Task : q[p] # None => q[p] = cpu[p]

\* The inductive invariant of the two, where no task is overdue: the migration thread keeps
\* its CPU while it moves a worker, and a running task that has left its run queue is on
\* its way out, if by load balancing then in its schedule().
Balancing == {"find", "try", "spin", "lock_busiest", "lock_own", "pull", "pulled"}
Migrating == {"dest", "lock1", "lock2", "move"}
Places == Balancing \cup Migrating
          \cup {"run", "sched", "pick", "picked", "ticked", "wake", "down", "up"}
OpRecord ==
  [pc : Places, p : Task \cup {None}, rq : Cpu \cup {None}, other : Task \cup {None}, n : Int,
   back : {"run", "picked", "ticked", "down"}]

Typed ==
  /\ lock \in [Cpu -> Cpu \cup {None}]
  /\ q \in [Task -> Cpu \cup {None}] /\ cpu \in [Task -> Cpu]
  /\ state \in [Task -> {"RUNNING", "INTERRUPTIBLE", "UNINTERRUPTIBLE"}]
  /\ cpus_allowed \in [Task -> (SUBSET Cpu) \ {{}}]
  /\ curr \in [Cpu -> Task \cup {Idle}] /\ need_resched \in [Cpu -> BOOLEAN]
  /\ requests \in [Cpu -> Seq([task : Worker, from : Worker])]
  /\ op \in [Cpu -> OpRecord]

CurrentAtHome == \A c \in Cpu : curr[c] # Idle => cpu[curr[c]] = c
KeepsCPU(c) ==
  /\ op[c].pc \in Migrating => curr[c] = MThread(c) /\ op[c].p \in Worker
  /\ op[c].pc \in Migrating \ {"dest"} => op[c].n \in Cpu
IsLeaving(c) ==
  curr[c] # Idle /\ q[curr[c]] = None
    => \/ op[c].pc \in {"pick", "picked"}
       \/ op[c].pc \in Balancing /\ op[c].back = "picked"

MigrationInv ==
  /\ Typed /\ LinkedAtHome /\ CurrentAtHome
  /\ \A c \in Cpu : KeepsCPU(c) /\ IsLeaving(c)

\* "If there's nothing to run, run the IDLE task", and only then: an idle CPU looks at its
\* run queue again only when it is told to.
IdleNotices ==
  \A c \in Cpu : curr[c] = Idle /\ At(c, "run") /\ nr_running(c) > 0 => need_resched[c]

\* The lock a CPU spins for.
Wants(c) ==
  IF op[c].pc \in {"spin", "lock_busiest"} THEN op[c].rq
  ELSE IF op[c].pc \in {"sched", "lock_own"} THEN c
  ELSE IF At(c, "wake") THEN cpu[op[c].p]
  ELSE IF At(c, "lock1") THEN LockFirst(cpu[op[c].p], op[c].n)
  ELSE IF At(c, "lock2") THEN IF lock[op[c].rq] = c THEN op[c].n ELSE op[c].rq
  ELSE None

\* No two CPUs spin for each other's locks.
NoLockCycle ==
  \A c, d \in Cpu : c # d /\ Wants(c) # None /\ Wants(d) # None
                    => ~ (lock[Wants(c)] = d /\ lock[Wants(d)] = c)

\* Nobody is still at work on the affinity of p.
Settled(p) ==
  \A c \in Cpu : /\ op[c].p # p \/ op[c].other = None
                 /\ \A i \in 1 .. Len(requests[c]) : requests[c][i].task # p

\* "Migrate the process to a proper CPU [...] if the CPU it's executing on is removed from
\* the allowed bitmask": once that is done, a task is where it may be, and stays so.
AffinityKept == \A p \in Task : Settled(p) => cpu[p] \in cpus_allowed[p]

\* Whoever sleeps until a task has been migrated is woken with the semaphore up: no request
\* is lost between the list and the sleep of the migration thread, nor between up and down.
RequestAnswered ==
  \A t \in Setters : t \in waiting ~> (t \notin waiting \/ (t \in done /\ state[t] = "RUNNING"))
=============================================================================
