----------------------------- MODULE SchedProofs -----------------------------
(***************************************************************************)
(* IInv is an invariant of Sched, and with it its type invariant and what  *)
(* SchedSafety says of queues, counters and lost tasks.  Expecting, which  *)
(* says what a task that waits for a child may rely on, is inductive       *)
(* relative to IInv, and SleepersCounted is relative to both: no parent is *)
(* left asleep by what its child has done, and nr_uninterruptible counts   *)
(* the tasks that sleep so.  Inherited, which says what a copy may hold,   *)
(* is inductive relative to IInv as well: whoever is SHORT stays so.  IInv *)
(* alone says enough of a step to keep the overdue tasks in order.  Ahead, *)
(* inductive relative to IInv where nobody is made OTHER again and nobody  *)
(* calls vfork, says that no SHORT task waits behind a lesser one.         *)
(* Supplied, inductive relative to IInv where nobody sets the policy of    *)
(* another task, or nobody becomes SHORT, says that no task but an overdue *)
(* one is without ticks; what the query calls tell a program agrees        *)
(* because of it.                                                          *)
(* TotalTrials never grows, unless a task becomes SHORT, by the same       *)
(* invariants as SHORT for life.                                           *)
(***************************************************************************)
EXTENDS SchedulerProofs, Queries

-----------------------------------------------------------------------------
(* The state.                                                              *)

\* The variables are the fields of the runqueue.
LEMMA Becomes ==
  ASSUME NEW k \in Kernel, Become(k)
  PROVE  K' = k /\ task' = k.task /\ curr' = k.curr
  BY DEF Become, K, Kernel

\* The fields of K are the variables.
LEMMA Current ==
  /\ K.curr = curr /\ K.task = task /\ K.active = active
  /\ (UNCHANGED rqVars => K' = K /\ Become(K))
  BY DEF K, rqVars, Become

\* What IInv says of one task.
LEMMA Facts ==
  ASSUME IInv, NEW p \in Pid
  PROVE  /\ Proper(task[p]) /\ task[p] \in TaskRecord /\ p \in Task /\ curr \in Task
         /\ pc[p] \in {"free", "copy"} => p # curr /\ ~ Queued(p)
         /\ task[p].array = NULL \/ Queued(p)
         /\ CurrQueued(K)
<1>1. Proper(task[p]) /\ task[p] \in TaskRecord /\ p \in Task /\ curr \in Task
  BY Current DEF IInv, Good, Typed, Proper, Task, Kernel
<1>2. pc[p] \in {"free", "copy"} => p # curr
  BY DEF IInv, Located, Hashed
<1>3. pc[p] \in {"free", "copy"} => ~ Queued(p)
  BY <1>2 DEF IInv, Located, NoLostTask
<1>4. task[p].array = NULL \/ Queued(p)
  <2>1. Fits(task[p], active)
    BY Current DEF IInv, Good
  <2> QED BY <2>1 DEF Queued, Enqueued, Fits
<1>5. CurrQueued(K)
  BY Current DEF IInv, Located, NoLostTask, CurrQueued, Hashed, Queued
<1> QED BY <1>1, <1>2, <1>3, <1>4, <1>5

\* In the initial state there are the tasks of Boot, all on one list.
LEMMA BootCount == Cardinality(Booted) = Len(Boot) /\ Booted \subseteq Pid /\ InitTask \in Booted
<1>1. Boot \in Seq(Pid) /\ Len(Boot) \in Nat /\ Len(Boot) > 0 /\ Boot[1] = InitTask
  BY SchedAssumption
<1>2. Booted \subseteq Pid /\ InitTask \in Booted
  BY <1>1 DEF Booted
<1>3. IsFiniteSet(Booted)
  BY <1>2, PidAssumption, FS_Subset
<1>4. Boot \in [1 .. Len(Boot) -> Booted]
  BY <1>1 DEF Booted
<1>5. \A i, j \in 1 .. Len(Boot) : Boot[i] = Boot[j] => i = j
  BY SchedAssumption, SMTT(60)
<1>6. Boot \in Injection(1 .. Len(Boot), Booted)
  BY <1>4, <1>5 DEF Injection, IsInjective
<1>7. Boot \in Surjection(1 .. Len(Boot), Booted)
  BY <1>4 DEF Surjection, Booted
<1>8. Cardinality(1 .. Len(Boot)) = Len(Boot)
  BY <1>1, FS_Interval
<1>9. Cardinality(1 .. Len(Boot)) = Cardinality(Booted)
  BY <1>3, <1>6, <1>7, FS_Injection
<1> QED BY <1>2, <1>8, <1>9

-----------------------------------------------------------------------------
(* Steps that leave the processes alone.                                   *)

\* From the current state to k the current task may have changed its state, some tasks
\* have been woken, and that is all the processes see.
QuietFor(k, q) ==
  \/ /\ q # curr => k.task[q].state = task[q].state
     /\ Enqueued(k.task[q]) <=> Queued(q)
     /\ pc[q] = "copy" => k.task[q].queued = task[q].queued
  \/ k.task[q].state = "RUNNING" /\ Enqueued(k.task[q]) /\ Hashed(q)
Quiet(k) == k.curr = curr /\ \A q \in Pid : QuietFor(k, q)

\* A step that leaves the runqueue alone is quiet.
LEMMA QuietNow == Quiet(K)
  BY Current DEF Quiet, QuietFor, Queued

\* A quiet k stays quiet when its lists move on.
LEMMA QuietCalm ==
  ASSUME IInv, NEW k, Quiet(k), NEW j, Calm(k, j)
  PROVE  Quiet(j)
<1>1. j.curr = curr
  BY DEF Quiet, Calm
<1>2. ASSUME NEW q \in Pid PROVE QuietFor(j, q)
  <2>1. /\ j.task[q].state = k.task[q].state
        /\ Enqueued(j.task[q]) <=> Enqueued(k.task[q])
        /\ Enqueued(k.task[q]) \/ j.task[q].queued = k.task[q].queued
    BY DEF Calm, Task
  <2>2. QuietFor(k, q)
    BY DEF Quiet
  <2>3. pc[q] = "copy" => ~ Queued(q)
    BY Facts
  <2>4. CASE k.task[q].state = "RUNNING" /\ Enqueued(k.task[q]) /\ Hashed(q)
    BY <2>1, <2>4 DEF QuietFor
  <2>5. CASE ~ (k.task[q].state = "RUNNING" /\ Enqueued(k.task[q]) /\ Hashed(q))
    BY <2>1, <2>2, <2>3, <2>5 DEF QuietFor
  <2> QED BY <2>4, <2>5
<1> QED BY <1>1, <1>2 DEF Quiet

\* ... when its policies change,
LEMMA QuietSteady ==
  ASSUME IInv, NEW p \in Pid, Hashed(p), NEW j, Steady(K, j, p)
  PROVE  Quiet(j)
<1>1. ASSUME NEW q \in Pid PROVE QuietFor(j, q)
  <2>1. /\ j.task[q].state = task[q].state
        /\ Enqueued(j.task[q]) <=> Queued(q)
        /\ q # p => Queued(q) \/ j.task[q].queued = task[q].queued
    BY Current DEF Steady, Task, Queued
  <2>2. pc[q] = "copy" => ~ Queued(q) /\ q # p
    BY Facts DEF Hashed
  <2> QED BY <2>1, <2>2 DEF QuietFor
<1> QED BY <1>1, Current DEF Quiet, Steady

\* ... when the current task changes its state,
LEMMA QuietRestated ==
  ASSUME IInv, NEW k, Quiet(k), NEW s, curr \in Pid, Enqueued(k.task[curr]),
         NEW j, Restated(k, j, curr, s)
  PROVE  Quiet(j)
<1>1. j.curr = curr
  BY DEF Quiet, Restated, SameLists
<1>2. ASSUME NEW q \in Pid PROVE QuietFor(j, q)
  <2>1. CASE q = curr
    <3>1. Queued(q) /\ pc[q] # "copy"
      BY <2>1, Facts, Current DEF CurrQueued, Queued
    <3> QED BY <2>1, <3>1 DEF QuietFor, Restated
  <2>2. CASE q # curr
    <3>1. j.task[q] = k.task[q]
      BY <2>2 DEF Restated, Task
    <3> QED BY <3>1 DEF Quiet, QuietFor
  <2> QED BY <2>1, <2>2
<1> QED BY <1>1, <1>2 DEF Quiet

\* ... and when a task is woken.
LEMMA QuietWakes ==
  ASSUME IInv, NEW k, Quiet(k), NEW p \in Pid, Hashed(p), NEW j, Wakes(k, j, p)
  PROVE  Quiet(j)
<1>1. j.curr = curr
  BY DEF Quiet, Wakes
<1>2. ASSUME NEW q \in Pid PROVE QuietFor(j, q)
  <2>1. CASE q = p
    BY <2>1 DEF QuietFor, Wakes
  <2>2. CASE q # p
    <3>1. /\ j.task[q].state = k.task[q].state
          /\ Enqueued(j.task[q]) <=> Enqueued(k.task[q])
          /\ Enqueued(k.task[q]) \/ j.task[q].queued = k.task[q].queued
      BY <2>2 DEF Wakes, Task
    <3>2. QuietFor(k, q)
      BY DEF Quiet
    <3>3. pc[q] = "copy" => ~ Queued(q)
      BY Facts
    <3>4. CASE k.task[q].state = "RUNNING" /\ Enqueued(k.task[q]) /\ Hashed(q)
      BY <3>1, <3>4 DEF QuietFor
    <3>5. CASE ~ (k.task[q].state = "RUNNING" /\ Enqueued(k.task[q]) /\ Hashed(q))
      BY <3>1, <3>2, <3>3, <3>5 DEF QuietFor
    <3> QED BY <3>4, <3>5
  <2> QED BY <2>1, <2>2
<1> QED BY <1>1, <1>2 DEF Quiet

\* The current task stays queued over a quiet operation: it is queued in every state.
LEMMA QuietCurr ==
  ASSUME IInv, NEW k, Quiet(k)
  PROVE  CurrQueued(k)
<1>1. curr \in Pid => Queued(curr)
  BY Facts, Current DEF CurrQueued, Queued
<1> QED BY <1>1 DEF Quiet, QuietFor, CurrQueued

\* Tasks move on in their programs, none comes or goes, and none enters do_fork.
Paced ==
  /\ pc' \in [Pid -> Locations]
  /\ \A q \in Pid : \/ pc'[q] = pc[q] /\ kid'[q] = kid[q]
                    \/ Hashed(q) /\ Hashed(q)' /\ (Forking(q)' => Forking(q) /\ kid'[q] = kid[q])

\* A quiet operation on the runqueue, by a task that moves on in its program, disturbs
\* none of the parts of the invariant.
LEMMA Undisturbed ==
  ASSUME IInv, NEW k, Good(k, {}, 0), Quiet(k), Become(k), Paced
  PROVE  Good(K, {}, 0)' /\ Located' /\ Copied' /\ NoLostTask'
<1>1. k \in Kernel
  BY DEF Good, Typed
<1>2. K' = k /\ task' = k.task /\ curr' = curr
  BY <1>1, Becomes DEF Quiet
<1>3. Good(K, {}, 0)'
  <2>1. Good(K', {}, 0)
    BY <1>2
  <2> QED BY <2>1 DEF Good, Typed, Placed, Members, Runnable
<1>4. \A q \in Pid : /\ Hashed(q)' <=> Hashed(q)
                     /\ pc'[q] = "free" <=> pc[q] = "free"
                     /\ pc'[q] = "copy" <=> pc[q] = "copy"
                     /\ Forking(q)' => Forking(q) /\ kid'[q] = kid[q]
  BY DEF Paced, Hashed, Forking
<1>5. \A q \in Pid : QuietFor(k, q)
  BY DEF Quiet
<1>6. \A q \in Pid : Queued(q)' <=> Enqueued(k.task[q])
  BY <1>2 DEF Queued, Enqueued, is_overdue, is_short
<1>7. Located'
  <2>1. curr' \in Pid => Hashed(curr)'
    BY <1>2, <1>4 DEF IInv, Located
  <2>2. ASSUME NEW q \in Pid, pc'[q] = "free" PROVE task'[q].state = "RUNNING" /\ ~ Queued(q)'
    <3>1. pc[q] = "free" /\ q # curr /\ ~ Queued(q) /\ task[q].state = "RUNNING" /\ ~ Hashed(q)
      BY <1>4, <2>2, Facts DEF IInv, Located, Hashed
    <3> QED BY <1>2, <1>5, <1>6, <3>1 DEF QuietFor
  <2>3. ASSUME NEW q \in Pid, pc'[q] = "copy"
        PROVE  task'[q].state = "UNINTERRUPTIBLE" /\ ~ task'[q].queued
    <3>1. /\ pc[q] = "copy" /\ q # curr /\ task[q].state = "UNINTERRUPTIBLE" /\ ~ task[q].queued
          /\ ~ Hashed(q)
      BY <1>4, <2>3, Facts DEF IInv, Located, Hashed
    <3> QED BY <1>2, <1>5, <3>1 DEF QuietFor
  <2> QED BY <2>1, <2>2, <2>3 DEF Located, Hashed
<1>8. Copied'
  BY <1>4 DEF IInv, Copied
<1>9. NoLostTask'
  <2> SUFFICES ASSUME NEW q \in Pid, pc'[q] # "free"
               PROVE  /\ task'[q].state = "RUNNING" => Queued(q)'
                      /\ Queued(q)' /\ q # curr' => task'[q].state = "RUNNING"
                      /\ q = curr' => Queued(q)'
    BY DEF NoLostTask
  <2>1. /\ task[q].state = "RUNNING" => Queued(q)
        /\ Queued(q) /\ q # curr => task[q].state = "RUNNING"
        /\ q = curr => Queued(q)
    BY <1>4 DEF IInv, NoLostTask
  <2> QED BY <1>2, <1>5, <1>6, <2>1 DEF QuietFor
<1> QED BY <1>3, <1>7, <1>8, <1>9

\* A quiet step that keeps the types preserves the invariant.
LEMMA QuietStep ==
  ASSUME IInv, NEW k, Good(k, {}, 0), Quiet(k), Become(k), Paced, ProcTypes'
  PROVE  IInv'
<1>1. Good(K, {}, 0)' /\ Located' /\ Copied' /\ NoLostTask'
  BY Undisturbed
<1> QED BY <1>1 DEF IInv

\* The processes stay where they are.
LEMMA Stays ==
  ASSUME IInv, UNCHANGED <<pc, procVars, cpuVars, remaining_switches>>
  PROVE  Paced /\ ProcTypes'
<1>1. /\ pc' = pc /\ kid' = kid /\ parent' = parent /\ vfork_done' = vfork_done
      /\ tail' = tail /\ last' = last /\ remaining_switches' = remaining_switches
  BY DEF procVars, cpuVars
<1> QED BY <1>1 DEF IInv, ProcTypes, Paced

\* The running task moves on to l.
LEMMA Moves ==
  ASSUME IInv, NEW p \in Pid, Hashed(p), NEW l \in Locations \ {"free", "copy"},
         l \in {"fork1", "fblock", "fork2"} => Forking(p),
         pc' = [pc EXCEPT ![p] = l], \A q \in Pid \ {p} : kid'[q] = kid[q],
         l \in {"fork1", "fblock", "fork2"} => kid'[p] = kid[p]
  PROVE  Paced
<1>1. pc \in [Pid -> Locations] /\ l \in Locations /\ l # "free" /\ l # "copy"
  BY DEF IInv, ProcTypes
<1>2. pc' \in [Pid -> Locations] /\ pc'[p] = l /\ \A q \in Pid \ {p} : pc'[q] = pc[q]
  BY <1>1
<1>3. Hashed(p)' /\ (Forking(p)' => Forking(p) /\ kid'[p] = kid[p])
  BY <1>1, <1>2 DEF Hashed, Forking
<1> QED BY <1>2, <1>3 DEF Paced

\* The task in a system call runs, and is queued.
LEMMA Running ==
  ASSUME IInv, NEW p \in Pid, p = curr
  PROVE  /\ Hashed(p) /\ Queued(p) /\ Enqueued(K.task[p]) /\ p = K.curr
         /\ Good(K, {}, 0) /\ CurrQueued(K) /\ Proper(task[p]) /\ task[p] \in TaskRecord /\ p \in Task
<1>1. Hashed(p) /\ CurrQueued(K) /\ Proper(task[p]) /\ task[p] \in TaskRecord /\ p \in Task
  BY Facts DEF IInv, Located
<1>2. Queued(p) /\ Enqueued(K.task[p]) /\ p = K.curr
  BY <1>1, Current DEF CurrQueued, Queued
<1> QED BY <1>1, <1>2 DEF IInv

\* A task changes its own state only.
LEMMA StateSet ==
  ASSUME IInv, NEW k, Good(k, {}, 0), Quiet(k), NEW p \in Pid, p = curr, NEW s \in States,
         NEW j, j = SetState(k, p, s)
  PROVE  Good(j, {}, 0) /\ Quiet(j) /\ Restated(k, j, p, s)
<1>1. j = Set(k, p, [k.task[p] EXCEPT !.state = s])
  BY DEF SetState
<1>2. Good(j, {}, 0) /\ Restated(k, j, p, s)
  BY <1>1, StateWritten
<1>3. Enqueued(k.task[curr]) /\ curr \in Pid
  BY QuietCurr DEF CurrQueued, Quiet
<1> QED BY <1>2, <1>3, QuietRestated

-----------------------------------------------------------------------------
(* What a step does to the tasks.                                          *)

\* Only tasks of S change their state or join or leave the queues; the CPU keeps its task.
Touches(S) ==
  /\ curr' = curr
  /\ \A q \in Pid \ S : task'[q].state = task[q].state /\ (Queued(q)' <=> Queued(q))
AsWas == Touches({}) /\ nr_uninterruptible' = nr_uninterruptible

\* p gets the state s where it is.
Sets(p, s) ==
  /\ Touches({p}) /\ nr_uninterruptible' = nr_uninterruptible
  /\ task'[p].state = s /\ (Queued(p)' <=> Queued(p))

\* p is woken, and not counted as a sleeper any more if it was.
Awakens(p) ==
  /\ Touches({p}) /\ task'[p].state = "RUNNING" /\ Queued(p)'
  /\ nr_uninterruptible' = IF Queued(p) THEN nr_uninterruptible
                           ELSE nr_uninterruptible - Sleeper(task[p])

\* The runqueue of the next state, and what it says of who is queued.
LEMMA Arrived ==
  ASSUME NEW k, Good(k, {}, 0), Become(k)
  PROVE  /\ task' = k.task /\ curr' = k.curr /\ Good(K, {}, 0)'
         /\ \A q \in Pid : Queued(q)' <=> Enqueued(k.task[q])
<1>1. k \in Kernel
  BY DEF Good, Typed
<1>2. K' = k /\ task' = k.task /\ curr' = k.curr
  BY <1>1, Becomes
<1>3. Good(K, {}, 0)'
  <2>1. Good(K', {}, 0)
    BY <1>2
  <2> QED BY <2>1 DEF Good, Typed, Placed, Members, Runnable
<1>4. \A q \in Pid : Queued(q)' <=> Enqueued(k.task[q])
  BY <1>2 DEF Queued, Enqueued, is_overdue, is_short
<1> QED BY <1>2, <1>3, <1>4

\* What the processes do not notice leaves them as they were,
LEMMA CalmStep ==
  ASSUME NEW k, Good(k, {}, 0), Become(k), Calm(K, k)
  PROVE  AsWas
<1>1. task' = k.task /\ curr' = k.curr /\ \A q \in Pid : Queued(q)' <=> Enqueued(k.task[q])
  BY Arrived
<1>2. nr_uninterruptible' = k.nr_uninterruptible /\ K.nr_uninterruptible = nr_uninterruptible
  BY DEF Become, K
<1>3. ASSUME NEW q \in Pid
      PROVE  k.task[q].state = task[q].state /\ (Enqueued(k.task[q]) <=> Queued(q))
  BY Current DEF Calm, Task, Queued
<1>4. k.curr = curr /\ k.nr_uninterruptible = nr_uninterruptible
  BY <1>2, Current DEF Calm
<1> QED BY <1>1, <1>2, <1>3, <1>4 DEF AsWas, Touches

\* ... a new state is one for its task only,
LEMMA RestatedStep ==
  ASSUME NEW k, Good(k, {}, 0), Become(k), NEW p \in Pid, NEW s, Restated(K, k, p, s)
  PROVE  Sets(p, s)
<1>1. task' = k.task /\ curr' = k.curr /\ \A q \in Pid : Queued(q)' <=> Enqueued(k.task[q])
  BY Arrived
<1>2. nr_uninterruptible' = k.nr_uninterruptible /\ K.nr_uninterruptible = nr_uninterruptible
  BY DEF Become, K
<1>3. ASSUME NEW q \in Pid
      PROVE  /\ q # p => k.task[q].state = task[q].state
             /\ Enqueued(k.task[q]) <=> Queued(q)
  BY Current DEF Restated, Task, Queued
<1>4. k.curr = curr /\ k.nr_uninterruptible = nr_uninterruptible /\ k.task[p].state = s
  BY <1>2, Current DEF Restated, SameLists
<1> QED BY <1>1, <1>2, <1>3, <1>4 DEF Sets, Touches

\* ... and so is a wake-up.
LEMMA WakesStep ==
  ASSUME NEW k, Good(k, {}, 0), Become(k), NEW p \in Pid, Wakes(K, k, p),
         k.nr_uninterruptible = IF Enqueued(K.task[p]) THEN K.nr_uninterruptible
                                ELSE K.nr_uninterruptible - Sleeper(K.task[p])
  PROVE  Awakens(p)
<1>1. task' = k.task /\ curr' = k.curr /\ \A q \in Pid : Queued(q)' <=> Enqueued(k.task[q])
  BY Arrived
<1>2. nr_uninterruptible' = k.nr_uninterruptible /\ K.nr_uninterruptible = nr_uninterruptible
      /\ K.task[p] = task[p] /\ (Enqueued(K.task[p]) <=> Queued(p))
  BY DEF Become, K, Queued
<1>3. ASSUME NEW q \in Pid \ {p}
      PROVE  k.task[q].state = task[q].state /\ (Enqueued(k.task[q]) <=> Queued(q))
  BY Current DEF Wakes, Task, Queued
<1>4. k.curr = curr /\ k.task[p].state = "RUNNING" /\ Enqueued(k.task[p])
  BY Current DEF Wakes
<1>5. nr_uninterruptible' = IF Queued(p) THEN nr_uninterruptible
                            ELSE nr_uninterruptible - Sleeper(task[p])
  BY <1>2
<1> QED BY <1>1, <1>3, <1>4, <1>5 DEF Awakens, Touches

-----------------------------------------------------------------------------
(* Interrupts, and the tail of schedule().                                 *)

\* A timer interrupt: scheduler_tick is quiet, and no process moves.
LEMMA TickStep ==
  ASSUME IInv, Tick
  PROVE  IInv' /\ AsWas
<1>1. PICK prio \in effective_prio(task[curr]), stay \in Interactive :
        Become(scheduler_tick(K, prio, stay))
  BY DEF Tick
<1>2. PICK k : k = scheduler_tick(K, prio, stay)
  OBVIOUS
<1>3. task[curr] \in TaskRecord
  BY Current DEF IInv, Good, Typed, Kernel
<1>4. prio \in UserPrio /\ stay \in BOOLEAN /\ Good(K, {}, 0) /\ CurrQueued(K)
  <2>1. CurrQueued(K)
    BY QuietNow, QuietCurr
  <2>2. prio \in UserPrio
    BY <1>3, EffectivePrio
  <2>3. stay \in BOOLEAN
    BY SchedAssumption
  <2> QED BY <2>1, <2>2, <2>3 DEF IInv
<1>5. Good(k, {}, 0) /\ Calm(K, k)
  BY <1>2, <1>4, SchedulerTick
<1>6. Quiet(k)
  BY <1>5, QuietNow, QuietCalm
<1>7. Paced /\ ProcTypes'
  BY Stays DEF Tick
<1> QED BY <1>1, <1>2, <1>5, <1>6, <1>7, QuietStep, CalmStep

\* A wake-up: the task it queues is there, so it may be queued and RUNNING.
LEMMA WakeUpStep ==
  ASSUME IInv, NEW p \in Pid, WakeUp(p)
  PROVE  IInv' /\ Awakens(p)
<1>1. PICK prio \in ActivationPrios(task[p]) : Become(try_to_wake_up(K, p, prio))
  BY DEF WakeUp
<1>2. PICK k : k = try_to_wake_up(K, p, prio)
  OBVIOUS
<1>3. Hashed(p)
  <2>1. pc[p] # "copy" /\ task[p].state # "RUNNING"
    BY DEF WakeUp
  <2> QED BY <2>1 DEF IInv, Located, Hashed
<1>4. FitPrio(K.task[p], prio)
  BY Facts, Current, ActivationPrio
<1>5. /\ Good(k, {}, 0) /\ Wakes(K, k, p)
      /\ k.nr_uninterruptible = IF Enqueued(K.task[p]) THEN K.nr_uninterruptible
                                ELSE K.nr_uninterruptible - Sleeper(K.task[p])
  <2>1. K.curr \in Pid => Enqueued(K.task[K.curr])
    BY QuietNow, QuietCurr DEF CurrQueued
  <2>2. Good(K, {}, 0)
    BY DEF IInv
  <2> QED BY <1>2, <1>4, <2>1, <2>2, TryToWakeUp
<1>6. Quiet(k)
  BY <1>3, <1>5, QuietNow, QuietWakes
<1>7. Paced /\ ProcTypes'
  BY Stays DEF WakeUp
<1> QED BY <1>1, <1>2, <1>5, <1>6, <1>7, QuietStep, WakesStep

\* The need_resched test at the end of schedule() changes no task.
LEMMA TailCheckStep ==
  ASSUME IInv, TailCheck
  PROVE  IInv' /\ AsWas
<1>1. Become(K) /\ pc' = pc /\ kid' = kid /\ parent' = parent /\ vfork_done' = vfork_done
      /\ tail' = "clear" /\ last' = last /\ remaining_switches' = remaining_switches /\ tail = "check"
  BY Current DEF TailCheck, procVars
<1>2. Paced /\ ProcTypes'
  BY <1>1 DEF IInv, ProcTypes, Paced
<1>3. Good(K, {}, 0)
  BY DEF IInv
<1>4. Calm(K, K)
  BY DEF Calm
<1> QED BY <1>1, <1>2, <1>3, <1>4, QuietNow, QuietStep, CalmStep

\* Resetting the switch_reason of the task switched from moves no task.
LEMMA TailClearStep ==
  ASSUME IInv, TailClear
  PROVE  IInv' /\ AsWas
<1>1. /\ Become(UPDATE_REASON(K, last, UNKNOWN)) /\ pc' = pc /\ kid' = kid /\ parent' = parent
      /\ vfork_done' = vfork_done /\ tail' = "none" /\ last' = None
      /\ remaining_switches' = remaining_switches /\ tail = "clear"
  BY DEF TailClear, procVars
<1>2. Paced /\ ProcTypes'
  BY <1>1 DEF IInv, ProcTypes, Paced
<1>3. PICK k : k = UPDATE_REASON(K, last, UNKNOWN)
  OBVIOUS
<1>4. last \in Task /\ Good(K, {}, 0) /\ UNKNOWN \in 0 .. 7 /\ {} \in SUBSET Pid
  BY <1>1 DEF IInv, ProcTypes, UNKNOWN
<1>5. Good(k, {}, 0) /\ Apart(K, k, last) /\ SamePlace(k.task[last], K.task[last])
  BY <1>3, <1>4, UpdateReason
<1>6. Calm(K, k)
  BY <1>4, <1>5, SamePlaceQueued, ApartCalm
<1>7. Quiet(k)
  BY <1>6, QuietNow, QuietCalm
<1> QED BY <1>1, <1>2, <1>3, <1>5, <1>6, <1>7, QuietStep, CalmStep

-----------------------------------------------------------------------------
(* System calls that change no more than states and lists.                 *)

\* The running task has left for l, with the runqueue k.
LEMMA CallStep ==
  ASSUME IInv, NEW p \in Pid, p = curr, NEW l \in Locations \ {"free", "copy"},
         l \in {"fork1", "fblock", "fork2"} => Forking(p),
         pc' = [pc EXCEPT ![p] = l], UNCHANGED <<procVars, cpuVars, remaining_switches>>,
         NEW k, Good(k, {}, 0), Quiet(k), Become(k)
  PROVE  IInv'
<1>1. /\ kid' = kid /\ parent' = parent /\ vfork_done' = vfork_done
      /\ tail' = tail /\ last' = last /\ remaining_switches' = remaining_switches
  BY DEF procVars, cpuVars
<1>2. Paced
  BY <1>1, Running, Moves
<1>3. ProcTypes'
  BY <1>1, <1>2 DEF IInv, ProcTypes, Paced
<1> QED BY <1>2, <1>3, QuietStep

\* A task about to sleep sets its state and calls schedule().
LEMMA SleepStep ==
  ASSUME IInv, NEW p \in Pid,
         Sleep(p) \/ ForkBlock(p) \/ VforkBlock(p) \/ ExitBlock(p) \/ WaitEnter(p)
  PROVE  IInv' /\ (Sets(p, "INTERRUPTIBLE") \/ Sets(p, "UNINTERRUPTIBLE"))
<1>1. /\ p = curr /\ UNCHANGED <<procVars, cpuVars, remaining_switches>>
      /\ \E s \in {"INTERRUPTIBLE", "UNINTERRUPTIBLE"} : Become(SetState(K, p, s))
      /\ \E l \in {"block", "fblock", "vblock", "eblock", "scan"} :
           pc' = [pc EXCEPT ![p] = l] /\ (l = "fblock" => pc[p] = "fork1")
  <2>1. CASE Sleep(p)
    BY <2>1 DEF Sleep, Call, At
  <2>2. CASE ForkBlock(p)
    BY <2>2 DEF ForkBlock, At
  <2>3. CASE VforkBlock(p)
    BY <2>3 DEF VforkBlock, At
  <2>4. CASE ExitBlock(p)
    BY <2>4 DEF ExitBlock, At
  <2>5. CASE WaitEnter(p)
    BY <2>5 DEF WaitEnter, Call, At
  <2> QED BY <2>1, <2>2, <2>3, <2>4, <2>5
<1>2. PICK s \in {"INTERRUPTIBLE", "UNINTERRUPTIBLE"} : Become(SetState(K, p, s))
  BY <1>1
<1>3. PICK l \in {"block", "fblock", "vblock", "eblock", "scan"} :
           pc' = [pc EXCEPT ![p] = l] /\ (l = "fblock" => pc[p] = "fork1")
  BY <1>1
<1>4. l \in Locations \ {"free", "copy"} /\ (l \in {"fork1", "fblock", "fork2"} => Forking(p))
  BY <1>3 DEF Locations, Forking
<1>5. PICK k : k = SetState(K, p, s)
  OBVIOUS
<1>6. Good(k, {}, 0) /\ Quiet(k) /\ Restated(K, k, p, s)
  <2>1. s \in States
    BY DEF States
  <2> QED BY <1>1, <1>5, <2>1, Running, QuietNow, StateSet
<1>7. Sets(p, s)
  BY <1>2, <1>5, <1>6, RestatedStep
<1>8. IInv'
  BY <1>1, <1>2, <1>3, <1>4, <1>5, <1>6, CallStep
<1> QED BY <1>7, <1>8

\* A task that goes on without touching the runqueue.
LEMMA GoOnStep ==
  ASSUME IInv, NEW p \in Pid, YieldShort(p) \/ WaitBlock(p)
  PROVE  IInv' /\ AsWas
<1>1. /\ p = curr /\ UNCHANGED <<procVars, cpuVars, remaining_switches>> /\ UNCHANGED rqVars
      /\ \E l \in {"hang", "wblock"} : pc' = [pc EXCEPT ![p] = l]
  BY DEF YieldShort, WaitBlock, Call, At
<1>2. PICK l \in {"hang", "wblock"} : pc' = [pc EXCEPT ![p] = l]
  BY <1>1
<1>3. l \in Locations \ {"free", "copy"} /\ l \notin {"fork1", "fblock", "fork2"}
  BY DEF Locations
<1>4. Become(K) /\ Good(K, {}, 0)
  BY <1>1, Current DEF IInv
<1>5. Calm(K, K)
  BY DEF Calm
<1> QED BY <1>1, <1>2, <1>3, <1>4, <1>5, QuietNow, CallStep, CalmStep

\* The end of a system call.
LEMMA ReturnStep ==
  ASSUME IInv, NEW p \in Pid, p = curr, NEW k, Good(k, {}, 0), Quiet(k), Become(k), Return(k, p),
         UNCHANGED <<procVars, cpuVars, remaining_switches>>
  PROVE  IInv'
<1>1. PICK l \in {"ret", "run"} : pc' = [pc EXCEPT ![p] = l]
  BY DEF Return
<1>2. l \in Locations \ {"free", "copy"} /\ l \notin {"fork1", "fblock", "fork2"}
  BY DEF Locations
<1> QED BY <1>1, <1>2, CallStep

\* A parent leaving sys_wait4 sets itself RUNNING: it is queued, being current.
LEMMA WaitReturnStep ==
  ASSUME IInv, NEW p \in Pid, WaitReturn(p)
  PROVE  IInv' /\ Sets(p, "RUNNING")
<1>1. PICK k : k = SetState(K, p, "RUNNING")
  OBVIOUS
<1>2. p = curr /\ Become(k) /\ Return(k, p) /\ UNCHANGED <<procVars, cpuVars, remaining_switches>>
  BY <1>1 DEF WaitReturn, At
<1>3. Good(k, {}, 0) /\ Quiet(k) /\ Restated(K, k, p, "RUNNING")
  <2>1. "RUNNING" \in States
    BY DEF States
  <2> QED BY <1>1, <1>2, <2>1, Running, QuietNow, StateSet
<1> QED BY <1>2, <1>3, ReturnStep, RestatedStep

\* The numbers sched_setscheduler is called with.
LEMMA Arguments ==
  ASSUME NEW r \in Requests, NEW n \in Trials
  PROVE  r \in Nat /\ n \in Nat
<1>1. r \in 1 .. 5000
  BY SchedAssumption, SMTT(60)
<1>2. n \in 1 .. 50
  BY SchedAssumption, SMTT(60)
<1> QED BY <1>1, <1>2

\* sched_setscheduler: the lists follow the policy and the priority it gives.
LEMMA SetSchedulerStep ==
  ASSUME IInv, NEW p \in Pid, SetScheduler(p)
  PROVE  IInv' /\ Touches({}) /\ (task[p].state = "RUNNING" => AsWas)
<1>1. PICK q \in Pid, policy \in NewPolicies, rt_priority \in 0 .. MAX_USER_RT_PRIO - 1,
           requested_time \in Requests, trials \in Trials :
        LET new == WithPolicy(task[q], policy, rt_priority, requested_time, trials)
        IN /\ Call(p, IF p = q THEN "setscheduler" ELSE "setscheduler_other")
           /\ Hashed(q)
           /\ MaySetScheduler(task[q], policy, rt_priority, requested_time, trials)
           /\ \E prio \in ActivationPrios(new) :
                LET k == setscheduler(K, q, new, prio) IN Become(k) /\ Return(k, p)
           /\ UNCHANGED <<procVars, cpuVars, remaining_switches>>
  BY DEF SetScheduler
<1>2. PICK new : new = WithPolicy(task[q], policy, rt_priority, requested_time, trials)
  OBVIOUS
<1>3. PICK prio \in ActivationPrios(new) :
        Become(setscheduler(K, q, new, prio)) /\ Return(setscheduler(K, q, new, prio), p)
  BY <1>1, <1>2
<1>4. PICK k : k = setscheduler(K, q, new, prio)
  OBVIOUS
<1>5. /\ p = curr /\ Hashed(q) /\ UNCHANGED <<procVars, cpuVars, remaining_switches>>
      /\ MaySetScheduler(task[q], policy, rt_priority, requested_time, trials)
  BY <1>1 DEF Call, At
<1>6. policy \in Policies \cup {KEEP} /\ requested_time \in Nat /\ trials \in Nat
  <2>1. policy \in Policies \cup {KEEP}
    BY SchedAssumption, SMTT(60)
  <2>2. requested_time \in Nat /\ trials \in Nat
    BY Arguments
  <2> QED BY <2>1, <2>2
<1>7. /\ Proper(new) /\ new.array = task[q].array /\ new.queued = task[q].queued
      /\ new.state = task[q].state
      /\ is_overdue(new) <=> is_overdue(task[q])
      /\ is_overdue(new) => new.policy = task[q].policy
  <2>1. PICK t : t = task[q]
    OBVIOUS
  <2>2. Proper(t) /\ MaySetScheduler(t, policy, rt_priority, requested_time, trials)
        /\ new = WithPolicy(t, policy, rt_priority, requested_time, trials)
    BY <1>2, <1>5, <2>1, Facts
  <2>3. /\ Proper(new) /\ new.array = t.array /\ new.queued = t.queued /\ new.state = t.state
        /\ is_overdue(new) <=> is_overdue(t)
        /\ is_overdue(new) => new.policy = t.policy
    BY <1>6, <2>2, PolicyWritten
  <2> QED BY <2>1, <2>3
<1>8. FitPrio(new, prio)
  BY <1>7, ActivationPrio
<1>9. /\ Good(k, {}, 0) /\ Steady(K, k, q)
      /\ (Queued(q) => task[q].state # "UNINTERRUPTIBLE") => k.nr_uninterruptible = nr_uninterruptible
  <2>1. Good(K, {}, 0) /\ CurrQueued(K) /\ K.task[q] = task[q]
    BY <1>5, Running, Current
  <2>2. /\ Good(k, {}, 0) /\ Steady(K, k, q)
        /\ (Enqueued(K.task[q]) => K.task[q].state # "UNINTERRUPTIBLE")
             => k.nr_uninterruptible = K.nr_uninterruptible
    BY <1>4, <1>7, <1>8, <2>1, SchedulerSet
  <2>3. K.nr_uninterruptible = nr_uninterruptible
    BY DEF K
  <2> QED BY <2>1, <2>2, <2>3 DEF Queued
<1>10. Quiet(k)
  BY <1>5, <1>9, QuietSteady
<1>11. Touches({})
  <2>1. task' = k.task /\ curr' = k.curr /\ \A r \in Pid : Queued(r)' <=> Enqueued(k.task[r])
    BY <1>3, <1>4, <1>9, Arrived
  <2>2. ASSUME NEW r \in Pid
        PROVE  k.task[r].state = task[r].state /\ (Enqueued(k.task[r]) <=> Queued(r))
    BY <1>9, Current DEF Steady, Task, Queued
  <2>3. k.curr = curr
    BY <1>9, Current DEF Steady
  <2> QED BY <2>1, <2>2, <2>3 DEF Touches
<1>12. task[p].state = "RUNNING" => AsWas
  <2>1. nr_uninterruptible' = k.nr_uninterruptible
    BY <1>3, <1>4 DEF Become
  <2>2. Queued(q) /\ task[p].state = "RUNNING" => task[q].state # "UNINTERRUPTIBLE"
    BY <1>5 DEF IInv, NoLostTask, Hashed
  <2> QED BY <1>9, <1>11, <2>1, <2>2 DEF AsWas
<1>13. IInv'
  BY <1>3, <1>4, <1>5, <1>9, <1>10, ReturnStep
<1> QED BY <1>11, <1>12, <1>13

\* nice: the task goes to the list of its new priority.
LEMMA NiceStep ==
  ASSUME IInv, NEW p \in Pid, Nice(p)
  PROVE  IInv' /\ AsWas
<1>1. PICK q \in Pid, prio \in NicePrios :
        LET k == set_user_nice(K, q, prio)
        IN /\ Call(p, IF p = q THEN "nice" ELSE "nice_other")
           /\ Hashed(q) /\ Become(k) /\ Return(k, p)
           /\ UNCHANGED <<procVars, cpuVars, remaining_switches>>
  BY DEF Nice
<1>2. PICK k : k = set_user_nice(K, q, prio)
  OBVIOUS
<1>3. /\ p = curr /\ Become(k) /\ Return(k, p)
      /\ UNCHANGED <<procVars, cpuVars, remaining_switches>>
  BY <1>1, <1>2 DEF Call, At
<1>4. Good(k, {}, 0) /\ Calm(K, k)
  <2>1. Good(K, {}, 0) /\ CurrQueued(K) /\ prio \in UserPrio
    BY <1>3, Running, SchedAssumption
  <2> QED BY <1>2, <2>1, NiceSet
<1>5. Quiet(k)
  BY <1>4, QuietNow, QuietCalm
<1> QED BY <1>3, <1>4, <1>5, ReturnStep, CalmStep

\* sched_yield moves the current task, and no other, within the queues.
LEMMA YieldStep ==
  ASSUME IInv, NEW p \in Pid, Yield(p)
  PROVE  IInv' /\ AsWas
<1>1. PICK k : k = sys_sched_yield(K, p)
  OBVIOUS
<1>2. /\ p = curr /\ ~ is_short(task[p]) /\ Become(k) /\ pc' = [pc EXCEPT ![p] = "yield"]
      /\ UNCHANGED <<procVars, cpuVars, remaining_switches>>
  BY <1>1 DEF Yield, Call, At
<1>3. Good(k, {}, 0) /\ Calm(K, k)
  <2>1. Good(K, {}, 0) /\ Enqueued(K.task[p]) /\ ~ is_short(K.task[p])
    BY <1>2, Running, Current
  <2> QED BY <1>1, <2>1, Yielded
<1>4. Quiet(k)
  BY <1>3, QuietNow, QuietCalm
<1>5. "yield" \in Locations \ {"free", "copy"}
  BY DEF Locations
<1> QED BY <1>2, <1>3, <1>4, <1>5, CallStep, CalmStep

-----------------------------------------------------------------------------
(* Waking a parent.                                                        *)

\* From k to j the waiter q was woken, if it slept at l in state s.
Roused(k, j, q, l, s) ==
  \/ ~ (q # None /\ pc[q] = l /\ k.task[q].state = s) /\ j = k
  \/ /\ q \in Pid /\ pc[q] = l /\ k.task[q].state = s /\ Wakes(k, j, q)
     /\ j.nr_uninterruptible = IF Enqueued(k.task[q]) THEN k.nr_uninterruptible
                               ELSE k.nr_uninterruptible - Sleeper(k.task[q])

\* Whoever is waited for at l by q wakes it, if it sleeps there in state s.
LEMMA WaiterWoken ==
  ASSUME IInv, NEW k, Good(k, {}, 0), Quiet(k), NEW q \in Pid \cup {None},
         NEW l \in {"vwait", "wait"}, NEW s, NEW prio \in WaiterPrios(q),
         q \in Pid => k.task[q].policy = task[q].policy,
         NEW j, j = WakeWaiter(k, q, l, s, prio)
  PROVE  /\ Good(j, {}, 0) /\ Quiet(j)
         /\ \A p \in Pid : j.task[p].policy = k.task[p].policy
         /\ Roused(k, j, q, l, s)
<1>1. CASE ~ (q # None /\ pc[q] = l /\ k.task[q].state = s)
  BY <1>1 DEF WakeWaiter, Roused
<1>2. CASE q # None /\ pc[q] = l /\ k.task[q].state = s
  <2>1. q \in Pid /\ Hashed(q) /\ prio \in ActivationPrios(task[q])
    BY <1>2 DEF Hashed, WaiterPrios
  <2>2. FitPrio(k.task[q], prio)
    <3>1. FitPrio(task[q], prio)
      BY <2>1, Facts, ActivationPrio
    <3> QED BY <2>1, <3>1 DEF FitPrio
  <2>3. k.curr \in Pid => Enqueued(k.task[k.curr])
    BY QuietCurr DEF CurrQueued
  <2>4. j = try_to_wake_up(k, q, prio)
    BY <1>2 DEF WakeWaiter
  <2>5. /\ Good(j, {}, 0) /\ Wakes(k, j, q)
        /\ j.nr_uninterruptible = IF Enqueued(k.task[q]) THEN k.nr_uninterruptible
                                  ELSE k.nr_uninterruptible - Sleeper(k.task[q])
    BY <2>1, <2>2, <2>3, <2>4, TryToWakeUp
  <2>6. Quiet(j)
    BY <2>1, <2>5, QuietWakes
  <2>7. Roused(k, j, q, l, s)
    BY <1>2, <2>1, <2>5 DEF Roused
  <2> QED BY <2>5, <2>6, <2>7 DEF Wakes, Task
<1> QED BY <1>1, <1>2

\* A sleeper in the state INTERRUPTIBLE is woken without being uncounted, and alone.
LEMMA RousedTask ==
  ASSUME NEW k, Good(k, {}, 0), NEW j, NEW q, NEW l, Roused(k, j, q, l, "INTERRUPTIBLE")
  PROVE  /\ j.curr = k.curr /\ j.nr_uninterruptible = k.nr_uninterruptible
         /\ \A r \in Pid : IF r = q /\ pc[r] = l /\ k.task[r].state = "INTERRUPTIBLE"
                           THEN j.task[r].state = "RUNNING"
                           ELSE j.task[r].state = k.task[r].state
                                /\ (Enqueued(j.task[r]) <=> Enqueued(k.task[r]))
<1>1. CASE ~ (q # None /\ pc[q] = l /\ k.task[q].state = "INTERRUPTIBLE") /\ j = k
  BY <1>1, SchedAssumption DEF Task
<1>2. CASE /\ q \in Pid /\ pc[q] = l /\ k.task[q].state = "INTERRUPTIBLE" /\ Wakes(k, j, q)
           /\ j.nr_uninterruptible = IF Enqueued(k.task[q]) THEN k.nr_uninterruptible
                                     ELSE k.nr_uninterruptible - Sleeper(k.task[q])
  <2>1. Sleeper(k.task[q]) = 0
    BY <1>2 DEF Sleeper
  <2>2. k.nr_uninterruptible \in Int
    BY DEF Good, Typed, Kernel
  <2>3. j.nr_uninterruptible = k.nr_uninterruptible
    BY <1>2, <2>1, <2>2
  <2> QED BY <1>2, <2>3 DEF Wakes, Task
<1> QED BY <1>1, <1>2 DEF Roused

\* p tells its vfork parent, which is woken if it sleeps for that.
Tells(p) ==
  LET w == vfork_done[p]
  IN  IF w \in Pid /\ pc[w] = "vwait" /\ task[w].state = "UNINTERRUPTIBLE" THEN Awakens(w) ELSE AsWas

\* A task gives the memory of its vfork parent back.
LEMMA MmReleased ==
  ASSUME IInv, NEW p \in Pid, mm_release(p)
  PROVE  /\ \E k : Good(k, {}, 0) /\ Quiet(k) /\ Become(k)
         /\ vfork_done' \in [Pid -> Pid \cup {None}]
         /\ Tells(p)
<1>1. PICK prio \in WaiterPrios(vfork_done[p]) :
        Become(WakeWaiter(K, vfork_done[p], "vwait", "UNINTERRUPTIBLE", prio))
  BY DEF mm_release
<1>2. PICK k : k = WakeWaiter(K, vfork_done[p], "vwait", "UNINTERRUPTIBLE", prio)
  OBVIOUS
<1>3. PICK q : q = vfork_done[p]
  OBVIOUS
<1>4. q \in Pid \cup {None} /\ Good(K, {}, 0) /\ Quiet(K)
  BY <1>3, QuietNow DEF IInv, ProcTypes
<1>5. q \in Pid => K.task[q].policy = task[q].policy
  BY Current
<1>6. k = WakeWaiter(K, q, "vwait", "UNINTERRUPTIBLE", prio) /\ prio \in WaiterPrios(q)
  BY <1>2, <1>3
<1>7. Good(k, {}, 0) /\ Quiet(k) /\ Roused(K, k, q, "vwait", "UNINTERRUPTIBLE")
  BY <1>4, <1>5, <1>6, WaiterWoken
<1>8. vfork_done' = [vfork_done EXCEPT ![p] = None] /\ vfork_done \in [Pid -> Pid \cup {None}]
  BY DEF mm_release, IInv, ProcTypes
<1>9. Tells(p)
  <2>1. CASE ~ (q # None /\ pc[q] = "vwait" /\ K.task[q].state = "UNINTERRUPTIBLE") /\ k = K
    <3>1. Calm(K, K) /\ None \notin Pid
      BY SchedAssumption DEF Calm, Task
    <3>2. AsWas
      BY <1>1, <1>2, <1>7, <2>1, <3>1, CalmStep
    <3> QED BY <1>3, <2>1, <3>1, <3>2, Current DEF Tells
  <2>2. CASE /\ q \in Pid /\ pc[q] = "vwait" /\ K.task[q].state = "UNINTERRUPTIBLE" /\ Wakes(K, k, q)
             /\ k.nr_uninterruptible = IF Enqueued(K.task[q]) THEN K.nr_uninterruptible
                                       ELSE K.nr_uninterruptible - Sleeper(K.task[q])
    <3>1. Awakens(q)
      BY <1>1, <1>2, <1>7, <2>2, WakesStep
    <3> QED BY <1>3, <2>2, <3>1, Current DEF Tells
  <2> QED BY <1>7, <2>1, <2>2 DEF Roused
<1> QED BY <1>1, <1>2, <1>7, <1>8, <1>9

\* exec leaves the memory of the parent and wakes the one that waits for that.
LEMMA ExecStep ==
  ASSUME IInv, NEW p \in Pid, Exec(p)
  PROVE  IInv' /\ Tells(p)
<1>1. /\ mm_release(p) /\ pc' = pc /\ kid' = kid /\ parent' = parent
      /\ tail' = tail /\ last' = last /\ remaining_switches' = remaining_switches
  BY DEF Exec, cpuVars
<1>2. PICK k : Good(k, {}, 0) /\ Quiet(k) /\ Become(k)
  BY <1>1, MmReleased
<1>3. vfork_done' \in [Pid -> Pid \cup {None}] /\ Tells(p)
  BY <1>1, MmReleased
<1>4. Paced /\ ProcTypes'
  BY <1>1, <1>3 DEF IInv, ProcTypes, Paced
<1> QED BY <1>2, <1>3, <1>4, QuietStep

\* exit does the same, and goes on to exit_notify.
LEMMA ExitBeginStep ==
  ASSUME IInv, NEW p \in Pid, ExitBegin(p)
  PROVE  IInv' /\ Tells(p)
<1>1. /\ mm_release(p) /\ pc' = [pc EXCEPT ![p] = "exit1"] /\ kid' = kid /\ parent' = parent
      /\ tail' = tail /\ last' = last /\ remaining_switches' = LOG_SWITCHES /\ p = curr
  BY DEF ExitBegin, cpuVars, Call, At
<1>2. PICK k : Good(k, {}, 0) /\ Quiet(k) /\ Become(k)
  BY <1>1, MmReleased
<1>3. vfork_done' \in [Pid -> Pid \cup {None}] /\ Tells(p)
  BY <1>1, MmReleased
<1>4. "exit1" \in Locations \ {"free", "copy"}
  BY DEF Locations
<1>5. Paced
  BY <1>1, <1>4, Running, Moves
<1>6. LOG_SWITCHES \in 0 .. LOG_SWITCHES
  BY SchedAssumption
<1>7. ProcTypes'
  BY <1>1, <1>3, <1>5, <1>6 DEF IInv, ProcTypes, Paced
<1> QED BY <1>2, <1>3, <1>5, <1>7, QuietStep

\* A reason for a switch is noted.
LEMMA ReasonGiven ==
  ASSUME NEW k, NEW n \in Int, Good(k, {}, n), NEW p \in Task, NEW res \in 0 .. 7,
         NEW j, j = UPDATE_REASON(k, p, res)
  PROVE  Good(j, {}, n) /\ Calm(k, j)
<1>1. {} \in SUBSET Pid
  OBVIOUS
<1>2. Good(j, {}, n) /\ Apart(k, j, p) /\ SamePlace(j.task[p], k.task[p])
  BY <1>1, UpdateReason
<1> QED BY <1>2, SamePlaceQueued, ApartCalm

\* A task_struct that loses the claim on its slice is still one.
LEMMA ClaimLost ==
  ASSUME NEW t \in TaskRecord, NEW u, u = [t EXCEPT !.first_time_slice = FALSE]
  PROVE  u \in TaskRecord
BY ZenonT(30) DEF TaskRecord

\* Orphans stay where they are queued.
LEMMA Orphaned ==
  ASSUME NEW k, NEW n \in Int, Good(k, {}, n), NEW S \in SUBSET Pid,
         NEW j, j = forget_original_parent(k, S)
  PROVE  Good(j, {}, n) /\ Calm(k, j)
<1>1. k \in Kernel /\ k.task \in [Task -> TaskRecord] /\ Pid \subseteq Task
      /\ Idle \in Task /\ Idle \notin Pid
  BY PidAssumption DEF Good, Typed, Kernel, Task
<1>2. SameLists(k, j) /\ j \in Kernel
      /\ j.task = [q \in Task |-> IF q \in S THEN [k.task[q] EXCEPT !.first_time_slice = FALSE]
                                  ELSE k.task[q]]
  <2>1. ASSUME NEW q \in Task PROVE [k.task[q] EXCEPT !.first_time_slice = FALSE] \in TaskRecord
    <3>1. k.task[q] \in TaskRecord
      BY <1>1
    <3> QED BY <3>1, ClaimLost
  <2> QED BY <1>1, <2>1 DEF forget_original_parent, SameLists, Kernel
<1>3. j.task[Idle] = k.task[Idle]
  BY <1>1, <1>2
<1>4. \A q \in Task : /\ SamePlace(j.task[q], k.task[q])
                      /\ j.task[q].state = k.task[q].state
                      /\ j.task[q].static_prio = k.task[q].static_prio
                      /\ j.task[q].prio = k.task[q].prio
  <2> SUFFICES ASSUME NEW q \in Task
               PROVE  /\ SamePlace(j.task[q], k.task[q])
                      /\ j.task[q].state = k.task[q].state
                      /\ j.task[q].static_prio = k.task[q].static_prio
                      /\ j.task[q].prio = k.task[q].prio
    OBVIOUS
  <2>1. k.task[q] \in TaskRecord
    BY <1>1
  <2>2. CASE q \in S
    <3>1. j.task[q] = [k.task[q] EXCEPT !.first_time_slice = FALSE]
      BY <1>2, <2>2
    <3> QED BY <2>1, <3>1 DEF SamePlace, TaskRecord, is_overdue, is_short
  <2>3. CASE q \notin S
    BY <1>2, <2>3 DEF SamePlace
  <2> QED BY <2>2, <2>3
<1>5. Typed(j)
  <2>1. ASSUME NEW q \in Pid PROVE Proper(j.task[q])
    <3>1. Proper(k.task[q]) /\ j.task[q] \in TaskRecord
      BY <1>1, <1>2 DEF Good, Typed, Kernel
    <3>2. /\ j.task[q].policy = k.task[q].policy /\ j.task[q].prio = k.task[q].prio
          /\ j.task[q].array = k.task[q].array /\ j.task[q].static_prio = k.task[q].static_prio
          /\ j.task[q].state = k.task[q].state /\ j.task[q].queued = k.task[q].queued
      BY <1>1, <1>4 DEF SamePlace
    <3> QED BY <3>1, <3>2 DEF Proper, rt_task, is_short
  <2> QED BY <1>2, <1>3, <2>1 DEF Good, Typed
<1>6. \A q \in Pid : Slot(j.task[q]) = Slot(k.task[q])
  BY <1>1, <1>4 DEF Slot, SamePlace
<1>7. Placed(j, {})
  <2>1. j.queue = k.queue /\ j.overdue = k.overdue /\ Placed(k, {})
    BY <1>2 DEF SameLists, Good
  <2>2. \A q \in Pid : /\ is_overdue(j.task[q]) <=> is_overdue(k.task[q])
                       /\ j.task[q].queued = k.task[q].queued
    BY <1>1, <1>4 DEF SamePlace
  <2> QED BY <1>6, <2>1, <2>2 DEF Placed
<1>8. \A q \in Pid : Fits(j.task[q], j.active)
  BY <1>1, <1>2, <1>4 DEF Good, Fits, SamePlace, SameLists, is_short
<1>9. \A a \in ArrayId : Members(j, {}, a) = Members(k, {}, a)
  BY <1>1, <1>4 DEF Members, SamePlace
<1>10. \A q \in Task : Enqueued(j.task[q]) <=> Enqueued(k.task[q])
  BY <1>4 DEF SamePlace, Enqueued
<1>11. Runnable(j, {}) = Runnable(k, {})
  BY <1>1, <1>10 DEF Runnable
<1>12. Good(j, {}, n)
  BY <1>2, <1>5, <1>7, <1>8, <1>9, <1>11 DEF Good, SameLists
<1>13. Calm(k, j)
  BY <1>1, <1>2, <1>4, <1>10 DEF Calm, SameLists, SamePlace
<1> QED BY <1>12, <1>13

\* p, which is a zombie now, tells its parent, and process 1 of the zombies it inherits;
\* of these it wakes those that sleep in sys_wait4.
Notified(p) ==
  {parent[p]} \cup {q \in {InitTask} : \E c \in Pid : /\ parent[c] = p /\ Hashed(c)
                                                      /\ task[c].state = "ZOMBIE"}
Notifies(p) ==
  /\ curr' = curr /\ nr_uninterruptible' = nr_uninterruptible
  /\ task'[p].state = "ZOMBIE" /\ Queued(p)'
  /\ \A q \in Pid \ {p} :
       IF q \in Notified(p) /\ pc[q] = "wait" /\ task[q].state = "INTERRUPTIBLE"
       THEN task'[q].state = "RUNNING"
       ELSE task'[q].state = task[q].state /\ (Queued(q)' <=> Queued(q))

\* exit_notify wakes the parent and reparents the children; the task that is a
\* zombie now is current, and leaves its list in the next schedule().
LEMMA ExitNotifyStep ==
  ASSUME IInv, NEW p \in Pid, ExitNotify(p)
  PROVE  IInv' /\ Notifies(p)
<1>0. InitTask \in Pid
  BY SchedAssumption
<1>o. PICK orphans : orphans = {c \in Pid : parent[c] = p /\ Hashed(c)}
  OBVIOUS
<1>h. PICK heir : heir = IF \E c \in orphans : task[c].state = "ZOMBIE" THEN InitTask ELSE None
  OBVIOUS
<1>1. /\ p = curr /\ pc' = [pc EXCEPT ![p] = "dead"] /\ kid' = kid /\ vfork_done' = vfork_done
      /\ parent' = [c \in Pid |-> IF c \in orphans THEN InitTask ELSE parent[c]]
      /\ tail' = tail /\ last' = last /\ remaining_switches' = remaining_switches
  BY <1>o DEF ExitNotify, cpuVars, At
<1>2. PICK prio \in WaiterPrios(parent[p]), prio2 \in WaiterPrios(heir) :
        LET k1 == WakeWaiter(SetState(K, p, "ZOMBIE"), parent[p], "wait", "INTERRUPTIBLE", prio)
            k2 == WakeWaiter(k1, heir, "wait", "INTERRUPTIBLE", prio2)
        IN Become(forget_original_parent(UPDATE_REASON(k2, p, ENDED), orphans))
  BY <1>o, <1>h DEF ExitNotify
<1>3. PICK q : q = parent[p]
  OBVIOUS
<1>4. PICK k0 : k0 = SetState(K, p, "ZOMBIE")
  OBVIOUS
<1>5. PICK k1 : k1 = WakeWaiter(k0, q, "wait", "INTERRUPTIBLE", prio)
  OBVIOUS
<1>6. PICK k2 : k2 = WakeWaiter(k1, heir, "wait", "INTERRUPTIBLE", prio2)
  OBVIOUS
<1>m. PICK k3 : k3 = UPDATE_REASON(k2, p, ENDED)
  OBVIOUS
<1>7. PICK k : k = forget_original_parent(k3, orphans)
  OBVIOUS
<1>8. Become(k)
  BY <1>2, <1>3, <1>4, <1>5, <1>6, <1>m, <1>7
<1>9. q \in Pid \cup {None} /\ heir \in Pid \cup {None} /\ p \in Task
  BY <1>0, <1>3, <1>h DEF IInv, ProcTypes, Task
<1>10. Good(k0, {}, 0) /\ Quiet(k0) /\ Restated(K, k0, p, "ZOMBIE")
  <2>1. "ZOMBIE" \in States
    BY DEF States
  <2> QED BY <1>1, <1>4, <2>1, Running, QuietNow, StateSet
<1>11. \A c \in Pid : k0.task[c].policy = task[c].policy
  BY <1>10, Current DEF Restated, Task
<1>12. /\ Good(k1, {}, 0) /\ Quiet(k1)
       /\ \A c \in Pid : k1.task[c].policy = k0.task[c].policy
       /\ Roused(k0, k1, q, "wait", "INTERRUPTIBLE")
  BY <1>3, <1>5, <1>9, <1>10, <1>11, WaiterWoken
<1>13. Good(k2, {}, 0) /\ Quiet(k2) /\ Roused(k1, k2, heir, "wait", "INTERRUPTIBLE")
  <2>1. heir \in Pid => k1.task[heir].policy = task[heir].policy
    BY <1>11, <1>12
  <2> QED BY <1>6, <1>9, <1>12, <2>1, WaiterWoken
<1>14. Good(k, {}, 0) /\ Quiet(k) /\ Calm(k2, k3) /\ Calm(k3, k)
  <2>1. ENDED \in 0 .. 7 /\ 0 \in Int
    BY DEF ENDED
  <2>2. Good(k3, {}, 0) /\ Calm(k2, k3)
    BY <1>m, <1>9, <1>13, <2>1, ReasonGiven, Zenon
  <2>3. Quiet(k3)
    BY <1>13, <2>2, QuietCalm
  <2>4. orphans \in SUBSET Pid
    BY <1>o
  <2>5. Good(k, {}, 0) /\ Calm(k3, k)
    BY <1>7, <2>1, <2>2, <2>4, Orphaned, Zenon
  <2> QED BY <2>2, <2>3, <2>5, QuietCalm
<1>15. "dead" \in Locations \ {"free", "copy"}
  BY DEF Locations
<1>16. Paced
  BY <1>1, <1>15, Running, Moves
<1>17. parent' \in [Pid -> Pid \cup {None}]
  BY <1>0, <1>1 DEF IInv, ProcTypes
<1>18. ProcTypes'
  BY <1>1, <1>16, <1>17 DEF IInv, ProcTypes, Paced
<1>19. Notifies(p)
  <2>1. task' = k.task /\ curr' = k.curr /\ \A r \in Pid : Queued(r)' <=> Enqueued(k.task[r])
    BY <1>8, <1>14, Arrived
  <2>2. nr_uninterruptible' = k.nr_uninterruptible /\ K.nr_uninterruptible = nr_uninterruptible
    BY <1>8 DEF Become, K
  <2>3. pc[p] = "exit1" /\ Queued(p)
    BY <1>1, Running DEF ExitNotify, At
  <2>4. /\ k.curr = k2.curr /\ k.nr_uninterruptible = k2.nr_uninterruptible
        /\ \A r \in Pid : /\ k.task[r].state = k2.task[r].state
                          /\ Enqueued(k.task[r]) <=> Enqueued(k2.task[r])
    BY <1>14 DEF Calm, Task
  <2>5. /\ k0.curr = curr /\ k0.nr_uninterruptible = nr_uninterruptible
        /\ k0.task[p].state = "ZOMBIE" /\ Enqueued(k0.task[p])
        /\ \A r \in Pid \ {p} : k0.task[r].state = task[r].state /\ (Enqueued(k0.task[r]) <=> Queued(r))
    BY <1>10, <2>2, <2>3, Current DEF Restated, SameLists, Task, Queued
  <2>6. /\ k1.curr = k0.curr /\ k1.nr_uninterruptible = k0.nr_uninterruptible
        /\ \A r \in Pid : IF r = q /\ pc[r] = "wait" /\ k0.task[r].state = "INTERRUPTIBLE"
                          THEN k1.task[r].state = "RUNNING"
                          ELSE k1.task[r].state = k0.task[r].state
                               /\ (Enqueued(k1.task[r]) <=> Enqueued(k0.task[r]))
    BY <1>10, <1>12, RousedTask
  <2>7. /\ k2.curr = k1.curr /\ k2.nr_uninterruptible = k1.nr_uninterruptible
        /\ \A r \in Pid : IF r = heir /\ pc[r] = "wait" /\ k1.task[r].state = "INTERRUPTIBLE"
                          THEN k2.task[r].state = "RUNNING"
                          ELSE k2.task[r].state = k1.task[r].state
                               /\ (Enqueued(k2.task[r]) <=> Enqueued(k1.task[r]))
    BY <1>12, <1>13, RousedTask
  <2>8. task'[p].state = "ZOMBIE" /\ Queued(p)' /\ curr' = curr /\ nr_uninterruptible' = nr_uninterruptible
    BY <2>1, <2>2, <2>3, <2>4, <2>5, <2>6, <2>7
  <2>9. \A r \in Pid : r \in Notified(p) <=> r = q \/ r = heir
    <3>1. None \notin Pid
      BY SchedAssumption DEF Task
    <3>2. (\E c \in orphans : task[c].state = "ZOMBIE")
            <=> \E c \in Pid : parent[c] = p /\ Hashed(c) /\ task[c].state = "ZOMBIE"
      BY <1>o
    <3> QED BY <1>3, <1>h, <3>1, <3>2 DEF Notified
  <2>10. ASSUME NEW r \in Pid \ {p}
         PROVE  IF r \in Notified(p) /\ pc[r] = "wait" /\ task[r].state = "INTERRUPTIBLE"
                THEN task'[r].state = "RUNNING"
                ELSE task'[r].state = task[r].state /\ (Queued(r)' <=> Queued(r))
    BY <2>1, <2>4, <2>5, <2>6, <2>7, <2>9
  <2> QED BY <2>8, <2>10 DEF Notifies
<1> QED BY <1>8, <1>14, <1>16, <1>18, <1>19, QuietStep

\* A vfork parent goes on with the reschedule do_fork asked of it.
LEMMA VforkReturnStep ==
  ASSUME IInv, NEW p \in Pid, VforkReturn(p)
  PROVE  IInv' /\ AsWas
<1>1. PICK k : k = ForkResched(K, p, TRUE)
  OBVIOUS
<1>2. /\ p = curr /\ Become(k) /\ Return(k, p) /\ kid' = [kid EXCEPT ![p] = None]
      /\ remaining_switches' = LOG_SWITCHES
      /\ parent' = parent /\ vfork_done' = vfork_done /\ tail' = tail /\ last' = last
  BY <1>1 DEF VforkReturn, At, cpuVars
<1>3. Good(k, {}, 0) /\ Calm(K, k)
  <2>1. Good(K, {}, 0) /\ 0 \in Int
    BY DEF IInv
  <2> QED BY <1>1, <2>1, ForkRescheduled, Zenon
<1>4. Quiet(k)
  BY <1>3, QuietNow, QuietCalm
<1>5. PICK l \in {"ret", "run"} : pc' = [pc EXCEPT ![p] = l]
  BY <1>2 DEF Return
<1>6. l \in Locations \ {"free", "copy"} /\ l \notin {"fork1", "fblock", "fork2"}
  BY DEF Locations
<1>7. kid \in [Pid -> Pid \cup {None}] /\ \A q \in Pid \ {p} : kid'[q] = kid[q]
  BY <1>2 DEF IInv, ProcTypes
<1>8. Paced
  BY <1>2, <1>5, <1>6, <1>7, Running, Moves
<1>9. LOG_SWITCHES \in 0 .. LOG_SWITCHES
  BY SchedAssumption
<1>10. ProcTypes'
  BY <1>2, <1>7, <1>8, <1>9 DEF IInv, ProcTypes, Paced
<1> QED BY <1>2, <1>3, <1>4, <1>8, <1>10, QuietStep, CalmStep

\* do_fork shares the slice, and the trials, between parent and copy.
LEMMA ForkSplitStep ==
  ASSUME IInv, NEW p \in Pid, ForkSplit(p)
  PROVE  IInv' /\ AsWas
<1>1. PICK prio \in effective_prio(task[p]), stay \in Interactive :
        Become(SplitSlice(K, p, kid[p], prio, stay))
  BY DEF ForkSplit
<1>2. PICK c : c = kid[p]
  OBVIOUS
<1>3. PICK k : k = SplitSlice(K, p, c, prio, stay)
  OBVIOUS
<1>4. /\ p = curr /\ pc[p] = "fork1" /\ pc' = [pc EXCEPT ![p] = "fork2"]
      /\ UNCHANGED <<procVars, cpuVars, remaining_switches>>
  BY DEF ForkSplit, At
<1>5. /\ Forking(p) /\ c \in Pid /\ pc[c] = "copy" /\ c # p
  BY <1>2, <1>4 DEF IInv, Copied, Forking
<1>6. ~ Queued(c) /\ ~ task[c].queued
  BY <1>5, Facts DEF IInv, Located
<1>7. prio \in UserPrio /\ stay \in BOOLEAN
  BY <1>4, Running, EffectivePrio, SchedAssumption
<1>8. Good(k, {}, 0) /\ Calm(K, k)
  <2>1. /\ Good(K, {}, 0) /\ CurrQueued(K) /\ p = K.curr
        /\ ~ Enqueued(K.task[c]) /\ ~ K.task[c].queued
    BY <1>4, <1>6, Running, Current DEF Queued
  <2> QED BY <1>3, <1>5, <1>7, <2>1, SliceSplit
<1>9. Quiet(k)
  BY <1>8, QuietNow, QuietCalm
<1>10. "fork2" \in Locations \ {"free", "copy"}
  BY DEF Locations
<1> QED BY <1>1, <1>2, <1>3, <1>4, <1>5, <1>8, <1>9, <1>10, CallStep, CalmStep

-----------------------------------------------------------------------------
(* Tasks that come and go.                                                 *)

\* The records of a new task and of none.
LEMMA NewRecords ==
  /\ Proper(BlankTask) /\ BlankTask.array = NULL /\ ~ Enqueued(BlankTask)
  /\ BlankTask.state = "RUNNING" /\ BlankTask \in TaskRecord /\ BlankTask.policy = "OTHER"
  /\ \A t : Proper(t) => LET u == CopyTask(t)
                         IN  /\ Proper(u) /\ u.array = NULL /\ ~ Enqueued(u)
                             /\ u.state = "UNINTERRUPTIBLE" /\ ~ u.queued
<1>1. DEF_PRIO \in UserPrio
  BY SchedAssumption
<1>2. DEF_PRIO \in Int /\ DEF_PRIO \in Prio /\ ~ (DEF_PRIO < MAX_RT_PRIO)
  BY <1>1, PrioAssumption DEF UserPrio, Prio, MAX_RT_PRIO
<1>3. /\ BlankTask \in TaskRecord /\ BlankTask.array = NULL /\ BlankTask.state = "RUNNING"
      /\ BlankTask.policy = "OTHER" /\ BlankTask.prio = DEF_PRIO
  BY <1>1, <1>2 DEF BlankTask, TaskRecord, Policies, UNKNOWN
<1>4. Proper(BlankTask) /\ ~ Enqueued(BlankTask)
  BY <1>2, <1>3 DEF Proper, rt_task, Enqueued, is_overdue, is_short
<1>5. ASSUME NEW t, Proper(t), NEW u, u = CopyTask(t)
      PROVE  /\ Proper(u) /\ u.array = NULL /\ ~ Enqueued(u)
             /\ u.state = "UNINTERRUPTIBLE" /\ ~ u.queued
  <2>1. t \in TaskRecord
    BY <1>5 DEF Proper
  <2>2. /\ u \in TaskRecord /\ u.array = NULL /\ u.state = "UNINTERRUPTIBLE" /\ u.queued = FALSE
        /\ u.prio = t.prio /\ u.policy = t.policy
    BY <1>5, <2>1 DEF CopyTask, TaskRecord
  <2> QED BY <1>5, <2>2 DEF Proper, rt_task, Enqueued
<1> QED BY <1>3, <1>4, <1>5

\* The copy that *p = *current makes was a free task_struct, and is on no list: its
\* array is reset with its state before anyone can see it.
LEMMA ForkCopyStep ==
  ASSUME IInv, NEW p \in Pid, NEW c \in Pid, NEW vfork \in BOOLEAN, ForkCopy(p, c, vfork)
  PROVE  /\ IInv'
         /\ Touches({c}) /\ p # c
         /\ nr_uninterruptible' = nr_uninterruptible
         /\ task'[c].state = "UNINTERRUPTIBLE"
<1>1. PICK u : u = CopyTask(task[p])
  OBVIOUS
<1>2. PICK k : k = Set(K, c, u)
  OBVIOUS
<1>3. /\ p = curr /\ pc[p] = "run" /\ pc[c] = "free" /\ Become(k)
      /\ pc' = [pc EXCEPT ![p] = "fork1", ![c] = "copy"]
      /\ kid' = [kid EXCEPT ![p] = c]
      /\ parent' = parent /\ tail' = tail /\ last' = last
      /\ remaining_switches' = remaining_switches
  BY <1>1, <1>2 DEF ForkCopy, Call, At, cpuVars
<1>4. vfork_done' = [vfork_done EXCEPT ![c] = p] \/ vfork_done' = [vfork_done EXCEPT ![c] = None]
  BY DEF ForkCopy
<1>5. /\ Proper(u) /\ u.array = NULL /\ ~ Enqueued(u) /\ u.state = "UNINTERRUPTIBLE" /\ ~ u.queued
  BY <1>1, Facts, NewRecords
<1>6. /\ Good(k, {}, 0) /\ SameLists(K, k)
      /\ k.task[c] = u /\ \A q \in Task \ {c} : k.task[q] = K.task[q]
  <2>1. Good(K, {}, 0) /\ ~ Enqueued(K.task[c]) /\ 0 \in Int
    BY <1>3, Facts, Current DEF IInv, Queued
  <2> QED BY <1>2, <1>5, <2>1, Replaced
<1>7. /\ task'[c] = u /\ curr' = curr /\ Good(K, {}, 0)' /\ ~ Queued(c)'
      /\ \A q \in Pid \ {c} : task'[q] = task[q] /\ (Queued(q)' <=> Queued(q))
  BY <1>3, <1>5, <1>6, Arrived, Current DEF SameLists, Task, Queued
<1>8. /\ pc \in [Pid -> Locations] /\ kid \in [Pid -> Pid \cup {None}]
      /\ vfork_done \in [Pid -> Pid \cup {None}] /\ p # c
  BY <1>3 DEF IInv, ProcTypes
<1>9. /\ pc'[p] = "fork1" /\ pc'[c] = "copy" /\ \A q \in Pid \ {p, c} : pc'[q] = pc[q]
      /\ kid'[p] = c /\ \A q \in Pid \ {p} : kid'[q] = kid[q]
  BY <1>3, <1>8
<1>10. ProcTypes'
  <2>1. pc' \in [Pid -> Locations]
    BY <1>3, <1>8 DEF Locations
  <2>2. kid' \in [Pid -> Pid \cup {None}] /\ vfork_done' \in [Pid -> Pid \cup {None}]
    BY <1>3, <1>4, <1>8
  <2> QED BY <1>3, <2>1, <2>2 DEF IInv, ProcTypes
<1>11. Located'
  <2>1. curr' \in Pid => Hashed(curr)'
    BY <1>3, <1>7, <1>9 DEF Hashed
  <2>2. ASSUME NEW q \in Pid, pc'[q] = "free" PROVE task'[q].state = "RUNNING" /\ ~ Queued(q)'
    BY <1>7, <1>9, <2>2 DEF IInv, Located
  <2>3. ASSUME NEW q \in Pid, pc'[q] = "copy"
        PROVE  task'[q].state = "UNINTERRUPTIBLE" /\ ~ task'[q].queued
    BY <1>5, <1>7, <1>9, <2>3 DEF IInv, Located
  <2> QED BY <2>1, <2>2, <2>3 DEF Located, Hashed
<1>12. \A q \in Pid \ {p} : Forking(q)' => Forking(q) /\ kid[q] \notin {p, c} /\ kid'[q] = kid[q]
  BY <1>3, <1>9 DEF Forking, IInv, Copied
<1>13. Copied'
  <2>1. ASSUME NEW q \in Pid, Forking(q)' PROVE kid'[q] \in Pid /\ pc'[kid'[q]] = "copy"
    <3>1. CASE q = p
      BY <1>9, <3>1
    <3>2. CASE q # p
      <4>1. kid[q] \in Pid /\ pc[kid[q]] = "copy"
        BY <1>12, <2>1, <3>2 DEF IInv, Copied
      <4> QED BY <1>9, <1>12, <2>1, <3>2, <4>1
    <3> QED BY <3>1, <3>2
  <2>2. ASSUME NEW q \in Pid, NEW r \in Pid, Forking(q)', Forking(r)', kid'[q] = kid'[r]
        PROVE  q = r
    BY <1>9, <1>12, <2>2 DEF IInv, Copied
  <2> QED BY <2>1, <2>2 DEF Copied
<1>14. NoLostTask'
  <2> SUFFICES ASSUME NEW q \in Pid, pc'[q] # "free"
               PROVE  /\ task'[q].state = "RUNNING" => Queued(q)'
                      /\ Queued(q)' /\ q # curr' => task'[q].state = "RUNNING"
                      /\ q = curr' => Queued(q)'
    BY DEF NoLostTask
  <2> QED BY <1>3, <1>5, <1>7, <1>8, <1>9 DEF IInv, NoLostTask
<1>15. nr_uninterruptible' = nr_uninterruptible
  BY <1>3, <1>6 DEF Become, K, SameLists
<1>16. Touches({c}) /\ task'[c].state = "UNINTERRUPTIBLE"
  BY <1>5, <1>7 DEF Touches
<1> QED BY <1>7, <1>8, <1>10, <1>11, <1>13, <1>14, <1>15, <1>16 DEF IInv

\* A do_fork that fails gives the copy back.
LEMMA ForkFailStep ==
  ASSUME IInv, NEW p \in Pid, ForkFail(p)
  PROVE  /\ IInv'
         /\ Touches({kid[p]}) /\ kid[p] \in Pid \ {p}
         /\ nr_uninterruptible' = nr_uninterruptible
         /\ task'[kid[p]].state = "RUNNING"
<1>1. PICK c : c = kid[p]
  OBVIOUS
<1>2. PICK k : k = Set(K, c, BlankTask)
  OBVIOUS
<1>3. PICK l \in {"ret", "run"} : pc' = [pc EXCEPT ![p] = l, ![c] = "free"]
  BY <1>1 DEF ForkFail
<1>4. /\ p = curr /\ pc[p] = "fork1" /\ Become(k) /\ kid' = [kid EXCEPT ![p] = None]
      /\ vfork_done' = [vfork_done EXCEPT ![c] = None]
      /\ parent' = parent /\ tail' = tail /\ last' = last
      /\ remaining_switches' = remaining_switches
  BY <1>1, <1>2 DEF ForkFail, At, cpuVars
<1>5. Forking(p) /\ c \in Pid /\ pc[c] = "copy" /\ c # p
  BY <1>1, <1>4 DEF Forking, IInv, Copied
<1>6. /\ Good(k, {}, 0) /\ SameLists(K, k)
      /\ k.task[c] = BlankTask /\ \A q \in Task \ {c} : k.task[q] = K.task[q]
  <2>1. Good(K, {}, 0) /\ ~ Enqueued(K.task[c]) /\ 0 \in Int
    BY <1>5, Facts, Current DEF IInv, Queued
  <2> QED BY <1>2, <1>5, <2>1, NewRecords, Replaced
<1>7. /\ task'[c].state = "RUNNING" /\ curr' = curr /\ Good(K, {}, 0)' /\ ~ Queued(c)'
      /\ \A q \in Pid \ {c} : task'[q] = task[q] /\ (Queued(q)' <=> Queued(q))
  BY <1>4, <1>5, <1>6, NewRecords, Arrived, Current DEF SameLists, Task, Queued
<1>8. /\ pc \in [Pid -> Locations] /\ kid \in [Pid -> Pid \cup {None}]
      /\ vfork_done \in [Pid -> Pid \cup {None}]
  BY DEF IInv, ProcTypes
<1>9. /\ pc'[p] = l /\ pc'[c] = "free" /\ \A q \in Pid \ {p, c} : pc'[q] = pc[q]
      /\ \A q \in Pid \ {p} : kid'[q] = kid[q]
  BY <1>3, <1>4, <1>5, <1>8
<1>10. ProcTypes'
  <2>1. pc' \in [Pid -> Locations]
    BY <1>3, <1>8 DEF Locations
  <2>2. kid' \in [Pid -> Pid \cup {None}] /\ vfork_done' \in [Pid -> Pid \cup {None}]
    BY <1>4, <1>8
  <2> QED BY <1>4, <2>1, <2>2 DEF IInv, ProcTypes
<1>11. Located'
  <2>1. curr' \in Pid => Hashed(curr)'
    BY <1>4, <1>7, <1>9 DEF Hashed
  <2>2. ASSUME NEW q \in Pid, pc'[q] = "free" PROVE task'[q].state = "RUNNING" /\ ~ Queued(q)'
    BY <1>7, <1>9, <2>2 DEF IInv, Located
  <2>3. ASSUME NEW q \in Pid, pc'[q] = "copy"
        PROVE  task'[q].state = "UNINTERRUPTIBLE" /\ ~ task'[q].queued
    BY <1>7, <1>9, <2>3 DEF IInv, Located
  <2> QED BY <2>1, <2>2, <2>3 DEF Located, Hashed
<1>12. \A q \in Pid : Forking(q)' => q # p /\ Forking(q) /\ kid[q] \notin {p, c} /\ kid'[q] = kid[q]
  BY <1>1, <1>4, <1>5, <1>9 DEF Forking, IInv, Copied
<1>13. Copied'
  <2>1. ASSUME NEW q \in Pid, Forking(q)' PROVE kid'[q] \in Pid /\ pc'[kid'[q]] = "copy"
    <3>1. kid[q] \in Pid /\ pc[kid[q]] = "copy"
      BY <1>12, <2>1 DEF IInv, Copied
    <3> QED BY <1>9, <1>12, <2>1, <3>1
  <2>2. ASSUME NEW q \in Pid, NEW r \in Pid, Forking(q)', Forking(r)', kid'[q] = kid'[r]
        PROVE  q = r
    BY <1>12, <2>2 DEF IInv, Copied
  <2> QED BY <2>1, <2>2 DEF Copied
<1>14. NoLostTask'
  <2> SUFFICES ASSUME NEW q \in Pid, pc'[q] # "free"
               PROVE  /\ task'[q].state = "RUNNING" => Queued(q)'
                      /\ Queued(q)' /\ q # curr' => task'[q].state = "RUNNING"
                      /\ q = curr' => Queued(q)'
    BY DEF NoLostTask
  <2> QED BY <1>4, <1>7, <1>9 DEF IInv, NoLostTask
<1>15. nr_uninterruptible' = nr_uninterruptible
  BY <1>4, <1>6 DEF Become, K, SameLists
<1>16. Touches({c})
  BY <1>7 DEF Touches
<1> QED BY <1>1, <1>5, <1>7, <1>10, <1>11, <1>13, <1>14, <1>15, <1>16 DEF IInv

\* wake_up_forked_process: the child enters the queues as it enters the hash.
LEMMA ForkWakeStep ==
  ASSUME IInv, NEW p \in Pid, ForkWake(p)
  PROVE  /\ IInv'
         /\ \E c \in Pid \ {p} : /\ c = kid[p] /\ Touches({c}) /\ nr_uninterruptible' = nr_uninterruptible
                               /\ task'[c].state = "RUNNING" /\ Queued(c)'
<1>1. PICK c : c = kid[p]
  OBVIOUS
<1>2. PICK prio \in IF rt_task(task[c]) THEN {task[c].prio} ELSE effective_prio(task[c]) :
        LET k == wake_up_forked_process(K, c, prio)
        IN Become(IF vfork_done[c] # None THEN k ELSE ForkResched(k, p, FALSE))
  BY <1>1 DEF ForkWake
<1>3. PICK i : i = wake_up_forked_process(K, c, prio)
  OBVIOUS
<1>4. PICK k : k = IF vfork_done[c] # None THEN i ELSE ForkResched(i, p, FALSE)
  OBVIOUS
<1>5. Become(k)
  BY <1>2, <1>3, <1>4
<1>6. PICK l \in {"vwait", "ret"} : pc' = [pc EXCEPT ![p] = l, ![c] = "new"]
  BY <1>1 DEF ForkWake
<1>7. PICK d \in {c, None} : kid' = [kid EXCEPT ![p] = d]
  BY <1>1 DEF ForkWake
<1>8. /\ p = curr /\ pc[p] = "fork2" /\ parent' = [parent EXCEPT ![c] = p]
      /\ vfork_done' = vfork_done /\ tail' = tail /\ last' = last
      /\ remaining_switches' \in {remaining_switches, LOG_SWITCHES}
  BY <1>1 DEF ForkWake, At, cpuVars
<1>9. Forking(p) /\ c \in Pid /\ pc[c] = "copy" /\ c # p
  BY <1>1, <1>8 DEF Forking, IInv, Copied
<1>10. FitPrio(task[c], prio)
  <2>1. Proper(task[c]) /\ task[c] \in TaskRecord
    BY <1>9, Facts
  <2>2. CASE rt_task(task[c])
    BY <2>1, <2>2 DEF FitPrio, Proper, rt_task
  <2>3. CASE ~ rt_task(task[c])
    <3>1. prio \in UserPrio
      BY <2>1, <2>3, EffectivePrio
    <3>2. task[c].policy \in {"OTHER", "SHORT"}
      BY <2>1, <2>3 DEF Proper, TaskRecord, Policies
    <3> QED BY <3>1, <3>2, UserPrioFits
  <2> QED BY <2>2, <2>3
<1>11. Good(i, {}, 0) /\ Wakes(K, i, c) /\ i.nr_uninterruptible = K.nr_uninterruptible
  <2>1. Good(K, {}, 0) /\ ~ Enqueued(K.task[c]) /\ 0 \in Int /\ FitPrio(K.task[c], prio)
    BY <1>9, <1>10, Facts, Current DEF IInv, Queued
  <2> QED BY <1>3, <1>9, <2>1, WakeUpForkedProcess
<1>12. Good(k, {}, 0) /\ Calm(i, k)
  <2>1. CASE k = i
    BY <1>11, <2>1 DEF Calm
  <2>2. CASE k = ForkResched(i, p, FALSE)
    <3>1. 0 \in Int
      OBVIOUS
    <3> QED BY <1>11, <2>2, <3>1, ForkRescheduled, Zenon
  <2> QED BY <1>4, <2>1, <2>2
<1>13. /\ curr' = curr /\ Good(K, {}, 0)' /\ task'[c].state = "RUNNING" /\ Queued(c)'
       /\ \A q \in Pid \ {c} : /\ task'[q].state = task[q].state
                               /\ Queued(q)' <=> Queued(q)
                               /\ Queued(q) \/ task'[q].queued = task[q].queued
  <2>1. task' = k.task /\ curr' = k.curr /\ Good(K, {}, 0)' /\ \A q \in Pid : Queued(q)' <=> Enqueued(k.task[q])
    BY <1>5, <1>12, Arrived
  <2>2. k.curr = curr /\ k.task[c].state = "RUNNING" /\ Enqueued(k.task[c])
    BY <1>9, <1>11, <1>12, Current DEF Wakes, Calm, Task
  <2>3. ASSUME NEW q \in Pid \ {c}
        PROVE  /\ k.task[q].state = task[q].state
               /\ Enqueued(k.task[q]) <=> Queued(q)
               /\ Queued(q) \/ k.task[q].queued = task[q].queued
    BY <1>11, <1>12, Current DEF Wakes, Calm, Task, Queued
  <2> QED BY <1>9, <2>1, <2>2, <2>3
<1>14. /\ pc \in [Pid -> Locations] /\ kid \in [Pid -> Pid \cup {None}]
       /\ parent \in [Pid -> Pid \cup {None}]
  BY DEF IInv, ProcTypes
<1>15. /\ pc'[p] = l /\ pc'[c] = "new" /\ \A q \in Pid \ {p, c} : pc'[q] = pc[q]
       /\ \A q \in Pid \ {p} : kid'[q] = kid[q]
  BY <1>6, <1>7, <1>9, <1>14
<1>16. ProcTypes'
  <2>1. pc' \in [Pid -> Locations]
    BY <1>6, <1>14 DEF Locations
  <2>2. kid' \in [Pid -> Pid \cup {None}] /\ parent' \in [Pid -> Pid \cup {None}]
    BY <1>7, <1>8, <1>9, <1>14
  <2>3. remaining_switches' \in 0 .. LOG_SWITCHES
    BY <1>8, SchedAssumption, SMTT(60) DEF IInv, ProcTypes
  <2> QED BY <1>8, <2>1, <2>2, <2>3 DEF IInv, ProcTypes
<1>17. Located'
  <2>1. curr' \in Pid => Hashed(curr)'
    BY <1>8, <1>13, <1>15 DEF Hashed
  <2>2. ASSUME NEW q \in Pid, pc'[q] = "free" PROVE task'[q].state = "RUNNING" /\ ~ Queued(q)'
    BY <1>13, <1>15, <2>2 DEF IInv, Located
  <2>3. ASSUME NEW q \in Pid, pc'[q] = "copy"
        PROVE  task'[q].state = "UNINTERRUPTIBLE" /\ ~ task'[q].queued
    <3>1. q \notin {p, c} /\ pc[q] = "copy"
      BY <1>15, <2>3
    <3> QED BY <1>13, <3>1, Facts DEF IInv, Located
  <2> QED BY <2>1, <2>2, <2>3 DEF Located, Hashed
<1>18. \A q \in Pid : Forking(q)' => q # p /\ Forking(q) /\ kid[q] \notin {p, c} /\ kid'[q] = kid[q]
  BY <1>1, <1>8, <1>9, <1>15 DEF Forking, IInv, Copied
<1>19. Copied'
  <2>1. ASSUME NEW q \in Pid, Forking(q)' PROVE kid'[q] \in Pid /\ pc'[kid'[q]] = "copy"
    <3>1. kid[q] \in Pid /\ pc[kid[q]] = "copy"
      BY <1>18, <2>1 DEF IInv, Copied
    <3> QED BY <1>15, <1>18, <2>1, <3>1
  <2>2. ASSUME NEW q \in Pid, NEW r \in Pid, Forking(q)', Forking(r)', kid'[q] = kid'[r]
        PROVE  q = r
    BY <1>18, <2>2 DEF IInv, Copied
  <2> QED BY <2>1, <2>2 DEF Copied
<1>20. NoLostTask'
  <2> SUFFICES ASSUME NEW q \in Pid, pc'[q] # "free"
               PROVE  /\ task'[q].state = "RUNNING" => Queued(q)'
                      /\ Queued(q)' /\ q # curr' => task'[q].state = "RUNNING"
                      /\ q = curr' => Queued(q)'
    BY DEF NoLostTask
  <2> QED BY <1>8, <1>9, <1>13, <1>15 DEF IInv, NoLostTask
<1>21. nr_uninterruptible' = nr_uninterruptible
  BY <1>5, <1>11, <1>12 DEF Become, K, Calm
<1>22. Touches({c})
  BY <1>13 DEF Touches
<1>23. IInv'
  BY <1>13, <1>16, <1>17, <1>19, <1>20 DEF IInv
<1> QED BY <1>1, <1>9, <1>13, <1>21, <1>22, <1>23

\* A zombie that is reaped is on no list, so its task_struct is free to be used again.
LEMMA ReapStep ==
  ASSUME IInv, NEW p \in Pid, Reap(p)
  PROVE  /\ IInv'
         /\ \E c \in Zombies(p) :
              /\ Touches({p, c}) /\ nr_uninterruptible' = nr_uninterruptible
              /\ task'[p].state = "RUNNING" /\ task'[c].state = "RUNNING"
              /\ pc' = [pc EXCEPT ![p] = IF task[p].need_resched THEN "ret" ELSE "run", ![c] = "free"]
              /\ parent' = [parent EXCEPT ![c] = None]
<1>1. PICK c \in Zombies(p) :
        /\ At(p, "scan")
        /\ Become(Set(SetState(sched_exit(K, p, c), p, "RUNNING"), c, BlankTask))
        /\ pc' = [pc EXCEPT ![p] = IF task[p].need_resched THEN "ret" ELSE "run", ![c] = "free"]
        /\ parent' = [parent EXCEPT ![c] = None]
        /\ UNCHANGED <<kid, vfork_done, cpuVars, remaining_switches>>
  BY DEF Reap
<1>2. PICK i : i = sched_exit(K, p, c)
  OBVIOUS
<1>3. PICK m : m = SetState(i, p, "RUNNING")
  OBVIOUS
<1>4. PICK k : k = Set(m, c, BlankTask)
  OBVIOUS
<1>5. PICK l \in {"ret", "run"} : pc' = [pc EXCEPT ![p] = l, ![c] = "free"]
  BY <1>1
<1>6. /\ p = curr /\ pc[p] = "scan" /\ Become(k) /\ parent' = [parent EXCEPT ![c] = None]
      /\ kid' = kid /\ vfork_done' = vfork_done /\ tail' = tail /\ last' = last
      /\ remaining_switches' = remaining_switches
  BY <1>1, <1>2, <1>3, <1>4 DEF At, cpuVars
<1>7. c \in Pid /\ c # p /\ Hashed(c) /\ task[c].state = "ZOMBIE" /\ ~ Queued(c)
  <2>1. c \in Pid /\ c # p /\ Hashed(c) /\ task[c].state = "ZOMBIE"
    BY DEF Zombies, Children
  <2> QED BY <1>6, <2>1 DEF IInv, NoLostTask, Hashed
<1>8. Good(i, {}, 0) /\ Calm(K, i)
  <2>1. Good(K, {}, 0) /\ 0 \in Int
    BY DEF IInv
  <2> QED BY <1>2, <1>7, <2>1, SchedExited
<1>9. Good(m, {}, 0) /\ Quiet(m) /\ Restated(i, m, p, "RUNNING")
  <2>1. "RUNNING" \in States /\ Quiet(i)
    BY <1>8, QuietNow, QuietCalm DEF States
  <2> QED BY <1>3, <1>6, <1>8, <2>1, StateSet
<1>10. ~ Enqueued(m.task[c])
  BY <1>7, <1>8, <1>9, Current DEF Calm, Restated, Task, Queued
<1>11. /\ Good(k, {}, 0) /\ SameLists(m, k)
       /\ k.task[c] = BlankTask /\ \A q \in Task \ {c} : k.task[q] = m.task[q]
  <2>1. 0 \in Int
    OBVIOUS
  <2> QED BY <1>4, <1>7, <1>9, <1>10, <2>1, NewRecords, Replaced
<1>12. /\ curr' = curr /\ Good(K, {}, 0)' /\ task'[c].state = "RUNNING" /\ ~ Queued(c)'
       /\ \A q \in Pid \ {c} : /\ q # p => task'[q].state = task[q].state
                               /\ Queued(q)' <=> Queued(q)
                               /\ q # p => Queued(q) \/ task'[q].queued = task[q].queued
  <2>1. task' = k.task /\ curr' = k.curr /\ Good(K, {}, 0)' /\ \A q \in Pid : Queued(q)' <=> Enqueued(k.task[q])
    BY <1>6, <1>11, Arrived
  <2>2. k.curr = curr /\ k.task[c].state = "RUNNING" /\ ~ Enqueued(k.task[c])
    BY <1>9, <1>11, NewRecords DEF Quiet, SameLists
  <2>3. ASSUME NEW q \in Pid \ {c}
        PROVE  /\ q # p => k.task[q].state = task[q].state
               /\ Enqueued(k.task[q]) <=> Queued(q)
               /\ q # p => Queued(q) \/ k.task[q].queued = task[q].queued
    <3>1. k.task[q] = m.task[q]
      BY <1>11 DEF Task
    <3>2. CASE q = p
      BY <1>8, <1>9, <3>1, <3>2, Current DEF Calm, Restated, Queued
    <3>3. CASE q # p
      <4>1. m.task[q] = i.task[q]
        BY <1>9, <3>3 DEF Restated, Task
      <4> QED BY <1>8, <3>1, <4>1, Current DEF Calm, Task, Queued
    <3> QED BY <3>2, <3>3
  <2> QED BY <1>7, <2>1, <2>2, <2>3
<1>13. pc \in [Pid -> Locations] /\ parent \in [Pid -> Pid \cup {None}]
  BY DEF IInv, ProcTypes
<1>14. pc'[p] = l /\ pc'[c] = "free" /\ \A q \in Pid \ {p, c} : pc'[q] = pc[q]
  BY <1>5, <1>7, <1>13
<1>15. ProcTypes'
  <2>1. pc' \in [Pid -> Locations]
    BY <1>5, <1>13 DEF Locations
  <2>2. parent' \in [Pid -> Pid \cup {None}]
    BY <1>6, <1>13
  <2> QED BY <1>6, <2>1, <2>2 DEF IInv, ProcTypes
<1>16. Located'
  <2>1. curr' \in Pid => Hashed(curr)'
    BY <1>6, <1>7, <1>12, <1>14 DEF Hashed
  <2>2. ASSUME NEW q \in Pid, pc'[q] = "free" PROVE task'[q].state = "RUNNING" /\ ~ Queued(q)'
    BY <1>12, <1>14, <2>2 DEF IInv, Located
  <2>3. ASSUME NEW q \in Pid, pc'[q] = "copy"
        PROVE  task'[q].state = "UNINTERRUPTIBLE" /\ ~ task'[q].queued
    <3>1. q \notin {p, c} /\ pc[q] = "copy"
      BY <1>14, <2>3
    <3> QED BY <1>12, <3>1, Facts DEF IInv, Located
  <2> QED BY <2>1, <2>2, <2>3 DEF Located, Hashed
<1>17. \A q \in Pid : Forking(q)' => Forking(q) /\ kid[q] \notin {p, c}
  BY <1>6, <1>7, <1>14 DEF Forking, Hashed, IInv, Copied
<1>18. Copied'
  <2>1. ASSUME NEW q \in Pid, Forking(q)' PROVE kid'[q] \in Pid /\ pc'[kid'[q]] = "copy"
    <3>1. kid[q] \in Pid /\ pc[kid[q]] = "copy"
      BY <1>17, <2>1 DEF IInv, Copied
    <3> QED BY <1>6, <1>14, <1>17, <2>1, <3>1
  <2>2. ASSUME NEW q \in Pid, NEW r \in Pid, Forking(q)', Forking(r)', kid'[q] = kid'[r]
        PROVE  q = r
    BY <1>6, <1>17, <2>2 DEF IInv, Copied
  <2> QED BY <2>1, <2>2 DEF Copied
<1>19. NoLostTask'
  <2>1. Queued(p)
    BY <1>6, Running
  <2> SUFFICES ASSUME NEW q \in Pid, pc'[q] # "free"
               PROVE  /\ task'[q].state = "RUNNING" => Queued(q)'
                      /\ Queued(q)' /\ q # curr' => task'[q].state = "RUNNING"
                      /\ q = curr' => Queued(q)'
    BY DEF NoLostTask
  <2> QED BY <1>6, <1>7, <1>12, <1>14, <2>1 DEF IInv, NoLostTask
<1>20. IInv'
  BY <1>12, <1>15, <1>16, <1>18, <1>19 DEF IInv
<1>21. nr_uninterruptible' = nr_uninterruptible
  BY <1>6, <1>8, <1>9, <1>11 DEF Become, K, SameLists, Restated, Calm
<1>22. Touches({p, c})
  BY <1>12 DEF Touches
<1>23. task'[p].state = "RUNNING"
  <2>1. task' = k.task
    BY <1>6, <1>11, Arrived
  <2> QED BY <1>7, <1>9, <1>11, <2>1 DEF Restated, Task
<1> QED BY <1>1, <1>12, <1>20, <1>21, <1>22, <1>23

-----------------------------------------------------------------------------
(* The context switch.                                                     *)

\* No task enters do_fork, or comes or goes, by its return from schedule().
LEMMA Afterwards ==
  ASSUME NEW l \in Locations
  PROVE  /\ After(l) \in Locations
         /\ After(l) = "free" <=> l = "free"
         /\ After(l) = "copy" <=> l = "copy"
         /\ After(l) \in {"fork1", "fblock", "fork2"} => l \in {"fork1", "fblock", "fork2"}
  BY DEF After, Locations

\* The CPU goes to a RUNNING task, and the one it goes from leaves the queues, and is
\* counted if it sleeps UNINTERRUPTIBLE, unless it is RUNNING.
Switches ==
  /\ \A q \in Pid \ {curr} : task'[q].state = task[q].state /\ (Queued(q)' <=> Queued(q))
  /\ \A q \in Pid : q = curr' => task'[q].state = "RUNNING"
  /\ curr \notin Pid => nr_uninterruptible' = nr_uninterruptible
  /\ \A q \in Pid : q = curr =>
       \/ /\ Queued(q)' /\ task'[q].state = "RUNNING"
          /\ nr_uninterruptible' = nr_uninterruptible
       \/ /\ ~ Queued(q)' /\ task'[q].state = task[q].state
          /\ nr_uninterruptible' = nr_uninterruptible + Sleeper(task[q])

\* schedule(): it switches to a queued task, or to the idle one, and takes the task it
\* switches from off the lists unless that one is RUNNING.
LEMMA ScheduleStep ==
  ASSUME IInv, Schedule
  PROVE  /\ IInv'
         /\ Switches
<1>1. PICK sig \in Signals :
        LET k     == schedule(K, sig)
            next  == k.curr
            fresh == next \in Pid /\ pc[next] = "new"
        IN /\ Become(hw2_log_switch(k))
           /\ remaining_switches' = IF Logging(k) THEN remaining_switches - 1
                                    ELSE remaining_switches
           /\ pc' = [p \in Pid |-> IF p = next /\ fresh THEN "run"
                                   ELSE IF p = curr THEN After(pc[p]) ELSE pc[p]]
           /\ tail' = IF fresh THEN "none" ELSE "check"
           /\ last' = IF fresh THEN None ELSE curr
  BY DEF Schedule
<1>2. PICK i : i = schedule(K, sig)
  OBVIOUS
<1>3. PICK k : k = hw2_log_switch(i)
  OBVIOUS
<1>4. PICK fresh \in BOOLEAN : fresh <=> i.curr \in Pid /\ pc[i.curr] = "new"
  OBVIOUS
<1>5. /\ Become(k)
      /\ remaining_switches' = IF Logging(i) THEN remaining_switches - 1 ELSE remaining_switches
      /\ pc' = [p \in Pid |-> IF p = i.curr /\ fresh THEN "run"
                              ELSE IF p = curr THEN After(pc[p]) ELSE pc[p]]
      /\ tail' = (IF fresh THEN "none" ELSE "check")
      /\ last' = IF fresh THEN None ELSE curr
  BY <1>1, <1>2, <1>3, <1>4
<1>6. kid' = kid /\ parent' = parent /\ vfork_done' = vfork_done
  BY DEF Schedule, procVars
<1>7. /\ pc \in [Pid -> Locations] /\ curr \in Task /\ K.curr = curr
  BY Current DEF IInv, ProcTypes, Good, Typed, Kernel
<1>8. Good(i, {}, 0) /\ Departs(K, i, curr) /\ CurrQueued(i) /\ i.curr \in Task
  <2>1. Good(K, {}, 0) /\ CurrQueued(K)
    BY QuietNow, QuietCurr DEF IInv
  <2>2. sig \in BOOLEAN
    BY SchedAssumption
  <2>3. Good(i, {}, 0) /\ Departs(K, i, K.curr) /\ CurrQueued(i) /\ i.curr \in Task
    BY <1>2, <2>1, <2>2, Scheduled
  <2> QED BY <1>7, <2>3
<1>9. Good(k, {}, 0) /\ Calm(i, k)
  <2>1. CASE k = i
    BY <1>8, <2>1 DEF Calm
  <2>2. CASE k = UPDATE_REASON(i, curr, UNKNOWN)
    <3>1. UNKNOWN \in 0 .. 7 /\ 0 \in Int
      BY DEF UNKNOWN
    <3> QED BY <1>7, <1>8, <2>2, <3>1, ReasonGiven, Zenon
  <2> QED BY <1>3, <2>1, <2>2 DEF hw2_log_switch
<1>10. Departs(K, k, curr) /\ k.curr = i.curr /\ CurrQueued(k)
  <2>1. Departs(K, k, curr)
    BY <1>7, <1>8, <1>9, DepartsCalm
  <2> QED BY <1>8, <1>9, <2>1 DEF Calm, CurrQueued
<1>11. /\ curr' = i.curr /\ Good(K, {}, 0)'
       /\ i.curr \in Pid => Queued(i.curr)'
       /\ \A q \in Pid : q # curr => /\ task'[q].state = task[q].state
                                     /\ Queued(q)' <=> Queued(q)
                                     /\ Queued(q) \/ task'[q].queued = task[q].queued
       /\ \A q \in Pid : q = curr => (Queued(q)' <=> task'[q].state = "RUNNING")
  <2>1. task' = k.task /\ curr' = k.curr /\ Good(K, {}, 0)' /\ \A q \in Pid : Queued(q)' <=> Enqueued(k.task[q])
    BY <1>5, <1>9, Arrived
  <2>2. i.curr \in Pid => Enqueued(k.task[i.curr])
    BY <1>10 DEF CurrQueued
  <2>3. ASSUME NEW q \in Pid, q # curr
        PROVE  /\ k.task[q].state = task[q].state
               /\ Enqueued(k.task[q]) <=> Queued(q)
               /\ Queued(q) \/ k.task[q].queued = task[q].queued
    BY <1>10, <2>3, Current DEF Departs, Task, Queued
  <2>4. ASSUME NEW q \in Pid, q = curr
        PROVE  Enqueued(k.task[q]) <=> k.task[q].state = "RUNNING"
    BY <1>10, <2>4 DEF Departs
  <2> QED BY <1>10, <2>1, <2>2, <2>3, <2>4
<1>12. \A q \in Pid : \/ q = i.curr /\ fresh /\ pc[q] = "new" /\ pc'[q] = "run"
                      \/ ~ (q = i.curr /\ fresh) /\ q = curr /\ pc'[q] = After(pc[q])
                      \/ ~ (q = i.curr /\ fresh) /\ q # curr /\ pc'[q] = pc[q]
  BY <1>4, <1>5
<1>13. \A q \in Pid : /\ pc'[q] \in Locations
                      /\ pc'[q] = "free" <=> pc[q] = "free"
                      /\ pc'[q] = "copy" <=> pc[q] = "copy"
                      /\ Forking(q)' => Forking(q)
  <2> TAKE q \in Pid
  <2>1. pc[q] \in Locations
    BY <1>7
  <2>2. "run" \in Locations
    BY DEF Locations
  <2> QED BY <1>12, <2>1, <2>2, Afterwards DEF Forking
<1>14. ProcTypes'
  <2>1. pc' \in [Pid -> Locations]
    BY <1>5, <1>13
  <2>2. tail' \in {"none", "check", "clear"} /\ last' \in Task \cup {None} /\ (tail' # "none" => last' \in Task)
    BY <1>5, <1>7
  <2>3. remaining_switches' \in 0 .. LOG_SWITCHES
    <3>1. remaining_switches \in 0 .. LOG_SWITCHES /\ LOG_SWITCHES \in Nat
      BY SchedAssumption DEF IInv, ProcTypes
    <3>2. Logging(i) => remaining_switches > 0
      BY DEF Logging
    <3> QED BY <1>5, <3>1, <3>2
  <2> QED BY <1>6, <2>1, <2>2, <2>3 DEF IInv, ProcTypes
<1>15. Located'
  <2>1. curr' \in Pid => Hashed(curr)'
    <3> SUFFICES ASSUME i.curr \in Pid PROVE pc'[i.curr] \notin {"copy", "free"}
      BY <1>11 DEF Hashed
    <3>1. CASE i.curr = curr
      <4>1. Hashed(curr)
        BY <1>7, <3>1 DEF IInv, Located
      <4> QED BY <1>13, <3>1, <4>1 DEF Hashed
    <3>2. CASE i.curr # curr
      <4>1. Queued(i.curr)
        BY <1>11, <3>2
      <4>2. pc[i.curr] \notin {"copy", "free"}
        BY <4>1, Facts
      <4> QED BY <1>13, <4>2
    <3> QED BY <3>1, <3>2
  <2>2. ASSUME NEW q \in Pid, pc'[q] = "free" PROVE task'[q].state = "RUNNING" /\ ~ Queued(q)'
    <3>1. pc[q] = "free"
      BY <1>13, <2>2
    <3>2. q # curr /\ ~ Queued(q) /\ task[q].state = "RUNNING"
      BY <3>1, Facts DEF IInv, Located
    <3> QED BY <1>11, <3>2
  <2>3. ASSUME NEW q \in Pid, pc'[q] = "copy"
        PROVE  task'[q].state = "UNINTERRUPTIBLE" /\ ~ task'[q].queued
    <3>1. pc[q] = "copy"
      BY <1>13, <2>3
    <3>2. q # curr /\ ~ Queued(q) /\ task[q].state = "UNINTERRUPTIBLE" /\ ~ task[q].queued
      BY <3>1, Facts DEF IInv, Located
    <3> QED BY <1>11, <3>2
  <2> QED BY <2>1, <2>2, <2>3 DEF Located, Hashed
<1>16. Copied'
  BY <1>6, <1>13 DEF IInv, Copied
<1>17. NoLostTask'
  <2> SUFFICES ASSUME NEW q \in Pid, pc'[q] # "free"
               PROVE  /\ task'[q].state = "RUNNING" => Queued(q)'
                      /\ Queued(q)' /\ q # curr' => task'[q].state = "RUNNING"
                      /\ q = curr' => Queued(q)'
    BY DEF NoLostTask
  <2>1. /\ task[q].state = "RUNNING" => Queued(q)
        /\ Queued(q) /\ q # curr => task[q].state = "RUNNING"
    BY <1>13 DEF IInv, NoLostTask
  <2>2. CASE q = curr
    BY <1>11, <2>2
  <2>3. CASE q # curr
    BY <1>11, <2>1, <2>3
  <2> QED BY <2>2, <2>3
<1>18. IInv'
  BY <1>11, <1>14, <1>15, <1>16, <1>17 DEF IInv
<1>19. nr_uninterruptible' = k.nr_uninterruptible /\ K.nr_uninterruptible = nr_uninterruptible
  BY <1>5 DEF Become, K
<1>20. \A q \in Pid : q = curr' => task'[q].state = "RUNNING"
  <2> SUFFICES ASSUME NEW q \in Pid, q = i.curr PROVE task'[q].state = "RUNNING"
    BY <1>11
  <2>1. Queued(q)'
    BY <1>11
  <2>2. CASE q = curr
    BY <1>11, <2>1, <2>2
  <2>3. CASE q # curr
    <3>1. Queued(q) /\ pc[q] # "free"
      BY <1>11, <2>1, <2>3, Facts
    <3> QED BY <1>11, <2>3, <3>1 DEF IInv, NoLostTask
  <2> QED BY <2>2, <2>3
<1>21. ASSUME NEW q \in Pid, q = curr
       PROVE  \/ /\ Queued(q)' /\ task'[q].state = "RUNNING"
                 /\ nr_uninterruptible' = nr_uninterruptible
              \/ /\ ~ Queued(q)' /\ task'[q].state = task[q].state
                 /\ nr_uninterruptible' = nr_uninterruptible + Sleeper(task[q])
  <2>1. task' = k.task /\ (Queued(q)' <=> Enqueued(k.task[q]))
    BY <1>5, <1>9, Arrived
  <2>2. K.task = task
    BY Current
  <2>3. \/ /\ Enqueued(k.task[q]) /\ k.task[q].state = "RUNNING"
           /\ k.nr_uninterruptible = K.nr_uninterruptible
        \/ /\ ~ Enqueued(k.task[q]) /\ k.task[q].state = task[q].state
           /\ k.nr_uninterruptible = K.nr_uninterruptible + Sleeper(k.task[q])
    BY <1>10, <1>21, <2>2 DEF Departs
  <2>4. k.task[q].state = task[q].state => Sleeper(k.task[q]) = Sleeper(task[q])
    BY DEF Sleeper
  <2> QED BY <1>19, <2>1, <2>3, <2>4
<1>22. curr \notin Pid => nr_uninterruptible' = nr_uninterruptible
  BY <1>10, <1>19 DEF Departs
<1>23. ASSUME NEW q \in Pid \ {curr}
       PROVE  task'[q].state = task[q].state /\ (Queued(q)' <=> Queued(q))
  BY <1>11
<1> QED BY <1>18, <1>20, <1>21, <1>22, <1>23 DEF Switches

-----------------------------------------------------------------------------
(* The initial state.                                                      *)

\* Every task of Boot is on the one list that is not empty.
LEMMA InitGood ==
  ASSUME Init
  PROVE  Good(K, {}, 0)
<1>1. BlankTask \in TaskRecord /\ Proper(BlankTask) /\ BlankTask.array = NULL
      /\ BlankTask.policy = "OTHER" /\ BlankTask.state = "RUNNING" /\ ~ Enqueued(BlankTask)
  BY NewRecords
<1>2. TASK_TIMESLICE(BlankTask) \in Nat
  BY <1>1, Slices
<1>3. PICK s \in Nat : s = TASK_TIMESLICE(BlankTask)
  BY <1>2
<1>4. PICK b : b = BootTask
  OBVIOUS
<1>5. b = [BlankTask EXCEPT !.time_slice = s, !.array = 0, !.queued = TRUE]
  BY <1>3, <1>4 DEF BootTask
<1>6. DEF_PRIO \in UserPrio /\ DEF_PRIO \in Prio /\ <<0, DEF_PRIO>> \in ArrayId \X Prio
  BY SchedAssumption, PrioAssumption, SMTT(60) DEF UserPrio, Prio, MAX_RT_PRIO, ArrayId
<1>7. BlankTask.prio = DEF_PRIO
  BY DEF BlankTask
<1>8. /\ b \in TaskRecord /\ b.array = 0 /\ b.prio = DEF_PRIO /\ b.policy = "OTHER" /\ b.state = "RUNNING"
  <2>1. PICK c : c = BlankTask
    OBVIOUS
  <2>2. c \in TaskRecord /\ c.prio = DEF_PRIO /\ c.policy = "OTHER" /\ c.state = "RUNNING"
    BY <1>1, <1>7, <2>1
  <2>3. b = [[[c EXCEPT !.time_slice = s] EXCEPT !.array = 0] EXCEPT !.queued = TRUE]
    BY <1>5, <2>1
  <2>4. 0 \in ArrayId /\ TRUE \in BOOLEAN
    BY DEF ArrayId
  <2>5. b \in TaskRecord
    BY <1>3, <2>2, <2>3, <2>4 DEF TaskRecord
  <2>6. b.array = 0 /\ b.prio = c.prio /\ b.policy = c.policy /\ b.state = c.state
    BY <2>2, <2>3 DEF TaskRecord
  <2> QED BY <2>2, <2>5, <2>6
<1>9. Proper(b) /\ Enqueued(b) /\ Slot(b) = <<0, DEF_PRIO>>
  BY <1>1, <1>7, <1>8 DEF Proper, rt_task, Enqueued, is_overdue, is_short, Slot, NULL
<1>10. PICK z : z = [BlankTask EXCEPT !.prio = MAX_PRIO]
  OBVIOUS
<1>11. z \in TaskRecord /\ z.policy = "OTHER" /\ z.state = "RUNNING"
  BY <1>1, <1>10, PrioAssumption DEF TaskRecord
<1>12. /\ Idle \notin Pid /\ Booted \subseteq Pid /\ InitTask \in Booted /\ Cardinality(Booted) = Len(Boot)
       /\ Boot \in Seq(Pid) /\ Len(Boot) \in Nat /\ InitTask \in Task /\ Elements(Boot) = Booted
       /\ NoDuplicates(Boot)
  <2>1. Boot \in Seq(Pid) /\ Len(Boot) \in Nat /\ NoDuplicates(Boot)
    BY SchedAssumption DEF NoDuplicates
  <2>2. Elements(Boot) = Booted
    BY DEF Elements, Booted
  <2> QED BY <2>1, <2>2, BootCount, PidAssumption DEF Task
<1>13. PICK h : h = <<0, DEF_PRIO>>
  OBVIOUS
<1>14. /\ active = 0 /\ queue = [g \in ArrayId \X Prio |-> IF g = h THEN Boot ELSE <<>>]
       /\ nr_active = [a \in ArrayId |-> IF a = 0 THEN Len(Boot) ELSE 0]
       /\ bitmap = {h} /\ overdue = <<>> /\ nr_running = Len(Boot) /\ nr_uninterruptible = 0
       /\ curr = InitTask
       /\ task = [p \in Task |-> IF p \in Booted THEN b ELSE IF p = Idle THEN z ELSE BlankTask]
  BY <1>4, <1>10, <1>13 DEF Init
<1>15. /\ \A p \in Booted : task[p] = b
       /\ \A p \in Pid \ Booted : task[p] = BlankTask
       /\ task[Idle] = z
       /\ task \in [Task -> TaskRecord]
  BY <1>1, <1>8, <1>11, <1>12, <1>14 DEF Task
<1>16. K \in Kernel
  <2>1. active \in {0, 1} /\ nr_active \in [ArrayId -> Int] /\ nr_running \in Int
        /\ nr_uninterruptible \in Int /\ overdue \in Seq(Pid) /\ curr \in Task
    BY <1>12, <1>14
  <2>2. queue \in [ArrayId \X Prio -> Seq(Pid)] /\ bitmap \in SUBSET (ArrayId \X Prio)
    BY <1>6, <1>12, <1>13, <1>14
  <2> QED BY <1>15, <2>1, <2>2 DEF K, Kernel
<1>17. Typed(K)
  BY <1>1, <1>9, <1>11, <1>12, <1>15, <1>16, Current DEF Typed
<1>18. \A g \in ArrayId \X Prio : queue[g] = IF g = h THEN Boot ELSE <<>>
  BY <1>14
<1>19. ASSUME NEW p \in Pid
       PROVE  /\ Enqueued(task[p]) <=> p \in Booted
              /\ task[p].array = (IF p \in Booted THEN 0 ELSE NULL) /\ task[p].policy = "OTHER"
              /\ ~ is_overdue(task[p])
              /\ p \in Booted => Slot(task[p]) = h
  <2>1. CASE p \in Booted
    BY <1>8, <1>9, <1>13, <1>15, <2>1 DEF is_overdue, is_short
  <2>2. CASE p \notin Booted
    BY <1>1, <1>15, <2>2 DEF is_overdue, is_short
  <2> QED BY <2>1, <2>2
<1>20. Placed(K, {})
  <2>1. ASSUME NEW p \in Pid, NEW g \in ArrayId \X Prio
        PROVE  p \in Elements(queue[g]) <=> g = Slot(task[p])
    <3>1. Elements(<<>>) = {}
      BY DEF Elements
    <3>2. CASE p \in Booted
      BY <1>12, <1>18, <1>19, <3>1, <3>2
    <3>3. CASE p \notin Booted
      <4>1. p \notin Elements(queue[g])
        BY <1>12, <1>18, <3>1, <3>3
      <4>2. task[p].array = NULL
        BY <1>19, <3>3
      <4>3. g # Slot(task[p])
        BY <4>2 DEF Slot, ArrayId, NULL
      <4> QED BY <4>1, <4>3
    <3> QED BY <3>2, <3>3
  <2>2. ASSUME NEW p \in Pid
        PROVE  p \in Elements(overdue) <=> is_overdue(task[p]) /\ task[p].queued
    <3>1. Elements(overdue) = {}
      BY <1>14 DEF Elements
    <3> QED BY <1>19, <3>1
  <2>3. NoDuplicates(overdue) /\ NoDuplicates(<<>>)
    BY <1>14 DEF NoDuplicates
  <2>4. \A g \in ArrayId \X Prio : NoDuplicates(queue[g])
    BY <1>12, <1>18, <2>3
  <2>5. K.queue = queue /\ K.overdue = overdue /\ K.task = task
    BY DEF K
  <2> QED BY <2>1, <2>2, <2>3, <2>4, <2>5 DEF Placed
<1>21. \A p \in Pid : Fits(task[p], active)
  BY <1>14, <1>19, SMTT(60) DEF Fits, NULL, active_SHORT, is_overdue, is_short
<1>22. bitmap = {g \in ArrayId \X Prio : queue[g] # <<>>}
  <2>1. Boot # <<>>
    BY SchedAssumption
  <2> QED BY <1>6, <1>13, <1>14, <1>18, <2>1
<1>23. /\ Members(K, {}, 0) = Booted /\ Runnable(K, {}) = Booted
       /\ \A a \in ArrayId \ {0} : Members(K, {}, a) = {}
  <2>1. K.task = task
    BY Current
  <2> QED BY <1>12, <1>19, <2>1 DEF Members, Runnable, NULL, ArrayId
<1>24. \A a \in ArrayId : nr_active[a] = Cardinality(Members(K, {}, a))
  <2>1. Cardinality({}) = 0
    BY FS_EmptySet
  <2> QED BY <1>12, <1>14, <1>23, <2>1
<1>25. nr_running = Cardinality(Runnable(K, {})) + 0
  BY <1>12, <1>14, <1>23
<1>26. /\ K.active = active /\ K.bitmap = bitmap /\ K.queue = queue /\ K.nr_active = nr_active
       /\ K.nr_running = nr_running /\ K.task = task
  BY DEF K
<1> QED BY <1>17, <1>20, <1>21, <1>22, <1>24, <1>25, <1>26 DEF Good

\* The invariant holds at the start.
LEMMA InitIInv ==
  ASSUME Init
  PROVE  IInv
<1>1. Good(K, {}, 0)
  BY InitGood
<1>2. /\ Booted \subseteq Pid /\ InitTask \in Booted /\ curr = InitTask /\ InitTask \in Pid
      /\ pc = [p \in Pid |-> IF p \in Booted THEN "run" ELSE "free"]
      /\ kid = [p \in Pid |-> None] /\ vfork_done = [p \in Pid |-> None]
      /\ parent = [p \in Pid |-> IF p \in Booted THEN InitTask ELSE None]
      /\ tail = "none" /\ last = None /\ remaining_switches = 0 /\ LOG_SWITCHES \in Nat
  BY BootCount, SchedAssumption DEF Init
<1>3. ASSUME NEW p \in Pid
      PROVE  task[p].state = "RUNNING" /\ (Queued(p) <=> p \in Booted)
  <2>1. /\ BlankTask \in TaskRecord /\ BlankTask.state = "RUNNING" /\ ~ Enqueued(BlankTask)
        /\ BlankTask.policy = "OTHER" /\ Idle # p
    BY NewRecords, PidAssumption
  <2>2. BootTask.state = "RUNNING" /\ BootTask.array = 0 /\ BootTask.policy = "OTHER"
    BY <2>1 DEF BootTask, TaskRecord
  <2>3. Enqueued(BootTask)
    BY <2>2 DEF Enqueued, is_overdue, is_short, NULL
  <2>4. task[p] = IF p \in Booted THEN BootTask ELSE BlankTask
    BY <1>2, <2>1 DEF Init, Task
  <2> QED BY <2>1, <2>2, <2>3, <2>4 DEF Queued
<1>4. ProcTypes
  BY <1>2 DEF ProcTypes, Locations
<1>5. Located /\ Copied /\ NoLostTask
  BY <1>2, <1>3 DEF Located, Copied, Forking, Hashed, NoLostTask
<1> QED BY <1>1, <1>4, <1>5 DEF IInv

-----------------------------------------------------------------------------
(* All steps together.                                                     *)

\* A system call keeps the invariant.
LEMMA SysCallStep ==
  ASSUME IInv, NEW p \in Pid, SysCall(p)
  PROVE  IInv'
<1>1. CASE Sleep(p) \/ ForkBlock(p) \/ VforkBlock(p) \/ ExitBlock(p) \/ WaitEnter(p)
  BY <1>1, SleepStep
<1>2. CASE YieldShort(p) \/ WaitBlock(p)
  BY <1>2, GoOnStep
<1>3. CASE SetScheduler(p)
  BY <1>3, SetSchedulerStep
<1>4. CASE Nice(p)
  BY <1>4, NiceStep
<1>5. CASE Yield(p)
  BY <1>5, YieldStep
<1>6. CASE \E c \in Pid, vfork \in BOOLEAN : ForkCopy(p, c, vfork)
  BY <1>6, ForkCopyStep
<1>7. CASE ForkFail(p)
  BY <1>7, ForkFailStep
<1>8. CASE ForkSplit(p)
  BY <1>8, ForkSplitStep
<1>9. CASE ForkWake(p)
  BY <1>9, ForkWakeStep
<1>10. CASE VforkReturn(p)
  BY <1>10, VforkReturnStep
<1>11. CASE Exec(p)
  BY <1>11, ExecStep
<1>12. CASE ExitBegin(p)
  BY <1>12, ExitBeginStep
<1>13. CASE ExitNotify(p)
  BY <1>13, ExitNotifyStep
<1>14. CASE Reap(p)
  BY <1>14, ReapStep
<1>15. CASE WaitReturn(p)
  BY <1>15, WaitReturnStep
<1> QED BY <1>1, <1>2, <1>3, <1>4, <1>5, <1>6, <1>7, <1>8, <1>9, <1>10, <1>11, <1>12, <1>13,
           <1>14, <1>15 DEF SysCall

\* So does every step, and one that changes nothing.
LEMMA NextIInv ==
  ASSUME IInv, [Next]_vars
  PROVE  IInv'
<1>1. CASE Tick
  BY <1>1, TickStep
<1>2. CASE \E p \in Pid : WakeUp(p)
  BY <1>2, WakeUpStep
<1>3. CASE Schedule
  BY <1>3, ScheduleStep
<1>4. CASE TailCheck
  BY <1>4, TailCheckStep
<1>5. CASE TailClear
  BY <1>5, TailClearStep
<1>6. CASE \E p \in Pid : SysCall(p)
  BY <1>6, SysCallStep
<1>7. CASE UNCHANGED vars
  <2>1. /\ UNCHANGED rqVars /\ pc' = pc /\ kid' = kid /\ parent' = parent
        /\ vfork_done' = vfork_done /\ tail' = tail /\ last' = last
        /\ remaining_switches' = remaining_switches
    BY <1>7 DEF vars, procVars, cpuVars
  <2>2. K' = K /\ task' = task /\ curr' = curr
    BY <2>1, Current DEF rqVars
  <2>3. Good(K, {}, 0)'
    BY <2>2 DEF IInv
  <2>4. ProcTypes'
    BY <2>1, <2>2 DEF IInv, ProcTypes
  <2>5. Located' /\ Copied' /\ NoLostTask'
    BY <2>1, <2>2 DEF IInv, Located, Copied, NoLostTask, Forking, Hashed, Queued
  <2> QED BY <2>3, <2>4, <2>5 DEF IInv
<1> QED BY <1>1, <1>2, <1>3, <1>4, <1>5, <1>6, <1>7 DEF Next

\* IInv, which is inductive, holds in every state of the kernel the model reaches.
THEOREM SchedInv == Spec => []IInv
<1>1. Init => IInv
  BY InitIInv
<1>2. IInv /\ [Next]_vars => IInv'
  BY NextIInv
<1> QED BY <1>1, <1>2, PTL DEF Spec

-----------------------------------------------------------------------------
(* What the invariant says.                                                *)

\* Every field of the runqueue and of every task_struct stays in its range.
THEOREM SchedTypeOK == Spec => []TypeOK
<1>1. IInv => TypeOK
  <2> SUFFICES ASSUME IInv PROVE TypeOK
    OBVIOUS
  <2>1. K \in Kernel /\ \A p \in Pid : task[p].prio \in Prio
    BY Current DEF IInv, Good, Typed, Proper
  <2>2. /\ active \in {0, 1} /\ nr_active \in [ArrayId -> Int]
        /\ bitmap \subseteq ArrayId \X Prio /\ queue \in [ArrayId \X Prio -> Seq(Pid)]
        /\ overdue \in Seq(Pid) /\ nr_running \in Int /\ nr_uninterruptible \in Int
        /\ curr \in Task /\ task \in [Task -> TaskRecord]
    BY <2>1 DEF K, Kernel
  <2> QED BY <2>1, <2>2 DEF IInv, ProcTypes, TypeOK
<1> QED BY <1>1, SchedInv, PTL

\* Home is Slot: the fields of a task name at most one list, and it is on it.
LEMMA AtHome ==
  ASSUME IInv
  PROVE  OneHome
<1>1. Placed(K, {}) /\ K.queue = queue /\ K.overdue = overdue /\ K.task = task
  BY DEF IInv, Good, K
<1>2. /\ \A p \in Pid, h \in ArrayId \X Prio :
           p \in Elements(queue[h]) <=> h = Slot(task[p])
      /\ \A p \in Pid : p \in Elements(overdue) <=> is_overdue(task[p]) /\ task[p].queued
      /\ \A h \in ArrayId \X Prio : NoDuplicates(queue[h])
      /\ NoDuplicates(overdue)
  BY <1>1 DEF Placed
<1>3. ASSUME NEW p \in Pid
      PROVE  {h \in Lists : OnList(p, h)} = Home(p)
  <2>1. Proper(task[p])
    BY Facts
  <2>2. task[p].prio \in Prio /\ task[p].array \in ArrayId \cup {NULL}
    BY <2>1 DEF Proper, TaskRecord
  <2>3. {h \in Lists : OnList(p, h)} = {h \in ArrayId \X Prio : h = Slot(task[p])}
    BY <1>2 DEF Lists, OnList
  <2>4. CASE task[p].array = NULL
    <3>1. Slot(task[p]) \notin ArrayId \X Prio
      BY <2>4 DEF Slot, ArrayId, NULL
    <3> QED BY <2>3, <2>4, <3>1 DEF Home
  <2>5. CASE task[p].array # NULL
    <3>1. Slot(task[p]) \in ArrayId \X Prio
      BY <2>2, <2>5 DEF Slot
    <3> QED BY <2>3, <2>5, <3>1 DEF Home, Slot
  <2> QED BY <2>4, <2>5
<1> QED BY <1>2, <1>3 DEF OneHome, OnOverdue, Lists

\* A list_del always takes a task off the list it was put on: p->array and p->prio
\* name the one list p is on, after any system calls and interrupts, for any number of
\* tasks, arrays of priorities, slices and trials.
THEOREM SchedOneHome == Spec => []OneHome
  BY SchedInv, AtHome, PTL

\* setscheduler, fork, yield, the end of a trial and the switch of the arrays leave a
\* task in no array that is wrong for its policy.
THEOREM SchedArrayFitsPolicy == Spec => []ArrayFitsPolicy
<1>1. IInv => ArrayFitsPolicy
  BY Current DEF IInv, Good, Fits, ArrayFitsPolicy
<1> QED BY <1>1, SchedInv, PTL

\* Wake-ups, schedule() and the system calls never leave a runnable task off the queues.
THEOREM SchedNoLostTask == Spec => []NoLostTask
<1>1. IInv => NoLostTask
  BY DEF IInv
<1> QED BY <1>1, SchedInv, PTL

\* nr_active, the bitmap and nr_running, from which schedule() decides where to look
\* for a task, say what is in the queues.
THEOREM SchedCountersAgree == Spec => []CountersAgree
<1>1. IInv => CountersAgree
  <2> SUFFICES ASSUME IInv PROVE CountersAgree
    OBVIOUS
  <2>1. /\ \A a \in ArrayId : nr_active[a] = Cardinality(Members(K, {}, a))
        /\ bitmap = {h \in ArrayId \X Prio : queue[h] # <<>>}
        /\ nr_running = Cardinality(Runnable(K, {})) + 0
        /\ nr_running \in Int
    BY DEF IInv, Good, K, Typed, Kernel
  <2>2. \A a \in ArrayId : Members(K, {}, a) = QueuedOn(a)
    BY Current DEF Members, QueuedOn
  <2>3. Runnable(K, {}) = {p \in Pid : Queued(p)}
    BY Current DEF Runnable, Queued
  <2>4. nr_running = Cardinality(Runnable(K, {}))
    <3>1. IsFiniteSet(Runnable(K, {}))
      BY PidAssumption, FS_Subset DEF Runnable
    <3>2. Cardinality(Runnable(K, {})) \in Nat
      BY <3>1, FS_CardinalityType
    <3> QED BY <2>1, <3>2
  <2> QED BY <2>1, <2>2, <2>3, <2>4 DEF CountersAgree, Lists
<1> QED BY <1>1, SchedInv, PTL

-----------------------------------------------------------------------------
(* Steps that bring no news.                                               *)

\* A task in a system call, about to call schedule() in none, is RUNNING.
LEMMA Awake ==
  ASSUME IInv, Expecting, NEW p \in Pid, p = curr, pc[p] \notin Bound \cup {"dead"}
  PROVE  task[p].state = "RUNNING"
  BY DEF Expecting, Drowsy

\* Without a new zombie, and a new parent of one, no task has more to reap.
LEMMA NoNews ==
  ASSUME \A c \in Pid : task'[c].state = "ZOMBIE" /\ Hashed(c)'
                          => task[c].state = "ZOMBIE" /\ Hashed(c) /\ parent'[c] = parent[c],
         NEW q \in Pid, Zombies(q) = {}
  PROVE  Zombies(q)' = {}
<1> SUFFICES ASSUME NEW c \in Zombies(q)' PROVE FALSE
  OBVIOUS
<1>1. c \in Pid /\ parent'[c] = q /\ Hashed(c)' /\ c # q /\ task'[c].state = "ZOMBIE"
  BY DEF Zombies, Children
<1>2. task[c].state = "ZOMBIE" /\ Hashed(c) /\ parent[c] = q
  BY <1>1
<1> QED BY <1>1, <1>2 DEF Zombies, Children

\* No process moves, and some are woken.
LEMMA Unmoved ==
  ASSUME IInv, Expecting, curr' = curr, UNCHANGED <<pc, procVars>>,
         tail = "none" => tail' = "none",
         \A q \in Pid : task'[q].state \in {task[q].state, "RUNNING"}
  PROVE  Expecting'
<1>1. pc' = pc /\ kid' = kid /\ parent' = parent /\ vfork_done' = vfork_done
  BY DEF procVars
<1>2. BoundIsCurrent'
  BY <1>1 DEF Expecting, BoundIsCurrent
<1>3. Drowsy'
  BY <1>1 DEF Expecting, Drowsy
<1>4. VforkPending'
  BY <1>1 DEF Expecting, VforkPending, Forking, Hashed
<1>5. NothingToReap'
  <2> SUFFICES ASSUME NEW q \in Pid, pc'[q] \in {"wblock", "wait"}, task'[q].state = "INTERRUPTIBLE"
               PROVE  Zombies(q)' = {}
    BY DEF NothingToReap
  <2>1. Zombies(q) = {}
    BY <1>1 DEF Expecting, NothingToReap
  <2> QED BY <1>1, <2>1, NoNews DEF Hashed
<1>6. OwnParent'
  BY <1>1 DEF Expecting, OwnParent
<1> QED BY <1>2, <1>3, <1>4, <1>5, <1>6 DEF Expecting

\* The running task moves on to l, and tells nobody.
LEMMA Proceeds ==
  ASSUME IInv, Expecting, NEW p \in Pid, p = curr, tail = "none",
         NEW l \in Locations \ {"copy", "free", "vwait", "wait"}, pc' = [pc EXCEPT ![p] = l],
         curr' = curr, tail' = tail, parent' = parent, vfork_done' = vfork_done,
         \A q \in Pid \ {p} : kid'[q] = kid[q] /\ task'[q].state = task[q].state,
         task'[p].state = "RUNNING" \/ l \in Bound,
         task'[p].state = "ZOMBIE" => task[p].state = "ZOMBIE",
         l \in {"fork1", "fblock", "fork2"} => Forking(p) /\ kid'[p] = kid[p],
         l = "vblock" => pc[p] = "vwait" /\ kid'[p] = kid[p] /\ vfork_done[kid[p]] # None,
         l = "wblock" => Zombies(p) = {}
  PROVE  Expecting'
<1>1. pc'[p] = l /\ Hashed(p) /\ Hashed(p)' /\ \A q \in Pid \ {p} : pc'[q] = pc[q]
  BY Running DEF IInv, ProcTypes, Hashed
<1>2. BoundIsCurrent'
  BY <1>1 DEF Expecting, BoundIsCurrent
<1>3. Drowsy'
  BY <1>1 DEF Expecting, Drowsy
<1>4. VforkPending'
  <2> SUFFICES ASSUME NEW q \in Pid
               PROVE  /\ Forking(q)' => vfork_done'[kid'[q]] \in {q, None}
                      /\ pc'[q] \in {"vblock", "vwait"} =>
                           /\ kid'[q] \in Pid /\ Hashed(kid[q])' /\ kid'[q] = kid[q]
                           /\ parent'[kid'[q]] = q /\ vfork_done'[kid'[q]] \in {q, None}
                           /\ task'[q].state = "UNINTERRUPTIBLE" => vfork_done'[kid'[q]] = q
    BY DEF VforkPending, Hashed
  <2>1. /\ Forking(q) => vfork_done[kid[q]] \in {q, None}
        /\ pc[q] \in {"vblock", "vwait"} =>
             /\ kid[q] \in Pid /\ Hashed(kid[q]) /\ parent[kid[q]] = q
             /\ vfork_done[kid[q]] \in {q, None}
             /\ task[q].state = "UNINTERRUPTIBLE" => vfork_done[kid[q]] = q
    BY DEF Expecting, VforkPending
  <2>2. \A c \in Pid : Hashed(c) => pc'[c] \notin {"copy", "free"}
    BY <1>1 DEF Hashed
  <2>3. CASE q = p
    BY <1>1, <2>1, <2>2, <2>3 DEF Forking, Hashed
  <2>4. CASE q # p
    BY <1>1, <2>1, <2>2, <2>4 DEF Forking, Hashed
  <2> QED BY <2>3, <2>4
<1>5. NothingToReap'
  <2> SUFFICES ASSUME NEW q \in Pid, pc'[q] \in {"wblock", "wait"}, task'[q].state = "INTERRUPTIBLE"
               PROVE  Zombies(q)' = {}
    BY DEF NothingToReap
  <2>1. Zombies(q) = {}
    BY <1>1 DEF Expecting, NothingToReap
  <2>2. \A c \in Pid : task'[c].state = "ZOMBIE" /\ Hashed(c)'
                         => task[c].state = "ZOMBIE" /\ Hashed(c) /\ parent'[c] = parent[c]
    BY <1>1 DEF Hashed
  <2> QED BY <2>1, <2>2, NoNews
<1>6. OwnParent'
  BY DEF Expecting, OwnParent
<1> QED BY <1>2, <1>3, <1>4, <1>5, <1>6 DEF Expecting

\* Exec, or exit, gives the memory of the parent back: the parent, if it slept for
\* that, is awake, and if it is about to it is not the one that runs.
LEMMA Leaves ==
  ASSUME IInv, Expecting, NEW p \in Pid, p = curr, tail = "none", pc[p] = "run",
         NEW l \in {"run", "exit1"}, pc' = [pc EXCEPT ![p] = l],
         kid' = kid, parent' = parent, tail' = tail,
         vfork_done' = [vfork_done EXCEPT ![p] = None], Tells(p)
  PROVE  Expecting'
<1>1. pc'[p] = l /\ \A q \in Pid \ {p} : pc'[q] = pc[q]
  BY DEF IInv, ProcTypes
<1>2. vfork_done'[p] = None /\ \A q \in Pid \ {p} : vfork_done'[q] = vfork_done[q]
  BY DEF IInv, ProcTypes
<1>3. /\ curr' = curr
      /\ \A q \in Pid : task'[q].state \in {task[q].state, "RUNNING"}
      /\ \A q \in Pid : /\ q = vfork_done[p] /\ pc[q] = "vwait" /\ task[q].state = "UNINTERRUPTIBLE"
                        => task'[q].state = "RUNNING"
  BY DEF Tells, Awakens, AsWas, Touches
<1>4. task[p].state = "RUNNING"
  BY Awake DEF Bound
<1>5. BoundIsCurrent'
  BY <1>1, <1>3 DEF Expecting, BoundIsCurrent, Bound
<1>6. Drowsy'
  BY <1>1, <1>3, <1>4 DEF Expecting, Drowsy
<1>7. VforkPending'
  <2> SUFFICES ASSUME NEW q \in Pid
               PROVE  /\ Forking(q)' => vfork_done'[kid[q]] \in {q, None}
                      /\ pc'[q] \in {"vblock", "vwait"} =>
                           /\ kid[q] \in Pid /\ pc'[kid[q]] \notin {"copy", "free"}
                           /\ parent[kid[q]] = q /\ vfork_done'[kid[q]] \in {q, None}
                           /\ task'[q].state = "UNINTERRUPTIBLE" => vfork_done'[kid[q]] = q
    BY DEF VforkPending, Hashed
  <2>1. /\ Forking(q) => vfork_done[kid[q]] \in {q, None} /\ kid[q] \in Pid
        /\ pc[q] \in {"vblock", "vwait"} =>
             /\ kid[q] \in Pid /\ pc[kid[q]] \notin {"copy", "free"} /\ parent[kid[q]] = q
             /\ vfork_done[kid[q]] \in {q, None}
             /\ task[q].state = "UNINTERRUPTIBLE" => vfork_done[kid[q]] = q
    BY DEF Expecting, VforkPending, IInv, Copied, Hashed
  <2>2. Forking(q)' => Forking(q) /\ vfork_done'[kid[q]] \in {q, None}
    BY <1>1, <1>2, <2>1 DEF Forking
  <2> SUFFICES ASSUME pc'[q] \in {"vblock", "vwait"}
               PROVE  /\ kid[q] \in Pid /\ pc'[kid[q]] \notin {"copy", "free"}
                      /\ parent[kid[q]] = q /\ vfork_done'[kid[q]] \in {q, None}
                      /\ task'[q].state = "UNINTERRUPTIBLE" => vfork_done'[kid[q]] = q
    BY <2>2
  <2>3. q # p /\ pc[q] \in {"vblock", "vwait"}
    BY <1>1
  <2>4. kid[q] \in Pid /\ pc'[kid[q]] \notin {"copy", "free"} /\ parent[kid[q]] = q
        /\ vfork_done'[kid[q]] \in {q, None}
    BY <1>1, <1>2, <2>1, <2>3
  <2>5. ASSUME task'[q].state = "UNINTERRUPTIBLE" PROVE vfork_done'[kid[q]] = q
    <3>1. task[q].state = "UNINTERRUPTIBLE" /\ vfork_done[kid[q]] = q
      BY <1>3, <2>1, <2>3, <2>5
    <3>2. CASE kid[q] # p
      BY <1>2, <2>4, <3>1, <3>2
    <3>3. CASE kid[q] = p
      <4>1. pc[q] = "vwait"
        BY <2>3 DEF Expecting, BoundIsCurrent, Bound
      <4> QED BY <1>3, <2>5, <3>1, <3>3, <4>1
    <3> QED BY <3>2, <3>3
  <2> QED BY <2>4, <2>5
<1>8. NothingToReap'
  <2> SUFFICES ASSUME NEW q \in Pid, pc'[q] \in {"wblock", "wait"}, task'[q].state = "INTERRUPTIBLE"
               PROVE  Zombies(q)' = {}
    BY DEF NothingToReap
  <2>1. Zombies(q) = {}
    BY <1>1, <1>3 DEF Expecting, NothingToReap
  <2>2. \A c \in Pid : task'[c].state = "ZOMBIE" /\ Hashed(c)'
                         => task[c].state = "ZOMBIE" /\ Hashed(c) /\ parent'[c] = parent[c]
    BY <1>1, <1>3, <1>4 DEF Hashed
  <2> QED BY <2>1, <2>2, NoNews
<1>9. OwnParent'
  BY DEF Expecting, OwnParent
<1> QED BY <1>5, <1>6, <1>7, <1>8, <1>9 DEF Expecting

-----------------------------------------------------------------------------
(* The context switch.                                                     *)

\* A new task starts to run, and the one that called schedule() goes on after the call.
LEMMA Resumes ==
  ASSUME Schedule
  PROVE  /\ kid' = kid /\ parent' = parent /\ vfork_done' = vfork_done
         /\ \A q \in Pid : \/ pc'[q] = pc[q] /\ q # curr
                           \/ pc[q] = "new" /\ pc'[q] = "run"
                           \/ q = curr /\ pc'[q] = After(pc[q])
<1>1. PICK next : pc' = [p \in Pid |-> IF p = next /\ next \in Pid /\ pc[next] = "new" THEN "run"
                                      ELSE IF p = curr THEN After(pc[p]) ELSE pc[p]]
  BY Zenon DEF Schedule
<1>2. kid' = kid /\ parent' = parent /\ vfork_done' = vfork_done
  BY DEF Schedule, procVars
<1> QED BY <1>1, <1>2

\* After schedule() no task is about to call it, and the one that runs is RUNNING.
LEMMA Switched ==
  ASSUME IInv, Expecting, Schedule
  PROVE  Expecting'
<1>1. /\ kid' = kid /\ parent' = parent /\ vfork_done' = vfork_done
      /\ \A q \in Pid : \/ pc'[q] = pc[q] /\ q # curr
                        \/ pc[q] = "new" /\ pc'[q] = "run"
                        \/ q = curr /\ pc'[q] = After(pc[q])
  BY Resumes
<1>2. Switches
  BY ScheduleStep
<1>3. \A q \in Pid : /\ task'[q].state \in {task[q].state, "RUNNING"}
                     /\ q = curr' => task'[q].state = "RUNNING"
  BY <1>2 DEF Switches
<1>4. \A q \in Pid : q = curr => pc[q] # "scan"
  BY PidAssumption DEF Schedule, AtSchedule, Expecting, BoundIsCurrent, Bound
<1>5. \A q \in Pid : pc'[q] \notin Bound
  <2> TAKE q \in Pid
  <2>1. q # curr => pc[q] \notin Bound
    BY DEF Expecting, BoundIsCurrent
  <2>2. CASE pc'[q] = pc[q] /\ q # curr
    BY <2>1, <2>2
  <2>3. CASE pc[q] = "new" /\ pc'[q] = "run"
    BY <2>3 DEF Bound
  <2>4. CASE q = curr /\ pc'[q] = After(pc[q])
    BY <1>4, <2>4 DEF After, Bound
  <2> QED BY <1>1, <2>2, <2>3, <2>4
<1>6. \A q \in Pid : /\ Forking(q)' => Forking(q)
                     /\ pc'[q] \in {"vblock", "vwait"} => pc[q] \in {"vblock", "vwait"}
                     /\ pc'[q] \in {"wblock", "wait"} => pc[q] \in {"wblock", "wait"}
                     /\ Hashed(q)' <=> Hashed(q)
  BY <1>1 DEF Forking, Hashed, After
<1>7. BoundIsCurrent' /\ Drowsy'
  BY <1>3, <1>5 DEF BoundIsCurrent, Drowsy
<1>8. VforkPending'
  <2> SUFFICES ASSUME NEW q \in Pid
               PROVE  /\ Forking(q)' => vfork_done[kid[q]] \in {q, None}
                      /\ pc'[q] \in {"vblock", "vwait"} =>
                           /\ kid[q] \in Pid /\ pc'[kid[q]] \notin {"copy", "free"}
                           /\ parent[kid[q]] = q /\ vfork_done[kid[q]] \in {q, None}
                           /\ task'[q].state = "UNINTERRUPTIBLE" => vfork_done[kid[q]] = q
    BY <1>1 DEF VforkPending, Hashed
  <2>1. /\ Forking(q) => vfork_done[kid[q]] \in {q, None}
        /\ pc[q] \in {"vblock", "vwait"} =>
             /\ kid[q] \in Pid /\ Hashed(kid[q]) /\ parent[kid[q]] = q
             /\ vfork_done[kid[q]] \in {q, None}
             /\ task[q].state = "UNINTERRUPTIBLE" => vfork_done[kid[q]] = q
    BY DEF Expecting, VforkPending
  <2>2. \A c \in Pid : Hashed(c) => pc'[c] \notin {"copy", "free"}
    BY <1>6 DEF Hashed
  <2> QED BY <1>3, <1>6, <2>1, <2>2
<1>9. NothingToReap'
  <2> SUFFICES ASSUME NEW q \in Pid, pc'[q] \in {"wblock", "wait"}, task'[q].state = "INTERRUPTIBLE"
               PROVE  Zombies(q)' = {}
    BY DEF NothingToReap
  <2>1. Zombies(q) = {}
    BY <1>3, <1>6 DEF Expecting, NothingToReap
  <2>2. \A c \in Pid : task'[c].state = "ZOMBIE" /\ Hashed(c)'
                         => task[c].state = "ZOMBIE" /\ Hashed(c) /\ parent'[c] = parent[c]
    BY <1>1, <1>3, <1>6
  <2> QED BY <2>1, <2>2, NoNews
<1>10. OwnParent'
  BY <1>1 DEF Expecting, OwnParent
<1> QED BY <1>7, <1>8, <1>9, <1>10 DEF Expecting

-----------------------------------------------------------------------------
(* Tasks that come and go.                                                 *)

\* The copy is nobody's child yet, and belongs to a vfork of the forking task if to any.
LEMMA Copies ==
  ASSUME IInv, Expecting, NEW p \in Pid, NEW c \in Pid, NEW vfork \in BOOLEAN, ForkCopy(p, c, vfork)
  PROVE  Expecting'
<1>1. /\ p = curr /\ tail = "none" /\ pc[p] = "run" /\ pc[c] = "free"
      /\ pc' = [pc EXCEPT ![p] = "fork1", ![c] = "copy"] /\ kid' = [kid EXCEPT ![p] = c]
      /\ vfork_done' = [vfork_done EXCEPT ![c] = IF vfork THEN p ELSE None]
      /\ parent' = parent /\ tail' = tail
  BY DEF ForkCopy, Call, At, cpuVars
<1>2. Touches({c}) /\ p # c /\ task'[c].state = "UNINTERRUPTIBLE"
  BY ForkCopyStep
<1>3. /\ pc'[p] = "fork1" /\ pc'[c] = "copy" /\ \A q \in Pid \ {p, c} : pc'[q] = pc[q]
      /\ kid'[p] = c /\ \A q \in Pid \ {p} : kid'[q] = kid[q]
      /\ vfork_done'[c] \in {p, None} /\ \A q \in Pid \ {c} : vfork_done'[q] = vfork_done[q]
  BY <1>1, <1>2 DEF IInv, ProcTypes
<1>4. curr' = curr /\ \A q \in Pid \ {c} : task'[q].state = task[q].state
  BY <1>2 DEF Touches
<1>5. task[p].state = "RUNNING"
  BY <1>1, Awake DEF Bound
<1>6. BoundIsCurrent'
  BY <1>1, <1>3, <1>4 DEF Expecting, BoundIsCurrent, Bound
<1>7. Drowsy'
  BY <1>1, <1>2, <1>4, <1>5 DEF Drowsy
<1>8. VforkPending'
  <2> SUFFICES ASSUME NEW q \in Pid
               PROVE  /\ Forking(q)' => vfork_done'[kid'[q]] \in {q, None}
                      /\ pc'[q] \in {"vblock", "vwait"} =>
                           /\ kid'[q] \in Pid /\ pc'[kid'[q]] \notin {"copy", "free"}
                           /\ parent[kid'[q]] = q /\ vfork_done'[kid'[q]] \in {q, None}
                           /\ task'[q].state = "UNINTERRUPTIBLE" => vfork_done'[kid'[q]] = q
    BY <1>1 DEF VforkPending, Hashed
  <2>1. /\ Forking(q) => vfork_done[kid[q]] \in {q, None} /\ kid[q] \in Pid /\ pc[kid[q]] = "copy"
        /\ pc[q] \in {"vblock", "vwait"} =>
             /\ kid[q] \in Pid /\ pc[kid[q]] \notin {"copy", "free"} /\ parent[kid[q]] = q
             /\ vfork_done[kid[q]] \in {q, None}
             /\ task[q].state = "UNINTERRUPTIBLE" => vfork_done[kid[q]] = q
    BY DEF Expecting, VforkPending, IInv, Copied, Hashed
  <2>2. CASE q = p
    BY <1>3, <2>2
  <2>3. CASE q = c
    BY <1>3, <2>3 DEF Forking
  <2>4. CASE q \notin {p, c}
    <3>1. pc'[q] = pc[q] /\ kid'[q] = kid[q] /\ task'[q].state = task[q].state
      BY <1>3, <1>4, <2>4
    <3>2. Forking(q)' => Forking(q) /\ kid[q] # c
      BY <1>1, <2>1, <3>1 DEF Forking
    <3>3. pc[q] \in {"vblock", "vwait"} => kid[q] # c /\ pc'[kid[q]] \notin {"copy", "free"}
      BY <1>1, <1>3, <2>1
    <3> QED BY <1>3, <2>1, <3>1, <3>2, <3>3
  <2> QED BY <2>2, <2>3, <2>4
<1>9. NothingToReap'
  <2> SUFFICES ASSUME NEW q \in Pid, pc'[q] \in {"wblock", "wait"}, task'[q].state = "INTERRUPTIBLE"
               PROVE  Zombies(q)' = {}
    BY DEF NothingToReap
  <2>1. Zombies(q) = {}
    BY <1>3, <1>4 DEF Expecting, NothingToReap
  <2>2. \A d \in Pid : task'[d].state = "ZOMBIE" /\ Hashed(d)'
                         => task[d].state = "ZOMBIE" /\ Hashed(d) /\ parent'[d] = parent[d]
    BY <1>1, <1>2, <1>3, <1>4 DEF Hashed
  <2> QED BY <2>1, <2>2, NoNews
<1>10. OwnParent'
  BY <1>1 DEF Expecting, OwnParent
<1> QED BY <1>6, <1>7, <1>8, <1>9, <1>10 DEF Expecting

\* Nobody waits for a copy that do_fork gives back.
LEMMA GivesBack ==
  ASSUME IInv, Expecting, NEW p \in Pid, ForkFail(p)
  PROVE  Expecting'
<1>1. PICK c : c = kid[p]
  OBVIOUS
<1>2. PICK l \in {"ret", "run"} : pc' = [pc EXCEPT ![p] = l, ![c] = "free"]
  BY <1>1 DEF ForkFail
<1>3. /\ p = curr /\ tail = "none" /\ pc[p] = "fork1" /\ kid' = [kid EXCEPT ![p] = None]
      /\ vfork_done' = [vfork_done EXCEPT ![c] = None] /\ parent' = parent /\ tail' = tail
  BY <1>1 DEF ForkFail, At, cpuVars
<1>4. Touches({c}) /\ c \in Pid \ {p} /\ task'[c].state = "RUNNING"
  BY <1>1, ForkFailStep
<1>5. Forking(p) /\ pc[c] = "copy"
  BY <1>1, <1>3 DEF Forking, IInv, Copied
<1>6. /\ pc'[p] = l /\ pc'[c] = "free" /\ \A q \in Pid \ {p, c} : pc'[q] = pc[q]
      /\ \A q \in Pid \ {p} : kid'[q] = kid[q]
      /\ \A q \in Pid \ {c} : vfork_done'[q] = vfork_done[q]
  BY <1>2, <1>3, <1>4 DEF IInv, ProcTypes
<1>7. curr' = curr /\ \A q \in Pid \ {c} : task'[q].state = task[q].state
  BY <1>4 DEF Touches
<1>8. task[p].state = "RUNNING"
  BY <1>3, Awake DEF Bound
<1>9. BoundIsCurrent'
  BY <1>3, <1>6, <1>7 DEF Expecting, BoundIsCurrent, Bound
<1>10. Drowsy'
  BY <1>3, <1>4, <1>7, <1>8 DEF Drowsy
<1>11. VforkPending'
  <2> SUFFICES ASSUME NEW q \in Pid
               PROVE  /\ Forking(q)' => vfork_done'[kid'[q]] \in {q, None}
                      /\ pc'[q] \in {"vblock", "vwait"} =>
                           /\ kid'[q] \in Pid /\ pc'[kid'[q]] \notin {"copy", "free"}
                           /\ parent[kid'[q]] = q /\ vfork_done'[kid'[q]] \in {q, None}
                           /\ task'[q].state = "UNINTERRUPTIBLE" => vfork_done'[kid'[q]] = q
    BY <1>3 DEF VforkPending, Hashed
  <2>1. /\ Forking(q) => /\ vfork_done[kid[q]] \in {q, None} /\ kid[q] \in Pid /\ pc[kid[q]] = "copy"
                         /\ q # p => kid[q] # c
        /\ pc[q] \in {"vblock", "vwait"} =>
             /\ kid[q] \in Pid /\ pc[kid[q]] \notin {"copy", "free"} /\ parent[kid[q]] = q
             /\ vfork_done[kid[q]] \in {q, None}
             /\ task[q].state = "UNINTERRUPTIBLE" => vfork_done[kid[q]] = q
    BY <1>1, <1>5 DEF Expecting, VforkPending, IInv, Copied, Hashed
  <2>2. CASE q \in {p, c}
    BY <1>6, <2>2 DEF Forking
  <2>3. CASE q \notin {p, c}
    <3>1. pc'[q] = pc[q] /\ kid'[q] = kid[q] /\ task'[q].state = task[q].state
      BY <1>6, <1>7, <2>3
    <3>2. Forking(q)' => Forking(q) /\ kid[q] # c
      BY <2>1, <2>3, <3>1 DEF Forking
    <3>3. pc[q] \in {"vblock", "vwait"} => kid[q] # c /\ pc'[kid[q]] \notin {"copy", "free"}
      BY <1>5, <1>6, <2>1
    <3> QED BY <1>6, <2>1, <3>1, <3>2, <3>3
  <2> QED BY <2>2, <2>3
<1>12. NothingToReap'
  <2> SUFFICES ASSUME NEW q \in Pid, pc'[q] \in {"wblock", "wait"}, task'[q].state = "INTERRUPTIBLE"
               PROVE  Zombies(q)' = {}
    BY DEF NothingToReap
  <2>1. Zombies(q) = {}
    BY <1>6, <1>7 DEF Expecting, NothingToReap
  <2>2. \A d \in Pid : task'[d].state = "ZOMBIE" /\ Hashed(d)'
                         => task[d].state = "ZOMBIE" /\ Hashed(d) /\ parent'[d] = parent[d]
    BY <1>3, <1>4, <1>6, <1>7 DEF Hashed
  <2> QED BY <2>1, <2>2, NoNews
<1>13. OwnParent'
  BY <1>3 DEF Expecting, OwnParent
<1> QED BY <1>9, <1>10, <1>11, <1>12, <1>13 DEF Expecting

\* A vfork parent starts to wait for a child that is its own, and awake.
LEMMA Delivers ==
  ASSUME IInv, Expecting, NEW p \in Pid, ForkWake(p)
  PROVE  Expecting'
<1>1. PICK c \in Pid \ {p} : c = kid[p] /\ Touches({c}) /\ task'[c].state = "RUNNING" /\ Queued(c)'
  BY ForkWakeStep
<1>2. PICK vfork \in BOOLEAN : vfork <=> vfork_done[c] # None
  OBVIOUS
<1>3. /\ p = curr /\ tail = "none" /\ pc[p] = "fork2"
      /\ pc' = [pc EXCEPT ![p] = IF vfork THEN "vwait" ELSE "ret", ![c] = "new"]
      /\ kid' = [kid EXCEPT ![p] = IF vfork THEN c ELSE None]
      /\ parent' = [parent EXCEPT ![c] = p]
      /\ vfork_done' = vfork_done /\ tail' = tail
  BY <1>1, <1>2 DEF ForkWake, At, cpuVars
<1>4. Forking(p) /\ pc[c] = "copy" /\ vfork_done[c] \in {p, None}
  BY <1>1, <1>3 DEF Forking, IInv, Copied, Expecting, VforkPending
<1>5. /\ pc'[p] = (IF vfork THEN "vwait" ELSE "ret") /\ pc'[c] = "new"
      /\ \A q \in Pid \ {p, c} : pc'[q] = pc[q]
      /\ kid'[p] = (IF vfork THEN c ELSE None) /\ \A q \in Pid \ {p} : kid'[q] = kid[q]
      /\ parent'[c] = p /\ \A q \in Pid \ {c} : parent'[q] = parent[q]
  BY <1>1, <1>3 DEF IInv, ProcTypes
<1>6. curr' = curr /\ \A q \in Pid \ {c} : task'[q].state = task[q].state
  BY <1>1 DEF Touches
<1>7. task[p].state = "RUNNING"
  BY <1>3, Awake DEF Bound
<1>8. BoundIsCurrent'
  BY <1>3, <1>5, <1>6 DEF Expecting, BoundIsCurrent, Bound
<1>9. Drowsy'
  BY <1>1, <1>3, <1>6, <1>7 DEF Drowsy
<1>10. VforkPending'
  <2> SUFFICES ASSUME NEW q \in Pid
               PROVE  /\ Forking(q)' => vfork_done[kid'[q]] \in {q, None}
                      /\ pc'[q] \in {"vblock", "vwait"} =>
                           /\ kid'[q] \in Pid /\ pc'[kid'[q]] \notin {"copy", "free"}
                           /\ parent'[kid'[q]] = q /\ vfork_done[kid'[q]] \in {q, None}
                           /\ task'[q].state = "UNINTERRUPTIBLE" => vfork_done[kid'[q]] = q
    BY <1>3 DEF VforkPending, Hashed
  <2>1. /\ Forking(q) => vfork_done[kid[q]] \in {q, None} /\ kid[q] \in Pid /\ pc[kid[q]] = "copy"
        /\ pc[q] \in {"vblock", "vwait"} =>
             /\ kid[q] \in Pid /\ pc[kid[q]] \notin {"copy", "free"} /\ parent[kid[q]] = q
             /\ vfork_done[kid[q]] \in {q, None}
             /\ task[q].state = "UNINTERRUPTIBLE" => vfork_done[kid[q]] = q
    BY DEF Expecting, VforkPending, IInv, Copied, Hashed
  <2>2. CASE q = p
    BY <1>2, <1>4, <1>5, <1>6, <1>7, <2>2 DEF Forking
  <2>3. CASE q = c
    BY <1>5, <2>3 DEF Forking
  <2>4. CASE q \notin {p, c}
    <3>1. pc'[q] = pc[q] /\ kid'[q] = kid[q] /\ task'[q].state = task[q].state
      BY <1>5, <1>6, <2>4
    <3>2. Forking(q)' => Forking(q)
      BY <3>1 DEF Forking
    <3>3. pc[q] \in {"vblock", "vwait"} => kid[q] # c /\ pc'[kid[q]] \notin {"copy", "free"}
      BY <1>4, <1>5, <2>1
    <3> QED BY <1>5, <2>1, <3>1, <3>2, <3>3
  <2> QED BY <2>2, <2>3, <2>4
<1>11. NothingToReap'
  <2> SUFFICES ASSUME NEW q \in Pid, pc'[q] \in {"wblock", "wait"}, task'[q].state = "INTERRUPTIBLE"
               PROVE  Zombies(q)' = {}
    BY DEF NothingToReap
  <2>1. Zombies(q) = {}
    BY <1>5, <1>6 DEF Expecting, NothingToReap
  <2>2. \A d \in Pid : task'[d].state = "ZOMBIE" /\ Hashed(d)'
                         => task[d].state = "ZOMBIE" /\ Hashed(d) /\ parent'[d] = parent[d]
    BY <1>1, <1>3, <1>5, <1>6 DEF Hashed
  <2> QED BY <2>1, <2>2, NoNews
<1>12. OwnParent'
  BY <1>1, <1>5 DEF Expecting, OwnParent
<1> QED BY <1>8, <1>9, <1>10, <1>11, <1>12 DEF Expecting

\* A child is reaped by the parent it has, which is not in vfork.
LEMMA Reaps ==
  ASSUME IInv, Expecting, NEW p \in Pid, Reap(p)
  PROVE  Expecting'
<1>1. PICK c \in Zombies(p) :
        /\ Touches({p, c}) /\ task'[p].state = "RUNNING" /\ task'[c].state = "RUNNING"
        /\ pc' = [pc EXCEPT ![p] = IF task[p].need_resched THEN "ret" ELSE "run", ![c] = "free"]
        /\ parent' = [parent EXCEPT ![c] = None]
  BY ReapStep
<1>2. PICK l \in {"ret", "run"} : pc' = [pc EXCEPT ![p] = l, ![c] = "free"]
  BY <1>1
<1>3. /\ p = curr /\ tail = "none" /\ pc[p] = "scan"
      /\ kid' = kid /\ vfork_done' = vfork_done /\ tail' = tail
  BY DEF Reap, At, cpuVars
<1>4. c \in Pid /\ c # p /\ parent[c] = p /\ pc[c] \notin {"copy", "free"} /\ None \notin Pid
  BY SchedAssumption DEF Zombies, Children, Hashed, Task
<1>5. /\ pc'[p] = l /\ pc'[c] = "free" /\ \A q \in Pid \ {p, c} : pc'[q] = pc[q]
      /\ parent'[c] = None /\ \A q \in Pid \ {c} : parent'[q] = parent[q]
  BY <1>1, <1>2, <1>4 DEF IInv, ProcTypes
<1>6. curr' = curr /\ \A q \in Pid \ {p, c} : task'[q].state = task[q].state
  BY <1>1 DEF Touches
<1>7. BoundIsCurrent'
  BY <1>3, <1>5, <1>6 DEF Expecting, BoundIsCurrent, Bound
<1>8. Drowsy'
  BY <1>1, <1>3, <1>6 DEF Drowsy
<1>9. VforkPending'
  <2> SUFFICES ASSUME NEW q \in Pid
               PROVE  /\ Forking(q)' => vfork_done[kid[q]] \in {q, None}
                      /\ pc'[q] \in {"vblock", "vwait"} =>
                           /\ kid[q] \in Pid /\ pc'[kid[q]] \notin {"copy", "free"}
                           /\ parent'[kid[q]] = q /\ vfork_done[kid[q]] \in {q, None}
                           /\ task'[q].state = "UNINTERRUPTIBLE" => vfork_done[kid[q]] = q
    BY <1>3 DEF VforkPending, Hashed
  <2>1. /\ Forking(q) => vfork_done[kid[q]] \in {q, None}
        /\ pc[q] \in {"vblock", "vwait"} =>
             /\ kid[q] \in Pid /\ pc[kid[q]] \notin {"copy", "free"} /\ parent[kid[q]] = q
             /\ vfork_done[kid[q]] \in {q, None}
             /\ task[q].state = "UNINTERRUPTIBLE" => vfork_done[kid[q]] = q
    BY DEF Expecting, VforkPending, Hashed
  <2>2. CASE q \in {p, c}
    BY <1>5, <2>2 DEF Forking
  <2>3. CASE q \notin {p, c}
    <3>1. pc'[q] = pc[q] /\ task'[q].state = task[q].state
      BY <1>5, <1>6, <2>3
    <3>2. Forking(q)' => Forking(q)
      BY <3>1 DEF Forking
    <3>3. pc[q] \in {"vblock", "vwait"} => kid[q] # c /\ pc'[kid[q]] \notin {"copy", "free"}
      BY <1>4, <1>5, <2>1, <2>3
    <3> QED BY <1>5, <2>1, <3>1, <3>2, <3>3
  <2> QED BY <2>2, <2>3
<1>10. NothingToReap'
  <2> SUFFICES ASSUME NEW q \in Pid, pc'[q] \in {"wblock", "wait"}, task'[q].state = "INTERRUPTIBLE"
               PROVE  Zombies(q)' = {}
    BY DEF NothingToReap
  <2>1. Zombies(q) = {}
    BY <1>5, <1>6 DEF Expecting, NothingToReap
  <2>2. \A d \in Pid : task'[d].state = "ZOMBIE" /\ Hashed(d)'
                         => task[d].state = "ZOMBIE" /\ Hashed(d) /\ parent'[d] = parent[d]
    BY <1>1, <1>5, <1>6 DEF Hashed
  <2> QED BY <2>1, <2>2, NoNews
<1>11. OwnParent'
  BY <1>4, <1>5 DEF Expecting, OwnParent
<1> QED BY <1>7, <1>8, <1>9, <1>10, <1>11 DEF Expecting

\* Whoever has a new zombie to reap was notified: the parent of the one that exits, and
\* process 1 if that had dead children.
LEMMA Exits ==
  ASSUME IInv, Expecting, NEW p \in Pid, ExitNotify(p)
  PROVE  Expecting'
<1>1. PICK orphans : orphans = {c \in Pid : parent[c] = p /\ Hashed(c)}
  OBVIOUS
<1>2. /\ p = curr /\ tail = "none" /\ pc[p] = "exit1" /\ pc' = [pc EXCEPT ![p] = "dead"]
      /\ kid' = kid /\ vfork_done' = vfork_done /\ tail' = tail
      /\ parent' = [c \in Pid |-> IF c \in orphans THEN InitTask ELSE parent[c]]
  BY <1>1 DEF ExitNotify, At, cpuVars
<1>3. Notifies(p)
  BY ExitNotifyStep
<1>4. /\ curr' = curr /\ task'[p].state = "ZOMBIE"
      /\ \A q \in Pid \ {p} :
           /\ task'[q].state \in {task[q].state, "RUNNING"}
           /\ q \in Notified(p) /\ pc[q] = "wait" => task'[q].state # "INTERRUPTIBLE"
  BY <1>3 DEF Notifies
<1>5. /\ pc'[p] = "dead" /\ \A q \in Pid \ {p} : pc'[q] = pc[q]
      /\ \A q \in Pid : parent'[q] = IF parent[q] = p /\ Hashed(q) THEN InitTask ELSE parent[q]
      /\ \A q \in Pid : Hashed(q)' <=> Hashed(q)
  BY <1>1, <1>2 DEF IInv, ProcTypes, Hashed
<1>6. BoundIsCurrent'
  BY <1>2, <1>4, <1>5 DEF Expecting, BoundIsCurrent, Bound
<1>7. Drowsy'
  BY <1>2, <1>4, <1>5 DEF Drowsy
<1>8. VforkPending'
  <2> SUFFICES ASSUME NEW q \in Pid
               PROVE  /\ Forking(q)' => vfork_done[kid[q]] \in {q, None}
                      /\ pc'[q] \in {"vblock", "vwait"} =>
                           /\ kid[q] \in Pid /\ pc'[kid[q]] \notin {"copy", "free"}
                           /\ parent'[kid[q]] = q /\ vfork_done[kid[q]] \in {q, None}
                           /\ task'[q].state = "UNINTERRUPTIBLE" => vfork_done[kid[q]] = q
    BY <1>2 DEF VforkPending, Hashed
  <2>1. /\ Forking(q) => vfork_done[kid[q]] \in {q, None}
        /\ pc[q] \in {"vblock", "vwait"} =>
             /\ kid[q] \in Pid /\ Hashed(kid[q]) /\ parent[kid[q]] = q
             /\ vfork_done[kid[q]] \in {q, None}
             /\ task[q].state = "UNINTERRUPTIBLE" => vfork_done[kid[q]] = q
    BY DEF Expecting, VforkPending
  <2>2. \A c \in Pid : Hashed(c) => pc'[c] \notin {"copy", "free"}
    BY <1>5 DEF Hashed
  <2> QED BY <1>4, <1>5, <2>1, <2>2 DEF Forking
<1>9. NothingToReap'
  <2> SUFFICES ASSUME NEW q \in Pid, pc'[q] \in {"wblock", "wait"}, task'[q].state = "INTERRUPTIBLE",
                      NEW c \in Zombies(q)'
               PROVE  FALSE
    BY DEF NothingToReap
  <2>1. c \in Pid /\ parent'[c] = q /\ Hashed(c) /\ c # q /\ task'[c].state = "ZOMBIE"
    BY <1>5 DEF Zombies, Children
  <2>2. q # p /\ pc[q] = "wait" /\ task[q].state = "INTERRUPTIBLE" /\ Zombies(q) = {} /\ q \notin Notified(p)
    <3>1. q # p /\ pc[q] \in {"wblock", "wait"}
      BY <1>5
    <3>2. pc[q] # "wblock"
      BY <1>2, <3>1 DEF Expecting, BoundIsCurrent, Bound
    <3> QED BY <1>4, <3>1, <3>2 DEF Expecting, NothingToReap
  <2>3. CASE parent[c] = p
    <3>1. q = InitTask
      BY <1>5, <2>1, <2>3
    <3>2. CASE c = p
      <4>1. p = InitTask
        BY <2>3, <3>2 DEF Expecting, OwnParent
      <4> QED BY <2>2, <3>1, <4>1
    <3>3. CASE c # p
      <4>1. task[c].state = "ZOMBIE"
        BY <1>4, <2>1, <3>3
      <4>2. q \in Notified(p)
        BY <2>1, <2>3, <3>1, <4>1 DEF Notified
      <4> QED BY <2>2, <4>2
    <3> QED BY <3>2, <3>3
  <2>4. CASE parent[c] # p
    <3>1. parent[c] = q
      BY <1>5, <2>1, <2>4
    <3>2. CASE c = p
      <4>1. q \in Notified(p)
        BY <3>1, <3>2 DEF Notified
      <4> QED BY <2>2, <4>1
    <3>3. CASE c # p
      <4>1. task[c].state = "ZOMBIE"
        BY <1>4, <2>1, <3>3
      <4> QED BY <2>1, <2>2, <3>1, <4>1 DEF Zombies, Children
    <3> QED BY <3>2, <3>3
  <2> QED BY <2>3, <2>4
<1>10. OwnParent'
  BY <1>5 DEF Expecting, OwnParent
<1> QED BY <1>6, <1>7, <1>8, <1>9, <1>10 DEF Expecting

-----------------------------------------------------------------------------
(* All steps together.                                                     *)

\* At the start nobody waits.
LEMMA InitExpecting ==
  ASSUME Init
  PROVE  Expecting
<1>1. /\ curr = InitTask /\ InitTask \in Pid /\ tail = "none"
      /\ \A p \in Pid : pc[p] \in {"run", "free"} /\ parent[p] \in {InitTask, None}
      /\ None \notin Pid
  BY SchedAssumption DEF Init, Task
<1>2. IInv
  BY InitIInv
<1>3. pc[curr] # "free"
  BY <1>1, <1>2, Facts
<1>4. \A p \in Pid : task[p].state = "RUNNING"
  <2>1. BootTask.state = "RUNNING" /\ BlankTask.state = "RUNNING"
    BY NewRecords DEF BootTask, TaskRecord
  <2>2. \A p \in Pid : task[p] \in {BootTask, BlankTask}
    BY PidAssumption DEF Init, Task
  <2> QED BY <2>1, <2>2
<1> QED BY <1>1, <1>4 DEF Expecting, BoundIsCurrent, Bound, Drowsy, VforkPending, Forking,
                          NothingToReap, OwnParent

\* The steps of the running task that tell nobody.
LEMMA ProceedsStep ==
  ASSUME IInv, Expecting, NEW p \in Pid,
         \/ Sleep(p) \/ ForkBlock(p) \/ VforkBlock(p) \/ ExitBlock(p) \/ WaitEnter(p)
         \/ YieldShort(p) \/ WaitBlock(p) \/ SetScheduler(p) \/ Nice(p) \/ Yield(p)
         \/ VforkReturn(p) \/ WaitReturn(p) \/ ForkSplit(p)
  PROVE  Expecting'
<1>1. CASE Sleep(p) \/ ForkBlock(p) \/ VforkBlock(p) \/ ExitBlock(p) \/ WaitEnter(p)
  <2>1. /\ p = curr /\ tail = "none" /\ UNCHANGED <<procVars, cpuVars>>
        /\ \E l \in {"block", "fblock", "vblock", "eblock", "scan"} :
             /\ pc' = [pc EXCEPT ![p] = l]
             /\ l = "fblock" => pc[p] = "fork1"
             /\ l = "vblock" => pc[p] = "vwait" /\ vfork_done[kid[p]] # None
    <3>1. CASE Sleep(p)
      BY <3>1 DEF Sleep, Call, At
    <3>2. CASE ForkBlock(p)
      BY <3>2 DEF ForkBlock, At
    <3>3. CASE VforkBlock(p)
      BY <3>3 DEF VforkBlock, At
    <3>4. CASE ExitBlock(p)
      BY <3>4 DEF ExitBlock, At
    <3>5. CASE WaitEnter(p)
      BY <3>5 DEF WaitEnter, Call, At
    <3> QED BY <1>1, <3>1, <3>2, <3>3, <3>4, <3>5
  <2>2. PICK l \in {"block", "fblock", "vblock", "eblock", "scan"} :
             /\ pc' = [pc EXCEPT ![p] = l]
             /\ l = "fblock" => pc[p] = "fork1"
             /\ l = "vblock" => pc[p] = "vwait" /\ vfork_done[kid[p]] # None
    BY <2>1
  <2>3. /\ kid' = kid /\ parent' = parent /\ vfork_done' = vfork_done /\ tail' = tail
    BY <2>1 DEF procVars, cpuVars
  <2>4. /\ curr' = curr /\ task'[p].state \in {"INTERRUPTIBLE", "UNINTERRUPTIBLE"}
        /\ \A q \in Pid \ {p} : task'[q].state = task[q].state
    BY <1>1, SleepStep DEF Sets, Touches
  <2>5. /\ l \in Locations \ {"copy", "free", "vwait", "wait"} /\ l \in Bound
        /\ l \in {"fork1", "fblock", "fork2"} => Forking(p)
    BY <2>2 DEF Locations, Bound, Forking
  <2> QED BY <2>1, <2>2, <2>3, <2>4, <2>5, Proceeds
<1>2. CASE YieldShort(p) \/ WaitBlock(p) \/ Nice(p) \/ Yield(p) \/ VforkReturn(p) \/ ForkSplit(p)
           \/ SetScheduler(p) \/ WaitReturn(p)
  <2>1. /\ p = curr /\ tail = "none" /\ parent' = parent /\ vfork_done' = vfork_done /\ tail' = tail
        /\ \A q \in Pid \ {p} : kid'[q] = kid[q]
        /\ pc[p] \in {"run", "scan", "vwait", "fork1"}
        /\ \E l \in {"hang", "wblock", "ret", "run", "yield", "fork2"} :
             /\ pc' = [pc EXCEPT ![p] = l]
             /\ l = "fork2" => pc[p] = "fork1" /\ kid' = kid
             /\ l = "wblock" => Zombies(p) = {}
             /\ l # "wblock" /\ pc[p] = "scan" => WaitReturn(p)
    <3>0. kid \in [Pid -> Pid \cup {None}]
      BY DEF IInv, ProcTypes
    <3>1. CASE YieldShort(p)
      BY <3>1 DEF YieldShort, Call, At, procVars, cpuVars
    <3>2. CASE WaitBlock(p)
      BY <3>2 DEF WaitBlock, At, procVars, cpuVars
    <3>3. CASE Nice(p)
      BY <3>3 DEF Nice, Call, At, Return, procVars, cpuVars
    <3>4. CASE Yield(p)
      BY <3>4 DEF Yield, Call, At, procVars, cpuVars
    <3>5. CASE VforkReturn(p)
      BY <3>0, <3>5 DEF VforkReturn, At, Return, cpuVars
    <3>6. CASE ForkSplit(p)
      BY <3>6 DEF ForkSplit, At, procVars, cpuVars
    <3>7. CASE SetScheduler(p)
      <4>1. \E k : /\ Call(p, "setscheduler") \/ Call(p, "setscheduler_other")
                   /\ Return(k, p) /\ UNCHANGED <<procVars, cpuVars>>
        BY <3>7 DEF SetScheduler
      <4> QED BY <4>1 DEF Call, At, Return, procVars, cpuVars
    <3>8. CASE WaitReturn(p)
      BY <3>8 DEF WaitReturn, At, Return, procVars, cpuVars
    <3> QED BY <1>2, <3>1, <3>2, <3>3, <3>4, <3>5, <3>6, <3>7, <3>8
  <2>2. PICK l \in {"hang", "wblock", "ret", "run", "yield", "fork2"} :
             /\ pc' = [pc EXCEPT ![p] = l]
             /\ l = "fork2" => pc[p] = "fork1" /\ kid' = kid
             /\ l = "wblock" => Zombies(p) = {}
             /\ l # "wblock" /\ pc[p] = "scan" => WaitReturn(p)
    BY <2>1
  <2>3. /\ curr' = curr /\ \A q \in Pid \ {p} : task'[q].state = task[q].state
        /\ task'[p].state \in {task[p].state, "RUNNING"}
        /\ WaitReturn(p) => task'[p].state = "RUNNING"
    <3>0. WaitReturn(p) => task'[p].state = "RUNNING"
      BY WaitReturnStep DEF Sets
    <3>1. CASE YieldShort(p) \/ WaitBlock(p)
      BY <3>0, <3>1, GoOnStep DEF AsWas, Touches
    <3>2. CASE Nice(p)
      BY <3>0, <3>2, NiceStep DEF AsWas, Touches
    <3>3. CASE Yield(p)
      BY <3>0, <3>3, YieldStep DEF AsWas, Touches
    <3>4. CASE VforkReturn(p)
      BY <3>0, <3>4, VforkReturnStep DEF AsWas, Touches
    <3>5. CASE ForkSplit(p)
      BY <3>0, <3>5, ForkSplitStep DEF AsWas, Touches
    <3>6. CASE SetScheduler(p)
      BY <3>0, <3>6, SetSchedulerStep DEF Touches
    <3>7. CASE WaitReturn(p)
      BY <3>0, <3>7, WaitReturnStep DEF Sets, Touches
    <3> QED BY <1>2, <3>1, <3>2, <3>3, <3>4, <3>5, <3>6, <3>7
  <2>4. l \in Locations \ {"copy", "free", "vwait", "wait"} /\ (l = "fork2" => Forking(p))
    BY <2>2 DEF Locations, Forking
  <2>5. task'[p].state = "RUNNING" \/ l \in Bound
    <3>1. pc[p] # "scan" => task[p].state = "RUNNING"
      BY <2>1, Awake DEF Bound
    <3> QED BY <2>2, <2>3, <3>1 DEF Bound
  <2>6. task'[p].state = "ZOMBIE" => task[p].state = "ZOMBIE"
    BY <2>3
  <2> QED BY <2>1, <2>2, <2>3, <2>4, <2>5, <2>6, Proceeds
<1> QED BY <1>1, <1>2

\* Every step keeps what the waiting tasks rely on.
LEMMA NextExpecting ==
  ASSUME IInv, Expecting, [Next]_vars
  PROVE  Expecting'
<1>1. CASE Tick
  BY <1>1, TickStep, Unmoved DEF Tick, AsWas, Touches, cpuVars
<1>2. CASE \E p \in Pid : WakeUp(p)
  <2>1. PICK p \in Pid : WakeUp(p)
    BY <1>2
  <2>2. curr' = curr /\ \A q \in Pid : task'[q].state \in {task[q].state, "RUNNING"}
    BY <2>1, WakeUpStep DEF Awakens, Touches
  <2> QED BY <2>1, <2>2, Unmoved DEF WakeUp, cpuVars
<1>3. CASE Schedule
  BY <1>3, Switched
<1>4. CASE TailCheck
  BY <1>4, TailCheckStep, Unmoved DEF TailCheck, AsWas, Touches
<1>5. CASE TailClear
  BY <1>5, TailClearStep, Unmoved DEF TailClear, AsWas, Touches
<1>6. CASE \E p \in Pid : SysCall(p)
  <2>1. PICK p \in Pid : SysCall(p)
    BY <1>6
  <2>2. CASE Exec(p)
    <3>1. /\ p = curr /\ tail = "none" /\ pc[p] = "run" /\ mm_release(p)
          /\ pc' = pc /\ kid' = kid /\ parent' = parent /\ tail' = tail
      BY <2>2 DEF Exec, At, cpuVars
    <3>2. pc' = [pc EXCEPT ![p] = "run"]
      BY <3>1 DEF IInv, ProcTypes
    <3>3. vfork_done' = [vfork_done EXCEPT ![p] = None]
      BY <3>1 DEF mm_release
    <3> QED BY <2>2, <3>1, <3>2, <3>3, ExecStep, Leaves
  <2>3. CASE ExitBegin(p)
    <3>1. /\ p = curr /\ tail = "none" /\ pc[p] = "run" /\ mm_release(p)
          /\ pc' = [pc EXCEPT ![p] = "exit1"] /\ kid' = kid /\ parent' = parent /\ tail' = tail
      BY <2>3 DEF ExitBegin, Call, At, cpuVars
    <3>2. vfork_done' = [vfork_done EXCEPT ![p] = None]
      BY <3>1 DEF mm_release
    <3> QED BY <2>3, <3>1, <3>2, ExitBeginStep, Leaves
  <2>4. CASE \E c \in Pid, vfork \in BOOLEAN : ForkCopy(p, c, vfork)
    BY <2>4, Copies
  <2>5. CASE ForkFail(p)
    BY <2>5, GivesBack
  <2>6. CASE ForkWake(p)
    BY <2>6, Delivers
  <2>7. CASE Reap(p)
    BY <2>7, Reaps
  <2>8. CASE ExitNotify(p)
    BY <2>8, Exits
  <2>9. CASE \/ Sleep(p) \/ ForkBlock(p) \/ VforkBlock(p) \/ ExitBlock(p) \/ WaitEnter(p)
             \/ YieldShort(p) \/ WaitBlock(p) \/ SetScheduler(p) \/ Nice(p) \/ Yield(p)
             \/ VforkReturn(p) \/ WaitReturn(p) \/ ForkSplit(p)
    BY <2>9, ProceedsStep
  <2> QED BY <2>1, <2>2, <2>3, <2>4, <2>5, <2>6, <2>7, <2>8, <2>9 DEF SysCall
<1>7. CASE UNCHANGED vars
  BY <1>7, Unmoved DEF vars, rqVars, procVars, cpuVars
<1> QED BY <1>1, <1>2, <1>3, <1>4, <1>5, <1>6, <1>7 DEF Next

-----------------------------------------------------------------------------
(* SHORT for life.                                                         *)

\* What a step may do to the life of q, and where it may take it.
Aged(q) ==
  /\ is_short(task[q]) => Declined(task'[q], task[q])
  /\ pc[q] \in {"copy", "free"} => SameLife(task'[q], task[q])
Onward(q) ==
  /\ pc'[q] = "free" => pc[q] = "free"
  /\ pc'[q] \in {"fork1", "fblock"} => pc[q] \in {"fork1", "fblock"} /\ kid'[q] = kid[q]

\* The step of ShortForLife.
LiveOn ==
  \A p \in Pid : is_short(task[p]) /\ pc'[p] # "free" =>
    /\ is_short(task'[p])
    /\ task'[p].remaining_trials <= task[p].remaining_trials

\* What IInv says of the life of one task.
LEMMA Lived ==
  ASSUME IInv, NEW p \in Pid
  PROVE  /\ Bearing(task[p]) /\ SameLife(task[p], task[p]) /\ p \in Task /\ Shaped(K)
         /\ K.task = task /\ K.curr = curr
<1>1. Shaped(K) /\ K.task = task /\ K.curr = curr
  BY ShapedNow, Current DEF IInv, Good
<1> QED BY <1>1 DEF Shaped, SameLife, Task

\* A step that ages the tasks, and moves them, as it may keeps Inherited.
LEMMA Aging ==
  ASSUME IInv, Inherited, \A q \in Pid : Aged(q) /\ Onward(q)
  PROVE  Inherited' /\ LiveOn
<1>1. \A q \in Pid : Bearing(task[q])
  BY Lived
<1>2. ASSUME NEW p \in Pid, pc'[p] = "free"
      PROVE  ~ is_short(task'[p])
  BY <1>2 DEF Inherited, BlankIsOther, Onward, Aged, SameLife, is_short
<1>3. ASSUME NEW p \in Pid, pc'[p] \in {"fork1", "fblock"}, is_short(task'[kid'[p]])
      PROVE  is_short(task'[p]) /\ task'[p].remaining_trials <= task'[kid'[p]].remaining_trials
  <2>1. PICK c : c = kid[p]
    OBVIOUS
  <2>2. pc[p] \in {"fork1", "fblock"} /\ kid'[p] = c /\ c \in Pid /\ pc[c] = "copy"
    BY <1>3, <2>1 DEF Onward, IInv, Copied, Forking
  <2>3. SameLife(task'[c], task[c])
    BY <2>2 DEF Aged
  <2>4. is_short(task[c])
    BY <1>3, <2>2, <2>3 DEF SameLife, is_short
  <2>5. is_short(task[p]) /\ task[p].remaining_trials <= task[c].remaining_trials
    BY <2>1, <2>2, <2>4 DEF Inherited, CopyHolds
  <2>6. Declined(task'[p], task[p])
    BY <2>5 DEF Aged
  <2> QED BY <1>1, <2>2, <2>3, <2>5, <2>6 DEF Declined, SameLife, Bearing, is_short
<1>4. LiveOn
  BY DEF LiveOn, Aged, Declined, is_short
<1> QED BY <1>2, <1>3, <1>4 DEF Inherited, BlankIsOther, CopyHolds

\* The life of every task is what it was, or that of p has gone on.
LEMMA SameStep ==
  ASSUME IInv, NEW k, SameLives(K, k), Become(k)
  PROVE  \A q \in Pid : Aged(q)
<1>1. task' = k.task
  BY DEF Become
<1>2. \A q \in Pid : SameLife(task'[q], task[q])
  BY <1>1, Lived DEF SameLives
<1> QED BY <1>2, Lived DEF Aged, SameLife, Declined, Bearing

\* A step that moves no task moves none where it may not go.
LEMMA StaysOnward ==
  ASSUME pc' = pc, kid' = kid
  PROVE  \A q \in Pid : Onward(q)
BY DEF Onward

\* Nor does one that moves one task there.
LEMMA MovesOnward ==
  ASSUME IInv, NEW p \in Pid, NEW l, l # "free", pc' = [pc EXCEPT ![p] = l],
         l \in {"fork1", "fblock"} => pc[p] \in {"fork1", "fblock"} /\ kid'[p] = kid[p],
         \A q \in Pid \ {p} : kid'[q] = kid[q]
  PROVE  \A q \in Pid : Onward(q)
<1>1. pc'[p] = l /\ \A q \in Pid \ {p} : pc'[q] = pc[q]
  BY DEF IInv, ProcTypes
<1> QED BY <1>1 DEF Onward

\* The timer interrupt.
LEMMA TickLife ==
  ASSUME IInv, Tick
  PROVE  \A q \in Pid : Aged(q)
<1>1. PICK prio \in effective_prio(task[curr]), stay \in Interactive :
        Become(scheduler_tick(K, prio, stay))
  BY DEF Tick
<1>2. PICK k : k = scheduler_tick(K, prio, stay)
  OBVIOUS
<1>3. ASSUME NEW q \in Pid
      PROVE  Aged(q)
  <2>1. Ages(K, k, curr) /\ task' = k.task
    BY <1>1, <1>2, <1>3, Lived, TickAges DEF Become
  <2>2. pc[q] \in {"free", "copy"} => q # curr
    BY Facts
  <2>3. CASE q = curr
    BY <2>1, <2>2, <2>3, Lived DEF Ages, Aged
  <2>4. CASE q # curr
    BY <2>1, <2>4, Lived DEF Ages, Aged, SameLife, Declined, Bearing
  <2> QED BY <2>3, <2>4
<1> QED BY <1>3

\* schedule() up to the context switch.
LEMMA ScheduleLife ==
  ASSUME IInv, Schedule
  PROVE  \A q \in Pid : Aged(q) /\ Onward(q)
<1> SUFFICES ASSUME NEW q \in Pid PROVE Aged(q) /\ Onward(q)
  OBVIOUS
<1>1. PICK sig \in Signals : Become(hw2_log_switch(schedule(K, sig)))
  BY DEF Schedule
<1>2. PICK k : k = schedule(K, sig)
  OBVIOUS
<1>3. k.curr \in Task
  <2>1. Good(K, {}, 0) /\ CurrQueued(K) /\ sig \in BOOLEAN
    BY QuietNow, QuietCurr, SchedAssumption DEF IInv
  <2> QED BY <1>2, <2>1, Scheduled
<1>4. /\ {"task", "curr"} \subseteq DOMAIN k /\ DOMAIN k.task = Task
      /\ \A r \in Task : SameLife(k.task[r], task[r])
  BY <1>2, Lived, ScheduleLives
<1>5. Shaped(k) /\ curr \in Task
  BY <1>3, <1>4, Facts DEF Shaped, SameLife
<1>6. SameLives(k, hw2_log_switch(k))
  BY <1>5, FlagLives, LivesSame DEF hw2_log_switch
<1>7. SameLife(task'[q], task[q])
  <2>1. task' = hw2_log_switch(k).task
    BY <1>1, <1>2 DEF Become
  <2> QED BY <1>4, <1>6, <2>1, Lived DEF SameLives, SameLife
<1>8. Aged(q)
  BY <1>7, Lived DEF Aged, SameLife, Declined, Bearing
<1>9. Onward(q)
  <2>1. kid' = kid /\ \/ pc'[q] = pc[q]
                      \/ pc'[q] = "run"
                      \/ pc'[q] = After(pc[q])
    BY Resumes
  <2>2. pc[q] \in Locations
    BY DEF IInv, ProcTypes
  <2> QED BY <2>1, <2>2 DEF Onward, After, Locations
<1> QED BY <1>8, <1>9

\* A wake-up by an interrupt.
LEMMA WakeUpLife ==
  ASSUME IInv, NEW p \in Pid, WakeUp(p)
  PROVE  \A q \in Pid : Aged(q) /\ Onward(q)
<1>1. PICK prio : Become(try_to_wake_up(K, p, prio))
  BY DEF WakeUp
<1>2. SameLives(K, try_to_wake_up(K, p, prio))
  BY Lived, TryToWakeUpLives
<1> QED BY <1>1, <1>2, SameStep, StaysOnward DEF WakeUp, procVars

\* The wake-up of a parent, if it sleeps.
LEMMA WaiterLives ==
  ASSUME NEW k, Shaped(k), NEW q \in Pid \cup {None}, NEW l, NEW s, NEW prio
  PROVE  SameLives(k, WakeWaiter(k, q, l, s, prio))
<1>1. q # None => q \in Task
  BY DEF Task
<1> QED BY <1>1, TryToWakeUpLives, LivesSame DEF WakeWaiter

\* mm_release: exec and the beginning of exit.
LEMMA ReleaseLife ==
  ASSUME IInv, NEW p \in Pid, mm_release(p)
  PROVE  \A q \in Pid : Aged(q)
<1>1. PICK prio : Become(WakeWaiter(K, vfork_done[p], "vwait", "UNINTERRUPTIBLE", prio))
  BY DEF mm_release
<1>2. vfork_done[p] \in Pid \cup {None}
  BY DEF IInv, ProcTypes
<1> QED BY <1>1, <1>2, Lived, WaiterLives, SameStep

\* exit_notify wakes up to two tasks and turns the dead one into a zombie.
LEMMA ExitNotifyLife ==
  ASSUME IInv, NEW p \in Pid, ExitNotify(p)
  PROVE  \A q \in Pid : Aged(q) /\ Onward(q)
<1> DEFINE orphans == {c \in Pid : parent[c] = p /\ Hashed(c)}
           heir    == IF \E c \in orphans : task[c].state = "ZOMBIE" THEN InitTask ELSE None
<1>1. PICK prio \in WaiterPrios(parent[p]), prio2 \in WaiterPrios(heir) :
        LET k1 == WakeWaiter(SetState(K, p, "ZOMBIE"), parent[p], "wait", "INTERRUPTIBLE", prio)
            k2 == WakeWaiter(k1, heir, "wait", "INTERRUPTIBLE", prio2)
        IN Become(forget_original_parent(UPDATE_REASON(k2, p, ENDED), orphans))
  BY DEF ExitNotify
<1> DEFINE k0 == SetState(K, p, "ZOMBIE")
           k1 == WakeWaiter(k0, parent[p], "wait", "INTERRUPTIBLE", prio)
           k2 == WakeWaiter(k1, heir, "wait", "INTERRUPTIBLE", prio2)
           k3 == UPDATE_REASON(k2, p, ENDED)
           k4 == forget_original_parent(k3, orphans)
<1>2. Become(k4)
  BY <1>1
<1>3. parent[p] \in Pid \cup {None} /\ heir \in Pid \cup {None} /\ p \in Task
  BY SchedAssumption DEF IInv, ProcTypes, Task
<1> HIDE DEF orphans, heir
<1>4. SameLives(K, k0) /\ Shaped(k0)
  BY <1>3, Lived, FlagLives, LivesTwice
<1> HIDE DEF k0
<1>5. SameLives(K, k1) /\ Shaped(k1)
  BY <1>3, <1>4, Lived, WaiterLives, LivesTwice
<1> HIDE DEF k1
<1>6. SameLives(K, k2) /\ Shaped(k2)
  BY <1>3, <1>5, Lived, WaiterLives, LivesTwice
<1> HIDE DEF k2
<1>7. SameLives(K, k3) /\ Shaped(k3)
  BY <1>3, <1>6, Lived, FlagLives, LivesTwice
<1> HIDE DEF k3
<1>8. SameLives(K, k4)
  BY <1>7, Lived, OrphanLives, LivesTwice
<1> HIDE DEF k4
<1>9. pc' = [pc EXCEPT ![p] = "dead"] /\ kid' = kid
  BY DEF ExitNotify
<1> QED BY <1>2, <1>8, <1>9, SameStep, MovesOnward

\* A system call that writes no policy and no trials.
LEMMA CallLife ==
  ASSUME IInv, NEW p \in Pid, NEW l, l # "free", pc' = [pc EXCEPT ![p] = l],
         l \in {"fork1", "fblock"} => pc[p] \in {"fork1", "fblock"} /\ kid'[p] = kid[p],
         \A q \in Pid \ {p} : kid'[q] = kid[q],
         NEW k, SameLives(K, k), Become(k)
  PROVE  \A q \in Pid : Aged(q) /\ Onward(q)
BY SameStep, MovesOnward

\* The steps that write a state, or nothing.
LEMMA SleepLife ==
  ASSUME IInv, NEW p \in Pid,
         \/ Sleep(p) \/ ForkBlock(p) \/ VforkBlock(p) \/ ExitBlock(p) \/ WaitEnter(p)
         \/ WaitReturn(p) \/ YieldShort(p) \/ WaitBlock(p)
  PROVE  \A q \in Pid : Aged(q) /\ Onward(q)
<1>1. \A s : SameLives(K, SetState(K, p, s))
  BY Lived, FlagLives
<1>2. CASE YieldShort(p) \/ WaitBlock(p)
  <2>1. Become(K) /\ SameLives(K, K)
    BY <1>2, Lived, LivesSame, Current DEF YieldShort, WaitBlock
  <2>2. PICK l \in {"hang", "wblock"} : pc' = [pc EXCEPT ![p] = l]
    BY <1>2 DEF YieldShort, WaitBlock
  <2>3. kid' = kid
    BY <1>2 DEF YieldShort, WaitBlock, procVars
  <2> QED BY <2>1, <2>2, <2>3, CallLife
<1>3. CASE \/ Sleep(p) \/ ForkBlock(p) \/ VforkBlock(p) \/ ExitBlock(p) \/ WaitEnter(p)
           \/ WaitReturn(p)
  <2>1. kid' = kid /\ \E s : Become(SetState(K, p, s))
    BY <1>3 DEF Sleep, ForkBlock, VforkBlock, ExitBlock, WaitEnter, WaitReturn, procVars
  <2>2. PICK l \in {"block", "fblock", "vblock", "eblock", "scan", "ret", "run"} :
          pc' = [pc EXCEPT ![p] = l] /\ (l = "fblock" => pc[p] = "fork1")
    BY <1>3 DEF Sleep, ForkBlock, VforkBlock, ExitBlock, WaitEnter, WaitReturn, Return, At
  <2> QED BY <1>1, <2>1, <2>2, CallLife
<1> QED BY <1>2, <1>3

\* Where a system call returns to.
LEMMA ReturnLabel ==
  ASSUME NEW k, NEW p, Return(k, p)
  PROVE  \E l \in {"ret", "run"} : pc' = [pc EXCEPT ![p] = l]
BY DEF Return

\* nice.
LEMMA NiceLife ==
  ASSUME IInv, NEW p \in Pid, Nice(p)
  PROVE  \A q \in Pid : Aged(q) /\ Onward(q)
<1>1. PICK r \in Pid, prio \in NicePrios :
        Become(set_user_nice(K, r, prio)) /\ Return(set_user_nice(K, r, prio), p)
  BY DEF Nice
<1>2. kid' = kid
  BY DEF Nice, procVars
<1>3. SameLives(K, set_user_nice(K, r, prio))
  BY Lived, NiceLives
<1> QED BY <1>1, <1>2, <1>3, ReturnLabel, CallLife

\* sched_yield, and the return of vfork.
LEMMA YieldLife ==
  ASSUME IInv, NEW p \in Pid, Yield(p) \/ VforkReturn(p)
  PROVE  \A q \in Pid : Aged(q) /\ Onward(q)
<1>1. CASE Yield(p)
  <2>1. Become(sys_sched_yield(K, p)) /\ pc' = [pc EXCEPT ![p] = "yield"] /\ kid' = kid
    BY <1>1 DEF Yield, procVars
  <2>2. SameLives(K, sys_sched_yield(K, p))
    BY Lived, YieldLives
  <2> QED BY <2>1, <2>2, CallLife
<1>2. CASE VforkReturn(p)
  <2>1. Become(ForkResched(K, p, TRUE)) /\ Return(ForkResched(K, p, TRUE), p)
    BY <1>2 DEF VforkReturn
  <2>2. \A q \in Pid \ {p} : kid'[q] = kid[q]
    BY <1>2 DEF VforkReturn, IInv, ProcTypes
  <2>3. SameLives(K, ForkResched(K, p, TRUE))
    BY Lived, ForkReschedLives
  <2> QED BY <2>1, <2>2, <2>3, ReturnLabel, CallLife
<1> QED BY <1>1, <1>2

\* setscheduler: whoever is SHORT already comes out of it SHORT with the same trials.
LEMMA SetSchedulerLife ==
  ASSUME IInv, NEW p \in Pid, SetScheduler(p)
  PROVE  \A q \in Pid : Aged(q) /\ Onward(q)
<1>1. PICK r \in Pid, policy \in NewPolicies, rt_priority \in 0 .. MAX_USER_RT_PRIO - 1,
           requested_time \in Requests, trials \in Trials :
        LET new == WithPolicy(task[r], policy, rt_priority, requested_time, trials)
        IN  /\ Hashed(r)
            /\ MaySetScheduler(task[r], policy, rt_priority, requested_time, trials)
            /\ \E prio : /\ Become(setscheduler(K, r, new, prio))
                         /\ Return(setscheduler(K, r, new, prio), p)
            /\ UNCHANGED procVars
  BY DEF SetScheduler
<1> DEFINE new == WithPolicy(task[r], policy, rt_priority, requested_time, trials)
<1>2. Bearing(new) /\ (is_short(task[r]) => SameLife(new, task[r]))
  <2>1. trials \in Nat
    BY Arguments
  <2> QED BY <1>1, <2>1, Lived, PolicyLives
<1> HIDE DEF new
<1>3. PICK prio : Become(setscheduler(K, r, new, prio)) /\ Return(setscheduler(K, r, new, prio), p)
  BY <1>1 DEF new
<1>4. PICK k : k = setscheduler(K, r, new, prio)
  OBVIOUS
<1>5. /\ \A q \in Task \ {r} : SameLife(k.task[q], task[q])
      /\ SameLife(k.task[r], new)
  BY <1>2, <1>4, Lived, SetschedulerLives
<1>6. task' = k.task
  BY <1>3, <1>4 DEF Become
<1>7. ASSUME NEW q \in Pid
      PROVE  Aged(q)
  <2>1. CASE q = r
    <3>1. pc[q] \notin {"copy", "free"}
      BY <1>1, <2>1 DEF Hashed
    <3>2. is_short(task[q]) => SameLife(task'[q], task[q])
      BY <1>2, <1>5, <1>6, <2>1 DEF SameLife
    <3> QED BY <3>1, <3>2, Lived DEF Aged, SameLife, Declined, Bearing
  <2>2. CASE q # r
    <3>1. SameLife(task'[q], task[q])
      BY <1>5, <1>6, <2>2, Lived
    <3> QED BY <3>1, Lived DEF Aged, SameLife, Declined, Bearing
  <2> QED BY <2>1, <2>2
<1>8. PICK l \in {"ret", "run"} : pc' = [pc EXCEPT ![p] = l]
  BY <1>3, ReturnLabel
<1>9. \A q \in Pid : Onward(q)
  BY <1>1, <1>8, MovesOnward DEF procVars
<1> QED BY <1>7, <1>9

\* The child is woken as it is.
LEMMA ForkWakeLife ==
  ASSUME IInv, NEW p \in Pid, ForkWake(p)
  PROVE  \A q \in Pid : Aged(q) /\ Onward(q)
<1> DEFINE c == kid[p]
           vfork == vfork_done[c] # None
<1>1. PICK prio : LET k == wake_up_forked_process(K, c, prio)
                  IN Become(IF vfork THEN k ELSE ForkResched(k, p, FALSE))
  BY DEF ForkWake
<1>2. At(p, "fork2") /\ c \in Pid
  BY DEF ForkWake, At, IInv, Copied, Forking
<1>3. PICK k : k = wake_up_forked_process(K, c, prio)
  OBVIOUS
<1>4. SameLives(K, k) /\ Shaped(k)
  BY <1>2, <1>3, Lived, WakeForkedLives, LivesTwice
<1>5. SameLives(K, ForkResched(k, p, FALSE))
  BY <1>4, Lived, ForkReschedLives, LivesTwice
<1>6. \A q \in Pid : Aged(q)
  BY <1>1, <1>3, <1>4, <1>5, SameStep
<1>7. /\ \A q \in Pid : pc'[q] \in {"vwait", "ret", "new"} \/ pc'[q] = pc[q]
      /\ \A q \in Pid \ {p} : kid'[q] = kid[q]
      /\ pc'[p] \in {"vwait", "ret", "new"}
  BY <1>2 DEF ForkWake, IInv, ProcTypes
<1>8. \A q \in Pid : Onward(q)
  BY <1>7 DEF Onward
<1> QED BY <1>6, <1>8

\* The four steps that write a copy.
LEMMA ForkCopyLife ==
  ASSUME IInv, Inherited, NEW p \in Pid, NEW c \in Pid, NEW vfork \in BOOLEAN, ForkCopy(p, c, vfork)
  PROVE  Inherited' /\ LiveOn
<1>1. pc[p] = "run" /\ pc[c] = "free" /\ p # c
  BY DEF ForkCopy, Call, At
<1>2. /\ \A q \in Pid \ {c} : task'[q] = task[q]
      /\ SameLife(task'[c], task[p])
  <2>1. task' = [task EXCEPT ![c] = CopyTask(task[p])] /\ task \in [Task -> TaskRecord]
    BY Current DEF ForkCopy, Become, Set, IInv, Good, Typed, Kernel
  <2>2. SameLife(CopyTask(task[p]), task[p])
    BY Lived DEF CopyTask, SameLife, Bearing
  <2> QED BY <2>1, <2>2, Lived
<1>3. /\ pc'[p] = "fork1" /\ pc'[c] = "copy" /\ kid'[p] = c
      /\ \A q \in Pid \ {p, c} : pc'[q] = pc[q] /\ kid'[q] = kid[q]
  BY <1>1 DEF ForkCopy, IInv, ProcTypes
<1>4. BlankIsOther'
  BY <1>1, <1>2, <1>3 DEF Inherited, BlankIsOther
<1>5. CopyHolds'
  <2> SUFFICES ASSUME NEW q \in Pid, pc'[q] \in {"fork1", "fblock"}, is_short(task'[kid'[q]])
               PROVE  is_short(task'[q]) /\ task'[q].remaining_trials <= task'[kid'[q]].remaining_trials
    BY DEF CopyHolds
  <2>1. CASE q = p
    <3>1. SameLife(task'[c], task'[p]) /\ Bearing(task'[p])
      BY <1>1, <1>2, Lived
    <3> QED BY <1>3, <2>1, <3>1 DEF SameLife, Bearing, is_short
  <2>2. CASE q # p
    <3>1. q # c /\ pc[q] \in {"fork1", "fblock"} /\ kid'[q] = kid[q]
      BY <1>3, <2>2
    <3>2. kid[q] \in Pid \ {c}
      BY <1>1, <3>1 DEF IInv, Copied, Forking
    <3> QED BY <1>2, <3>1, <3>2 DEF Inherited, CopyHolds
  <2> QED BY <2>1, <2>2
<1>6. LiveOn
  BY <1>1, <1>2, Lived DEF LiveOn, Inherited, BlankIsOther, Bearing
<1> QED BY <1>4, <1>5, <1>6 DEF Inherited

\* A task_struct that goes takes nothing from the others.
LEMMA Goes ==
  ASSUME IInv, Inherited, NEW c \in Pid, ~ is_short(task'[c]), pc'[c] = "free",
         \A q \in Pid \ {c} : SameLife(task'[q], task[q]) /\ Onward(q),
         \A q \in Pid \ {c} : pc'[q] \in {"fork1", "fblock"} => kid[q] # c
  PROVE  Inherited' /\ LiveOn
<1>1. BlankIsOther'
  BY DEF Inherited, BlankIsOther, SameLife, Onward, is_short
<1>2. CopyHolds'
  <2> SUFFICES ASSUME NEW q \in Pid, pc'[q] \in {"fork1", "fblock"}, is_short(task'[kid'[q]])
               PROVE  is_short(task'[q]) /\ task'[q].remaining_trials <= task'[kid'[q]].remaining_trials
    BY DEF CopyHolds
  <2>1. q # c
    OBVIOUS
  <2>2. pc[q] \in {"fork1", "fblock"} /\ kid'[q] = kid[q] /\ kid[q] \in Pid \ {c}
    BY <2>1 DEF Onward, IInv, Copied, Forking
  <2> QED BY <2>1, <2>2 DEF Inherited, CopyHolds, SameLife, is_short
<1>3. LiveOn
  BY DEF LiveOn, SameLife, Bearing, is_short
<1> QED BY <1>1, <1>2, <1>3 DEF Inherited

\* do_fork fails and frees the copy.
LEMMA ForkFailLife ==
  ASSUME IInv, Inherited, NEW p \in Pid, ForkFail(p)
  PROVE  Inherited' /\ LiveOn
<1>1. PICK c : c = kid[p]
  OBVIOUS
<1>2. pc[p] = "fork1" /\ c \in Pid /\ c # p /\ pc[c] = "copy"
  BY <1>1 DEF ForkFail, At, IInv, Copied, Forking
<1>3. task' = [task EXCEPT ![c] = BlankTask] /\ task \in [Task -> TaskRecord]
  BY <1>1, Current DEF ForkFail, Become, Set, IInv, Good, Typed, Kernel
<1>4. task'[c] = BlankTask /\ \A q \in Pid \ {c} : task'[q] = task[q]
  BY <1>2, <1>3, Lived
<1>5. ~ is_short(task'[c])
  BY <1>4, NewRecords DEF is_short
<1>6. /\ pc'[c] = "free" /\ pc'[p] \in {"ret", "run"}
      /\ \A q \in Pid \ {p, c} : pc'[q] = pc[q] /\ kid'[q] = kid[q]
  BY <1>1, <1>2 DEF ForkFail, IInv, ProcTypes
<1>7. \A q \in Pid \ {c} : Onward(q)
  BY <1>6 DEF Onward
<1>8. ASSUME NEW q \in Pid \ {c}, pc'[q] \in {"fork1", "fblock"}
      PROVE  kid[q] # c
  BY <1>1, <1>2, <1>6, <1>8 DEF IInv, Copied, Forking
<1> QED BY <1>2, <1>4, <1>5, <1>6, <1>7, <1>8, Lived, Goes

\* release_task frees the dead child.
LEMMA ReapLife ==
  ASSUME IInv, Inherited, NEW p \in Pid, Reap(p)
  PROVE  Inherited' /\ LiveOn
<1>1. PICK c \in Zombies(p) :
        /\ At(p, "scan")
        /\ Become(Set(SetState(sched_exit(K, p, c), p, "RUNNING"), c, BlankTask))
        /\ pc' = [pc EXCEPT ![p] = IF task[p].need_resched THEN "ret" ELSE "run", ![c] = "free"]
        /\ kid' = kid
  BY DEF Reap
<1>2. c \in Pid /\ c # p /\ pc[c] # "copy"
  BY DEF Zombies, Children, Hashed
<1> DEFINE k == SetState(sched_exit(K, p, c), p, "RUNNING")
<1>3. SameLives(K, k) /\ Shaped(k)
  <2>1. SameLives(K, sched_exit(K, p, c)) /\ Shaped(sched_exit(K, p, c))
    BY Lived, SchedExitLives, LivesTwice
  <2> QED BY <2>1, Lived, FlagLives, LivesTwice
<1>4. task' = Set(k, c, BlankTask).task
  BY <1>1 DEF Become
<1> HIDE DEF k
<1>5. task'[c] = BlankTask /\ \A q \in Pid \ {c} : task'[q] = k.task[q]
  <2>1. c \in Task /\ \A q \in Pid : q \in Task
    BY <1>2 DEF Task
  <2> QED BY <1>3, <1>4, <2>1 DEF Set, Shaped
<1>6. ~ is_short(task'[c])
  BY <1>5, NewRecords DEF is_short
<1>7. /\ pc'[c] = "free" /\ pc'[p] \in {"ret", "run"}
      /\ \A q \in Pid \ {p, c} : pc'[q] = pc[q]
  BY <1>1, <1>2 DEF IInv, ProcTypes
<1>8. \A q \in Pid \ {c} : Onward(q)
  BY <1>1, <1>7 DEF Onward
<1>9. ASSUME NEW q \in Pid \ {c}, pc'[q] \in {"fork1", "fblock"}
      PROVE  kid[q] # c
  BY <1>2, <1>7, <1>9 DEF IInv, Copied, Forking
<1>10. \A q \in Pid \ {c} : SameLife(task'[q], task[q])
  BY <1>3, <1>5, Lived DEF SameLives
<1> QED BY <1>2, <1>6, <1>7, <1>8, <1>9, <1>10, Goes

\* The trials are shared: the child may get no more than the copy held.
LEMMA ForkSplitLife ==
  ASSUME IInv, Inherited, NEW p \in Pid, ForkSplit(p)
  PROVE  Inherited' /\ LiveOn
<1>1. PICK c : c = kid[p]
  OBVIOUS
<1>2. pc[p] = "fork1" /\ p = curr /\ c \in Pid /\ c # p /\ pc[c] = "copy"
  BY <1>1 DEF ForkSplit, At, IInv, Copied, Forking
<1>3. PICK prio, stay : Become(SplitSlice(K, p, c, prio, stay))
  BY <1>1 DEF ForkSplit
<1>4. PICK k : k = SplitSlice(K, p, c, prio, stay)
  OBVIOUS
<1>5. /\ \A q \in Pid \ {p, c} : SameLife(task'[q], task[q])
      /\ Declined(task'[p], task[p])
      /\ task'[c].policy = task[c].policy
      /\ Bearing(task'[c]) /\ task'[c].remaining_trials <= task[p].remaining_trials
  <2>1. task' = k.task
    BY <1>3, <1>4 DEF Become
  <2>2. Shares(K, k, p, c)
    BY <1>2, <1>4, Lived, SplitAges
  <2> QED BY <1>2, <2>1, <2>2, Lived DEF Shares
<1>6. /\ pc'[p] = "fork2" /\ kid' = kid
      /\ \A q \in Pid \ {p} : pc'[q] = pc[q]
  BY <1>2 DEF ForkSplit, IInv, ProcTypes, procVars
<1>7. BlankIsOther'
  BY <1>2, <1>5, <1>6 DEF Inherited, BlankIsOther, SameLife, is_short
<1>8. CopyHolds'
  <2> SUFFICES ASSUME NEW q \in Pid, pc'[q] \in {"fork1", "fblock"}, is_short(task'[kid'[q]])
               PROVE  is_short(task'[q]) /\ task'[q].remaining_trials <= task'[kid'[q]].remaining_trials
    BY DEF CopyHolds
  <2>1. q # p /\ q # c /\ pc[q] \in {"fork1", "fblock"} /\ kid'[q] = kid[q]
    BY <1>2, <1>6
  <2>2. kid[q] \in Pid \ {p, c}
    BY <1>1, <1>2, <2>1 DEF IInv, Copied, Forking
  <2> QED BY <1>5, <2>1, <2>2 DEF Inherited, CopyHolds, SameLife, is_short
<1>9. ASSUME is_short(task[c])
      PROVE  task'[c].remaining_trials <= task[c].remaining_trials
  <2>1. task[p].remaining_trials <= task[c].remaining_trials
    BY <1>1, <1>2, <1>9 DEF Inherited, CopyHolds
  <2> QED BY <1>2, <1>5, <2>1, Lived DEF Bearing
<1>10. LiveOn
  BY <1>2, <1>5, <1>9 DEF LiveOn, SameLife, Declined, Bearing, is_short
<1> QED BY <1>7, <1>8, <1>10 DEF Inherited

\* Every step ages the tasks as it may.
LEMMA NextLives ==
  ASSUME IInv, Inherited, Next
  PROVE  Inherited' /\ LiveOn
<1>1. CASE Tick
  BY <1>1, TickLife, StaysOnward, Aging DEF Tick, procVars
<1>2. CASE \E p \in Pid : WakeUp(p)
  BY <1>2, WakeUpLife, Aging
<1>3. CASE Schedule
  BY <1>3, ScheduleLife, Aging
<1>4. CASE TailCheck
  <2>1. Become(K) /\ SameLives(K, K) /\ pc' = pc /\ kid' = kid
    BY <1>4, Lived, LivesSame, SchedAssumption, Current DEF TailCheck, procVars
  <2> QED BY <2>1, SameStep, StaysOnward, Aging
<1>5. CASE TailClear
  <2>1. last \in Task
    BY <1>5 DEF TailClear, IInv, ProcTypes
  <2>2. SameLives(K, UPDATE_REASON(K, last, UNKNOWN))
    BY <2>1, Lived, FlagLives, SchedAssumption
  <2> QED BY <1>5, <2>2, SameStep, StaysOnward, Aging DEF TailClear, procVars
<1>6. CASE \E p \in Pid : SysCall(p)
  <2>1. PICK p \in Pid : SysCall(p)
    BY <1>6
  <2>2. CASE Exec(p)
    BY <2>2, ReleaseLife, StaysOnward, Aging DEF Exec
  <2>3. CASE ExitBegin(p)
    <3>1. pc' = [pc EXCEPT ![p] = "exit1"] /\ kid' = kid /\ mm_release(p)
      BY <2>3 DEF ExitBegin
    <3> QED BY <3>1, ReleaseLife, MovesOnward, Aging
  <2>4. CASE \E c \in Pid, vfork \in BOOLEAN : ForkCopy(p, c, vfork)
    BY <2>4, ForkCopyLife
  <2>5. CASE ForkFail(p)
    BY <2>5, ForkFailLife
  <2>6. CASE ForkWake(p)
    BY <2>6, ForkWakeLife, Aging
  <2>7. CASE Reap(p)
    BY <2>7, ReapLife
  <2>8. CASE ExitNotify(p)
    BY <2>8, ExitNotifyLife, Aging
  <2>9. CASE ForkSplit(p)
    BY <2>9, ForkSplitLife
  <2>10. CASE SetScheduler(p)
    BY <2>10, SetSchedulerLife, Aging
  <2>11. CASE Nice(p)
    BY <2>11, NiceLife, Aging
  <2>12. CASE Yield(p) \/ VforkReturn(p)
    BY <2>12, YieldLife, Aging
  <2>13. CASE \/ Sleep(p) \/ ForkBlock(p) \/ VforkBlock(p) \/ ExitBlock(p) \/ WaitEnter(p)
              \/ WaitReturn(p) \/ YieldShort(p) \/ WaitBlock(p)
    BY <2>13, SleepLife, Aging
  <2> QED BY <2>1, <2>2, <2>3, <2>4, <2>5, <2>6, <2>7, <2>8, <2>9, <2>10, <2>11, <2>12, <2>13
          DEF SysCall
<1> QED BY <1>1, <1>2, <1>3, <1>4, <1>5, <1>6 DEF Next

\* So Inherited is inductive relative to IInv,
LEMMA NextInherited ==
  ASSUME IInv, Inherited, [Next]_vars
  PROVE  Inherited'
<1>1. CASE UNCHANGED vars
  BY <1>1 DEF vars, rqVars, procVars, Inherited, BlankIsOther, CopyHolds
<1> QED BY <1>1, NextLives

\* ... and holds in the initial state.
LEMMA InitInherited ==
  ASSUME Init
  PROVE  Inherited
<1>1. \A p \in Pid : pc[p] \in {"run", "free"} /\ (pc[p] = "free" => p \notin Booted)
  BY DEF Init
<1>2. \A p \in Pid : p \notin Booted => task[p] = BlankTask
  BY PidAssumption DEF Init, Task
<1> QED BY <1>1, <1>2, NewRecords DEF Inherited, BlankIsOther, CopyHolds, is_short

\* A SHORT task stays SHORT and never gets a trial back, so an overdue one stays overdue,
\* until its task_struct is gone: neither setscheduler nor do_fork, which writes the trials
\* of parent and child, gives more than there were.
THEOREM SchedShortForLife == Spec => ShortForLife
<1>1. Init => IInv /\ Inherited
  BY InitIInv, InitInherited
<1>2. IInv /\ Inherited /\ [Next]_vars => (IInv /\ Inherited)'
  BY NextIInv, NextInherited
<1>3. IInv /\ Inherited /\ [Next]_vars => [LiveOn]_vars
  BY NextLives
<1>4. Spec => [][LiveOn]_vars
  BY <1>1, <1>2, <1>3, PTL DEF Spec
<1> QED BY <1>4 DEF ShortForLife, LiveOn

-----------------------------------------------------------------------------
(* The three parts together.                                               *)

\* Every step of the scheduler, an interrupt or a system call leaves the runqueue well-formed,
\* the waiting tasks expecting what will come, and a copy with no more than it may have:
\* IInv, Expecting and Inherited are inductive together.
THEOREM SchedInductive == Spec => []Inductive
<1>1. Init => Inductive
  BY InitIInv, InitExpecting, InitInherited DEF Inductive
<1>2. Inductive /\ [Next]_vars => Inductive'
  BY NextIInv, NextExpecting, NextInherited DEF Inductive
<1> QED BY <1>1, <1>2, PTL DEF Spec

\* No task sleeps in sys_wait4 with a dead child to reap, and no parent sleeps in vfork
\* after its child has called exec or exit: the state is set before the test, and the
\* child wakes whom it finds in that state, whatever other tasks and interrupts do.
THEOREM SchedNoMissedChild == Spec => []NoMissedChild
<1>1. Inductive => NoMissedChild
  BY DEF Inductive, Expecting, NothingToReap, VforkPending, NoMissedChild, NoMissedExit, NoMissedVfork
<1> QED BY <1>1, SchedInductive, PTL

-----------------------------------------------------------------------------
(* The count of the sleepers.                                              *)

Sleepers == {p \in Pid : Asleep(p)}

\* The count is still right if no task fell asleep and none woke up,
LEMMA SameSleepers ==
  ASSUME SleepersCounted, nr_uninterruptible' = nr_uninterruptible,
         \A q \in Pid : Asleep(q)' <=> Asleep(q)
  PROVE  SleepersCounted'
<1>1. Sleepers' = Sleepers
  BY DEF Sleepers
<1> QED BY <1>1 DEF SleepersCounted, Sleepers

\* ... if one fell asleep and was counted,
LEMMA OneMore ==
  ASSUME SleepersCounted, NEW p \in Pid, ~ Asleep(p), Asleep(p)',
         \A q \in Pid \ {p} : Asleep(q)' <=> Asleep(q),
         nr_uninterruptible' = nr_uninterruptible + 1
  PROVE  SleepersCounted'
<1>1. PICK S : S = Sleepers
  OBVIOUS
<1>2. IsFiniteSet(S) /\ p \notin S
  BY <1>1, PidAssumption, FS_Subset DEF Sleepers
<1>3. Sleepers' = S \cup {p}
  BY <1>1 DEF Sleepers
<1>4. Cardinality(S \cup {p}) = Cardinality(S) + 1
  BY <1>2, FS_AddElement
<1> QED BY <1>1, <1>3, <1>4 DEF SleepersCounted, Sleepers

\* ... and if one woke up and was uncounted.
LEMMA OneLess ==
  ASSUME SleepersCounted, NEW p \in Pid, Asleep(p), ~ Asleep(p)',
         \A q \in Pid \ {p} : Asleep(q)' <=> Asleep(q),
         nr_uninterruptible' = nr_uninterruptible - 1
  PROVE  SleepersCounted'
<1>1. PICK S : S = Sleepers
  OBVIOUS
<1>2. IsFiniteSet(S) /\ p \in S
  BY <1>1, PidAssumption, FS_Subset DEF Sleepers
<1>3. Sleepers' = S \ {p}
  BY <1>1 DEF Sleepers
<1>4. Cardinality(S \ {p}) = Cardinality(S) - 1
  BY <1>2, FS_RemoveElement
<1> QED BY <1>1, <1>3, <1>4 DEF SleepersCounted, Sleepers

\* Tasks outside S that stay in or outside do_fork sleep as they did.
LEMMA Untouched ==
  ASSUME NEW S, Touches(S), NEW q \in Pid \ S, pc'[q] = "copy" <=> pc[q] = "copy"
  PROVE  Asleep(q)' <=> Asleep(q)
  BY DEF Touches, Asleep

\* A wake-up counts the task out if it was counted.
LEMMA AwakensCount ==
  ASSUME IInv, SleepersCounted, NEW p \in Pid, Awakens(p), Hashed(p),
         \A q \in Pid : pc'[q] = "copy" <=> pc[q] = "copy"
  PROVE  SleepersCounted'
<1>1. \A q \in Pid \ {p} : Asleep(q)' <=> Asleep(q)
  BY Untouched DEF Awakens
<1>2. ~ Asleep(p)'
  BY DEF Awakens, Asleep
<1>3. CASE Asleep(p)
  <2>1. nr_uninterruptible' = nr_uninterruptible - 1
    BY <1>3 DEF Awakens, Asleep, Sleeper
  <2> QED BY <1>1, <1>2, <1>3, <2>1, OneLess
<1>4. CASE ~ Asleep(p)
  <2>1. Sleeper(task[p]) = 0 \/ Queued(p)
    BY <1>4 DEF Asleep, Sleeper, Hashed
  <2>2. nr_uninterruptible \in Int
    BY DEF IInv, Good, Typed, Kernel, K
  <2>3. nr_uninterruptible' = nr_uninterruptible
    BY <2>1, <2>2 DEF Awakens
  <2> QED BY <1>1, <1>2, <1>4, <2>3, SameSleepers
<1> QED BY <1>3, <1>4

\* Nor does the count change if the tasks of S, which do, sleep neither before nor after.
LEMMA NoSleepers ==
  ASSUME SleepersCounted, NEW S, Touches(S), nr_uninterruptible' = nr_uninterruptible,
         \A q \in S : ~ Asleep(q) /\ ~ Asleep(q)',
         \A q \in Pid \ S : pc'[q] = "copy" <=> pc[q] = "copy"
  PROVE  SleepersCounted'
<1>1. ASSUME NEW q \in Pid PROVE Asleep(q)' <=> Asleep(q)
  <2>1. CASE q \in S
    BY <2>1
  <2>2. CASE q \notin S
    BY <2>2, Untouched
  <2> QED BY <2>1, <2>2
<1> QED BY <1>1, SameSleepers

\* The running task is on a queue: setting its state puts nobody to sleep.
LEMMA CallCount ==
  ASSUME IInv, SleepersCounted, NEW p \in Pid, p = curr,
         NEW s, Sets(p, s), \A q \in Pid : pc'[q] = "copy" <=> pc[q] = "copy"
  PROVE  SleepersCounted'
<1>1. Queued(p)
  BY Running
<1>2. Touches({p}) /\ nr_uninterruptible' = nr_uninterruptible /\ ~ Asleep(p) /\ ~ Asleep(p)'
  BY <1>1 DEF Sets, Asleep
<1>3. \A q \in {p} : ~ Asleep(q) /\ ~ Asleep(q)'
  BY <1>2
<1> QED BY <1>2, <1>3, NoSleepers

\* The running task neither becomes a copy nor was one.
LEMMA NoCopy ==
  ASSUME IInv, NEW p \in Pid, p = curr, NEW l, l # "copy", pc' = [pc EXCEPT ![p] = l]
  PROVE  \A q \in Pid : pc'[q] = "copy" <=> pc[q] = "copy"
<1>1. pc[p] # "copy"
  BY Running DEF Hashed
<1> QED BY <1>1 DEF IInv, ProcTypes

LEMMA TellsCount ==
  ASSUME IInv, SleepersCounted, NEW p \in Pid, Tells(p),
         \A q \in Pid : pc'[q] = "copy" <=> pc[q] = "copy"
  PROVE  SleepersCounted'
<1>1. CASE vfork_done[p] \in Pid /\ pc[vfork_done[p]] = "vwait" /\ Awakens(vfork_done[p])
  <2>1. PICK w \in Pid : w = vfork_done[p]
    BY <1>1
  <2>2. Hashed(w) /\ Awakens(w)
    BY <1>1, <2>1 DEF Hashed
  <2> QED BY <2>2, AwakensCount
<1>2. CASE AsWas
  BY <1>2, NoSleepers DEF AsWas
<1> QED BY <1>1, <1>2 DEF Tells

\* A copy is not counted, nor is the task that it was before or becomes.
LEMMA CopyCount ==
  ASSUME IInv, SleepersCounted, NEW p \in Pid,
         (\E c \in Pid, vfork \in BOOLEAN : ForkCopy(p, c, vfork)) \/ ForkFail(p) \/ ForkWake(p)
  PROVE  SleepersCounted'
<1>1. CASE \E c \in Pid, vfork \in BOOLEAN : ForkCopy(p, c, vfork)
  <2>1. PICK c \in Pid, vfork \in BOOLEAN : ForkCopy(p, c, vfork)
    BY <1>1
  <2>2. p = curr /\ pc[p] = "run" /\ pc[c] = "free" /\ pc' = [pc EXCEPT ![p] = "fork1", ![c] = "copy"]
    BY <2>1 DEF ForkCopy, Call, At
  <2>3. Touches({c}) /\ p # c /\ nr_uninterruptible' = nr_uninterruptible
    BY <2>1, ForkCopyStep
  <2>4. /\ pc'[c] = "copy"
        /\ \A q \in Pid \ {c} : pc'[q] = "copy" <=> pc[q] = "copy"
    BY <2>2, <2>3 DEF IInv, ProcTypes
  <2>5. \A q \in {c} : ~ Asleep(q) /\ ~ Asleep(q)'
    BY <2>2, <2>4 DEF IInv, Located, Asleep
  <2> QED BY <2>3, <2>4, <2>5, NoSleepers
<1>2. CASE ForkFail(p)
  <2>1. PICK c : c = kid[p]
    OBVIOUS
  <2>2. PICK l \in {"ret", "run"} : pc' = [pc EXCEPT ![p] = l, ![c] = "free"]
    BY <1>2, <2>1 DEF ForkFail
  <2>3. /\ Touches({c}) /\ c \in Pid \ {p} /\ nr_uninterruptible' = nr_uninterruptible
        /\ task'[c].state = "RUNNING"
    BY <1>2, <2>1, ForkFailStep
  <2>4. pc[p] = "fork1" /\ pc[c] = "copy"
    BY <1>2, <2>1 DEF ForkFail, At, IInv, Copied, Forking
  <2>5. \A q \in Pid \ {c} : pc'[q] = "copy" <=> pc[q] = "copy"
    BY <2>2, <2>3, <2>4 DEF IInv, ProcTypes
  <2>6. \A q \in {c} : ~ Asleep(q) /\ ~ Asleep(q)'
    BY <2>3, <2>4 DEF Asleep
  <2> QED BY <2>3, <2>5, <2>6, NoSleepers
<1>3. CASE ForkWake(p)
  <2>1. PICK c \in Pid \ {p} : /\ c = kid[p] /\ Touches({c}) /\ nr_uninterruptible' = nr_uninterruptible
                               /\ task'[c].state = "RUNNING"
    BY <1>3, ForkWakeStep
  <2>2. PICK l \in {"vwait", "ret"} : pc' = [pc EXCEPT ![p] = l, ![c] = "new"]
    BY <1>3, <2>1 DEF ForkWake
  <2>3. pc[p] = "fork2" /\ pc[c] = "copy"
    BY <1>3, <2>1 DEF ForkWake, At, IInv, Copied, Forking
  <2>4. \A q \in Pid \ {c} : pc'[q] = "copy" <=> pc[q] = "copy"
    BY <2>2, <2>3 DEF IInv, ProcTypes
  <2>5. \A q \in {c} : ~ Asleep(q) /\ ~ Asleep(q)'
    BY <2>1, <2>3 DEF Asleep
  <2> QED BY <2>1, <2>4, <2>5, NoSleepers
<1> QED BY <1>1, <1>2, <1>3

\* A task that is dead is not counted; those its death wakes slept INTERRUPTIBLE.
LEMMA DeathCount ==
  ASSUME IInv, SleepersCounted, NEW p \in Pid, Reap(p) \/ ExitNotify(p)
  PROVE  SleepersCounted'
<1>1. CASE Reap(p)
  <2>1. PICK c \in Zombies(p) :
               /\ Touches({p, c}) /\ nr_uninterruptible' = nr_uninterruptible
               /\ task'[p].state = "RUNNING" /\ task'[c].state = "RUNNING"
               /\ pc' = [pc EXCEPT ![p] = IF task[p].need_resched THEN "ret" ELSE "run", ![c] = "free"]
    BY <1>1, ReapStep
  <2>2. PICK l \in {"ret", "run"} : pc' = [pc EXCEPT ![p] = l, ![c] = "free"]
    BY <2>1
  <2>3. c \in Pid /\ task[c].state = "ZOMBIE" /\ p = curr
    BY <1>1 DEF Zombies, Children, Reap, At
  <2>4. Queued(p)
    BY <2>3, Running
  <2>5. \A q \in {p, c} : ~ Asleep(q) /\ ~ Asleep(q)'
    BY <2>1, <2>3, <2>4 DEF Asleep
  <2>6. \A q \in Pid \ {p, c} : pc'[q] = "copy" <=> pc[q] = "copy"
    BY <2>2, <2>3 DEF IInv, ProcTypes
  <2> QED BY <2>1, <2>5, <2>6, NoSleepers
<1>2. CASE ExitNotify(p)
  <2>1. p = curr /\ pc' = [pc EXCEPT ![p] = "dead"]
    BY <1>2 DEF ExitNotify, At
  <2>2. Queued(p) /\ Notifies(p)
    BY <1>2, <2>1, Running, ExitNotifyStep
  <2>3. \A q \in Pid : pc'[q] = "copy" <=> pc[q] = "copy"
    BY <2>1, NoCopy
  <2>4. ~ Asleep(p) /\ ~ Asleep(p)'
    BY <2>2 DEF Notifies, Asleep
  <2>5. ASSUME NEW q \in Pid \ {p} PROVE Asleep(q)' <=> Asleep(q)
    <3>1. \/ task[q].state = "INTERRUPTIBLE" /\ task'[q].state = "RUNNING"
          \/ task'[q].state = task[q].state /\ (Queued(q)' <=> Queued(q))
      BY <2>2 DEF Notifies
    <3> QED BY <2>3, <3>1 DEF Asleep
  <2>6. nr_uninterruptible' = nr_uninterruptible
    BY <2>2 DEF Notifies
  <2> QED BY <2>4, <2>5, <2>6, SameSleepers
<1> QED BY <1>1, <1>2

\* schedule() counts the task that leaves if it leaves UNINTERRUPTIBLE.
LEMMA ScheduleCount ==
  ASSUME IInv, SleepersCounted, Schedule
  PROVE  SleepersCounted'
<1>1. Switches
  BY ScheduleStep
<1>2. \A q \in Pid : pc'[q] = "copy" <=> pc[q] = "copy"
  <2>1. \A q \in Pid : \/ pc'[q] = pc[q]
                       \/ pc[q] = "new" /\ pc'[q] = "run"
                       \/ pc'[q] = After(pc[q])
    BY Resumes
  <2>2. \A q \in Pid : pc[q] \in Locations
    BY DEF IInv, ProcTypes
  <2> QED BY <2>1, <2>2, Afterwards
<1>3. \A q \in Pid \ {curr} : Asleep(q)' <=> Asleep(q)
  BY <1>1, <1>2 DEF Switches, Asleep
<1>4. CASE curr \notin Pid
  BY <1>1, <1>3, <1>4, SameSleepers DEF Switches
<1>5. CASE curr \in Pid
  <2>1. PICK p \in Pid : p = curr
    BY <1>5
  <2>2. Queued(p) /\ ~ Asleep(p) /\ pc'[p] # "copy"
    BY <1>2, <2>1, Running DEF Asleep, Hashed
  <2>3. \/ Queued(p)' /\ nr_uninterruptible' = nr_uninterruptible
        \/ /\ ~ Queued(p)' /\ task'[p].state = task[p].state
           /\ nr_uninterruptible' = nr_uninterruptible + Sleeper(task[p])
    BY <1>1, <2>1 DEF Switches
  <2>4. CASE Asleep(p)'
    <3>1. nr_uninterruptible' = nr_uninterruptible + 1
      BY <2>3, <2>4 DEF Asleep, Sleeper
    <3> QED BY <1>3, <2>1, <2>2, <2>4, <3>1, OneMore
  <2>5. CASE ~ Asleep(p)'
    <3>1. nr_uninterruptible \in Int
      BY DEF IInv, Good, Typed, Kernel, K
    <3>2. Queued(p)' \/ Sleeper(task[p]) = 0
      BY <2>2, <2>3, <2>5 DEF Asleep, Sleeper
    <3>3. nr_uninterruptible' = nr_uninterruptible
      BY <2>3, <3>1, <3>2
    <3> QED BY <1>3, <2>1, <2>2, <2>5, <3>3, SameSleepers
  <2> QED BY <2>4, <2>5
<1> QED BY <1>4, <1>5

\* Every step counts right.
LEMMA NextCounts ==
  ASSUME IInv, Expecting, SleepersCounted, [Next]_vars
  PROVE  SleepersCounted'
<1>1. CASE Tick \/ TailCheck \/ TailClear
  <2>1. AsWas /\ pc' = pc
    <3>1. CASE Tick
      BY <3>1, TickStep DEF Tick
    <3>2. CASE TailCheck
      BY <3>2, TailCheckStep DEF TailCheck
    <3>3. CASE TailClear
      BY <3>3, TailClearStep DEF TailClear
    <3> QED BY <1>1, <3>1, <3>2, <3>3
  <2> QED BY <2>1, NoSleepers DEF AsWas
<1>2. CASE \E p \in Pid : WakeUp(p)
  <2>1. PICK p \in Pid : WakeUp(p)
    BY <1>2
  <2>2. Awakens(p) /\ pc' = pc
    BY <2>1, WakeUpStep DEF WakeUp
  <2>3. Hashed(p)
    <3>1. pc[p] # "copy" /\ task[p].state # "RUNNING"
      BY <2>1 DEF WakeUp
    <3> QED BY <3>1 DEF IInv, Located, Hashed
  <2> QED BY <2>2, <2>3, AwakensCount
<1>3. CASE Schedule
  BY <1>3, ScheduleCount
<1>4. CASE \E p \in Pid : SysCall(p)
  <2>1. PICK p \in Pid : SysCall(p)
    BY <1>4
  <2>2. CASE Exec(p)
    BY <2>2, ExecStep, TellsCount DEF Exec
  <2>3. CASE ExitBegin(p)
    <3>1. p = curr /\ pc' = [pc EXCEPT ![p] = "exit1"]
      BY <2>3 DEF ExitBegin, Call, At
    <3> QED BY <2>3, <3>1, NoCopy, ExitBeginStep, TellsCount
  <2>4. CASE (\E c \in Pid, vfork \in BOOLEAN : ForkCopy(p, c, vfork)) \/ ForkFail(p) \/ ForkWake(p)
    BY <2>4, CopyCount
  <2>5. CASE Reap(p) \/ ExitNotify(p)
    BY <2>5, DeathCount
  <2>6. CASE Sleep(p) \/ ForkBlock(p) \/ VforkBlock(p) \/ ExitBlock(p) \/ WaitEnter(p)
    <3>1. p = curr /\ \E l \in {"block", "fblock", "vblock", "eblock", "scan"} : pc' = [pc EXCEPT ![p] = l]
      <4>1. CASE Sleep(p)
        BY <4>1 DEF Sleep, Call, At
      <4>2. CASE ForkBlock(p)
        BY <4>2 DEF ForkBlock, At
      <4>3. CASE VforkBlock(p)
        BY <4>3 DEF VforkBlock, At
      <4>4. CASE ExitBlock(p)
        BY <4>4 DEF ExitBlock, At
      <4>5. CASE WaitEnter(p)
        BY <4>5 DEF WaitEnter, Call, At
      <4> QED BY <2>6, <4>1, <4>2, <4>3, <4>4, <4>5
    <3>2. PICK l \in {"block", "fblock", "vblock", "eblock", "scan"} : pc' = [pc EXCEPT ![p] = l]
      BY <3>1
    <3>3. \A q \in Pid : pc'[q] = "copy" <=> pc[q] = "copy"
      BY <3>1, <3>2, NoCopy
    <3>4. Sets(p, "INTERRUPTIBLE") \/ Sets(p, "UNINTERRUPTIBLE")
      BY <2>6, SleepStep
    <3> QED BY <3>1, <3>3, <3>4, CallCount
  <2>7. CASE YieldShort(p) \/ WaitBlock(p) \/ Nice(p) \/ Yield(p) \/ VforkReturn(p) \/ ForkSplit(p)
             \/ SetScheduler(p) \/ WaitReturn(p)
    <3>1. /\ p = curr /\ \E l \in {"hang", "wblock", "ret", "run", "yield", "fork2"} : pc' = [pc EXCEPT ![p] = l]
          /\ SetScheduler(p) => pc[p] = "run"
      <4>0. SetScheduler(p) => /\ p = curr /\ pc[p] = "run"
                               /\ \E l \in {"ret", "run"} : pc' = [pc EXCEPT ![p] = l]
        <5> SUFFICES ASSUME SetScheduler(p)
                     PROVE  p = curr /\ pc[p] = "run" /\ \E l \in {"ret", "run"} : pc' = [pc EXCEPT ![p] = l]
          OBVIOUS
        <5>1. \E k : /\ Call(p, "setscheduler") \/ Call(p, "setscheduler_other")
                     /\ Return(k, p)
          BY DEF SetScheduler
        <5> QED BY <5>1 DEF Call, At, Return
      <4>1. CASE YieldShort(p)
        BY <4>0, <4>1 DEF YieldShort, Call, At
      <4>2. CASE WaitBlock(p)
        BY <4>0, <4>2 DEF WaitBlock, At
      <4>3. CASE Nice(p)
        BY <4>0, <4>3 DEF Nice, Call, At, Return
      <4>4. CASE Yield(p)
        BY <4>0, <4>4 DEF Yield, Call, At
      <4>5. CASE VforkReturn(p)
        BY <4>0, <4>5 DEF VforkReturn, At, Return
      <4>6. CASE ForkSplit(p)
        BY <4>0, <4>6 DEF ForkSplit, At
      <4>7. CASE SetScheduler(p)
        BY <4>0, <4>7
      <4>8. CASE WaitReturn(p)
        BY <4>0, <4>8 DEF WaitReturn, At, Return
      <4> QED BY <2>7, <4>1, <4>2, <4>3, <4>4, <4>5, <4>6, <4>7, <4>8
    <3>2. PICK l \in {"hang", "wblock", "ret", "run", "yield", "fork2"} : pc' = [pc EXCEPT ![p] = l]
      BY <3>1
    <3>3. \A q \in Pid : pc'[q] = "copy" <=> pc[q] = "copy"
      BY <3>1, <3>2, NoCopy
    <3>4. CASE WaitReturn(p)
      BY <3>1, <3>3, <3>4, WaitReturnStep, CallCount
    <3>5. CASE ~ WaitReturn(p)
      <4>1. SetScheduler(p) => AsWas
        <5>1. SetScheduler(p) => task[p].state = "RUNNING"
          BY <3>1, Awake DEF Bound
        <5> QED BY <5>1, SetSchedulerStep
      <4>2. AsWas
        BY <2>7, <3>5, <4>1, GoOnStep, NiceStep, YieldStep, VforkReturnStep, ForkSplitStep
      <4> QED BY <3>3, <4>2, NoSleepers DEF AsWas
    <3> QED BY <3>4, <3>5
  <2> QED BY <2>1, <2>2, <2>3, <2>4, <2>5, <2>6, <2>7 DEF SysCall
<1>5. CASE UNCHANGED vars
  <2>1. nr_uninterruptible' = nr_uninterruptible /\ \A q \in Pid : Asleep(q)' <=> Asleep(q)
    BY <1>5 DEF vars, rqVars, Asleep, Queued
  <2> QED BY <2>1, SameSleepers
<1> QED BY <1>1, <1>2, <1>3, <1>4, <1>5 DEF Next

LEMMA InitCounts ==
  ASSUME Init
  PROVE  SleepersCounted
<1>1. \A p \in Pid : task[p].state = "RUNNING"
  <2>1. BootTask.state = "RUNNING" /\ BlankTask.state = "RUNNING"
    BY NewRecords DEF BootTask, TaskRecord
  <2>2. \A p \in Pid : task[p] \in {BootTask, BlankTask}
    BY PidAssumption DEF Init, Task
  <2> QED BY <2>1, <2>2
<1>2. {p \in Pid : Asleep(p)} = {}
  BY <1>1 DEF Asleep
<1> QED BY <1>2, FS_EmptySet DEF SleepersCounted, Init

\* nr_uninterruptible is the number of tasks that sleep UNINTERRUPTIBLE: schedule()
\* counts a task that leaves the queues so, try_to_wake_up() counts it out again, and no
\* change of state in between, of the task itself or of its copy, goes uncounted.
THEOREM SchedSleepersCounted == Spec => []SleepersCounted
<1>1. Init => IInv /\ Expecting /\ SleepersCounted
  BY InitIInv, InitExpecting, InitCounts
<1>2. IInv /\ Expecting /\ SleepersCounted /\ [Next]_vars => (IInv /\ Expecting /\ SleepersCounted)'
  BY NextIInv, NextExpecting, NextCounts
<1> QED BY <1>1, <1>2, PTL DEF Spec

-----------------------------------------------------------------------------
(* First come, first served.                                               *)

Keeps == InLine(overdue, overdue', curr)

\* The line is that of the runqueue K.
LEMMA LineNow ==
  ASSUME IInv
  PROVE  /\ Good(K, {}, 0) /\ Lined(K) /\ Shaped(K) /\ K.overdue = overdue /\ K.curr = curr
         /\ K.task = task /\ curr \in Task /\ Pid \subseteq Task /\ overdue \in Seq(Pid)
         /\ NoDuplicates(overdue)
<1>1. K.overdue = overdue /\ K.curr = curr /\ K.task = task
  BY Current DEF K
<1> QED BY <1>1, LineFacts DEF IInv

\* A step that becomes what an operator made of K does what the operator does.
LEMMA FollowsStep ==
  ASSUME IInv, NEW k, Become(k), Follows(K, k)
  PROVE  Keeps
BY LineNow DEF Follows, Become, Keeps

\* An operator that leaves the line alone keeps it.
LEMMA SameLineStep ==
  ASSUME IInv, NEW k, Become(k), Has(k, overdue)
  PROVE  Keeps
BY LineNow, InLineSame DEF Has, Become, Keeps

\* schedule() up to the context switch; hw2_log_switch writes a reason only.
LEMMA ScheduleLine ==
  ASSUME IInv, Schedule
  PROVE  /\ Keeps
         /\ curr \in Pid /\ is_overdue(task[curr]) /\ task'[curr].state = "RUNNING"
              => overdue'[1] = curr
<1>1. PICK sig \in Signals : Become(hw2_log_switch(schedule(K, sig)))
  BY DEF Schedule
<1>2. PICK k : k = schedule(K, sig)
  OBVIOUS
<1>3. Good(K, {}, 0) /\ CurrQueued(K) /\ sig \in BOOLEAN /\ K.curr = curr /\ K.task = task /\ curr \in Task
  BY LineNow, QuietNow, QuietCurr, SchedAssumption DEF IInv
<1>4. /\ Follows(K, k)
      /\ curr \in Pid /\ is_overdue(task[curr]) /\ k.task[curr].state = "RUNNING"
           => k.overdue[1] = curr
  BY <1>2, <1>3, ScheduleFollows
<1>5. k \in Kernel
  BY <1>2, <1>3, Scheduled DEF Good, Typed
<1>6. PICK j : j = hw2_log_switch(k)
  OBVIOUS
<1>7. "overdue" \in DOMAIN j /\ j.overdue = k.overdue /\ j.task[curr].state = k.task[curr].state
  BY <1>3, <1>5, <1>6 DEF hw2_log_switch, UPDATE_REASON, Set, Kernel, TaskRecord
<1>8. overdue' = k.overdue /\ task' = j.task
  BY <1>1, <1>2, <1>6, <1>7 DEF Become
<1>9. Follows(K, j)
  BY <1>4, <1>7 DEF Follows
<1> QED BY <1>1, <1>2, <1>4, <1>6, <1>7, <1>8, <1>9, FollowsStep

\* The wake-up of a parent, if it sleeps.
LEMMA WaiterLine ==
  ASSUME NEW k, Good(k, {}, 0), NEW q \in Pid \cup {None}, NEW l, NEW s, NEW prio
  PROVE  Follows(k, WakeWaiter(k, q, l, s, prio))
<1>1. Follows(k, k)
  BY LineFacts, InLineSame DEF Follows, Lined
<1> QED BY <1>1, TryToWakeUpLine DEF WakeWaiter

\* mm_release: exec and the beginning of exit.
LEMMA ReleaseLine ==
  ASSUME IInv, NEW p \in Pid, mm_release(p)
  PROVE  Keeps
<1>1. PICK prio : Become(WakeWaiter(K, vfork_done[p], "vwait", "UNINTERRUPTIBLE", prio))
  BY DEF mm_release
<1>2. vfork_done[p] \in Pid \cup {None}
  BY DEF IInv, ProcTypes
<1> QED BY <1>1, <1>2, LineNow, WaiterLine, FollowsStep

\* exit_notify wakes up to two tasks.
LEMMA ExitNotifyLine ==
  ASSUME IInv, NEW p \in Pid, ExitNotify(p)
  PROVE  Keeps
<1> DEFINE orphans == {c \in Pid : parent[c] = p /\ Hashed(c)}
           heir    == IF \E c \in orphans : task[c].state = "ZOMBIE" THEN InitTask ELSE None
<1>1. PICK prio \in WaiterPrios(parent[p]), prio2 \in WaiterPrios(heir) :
        LET k1 == WakeWaiter(SetState(K, p, "ZOMBIE"), parent[p], "wait", "INTERRUPTIBLE", prio)
            k2 == WakeWaiter(k1, heir, "wait", "INTERRUPTIBLE", prio2)
        IN Become(forget_original_parent(UPDATE_REASON(k2, p, ENDED), orphans))
  BY DEF ExitNotify
<1>2. p = curr /\ p \in Task /\ heir \in Pid \cup {None} /\ parent[p] \in Pid \cup {None} /\ "ZOMBIE" \in States
  BY SchedAssumption DEF ExitNotify, At, IInv, ProcTypes, Task, States
<1> HIDE DEF orphans, heir
<1>3. PICK k0 : k0 = SetState(K, p, "ZOMBIE")
  OBVIOUS
<1>4. PICK k1 : k1 = WakeWaiter(k0, parent[p], "wait", "INTERRUPTIBLE", prio)
  OBVIOUS
<1>5. PICK k2 : k2 = WakeWaiter(k1, heir, "wait", "INTERRUPTIBLE", prio2)
  OBVIOUS
<1>6. PICK k3 : k3 = UPDATE_REASON(k2, p, ENDED)
  OBVIOUS
<1>7. PICK k4 : k4 = forget_original_parent(k3, orphans)
  OBVIOUS
<1>8. /\ Good(k0, {}, 0) /\ Quiet(k0) /\ k0.curr = curr /\ k0.overdue = overdue
      /\ \A q \in Pid : k0.task[q].policy = task[q].policy
  <2>1. Good(k0, {}, 0) /\ Quiet(k0) /\ Restated(K, k0, p, "ZOMBIE")
    BY <1>2, <1>3, LineNow, QuietNow, StateSet
  <2> QED BY <1>2, <2>1, LineNow DEF Restated, SameLists
<1>9. /\ Good(k1, {}, 0) /\ Quiet(k1) /\ Follows(k0, k1)
      /\ \A q \in Pid : k1.task[q].policy = task[q].policy
  BY <1>1, <1>2, <1>4, <1>8, WaiterWoken, WaiterLine
<1>10. Good(k2, {}, 0) /\ Follows(k1, k2) /\ k1.curr = curr
  <2>1. k1.curr = curr
    BY <1>9 DEF Quiet
  <2>2. Follows(k1, k2)
    BY <1>2, <1>5, <1>9, WaiterLine
  <2>3. heir \in Pid => k1.task[heir].policy = task[heir].policy
    BY <1>9
  <2>4. Good(k2, {}, 0)
    BY <1>1, <1>2, <1>5, <1>9, <2>3, WaiterWoken
  <2> QED BY <2>1, <2>2, <2>4
<1>11. Has(k4, k2.overdue)
  <2>1. Lined(k2)
    BY <1>10, LineFacts
  <2>2. Has(k3, k2.overdue) /\ SameLives(k2, k3)
    BY <1>2, <1>6, <2>1, FlagLine, FlagLives DEF Lined
  <2>3. Lined(k3) /\ k3.overdue = k2.overdue
    BY <2>1, <2>2, SameOverdue
  <2> QED BY <1>7, <2>3, OrphanLine
<1>12. InLine(overdue, k2.overdue, curr)
  BY <1>8, <1>9, <1>10, InLineTwice DEF Follows
<1> QED BY <1>1, <1>3, <1>4, <1>5, <1>6, <1>7, <1>11, <1>12 DEF Become, Has, Keeps

\* sched_setscheduler makes nobody overdue.
LEMMA SetSchedulerLine ==
  ASSUME IInv, NEW p \in Pid, SetScheduler(p)
  PROVE  Keeps
<1>1. PICK q \in Pid, policy \in NewPolicies, rt_priority \in 0 .. MAX_USER_RT_PRIO - 1,
           requested_time \in Requests, trials \in Trials :
        /\ MaySetScheduler(task[q], policy, rt_priority, requested_time, trials)
        /\ \E prio : Become(setscheduler(K, q, WithPolicy(task[q], policy, rt_priority,
                                                       requested_time, trials), prio))
  BY DEF SetScheduler
<1>2. PICK new : new = WithPolicy(task[q], policy, rt_priority, requested_time, trials)
  OBVIOUS
<1>3. requested_time \in Nat /\ trials \in Nat /\ policy \in Policies \cup {KEEP}
  BY Arguments, SchedAssumption
<1>4. Bearing(new)
  BY <1>2, <1>1, <1>3, Lived, PolicyLives
<1>5. is_overdue(new) <=> is_overdue(K.task[q])
  <2>1. PICK t : t = task[q]
    OBVIOUS
  <2>2. Proper(t) /\ MaySetScheduler(t, policy, rt_priority, requested_time, trials)
        /\ new = WithPolicy(t, policy, rt_priority, requested_time, trials)
    BY <1>2, <1>1, <2>1, Facts
  <2>3. is_overdue(new) <=> is_overdue(t)
    BY <1>3, <2>2, PolicyWritten
  <2> QED BY <2>1, <2>3, LineNow
<1>6. PICK prio : Become(setscheduler(K, q, new, prio))
  BY <1>2, <1>1
<1>7. Follows(K, setscheduler(K, q, new, prio))
  BY <1>4, <1>5, LineNow, SetschedulerFollows
<1> QED BY <1>6, <1>7, FollowsStep

\* nice.
LEMMA NiceLine ==
  ASSUME IInv, NEW p \in Pid, Nice(p)
  PROVE  Keeps
<1>1. PICK q \in Pid, prio \in NicePrios : Become(set_user_nice(K, q, prio))
  BY DEF Nice
<1> QED BY <1>1, LineNow, NiceFollows, FollowsStep

\* sched_yield.
LEMMA YieldLine ==
  ASSUME IInv, NEW p \in Pid, Yield(p)
  PROVE  Keeps
<1>1. p = K.curr /\ Become(sys_sched_yield(K, p))
  BY Current DEF Yield, Call, At
<1> QED BY <1>1, LineNow, YieldFollows, FollowsStep

\* The child joins the line if its parent had used up all trials.
LEMMA ForkWakeLine ==
  ASSUME IInv, NEW p \in Pid, ForkWake(p)
  PROVE  Keeps
<1> DEFINE c == kid[p]
           vfork == vfork_done[c] # None
<1>1. PICK prio : LET k == wake_up_forked_process(K, c, prio)
                  IN Become(IF vfork THEN k ELSE ForkResched(k, p, FALSE))
  BY DEF ForkWake
<1>2. c \in Pid /\ ~ Enqueued(K.task[c])
  <2>1. c \in Pid /\ pc[c] = "copy"
    BY DEF ForkWake, At, IInv, Copied, Forking
  <2> QED BY <2>1, Facts, LineNow DEF Queued
<1>3. PICK k : k = wake_up_forked_process(K, c, prio)
  OBVIOUS
<1>4. Lined(k) /\ Follows(K, k)
  BY <1>2, <1>3, LineNow, WakeForkedFollows
<1>5. Follows(K, ForkResched(k, p, FALSE))
  BY <1>4, LineNow, ForkReschedLine DEF Follows, Has
<1> QED BY <1>1, <1>3, <1>4, <1>5, FollowsStep

\* The trials are shared, and the parent may go through a tick.
LEMMA ForkSplitLine ==
  ASSUME IInv, NEW p \in Pid, ForkSplit(p)
  PROVE  Keeps
<1>1. PICK prio, stay : Become(SplitSlice(K, p, kid[p], prio, stay))
  BY DEF ForkSplit
<1>2. kid[p] \in Pid
  BY DEF ForkSplit, At, IInv, Copied, Forking
<1> QED BY <1>1, <1>2, LineNow, SplitFollows, FollowsStep

\* The steps that only write records: those that sleep, return, copy, free or reap.
LEMMA RecordLine ==
  ASSUME IInv, NEW p \in Pid,
         \/ Sleep(p) \/ ForkBlock(p) \/ VforkBlock(p) \/ ExitBlock(p) \/ WaitEnter(p)
         \/ WaitReturn(p) \/ YieldShort(p) \/ WaitBlock(p) \/ VforkReturn(p)
         \/ ForkFail(p) \/ Reap(p) \/ \E c \in Pid, vfork \in BOOLEAN : ForkCopy(p, c, vfork)
  PROVE  Keeps
<1>1. \A s : Has(SetState(K, p, s), overdue)
  BY LineNow, FlagLine
<1>2. \A q \in Pid : \A t : Has(Set(K, q, t), overdue)
  BY LineNow, SetLine
<1>3. CASE YieldShort(p) \/ WaitBlock(p)
  <2>1. overdue' = overdue
    BY <1>3 DEF YieldShort, WaitBlock, rqVars
  <2> QED BY <2>1, LineNow, InLineSame DEF Keeps
<1>4. CASE Sleep(p) \/ ForkBlock(p) \/ VforkBlock(p) \/ ExitBlock(p) \/ WaitEnter(p) \/ WaitReturn(p)
  BY <1>1, <1>4, SameLineStep DEF Sleep, ForkBlock, VforkBlock, ExitBlock, WaitEnter, WaitReturn
<1>5. CASE VforkReturn(p)
  <2>1. Become(ForkResched(K, p, TRUE))
    BY <1>5 DEF VforkReturn
  <2>2. Has(ForkResched(K, p, TRUE), overdue)
    BY LineNow, ForkReschedLine
  <2> QED BY <2>1, <2>2, SameLineStep
<1>6. CASE ForkFail(p) \/ \E c \in Pid, vfork \in BOOLEAN : ForkCopy(p, c, vfork)
  <2>1. \E q, t : Become(Set(K, q, t))
    BY <1>6 DEF ForkFail, ForkCopy
  <2> QED BY <2>1, LineNow, SetLine, SameLineStep
<1>7. CASE Reap(p)
  <2>1. PICK c : Become(Set(SetState(sched_exit(K, p, c), p, "RUNNING"), c, BlankTask))
    BY <1>7 DEF Reap
  <2>2. PICK i : i = sched_exit(K, p, c)
    OBVIOUS
  <2>3. Lined(i) /\ i.overdue = overdue
    <3>1. SameLives(K, i) /\ Has(i, overdue)
      BY <2>2, LineNow, SchedExitLives, SchedExitLine
    <3> QED BY <3>1, LineNow, SameOverdue
  <2>4. Lined(SetState(i, p, "RUNNING")) /\ SetState(i, p, "RUNNING").overdue = overdue
    <3>1. SameLives(i, SetState(i, p, "RUNNING")) /\ Has(SetState(i, p, "RUNNING"), overdue)
      BY <2>3, LineNow, FlagLives, FlagLine DEF Lined
    <3> QED BY <2>3, <3>1, SameOverdue
  <2>5. Has(Set(SetState(i, p, "RUNNING"), c, BlankTask), overdue)
    BY <2>4, SetLine
  <2> QED BY <2>1, <2>2, <2>5, SameLineStep
<1> QED BY <1>3, <1>4, <1>5, <1>6, <1>7

\* The timer interrupt.
LEMMA TickLine ==
  ASSUME IInv, Tick
  PROVE  Keeps
<1>1. PICK prio, stay : Become(scheduler_tick(K, prio, stay))
  BY DEF Tick
<1> QED BY <1>1, LineNow, TickFollows, FollowsStep

\* Every step keeps the line.
LEMMA NextKeeps ==
  ASSUME IInv, [Next]_vars
  PROVE  Keeps
<1>1. CASE UNCHANGED vars \/ TailCheck
  <2>1. overdue' = overdue
    BY <1>1 DEF vars, rqVars, TailCheck
  <2> QED BY <2>1, LineNow, InLineSame DEF Keeps
<1>2. CASE Tick
  BY <1>2, TickLine
<1>3. CASE \E p \in Pid : WakeUp(p)
  <2>1. PICK p \in Pid : \E prio : Become(try_to_wake_up(K, p, prio))
    BY <1>3 DEF WakeUp
  <2> QED BY <2>1, LineNow, TryToWakeUpLine, FollowsStep
<1>4. CASE Schedule
  BY <1>4, ScheduleLine
<1>5. CASE TailClear
  <2>1. Has(UPDATE_REASON(K, last, UNKNOWN), overdue) /\ Become(UPDATE_REASON(K, last, UNKNOWN))
    BY <1>5, LineNow, FlagLine DEF TailClear
  <2> QED BY <2>1, SameLineStep
<1>6. CASE \E p \in Pid : SysCall(p)
  <2>1. PICK p \in Pid : SysCall(p)
    BY <1>6
  <2>2. CASE Exec(p) \/ ExitBegin(p)
    BY <2>2, ReleaseLine DEF Exec, ExitBegin
  <2>3. CASE SetScheduler(p)
    BY <2>3, SetSchedulerLine
  <2>4. CASE Nice(p)
    BY <2>4, NiceLine
  <2>5. CASE Yield(p)
    BY <2>5, YieldLine
  <2>6. CASE ForkSplit(p)
    BY <2>6, ForkSplitLine
  <2>7. CASE ForkWake(p)
    BY <2>7, ForkWakeLine
  <2>8. CASE ExitNotify(p)
    BY <2>8, ExitNotifyLine
  <2>9. CASE \/ Sleep(p) \/ ForkBlock(p) \/ VforkBlock(p) \/ ExitBlock(p) \/ WaitEnter(p)
             \/ WaitReturn(p) \/ YieldShort(p) \/ WaitBlock(p) \/ VforkReturn(p)
             \/ ForkFail(p) \/ Reap(p) \/ \E c \in Pid, vfork \in BOOLEAN : ForkCopy(p, c, vfork)
    BY <2>9, RecordLine
  <2> QED BY <2>1, <2>2, <2>3, <2>4, <2>5, <2>6, <2>7, <2>8, <2>9 DEF SysCall
<1> QED BY <1>1, <1>2, <1>3, <1>4, <1>5, <1>6 DEF Next

\* The step of OverdueInOrder.
Ordered ==
  \A p \in Elements(overdue') :
    \A q \in (Elements(overdue) \cap Elements(overdue')) \ {p, curr} :
      (p \notin Elements(overdue) \/ Before(overdue, p, q)) => Before(overdue', p, q)

\* A line that is kept, and has everybody once, is in order.
LEMMA KeepsOrder ==
  ASSUME IInv, IInv', Keeps
  PROVE  Ordered
<1>1. overdue \in Seq(Pid) /\ NoDuplicates(overdue) /\ overdue' \in Seq(Pid)
  BY LineNow DEF Keeps, InLine
<1> SUFFICES ASSUME NEW p \in Elements(overdue'),
                    NEW q \in (Elements(overdue) \cap Elements(overdue')) \ {p, curr},
                    p \notin Elements(overdue) \/ Before(overdue, p, q)
             PROVE  Before(overdue', p, q)
  BY DEF Ordered
<1>2. PICK i, j \in 1 .. Len(overdue') : overdue'[i] = p /\ overdue'[j] = q
  BY DEF Elements
<1>3. i < j \/ j < i
  BY <1>1, <1>2, LenProperties
<1>4. ~ j < i
  <2> SUFFICES ASSUME j < i PROVE FALSE
    OBVIOUS
  <2>1. Before(overdue', q, p) /\ p \in Pid
    BY <1>1, <1>2, Ends DEF Before
  <2>2. Before(overdue, q, p)
    BY <2>1 DEF Keeps, InLine
  <2>3. PICK m, n \in 1 .. Len(overdue) : m < n /\ overdue[m] = q /\ overdue[n] = p
    BY <2>2 DEF Before
  <2>4. PICK m2, n2 \in 1 .. Len(overdue) : m2 < n2 /\ overdue[m2] = p /\ overdue[n2] = q
    BY <2>3 DEF Before, Elements
  <2>5. m = n2 /\ n = m2
    BY <1>1, <2>3, <2>4 DEF NoDuplicates
  <2> QED BY <1>1, <2>3, <2>4, <2>5, LenProperties
<1> QED BY <1>2, <1>3, <1>4 DEF Before

\* The step of OverdueGoesLast.
LastInLine ==
  curr' # curr /\ curr \in Pid /\ is_overdue(task[curr]) /\ task'[curr].state = "RUNNING"
    => overdue'[1] = curr

\* Nothing but schedule() changes the current task.
LEMMA SameCurr ==
  ASSUME IInv, Next, ~ Schedule
  PROVE  curr' = curr
<1>1. CASE Tick \/ TailCheck \/ TailClear
  BY <1>1, TickStep, TailCheckStep, TailClearStep DEF AsWas, Touches
<1>2. CASE \E p \in Pid : WakeUp(p)
  BY <1>2, WakeUpStep DEF Awakens, Touches
<1>3. CASE \E p \in Pid : SysCall(p)
  <2>1. PICK p \in Pid : SysCall(p)
    BY <1>3
  <2>2. CASE Exec(p) \/ ExitBegin(p)
    <3>1. Tells(p)
      BY <2>2, ExecStep, ExitBeginStep
    <3> QED BY <3>1 DEF Tells, Awakens, AsWas, Touches
  <2>3. CASE Sleep(p) \/ ForkBlock(p) \/ VforkBlock(p) \/ ExitBlock(p) \/ WaitEnter(p) \/ WaitReturn(p)
    BY <2>3, SleepStep, WaitReturnStep DEF Sets, Touches
  <2>4. CASE \/ YieldShort(p) \/ WaitBlock(p) \/ Nice(p) \/ Yield(p) \/ VforkReturn(p) \/ ForkSplit(p)
    BY <2>4, GoOnStep, NiceStep, YieldStep, VforkReturnStep, ForkSplitStep DEF AsWas, Touches
  <2>5. CASE SetScheduler(p)
    BY <2>5, SetSchedulerStep DEF Touches
  <2>6. CASE ExitNotify(p)
    BY <2>6, ExitNotifyStep DEF Notifies
  <2>7. CASE ForkFail(p) \/ ForkWake(p) \/ Reap(p) \/ \E c \in Pid, vfork \in BOOLEAN : ForkCopy(p, c, vfork)
    BY <2>7, ForkFailStep, ForkWakeStep, ReapStep, ForkCopyStep DEF Touches
  <2> QED BY <2>1, <2>2, <2>3, <2>4, <2>5, <2>6, <2>7 DEF SysCall
<1> QED BY <1>1, <1>2, <1>3 DEF Next

\* So an overdue task that loses the CPU does so in schedule().
LEMMA NextLastInLine ==
  ASSUME IInv, [Next]_vars
  PROVE  LastInLine
<1>1. CASE Schedule
  BY <1>1, ScheduleLine DEF LastInLine
<1>2. CASE Next /\ ~ Schedule
  BY <1>2, SameCurr DEF LastInLine
<1>3. CASE UNCHANGED vars
  BY <1>3 DEF vars, rqVars, LastInLine
<1> QED BY <1>1, <1>2, <1>3

\* First come, first served among the overdue tasks: no step, be it a wake-up, a tick, a
\* fork or a system call on another task, lets one overtake another that waits.
THEOREM SchedOverdueInOrder == Spec => OverdueInOrder
<1>1. IInv /\ [Next]_vars => IInv' /\ [Ordered]_vars
  BY NextIInv, NextKeeps, KeepsOrder
<1>2. Spec => [][Ordered]_vars
  BY <1>1, InitIInv, PTL DEF Spec
<1> QED BY <1>2 DEF OverdueInOrder, Ordered

\* An overdue task that loses the CPU while it can run goes to the end of the line: only
\* schedule() switches, and there PushPrevBack has put it there.
THEOREM SchedOverdueGoesLast == Spec => OverdueGoesLast
<1>1. IInv /\ [Next]_vars => IInv' /\ [LastInLine]_vars
  BY NextIInv, NextLastInLine
<1>2. Spec => [][LastInLine]_vars
  BY <1>1, InitIInv, PTL DEF Spec
<1> QED BY <1>2 DEF OverdueGoesLast, LastInLine

-----------------------------------------------------------------------------
(* Nobody waits behind a task that does not outrank him.                   *)

\* What the shape of the runqueue gives the lemmas below.
LEMMA FairFacts ==
  ASSUME NEW k, NEW n \in Int, Good(k, {}, n)
  PROVE  /\ Ranked(k) /\ Shaped(k) /\ k.curr \in Task /\ Pid \subseteq Task
         /\ \A q \in Pid : Proper(k.task[q]) /\ (is_short(k.task[q]) => ~ rt_task(k.task[q]))
         /\ \A q \in Task : k.task[q] \in TaskRecord /\ k.task[q].prio \in Int
         /\ k.curr \in Pid \/ ~ is_short(k.task[k.curr])
<1>1. Typed(k) /\ k.task \in [Task -> TaskRecord] /\ k.curr \in Task /\ Pid \subseteq Task
  BY DEF Good, Typed, Kernel, Task
<1>2. Ranked(k) /\ Shaped(k)
  BY <1>1, RankedNow, ShapedNow
<1>3. \A q \in Task : k.task[q] \in TaskRecord /\ k.task[q].prio \in Int
  BY <1>1 DEF TaskRecord
<1>4. \A q \in Pid : Proper(k.task[q]) /\ (is_short(k.task[q]) => ~ rt_task(k.task[q]))
  BY <1>1 DEF Typed, Proper, is_short
<1>5. k.curr \in Pid \/ ~ is_short(k.task[k.curr])
  BY <1>1 DEF Typed, Task, is_short
<1> QED BY <1>1, <1>2, <1>3, <1>4, <1>5

\* The priorities of the SHORT tasks stay the static ones if that of p does.
LEMMA BonusKept ==
  ASSUME NEW k, NEW p \in Task, NEW j, RanksBut(k, j, p), NoBonus(k), Pid \subseteq Task,
         \A q \in Task : j.task[q].policy = k.task[q].policy,
         is_short(k.task[p]) => j.task[p].prio = j.task[p].static_prio
  PROVE  NoBonus(j)
BY DEF RanksBut, NoBonus, SameRank, SamePrio, is_short

\* A task that was told to go holds nobody up.
LEMMA GoingIsFair ==
  ASSUME NEW k, Told(k.task[k.curr]), NoBonus(k)
  PROVE  Fair(k)
BY DEF Fair, Contended

\* Whether u waits for t is decided by their lives and their priorities.
LEMMA SameOutranks ==
  ASSUME NEW t, NEW u, NEW t1, NEW u1, SameLife(t1, t), t1.prio = t.prio,
         SameLife(u1, u), u1.prio = u.prio, Outranks(t, u)
  PROVE  Outranks(t1, u1)
BY DEF Outranks, SameLife, rt_task, is_short, is_overdue

\* Whatever a step does to p, the others go on as they were, if p is behind the current
\* task and the current task is the same, or is p and as good or told to go.
LEMMA FairBut ==
  ASSUME NEW k, Fair(k), Ranked(k), Shaped(k), NEW p \in Pid, Pid \subseteq Task,
         NEW j, RanksBut(k, j, p), SameLives(k, j),
         \A q \in Pid \ {p} : Enqueued(j.task[q]) => Enqueued(k.task[q]),
         is_short(k.task[p]) => j.task[p].prio = j.task[p].static_prio,
         p = k.curr => Told(j.task[p]) \/ j.task[p].prio = k.task[p].prio,
         p # k.curr => Told(j.task[k.curr]) \/ Outranks(j.task[k.curr], j.task[p])
                         \/ ~ Vies(j.task[p])
  PROVE  Fair(j)
<1>1. NoBonus(j)
  <2>1. \A q \in Task : j.task[q].policy = k.task[q].policy
    BY DEF SameLives, SameLife
  <2> QED BY <2>1, BonusKept DEF Fair
<1>2. Contended(j)
  <2>1. SUFFICES ASSUME NEW q \in Pid, q # j.curr, Vies(j.task[q]), ~ Told(j.task[j.curr])
                 PROVE  Outranks(j.task[j.curr], j.task[q])
    BY DEF Contended
  <2>2. j.curr = k.curr /\ k.curr \in Task
    BY DEF SameLives, Ranked
  <2>3. CASE q = p
    BY <2>1, <2>2, <2>3
  <2>4. CASE q # p
    <3>1. /\ SameLife(j.task[q], k.task[q]) /\ j.task[q].prio = k.task[q].prio
      BY <2>4 DEF SameLives, RanksBut, SameRank, SamePrio
    <3>2. Vies(k.task[q])
      BY <2>1, <2>4, <3>1 DEF Vies, SameLife, is_short, is_overdue
    <3>3. SameLife(j.task[k.curr], k.task[k.curr]) /\ j.task[k.curr].prio = k.task[k.curr].prio
      BY <2>1, <2>2 DEF SameLives, RanksBut, SameRank, SamePrio
    <3>4. ~ Told(k.task[k.curr])
      BY <2>1, <2>2 DEF RanksBut, SameRank
    <3>5. Outranks(k.task[k.curr], k.task[q])
      BY <2>1, <2>2, <3>2, <3>4 DEF Fair, Contended
    <3> QED BY <2>2, <3>1, <3>3, <3>5, SameOutranks
  <2> QED BY <2>3, <2>4
<1> QED BY <1>1, <1>2 DEF Fair

\* In particular where a step leaves everything that counts as it is.
LEMMA FairSame ==
  ASSUME NEW k, NEW n \in Int, Good(k, {}, n), Fair(k), NEW j, SameRanks(k, j), SameLives(k, j),
         \A q \in Pid : Enqueued(j.task[q]) => Enqueued(k.task[q])
  PROVE  Fair(j)
<1>1. Ranked(k) /\ Shaped(k) /\ Pid \subseteq Task /\ k.curr \in Task
  BY FairFacts
<1>2. NoBonus(j)
  BY <1>1 DEF Fair, NoBonus, SameRanks, SameRank, SamePrio, SameLives, SameLife, is_short
<1>3. Contended(j)
  <2>1. SUFFICES ASSUME NEW q \in Pid, q # j.curr, Vies(j.task[q]), ~ Told(j.task[j.curr])
                 PROVE  Outranks(j.task[j.curr], j.task[q])
    BY DEF Contended
  <2>2. j.curr = k.curr /\ ~ Told(k.task[k.curr])
    BY <1>1, <2>1 DEF SameRanks, SameRank
  <2>3. /\ SameLife(j.task[q], k.task[q]) /\ j.task[q].prio = k.task[q].prio
        /\ SameLife(j.task[k.curr], k.task[k.curr]) /\ j.task[k.curr].prio = k.task[k.curr].prio
    BY <1>1 DEF SameLives, SameRanks, SameRank, SamePrio
  <2>4. Vies(k.task[q])
    BY <2>1, <2>3 DEF Vies, SameLife, is_short, is_overdue
  <2>5. Outranks(k.task[k.curr], k.task[q])
    BY <2>1, <2>2, <2>4 DEF Fair, Contended
  <2> QED BY <2>2, <2>3, <2>5, SameOutranks
<1> QED BY <1>2, <1>3 DEF Fair

\* should_switch says no only to a task the current one outranks.
LEMMA NoSwitch ==
  ASSUME NEW t, NEW u, ~ should_switch(t, u), Vies(u), ~ rt_task(u),
         t.prio \in Int, u.prio \in Int
  PROVE  Outranks(t, u)
BY DEF should_switch, Vies, Outranks

\* A wake-up, by an interrupt or by another task.
LEMMA WakeUpFair ==
  ASSUME NEW k, NEW n \in Int, Good(k, {}, n), CurrQueued(k), Fair(k), NEW p \in Pid,
         NEW prio \in ActivationPrios(k.task[p]), NEW j, j = try_to_wake_up(k, p, prio)
  PROVE  Fair(j)
<1>1. /\ Ranked(k) /\ Shaped(k) /\ k.curr \in Task /\ Pid \subseteq Task
      /\ Proper(k.task[p]) /\ (is_short(k.task[p]) => ~ rt_task(k.task[p]))
  BY FairFacts
<1>2. FitPrio(k.task[p], prio)
  BY <1>1, ActivationPrio
<1>3. Good(j, {}, n) /\ Wakes(k, j, p)
  BY <1>2, TryToWakeUp DEF CurrQueued
<1>4. SameLives(k, j)
  BY <1>1, TryToWakeUpLives
<1>5. CASE Enqueued(k.task[p])
  <2>1. SameRanks(k, j)
    BY <1>1, <1>5, AwakeRanks
  <2>2. \A q \in Pid : Enqueued(j.task[q]) => Enqueued(k.task[q])
    BY <1>3, <1>5 DEF Wakes
  <2> QED BY <1>4, <2>1, <2>2, FairSame
<1>6. CASE ~ Enqueued(k.task[p])
  <2>1. p # k.curr
    BY <1>6 DEF CurrQueued
  <2>2. /\ RanksBut(k, j, p)
        /\ j.task[p].prio = prio /\ j.task[p].static_prio = k.task[p].static_prio
        /\ Told(j.task[k.curr]) \/ ~ should_switch(j.task[k.curr], j.task[p])
    BY <1>1, <1>6, <2>1, TryToWakeUpRanks
  <2>3. is_short(k.task[p]) => j.task[p].prio = j.task[p].static_prio
    BY <1>1, <2>2 DEF ActivationPrios, effective_prio, Fair, NoBonus
  <2>4. Told(j.task[k.curr]) \/ Outranks(j.task[k.curr], j.task[p]) \/ ~ Vies(j.task[p])
    <3>1. /\ \A q \in Pid : is_short(j.task[q]) => ~ rt_task(j.task[q])
          /\ \A q \in Task : j.task[q].prio \in Int
      BY <1>3, FairFacts
    <3> QED BY <1>1, <2>2, <3>1, NoSwitch DEF Vies
  <2>5. \A q \in Pid \ {p} : Enqueued(j.task[q]) => Enqueued(k.task[q])
    BY <1>3 DEF Wakes
  <2> QED BY <1>1, <1>4, <2>1, <2>2, <2>3, <2>4, <2>5, FairBut
<1> QED BY <1>5, <1>6

\* The timer interrupt.
LEMMA TickFair ==
  ASSUME NEW k, NEW n \in Int, Good(k, {}, n), CurrQueued(k), Fair(k), NEW prio \in UserPrio,
         NEW stay \in BOOLEAN, NEW j, j = scheduler_tick(k, prio, stay)
  PROVE  Fair(j)
<1>p. PICK p : p = k.curr
  OBVIOUS
<1>1. /\ Ranked(k) /\ Shaped(k) /\ p \in Task /\ Pid \subseteq Task
      /\ p \in Pid \/ ~ is_short(k.task[p])
  BY <1>p, FairFacts
<1>2. Calm(k, j)
  BY SchedulerTick
<1>3. /\ RanksBut(k, j, p)
      /\ is_short(k.task[p]) => SameRanks(k, j)
      /\ Told(j.task[p]) \/ (SameLives(k, j) /\ SameRanks(k, j))
  BY <1>p, <1>1, TickRanks
<1>4. CASE Told(j.task[p])
  <2>1. is_short(k.task[p]) => j.task[p].prio = j.task[p].static_prio
    BY <1>1, <1>3 DEF SameRanks, SameRank, SamePrio, Fair, NoBonus
  <2>2. NoBonus(j)
    BY <1>1, <1>2, <1>3, <2>1, BonusKept DEF Calm, Fair
  <2> QED BY <1>p, <1>2, <1>4, <2>2, GoingIsFair DEF Calm
<1>5. CASE SameLives(k, j) /\ SameRanks(k, j)
  BY <1>2, <1>5, FairSame DEF Calm
<1> QED BY <1>3, <1>4, <1>5

\* do_fork's sharing of slice and trials.
LEMMA SplitFair ==
  ASSUME NEW k, NEW n \in Int, Good(k, {}, n), CurrQueued(k), Fair(k), NEW p \in Pid, p = k.curr,
         NEW c \in Pid, c # p, ~ Enqueued(k.task[c]), ~ k.task[c].queued,
         NEW prio \in UserPrio, NEW stay \in BOOLEAN, NEW j, j = SplitSlice(k, p, c, prio, stay)
  PROVE  Fair(j)
<1>1. PICK i : /\ Good(i, {}, n) /\ Calm(k, i) /\ CurrQueued(i) /\ Divides(k, i, p, c)
               /\ j = scheduler_tick(i, prio, stay) \/ j = i
  BY SliceShared
<1>2. NoBonus(i)
  BY <1>1, FairFacts DEF Calm, Divides, Fair, NoBonus, is_short
<1>3. Contended(i)
  <2>1. SUFFICES ASSUME NEW q \in Pid, q # i.curr, Vies(i.task[q]), ~ Told(i.task[i.curr])
                 PROVE  Outranks(i.task[i.curr], i.task[q])
    BY DEF Contended
  <2>2. i.curr = p /\ p \in Task /\ c \in Task /\ q \in Task /\ ~ Told(k.task[p])
    BY <1>1, <2>1, FairFacts DEF Calm, Divides, Told
  <2>3. q # c
    BY <1>1, <2>1 DEF Calm, Vies
  <2>4. i.task[q] = k.task[q]
    BY <1>1, <2>1, <2>2, <2>3 DEF Divides
  <2>5. Outranks(k.task[p], k.task[q])
    BY <2>1, <2>2, <2>4 DEF Fair, Contended
  <2>6. /\ i.task[p].prio = k.task[p].prio /\ i.task[p].policy = k.task[p].policy
        /\ is_overdue(i.task[p]) <=> is_overdue(k.task[p])
    BY <1>1, <2>2 DEF Calm, Divides
  <2> QED BY <2>2, <2>4, <2>5, <2>6 DEF Outranks, rt_task, is_short
<1>4. Fair(i)
  BY <1>2, <1>3 DEF Fair
<1> QED BY <1>1, <1>4, TickFair

\* nice: a SHORT task keeps no bonus, and whoever should run next is told.
LEMMA NiceFair ==
  ASSUME NEW k, NEW n \in Int, Good(k, {}, n), CurrQueued(k), Fair(k), NEW p \in Pid,
         NEW prio \in UserPrio, NEW j, j = set_user_nice(k, p, prio)
  PROVE  Fair(j)
<1>t. PICK t : t = k.task[p]
  OBVIOUS
<1>1. /\ Ranked(k) /\ Shaped(k) /\ k.curr \in Task /\ Pid \subseteq Task /\ p \in Task
      /\ Proper(t) /\ (is_short(t) => ~ rt_task(t)) /\ Graded(t)
  BY <1>t, FairFacts DEF Ranked
<1>2. Good(j, {}, n) /\ Calm(k, j)
  BY NiceSet
<1>3. SameLives(k, j) /\ \A q \in Pid \ {p} : Enqueued(j.task[q]) => Enqueued(k.task[q])
  BY <1>1, <1>2, NiceLives DEF Calm
<1>4. CASE t.static_prio = prio \/ is_overdue(t)
  <2>1. j = k
    BY <1>t, <1>4 DEF set_user_nice
  <2> QED BY <2>1
<1>5. CASE t.static_prio # prio /\ ~ is_overdue(t) /\ rt_task(t)
  <2> DEFINE u == [t EXCEPT !.static_prio = prio]
  <2>1. Graded(u) /\ u.prio = t.prio /\ (Told(t) => Told(u)) /\ u.policy = t.policy
    BY <1>1 DEF Graded, Told, Proper, TaskRecord
  <2>2. j = Set(k, p, u)
    BY <1>t, <1>5 DEF set_user_nice
  <2> HIDE DEF u
  <2>3. RanksBut(k, j, p) /\ j.task[p] = u
    BY <1>t, <1>1, <2>1, <2>2, GradeWritten
  <2>4. ~ is_short(t) /\ ~ Vies(j.task[p])
    BY <1>1, <1>5, <2>1, <2>3 DEF Vies, is_short
  <2> QED BY <1>t, <1>1, <1>3, <2>1, <2>3, <2>4, FairBut
<1>6. CASE t.static_prio # prio /\ ~ is_overdue(t) /\ ~ rt_task(t) /\ t.array = NULL
  <2> DEFINE u == [t EXCEPT !.static_prio = prio, !.prio = prio]
  <2>1. Graded(u) /\ u.prio = prio /\ u.static_prio = prio /\ (Told(t) => Told(u))
    BY <1>1 DEF Graded, Told, Proper, TaskRecord
  <2>2. j = Set(k, p, u)
    BY <1>t, <1>6 DEF set_user_nice
  <2> HIDE DEF u
  <2>3. RanksBut(k, j, p) /\ j.task[p] = u
    BY <1>t, <1>1, <2>1, <2>2, GradeWritten
  <2>4. ~ Enqueued(t) /\ p # k.curr
    BY <1>t, <1>6 DEF Enqueued, CurrQueued
  <2>5. ~ Vies(j.task[p])
    BY <1>t, <1>2, <2>4 DEF Vies, Calm
  <2> QED BY <1>t, <1>1, <1>3, <2>1, <2>3, <2>4, <2>5, FairBut
<1>7. CASE t.static_prio # prio /\ ~ is_overdue(t) /\ ~ rt_task(t) /\ t.array # NULL
  <2>1. /\ RanksBut(k, j, p)
        /\ j.task[p].prio = prio /\ j.task[p].static_prio = prio
        /\ \/ Told(j.task[k.curr])
           \/ p # k.curr /\ ~ should_switch(j.task[k.curr], j.task[p])
    BY <1>t, <1>1, <1>7, NiceRanks
  <2>2. Told(j.task[k.curr]) \/ Outranks(j.task[k.curr], j.task[p]) \/ ~ Vies(j.task[p])
    <3>1. /\ \A q \in Pid : is_short(j.task[q]) => ~ rt_task(j.task[q])
          /\ \A q \in Task : j.task[q].prio \in Int
      BY <1>2, FairFacts
    <3> QED BY <1>1, <2>1, <3>1, NoSwitch DEF Vies
  <2> QED BY <1>1, <1>3, <2>1, <2>2, FairBut
<1> QED BY <1>4, <1>5, <1>6, <1>7

\* sched_yield: the caller is not SHORT, and nobody SHORT waits for one that is not real-time.
LEMMA YieldFair ==
  ASSUME NEW k, NEW n \in Int, Good(k, {}, n), Fair(k), NEW p \in Pid, p = k.curr,
         Enqueued(k.task[p]), ~ is_short(k.task[p]), NEW j, j = sys_sched_yield(k, p)
  PROVE  Fair(j)
<1>1. Ranked(k) /\ Shaped(k) /\ Pid \subseteq Task /\ p \in Task
  BY FairFacts
<1>2. Calm(k, j) /\ SameLives(k, j)
  BY <1>1, Yielded, YieldLives
<1>3. RanksBut(k, j, p) /\ (rt_task(k.task[p]) => j.task[p].prio = k.task[p].prio)
  BY <1>1, YieldRanks
<1>4. CASE rt_task(k.task[p])
  BY <1>1, <1>2, <1>3, <1>4, FairBut DEF Calm
<1>5. CASE ~ rt_task(k.task[p])
  <2>1. NoBonus(j)
    BY <1>1, <1>2, <1>3, BonusKept DEF Calm, Fair
  <2>2. ASSUME NEW q \in Pid, q # j.curr, Vies(j.task[q])
        PROVE  Told(j.task[j.curr])
    <3>1. q # p /\ j.curr = p /\ SameLife(j.task[q], k.task[q])
      BY <1>1, <1>2, <2>2 DEF SameLives
    <3>2. Vies(k.task[q])
      BY <1>2, <2>2, <3>1 DEF Vies, Calm, SameLife, is_short, is_overdue
    <3>3. Told(k.task[p])
      BY <1>5, <3>1, <3>2 DEF Fair, Contended, Outranks
    <3> QED BY <1>3, <3>1, <3>3 DEF RanksBut
  <2>3. Contended(j)
    BY <2>2 DEF Contended
  <2> QED BY <2>1, <2>3 DEF Fair
<1> QED BY <1>4, <1>5

\* What setscheduler writes leaves the static priority and need_resched alone, and gives a
\* SHORT task its static priority.
LEMMA PolicyGrade ==
  ASSUME NEW t, Proper(t), NEW policy, NEW rt_priority, NEW requested_time, NEW trials,
         NEW new, new = WithPolicy(t, policy, rt_priority, requested_time, trials)
  PROVE  /\ new.static_prio = t.static_prio /\ new.need_resched = t.need_resched
         /\ new.policy = NewPolicy(t, policy)
         /\ is_short(new) => new.prio = new.static_prio
<1>1. {"policy", "prio", "static_prio", "need_resched", "requested_time", "remaining_trials",
       "current_trial", "time_slice"} \subseteq DOMAIN t
  BY DEF Proper, TaskRecord
<1>2. PICK n : n = NewPolicy(t, policy)
  OBVIOUS
<1>3. PICK x : x = IF n \in {"FIFO", "RR"} THEN MAX_USER_RT_PRIO - 1 - rt_priority ELSE t.static_prio
  OBVIOUS
<1>4. PICK s : s = Max({1, hw2_ms_to_ticks(requested_time)})
  OBVIOUS
<1> DEFINE t1 == [t EXCEPT !.policy = n, !.prio = x]
           t2 == [t1 EXCEPT !.requested_time = requested_time]
           t3 == [t2 EXCEPT !.remaining_trials = trials, !.current_trial = 1, !.time_slice = s]
<1>5. new = IF n # "SHORT" THEN t1 ELSE IF is_short(t) THEN t2 ELSE t3
  BY <1>2, <1>3, <1>4 DEF WithPolicy
<1>6. \A v \in {t1, t2, t3} : /\ v.static_prio = t.static_prio /\ v.need_resched = t.need_resched
                              /\ v.policy = n /\ v.prio = x
  BY <1>1
<1> HIDE DEF t1, t2, t3
<1> QED BY <1>2, <1>3, <1>5, <1>6 DEF is_short

\* sched_setscheduler and sched_setparam, where nobody is made OTHER again.
LEMMA SetschedulerFair ==
  ASSUME NEW k, NEW n \in Int, Good(k, {}, n), CurrQueued(k), Fair(k), NEW p \in Pid,
         NEW policy \in (Policies \cup {KEEP}) \ {"OTHER"},
         NEW rt_priority, NEW requested_time \in Nat, NEW trials \in Nat,
         MaySetScheduler(k.task[p], policy, rt_priority, requested_time, trials),
         NEW new, new = WithPolicy(k.task[p], policy, rt_priority, requested_time, trials),
         NEW prio \in ActivationPrios(new), NEW j, j = setscheduler(k, p, new, prio)
  PROVE  Fair(j)
<1>t. PICK t : t = k.task[p]
  OBVIOUS
<1>1. /\ Ranked(k) /\ Shaped(k) /\ k.curr \in Task /\ Pid \subseteq Task /\ p \in Task
      /\ Proper(t) /\ Bearing(t)
  BY <1>t, FairFacts DEF Shaped
<1>2. /\ Proper(new) /\ new.array = t.array /\ new.queued = t.queued /\ new.state = t.state
      /\ is_overdue(new) <=> is_overdue(t)
      /\ is_overdue(new) => new.policy = t.policy
  BY <1>t, <1>1, PolicyWritten
<1>3. /\ new.static_prio = t.static_prio /\ new.need_resched = t.need_resched
      /\ new.policy = NewPolicy(t, policy)
      /\ is_short(new) => new.prio = new.static_prio
  BY <1>t, <1>1, PolicyGrade
<1>4. Bearing(new) /\ (is_short(t) => SameLife(new, t))
  BY <1>t, <1>1, PolicyLives
<1>5. Good(j, {}, n) /\ Steady(k, j, p)
  <2>1. FitPrio(new, prio)
    BY <1>2, ActivationPrio
  <2> QED BY <1>t, <1>2, <2>1, SchedulerSet
<1>6. (\A q \in Task \ {p} : SameLife(j.task[q], k.task[q])) /\ SameLife(j.task[p], new)
  BY <1>1, <1>4, SetschedulerLives
<1>7. /\ RanksBut(k, j, p)
      /\ j.task[p].prio = IF t.array # NULL THEN prio ELSE new.prio
      /\ j.task[p].static_prio = new.static_prio
      /\ is_short(new) /\ ~ is_short(t) => Told(j.task[k.curr])
  <2>1. Graded(new) /\ (Told(k.task[p]) => Told(new))
    BY <1>t, <1>2, <1>3 DEF Graded, Told, Proper, TaskRecord
  <2> QED BY <1>t, <1>1, <2>1, SetschedulerRanks
<1>8. j.curr = k.curr /\ \A q \in Pid : Enqueued(j.task[q]) <=> Enqueued(k.task[q])
  BY <1>5 DEF Steady
<1>9. is_short(new) => j.task[p].prio = t.static_prio /\ ~ rt_task(new)
  <2>1. is_short(new) => ~ rt_task(new)
    BY <1>2 DEF Proper, is_short
  <2> QED BY <1>3, <1>7, <2>1 DEF ActivationPrios, effective_prio
<1>10. NoBonus(j)
  <2>1. ASSUME NEW q \in Pid, is_short(j.task[q])
        PROVE  j.task[q].prio = j.task[q].static_prio
    <3>1. CASE q = p
      BY <1>3, <1>6, <1>7, <1>9, <2>1, <3>1 DEF SameLife, is_short
    <3>2. CASE q # p
      BY <1>1, <1>6, <1>7, <2>1, <3>2 DEF SameLife, RanksBut, SameRank, SamePrio, is_short, Fair, NoBonus
    <3> QED BY <3>1, <3>2
  <2> QED BY <2>1 DEF NoBonus
<1>11. CASE is_short(t)
  <2>1. SameLife(new, t) /\ SameLife(j.task[p], t) /\ is_short(new)
    BY <1>4, <1>6, <1>11 DEF SameLife, is_short
  <2>2. SameLives(k, j)
    BY <1>t, <1>6, <1>7, <2>1 DEF SameLives, RanksBut
  <2>3. j.task[p].prio = t.prio
    BY <1>t, <1>9, <1>11, <2>1 DEF Fair, NoBonus
  <2>4. SameRanks(k, j)
    BY <1>t, <1>3, <1>7, <2>3 DEF SameRanks, RanksBut, SameRank, SamePrio
  <2> QED BY <1>8, <2>2, <2>4, FairSame
<1>12. CASE ~ is_short(t) /\ is_short(new)
  BY <1>7, <1>8, <1>10, <1>12, GoingIsFair
<1>13. CASE ~ is_short(t) /\ ~ is_short(new)
  <2>1. SUFFICES ASSUME NEW q \in Pid, q # j.curr, Vies(j.task[q]), ~ Told(j.task[j.curr])
                 PROVE  Outranks(j.task[j.curr], j.task[q])
    BY <1>10 DEF Contended, Fair
  <2>2. q # p
    BY <1>6, <1>13, <2>1 DEF Vies, SameLife, is_short
  <2>3. SameLife(j.task[q], k.task[q]) /\ j.task[q].prio = k.task[q].prio /\ Vies(k.task[q])
    BY <1>1, <1>6, <1>7, <1>8, <2>1, <2>2
    DEF Vies, SameLife, RanksBut, SameRank, SamePrio, is_short, is_overdue
  <2>4. ~ Told(k.task[k.curr])
    BY <1>1, <1>7, <1>8, <2>1 DEF RanksBut, SameRank
  <2>5. Outranks(k.task[k.curr], k.task[q])
    BY <1>8, <2>1, <2>3, <2>4 DEF Fair, Contended
  <2>6. CASE p # k.curr
    <3>1. SameLife(j.task[k.curr], k.task[k.curr]) /\ j.task[k.curr].prio = k.task[k.curr].prio
      BY <1>1, <1>6, <1>7, <2>6 DEF RanksBut, SameRank, SamePrio
    <3> QED BY <1>8, <2>3, <2>5, <3>1, SameOutranks
  <2>7. CASE p = k.curr
    <3>1. rt_task(t)
      BY <1>t, <1>13, <2>5, <2>7 DEF Outranks
    <3>2. t.policy \in {"FIFO", "RR"}
      BY <1>1, <3>1 DEF Proper
    <3>3. new.policy \in {"FIFO", "RR"}
      BY <1>3, <1>13, <3>2 DEF NewPolicy, Policies, KEEP, is_short
    <3>4. rt_task(new)
      BY <1>2, <3>3 DEF Proper
    <3>5. j.task[p].prio = new.prio
      BY <1>7, <3>4 DEF ActivationPrios
    <3> QED BY <1>8, <2>7, <3>4, <3>5 DEF Outranks, rt_task
  <2> QED BY <2>6, <2>7
<1> QED BY <1>11, <1>12, <1>13

\* do_fork's end without vfork: the parent hands the CPU over.
LEMMA ForkWakeFair ==
  ASSUME NEW k, NEW n \in Int, Good(k, {}, n), Fair(k), NEW p \in Pid, p = k.curr,
         NEW c \in Pid, c # p,
         NEW prio, is_short(k.task[c]) => prio = k.task[c].static_prio,
         NEW i, i = wake_up_forked_process(k, c, prio), NEW j, j = ForkResched(i, p, FALSE)
  PROVE  Fair(j)
<1>1. /\ Ranked(k) /\ Shaped(k) /\ Pid \subseteq Task /\ p \in Task /\ c \in Task
  BY FairFacts
<1>2. /\ RanksBut(k, i, c)
      /\ i.task[c].prio = prio /\ i.task[c].static_prio = k.task[c].static_prio
  BY <1>1, WakeForkedRanks
<1>3. Ranked(i)
  BY <1>1, <1>2, ButRanked
<1>4. j = UPDATE_REASON(resched_task(i, p), p, CREATED)
  BY DEF ForkResched
<1>5. SameRanks(i, j) /\ Told(j.task[p])
  BY <1>1, <1>3, <1>4, HurryRanks
<1>6. RanksBut(k, j, c)
  BY <1>1, <1>2, <1>5, ButTwice
<1>7. SameLives(k, j)
  <2>1. SameLives(k, i) /\ Shaped(i)
    BY <1>1, WakeForkedLives, LivesTwice
  <2>2. SameLives(i, j)
    BY <1>1, <2>1, ForkReschedLives
  <2> QED BY <1>1, <2>1, <2>2, LivesTwice
<1>8. is_short(k.task[c]) => j.task[c].prio = j.task[c].static_prio
  BY <1>1, <1>2, <1>5 DEF SameRanks, SameRank, SamePrio
<1>9. NoBonus(j)
  <2>1. \A q \in Task : j.task[q].policy = k.task[q].policy
    BY <1>7 DEF SameLives, SameLife
  <2>2. NoBonus(k)
    BY DEF Fair
  <2> QED BY <1>1, <1>6, <1>8, <2>1, <2>2, BonusKept
<1> QED BY <1>5, <1>7, <1>9, GoingIsFair DEF SameLives

\* schedule() picks a task that outranks whoever it leaves waiting.
LEMMA PickedOutranks ==
  ASSUME NEW j, Good(j, {}, 0), j.curr = IF j.nr_running = 0 THEN Idle ELSE PickNext(j)
  PROVE  Contended(j)
<1>1. SUFFICES ASSUME NEW q \in Pid, q # j.curr, Vies(j.task[q])
               PROVE  Outranks(j.task[j.curr], j.task[q])
  BY DEF Contended
<1>2. j.curr = PickNext(j)
  <2>1. q \in Runnable(j, {})
    BY <1>1 DEF Runnable, Vies
  <2>2. IsFiniteSet(Runnable(j, {})) /\ Runnable(j, {}) # {}
    BY <2>1, PidAssumption, FS_Subset DEF Runnable
  <2>3. Cardinality(Runnable(j, {})) \in Nat /\ Cardinality(Runnable(j, {})) # 0
    BY <2>2, FS_CardinalityType, FS_EmptySet
  <2>4. j.nr_running = Cardinality(Runnable(j, {})) + 0
    BY DEF Good
  <2> QED BY <2>3, <2>4
<1>3. /\ j.bitmap = {h \in ArrayId \X Prio : j.queue[h] # <<>>}
      /\ j.queue \in [ArrayId \X Prio -> Seq(Pid)] /\ j.active \in ArrayId /\ active_SHORT \in ArrayId
      /\ \A r \in Pid : Fits(j.task[r], j.active) /\ Proper(j.task[r])
      /\ \A r \in Pid, h \in ArrayId \X Prio :
           r \in Elements(j.queue[h]) => h = Slot(j.task[r])
  BY DEF Good, Typed, Kernel, Placed, ArrayId, active_SHORT
<1>4. PICK idx : idx = FirstBit(j, j.active)
  OBVIOUS
<1>5. PICK short : short = FirstBit(j, active_SHORT)
  OBVIOUS
<1>6. /\ idx \in Nat /\ (idx # MAX_PRIO => idx \in Prio /\ <<j.active, idx>> \in j.bitmap)
      /\ short \in Nat /\ (short # MAX_PRIO => short \in Prio /\ <<active_SHORT, short>> \in j.bitmap)
  BY <1>4, <1>5, FoundBit
<1>7. j.task[q].prio \in Prio /\ <<active_SHORT, j.task[q].prio>> \in j.bitmap
  <2>1. j.task[q].array # NULL /\ j.task[q].array = active_SHORT
    BY <1>1, <1>3 DEF Vies, Enqueued, Fits
  <2>2. Slot(j.task[q]) \in ArrayId \X Prio /\ q \in Elements(j.queue[Slot(j.task[q])])
    BY <1>1, <2>1, OnAList DEF Vies
  <2>3. j.queue[Slot(j.task[q])] # <<>>
    BY <1>3, <2>2, Ends
  <2> QED BY <1>3, <2>1, <2>2, <2>3 DEF Slot
<1>8. short \in Prio /\ short <= j.task[q].prio /\ short # MAX_PRIO
  <2> DEFINE T == {i \in Prio : <<active_SHORT, i>> \in j.bitmap} \cup {MAX_PRIO}
  <2>1. T \in SUBSET Nat /\ j.task[q].prio \in T /\ MAX_PRIO \in Nat
    BY <1>7, PrioAssumption DEF Prio
  <2>2. short = Min(T)
    BY <1>5 DEF FirstBit
  <2>3. short <= j.task[q].prio
    BY <2>1, <2>2, Least
  <2> QED BY <1>6, <1>7, <2>1, <2>3 DEF Prio
<1>9. CASE idx > MAX_RT_PRIO - 1
  <2> DEFINE h == <<active_SHORT, short>>
  <2>1. j.curr = Head(j.queue[h])
    BY <1>2, <1>4, <1>5, <1>8, <1>9 DEF PickNext
  <2>2. h \in ArrayId \X Prio /\ j.queue[h] \in Seq(Pid) /\ j.queue[h] # <<>>
    BY <1>3, <1>6, <1>8
  <2>3. j.curr \in Pid /\ j.curr \in Elements(j.queue[h])
    BY <2>1, <2>2, Ends
  <2>4. Slot(j.task[j.curr]) = h
    BY <1>3, <2>2, <2>3
  <2>5. j.task[j.curr].array = active_SHORT /\ j.task[j.curr].prio = short
    BY <2>4 DEF Slot
  <2>6. is_short(j.task[j.curr]) /\ ~ is_overdue(j.task[j.curr])
    BY <1>3, <2>3, <2>5 DEF Fits, active_SHORT, NULL
  <2> QED BY <1>8, <2>5, <2>6 DEF Outranks
<1>10. CASE ~ (idx > MAX_RT_PRIO - 1)
  <2> DEFINE h == <<j.active, idx>>
  <2>1. idx < MAX_RT_PRIO /\ idx # MAX_PRIO
    BY <1>6, <1>10, PrioAssumption DEF MAX_RT_PRIO
  <2>2. j.curr = Head(j.queue[h])
    BY <1>2, <1>4, <1>5, <1>10, <2>1 DEF PickNext
  <2>3. h \in ArrayId \X Prio /\ j.queue[h] \in Seq(Pid) /\ j.queue[h] # <<>>
    BY <1>3, <1>6, <2>1
  <2>4. j.curr \in Pid /\ j.curr \in Elements(j.queue[h])
    BY <2>2, <2>3, Ends
  <2>5. Slot(j.task[j.curr]) = h
    BY <1>3, <2>3, <2>4
  <2> QED BY <2>1, <2>5 DEF Outranks, rt_task, Slot
<1> QED BY <1>9, <1>10

\* schedule() leaves a fair runqueue, whatever it found.
LEMMA ScheduleFair ==
  ASSUME NEW k, Good(k, {}, 0), CurrQueued(k), NoBonus(k), NEW sig \in BOOLEAN,
         NEW j, j = schedule(k, sig)
  PROVE  Fair(j)
<1>1. Good(j, {}, 0) /\ j.curr = IF j.nr_running = 0 THEN Idle ELSE PickNext(j)
  BY Scheduled
<1>2. Contended(j)
  BY <1>1, PickedOutranks
<1>3. Ranked(k) /\ Shaped(k) /\ Pid \subseteq Task
  BY FairFacts
<1>4. \A q \in Task : SamePrio(j.task[q], k.task[q]) /\ SameLife(j.task[q], k.task[q])
  BY <1>3, ScheduleRanks, ScheduleLives
<1>5. NoBonus(j)
  BY <1>3, <1>4 DEF NoBonus, SamePrio, SameLife, is_short
<1> QED BY <1>2, <1>5 DEF Fair

\* A task_struct that is not queued may be written over.
LEMMA RecordFair ==
  ASSUME NEW k, NEW n \in Int, Good(k, {}, n), Fair(k), NEW c \in Pid, c # k.curr,
         NEW t, ~ Enqueued(t), is_short(t) => t.prio = t.static_prio, NEW j, j = Set(k, c, t)
  PROVE  Fair(j)
<1>1. k.curr \in Task /\ Pid \subseteq Task /\ DOMAIN k.task = Task /\ {"task", "curr"} \subseteq DOMAIN k
  BY FairFacts DEF Shaped
<1>2. j.curr = k.curr /\ j.task[c] = t /\ \A q \in Task \ {c} : j.task[q] = k.task[q]
  BY <1>1 DEF Set
<1>3. NoBonus(j)
  BY <1>1, <1>2 DEF Fair, NoBonus
<1>4. Contended(j)
  BY <1>1, <1>2 DEF Fair, Contended, Vies
<1> QED BY <1>3, <1>4 DEF Fair

\* A flag or the state of a task that keeps its place.
LEMMA FlagFair ==
  ASSUME NEW k, NEW n \in Int, Good(k, {}, n), Fair(k), NEW p \in Pid
  PROVE  /\ \A s \in States : Fair(SetState(k, p, s))
         /\ \A res \in 0 .. 7 : Fair(UPDATE_REASON(k, p, res))
         /\ \A vfork : Fair(ForkResched(k, p, vfork))
         /\ \A c \in Pid : Fair(sched_exit(k, p, c))
<1>1. Ranked(k) /\ Shaped(k) /\ Pid \subseteq Task /\ p \in Task /\ {} \in SUBSET Pid
  BY FairFacts
<1>2. ASSUME NEW s \in States
      PROVE  Fair(SetState(k, p, s))
  <2>1. PICK j : j = SetState(k, p, s)
    OBVIOUS
  <2>2. Restated(k, j, p, s)
    BY <2>1, StateWritten DEF SetState
  <2>3. SameRanks(k, j) /\ SameLives(k, j)
    BY <1>1, <2>1, FlagRanks, FlagLives
  <2>4. \A q \in Pid : Enqueued(j.task[q]) => Enqueued(k.task[q])
    BY <1>1, <2>2 DEF Restated
  <2> QED BY <2>1, <2>3, <2>4, FairSame
<1>3. ASSUME NEW res \in 0 .. 7
      PROVE  Fair(UPDATE_REASON(k, p, res))
  <2>1. PICK j : j = UPDATE_REASON(k, p, res)
    OBVIOUS
  <2>2. Apart(k, j, p) /\ SamePlace(j.task[p], k.task[p])
    BY <1>1, <2>1, UpdateReason
  <2>3. \A q \in Pid : Enqueued(j.task[q]) => Enqueued(k.task[q])
    BY <1>1, <2>2, SamePlaceQueued DEF Apart
  <2>4. SameRanks(k, j) /\ SameLives(k, j)
    BY <1>1, <2>1, FlagRanks, FlagLives
  <2> QED BY <2>1, <2>3, <2>4, FairSame
<1>4. ASSUME NEW vfork
      PROVE  Fair(ForkResched(k, p, vfork))
  <2>1. PICK j : j = ForkResched(k, p, vfork)
    OBVIOUS
  <2>2. Calm(k, j) /\ SameRanks(k, j) /\ SameLives(k, j)
    BY <1>1, <2>1, ForkRescheduled, ForkReschedRanks, ForkReschedLives
  <2> QED BY <2>1, <2>2, FairSame DEF Calm
<1>5. ASSUME NEW c \in Pid
      PROVE  Fair(sched_exit(k, p, c))
  <2>1. PICK j : j = sched_exit(k, p, c)
    OBVIOUS
  <2>2. Calm(k, j) /\ SameRanks(k, j) /\ SameLives(k, j)
    BY <1>1, <2>1, SchedExited, SchedExitRanks, SchedExitLives
  <2> QED BY <2>1, <2>2, FairSame DEF Calm
<1> QED BY <1>2, <1>3, <1>4, <1>5

-----------------------------------------------------------------------------
(* No SHORT task waits behind a lesser one: Ahead is kept by every step.   *)

\* A step that becomes a fair runqueue.
LEMMA FairStep ==
  ASSUME NEW k, Become(k), Fair(k)
  PROVE  Fair(K)'
BY DEF Become, K, Fair, Contended, NoBonus

\* The timer interrupt.
LEMMA TickAhead ==
  ASSUME IInv, Fair(K), Tick
  PROVE  Fair(K)'
<1>1. PICK prio \in effective_prio(task[curr]), stay \in Interactive :
        Become(scheduler_tick(K, prio, stay))
  BY DEF Tick
<1>2. PICK k : k = scheduler_tick(K, prio, stay)
  OBVIOUS
<1>3. task[curr] \in TaskRecord
  BY Current DEF IInv, Good, Typed, Kernel
<1>4. prio \in UserPrio /\ stay \in BOOLEAN /\ Good(K, {}, 0) /\ CurrQueued(K)
  <2>1. CurrQueued(K)
    BY QuietNow, QuietCurr
  <2>2. prio \in UserPrio
    BY <1>3, EffectivePrio
  <2>3. stay \in BOOLEAN
    BY SchedAssumption
  <2> QED BY <2>1, <2>2, <2>3 DEF IInv
<1>5. Fair(k)
  BY <1>2, <1>4, TickFair
<1> QED BY <1>1, <1>2, <1>5, FairStep

\* A wake-up by an interrupt.
LEMMA WakeUpAhead ==
  ASSUME IInv, Fair(K), NEW p \in Pid, WakeUp(p)
  PROVE  Fair(K)'
<1>1. PICK prio \in ActivationPrios(task[p]) : Become(try_to_wake_up(K, p, prio))
  BY DEF WakeUp
<1>2. PICK k : k = try_to_wake_up(K, p, prio)
  OBVIOUS
<1>3. prio \in ActivationPrios(K.task[p])
  BY Current
<1>4. Good(K, {}, 0) /\ CurrQueued(K)
  BY QuietNow, QuietCurr DEF IInv
<1>5. Fair(k)
  BY <1>2, <1>3, <1>4, WakeUpFair
<1> QED BY <1>1, <1>2, <1>5, FairStep

\* schedule(), with hw2_log_switch.
LEMMA ScheduleAhead ==
  ASSUME IInv, Fair(K), Schedule
  PROVE  Fair(K)'
<1>1. PICK sig \in Signals : Become(hw2_log_switch(schedule(K, sig)))
  BY DEF Schedule
<1>2. PICK k : k = schedule(K, sig)
  OBVIOUS
<1>3. Good(K, {}, 0) /\ CurrQueued(K) /\ sig \in BOOLEAN /\ NoBonus(K)
  BY QuietNow, QuietCurr, SchedAssumption DEF IInv, Fair
<1>4. Good(k, {}, 0) /\ Fair(k)
  BY <1>2, <1>3, Scheduled, ScheduleFair
<1>5. PICK j : j = hw2_log_switch(k)
  OBVIOUS
<1>6. Fair(j)
  <2>1. curr \in Task /\ UNKNOWN \in 0 .. 7 /\ 0 \in Int
    BY LineNow DEF UNKNOWN
  <2>2. PICK i : i = UPDATE_REASON(k, curr, UNKNOWN)
    OBVIOUS
  <2>3. Good(i, {}, 0) /\ Calm(k, i)
    BY <1>4, <2>1, <2>2, ReasonGiven
  <2>4. SameRanks(k, i) /\ SameLives(k, i)
    BY <1>4, <2>1, <2>2, FairFacts, FlagRanks, FlagLives
  <2>5. Fair(i)
    BY <1>4, <2>3, <2>4, FairSame DEF Calm
  <2> QED BY <1>4, <1>5, <2>2, <2>3, <2>5 DEF hw2_log_switch
<1> QED BY <1>1, <1>2, <1>5, <1>6, FairStep

\* The end of schedule() resets a reason.
LEMMA TailClearAhead ==
  ASSUME IInv, Fair(K), TailClear
  PROVE  Fair(K)'
<1>1. PICK k : k = UPDATE_REASON(K, last, UNKNOWN)
  OBVIOUS
<1>2. Become(k) /\ last \in Task /\ Good(K, {}, 0) /\ UNKNOWN \in 0 .. 7 /\ 0 \in Int
  BY <1>1 DEF TailClear, IInv, ProcTypes, UNKNOWN
<1>3. Good(k, {}, 0) /\ Calm(K, k)
  BY <1>1, <1>2, ReasonGiven
<1>4. SameRanks(K, k) /\ SameLives(K, k)
  BY <1>1, <1>2, FairFacts, FlagRanks, FlagLives
<1>5. Fair(k)
  BY <1>2, <1>3, <1>4, FairSame DEF Calm
<1> QED BY <1>2, <1>3, <1>5, FairStep

\* sched_setscheduler, where nobody is made OTHER again.
LEMMA SetSchedulerAhead ==
  ASSUME IInv, Fair(K), "OTHER" \notin NewPolicies, NEW p \in Pid, SetScheduler(p)
  PROVE  Fair(K)'
<1>1. PICK q \in Pid, policy \in NewPolicies, rt_priority \in 0 .. MAX_USER_RT_PRIO - 1,
           requested_time \in Requests, trials \in Trials :
        /\ MaySetScheduler(task[q], policy, rt_priority, requested_time, trials)
        /\ \E prio \in ActivationPrios(WithPolicy(task[q], policy, rt_priority, requested_time, trials)) :
             Become(setscheduler(K, q, WithPolicy(task[q], policy, rt_priority,
                                                  requested_time, trials), prio))
  BY DEF SetScheduler
<1>2. PICK new : new = WithPolicy(task[q], policy, rt_priority, requested_time, trials)
  OBVIOUS
<1>3. PICK prio \in ActivationPrios(new) : Become(setscheduler(K, q, new, prio))
  BY <1>1, <1>2
<1>4. PICK k : k = setscheduler(K, q, new, prio)
  OBVIOUS
<1>5. requested_time \in Nat /\ trials \in Nat /\ policy \in (Policies \cup {KEEP}) \ {"OTHER"}
  BY Arguments, SchedAssumption
<1>6. PICK t : t = task[q]
  OBVIOUS
<1>7. /\ Proper(t) /\ MaySetScheduler(t, policy, rt_priority, requested_time, trials)
      /\ new = WithPolicy(t, policy, rt_priority, requested_time, trials)
      /\ K.task[q] = t
  BY <1>1, <1>2, <1>6, Facts, Current
<1>8. Good(K, {}, 0) /\ CurrQueued(K)
  BY QuietNow, QuietCurr DEF IInv
<1>9. Fair(k)
  <2>1. MaySetScheduler(K.task[q], policy, rt_priority, requested_time, trials)
        /\ new = WithPolicy(K.task[q], policy, rt_priority, requested_time, trials)
    BY <1>7
  <2>2. PICK i : i = K
    OBVIOUS
  <2>3. Good(i, {}, 0) /\ CurrQueued(i) /\ Fair(i) /\ 0 \in Int /\ k = setscheduler(i, q, new, prio)
        /\ MaySetScheduler(i.task[q], policy, rt_priority, requested_time, trials)
        /\ new = WithPolicy(i.task[q], policy, rt_priority, requested_time, trials)
    BY <1>4, <1>8, <2>1, <2>2
  <2> QED BY <1>5, <2>3, SetschedulerFair
<1> QED BY <1>3, <1>4, <1>9, FairStep

\* nice.
LEMMA NiceAhead ==
  ASSUME IInv, Fair(K), NEW p \in Pid, Nice(p)
  PROVE  Fair(K)'
<1>1. PICK q \in Pid, prio \in NicePrios : Become(set_user_nice(K, q, prio))
  BY DEF Nice
<1>2. PICK k : k = set_user_nice(K, q, prio)
  OBVIOUS
<1>3. Good(K, {}, 0) /\ CurrQueued(K) /\ prio \in UserPrio
  BY QuietNow, QuietCurr, SchedAssumption DEF IInv
<1>4. Fair(k)
  BY <1>2, <1>3, NiceFair
<1> QED BY <1>1, <1>2, <1>4, FairStep

\* sched_yield.
LEMMA YieldAhead ==
  ASSUME IInv, Fair(K), NEW p \in Pid, Yield(p)
  PROVE  Fair(K)'
<1>1. PICK k : k = sys_sched_yield(K, p)
  OBVIOUS
<1>2. p = curr /\ Become(k) /\ ~ is_short(K.task[p])
  BY <1>1, Current DEF Yield, Call, At
<1>3. Good(K, {}, 0) /\ Enqueued(K.task[p]) /\ p = K.curr
  BY <1>2, Running
<1>4. Fair(k)
  BY <1>1, <1>2, <1>3, YieldFair
<1> QED BY <1>2, <1>4, FairStep

\* do_fork's sharing of the slice.
LEMMA ForkSplitAhead ==
  ASSUME IInv, Fair(K), NEW p \in Pid, ForkSplit(p)
  PROVE  Fair(K)'
<1>1. PICK prio \in effective_prio(task[p]), stay \in Interactive :
        Become(SplitSlice(K, p, kid[p], prio, stay))
  BY DEF ForkSplit
<1>2. PICK c : c = kid[p]
  OBVIOUS
<1>3. PICK k : k = SplitSlice(K, p, c, prio, stay)
  OBVIOUS
<1>4. p = curr /\ c \in Pid /\ pc[c] = "copy" /\ c # p
  BY <1>2 DEF ForkSplit, At, IInv, Copied, Forking
<1>5. ~ Enqueued(K.task[c]) /\ ~ K.task[c].queued
  BY <1>4, Facts, Current DEF IInv, Located, Queued
<1>6. prio \in UserPrio /\ stay \in BOOLEAN
  BY Facts, EffectivePrio, SchedAssumption
<1>7. Good(K, {}, 0) /\ CurrQueued(K) /\ p = K.curr
  BY <1>4, Running
<1>8. Fair(k)
  BY <1>3, <1>4, <1>5, <1>6, <1>7, SplitFair
<1> QED BY <1>1, <1>2, <1>3, <1>8, FairStep

\* do_fork's end.
LEMMA ForkWakeAhead ==
  ASSUME IInv, Ahead, NEW p \in Pid, ForkWake(p)
  PROVE  Fair(K)'
<1>1. PICK c : c = kid[p]
  OBVIOUS
<1>2. p = curr /\ c \in Pid /\ pc[c] = "copy" /\ c # p
  BY <1>1 DEF ForkWake, At, IInv, Copied, Forking
<1>3. PICK prio \in IF rt_task(task[c]) THEN {task[c].prio} ELSE effective_prio(task[c]) :
        Become(ForkResched(wake_up_forked_process(K, c, prio), p, FALSE))
  BY <1>1, <1>2 DEF ForkWake, Ahead
<1>4. PICK i : i = wake_up_forked_process(K, c, prio)
  OBVIOUS
<1>5. PICK k : k = ForkResched(i, p, FALSE)
  OBVIOUS
<1>6. /\ Good(K, {}, 0) /\ p = K.curr /\ ~ Enqueued(K.task[c]) /\ K.task = task
      /\ Proper(task[c])
  BY <1>2, Running, Facts, Current DEF Queued
<1>7. is_short(K.task[c]) => prio = K.task[c].static_prio
  <2>1. is_short(task[c]) => ~ rt_task(task[c])
    BY <1>6 DEF Proper, is_short
  <2> QED BY <1>6, <2>1 DEF effective_prio
<1>8. Fair(k)
  <2>1. Fair(K) /\ 0 \in Int
    BY DEF Ahead
  <2> QED BY <1>2, <1>4, <1>5, <1>6, <1>7, <2>1, ForkWakeFair
<1>9. Become(k)
  BY <1>3, <1>4, <1>5
<1> QED BY <1>8, <1>9, FairStep

\* A task told of a child's exec or exit is woken up as by an interrupt.
LEMMA WaiterFair ==
  ASSUME NEW k, Good(k, {}, 0), CurrQueued(k), Fair(k), NEW q \in Pid \cup {None}, NEW l, NEW s,
         NEW prio, q \in Pid => prio \in ActivationPrios(k.task[q]),
         NEW j, j = WakeWaiter(k, q, l, s, prio)
  PROVE  /\ Fair(j)
         /\ \A r \in Pid \ {q} : SamePrio(j.task[r], k.task[r])
<1>1. /\ Ranked(k) /\ Shaped(k) /\ Pid \subseteq Task /\ 0 \in Int
  BY FairFacts
<1>2. CASE j = k
  BY <1>1, <1>2 DEF Ranked, SamePrio
<1>3. CASE q \in Pid /\ j = try_to_wake_up(k, q, prio)
  <2>1. Fair(j)
    BY <1>1, <1>3, WakeUpFair
  <2>2. q \in Task
    BY <1>1, <1>3
  <2>3. RanksBut(k, j, q)
    <3>1. CASE Enqueued(k.task[q])
      BY <1>1, <1>3, <2>2, <3>1, AwakeRanks, SameBut
    <3>2. CASE ~ Enqueued(k.task[q])
      <4>1. q # k.curr
        BY <1>3, <3>2 DEF CurrQueued
      <4> QED BY <1>1, <1>3, <2>2, <3>2, <4>1, TryToWakeUpRanks
    <3> QED BY <3>1, <3>2
  <2>4. \A r \in Pid \ {q} : SamePrio(j.task[r], k.task[r])
    BY <1>1, <2>3 DEF RanksBut, SameRank
  <2> QED BY <2>1, <2>4
<1> QED BY <1>2, <1>3 DEF WakeWaiter

\* Where a task may be put is decided by its policy and its priorities.
LEMMA SameTargets ==
  ASSUME NEW t, NEW u, t.policy = u.policy, SamePrio(t, u)
  PROVE  ActivationPrios(t) = ActivationPrios(u)
<1>1. rt_task(t) <=> rt_task(u)
  BY DEF SamePrio, rt_task
<1>2. is_short(t) <=> is_short(u)
  BY DEF is_short
<1>3. effective_prio(t) = effective_prio(u)
  BY <1>2 DEF effective_prio, SamePrio
<1> QED BY <1>1, <1>3 DEF ActivationPrios, SamePrio

\* exit_notify wakes the parent, and process 1 if it inherits a dead child: once each.
LEMMA ExitNotifyAhead ==
  ASSUME IInv, Fair(K), NEW p \in Pid, ExitNotify(p)
  PROVE  Fair(K)'
<1>o. PICK orphans : orphans = {c \in Pid : parent[c] = p /\ Hashed(c)}
  OBVIOUS
<1>h. PICK heir : heir = IF \E c \in orphans : task[c].state = "ZOMBIE" THEN InitTask ELSE None
  OBVIOUS
<1>1. PICK prio \in WaiterPrios(parent[p]), prio2 \in WaiterPrios(heir) :
        LET k1 == WakeWaiter(SetState(K, p, "ZOMBIE"), parent[p], "wait", "INTERRUPTIBLE", prio)
            k2 == WakeWaiter(k1, heir, "wait", "INTERRUPTIBLE", prio2)
        IN Become(forget_original_parent(UPDATE_REASON(k2, p, ENDED), orphans))
  BY <1>o, <1>h DEF ExitNotify
<1>2. PICK q : q = parent[p]
  OBVIOUS
<1>3. PICK k0 : k0 = SetState(K, p, "ZOMBIE")
  OBVIOUS
<1>4. PICK k1 : k1 = WakeWaiter(k0, q, "wait", "INTERRUPTIBLE", prio)
  OBVIOUS
<1>5. PICK k2 : k2 = WakeWaiter(k1, heir, "wait", "INTERRUPTIBLE", prio2)
  OBVIOUS
<1>6. PICK k3 : k3 = UPDATE_REASON(k2, p, ENDED)
  OBVIOUS
<1>7. PICK k : k = forget_original_parent(k3, orphans)
  OBVIOUS
<1>8. Become(k)
  BY <1>1, <1>2, <1>3, <1>4, <1>5, <1>6, <1>7
<1>9. /\ q \in Pid \cup {None} /\ heir \in Pid \cup {None} /\ p \in Task /\ None \notin Pid
      /\ p = curr /\ pc[p] = "exit1" /\ ENDED \in 0 .. 7 /\ 0 \in Int /\ "ZOMBIE" \in States
  BY <1>2, <1>h, SchedAssumption DEF IInv, ProcTypes, Task, ExitNotify, At, ENDED, States
<1>10. Good(k0, {}, 0) /\ Quiet(k0) /\ Restated(K, k0, p, "ZOMBIE") /\ Fair(k0) /\ CurrQueued(k0)
  <2>1. Good(k0, {}, 0) /\ Quiet(k0) /\ Restated(K, k0, p, "ZOMBIE")
    BY <1>3, <1>9, Running, QuietNow, StateSet
  <2>2. Good(K, {}, 0)
    BY DEF IInv
  <2> QED BY <1>3, <1>9, <2>1, <2>2, FlagFair, QuietCurr
<1>11. \A r \in Pid : k0.task[r].policy = task[r].policy /\ SamePrio(k0.task[r], task[r])
  <2>1. SameRanks(K, k0) /\ K.task = task
    BY <1>3, <1>9, Running, FairFacts, FlagRanks, Current
  <2>2. \A r \in Task : SamePrio(k0.task[r], task[r])
    BY <2>1 DEF SameRanks, SameRank
  <2> QED BY <1>10, <2>1, <2>2 DEF Restated, Task
<1>12. \A r \in Pid : WaiterPrios(r) = ActivationPrios(k0.task[r])
  BY <1>9, <1>11, SameTargets DEF WaiterPrios
<1>13. /\ Good(k1, {}, 0) /\ Quiet(k1) /\ CurrQueued(k1) /\ Roused(k0, k1, q, "wait", "INTERRUPTIBLE")
       /\ \A r \in Pid : k1.task[r].policy = k0.task[r].policy
  BY <1>2, <1>4, <1>9, <1>10, <1>11, WaiterWoken, QuietCurr
<1>14. Fair(k1) /\ \A r \in Pid \ {q} : SamePrio(k1.task[r], k0.task[r])
  <2>1. q \in Pid => prio \in ActivationPrios(k0.task[q])
    BY <1>2, <1>12
  <2> QED BY <1>4, <1>9, <1>10, <2>1, WaiterFair
<1>15. Good(k2, {}, 0)
  <2>1. heir \in Pid => k1.task[heir].policy = task[heir].policy
    BY <1>11, <1>13
  <2> QED BY <1>5, <1>9, <1>13, <2>1, WaiterWoken
<1>16. Fair(k2)
  <2>1. CASE heir = q
    <3>1. ~ (q # None /\ pc[q] = "wait" /\ k1.task[q].state = "INTERRUPTIBLE")
      BY <1>13 DEF Roused, Wakes
    <3> QED BY <1>5, <1>14, <2>1, <3>1 DEF WakeWaiter
  <2>2. CASE heir # q
    <3>1. heir \in Pid => prio2 \in ActivationPrios(k1.task[heir])
      BY <1>12, <1>13, <1>14, <2>2, SameTargets
    <3> QED BY <1>5, <1>9, <1>13, <1>14, <3>1, WaiterFair
  <2> QED BY <2>1, <2>2
<1>17. Good(k3, {}, 0) /\ Fair(k3)
  BY <1>6, <1>9, <1>15, <1>16, ReasonGiven, FlagFair
<1>18. Fair(k)
  <2>1. Good(k, {}, 0) /\ Calm(k3, k)
    BY <1>o, <1>7, <1>9, <1>17, Orphaned
  <2>2. SameRanks(k3, k) /\ SameLives(k3, k)
    BY <1>7, <1>9, <1>17, FairFacts, OrphanRanks, OrphanLives
  <2> QED BY <1>9, <1>17, <2>1, <2>2, FairSame DEF Calm
<1> QED BY <1>8, <1>18, FairStep

\* mm_release tells nobody where nobody called vfork.
LEMMA ReleaseAhead ==
  ASSUME IInv, Ahead, NEW p \in Pid, mm_release(p)
  PROVE  Fair(K)'
<1>1. vfork_done[p] = None
  BY DEF Ahead
<1>2. Become(K)
  BY <1>1 DEF mm_release, WakeWaiter
<1> QED BY <1>2, FairStep DEF Ahead

\* The steps that write a state, a flag or a task_struct off the queues, or nothing.
LEMMA RecordAhead ==
  ASSUME IInv, Fair(K), NEW p \in Pid,
         \/ Sleep(p) \/ ForkBlock(p) \/ VforkBlock(p) \/ ExitBlock(p) \/ WaitEnter(p)
         \/ WaitReturn(p) \/ YieldShort(p) \/ WaitBlock(p) \/ VforkReturn(p)
         \/ ForkFail(p) \/ Reap(p) \/ \E c \in Pid, vfork \in BOOLEAN : ForkCopy(p, c, vfork)
  PROVE  Fair(K)'
<1>1. Good(K, {}, 0) /\ 0 \in Int /\ K.curr = curr /\ K.task = task
  BY Current DEF IInv
<1>2. CASE YieldShort(p) \/ WaitBlock(p)
  <2>1. Become(K)
    BY <1>2, Current DEF YieldShort, WaitBlock
  <2> QED BY <2>1, FairStep
<1>3. CASE Sleep(p) \/ ForkBlock(p) \/ VforkBlock(p) \/ ExitBlock(p) \/ WaitEnter(p) \/ WaitReturn(p)
  <2>1. \E s \in States : Become(SetState(K, p, s))
    BY <1>3 DEF Sleep, ForkBlock, VforkBlock, ExitBlock, WaitEnter, WaitReturn, States
  <2>2. \A s \in States : Fair(SetState(K, p, s))
    BY <1>1, FlagFair
  <2> QED BY <2>1, <2>2, FairStep
<1>4. CASE VforkReturn(p)
  <2>1. Become(ForkResched(K, p, TRUE))
    BY <1>4 DEF VforkReturn
  <2>2. Fair(ForkResched(K, p, TRUE))
    BY <1>1, FlagFair
  <2> QED BY <2>1, <2>2, FairStep
<1>5. CASE ForkFail(p)
  <2>1. kid[p] \in Pid /\ kid[p] # curr /\ Become(Set(K, kid[p], BlankTask))
    BY <1>5 DEF ForkFail, At, IInv, Copied, Forking
  <2>2. ~ Enqueued(BlankTask) /\ ~ is_short(BlankTask)
    BY NewRecords DEF is_short
  <2>3. Fair(Set(K, kid[p], BlankTask))
    BY <1>1, <2>1, <2>2, RecordFair
  <2> QED BY <2>1, <2>3, FairStep
<1>6. CASE \E c \in Pid, vfork \in BOOLEAN : ForkCopy(p, c, vfork)
  <2>1. PICK c \in Pid : c # curr /\ Become(Set(K, c, CopyTask(task[p])))
    BY <1>6 DEF ForkCopy, Call, At
  <2>2. PICK t : t = CopyTask(task[p])
    OBVIOUS
  <2>3. ~ Enqueued(t) /\ (is_short(t) => t.prio = t.static_prio)
    <3>1. Proper(task[p]) /\ task[p] \in TaskRecord
      BY Facts
    <3>2. ~ Enqueued(t)
      BY <2>2, <3>1, NewRecords
    <3>3. t.policy = task[p].policy /\ t.prio = task[p].prio /\ t.static_prio = task[p].static_prio
      BY <2>2, <3>1 DEF CopyTask, TaskRecord
    <3> QED BY <1>1, <3>2, <3>3 DEF Fair, NoBonus, is_short
  <2>4. Fair(Set(K, c, t))
    BY <1>1, <2>1, <2>3, RecordFair
  <2> QED BY <2>1, <2>2, <2>4, FairStep
<1>7. CASE Reap(p)
  <2>1. PICK c \in Zombies(p) : /\ p = curr
                                /\ Become(Set(SetState(sched_exit(K, p, c), p, "RUNNING"), c, BlankTask))
    BY <1>7 DEF Reap, At
  <2>2. c \in Pid /\ c # p /\ "RUNNING" \in States
    BY DEF Zombies, Children, States
  <2>3. PICK i : i = sched_exit(K, p, c)
    OBVIOUS
  <2>4. Good(i, {}, 0) /\ Calm(K, i) /\ Quiet(i) /\ Fair(i)
    <3>1. Good(i, {}, 0) /\ Calm(K, i)
      BY <1>1, <2>1, <2>2, <2>3, Running, SchedExited
    <3>2. Fair(i)
      BY <1>1, <2>2, <2>3, FlagFair
    <3> QED BY <3>1, <3>2, QuietNow, QuietCalm
  <2>5. PICK j : j = SetState(i, p, "RUNNING")
    OBVIOUS
  <2>6. Good(j, {}, 0) /\ Fair(j) /\ j.curr = curr
    <3>1. Good(j, {}, 0) /\ Quiet(j)
      BY <2>1, <2>2, <2>4, <2>5, StateSet
    <3>2. Fair(j)
      BY <1>1, <2>2, <2>4, <2>5, FlagFair
    <3> QED BY <3>1, <3>2 DEF Quiet
  <2>7. ~ Enqueued(BlankTask) /\ ~ is_short(BlankTask)
    BY NewRecords DEF is_short
  <2>8. Fair(Set(j, c, BlankTask))
    BY <1>1, <2>1, <2>2, <2>6, <2>7, RecordFair
  <2> QED BY <2>1, <2>3, <2>5, <2>8, FairStep
<1> QED BY <1>2, <1>3, <1>4, <1>5, <1>6, <1>7

\* Only do_fork called as vfork makes a parent wait.
LEMMA NobodyPending ==
  ASSUME IInv, "vfork" \notin Calls, \A p \in Pid : vfork_done[p] = None, [Next]_vars
  PROVE  \A p \in Pid : vfork_done'[p] = None
<1>1. vfork_done \in [Pid -> Pid \cup {None}]
  BY DEF IInv, ProcTypes
<1>2. CASE vfork_done' = vfork_done
  BY <1>2
<1>3. CASE \E c \in Pid : vfork_done' = [vfork_done EXCEPT ![c] = None]
  BY <1>1, <1>3
<1>4. CASE UNCHANGED vars \/ Tick \/ (\E p \in Pid : WakeUp(p)) \/ Schedule \/ TailCheck \/ TailClear
  BY <1>2, <1>4 DEF vars, procVars, Tick, WakeUp, Schedule, TailCheck, TailClear
<1>5. ASSUME NEW p \in Pid, SysCall(p)
      PROVE  \/ vfork_done' = vfork_done
             \/ \E c \in Pid : vfork_done' = [vfork_done EXCEPT ![c] = None]
  <2>1. CASE Exec(p) \/ ExitBegin(p)
    BY <2>1 DEF Exec, ExitBegin, mm_release
  <2>2. CASE ForkFail(p)
    BY <2>2 DEF ForkFail, At, IInv, Copied, Forking
  <2>3. CASE \E c \in Pid, vfork \in BOOLEAN : ForkCopy(p, c, vfork)
    BY <2>3 DEF ForkCopy, Call
  <2>4. CASE Sleep(p) \/ SetScheduler(p) \/ Nice(p) \/ Yield(p) \/ YieldShort(p) \/ ForkBlock(p)
    BY <2>4 DEF Sleep, SetScheduler, Nice, Yield, YieldShort, ForkBlock, procVars
  <2>5. CASE ForkSplit(p) \/ ForkWake(p) \/ VforkBlock(p) \/ VforkReturn(p) \/ ExitBlock(p)
    BY <2>5 DEF ForkSplit, ForkWake, VforkBlock, VforkReturn, ExitBlock, procVars
  <2>6. CASE ExitNotify(p) \/ WaitEnter(p) \/ Reap(p) \/ WaitBlock(p) \/ WaitReturn(p)
    BY <2>6 DEF ExitNotify, WaitEnter, Reap, WaitBlock, WaitReturn, procVars
  <2> QED BY <1>5, <2>1, <2>2, <2>3, <2>4, <2>5, <2>6 DEF SysCall
<1> QED BY <1>2, <1>3, <1>4, <1>5 DEF Next

\* Every step keeps Ahead.
LEMMA NextAhead ==
  ASSUME "OTHER" \notin NewPolicies, "vfork" \notin Calls, IInv, Ahead, [Next]_vars
  PROVE  Ahead'
<1>1. \A p \in Pid : vfork_done'[p] = None
  BY NobodyPending DEF Ahead
<1>2. Fair(K)'
  <2>1. Fair(K)
    BY DEF Ahead
  <2>2. CASE UNCHANGED vars \/ TailCheck
    <3>1. Become(K)
      BY <2>2, Current DEF vars, TailCheck
    <3> QED BY <2>1, <3>1, FairStep
  <2>3. CASE Tick \/ (\E p \in Pid : WakeUp(p)) \/ Schedule \/ TailClear
    BY <2>1, <2>3, TickAhead, WakeUpAhead, ScheduleAhead, TailClearAhead
  <2>4. CASE \E p \in Pid : SysCall(p)
    <3>1. PICK p \in Pid : SysCall(p)
      BY <2>4
    <3>2. CASE Exec(p) \/ ExitBegin(p)
      BY <3>2, ReleaseAhead DEF Exec, ExitBegin
    <3>3. CASE SetScheduler(p) \/ Nice(p) \/ Yield(p)
      BY <2>1, <3>3, SetSchedulerAhead, NiceAhead, YieldAhead
    <3>4. CASE ForkSplit(p) \/ ForkWake(p) \/ ExitNotify(p)
      BY <2>1, <3>4, ForkSplitAhead, ForkWakeAhead, ExitNotifyAhead
    <3>5. CASE \/ Sleep(p) \/ ForkBlock(p) \/ VforkBlock(p) \/ ExitBlock(p) \/ WaitEnter(p)
               \/ WaitReturn(p) \/ YieldShort(p) \/ WaitBlock(p) \/ VforkReturn(p)
               \/ ForkFail(p) \/ Reap(p) \/ \E c \in Pid, vfork \in BOOLEAN : ForkCopy(p, c, vfork)
      BY <2>1, <3>5, RecordAhead
    <3> QED BY <3>1, <3>2, <3>3, <3>4, <3>5 DEF SysCall
  <2> QED BY <2>2, <2>3, <2>4 DEF Next
<1> QED BY <1>1, <1>2 DEF Ahead

\* At first nobody is SHORT and nobody waits for a vfork child.
LEMMA InitAhead ==
  ASSUME Init
  PROVE  Ahead
<1>1. \A q \in Pid : ~ is_short(K.task[q])
  <2>1. BootTask.policy = "OTHER" /\ BlankTask.policy = "OTHER"
    BY DEF BootTask, BlankTask
  <2>2. \A q \in Pid : K.task[q] \in {BootTask, BlankTask}
    BY PidAssumption, Current DEF Init, Task
  <2> QED BY <2>1, <2>2 DEF is_short
<1> QED BY <1>1 DEF Init, Ahead, Fair, Contended, NoBonus, Vies

\* Once schedule() is over and nobody is told to go, who waits is outranked.
LEMMA AheadIsFirst ==
  ASSUME IInv, Ahead
  PROVE  ShortFirst
BY Current DEF Ahead, Fair, Contended, Vies, Outranks, Told, ShortFirst, Settled, Queued

\* No SHORT task with trials left waits behind a task that does not outrank it, past the
\* next schedule(): whatever puts a task on a queue, raises one that is there or takes the
\* CPU from the current one asks it to go.  Not where a task is made OTHER again, which
\* setscheduler lets run on, nor after a vfork, whose parent runs on on purpose.
THEOREM SchedShortFirst ==
  ASSUME "OTHER" \notin NewPolicies, "vfork" \notin Calls
  PROVE  Spec => []ShortFirst
<1>1. Init => IInv /\ Ahead
  BY InitIInv, InitAhead
<1>2. IInv /\ Ahead /\ [Next]_vars => (IInv /\ Ahead)'
  BY NextIInv, NextAhead
<1>3. IInv /\ Ahead => ShortFirst
  BY AheadIsFirst
<1> QED BY <1>1, <1>2, <1>3, PTL DEF Spec

-----------------------------------------------------------------------------
(* Nobody runs out of ticks.                                               *)

\* Until do_fork shares the slice, the copy of a SHORT task is SHORT; after that it has ticks.
CopyIsShort ==
  \A p \in Pid : pc[p] \in {"fork1", "fblock"} /\ is_short(task[p]) => is_short(task[kid[p]])
ChildHasTicks == \A p \in Pid : pc[p] = "fork2" => HasTicks(task[kid[p]])
Supplied == TicksLeft /\ CopyIsShort /\ ChildHasTicks

\* What a step may do to the slice of q, and where it may take it.
Sated(q) ==
  /\ HasTicks(task[q]) => HasTicks(task'[q])
  /\ pc[q] \in {"fork1", "fblock", "copy"} => (is_short(task'[q]) <=> is_short(task[q]))
Along(q) ==
  /\ pc'[q] \notin {"free", "copy"} => pc[q] \notin {"free", "copy"}
  /\ pc'[q] \in {"fork1", "fblock"} => pc[q] \in {"fork1", "fblock"} /\ kid'[q] = kid[q]
  /\ pc'[q] = "fork2" => pc[q] = "fork2" /\ kid'[q] = kid[q]

\* Having ticks, in the words of TicksLeft.
LEMMA TicksAre ==
  ASSUME IInv
  PROVE  TicksLeft <=> \A p \in Pid : pc[p] \notin {"free", "copy"} => HasTicks(task[p])
BY DEF TicksLeft, HasTicks

\* What IInv says of the slice of one task.
LEMMA Ticked ==
  ASSUME IInv
  PROVE  /\ Wound(K) /\ K.task = task /\ K.curr = curr
         /\ \A p \in Pid : Ticking(task[p]) /\ SameSlice(task[p], task[p]) /\ p \in Task
<1>1. Wound(K) /\ K.task = task /\ K.curr = curr
  BY WoundNow, Current DEF IInv, Good
<1> QED BY <1>1 DEF Wound, SameSlice, Task

\* A step that feeds the tasks, and moves them, as it may leaves them supplied.
LEMMA Feeding ==
  ASSUME IInv, Supplied, \A q \in Pid : Sated(q) /\ Along(q)
  PROVE  Supplied'
<1>1. ASSUME NEW p \in Pid, pc'[p] \notin {"free", "copy"}
      PROVE  HasTicks(task'[p])
  BY <1>1, TicksAre DEF Supplied, Sated, Along
<1>2. TicksLeft'
  BY <1>1 DEF TicksLeft, HasTicks
<1>3. ASSUME NEW p \in Pid, pc'[p] \in {"fork1", "fblock"}, is_short(task'[p])
      PROVE  is_short(task'[kid'[p]])
  <2>1. PICK c : c = kid[p]
    OBVIOUS
  <2>2. pc[p] \in {"fork1", "fblock"} /\ kid'[p] = c /\ c \in Pid /\ pc[c] = "copy"
    BY <1>3, <2>1 DEF Along, IInv, Copied, Forking
  <2>3. is_short(task[p]) => is_short(task[c])
    BY <2>1, <2>2 DEF Supplied, CopyIsShort
  <2> QED BY <1>3, <2>2, <2>3 DEF Sated
<1>4. ASSUME NEW p \in Pid, pc'[p] = "fork2"
      PROVE  HasTicks(task'[kid'[p]])
  <2>1. PICK c : c = kid[p]
    OBVIOUS
  <2>2. pc[p] = "fork2" /\ kid'[p] = c /\ c \in Pid
    BY <1>4, <2>1 DEF Along, IInv, Copied, Forking
  <2>3. HasTicks(task[c])
    BY <2>1, <2>2 DEF Supplied, ChildHasTicks
  <2> QED BY <2>2, <2>3 DEF Sated
<1> QED BY <1>2, <1>3, <1>4 DEF Supplied, CopyIsShort, ChildHasTicks

\* The slices are what they were, or p has been fed.
LEMMA FedStep ==
  ASSUME IInv, NEW k, Become(k), SameSlices(K, k) \/ \E p \in Task : Feeds(K, k, p)
  PROVE  \A q \in Pid : Sated(q)
<1>1. PICK p \in Task : Feeds(K, k, p)
  BY Ticked, SameFeeds DEF Wound
<1>2. ASSUME NEW q \in Pid
      PROVE  Sated(q)
  <2>1. task' = k.task /\ q \in Task
    BY Ticked DEF Become
  <2>2. CASE q = p
    BY <1>1, <2>1, <2>2, Ticked DEF Feeds, Sated, is_short
  <2>3. CASE q # p
    <3>1. SameSlice(task'[q], task[q])
      BY <1>1, <2>1, <2>3, Ticked DEF Feeds
    <3> QED BY <3>1, SameTicks DEF Sated, SameSlice, is_short
  <2> QED BY <2>2, <2>3
<1> QED BY <1>2

\* A step that moves no task moves none into do_fork.
LEMMA StaysAlong ==
  ASSUME pc' = pc, kid' = kid
  PROVE  \A q \in Pid : Along(q)
BY DEF Along

\* Nor does one that moves a single task out of it.
LEMMA MovesAlong ==
  ASSUME IInv, NEW p \in Pid, pc[p] \notin {"free", "copy"},
         NEW l, l \notin {"free", "copy", "fork2"}, pc' = [pc EXCEPT ![p] = l],
         l \in {"fork1", "fblock"} => pc[p] \in {"fork1", "fblock"} /\ kid'[p] = kid[p],
         \A q \in Pid \ {p} : kid'[q] = kid[q]
  PROVE  \A q \in Pid : Along(q)
<1>1. pc'[p] = l /\ \A q \in Pid \ {p} : pc'[q] = pc[q]
  BY DEF IInv, ProcTypes
<1> QED BY <1>1 DEF Along

\* The timer interrupt.
LEMMA TickSates ==
  ASSUME IInv, Tick
  PROVE  \A q \in Pid : Sated(q) /\ Along(q)
<1>1. PICK prio, stay : Become(scheduler_tick(K, prio, stay))
  BY DEF Tick
<1>2. Feeds(K, scheduler_tick(K, prio, stay), curr) /\ curr \in Task
  BY Ticked, TickFeeds DEF Wound
<1> QED BY <1>1, <1>2, FedStep, StaysAlong DEF Tick, procVars

\* schedule() up to the context switch.
LEMMA ScheduleSates ==
  ASSUME IInv, Schedule
  PROVE  \A q \in Pid : Sated(q) /\ Along(q)
<1>1. PICK sig \in Signals : Become(hw2_log_switch(schedule(K, sig)))
  BY DEF Schedule
<1>2. PICK k : k = schedule(K, sig)
  OBVIOUS
<1>3. k.curr \in Task
  <2>1. Good(K, {}, 0) /\ CurrQueued(K) /\ sig \in BOOLEAN
    BY QuietNow, QuietCurr, SchedAssumption DEF IInv
  <2> QED BY <1>2, <2>1, Scheduled
<1>4. /\ {"task", "curr"} \subseteq DOMAIN k /\ DOMAIN k.task = Task
      /\ \A r \in Task : SameSlice(k.task[r], task[r])
  BY <1>2, Ticked, ScheduleSlices
<1>5. Wound(k) /\ curr \in Task
  BY <1>3, <1>4, Facts, Ticked DEF Wound, SameSlice
<1>6. SameSlices(k, hw2_log_switch(k))
  BY <1>5, FlagSlices, SlicesSame DEF hw2_log_switch
<1>7. ASSUME NEW q \in Pid
      PROVE  Sated(q)
  <2>1. task' = hw2_log_switch(k).task
    BY <1>1, <1>2 DEF Become
  <2>2. SameSlice(task'[q], task[q])
    BY <1>4, <1>6, <2>1, Ticked DEF SameSlices, SameSlice
  <2> QED BY <2>2, SameTicks DEF Sated, SameSlice, is_short
<1>8. ASSUME NEW q \in Pid
      PROVE  Along(q)
  <2>1. kid' = kid /\ \/ pc'[q] = pc[q]
                      \/ pc'[q] = "run" /\ pc[q] = "new"
                      \/ pc'[q] = After(pc[q]) /\ q = curr
    BY DEF Schedule, procVars
  <2>2. pc[q] \in Locations /\ (q = curr => pc[q] \notin {"free", "copy"})
    BY DEF IInv, ProcTypes, Located, Hashed
  <2> QED BY <2>1, <2>2 DEF Along, After, Locations
<1> QED BY <1>7, <1>8

\* A wake-up by an interrupt.
LEMMA WakeUpSates ==
  ASSUME IInv, NEW p \in Pid, WakeUp(p)
  PROVE  \A q \in Pid : Sated(q) /\ Along(q)
<1>1. PICK prio : Become(try_to_wake_up(K, p, prio))
  BY DEF WakeUp
<1>2. SameSlices(K, try_to_wake_up(K, p, prio))
  BY Ticked, TryToWakeUpSlices
<1> QED BY <1>1, <1>2, FedStep, StaysAlong DEF WakeUp, procVars

\* The wake-up of a parent, if it sleeps.
LEMMA WaiterSlices ==
  ASSUME NEW k, Wound(k), NEW q \in Pid \cup {None}, NEW l, NEW s, NEW prio
  PROVE  SameSlices(k, WakeWaiter(k, q, l, s, prio))
<1>1. q # None => q \in Task
  BY DEF Task
<1> QED BY <1>1, TryToWakeUpSlices, SlicesSame DEF WakeWaiter

\* mm_release: exec and the beginning of exit.
LEMMA ReleaseSates ==
  ASSUME IInv, NEW p \in Pid, mm_release(p)
  PROVE  \A q \in Pid : Sated(q)
<1>1. PICK prio : Become(WakeWaiter(K, vfork_done[p], "vwait", "UNINTERRUPTIBLE", prio))
  BY DEF mm_release
<1>2. vfork_done[p] \in Pid \cup {None}
  BY DEF IInv, ProcTypes
<1> QED BY <1>1, <1>2, Ticked, WaiterSlices, FedStep

\* exit_notify wakes up to two tasks and turns the dead one into a zombie.
LEMMA ExitNotifySates ==
  ASSUME IInv, NEW p \in Pid, ExitNotify(p)
  PROVE  \A q \in Pid : Sated(q) /\ Along(q)
<1> DEFINE orphans == {c \in Pid : parent[c] = p /\ Hashed(c)}
           heir    == IF \E c \in orphans : task[c].state = "ZOMBIE" THEN InitTask ELSE None
<1>1. PICK prio \in WaiterPrios(parent[p]), prio2 \in WaiterPrios(heir) :
        LET k1 == WakeWaiter(SetState(K, p, "ZOMBIE"), parent[p], "wait", "INTERRUPTIBLE", prio)
            k2 == WakeWaiter(k1, heir, "wait", "INTERRUPTIBLE", prio2)
        IN Become(forget_original_parent(UPDATE_REASON(k2, p, ENDED), orphans))
  BY DEF ExitNotify
<1> DEFINE k0 == SetState(K, p, "ZOMBIE")
           k1 == WakeWaiter(k0, parent[p], "wait", "INTERRUPTIBLE", prio)
           k2 == WakeWaiter(k1, heir, "wait", "INTERRUPTIBLE", prio2)
           k3 == UPDATE_REASON(k2, p, ENDED)
           k4 == forget_original_parent(k3, orphans)
<1>2. Become(k4)
  BY <1>1
<1>3. parent[p] \in Pid \cup {None} /\ heir \in Pid \cup {None} /\ p \in Task
  BY SchedAssumption DEF IInv, ProcTypes, Task
<1> HIDE DEF orphans, heir
<1>4. SameSlices(K, k0) /\ Wound(k0)
  BY <1>3, Ticked, FlagSlices, SlicesTwice
<1> HIDE DEF k0
<1>5. SameSlices(K, k1) /\ Wound(k1)
  BY <1>3, <1>4, Ticked, WaiterSlices, SlicesTwice
<1> HIDE DEF k1
<1>6. SameSlices(K, k2) /\ Wound(k2)
  BY <1>3, <1>5, Ticked, WaiterSlices, SlicesTwice
<1> HIDE DEF k2
<1>7. SameSlices(K, k3) /\ Wound(k3)
  BY <1>3, <1>6, Ticked, FlagSlices, SlicesTwice
<1> HIDE DEF k3
<1>8. SameSlices(K, k4)
  BY <1>7, Ticked, OrphanSlices, SlicesTwice
<1> HIDE DEF k4
<1>9. pc' = [pc EXCEPT ![p] = "dead"] /\ kid' = kid /\ pc[p] = "exit1"
  BY DEF ExitNotify, At
<1> QED BY <1>2, <1>8, <1>9, FedStep, MovesAlong

\* A system call that takes no ticks and does not go on in do_fork.
LEMMA CallSates ==
  ASSUME IInv, NEW p \in Pid, pc[p] \notin {"free", "copy"},
         NEW l, l \notin {"free", "copy", "fork2"}, pc' = [pc EXCEPT ![p] = l],
         l \in {"fork1", "fblock"} => pc[p] \in {"fork1", "fblock"} /\ kid'[p] = kid[p],
         \A q \in Pid \ {p} : kid'[q] = kid[q],
         NEW k, SameSlices(K, k), Become(k)
  PROVE  \A q \in Pid : Sated(q) /\ Along(q)
BY FedStep, MovesAlong

\* The steps that write a state, or nothing.
LEMMA SleepSates ==
  ASSUME IInv, NEW p \in Pid,
         \/ Sleep(p) \/ ForkBlock(p) \/ VforkBlock(p) \/ ExitBlock(p) \/ WaitEnter(p)
         \/ WaitReturn(p) \/ YieldShort(p) \/ WaitBlock(p)
  PROVE  \A q \in Pid : Sated(q) /\ Along(q)
<1>1. \A s : SameSlices(K, SetState(K, p, s))
  BY Ticked, FlagSlices
<1>2. pc[p] \notin {"free", "copy"}
  BY DEF Sleep, ForkBlock, VforkBlock, ExitBlock, WaitEnter, WaitReturn, YieldShort, WaitBlock, Call, At
<1>3. CASE YieldShort(p) \/ WaitBlock(p)
  <2>1. Become(K) /\ SameSlices(K, K)
    BY <1>3, Ticked, SlicesSame, Current DEF YieldShort, WaitBlock
  <2>2. PICK l \in {"hang", "wblock"} : pc' = [pc EXCEPT ![p] = l]
    BY <1>3 DEF YieldShort, WaitBlock
  <2>3. kid' = kid
    BY <1>3 DEF YieldShort, WaitBlock, procVars
  <2> QED BY <1>2, <2>1, <2>2, <2>3, CallSates
<1>4. CASE \/ Sleep(p) \/ ForkBlock(p) \/ VforkBlock(p) \/ ExitBlock(p) \/ WaitEnter(p)
           \/ WaitReturn(p)
  <2>1. kid' = kid /\ \E s : Become(SetState(K, p, s))
    BY <1>4 DEF Sleep, ForkBlock, VforkBlock, ExitBlock, WaitEnter, WaitReturn, procVars
  <2>2. PICK l \in {"block", "fblock", "vblock", "eblock", "scan", "ret", "run"} :
          pc' = [pc EXCEPT ![p] = l] /\ (l = "fblock" => pc[p] = "fork1")
    BY <1>4 DEF Sleep, ForkBlock, VforkBlock, ExitBlock, WaitEnter, WaitReturn, Return, At
  <2> QED BY <1>1, <1>2, <2>1, <2>2, CallSates
<1> QED BY <1>3, <1>4

\* nice.
LEMMA NiceSates ==
  ASSUME IInv, NEW p \in Pid, Nice(p)
  PROVE  \A q \in Pid : Sated(q) /\ Along(q)
<1>1. PICK r \in Pid, prio \in NicePrios :
        Become(set_user_nice(K, r, prio)) /\ Return(set_user_nice(K, r, prio), p)
  BY DEF Nice
<1>2. kid' = kid /\ pc[p] = "run"
  BY DEF Nice, procVars, Call, At
<1>3. prio \in UserPrio
  BY SchedAssumption
<1>4. SameSlices(K, set_user_nice(K, r, prio))
  BY <1>3, Ticked, NiceSlices
<1> QED BY <1>1, <1>2, <1>4, ReturnLabel, CallSates

\* sched_yield, and the return of vfork.
LEMMA YieldSates ==
  ASSUME IInv, NEW p \in Pid, Yield(p) \/ VforkReturn(p)
  PROVE  \A q \in Pid : Sated(q) /\ Along(q)
<1>1. CASE Yield(p)
  <2>1. /\ Become(sys_sched_yield(K, p)) /\ pc' = [pc EXCEPT ![p] = "yield"] /\ kid' = kid
        /\ pc[p] = "run"
    BY <1>1 DEF Yield, procVars, Call, At
  <2>2. SameSlices(K, sys_sched_yield(K, p))
    BY Ticked, YieldSlices
  <2> QED BY <2>1, <2>2, CallSates
<1>2. CASE VforkReturn(p)
  <2>1. Become(ForkResched(K, p, TRUE)) /\ Return(ForkResched(K, p, TRUE), p) /\ pc[p] = "vwait"
    BY <1>2 DEF VforkReturn, At
  <2>2. \A q \in Pid \ {p} : kid'[q] = kid[q]
    BY <1>2 DEF VforkReturn, IInv, ProcTypes
  <2>3. SameSlices(K, ForkResched(K, p, TRUE))
    BY Ticked, ForkReschedSlices
  <2> QED BY <2>1, <2>2, <2>3, ReturnLabel, CallSates
<1> QED BY <1>1, <1>2

\* setscheduler by the task itself, which is not in the middle of do_fork then, or for a
\* policy other than SHORT, which leaves a task as SHORT as it was.
LEMMA SetSchedulerSates ==
  ASSUME "setscheduler_other" \notin Calls \/ "SHORT" \notin NewPolicies, IInv, NEW p \in Pid, SetScheduler(p)
  PROVE  \A q \in Pid : Sated(q) /\ Along(q)
<1>1. PICK r \in Pid, policy \in NewPolicies, rt_priority \in 0 .. MAX_USER_RT_PRIO - 1,
           requested_time \in Requests, trials \in Trials :
        LET new == WithPolicy(task[r], policy, rt_priority, requested_time, trials)
        IN  /\ Call(p, IF p = r THEN "setscheduler" ELSE "setscheduler_other")
            /\ MaySetScheduler(task[r], policy, rt_priority, requested_time, trials)
            /\ \E prio : /\ Become(setscheduler(K, r, new, prio))
                         /\ Return(setscheduler(K, r, new, prio), p)
            /\ UNCHANGED procVars
  BY DEF SetScheduler
<1> DEFINE new == WithPolicy(task[r], policy, rt_priority, requested_time, trials)
<1>2. pc[p] = "run" /\ (r = p \/ (is_short(new) <=> is_short(task[r])))
  <2>1. pc[p] = "run" /\ (r = p \/ "SHORT" \notin NewPolicies)
    BY <1>1 DEF Call, At
  <2>2. task[r] \in TaskRecord /\ task[r].policy \in Policies
    BY Facts DEF TaskRecord
  <2>3. "SHORT" \notin NewPolicies => (is_short(new) <=> is_short(task[r]))
    BY <1>1, <2>2 DEF WithPolicy, NewPolicy, MaySetScheduler, is_short, TaskRecord
  <2> QED BY <2>1, <2>3
<1>3. Ticking(new) /\ (HasTicks(task[r]) => HasTicks(new))
  <2>1. trials \in Nat /\ requested_time \in Nat
    BY Arguments
  <2> QED BY <1>1, <2>1, Ticked, PolicyFeeds
<1> HIDE DEF new
<1>4. PICK prio : Become(setscheduler(K, r, new, prio)) /\ Return(setscheduler(K, r, new, prio), p)
  BY <1>1 DEF new
<1>5. PICK k : k = setscheduler(K, r, new, prio)
  OBVIOUS
<1>6. /\ \A q \in Task \ {r} : SameSlice(k.task[q], task[q])
      /\ SameSlice(k.task[r], new)
  BY <1>3, <1>5, Ticked, SetschedulerFeeds
<1>7. task' = k.task
  BY <1>4, <1>5 DEF Become
<1>8. ASSUME NEW q \in Pid
      PROVE  Sated(q)
  <2>1. CASE q = r
    <3>1. HasTicks(task[q]) => HasTicks(task'[q])
      BY <1>3, <1>6, <1>7, <2>1, SameTicks
    <3>2. is_short(task'[q]) <=> is_short(new)
      BY <1>6, <1>7, <2>1 DEF SameSlice, is_short
    <3> QED BY <1>2, <2>1, <3>1, <3>2 DEF Sated
  <2>2. CASE q # r
    <3>1. SameSlice(task'[q], task[q])
      BY <1>6, <1>7, <2>2, Ticked
    <3> QED BY <3>1, SameTicks DEF Sated, SameSlice, is_short
  <2> QED BY <2>1, <2>2
<1>9. PICK l \in {"ret", "run"} : pc' = [pc EXCEPT ![p] = l]
  BY <1>4, ReturnLabel
<1>10. \A q \in Pid : Along(q)
  BY <1>1, <1>2, <1>9, MovesAlong DEF procVars
<1> QED BY <1>8, <1>10

\* A task_struct that goes takes no ticks from the others.
LEMMA StructGoes ==
  ASSUME IInv, Supplied, NEW c \in Pid, pc'[c] = "free",
         \A q \in Pid \ {c} : Sated(q) /\ Along(q),
         \A q \in Pid \ {c} : pc'[q] \in {"fork1", "fblock", "fork2"} => kid[q] # c
  PROVE  Supplied'
<1>1. ASSUME NEW p \in Pid, pc'[p] \notin {"free", "copy"}
      PROVE  HasTicks(task'[p])
  BY <1>1, TicksAre DEF Supplied, Sated, Along
<1>2. TicksLeft'
  BY <1>1 DEF TicksLeft, HasTicks
<1>3. ASSUME NEW p \in Pid, pc'[p] \in {"fork1", "fblock"}, is_short(task'[p])
      PROVE  is_short(task'[kid'[p]])
  <2>1. PICK d : d = kid[p]
    OBVIOUS
  <2>2. p # c /\ pc[p] \in {"fork1", "fblock"} /\ kid'[p] = d /\ d \in Pid \ {c} /\ pc[d] = "copy"
    BY <1>3, <2>1 DEF Along, IInv, Copied, Forking
  <2>3. is_short(task[p]) => is_short(task[d])
    BY <2>1, <2>2 DEF Supplied, CopyIsShort
  <2> QED BY <1>3, <2>2, <2>3 DEF Sated
<1>4. ASSUME NEW p \in Pid, pc'[p] = "fork2"
      PROVE  HasTicks(task'[kid'[p]])
  <2>1. PICK d : d = kid[p]
    OBVIOUS
  <2>2. p # c /\ pc[p] = "fork2" /\ kid'[p] = d /\ d \in Pid \ {c}
    BY <1>4, <2>1 DEF Along, IInv, Copied, Forking
  <2>3. HasTicks(task[d])
    BY <2>1, <2>2 DEF Supplied, ChildHasTicks
  <2> QED BY <2>2, <2>3 DEF Sated
<1> QED BY <1>2, <1>3, <1>4 DEF Supplied, CopyIsShort, ChildHasTicks

\* do_fork fails and frees the copy.
LEMMA ForkFailSupplied ==
  ASSUME IInv, Supplied, NEW p \in Pid, ForkFail(p)
  PROVE  Supplied'
<1>1. PICK c : c = kid[p]
  OBVIOUS
<1>2. pc[p] = "fork1" /\ c \in Pid /\ c # p /\ pc[c] = "copy"
  BY <1>1 DEF ForkFail, At, IInv, Copied, Forking
<1>3. task' = [task EXCEPT ![c] = BlankTask] /\ task \in [Task -> TaskRecord]
  BY <1>1, Current DEF ForkFail, Become, Set, IInv, Good, Typed, Kernel
<1>4. \A q \in Pid \ {c} : task'[q] = task[q]
  BY <1>2, <1>3, Ticked
<1>5. /\ pc'[c] = "free" /\ pc'[p] \in {"ret", "run"}
      /\ \A q \in Pid \ {p, c} : pc'[q] = pc[q] /\ kid'[q] = kid[q]
  BY <1>1, <1>2 DEF ForkFail, IInv, ProcTypes
<1>6. \A q \in Pid \ {c} : Sated(q) /\ Along(q)
  BY <1>2, <1>4, <1>5 DEF Sated, Along
<1>7. ASSUME NEW q \in Pid \ {c}, pc'[q] \in {"fork1", "fblock", "fork2"}
      PROVE  kid[q] # c
  BY <1>1, <1>2, <1>5, <1>7 DEF IInv, Copied, Forking
<1> QED BY <1>2, <1>5, <1>6, <1>7, StructGoes

\* release_task frees the dead child and gives the reaper what is left of its first slice.
LEMMA ReapSupplied ==
  ASSUME IInv, Supplied, NEW p \in Pid, Reap(p)
  PROVE  Supplied'
<1>1. PICK c \in Zombies(p) :
        /\ At(p, "scan")
        /\ Become(Set(SetState(sched_exit(K, p, c), p, "RUNNING"), c, BlankTask))
        /\ pc' = [pc EXCEPT ![p] = IF task[p].need_resched THEN "ret" ELSE "run", ![c] = "free"]
        /\ kid' = kid
  BY DEF Reap
<1>2. c \in Pid /\ c # p /\ pc[c] # "copy" /\ p \in Task /\ c \in Task /\ pc[p] = "scan"
  BY <1>1, Ticked DEF Zombies, Children, Hashed, At
<1> DEFINE i == sched_exit(K, p, c)
           k == SetState(i, p, "RUNNING")
<1>3. Feeds(K, i, p) /\ Wound(i)
  BY <1>2, Ticked, SchedExitFeeds, FeedsTwice
<1>4. Feeds(K, k, p) /\ Wound(k)
  <2> HIDE DEF i
  <2>1. Feeds(i, k, p)
    BY <1>2, <1>3, FlagSlices, SameFeeds
  <2> QED BY <1>2, <1>3, <2>1, Ticked, FeedsTwice
<1>5. task' = Set(k, c, BlankTask).task
  BY <1>1 DEF Become
<1> HIDE DEF k
<1>6. \A q \in Pid \ {c} : task'[q] = k.task[q]
  BY <1>2, <1>4, <1>5, Ticked DEF Set, Wound
<1>7. /\ pc'[c] = "free" /\ pc'[p] \in {"ret", "run"}
      /\ \A q \in Pid \ {p, c} : pc'[q] = pc[q]
  BY <1>1, <1>2 DEF IInv, ProcTypes
<1>8. ASSUME NEW q \in Pid \ {c}
      PROVE  Sated(q) /\ Along(q)
  <2>1. Along(q)
    BY <1>1, <1>2, <1>7 DEF Along
  <2>2. CASE q = p
    BY <1>2, <1>4, <1>6, <2>1, <2>2, Ticked DEF Feeds, Sated
  <2>3. CASE q # p
    <3>1. SameSlice(task'[q], task[q])
      BY <1>4, <1>6, <2>3, Ticked DEF Feeds
    <3> QED BY <2>1, <3>1, SameTicks DEF Sated, SameSlice, is_short
  <2> QED BY <2>2, <2>3
<1>9. ASSUME NEW q \in Pid \ {c}, pc'[q] \in {"fork1", "fblock", "fork2"}
      PROVE  kid[q] # c
  BY <1>2, <1>7, <1>9 DEF IInv, Copied, Forking
<1> QED BY <1>2, <1>7, <1>8, <1>9, StructGoes

\* *p = *current: the copy is SHORT if the parent is.
LEMMA ForkCopySupplied ==
  ASSUME IInv, Supplied, NEW p \in Pid, NEW c \in Pid, NEW vfork \in BOOLEAN, ForkCopy(p, c, vfork)
  PROVE  Supplied'
<1>1. pc[p] = "run" /\ pc[c] = "free" /\ p # c
  BY DEF ForkCopy, Call, At
<1>2. /\ \A q \in Pid \ {c} : task'[q] = task[q]
      /\ task'[c].policy = task[p].policy
  <2>1. task' = [task EXCEPT ![c] = CopyTask(task[p])] /\ task \in [Task -> TaskRecord]
    BY Current DEF ForkCopy, Become, Set, IInv, Good, Typed, Kernel
  <2>2. CopyTask(task[p]).policy = task[p].policy
    BY Ticked DEF CopyTask, Ticking
  <2> QED BY <2>1, <2>2, Ticked
<1>3. /\ pc'[p] = "fork1" /\ pc'[c] = "copy" /\ kid'[p] = c
      /\ \A q \in Pid \ {p, c} : pc'[q] = pc[q] /\ kid'[q] = kid[q]
  BY <1>1 DEF ForkCopy, IInv, ProcTypes
<1>4. ASSUME NEW q \in Pid, pc'[q] \notin {"free", "copy"}
      PROVE  HasTicks(task'[q])
  <2>1. q # c /\ pc[q] \notin {"free", "copy"}
    BY <1>1, <1>3, <1>4
  <2> QED BY <1>2, <2>1, TicksAre DEF Supplied
<1>5. TicksLeft'
  BY <1>4 DEF TicksLeft, HasTicks
<1>6. ASSUME NEW q \in Pid, pc'[q] \in {"fork1", "fblock"}, is_short(task'[q])
      PROVE  is_short(task'[kid'[q]])
  <2>1. CASE q = p
    BY <1>1, <1>2, <1>3, <1>6, <2>1 DEF is_short
  <2>2. CASE q # p
    <3>1. q # c /\ pc[q] \in {"fork1", "fblock"} /\ kid'[q] = kid[q]
      BY <1>3, <1>6, <2>2
    <3>2. kid[q] \in Pid \ {c}
      BY <1>1, <3>1 DEF IInv, Copied, Forking
    <3> QED BY <1>2, <1>6, <3>1, <3>2 DEF Supplied, CopyIsShort
  <2> QED BY <2>1, <2>2
<1>7. ASSUME NEW q \in Pid, pc'[q] = "fork2"
      PROVE  HasTicks(task'[kid'[q]])
  <2>1. q # c /\ q # p /\ pc[q] = "fork2" /\ kid'[q] = kid[q]
    BY <1>3, <1>7
  <2>2. kid[q] \in Pid \ {c}
    BY <1>1, <2>1 DEF IInv, Copied, Forking
  <2> QED BY <1>2, <2>1, <2>2 DEF Supplied, ChildHasTicks
<1> QED BY <1>5, <1>6, <1>7 DEF Supplied, CopyIsShort, ChildHasTicks

\* The slice is shared: the parent has ticks after it, and so has the child, or it is overdue.
LEMMA ForkSplitSupplied ==
  ASSUME IInv, Supplied, NEW p \in Pid, ForkSplit(p)
  PROVE  Supplied'
<1>1. PICK c : c = kid[p]
  OBVIOUS
<1>2. pc[p] = "fork1" /\ p = curr /\ c \in Pid /\ c # p /\ pc[c] = "copy"
  BY <1>1 DEF ForkSplit, At, IInv, Copied, Forking
<1>3. PICK prio, stay : Become(SplitSlice(K, p, c, prio, stay))
  BY <1>1 DEF ForkSplit
<1>4. PICK k : k = SplitSlice(K, p, c, prio, stay)
  OBVIOUS
<1>5. /\ \A q \in Pid \ {p, c} : SameSlice(task'[q], task[q])
      /\ HasTicks(task'[p]) /\ HasTicks(task'[c])
  <2>1. task' = k.task
    BY <1>3, <1>4 DEF Become
  <2>2. Divided(K, k, p, c)
    BY <1>2, <1>4, Ticked, SplitFeeds
  <2>3. HasTicks(task[p]) /\ (is_short(task[p]) => is_short(task[c]))
    BY <1>1, <1>2, TicksAre DEF Supplied, CopyIsShort
  <2> QED BY <1>2, <2>1, <2>2, <2>3, Ticked DEF Divided
<1>6. /\ pc'[p] = "fork2" /\ kid' = kid
      /\ \A q \in Pid \ {p} : pc'[q] = pc[q]
  BY <1>2 DEF ForkSplit, IInv, ProcTypes, procVars
<1>7. ASSUME NEW q \in Pid, pc'[q] \notin {"free", "copy"}
      PROVE  HasTicks(task'[q])
  <2>1. CASE q \in {p, c}
    BY <1>5, <2>1
  <2>2. CASE q \notin {p, c}
    <3>1. HasTicks(task[q]) /\ SameSlice(task'[q], task[q])
      BY <1>5, <1>6, <1>7, <2>2, TicksAre DEF Supplied
    <3> QED BY <3>1, SameTicks
  <2> QED BY <2>1, <2>2
<1>8. TicksLeft'
  BY <1>7 DEF TicksLeft, HasTicks
<1>9. ASSUME NEW q \in Pid, pc'[q] \in {"fork1", "fblock"}, is_short(task'[q])
      PROVE  is_short(task'[kid'[q]])
  <2>1. q # p /\ q # c /\ pc[q] \in {"fork1", "fblock"} /\ kid'[q] = kid[q]
    BY <1>2, <1>6, <1>9
  <2>2. kid[q] \in Pid \ {p, c}
    BY <1>1, <1>2, <2>1 DEF IInv, Copied, Forking
  <2> QED BY <1>5, <1>9, <2>1, <2>2 DEF Supplied, CopyIsShort, SameSlice, is_short
<1>10. ASSUME NEW q \in Pid, pc'[q] = "fork2"
      PROVE  HasTicks(task'[kid'[q]])
  <2>1. CASE q = p
    BY <1>1, <1>5, <1>6, <2>1
  <2>2. CASE q # p
    <3>1. q # c /\ pc[q] = "fork2" /\ kid'[q] = kid[q]
      BY <1>2, <1>6, <1>10, <2>2
    <3>2. kid[q] \in Pid \ {p, c}
      BY <1>1, <1>2, <2>2, <3>1 DEF IInv, Copied, Forking
    <3>3. PICK d : d = kid[q]
      OBVIOUS
    <3>4. HasTicks(task[d]) /\ SameSlice(task'[d], task[d])
      BY <1>5, <3>1, <3>2, <3>3 DEF Supplied, ChildHasTicks
    <3> QED BY <3>1, <3>3, <3>4, SameTicks
  <2> QED BY <2>1, <2>2
<1> QED BY <1>8, <1>9, <1>10 DEF Supplied, CopyIsShort, ChildHasTicks

\* The child is woken, with the ticks it was given.
LEMMA ForkWakeSupplied ==
  ASSUME IInv, Supplied, NEW p \in Pid, ForkWake(p)
  PROVE  Supplied'
<1>1. PICK c : c = kid[p]
  OBVIOUS
<1>2. pc[p] = "fork2" /\ c \in Pid /\ c # p /\ pc[c] = "copy"
  BY <1>1 DEF ForkWake, At, IInv, Copied, Forking
<1>3. PICK prio : LET k == wake_up_forked_process(K, c, prio)
                  IN Become(IF vfork_done[c] # None THEN k ELSE ForkResched(k, p, FALSE))
  BY <1>1 DEF ForkWake
<1>4. PICK k : k = wake_up_forked_process(K, c, prio)
  OBVIOUS
<1>5. SameSlices(K, k) /\ Wound(k)
  BY <1>2, <1>4, Ticked, WakeForkedSlices, SlicesTwice
<1>6. SameSlices(K, ForkResched(k, p, FALSE))
  BY <1>5, Ticked, ForkReschedSlices, SlicesTwice
<1>7. \A q \in Pid : Sated(q)
  BY <1>3, <1>4, <1>5, <1>6, FedStep
<1>8. /\ \A q \in Pid \ {p, c} : pc'[q] = pc[q] /\ kid'[q] = kid[q]
      /\ pc'[p] \in {"vwait", "ret"} /\ pc'[c] = "new"
  BY <1>1, <1>2 DEF ForkWake, IInv, ProcTypes
<1>9. ASSUME NEW q \in Pid, pc'[q] \notin {"free", "copy"}
      PROVE  HasTicks(task'[q])
  <2>1. CASE q = c
    <3>1. HasTicks(task[c])
      BY <1>1, <1>2 DEF Supplied, ChildHasTicks
    <3> QED BY <1>2, <1>7, <2>1, <3>1 DEF Sated
  <2>2. CASE q # c
    <3>1. HasTicks(task[q])
      BY <1>2, <1>8, <1>9, <2>2, TicksAre DEF Supplied
    <3> QED BY <1>7, <3>1 DEF Sated
  <2> QED BY <2>1, <2>2
<1>10. TicksLeft'
  BY <1>9 DEF TicksLeft, HasTicks
<1>11. ASSUME NEW q \in Pid, pc'[q] \in {"fork1", "fblock"}, is_short(task'[q])
      PROVE  is_short(task'[kid'[q]])
  <2>1. PICK d : d = kid[q]
    OBVIOUS
  <2>2. pc[q] \in {"fork1", "fblock"} /\ kid'[q] = d /\ d \in Pid /\ pc[d] = "copy"
    BY <1>8, <1>11, <2>1 DEF IInv, Copied, Forking
  <2>3. is_short(task[q]) => is_short(task[d])
    BY <2>1, <2>2 DEF Supplied, CopyIsShort
  <2> QED BY <1>7, <1>11, <2>2, <2>3 DEF Sated
<1>12. ASSUME NEW q \in Pid, pc'[q] = "fork2"
      PROVE  HasTicks(task'[kid'[q]])
  <2>1. PICK d : d = kid[q]
    OBVIOUS
  <2>2. pc[q] = "fork2" /\ kid'[q] = d /\ d \in Pid
    BY <1>8, <1>12, <2>1 DEF IInv, Copied, Forking
  <2>3. HasTicks(task[d])
    BY <2>1, <2>2 DEF Supplied, ChildHasTicks
  <2> QED BY <1>7, <2>2, <2>3 DEF Sated
<1> QED BY <1>10, <1>11, <1>12 DEF Supplied, CopyIsShort, ChildHasTicks

\* Every step leaves the tasks supplied.
LEMMA NextSupplied ==
  ASSUME "setscheduler_other" \notin Calls \/ "SHORT" \notin NewPolicies, IInv, Supplied, [Next]_vars
  PROVE  Supplied'
<1>1. CASE Tick \/ Schedule \/ \E p \in Pid : WakeUp(p)
  BY <1>1, TickSates, ScheduleSates, WakeUpSates, Feeding
<1>2. CASE UNCHANGED vars \/ TailCheck
  BY <1>2 DEF vars, rqVars, procVars, TailCheck, Supplied, TicksLeft, CopyIsShort, ChildHasTicks
<1>3. CASE TailClear
  <2>1. last \in Task
    BY <1>3 DEF TailClear, IInv, ProcTypes
  <2>2. SameSlices(K, UPDATE_REASON(K, last, UNKNOWN))
    BY <2>1, Ticked, FlagSlices
  <2> QED BY <1>3, <2>2, FedStep, StaysAlong, Feeding DEF TailClear, procVars
<1>4. CASE \E p \in Pid : SysCall(p)
  <2>1. PICK p \in Pid : SysCall(p)
    BY <1>4
  <2>2. CASE Exec(p)
    BY <2>2, ReleaseSates, StaysAlong, Feeding DEF Exec
  <2>3. CASE ExitBegin(p)
    <3>1. pc' = [pc EXCEPT ![p] = "exit1"] /\ kid' = kid /\ mm_release(p) /\ pc[p] = "run"
      BY <2>3 DEF ExitBegin, Call, At
    <3> QED BY <3>1, ReleaseSates, MovesAlong, Feeding
  <2>4. CASE \E c \in Pid, vfork \in BOOLEAN : ForkCopy(p, c, vfork)
    BY <2>4, ForkCopySupplied
  <2>5. CASE ForkFail(p) \/ ForkSplit(p) \/ ForkWake(p) \/ Reap(p)
    BY <2>5, ForkFailSupplied, ForkSplitSupplied, ForkWakeSupplied, ReapSupplied
  <2>6. CASE ExitNotify(p) \/ SetScheduler(p) \/ Nice(p) \/ Yield(p) \/ VforkReturn(p)
    BY <2>6, ExitNotifySates, SetSchedulerSates, NiceSates, YieldSates, Feeding
  <2>7. CASE \/ Sleep(p) \/ ForkBlock(p) \/ VforkBlock(p) \/ ExitBlock(p) \/ WaitEnter(p)
             \/ WaitReturn(p) \/ YieldShort(p) \/ WaitBlock(p)
    BY <2>7, SleepSates, Feeding
  <2> QED BY <2>1, <2>2, <2>3, <2>4, <2>5, <2>6, <2>7 DEF SysCall
<1> QED BY <1>1, <1>2, <1>3, <1>4 DEF Next

\* The tasks of Boot have a whole slice.
LEMMA InitSupplied ==
  ASSUME Init
  PROVE  Supplied
<1>1. \A p \in Pid : pc[p] \in {"run", "free"} /\ (pc[p] # "free" => p \in Booted)
  BY DEF Init
<1>2. \A p \in Booted : p \in Task /\ task[p] = BootTask
  BY BootCount DEF Init, Task
<1>3. BootTask.time_slice > 0
  <2>1. Ticking(BlankTask)
    BY SchedAssumption DEF Ticking, BlankTask
  <2>2. PICK n \in Nat : n = TASK_TIMESLICE(BlankTask) /\ n > 0
    BY <2>1, SliceFacts
  <2>3. BootTask = [BlankTask EXCEPT !.time_slice = n, !.array = 0, !.queued = TRUE]
    BY <2>2 DEF BootTask
  <2>4. BootTask.time_slice = n
    BY <2>3 DEF BlankTask
  <2> QED BY <2>2, <2>4
<1> QED BY <1>1, <1>2, <1>3 DEF Supplied, TicksLeft, CopyIsShort, ChildHasTicks

\* No task but an overdue one is ever without ticks, unless one task makes another SHORT in
\* the middle of its fork: a tick that uses up a slice, and a fork that gives the last tick
\* away, begin the next one at once, and setscheduler gives a tick at least.
THEOREM SchedTicksLeft ==
  ASSUME "setscheduler_other" \notin Calls \/ "SHORT" \notin NewPolicies
  PROVE  Spec => []TicksLeft
<1>1. Init => IInv /\ Supplied
  BY InitIInv, InitSupplied
<1>2. IInv /\ Supplied /\ [Next]_vars => (IInv /\ Supplied)'
  BY NextIInv, NextSupplied
<1>3. Supplied => TicksLeft
  BY DEF Supplied
<1> QED BY <1>1, <1>2, <1>3, PTL DEF Spec

-----------------------------------------------------------------------------
(* What programs are told.                                                 *)

\* The numbers a wrapper hands on, and the error it turns into errno.
LEMMA Converted ==
  /\ \A n \in Nat : convert_to_errno(n) = [ret |-> n, errno |-> 0]
  /\ convert_to_errno(-EINVAL) = Invalid
BY DEF convert_to_errno, EINVAL, Invalid

\* A task that has a tick has a millisecond.
LEMMA TicksInMs ==
  ASSUME NEW n \in Nat
  PROVE  hw2_ticks_to_ms(n) \in Nat /\ (n > 0 => hw2_ticks_to_ms(n) > 0)
<1>1. HZ \in Nat /\ HZ > 0 /\ HZ <= 1000
  BY QueryAssumption
<1> QED BY <1>1 DEF hw2_ticks_to_ms

\* What the three calls say of a task, by its record.
LEMMA Answers ==
  ASSUME IInv, NEW p \in Pid, Hashed(p)
  PROVE  /\ sys_sched_getscheduler(p) = PolicyNumber[task[p].policy]
         /\ ~ is_short(task[p]) => /\ is_SHORT(p) = Invalid /\ remaining_time(p) = Invalid
                                   /\ remaining_trials(p) = Invalid
         /\ is_short(task[p]) =>
              /\ is_SHORT(p).ret = (IF task[p].remaining_trials # 0 THEN 1 ELSE 0)
              /\ remaining_time(p).ret = hw2_ticks_to_ms(task[p].time_slice)
              /\ remaining_trials(p).ret = task[p].remaining_trials
<1>1. p \notin {Zero, Negative, NULLTask}
  BY QueryAssumption
<1>2. find_task_by_pid(p) = p /\ find_process_by_pid(p) = p
  BY <1>1 DEF find_task_by_pid, find_process_by_pid
<1>3. task[p].remaining_trials \in Nat /\ task[p].time_slice \in Nat
  BY Ticked DEF Ticking
<1>4. sys_sched_getscheduler(p) = PolicyNumber[task[p].policy]
  BY <1>1, <1>2 DEF sys_sched_getscheduler
<1>5. ASSUME ~ is_short(task[p])
      PROVE  is_SHORT(p) = Invalid /\ remaining_time(p) = Invalid /\ remaining_trials(p) = Invalid
  <2>1. /\ sys_is_SHORT(p) = -EINVAL /\ sys_remaining_time(p) = -EINVAL
        /\ sys_remaining_trials(p) = -EINVAL
    BY <1>1, <1>2, <1>5 DEF sys_is_SHORT, sys_remaining_time, sys_remaining_trials, OfShort
  <2> QED BY <2>1, Converted DEF is_SHORT, remaining_time, remaining_trials
<1>6. ASSUME is_short(task[p])
      PROVE  /\ is_SHORT(p).ret = (IF task[p].remaining_trials # 0 THEN 1 ELSE 0)
             /\ remaining_time(p).ret = hw2_ticks_to_ms(task[p].time_slice)
             /\ remaining_trials(p).ret = task[p].remaining_trials
  <2>1. /\ sys_is_SHORT(p) = IF task[p].remaining_trials # 0 THEN 1 ELSE 0
        /\ sys_remaining_time(p) = hw2_ticks_to_ms(task[p].time_slice)
        /\ sys_remaining_trials(p) = task[p].remaining_trials
    BY <1>1, <1>2, <1>6 DEF sys_is_SHORT, sys_remaining_time, sys_remaining_trials, OfShort
  <2>2. /\ sys_is_SHORT(p) \in Nat /\ sys_remaining_time(p) \in Nat
        /\ sys_remaining_trials(p) \in Nat
    BY <1>3, <2>1, TicksInMs
  <2> QED BY <2>1, <2>2, Converted DEF is_SHORT, remaining_time, remaining_trials
<1> QED BY <1>4, <1>5, <1>6

\* No two of the four calls contradict each other: whoever is told that it is SHORT has a
\* millisecond and a trial left, whoever is told that it is overdue has no trial, and of
\* any other task all three calls fail.
THEOREM SchedQueriesAgree ==
  ASSUME "setscheduler_other" \notin Calls \/ "SHORT" \notin NewPolicies
  PROVE  Spec => []QueriesAgree
<1>1. ASSUME IInv, TicksLeft
      PROVE  QueriesAgree
  <2>1. ASSUME NEW p \in Pid, Hashed(p)
        PROVE  \/ /\ is_SHORT(p) = Invalid /\ sys_sched_getscheduler(p) # PolicyNumber.SHORT
                  /\ remaining_time(p) = Invalid /\ remaining_trials(p) = Invalid
               \/ /\ is_SHORT(p).ret = 1 /\ sys_sched_getscheduler(p) = PolicyNumber.SHORT
                  /\ remaining_time(p).ret > 0 /\ remaining_trials(p).ret > 0
               \/ /\ is_SHORT(p).ret = 0 /\ sys_sched_getscheduler(p) = PolicyNumber.SHORT
                  /\ remaining_trials(p).ret = 0
    <3>1. task[p].policy \in Policies
      BY <1>1, Facts DEF TaskRecord
    <3>2. PolicyNumber[task[p].policy] = PolicyNumber.SHORT <=> is_short(task[p])
      BY <3>1 DEF PolicyNumber, Policies, is_short
    <3>3. Ticking(task[p]) /\ HasTicks(task[p])
      BY <1>1, <2>1, Ticked, TicksAre DEF Hashed
    <3>4. CASE ~ is_short(task[p])
      BY <1>1, <2>1, <3>2, <3>4, Answers
    <3>5. CASE is_short(task[p]) /\ task[p].remaining_trials = 0
      BY <1>1, <2>1, <3>2, <3>5, Answers
    <3>6. CASE is_short(task[p]) /\ task[p].remaining_trials # 0
      <4>1. task[p].time_slice \in Nat /\ task[p].time_slice > 0 /\ task[p].remaining_trials \in Nat
        BY <3>3, <3>6 DEF HasTicks, is_overdue, Ticking
      <4>2. is_SHORT(p).ret = 1 /\ remaining_time(p).ret = hw2_ticks_to_ms(task[p].time_slice)
            /\ remaining_trials(p).ret = task[p].remaining_trials
        BY <1>1, <2>1, <3>6, Answers
      <4>3. hw2_ticks_to_ms(task[p].time_slice) > 0
        BY <4>1, TicksInMs
      <4> QED BY <1>1, <2>1, <3>2, <3>6, <4>1, <4>2, <4>3, Answers
    <3> QED BY <3>4, <3>5, <3>6
  <2> QED BY <1>1, <2>1 DEF QueriesAgree
<1> QED BY <1>1, SchedInv, SchedTicksLeft, PTL

-----------------------------------------------------------------------------
(* Trials are not made.                                                    *)

\* The recursive function of MapThenSumSet.
TrialSum ==
  CHOOSE u : u = [T \in SUBSET Pid |->
                   IF T = {} THEN 0
                   ELSE TrialsOf(CHOOSE x \in T : TRUE) + u[T \ {CHOOSE x \in T : TRUE}]]
TrialsNow == [p \in Pid |-> TrialsOf(p)]

\* TotalTrials is the sum of the trials over Pid.
Totalled == \E u : Adds(TrialsNow, u) /\ TotalTrials = u[Pid]
LEMMA TotalIs == Totalled
<1> DEFINE Step(e, T) == IF T = {} THEN 0
                          ELSE TrialsOf(CHOOSE x \in T : TRUE) + e[T \ {CHOOSE x \in T : TRUE}]
           Is(e) == e = [T \in SUBSET Pid |-> Step(e, T)]
<1>1. \E u : Is(u)
  <2>1. PICK u : u = [T \in SUBSET Pid |-> More(TrialsNow, u, T)]
    BY SumsExist
  <2>2. ASSUME NEW T \in SUBSET Pid
        PROVE  u[T] = Step(u, T)
    <3>1. u[T] = More(TrialsNow, u, T)
      BY <2>1
    <3>2. T # {} => TrialsNow[Any(T)] = TrialsOf(Any(T))
      <4>1. \A x \in Pid : TrialsNow[x] = TrialsOf(x)
        BY DEF TrialsNow
      <4> QED BY <4>1, WithoutAny
    <3> QED BY <3>1, <3>2 DEF More, Any
  <2>3. u = [T \in SUBSET Pid |-> u[T]]
    BY <2>1
  <2> HIDE DEF Step
  <2> QED BY <2>2, <2>3
<1>2. Is(TrialSum)
  <2>1. TrialSum = CHOOSE u : Is(u)
    BY DEF TrialSum
  <2> HIDE DEF Is
  <2> QED BY <1>1, <2>1
<1>3. PICK u : u = TrialSum
  OBVIOUS
<1>4. Adds(TrialsNow, u)
  <2>1. u[{}] = 0
    BY <1>2, <1>3
  <2>2. ASSUME NEW T \in SUBSET Pid, T # {}
        PROVE  u[T] = TrialsNow[Any(T)] + u[T \ {Any(T)}]
    <3>1. u[T] = TrialsOf(Any(T)) + u[T \ {Any(T)}]
      BY <1>2, <1>3, <2>2 DEF Any
    <3>2. TrialsNow[Any(T)] = TrialsOf(Any(T))
      <4>1. \A x \in Pid : TrialsNow[x] = TrialsOf(x)
        BY DEF TrialsNow
      <4> QED BY <2>2, <4>1, WithoutAny
    <3> QED BY <3>1, <3>2
  <2> QED BY <2>1, <2>2 DEF Adds
<1>5. TotalTrials = TrialSum[Pid]
  BY DEF TotalTrials, MapThenSumSet, MapThenFoldSet, TrialSum
<1> QED BY <1>3, <1>4, <1>5 DEF Totalled

\* The trials are numbers.
TrialsTyped == IInv => (\A p \in Pid : Bearing(task[p])) /\ TrialsNow \in [Pid -> Nat]
LEMMA TrialsAreTyped == TrialsTyped
<1> SUFFICES ASSUME IInv PROVE (\A p \in Pid : Bearing(task[p])) /\ TrialsNow \in [Pid -> Nat]
  BY DEF TrialsTyped
<1>1. \A p \in Pid : TrialsOf(p) \in Nat
  BY Lived DEF TrialsOf, Bearing
<1> QED BY <1>1, Lived DEF TrialsNow

\* So what a step does to the trials of each task decides what it does to all of them.
LEMMA TotalStep ==
  ASSUME IInv, IInv',
         (\A x \in Pid : TrialsOf(x)' <= TrialsOf(x)) \/ \E p, c : Less(TrialsNow, TrialsNow', p, c)
  PROVE  ~ (TotalTrials' > TotalTrials)
<1>1. Totalled'
  BY TotalIs, PTL
<1>2. TrialsTyped'
  BY TrialsAreTyped, PTL
<1>3. TrialsNow \in [Pid -> Nat] /\ TrialsNow' \in [Pid -> Nat]
  BY <1>2, TrialsAreTyped DEF TrialsTyped
<1>4. (\A x \in Pid : TrialsNow'[x] <= TrialsNow[x]) \/ \E p, c : Less(TrialsNow, TrialsNow', p, c)
  <2>1. \A x \in Pid : TrialsNow[x] = TrialsOf(x) /\ TrialsNow'[x] = TrialsOf(x)'
    BY DEF TrialsNow
  <2> QED BY <2>1
<1>5. PICK u : Adds(TrialsNow, u) /\ TotalTrials = u[Pid]
  BY TotalIs DEF Totalled
<1>6. PICK v : Adds(TrialsNow', v) /\ TotalTrials' = v[Pid]
  BY <1>1 DEF Totalled, Adds
<1>7. PICK f, g : f = TrialsNow /\ g = TrialsNow'
  OBVIOUS
<1> QED BY <1>3, <1>4, <1>5, <1>6, <1>7, SumsLess

\* A step that lets nobody in.
KeepsOut(q) ==
  /\ pc'[q] \notin {"free", "copy"} => pc[q] \notin {"free", "copy"}
  /\ pc'[q] = "fork2" => pc[q] = "fork2" /\ kid'[q] = kid[q]
NoneCounted == \A x \in Pid : Counted(x)' => Counted(x)

LEMMA StaysCounted ==
  ASSUME \A q \in Pid : KeepsOut(q)
  PROVE  NoneCounted
<1> SUFFICES ASSUME NEW x \in Pid, Counted(x)' PROVE Counted(x)
  BY DEF NoneCounted
<1>1. CASE Hashed(x)'
  BY <1>1 DEF Counted, Hashed, KeepsOut
<1>2. CASE \E q \in Pid : pc'[q] = "fork2" /\ kid'[q] = x
  BY <1>2 DEF Counted, KeepsOut
<1> QED BY <1>1, <1>2 DEF Counted

\* One task that is there moves on.
LEMMA MovesCounted ==
  ASSUME IInv, NEW p \in Pid, pc[p] \notin {"free", "copy"}, NEW l, l # "fork2",
         pc' = [pc EXCEPT ![p] = l], \A q \in Pid \ {p} : kid'[q] = kid[q]
  PROVE  NoneCounted
<1>1. pc'[p] = l /\ \A q \in Pid \ {p} : pc'[q] = pc[q]
  BY DEF IInv, ProcTypes
<1> QED BY <1>1, StaysCounted DEF KeepsOut

\* The step of p and the copy or child c that comes or goes with it.
LEMMA PairCounted ==
  ASSUME IInv, NEW p \in Pid, pc[p] \notin {"free", "copy"}, NEW c \in Pid, c # p,
         NEW l, l # "fork2", NEW m, m \in {"free", "copy"},
         pc' = [pc EXCEPT ![p] = l, ![c] = m], \A q \in Pid \ {p} : kid'[q] = kid[q]
  PROVE  NoneCounted
<1>1. pc'[p] = l /\ pc'[c] = m /\ \A q \in Pid \ {p, c} : pc'[q] = pc[q]
  BY DEF IInv, ProcTypes
<1>2. \A q \in Pid : KeepsOut(q)
  BY <1>1 DEF KeepsOut
<1> QED BY <1>2, StaysCounted

\* Only where do_fork shares the trials does a task begin to count.
LEMMA NextCounted ==
  ASSUME IInv, Next, \A p \in Pid : ~ ForkSplit(p)
  PROVE  NoneCounted
<1>1. ASSUME pc' = pc, kid' = kid
      PROVE  NoneCounted
  BY <1>1, StaysCounted DEF KeepsOut
<1>2. CASE Tick \/ (\E p \in Pid : WakeUp(p)) \/ TailCheck \/ TailClear
  BY <1>1, <1>2 DEF Tick, WakeUp, TailCheck, TailClear, procVars
<1>3. CASE Schedule
  <2>1. kid' = kid /\ \A q \in Pid : pc'[q] = pc[q] \/ pc'[q] = After(pc[q]) \/ (pc'[q] = "run" /\ pc[q] = "new")
    BY <1>3 DEF Schedule, procVars
  <2>2. \A l : After(l) = l \/ (After(l) \notin {"free", "copy", "fork2"} /\ l \notin {"free", "copy", "fork2"})
    BY DEF After
  <2> QED BY <2>1, <2>2, StaysCounted DEF KeepsOut
<1>4. CASE \E p \in Pid : SysCall(p)
  <2>1. PICK p \in Pid : SysCall(p)
    BY <1>4
  <2>2. CASE Exec(p)
    BY <1>1, <2>2 DEF Exec
  <2>3. CASE \E c \in Pid, vfork \in BOOLEAN : ForkCopy(p, c, vfork)
    <3>1. PICK c \in Pid, vfork \in BOOLEAN : ForkCopy(p, c, vfork)
      BY <2>3
    <3>2. /\ pc[p] = "run" /\ pc[c] = "free" /\ c # p
          /\ pc' = [pc EXCEPT ![p] = "fork1", ![c] = "copy"] /\ kid' = [kid EXCEPT ![p] = c]
      BY <3>1 DEF ForkCopy, Call, At
    <3>3. \A q \in Pid \ {p} : kid'[q] = kid[q]
      BY <3>2 DEF IInv, ProcTypes
    <3> QED BY <3>2, <3>3, PairCounted
  <2>4. CASE ForkFail(p)
    <3>1. PICK c : c = kid[p]
      OBVIOUS
    <3>2. PICK l : l = IF task[p].need_resched THEN "ret" ELSE "run"
      OBVIOUS
    <3>3. /\ pc[p] = "fork1" /\ c \in Pid /\ c # p /\ l # "fork2"
          /\ pc' = [pc EXCEPT ![p] = l, ![c] = "free"] /\ kid' = [kid EXCEPT ![p] = None]
      BY <2>4, <3>1, <3>2 DEF ForkFail, At, IInv, Copied, Forking
    <3>4. \A q \in Pid \ {p} : kid'[q] = kid[q]
      BY <3>3 DEF IInv, ProcTypes
    <3> QED BY <3>3, <3>4, PairCounted
  <2>5. CASE Reap(p)
    <3>1. PICK l : l = IF task[p].need_resched THEN "ret" ELSE "run"
      OBVIOUS
    <3>2. PICK c \in Pid \ {p} : pc[p] = "scan" /\ kid' = kid /\ pc' = [pc EXCEPT ![p] = l, ![c] = "free"]
      BY <2>5, <3>1 DEF Reap, At, Zombies, Children
    <3> QED BY <3>1, <3>2, PairCounted
  <2>6. CASE ForkWake(p)
    <3>1. PICK c : c = kid[p]
      OBVIOUS
    <3>2. PICK l : l = IF vfork_done[c] # None THEN "vwait" ELSE "ret"
      OBVIOUS
    <3>3. /\ pc[p] = "fork2" /\ c \in Pid /\ c # p /\ l \in {"vwait", "ret"}
          /\ pc' = [pc EXCEPT ![p] = l, ![c] = "new"]
          /\ \E x : kid' = [kid EXCEPT ![p] = x]
      BY <2>6, <3>1, <3>2 DEF ForkWake, At, IInv, Copied, Forking
    <3>4. /\ pc'[p] = l /\ \A q \in Pid \ {p, c} : pc'[q] = pc[q]
          /\ pc'[c] = "new" /\ \A q \in Pid \ {p} : kid'[q] = kid[q]
      BY <3>3 DEF IInv, ProcTypes
    <3>5. Counted(c)
      BY <3>1, <3>3 DEF Counted
    <3>6. ASSUME NEW x \in Pid, x # c, Counted(x)'
          PROVE  Counted(x)
      BY <3>3, <3>4, <3>6 DEF Counted, Hashed
    <3> QED BY <3>5, <3>6 DEF NoneCounted
  <2>7. CASE ExitBegin(p) \/ ExitNotify(p)
    <3>1. /\ pc[p] \in {"run", "exit1"} /\ kid' = kid
          /\ \E l \in {"exit1", "dead"} : pc' = [pc EXCEPT ![p] = l]
      BY <2>7 DEF ExitBegin, ExitNotify, Call, At
    <3> QED BY <3>1, MovesCounted
  <2>8. CASE SetScheduler(p) \/ Nice(p) \/ WaitReturn(p)
    <3>1. pc[p] \in {"run", "scan"} /\ kid' = kid /\ \E l \in {"run", "ret"} : pc' = [pc EXCEPT ![p] = l]
      BY <2>8 DEF SetScheduler, Nice, WaitReturn, Call, At, Return, procVars
    <3> QED BY <3>1, MovesCounted
  <2>9. CASE VforkReturn(p)
    <3>1. /\ pc[p] = "vwait" /\ kid' = [kid EXCEPT ![p] = None]
          /\ \E l \in {"run", "ret"} : pc' = [pc EXCEPT ![p] = l]
      BY <2>9 DEF VforkReturn, At, Return
    <3>2. \A q \in Pid \ {p} : kid'[q] = kid[q]
      BY <3>1 DEF IInv, ProcTypes
    <3> QED BY <3>1, <3>2, MovesCounted
  <2>10. CASE Sleep(p) \/ Yield(p) \/ YieldShort(p) \/ ForkBlock(p) \/ VforkBlock(p)
              \/ ExitBlock(p) \/ WaitEnter(p) \/ WaitBlock(p)
    <3>1. /\ pc[p] \in {"run", "fork1", "vwait", "exit1", "wait", "scan"} /\ kid' = kid
          /\ \E l \in {"block", "yield", "hang", "fblock", "vblock", "eblock", "scan", "wblock"} :
               pc' = [pc EXCEPT ![p] = l]
      BY <2>10 DEF Sleep, Yield, YieldShort, ForkBlock, VforkBlock, ExitBlock, WaitEnter, WaitBlock,
                   Call, At, procVars
    <3> QED BY <3>1, MovesCounted
  <2> QED BY <2>1, <2>2, <2>3, <2>4, <2>5, <2>6, <2>7, <2>8, <2>9, <2>10 DEF SysCall
<1> QED BY <1>2, <1>3, <1>4 DEF Next

\* A step after which nobody new counts takes trials, if it makes nobody SHORT.
LEMMA KeepsLess ==
  ASSUME IInv, IInv', LiveOn, NoneCounted,
         \A p \in Pid : is_short(task'[p]) => is_short(task[p])
  PROVE  ~ (TotalTrials' > TotalTrials)
<1>1. ASSUME NEW x \in Pid
      PROVE  TrialsOf(x)' <= TrialsOf(x)
  <2>1. Bearing(task[x])
    BY Lived
  <2>2. CASE ~ (is_short(task'[x]) /\ Counted(x)')
    BY <2>1, <2>2 DEF TrialsOf, Bearing
  <2>3. CASE is_short(task'[x]) /\ Counted(x)'
    <3>1. pc'[x] # "free"
      <4>1. CASE Hashed(x)'
        BY <4>1 DEF Hashed
      <4>2. CASE \E q \in Pid : pc'[q] = "fork2" /\ kid'[q] = x
        BY <4>2 DEF IInv, Copied, Forking
      <4> QED BY <2>3, <4>1, <4>2 DEF Counted
    <3>2. is_short(task[x]) /\ task'[x].remaining_trials <= task[x].remaining_trials
      BY <2>3, <3>1 DEF LiveOn
    <3>3. Counted(x)
      BY <2>3 DEF NoneCounted
    <3>4. TrialsOf(x)' = task'[x].remaining_trials
      BY <2>3 DEF TrialsOf
    <3> QED BY <3>2, <3>3, <3>4 DEF TrialsOf
  <2> QED BY <2>2, <2>3
<1> QED BY <1>1, TotalStep

\* What do_fork shares was counted as the parent's.
LEMMA ForkSplitLess ==
  ASSUME IInv, IInv', Inherited, LiveOn, NEW p \in Pid, ForkSplit(p),
         \A q \in Pid : is_short(task'[q]) => is_short(task[q])
  PROVE  ~ (TotalTrials' > TotalTrials)
<1>1. PICK c : c = kid[p]
  OBVIOUS
<1>2. pc[p] = "fork1" /\ p = curr /\ c \in Pid /\ c # p /\ pc[c] = "copy"
  BY <1>1 DEF ForkSplit, At, IInv, Copied, Forking
<1>3. PICK prio, stay : Become(SplitSlice(K, p, c, prio, stay))
  BY <1>1 DEF ForkSplit
<1>4. /\ pc'[p] = "fork2" /\ kid' = kid
      /\ \A q \in Pid \ {p} : pc'[q] = pc[q]
  BY <1>2 DEF ForkSplit, IInv, ProcTypes, procVars
<1>5. \A x \in Pid : Bearing(task[x]) /\ Bearing(task'[x])
  <2>1. TrialsTyped'
    BY TrialsAreTyped, PTL
  <2> QED BY <2>1, TrialsAreTyped DEF TrialsTyped, Bearing
<1>6. ASSUME NEW x \in Pid
      PROVE  /\ TrialsOf(x) \in Nat /\ TrialsOf(x)' \in Nat
             /\ TrialsOf(x)' <= task'[x].remaining_trials
             /\ (~ is_short(task[x]) => TrialsOf(x)' = 0)
  BY <1>5 DEF TrialsOf, Bearing
<1>7. ASSUME NEW x \in Pid, x # c
      PROVE  TrialsOf(x)' <= TrialsOf(x)
  <2>1. CASE is_short(task[x]) /\ Counted(x)'
    <3>1. Counted(x)
      BY <1>1, <1>2, <1>4, <1>7, <2>1 DEF Counted, Hashed
    <3>2. pc'[x] # "free"
      BY <1>2, <1>4, <3>1 DEF Counted, Hashed, IInv, Copied, Forking
    <3>3. task'[x].remaining_trials <= task[x].remaining_trials
      BY <2>1, <3>2 DEF LiveOn
    <3>4. TrialsOf(x) = task[x].remaining_trials
      BY <2>1, <3>1 DEF TrialsOf
    <3>5. task[x].remaining_trials \in Nat /\ task'[x].remaining_trials \in Nat
      BY <1>5 DEF Bearing
    <3> QED BY <1>6, <3>3, <3>4, <3>5
  <2>2. CASE ~ (is_short(task[x]) /\ Counted(x)')
    <3>1. TrialsOf(x)' = 0
      BY <2>2 DEF TrialsOf
    <3> QED BY <1>6, <3>1
  <2> QED BY <2>1, <2>2
<1>8. CASE ~ is_short(task[p])
  <2>1. ~ is_short(task[c])
    BY <1>1, <1>2, <1>8 DEF Inherited, CopyHolds
  <2>2. TrialsOf(c)' <= TrialsOf(c)
    BY <1>2, <1>6, <2>1
  <2> QED BY <1>7, <2>2, TotalStep
<1>9. CASE is_short(task[p])
  <2>1. ~ rt_task(task[p]) /\ p # Idle /\ p \in Task /\ c \in Task
    BY <1>2, <1>9, Facts, PidAssumption DEF Proper, is_short, Task
  <2>2. PICK k : k = SplitSlice(K, p, c, prio, stay)
    OBVIOUS
  <2>3. k.task[p].remaining_trials + k.task[c].remaining_trials <= K.task[p].remaining_trials
    BY <1>2, <1>9, <2>1, <2>2, Lived, SplitConserves
  <2>4. task'[p].remaining_trials + task'[c].remaining_trials <= task[p].remaining_trials
    BY <1>2, <1>3, <2>2, <2>3, Lived DEF Become
  <2>5. TrialsOf(p) = task[p].remaining_trials
    BY <1>2, <1>9 DEF TrialsOf, Counted, Hashed
  <2>6. TrialsOf(p)' + TrialsOf(c)' <= TrialsOf(p) + TrialsOf(c)
    <3>1. /\ TrialsOf(p) \in Nat /\ TrialsOf(p)' \in Nat /\ TrialsOf(p)' <= task'[p].remaining_trials
          /\ TrialsOf(c) \in Nat /\ TrialsOf(c)' \in Nat /\ TrialsOf(c)' <= task'[c].remaining_trials
          /\ task'[p].remaining_trials \in Nat /\ task'[c].remaining_trials \in Nat
      BY <1>2, <1>5, <1>6 DEF Bearing
    <3> QED BY <2>4, <2>5, <3>1
  <2>7. \A x \in Pid : TrialsNow[x] = TrialsOf(x) /\ TrialsNow'[x] = TrialsOf(x)'
    BY DEF TrialsNow
  <2>8. Less(TrialsNow, TrialsNow', p, c)
    BY <1>2, <1>7, <2>6, <2>7 DEF Less
  <2> QED BY <2>8, TotalStep
<1> QED BY <1>8, <1>9

\* The step of TrialsOnlyShrink.
FromPolicy ==
  TotalTrials' > TotalTrials => \E p \in Pid : ~ is_short(task[p]) /\ is_short(task'[p])

\* Trials come from setscheduler alone: taken over all tasks they never grow, unless a task
\* becomes SHORT; the child of a SHORT task has its trials from its parent, who loses them,
\* its last one included.
THEOREM SchedTrialsOnlyShrink == Spec => TrialsOnlyShrink
<1>1. Init => IInv /\ Inherited
  BY InitIInv, InitInherited
<1>2. IInv /\ Inherited /\ [Next]_vars => (IInv /\ Inherited)'
  BY NextIInv, NextInherited
<1>3. ASSUME IInv, Inherited, Next
      PROVE  FromPolicy
  <2> SUFFICES ASSUME \A p \in Pid : is_short(task'[p]) => is_short(task[p])
               PROVE  ~ (TotalTrials' > TotalTrials)
    BY DEF FromPolicy
  <2>1. LiveOn /\ IInv'
    BY <1>2, <1>3, NextLives
  <2>2. CASE \E p \in Pid : ForkSplit(p)
    BY <1>3, <2>1, <2>2, ForkSplitLess
  <2>3. CASE \A p \in Pid : ~ ForkSplit(p)
    BY <1>3, <2>1, <2>3, NextCounted, KeepsLess
  <2> QED BY <2>2, <2>3
<1>4. IInv /\ Inherited /\ [Next]_vars => [FromPolicy]_vars
  BY <1>3
<1>5. Spec => [][FromPolicy]_vars
  BY <1>1, <1>2, <1>4, PTL DEF Spec
<1> QED BY <1>5 DEF TrialsOnlyShrink, FromPolicy
=============================================================================
