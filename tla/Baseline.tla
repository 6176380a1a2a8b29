------------------------------ MODULE Baseline ------------------------------
(***************************************************************************)
(* The kernel the patch starts from: kernel_files/backup, one CPU.  Its    *)
(* scheduler knows real-time and OTHER tasks and two arrays.  A bitmap and *)
(* nr_active say only which lists are empty, so they are left out, and the *)
(* counters of sleepers with them.  Module SchedBaseline shows that the    *)
(* patched scheduler without SHORT tasks is still this one.                *)
(*                                                                         *)
(* A task may call schedule() wherever it is in the kernel.  sleep_avg and *)
(* jiffies are abstracted as in RunQueue: effective_prio may return any    *)
(* priority that a bonus gives, and stay says whether an OTHER task whose  *)
(* slice ends is interactive and the expired tasks are not starving.       *)
(*                                                                         *)
(* state is "COPY" in a task_struct do_fork has copied, "SPLIT" when the   *)
(* slices are shared, and "FREE" in one that is not in use.                *)
(***************************************************************************)
EXTENDS Integers, Sequences

CONSTANTS
  Pid, Idle, None,
  Boot,              \* the tasks on the active array at the start
  MAX_USER_RT_PRIO, MAX_PRIO, DEF_PRIO,
  MIN_TIMESLICE, MAX_TIMESLICE,
  Bonus, Interactive,
  NewPolicies, NicePrios,
  BaseCalls          \* the operations of this workload

BaselineAssumption ==
  /\ MAX_USER_RT_PRIO \in Nat /\ MAX_PRIO \in Nat /\ MAX_PRIO > MAX_USER_RT_PRIO + 1
  /\ DEF_PRIO \in MAX_USER_RT_PRIO .. MAX_PRIO - 1
  /\ MIN_TIMESLICE \in Nat \ {0} /\ MAX_TIMESLICE \in Nat /\ MAX_TIMESLICE >= MIN_TIMESLICE
  /\ 0 \in Bonus /\ Bonus \subseteq Int

VARIABLES
  active,  \* which of the two arrays rq->active points at
  queue,   \* queue[<<a, i>>] = arrays[a].queue[i]
  curr, task,
  kid      \* the copy a task is making in do_fork

vars == <<active, queue, curr, task, kid>>

NULL == 3
MAX_RT_PRIO == MAX_USER_RT_PRIO
Prio == 0 .. MAX_PRIO - 1
K == [active |-> active, queue |-> queue, curr |-> curr, task |-> task]
Become(k) == active' = k.active /\ queue' = k.queue /\ curr' = k.curr /\ task' = k.task

rt_task(t) == t.prio < MAX_RT_PRIO

TASK_TIMESLICE(t) ==
  MIN_TIMESLICE + ((MAX_TIMESLICE - MIN_TIMESLICE) * (MAX_PRIO - 1 - t.static_prio))
                    \div (MAX_PRIO - 1 - MAX_RT_PRIO)

Clamped(n) == IF n < MAX_RT_PRIO THEN MAX_RT_PRIO ELSE IF n >= MAX_PRIO THEN MAX_PRIO - 1 ELSE n
effective_prio(t) == {Clamped(t.static_prio - b) : b \in Bonus}
ActivationPrios(t) == IF rt_task(t) THEN {t.prio} ELSE {t.prio} \cup effective_prio(t)

-----------------------------------------------------------------------------
\* s without its element p.
Remove(s, p) ==
  IF \E i \in 1 .. Len(s) : s[i] = p
  THEN LET i == CHOOSE i \in 1 .. Len(s) : s[i] = p
       IN [j \in 1 .. Len(s) - 1 |-> IF j < i THEN s[j] ELSE s[j + 1]]
  ELSE s

dequeue_task(k, p, a) == [k EXCEPT !.queue[<<a, k.task[p].prio>>] = Remove(@, p)]
enqueue_task(k, p, a) ==
  [k EXCEPT !.queue[<<a, k.task[p].prio>>] = Append(@, p), !.task[p].array = a]

activate_task(k, p, prio) == enqueue_task([k EXCEPT !.task[p].prio = prio], p, k.active)

\* A mistake: the task still looks queued.
deactivate_task_array(k, p) == dequeue_task(k, p, k.task[p].array)
deactivate_task(k, p) == [dequeue_task(k, p, k.task[p].array) EXCEPT !.task[p].array = NULL]

resched_task(k) == [k EXCEPT !.task[k.curr].need_resched = TRUE]

try_to_wake_up(k, p, prio) ==
  LET k1 == activate_task(k, p, prio)
      k2 == IF k1.task[p].prio < k1.task[k.curr].prio THEN resched_task(k1) ELSE k1
  IN [(IF k.task[p].array = NULL THEN k2 ELSE k) EXCEPT !.task[p].state = "RUNNING"]

\* A mistake: the expired task goes back to the array it is in.
Expired_active(k, stay) == k.active
Expired(k, stay) == IF stay THEN k.active ELSE 1 - k.active

\* The slice of the current task p is used up.
EndOfSlice(k, p, prio, a) ==
  enqueue_task(resched_task([dequeue_task(k, p, k.active) EXCEPT
                               !.task[p].prio = prio,
                               !.task[p].first_time_slice = FALSE,
                               !.task[p].time_slice = TASK_TIMESLICE(k.task[p])]), p, a)

scheduler_tick(k, prio, stay) ==
  LET p == k.curr
      t == k.task[p]
  IN IF p = Idle THEN k
     ELSE IF t.array # k.active THEN resched_task(k)
     ELSE IF rt_task(t) /\ t.policy # "RR" THEN k
     ELSE IF t.time_slice # 1 THEN [k EXCEPT !.task[p].time_slice = @ - 1]
     ELSE IF rt_task(t) THEN EndOfSlice(k, p, t.prio, k.active)
     ELSE EndOfSlice(k, p, prio, Expired(k, stay))

\* The lists of an array that are not empty.
Bits(k, a) == {i \in Prio : k.queue[<<a, i>>] # <<>>}
FirstBit(k, a) == CHOOSE i \in Bits(k, a) : \A j \in Bits(k, a) : i <= j

PutPrev(k, sig) ==
  LET s == k.task[k.curr].state
  IN IF s = "RUNNING" THEN k
     ELSE IF s = "INTERRUPTIBLE" /\ sig THEN [k EXCEPT !.task[k.curr].state = "RUNNING"]
     ELSE deactivate_task(k, k.curr)

SwapArrays(k) == IF Bits(k, k.active) = {} THEN [k EXCEPT !.active = 1 - @] ELSE k

schedule(k, sig) ==
  LET k1   == PutPrev(k, sig)
      k2   == SwapArrays(k1)
      k3   == IF Bits(k1, 0) \cup Bits(k1, 1) = {} THEN [k1 EXCEPT !.curr = Idle]
              ELSE IF Bits(k2, k2.active) = {} THEN k2
              ELSE [k2 EXCEPT !.curr = Head(k2.queue[<<k2.active, FirstBit(k2, k2.active)>>])]
  IN [k3 EXCEPT !.task[k.curr].need_resched = FALSE]

-----------------------------------------------------------------------------
BlankTask ==
  [policy |-> "OTHER", prio |-> DEF_PRIO, static_prio |-> DEF_PRIO, state |-> "FREE",
   time_slice |-> 0, first_time_slice |-> FALSE, array |-> NULL, need_resched |-> FALSE]

Init ==
  /\ active = 0
  /\ queue = [h \in (0 .. 1) \X Prio |-> IF h = <<0, DEF_PRIO>> THEN Boot ELSE <<>>]
  /\ curr = Boot[1]
  /\ task = [p \in Pid \cup {Idle} |->
               IF p = Idle THEN [BlankTask EXCEPT !.prio = MAX_PRIO, !.state = "RUNNING"]
               ELSE IF \E i \in 1 .. Len(Boot) : Boot[i] = p
                    THEN [BlankTask EXCEPT !.state = "RUNNING", !.array = 0,
                                           !.time_slice = TASK_TIMESLICE(BlankTask)]
                    ELSE BlankTask]
  /\ kid = [p \in Pid |-> None]

Tick ==
  /\ \E prio \in effective_prio(task[curr]), stay \in Interactive :
       Become(scheduler_tick(K, prio, stay))
  /\ UNCHANGED kid

Asleep(p) == task[p].state \in {"INTERRUPTIBLE", "UNINTERRUPTIBLE"}

WakeUp(p) ==
  /\ Asleep(p)
  /\ \E prio \in ActivationPrios(task[p]) : Become(try_to_wake_up(K, p, prio))
  /\ UNCHANGED kid

Schedule == \E sig \in BOOLEAN : Become(schedule(K, sig)) /\ UNCHANGED kid

-----------------------------------------------------------------------------
(* System calls of the current task.                                       *)

Call(c) == c \in BaseCalls /\ curr # Idle /\ task[curr].state = "RUNNING"
Hashed(q) == task[q].state \notin {"COPY", "SPLIT", "FREE"}

Sleep ==
  /\ Call("sleep")
  /\ \E s \in {"INTERRUPTIBLE", "UNINTERRUPTIBLE"} : task' = [task EXCEPT ![curr].state = s]
  /\ UNCHANGED <<active, queue, curr, kid>>

\* sched_setparam leaves the policy as it is.
KEEP == "KEEP"
NewPolicy(t, policy) == IF policy = KEEP THEN t.policy ELSE policy

WithPolicy(t, policy, rt_priority) ==
  [t EXCEPT !.policy = policy, !.array = NULL,
            !.prio = IF policy = "OTHER" THEN t.static_prio
                     ELSE MAX_USER_RT_PRIO - 1 - rt_priority]

\* setscheduler, for the policies and real-time priorities it lets pass.
setscheduler(q, policy, rt_priority) ==
  LET kept == NewPolicy(task[q], policy)
      new  == WithPolicy(task[q], kept, rt_priority)
  IN /\ Call("setscheduler") /\ Hashed(q)
     /\ (kept = "OTHER") = (rt_priority = 0)
     /\ IF task[q].array = NULL THEN task' = [task EXCEPT ![q] = new] /\ UNCHANGED <<active, queue, curr>>
        ELSE \E prio \in ActivationPrios(new) :
               Become(activate_task([deactivate_task(K, q) EXCEPT !.task[q] = new], q, prio))
     /\ UNCHANGED kid

\* set_user_nice(q, nice) with prio = NICE_TO_PRIO(nice).  Its test of the new priority
\* compares it with the static_prio that has just become the same.
set_user_nice(q, prio) ==
  LET t   == task[q]
      new == [t EXCEPT !.static_prio = prio, !.prio = prio]
      k   == enqueue_task([dequeue_task(K, q, t.array) EXCEPT !.task[q] = new], q, t.array)
  IN /\ Call("nice") /\ Hashed(q) /\ t.static_prio # prio
     /\ IF rt_task(t) THEN Become([K EXCEPT !.task[q].static_prio = prio])
        ELSE IF t.array = NULL THEN Become([K EXCEPT !.task[q] = new])
        ELSE Become(IF q = curr THEN resched_task(k) ELSE k)
     /\ UNCHANGED kid

\* Where a task that yields goes: second in its list, or at the head of the next one that
\* is not empty.
Behind(s, p) == IF s = <<>> THEN <<p>> ELSE <<Head(s), p>> \o Tail(s)
YieldAt(b, p) ==
  LET t == b.task[p]
      k == dequeue_task(b, p, t.array)
  IN IF Bits(k, t.array) = {} \/ k.queue[<<t.array, t.prio>>] # <<>> THEN t.prio
     ELSE IF FirstBit(k, t.array) < t.prio THEN t.prio ELSE FirstBit(k, t.array)

YieldPlace(b, p) ==
  LET t == b.task[p]
      k == dequeue_task(b, p, t.array)
  IN IF rt_task(t) THEN enqueue_task(k, p, t.array)
     ELSE [k EXCEPT !.queue[<<t.array, YieldAt(b, p)>>] = Behind(@, p),
                    !.task[p].prio = YieldAt(b, p)]

sys_sched_yield == Call("yield") /\ Become(YieldPlace(K, curr)) /\ UNCHANGED kid

-----------------------------------------------------------------------------
(* do_fork, exit and release_task.                                         *)

ForkCopy(c) ==
  /\ Call("fork") /\ kid[curr] = None /\ task[c].state = "FREE"
  /\ task' = [task EXCEPT ![c] = [task[curr] EXCEPT !.state = "COPY", !.array = NULL]]
  /\ kid' = [kid EXCEPT ![curr] = c]
  /\ UNCHANGED <<active, queue, curr>>

ForkFail ==
  /\ Call("fork") /\ kid[curr] # None /\ task[kid[curr]].state = "COPY"
  /\ task' = [task EXCEPT ![kid[curr]] = BlankTask]
  /\ kid' = [kid EXCEPT ![curr] = None]
  /\ UNCHANGED <<active, queue, curr>>

\* A mistake: a parent whose last tick went to the child goes on without a slice.
SplitSlice_zero(k, p, c, prio, stay) ==
  [k EXCEPT !.task[c].time_slice = (k.task[p].time_slice + 1) \div 2,
            !.task[c].first_time_slice = TRUE, !.task[c].state = "SPLIT",
            !.task[p].time_slice = @ \div 2]

\* The child gets the larger half.  A parent left with none lets the tick expire it.
SplitSlice(k, p, c, prio, stay) ==
  LET n  == k.task[p].time_slice
      k1 == [k EXCEPT !.task[c] = [@ EXCEPT !.time_slice = (n + 1) \div 2,
                                            !.first_time_slice = TRUE, !.state = "SPLIT"],
                      !.task[p].time_slice = IF n = 1 THEN 1 ELSE n \div 2]
  IN IF n = 1 THEN scheduler_tick(k1, prio, stay) ELSE k1

ForkSplit ==
  /\ Call("fork") /\ kid[curr] # None /\ task[kid[curr]].state = "COPY"
  /\ \E prio \in effective_prio(task[curr]), stay \in Interactive :
       Become(SplitSlice(K, curr, kid[curr], prio, stay))
  /\ UNCHANGED kid

\* wake_up_forked_process; the parent of a vfork goes on to wait for its child.
ForkWake(vfork) ==
  LET c == kid[curr]
      t == task[c]
  IN /\ Call("fork") /\ c # None /\ t.state = "SPLIT"
     /\ \E prio \in IF rt_task(t) THEN {t.prio} ELSE effective_prio(t) :
          LET k == activate_task([K EXCEPT !.task[c].state = "RUNNING"], c, prio)
          IN Become(IF vfork THEN k ELSE resched_task(k))
     /\ kid' = [kid EXCEPT ![curr] = None]

\* exit_notify may wake a parent that waits, and process 1.
Woken(k, q, prio) == IF q = None THEN k ELSE try_to_wake_up(k, q, prio)
MayWake(q) == IF q = None THEN {0} ELSE ActivationPrios(task[q])

Exit ==
  /\ Call("exit") /\ curr # Boot[1]
  /\ \E orphans \in SUBSET {c \in Pid : Hashed(c)}, q, r \in {p \in Pid : Asleep(p)} \cup {None} :
     \E prio \in MayWake(q), prio2 \in MayWake(r) :
       LET k == Woken(Woken([K EXCEPT !.task[curr].state = "ZOMBIE"], q, prio), r, prio2)
       IN Become([k EXCEPT !.task = [p \in DOMAIN task |->
                    IF p \in orphans THEN [k.task[p] EXCEPT !.first_time_slice = FALSE]
                    ELSE k.task[p]]])
  /\ UNCHANGED kid

\* A mistake: the sum is not bounded.
sched_exit_unbounded(t, n) == IF t.first_time_slice THEN n + t.time_slice ELSE n

\* sched_exit: what is left of a first slice goes back to the parent.
sched_exit(t, n) ==
  IF ~ t.first_time_slice THEN n
  ELSE IF n + t.time_slice > MAX_TIMESLICE THEN MAX_TIMESLICE ELSE n + t.time_slice

Reap(c) ==
  /\ "exit" \in BaseCalls /\ curr # Idle /\ task[curr].state \in {"RUNNING", "INTERRUPTIBLE"}
  /\ task[c].state = "ZOMBIE" /\ task[c].array = NULL
  /\ task' = [task EXCEPT ![c] = BlankTask,
                          ![curr] = [task[curr] EXCEPT !.state = "RUNNING",
                                       !.time_slice = sched_exit(task[c], task[curr].time_slice)]]
  /\ UNCHANGED <<active, queue, curr, kid>>

-----------------------------------------------------------------------------
SysCall ==
  \/ Sleep \/ sys_sched_yield
  \/ \E q \in Pid : \/ \E policy \in NewPolicies, n \in 0 .. MAX_USER_RT_PRIO - 1 :
                         setscheduler(q, policy, n)
                    \/ \E prio \in NicePrios : set_user_nice(q, prio)
                    \/ ForkCopy(q) \/ Reap(q)
  \/ ForkFail \/ ForkSplit \/ (\E vfork \in BOOLEAN : ForkWake(vfork))
  \/ Exit

Next == Tick \/ (\E p \in Pid : WakeUp(p)) \/ Schedule \/ SysCall
Spec == Init /\ [][Next]_vars

\* Timer interrupts keep coming, and whoever must give up the CPU gets to schedule().
Fairness == /\ WF_vars(Tick)
            /\ WF_vars(Schedule /\ (task[curr].need_resched \/ task[curr].state # "RUNNING"))
FairSpec == Spec /\ Fairness

-----------------------------------------------------------------------------
Places == UNION {{h} \X (1 .. Len(queue[h])) : h \in DOMAIN queue}
Lists(p) == {x \in Places : queue[x[1]][x[2]] = p}

TypeOK ==
  /\ active \in 0 .. 1 /\ curr \in Pid \cup {Idle} /\ kid \in [Pid -> Pid \cup {None}]
  /\ \A h \in DOMAIN queue : queue[h] \in Seq(Pid)
  /\ \A p \in Pid : /\ task[p].prio \in Prio /\ task[p].static_prio \in MAX_RT_PRIO .. MAX_PRIO - 1
                    /\ task[p].time_slice \in 0 .. MAX_TIMESLICE
                    /\ task[p].array \in {0, 1, NULL}

\* A task that can run, or is running until schedule() takes it away, is on one list only,
\* the one its array and prio name; the others are on none, however it got there.
OneList ==
  \A p \in Pid :
    /\ task[p].state = "RUNNING" \/ p = curr => task[p].array # NULL
    /\ IF task[p].array = NULL THEN Lists(p) = {}
       ELSE \E i \in 1 .. Len(queue[<<task[p].array, task[p].prio>>]) :
              Lists(p) = {<<<<task[p].array, task[p].prio>>, i>>}

\* do_fork never meets the BUG() for a task without a slice, which dividing and recovering
\* slices could lead to.
NoForkBug == \A p \in Pid : task[p].state \notin {"FREE", "COPY"} => task[p].time_slice > 0

\* A task that can run is served again and again.
Served(p) == curr = p \/ task[p].state # "RUNNING"
EveryoneRuns == \A p \in Pid : []<>Served(p)

=============================================================================
