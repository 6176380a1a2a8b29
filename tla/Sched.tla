------------------------------- MODULE Sched --------------------------------
(***************************************************************************)
(* One CPU running tasks of the patched kernel.  A task executes system    *)
(* calls (sched_setscheduler, nice, sched_yield, fork, vfork, exit, wait4, *)
(* a call that blocks); timer interrupts and wake-ups by interrupts come   *)
(* between any two steps in which interrupts are on; schedule() switches.  *)
(* The kernel is not preemptible: a task loses the CPU only in schedule(). *)
(*                                                                         *)
(* pc[p] is where task p is:                                               *)
(*   run     in user mode, or in a system call before its first effect     *)
(*   ret     leaving a system call with need_resched set                   *)
(*   block, fblock, eblock, vblock, wblock, yield                          *)
(*           at a call of schedule(): in a blocking call, in do_fork, in   *)
(*           do_exit, in wait_for_completion, in sys_wait4, in sched_yield *)
(*   fork1   in do_fork after *p = *current                                *)
(*   fork2   in do_fork after the slices are shared                        *)
(*   vwait   in do_fork, waiting for the vfork child                       *)
(*   exit1   in do_exit before exit_notify;  dead: after it                *)
(*   wait    at the label repeat of sys_wait4;  scan: before its loop      *)
(*   hang    in the endless loop of a SHORT task that yields               *)
(*   copy    a task_struct do_fork is filling;  new: woken, never run      *)
(*   free    no task_struct                                                *)
(* tail and last are the end of schedule(), run by the task switched to:   *)
(* tail = "check" before its need_resched test, "clear" before it resets   *)
(* the switch_reason of last, the task it was switched from.               *)
(***************************************************************************)
EXTENDS Scheduler

CONSTANTS
  None,          \* no task
  InitTask,      \* process 1, which never exits and inherits orphans
  Boot,          \* the sequence of tasks on the active array at the start
  DEF_PRIO,      \* NICE_TO_PRIO(0)
  LOG_SWITCHES,  \* how many switches hw2_start_logging asks for
  Calls,         \* the system calls this workload makes
  NewPolicies,   \* the policy arguments of its sched_setscheduler calls
  Requests,      \* their requested_time arguments
  Trials,        \* their trial_num arguments
  NicePrios,     \* the priorities its nice calls ask for
  Signals,       \* whether schedule() may find a signal pending
  Interactive    \* whether a task may be interactive at the end of its slice

AllCalls == {"sleep", "setscheduler", "setscheduler_other", "nice", "nice_other",
             "yield", "yield_short", "fork", "fork_block", "fork_fail", "vfork", "exit", "exit_block",
             "wait"}

ASSUME SchedAssumption ==
  /\ None \notin Task /\ InitTask \in Pid
  /\ Boot \in Seq(Pid) /\ \A i, j \in 1 .. Len(Boot) : Boot[i] = Boot[j] => i = j
  /\ Len(Boot) > 0 /\ Boot[1] = InitTask
  /\ DEF_PRIO \in UserPrio /\ LOG_SWITCHES \in Nat
  /\ Calls \subseteq AllCalls
  /\ NewPolicies \subseteq Policies \cup {KEEP}
  /\ Requests \subseteq 1 .. 5000 /\ Trials \subseteq 1 .. 50
  /\ NicePrios \subseteq UserPrio
  /\ Signals \subseteq BOOLEAN /\ Signals # {}
  /\ Interactive \subseteq BOOLEAN /\ Interactive # {}

VARIABLES
  active, nr_active, bitmap, queue, overdue, nr_running, nr_uninterruptible, curr, task,
  pc, kid, parent, vfork_done, tail, last, remaining_switches

rqVars == <<active, nr_active, bitmap, queue, overdue, nr_running, nr_uninterruptible,
            curr, task>>
procVars == <<kid, parent, vfork_done>>
cpuVars == <<tail, last>>
vars == <<rqVars, pc, procVars, cpuVars, remaining_switches>>

K == [active |-> active, nr_active |-> nr_active, bitmap |-> bitmap, queue |-> queue,
      overdue |-> overdue, nr_running |-> nr_running,
      nr_uninterruptible |-> nr_uninterruptible, curr |-> curr, task |-> task]

Become(k) ==
  /\ active' = k.active /\ nr_active' = k.nr_active /\ bitmap' = k.bitmap
  /\ queue' = k.queue /\ overdue' = k.overdue /\ nr_running' = k.nr_running
  /\ nr_uninterruptible' = k.nr_uninterruptible /\ curr' = k.curr /\ task' = k.task

-----------------------------------------------------------------------------
BlankTask ==
  [policy |-> "OTHER", prio |-> DEF_PRIO, static_prio |-> DEF_PRIO, state |-> "RUNNING",
   time_slice |-> 0, first_time_slice |-> FALSE, remaining_trials |-> 0,
   current_trial |-> 0, requested_time |-> 0, array |-> NULL, queued |-> FALSE,
   need_resched |-> FALSE, reason |-> UNKNOWN]

BootTask == [BlankTask EXCEPT !.time_slice = TASK_TIMESLICE(BlankTask), !.array = 0,
                              !.queued = TRUE]

Booted == {Boot[i] : i \in 1 .. Len(Boot)}

Init ==
  /\ active = 0
  /\ queue = [h \in ArrayId \X Prio |-> IF h = <<0, DEF_PRIO>> THEN Boot ELSE <<>>]
  /\ nr_active = [a \in ArrayId |-> IF a = 0 THEN Len(Boot) ELSE 0]
  /\ bitmap = {<<0, DEF_PRIO>>}
  /\ overdue = <<>>
  /\ nr_running = Len(Boot) /\ nr_uninterruptible = 0
  /\ curr = InitTask
  /\ task = [p \in Task |-> IF p \in Booted THEN BootTask
                            ELSE IF p = Idle THEN [BlankTask EXCEPT !.prio = MAX_PRIO]
                            ELSE BlankTask]
  /\ pc = [p \in Pid |-> IF p \in Booted THEN "run" ELSE "free"]
  /\ kid = [p \in Pid |-> None]
  /\ parent = [p \in Pid |-> IF p \in Booted THEN InitTask ELSE None]
  /\ vfork_done = [p \in Pid |-> None]
  /\ tail = "none" /\ last = None
  /\ remaining_switches = 0

-----------------------------------------------------------------------------
(* Interrupts.                                                             *)

\* sched_yield enters schedule() with interrupts off.
IrqsOn == ~ (tail = "none" /\ curr \in Pid /\ pc[curr] = "yield")

Tick ==
  /\ IrqsOn
  /\ \E prio \in effective_prio(task[curr]), stay \in Interactive :
       Become(scheduler_tick(K, prio, stay))
  /\ UNCHANGED <<pc, procVars, cpuVars, remaining_switches>>

\* What p waits for arrives.  A vfork parent is woken by its child alone.
WakeUp(p) ==
  /\ IrqsOn
  /\ task[p].state \in {"INTERRUPTIBLE", "UNINTERRUPTIBLE"}
  /\ pc[p] \notin {"vblock", "vwait", "copy"}
  /\ \E prio \in ActivationPrios(task[p]) : Become(try_to_wake_up(K, p, prio))
  /\ UNCHANGED <<pc, procVars, cpuVars, remaining_switches>>

-----------------------------------------------------------------------------
(* schedule().                                                             *)

AtSchedule ==
  \/ tail = "check" /\ task[curr].need_resched
  \/ tail = "none" /\ curr = Idle /\ task[curr].need_resched
  \/ /\ tail = "none" /\ curr \in Pid
     /\ \/ pc[curr] \in {"block", "fblock", "eblock", "vblock", "wblock", "yield", "dead"}
        \/ pc[curr] \in {"run", "ret"} /\ task[curr].need_resched

\* Where a task goes on after its call of schedule().
After(l) ==
  IF l \in {"ret", "block", "yield"} THEN "run"
  ELSE IF l = "fblock" THEN "fork1"
  ELSE IF l = "eblock" THEN "exit1"
  ELSE IF l = "vblock" THEN "vwait"
  ELSE IF l = "wblock" THEN "wait"
  ELSE l

\* hw2_log_switch resets the reason it has logged, while it is logging.
Logging(k) == k.curr # curr /\ remaining_switches > 0
hw2_log_switch(k) == IF Logging(k) THEN UPDATE_REASON(k, curr, UNKNOWN) ELSE k

\* A forked task starts in ret_from_fork, past the end of schedule().
Schedule ==
  /\ AtSchedule
  /\ \E sig \in Signals :
       LET k     == schedule(K, sig)
           next  == k.curr
           fresh == next \in Pid /\ pc[next] = "new"
       IN /\ Become(hw2_log_switch(k))
          /\ remaining_switches' = IF Logging(k) THEN remaining_switches - 1
                                   ELSE remaining_switches
          /\ pc' = [p \in Pid |-> IF p = next /\ fresh THEN "run"
                                  ELSE IF p = curr THEN After(pc[p]) ELSE pc[p]]
          /\ tail' = IF fresh THEN "none" ELSE "check"
          /\ last' = IF fresh THEN None ELSE curr
  /\ UNCHANGED procVars

TailCheck ==
  /\ tail = "check" /\ ~ task[curr].need_resched
  /\ tail' = "clear"
  /\ UNCHANGED <<rqVars, pc, procVars, last, remaining_switches>>

TailClear ==
  /\ tail = "clear"
  /\ Become(UPDATE_REASON(K, last, UNKNOWN))
  /\ tail' = "none" /\ last' = None
  /\ UNCHANGED <<pc, procVars, remaining_switches>>

-----------------------------------------------------------------------------
(* System calls of the running task p.                                     *)

At(p, l) == p = curr /\ tail = "none" /\ pc[p] = l
Call(p, c) == At(p, "run") /\ c \in Calls

\* p leaves its system call: it goes through schedule() if it must.
Return(k, p) ==
  pc' = [pc EXCEPT ![p] = IF k.task[p].need_resched THEN "ret" ELSE "run"]

SetState(k, p, s) == Set(k, p, [k.task[p] EXCEPT !.state = s])

\* The system calls q can be named in.
Hashed(q) == pc[q] \notin {"copy", "free"}

Sleep(p) ==
  /\ Call(p, "sleep")
  /\ \E s \in {"INTERRUPTIBLE", "UNINTERRUPTIBLE"} : Become(SetState(K, p, s))
  /\ pc' = [pc EXCEPT ![p] = "block"]
  /\ UNCHANGED <<procVars, cpuVars, remaining_switches>>

SetScheduler(p) ==
  \E q \in Pid, policy \in NewPolicies, rt_priority \in 0 .. MAX_USER_RT_PRIO - 1,
     requested_time \in Requests, trials \in Trials :
    LET new == WithPolicy(task[q], policy, rt_priority, requested_time, trials)
    IN /\ Call(p, IF p = q THEN "setscheduler" ELSE "setscheduler_other")
       /\ Hashed(q)
       /\ MaySetScheduler(task[q], policy, rt_priority, requested_time, trials)
       /\ \E prio \in ActivationPrios(new) :
            LET k == setscheduler(K, q, new, prio) IN Become(k) /\ Return(k, p)
       /\ UNCHANGED <<procVars, cpuVars, remaining_switches>>

Nice(p) ==
  \E q \in Pid, prio \in NicePrios :
    LET k == set_user_nice(K, q, prio)
    IN /\ Call(p, IF p = q THEN "nice" ELSE "nice_other")
       /\ Hashed(q)
       /\ Become(k) /\ Return(k, p)
       /\ UNCHANGED <<procVars, cpuVars, remaining_switches>>

Yield(p) ==
  /\ Call(p, "yield") /\ ~ is_short(task[p])
  /\ Become(sys_sched_yield(K, p))
  /\ pc' = [pc EXCEPT ![p] = "yield"]
  /\ UNCHANGED <<procVars, cpuVars, remaining_switches>>

YieldShort(p) ==
  /\ Call(p, "yield_short") /\ is_short(task[p])
  /\ pc' = [pc EXCEPT ![p] = "hang"]
  /\ UNCHANGED <<rqVars, procVars, cpuVars, remaining_switches>>

-----------------------------------------------------------------------------
(* do_fork.                                                                *)

ForkCopy(p, c, vfork) ==
  /\ Call(p, IF vfork THEN "vfork" ELSE "fork")
  /\ pc[c] = "free"
  /\ Become(Set(K, c, CopyTask(task[p])))
  /\ pc' = [pc EXCEPT ![p] = "fork1", ![c] = "copy"]
  /\ kid' = [kid EXCEPT ![p] = c]
  /\ vfork_done' = [vfork_done EXCEPT ![c] = IF vfork THEN p ELSE None]
  /\ UNCHANGED <<parent, cpuVars, remaining_switches>>

\* Copying files, signals or memory may sleep.
ForkBlock(p) ==
  /\ At(p, "fork1") /\ "fork_block" \in Calls
  /\ Become(SetState(K, p, "UNINTERRUPTIBLE"))
  /\ pc' = [pc EXCEPT ![p] = "fblock"]
  /\ UNCHANGED <<procVars, cpuVars, remaining_switches>>

\* ... and may fail: the new task_struct is freed and nothing was shared yet.
ForkFail(p) ==
  /\ At(p, "fork1") /\ "fork_fail" \in Calls
  /\ Become(Set(K, kid[p], BlankTask))
  /\ pc' = [pc EXCEPT ![p] = IF task[p].need_resched THEN "ret" ELSE "run",
                      ![kid[p]] = "free"]
  /\ kid' = [kid EXCEPT ![p] = None]
  /\ vfork_done' = [vfork_done EXCEPT ![kid[p]] = None]
  /\ UNCHANGED <<parent, cpuVars, remaining_switches>>

ForkSplit(p) ==
  /\ At(p, "fork1")
  /\ \E prio \in effective_prio(task[p]), stay \in Interactive :
       Become(SplitSlice(K, p, kid[p], prio, stay))
  /\ pc' = [pc EXCEPT ![p] = "fork2"]
  /\ UNCHANGED <<procVars, cpuVars, remaining_switches>>

ForkWake(p) ==
  LET c     == kid[p]
      vfork == vfork_done[c] # None
  IN /\ At(p, "fork2")
     /\ \E prio \in IF rt_task(task[c]) THEN {task[c].prio} ELSE effective_prio(task[c]) :
          LET k == wake_up_forked_process(K, c, prio)
          IN Become(IF vfork THEN k ELSE ForkResched(k, p, FALSE))
     /\ pc' = [pc EXCEPT ![p] = IF vfork THEN "vwait" ELSE "ret", ![c] = "new"]
     /\ kid' = [kid EXCEPT ![p] = IF vfork THEN c ELSE None]
     /\ parent' = [parent EXCEPT ![c] = p]
     /\ remaining_switches' = IF vfork THEN remaining_switches ELSE LOG_SWITCHES
     /\ UNCHANGED <<vfork_done, cpuVars>>

\* wait_for_completion(&vfork), one round of its loop.
VforkBlock(p) ==
  /\ At(p, "vwait") /\ vfork_done[kid[p]] # None
  /\ Become(SetState(K, p, "UNINTERRUPTIBLE"))
  /\ pc' = [pc EXCEPT ![p] = "vblock"]
  /\ UNCHANGED <<procVars, cpuVars, remaining_switches>>

VforkReturn(p) ==
  /\ At(p, "vwait") /\ vfork_done[kid[p]] = None
  /\ LET k == ForkResched(K, p, TRUE) IN Become(k) /\ Return(k, p)
  /\ kid' = [kid EXCEPT ![p] = None]
  /\ remaining_switches' = LOG_SWITCHES
  /\ UNCHANGED <<parent, vfork_done, cpuVars>>

-----------------------------------------------------------------------------
(* mm_release, do_exit and sys_wait4.                                      *)

\* Two mistakes: sleepers in the other state are left asleep.
WakeWaiter_uninterruptible(k, q, l, s, prio) ==
  IF q # None /\ pc[q] = l /\ k.task[q].state = "UNINTERRUPTIBLE"
  THEN try_to_wake_up(k, q, prio) ELSE k
WakeWaiter_interruptible(k, q, l, s, prio) ==
  IF q # None /\ pc[q] = l /\ k.task[q].state = "INTERRUPTIBLE"
  THEN try_to_wake_up(k, q, prio) ELSE k

\* Wake q if it sleeps in state s at the wait it is in, l.
WakeWaiter(k, q, l, s, prio) ==
  IF q # None /\ pc[q] = l /\ k.task[q].state = s THEN try_to_wake_up(k, q, prio) ELSE k

WaiterPrios(q) == IF q = None THEN {0} ELSE ActivationPrios(task[q])

\* The new program of exec, or exit, gives the parent of a vfork its memory back.
mm_release(p) ==
  /\ \E prio \in WaiterPrios(vfork_done[p]) :
       Become(WakeWaiter(K, vfork_done[p], "vwait", "UNINTERRUPTIBLE", prio))
  /\ vfork_done' = [vfork_done EXCEPT ![p] = None]

Exec(p) ==
  /\ At(p, "run") /\ vfork_done[p] # None
  /\ mm_release(p)
  /\ UNCHANGED <<pc, kid, parent, cpuVars, remaining_switches>>

ExitBegin(p) ==
  /\ Call(p, "exit") /\ p # InitTask
  /\ mm_release(p)
  /\ remaining_switches' = LOG_SWITCHES
  /\ pc' = [pc EXCEPT ![p] = "exit1"]
  /\ UNCHANGED <<kid, parent, cpuVars>>

\* Closing files may sleep.
ExitBlock(p) ==
  /\ At(p, "exit1") /\ "exit_block" \in Calls
  /\ Become(SetState(K, p, "UNINTERRUPTIBLE"))
  /\ pc' = [pc EXCEPT ![p] = "eblock"]
  /\ UNCHANGED <<procVars, cpuVars, remaining_switches>>

\* An orphan has no claim any more on the slice it got from its parent.
forget_original_parent(k, orphans) ==
  [k EXCEPT !.task = [q \in Task |-> IF q \in orphans
                                     THEN [k.task[q] EXCEPT !.first_time_slice = FALSE]
                                     ELSE k.task[q]]]

\* exit_notify: the parent is told, and process 1 of the dead children it inherits.
ExitNotify(p) ==
  LET orphans == {c \in Pid : parent[c] = p /\ Hashed(c)}
      heir    == IF \E c \in orphans : task[c].state = "ZOMBIE" THEN InitTask ELSE None
  IN /\ At(p, "exit1")
     /\ \E prio \in WaiterPrios(parent[p]), prio2 \in WaiterPrios(heir) :
          LET k1 == WakeWaiter(SetState(K, p, "ZOMBIE"), parent[p], "wait", "INTERRUPTIBLE", prio)
              k2 == WakeWaiter(k1, heir, "wait", "INTERRUPTIBLE", prio2)
          IN Become(forget_original_parent(UPDATE_REASON(k2, p, ENDED), orphans))
     /\ parent' = [c \in Pid |-> IF c \in orphans THEN InitTask ELSE parent[c]]
     /\ pc' = [pc EXCEPT ![p] = "dead"]
     /\ UNCHANGED <<kid, vfork_done, cpuVars, remaining_switches>>

WaitEnter(p) ==
  /\ Call(p, "wait") \/ At(p, "wait")
  /\ Become(SetState(K, p, "INTERRUPTIBLE"))
  /\ pc' = [pc EXCEPT ![p] = "scan"]
  /\ UNCHANGED <<procVars, cpuVars, remaining_switches>>

Children(p) == {c \in Pid : parent[c] = p /\ Hashed(c) /\ c # p}
Zombies(p) == {c \in Children(p) : task[c].state = "ZOMBIE"}

\* release_task of one dead child.
Reap(p) ==
  \E c \in Zombies(p) :
    /\ At(p, "scan")
    /\ Become(Set(SetState(sched_exit(K, p, c), p, "RUNNING"), c, BlankTask))
    /\ pc' = [pc EXCEPT ![p] = IF task[p].need_resched THEN "ret" ELSE "run", ![c] = "free"]
    /\ parent' = [parent EXCEPT ![c] = None]
    /\ UNCHANGED <<kid, vfork_done, cpuVars, remaining_switches>>

WaitBlock(p) ==
  /\ At(p, "scan") /\ Zombies(p) = {} /\ Children(p) # {}
  /\ pc' = [pc EXCEPT ![p] = "wblock"]
  /\ UNCHANGED <<rqVars, procVars, cpuVars, remaining_switches>>

\* No child at all, WNOHANG, or a signal.
WaitReturn(p) ==
  /\ At(p, "scan") /\ Zombies(p) = {}
  /\ LET k == SetState(K, p, "RUNNING") IN Become(k) /\ Return(k, p)
  /\ UNCHANGED <<procVars, cpuVars, remaining_switches>>

-----------------------------------------------------------------------------
SysCall(p) ==
  \/ Sleep(p) \/ SetScheduler(p) \/ Nice(p) \/ Yield(p) \/ YieldShort(p)
  \/ \E c \in Pid, vfork \in BOOLEAN : ForkCopy(p, c, vfork)
  \/ ForkBlock(p) \/ ForkFail(p) \/ ForkSplit(p) \/ ForkWake(p)
  \/ VforkBlock(p) \/ VforkReturn(p)
  \/ Exec(p) \/ ExitBegin(p) \/ ExitBlock(p) \/ ExitNotify(p)
  \/ WaitEnter(p) \/ Reap(p) \/ WaitBlock(p) \/ WaitReturn(p)

Next ==
  \/ Tick \/ (\E p \in Pid : WakeUp(p))
  \/ Schedule \/ TailCheck \/ TailClear
  \/ \E p \in Pid : SysCall(p)

Spec == Init /\ [][Next]_vars
=============================================================================
