---------------------------- MODULE MCWorkloads ----------------------------
(***************************************************************************)
(* Module Sched under several workloads: the machine is the same in all of *)
(* them, and each names the actions its tasks take.  A behaviour stays     *)
(* with the workload it starts with.                                       *)
(***************************************************************************)
EXTENDS MCSched

CONSTANT Workloads
VARIABLE work

\* How the tasks of each workload start: what Init says of another Boot.
MCPolicies == {"SHORT", KEEP}
BootOf == [policies |-> MCBoot2, overdue |-> MCBoot3, realtime |-> MCBoot2,
           fork |-> MCBoot1, exit |-> MCBoot1, progress |-> MCBoot1]
From(boot) == INSTANCE Sched WITH Boot <- boot

WorkInit == \E w \in Workloads : work = w /\ From(BootOf[w])!Init

Machine == Tick \/ (\E p \in Pid : WakeUp(p)) \/ Schedule \/ TailCheck \/ TailClear

\* What a sched_setscheduler may be: one that makes another task SHORT, and one that
\* asks for these ticks and trials.
MakesShort(p) == \E q \in Pid : ~ is_short(task[q]) /\ is_short(task'[q]) /\ q # p
Asked(time, trials) ==
  \A q \in Pid : is_short(task'[q]) =>
    /\ task'[q].requested_time = time
    /\ ~ is_short(task[q]) => task'[q].remaining_trials = trials

\* Two tasks that sleep, are reniced and made SHORT by themselves and by each other.
Policies2 == \E p \in Pid : Sleep(p) \/ Nice(p) \/ (SetScheduler(p) /\ Asked(4, 2))

Nap(p) == Sleep(p) /\ task'[p].state = "INTERRUPTIBLE"

\* Three tasks made SHORT by each other, with one tick and one trial, that block then.
Overdue3 ==
  \E p \in Pid : (Nap(p) /\ is_short(task[p])) \/ (SetScheduler(p) /\ MakesShort(p) /\ Asked(1, 1))

\* Two tasks of every policy, of which the real-time ones block.
RealTime2 == \E p \in Pid : (Nap(p) /\ rt_task(task[p])) \/ SetScheduler(p) \/ Yield(p) \/ YieldShort(p)

\* One task that becomes SHORT and grows to three; the copies block and fail.
Forks3 ==
  \E p \in Pid :
    \/ SetScheduler(p) /\ task' = [task EXCEPT ![p] = task'[p]] /\ is_short(task'[p])
    \/ \E c \in Pid : ForkCopy(p, c, FALSE)
    \/ ForkBlock(p) \/ ForkFail(p) \/ ForkSplit(p) \/ ForkWake(p)

\* One task that grows to three by vfork, with parents whose exit blocks.
Exits3 ==
  \E p \in Pid :
    \/ \E c \in Pid : ForkCopy(p, c, TRUE)
    \/ ForkSplit(p) \/ ForkWake(p) \/ VforkBlock(p) \/ VforkReturn(p) \/ Exec(p)
    \/ ExitBegin(p) \/ ExitNotify(p) \/ (ExitBlock(p) /\ Children(p) # {})
    \/ WaitEnter(p) \/ Reap(p) \/ WaitBlock(p) \/ WaitReturn(p)

\* One task that becomes SHORT and grows to two, which block.
Progress2 ==
  \E p \in Pid :
    \/ Sleep(p) \/ SetScheduler(p)
    \/ \E c \in Pid : ForkCopy(p, c, FALSE)
    \/ ForkSplit(p) \/ ForkWake(p)

WorkNext ==
  /\ UNCHANGED work
  /\ \/ Machine
     \/ work = "policies" /\ Policies2
     \/ work = "overdue" /\ Overdue3
     \/ work = "realtime" /\ RealTime2
     \/ work = "fork" /\ Forks3
     \/ work = "exit" /\ Exits3
     \/ work = "progress" /\ Progress2

WorkSpec == WorkInit /\ [][WorkNext]_<<vars, work>>
FairWorkSpec == WorkSpec /\ Fairness
=============================================================================
