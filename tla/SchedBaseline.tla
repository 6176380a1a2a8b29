--------------------------- MODULE SchedBaseline ---------------------------
(***************************************************************************)
(* The patch leaves the other tasks alone: without SHORT tasks, module     *)
(* Sched implements the kernel before it, module Baseline.  The third      *)
(* array, the overdue list, the SHORT fields, the reasons and the log are  *)
(* forgotten, and a task_struct that do_fork fills is told by its state.   *)
(*                                                                         *)
(* One difference shows up outside this refinement: set_user_nice of the   *)
(* patch reschedules for a queued task that becomes more important, which  *)
(* the baseline only says it does (kernel_files/backup/kernel/sched.c:1059 *)
(* against :1062).  nice_other is left out of the run for that reason.     *)
(***************************************************************************)
EXTENDS SchedLiveness

\* do_fork has shared the slices with the copy c.
Shared(c) == \E p \in Pid : kid[p] = c /\ pc[p] = "fork2"

BaseTask(p) ==
  [policy |-> task[p].policy, prio |-> task[p].prio, static_prio |-> task[p].static_prio,
   state |-> IF p = Idle \/ pc[p] \notin {"free", "copy"} THEN task[p].state
             ELSE IF pc[p] = "free" THEN "FREE"
             ELSE IF Shared(p) THEN "SPLIT" ELSE "COPY",
   time_slice |-> task[p].time_slice, first_time_slice |-> task[p].first_time_slice,
   array |-> task[p].array, need_resched |-> task[p].need_resched]

BaseQueue == [h \in (0 .. 1) \X Prio |-> queue[h]]
BaseTasks == [p \in Task |-> BaseTask(p)]
BaseKid == [p \in Pid |-> IF kid[p] # None /\ pc[kid[p]] = "copy" THEN kid[p] ELSE None]

Base == INSTANCE Baseline WITH
          queue <- BaseQueue, task <- BaseTasks, kid <- BaseKid,
          BaseCalls <- {"sleep", "yield", "setscheduler", "nice", "fork", "exit"}

\* Whatever real-time and OTHER tasks do in the patched kernel, the scheduler treats them,
\* slice by slice and list by list, as the kernel before it did.
AsBefore == Base!Spec
=============================================================================
