---------------------------- MODULE SchedLiveness ----------------------------
(***************************************************************************)
(* What must eventually happen in module Sched.  The timer keeps ticking,  *)
(* a call of schedule() returns, and kernel code, which is not preempted,  *)
(* reaches its end.  Nothing is assumed of the tasks: one may run in user  *)
(* mode for ever, and what a sleeping task waits for may never come.       *)
(*                                                                         *)
(* Tick and Schedule build the whole next state, and whether they are      *)
(* enabled is too dear to evaluate.  Their weak fairness is replaced by    *)
(* what it gives: Schedule is enabled when AtSchedule holds and makes it   *)
(* false, and a Tick changes the slice of the SHORT task that runs.        *)
(***************************************************************************)
EXTENDS SchedSafety

\* Where a task in the kernel goes on by itself.
KernelLocations == {"fork1", "fork2", "vwait", "exit1", "wait", "scan"}

\* p takes its next step there; that of do_fork moves the child too.
GoesOn(p) ==
  /\ p = curr /\ tail = "none" /\ pc[p] \in KernelLocations
  /\ \E l \in Locations \ {pc[p]}, q \in Pid, m \in Locations :
       pc' = [pc EXCEPT ![q] = m, ![p] = l]

EndsTail ==
  \/ tail = "check" /\ ~ task[curr].need_resched /\ tail' = "clear"
  \/ tail = "clear" /\ tail' = "none"

SpendsTrial(p) == curr = p /\ is_short(task[p]) /\ ~ is_overdue(task[p])

Fairness ==
  /\ WF_tail(EndsTail)
  /\ \A p \in Pid : WF_pc(GoesOn(p))
  /\ []<> ~ AtSchedule
  /\ \A p \in Pid : []<> ~ SpendsTrial(p)
                    \/ []<><<task'[p].time_slice # task[p].time_slice>>_vars

\* A SHORT task that can run and has trials left gets the CPU: it is not starved by
\* the other SHORT tasks, each of which leaves the CPU at the end of its slice.
ShortGetsCPU ==
  \A p \in Pid : (Queued(p) /\ is_short(task[p]) /\ ~ is_overdue(task[p])) ~> (curr = p)

\* No SHORT task computes for ever: one that stays on the queues goes overdue,
\* however it divides its slice and its trials among its children.
HogGoesOverdue ==
  \A p \in Pid : []<> ~ (Queued(p) /\ is_short(task[p]) /\ ~ is_overdue(task[p]))
=============================================================================
