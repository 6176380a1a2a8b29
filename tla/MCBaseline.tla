----------------------------- MODULE MCBaseline -----------------------------
(***************************************************************************)
(* The kernel before the patch, by itself, and as what the patched one     *)
(* implements.  The two have variables of their own and share nothing, so  *)
(* that their interleavings show nothing: a behaviour stays with the       *)
(* workload it starts with.                                                *)
(***************************************************************************)
EXTENDS SchedBaseline

CONSTANTS task1, task2, task3

VARIABLES work, b_active, b_queue, b_curr, b_task, b_kid

baseVars == <<b_active, b_queue, b_curr, b_task, b_kid>>
allVars == <<work, vars, baseVars>>

MCBoot2 == <<task1, task2>>
MCBonus == {0}
MCBonus2 == {-1, 0}

-----------------------------------------------------------------------------
(* The patched kernel: tasks that sleep, yield and change policy, and      *)
(* tasks that fork, exit and are reniced.                                  *)

Machine == Tick \/ (\E p \in Pid : WakeUp(p)) \/ Schedule \/ TailCheck \/ TailClear

Changes == \E p \in Pid : Sleep(p) \/ SetScheduler(p) \/ Yield(p)

Forks ==
  \E p \in Pid :
    \/ \E c \in Pid, vfork \in BOOLEAN : ForkCopy(p, c, vfork)
    \/ ForkFail(p) \/ ForkSplit(p) \/ ForkWake(p) \/ VforkBlock(p) \/ VforkReturn(p)
    \/ Exec(p) \/ ExitBegin(p) \/ ExitNotify(p) \/ Nice(p)
    \/ WaitEnter(p) \/ Reap(p) \/ WaitBlock(p) \/ WaitReturn(p)

(* The baseline: one task that grows to two and does everything, with      *)
(* bonuses, and three that yield and are reniced, under fairness.          *)

Old == INSTANCE Baseline WITH
  Pid <- {task1, task2}, Boot <- <<task1>>, MAX_TIMESLICE <- 3, Bonus <- MCBonus2,
  BaseCalls <- {"sleep", "yield", "setscheduler", "nice", "fork", "exit"},
  active <- b_active, queue <- b_queue, curr <- b_curr, task <- b_task, kid <- b_kid
OldThree == INSTANCE Baseline WITH
  Pid <- {task1, task2, task3}, Boot <- <<task1, task2, task3>>, Interactive <- {FALSE},
  NewPolicies <- {"OTHER"}, BaseCalls <- {"yield", "nice"},
  active <- b_active, queue <- b_queue, curr <- b_curr, task <- b_task, kid <- b_kid

ASSUME PartAssumption == Old!BaselineAssumption /\ OldThree!BaselineAssumption

-----------------------------------------------------------------------------
WorkInit ==
  /\ work \in {"policies", "forks", "old", "three"}
  /\ Init
  /\ IF work = "three" THEN OldThree!Init ELSE Old!Init

WorkNext ==
  /\ UNCHANGED work
  /\ \/ /\ UNCHANGED baseVars
        /\ \/ work \in {"policies", "forks"} /\ Machine
           \/ work = "policies" /\ Changes
           \/ work = "forks" /\ Forks
     \/ /\ UNCHANGED vars
        /\ \/ work = "old" /\ Old!Next
           \/ work = "three" /\ OldThree!Next

MayRunOn == OldThree!Schedule /\ (b_task[b_curr].need_resched \/ b_task[b_curr].state # "RUNNING")

WorkSpec ==
  /\ WorkInit /\ [][WorkNext]_allVars
  /\ WF_baseVars(work = "three" /\ OldThree!Tick)
  /\ WF_baseVars(work = "three" /\ MayRunOn)

-----------------------------------------------------------------------------
Work(s) == work \in s

\* The baseline, by itself: types, one list for each task, and no task without a slice.
BaseSafe == Work({"old"}) => Old!TypeOK /\ Old!OneList /\ Old!NoForkBug

\* A task that can run is served again and again.
EveryoneRuns == \A p \in {task1, task2, task3} : []<>(Work({"three"}) => OldThree!Served(p))
=============================================================================
