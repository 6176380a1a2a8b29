------------------------------- MODULE Queries ------------------------------
(***************************************************************************)
(* What programs are told: the system calls that read a task_struct and    *)
(* their wrappers in user space.  They change nothing and do not sleep, so *)
(* each is a function of the state it is called in.  x is a pid: that of a *)
(* task, or one of those nobody has.                                       *)
(***************************************************************************)
EXTENDS SchedSafety

EINVAL == 22
ESRCH == 3
Oops == 1000   \* stands for no return at all: NULL is dereferenced

Zero == "0"
Negative == "-1"
NULLTask == "NULL"

\* A tick is a millisecond at least.
ASSUME QueryAssumption == {Zero, Negative, NULLTask} \cap Pid = {} /\ HZ \in 1 .. 1000

\* Pid 0 is in no hash list.
find_task_by_pid(x) == IF x \in Pid /\ Hashed(x) THEN x ELSE NULLTask
find_process_by_pid(x) == IF x = Zero THEN curr ELSE find_task_by_pid(x)

-----------------------------------------------------------------------------
\* A mistake: the last trial is not counted.
sys_is_SHORT_last(x) ==
  LET p == find_task_by_pid(x) IN
  IF x = Negative THEN -EINVAL
  ELSE IF p = NULLTask THEN Oops
  ELSE IF ~ is_short(task[p]) THEN -EINVAL
  ELSE IF task[p].remaining_trials > 1 THEN 1 ELSE 0

\* The only one of the three that does not look whether there is such a task.
sys_is_SHORT(x) ==
  LET p == find_task_by_pid(x) IN
  IF x = Negative THEN -EINVAL
  ELSE IF p = NULLTask THEN Oops
  ELSE IF ~ is_short(task[p]) THEN -EINVAL
  ELSE IF task[p].remaining_trials # 0 THEN 1 ELSE 0

OfShort(x, value) ==
  IF x = Negative \/ find_task_by_pid(x) = NULLTask THEN -EINVAL
  ELSE IF is_short(task[x]) THEN value ELSE -EINVAL

sys_remaining_time(x) == OfShort(x, hw2_ticks_to_ms(task[x].time_slice))
sys_remaining_trials(x) == OfShort(x, task[x].remaining_trials)

PolicyNumber == [OTHER |-> 0, FIFO |-> 1, RR |-> 2, SHORT |-> 4]
sys_sched_getscheduler(x) ==
  LET p == find_process_by_pid(x) IN
  IF x = Negative THEN -EINVAL
  ELSE IF p = NULLTask THEN -ESRCH ELSE PolicyNumber[task[p].policy]

-----------------------------------------------------------------------------
(* hw2_syscalls.h, with errno as part of the result.                       *)

\* A mistake: one short of EINVAL.
convert_to_errno_short(res) ==
  IF res \in - 21 .. -1 THEN [ret |-> -1, errno |-> -res] ELSE [ret |-> res, errno |-> 0]
\* As unsigned numbers, -125 and what is above it.
convert_to_errno(res) ==
  IF res \in -125 .. -1 THEN [ret |-> -1, errno |-> -res] ELSE [ret |-> res, errno |-> 0]

is_SHORT(x) == convert_to_errno(sys_is_SHORT(x))
remaining_time(x) == convert_to_errno(sys_remaining_time(x))
remaining_trials(x) == convert_to_errno(sys_remaining_trials(x))

Invalid == [ret |-> -1, errno |-> EINVAL]

\* Programs can tell what a task is from any of the calls: a SHORT task has trials and
\* "cannot return 0" as its remaining time, an overdue one has no trials, and of other
\* tasks none of the three is told.  What it rests on is that no task but an overdue one
\* is without ticks, neither in the middle of fork nor after it.
QueriesAgree ==
  /\ TicksLeft
  /\ \A p \in Pid : Hashed(p) =>
       LET answer == is_SHORT(p) IN
       \/ /\ answer = Invalid /\ sys_sched_getscheduler(p) # PolicyNumber.SHORT
          /\ remaining_time(p) = Invalid /\ remaining_trials(p) = Invalid
       \/ /\ answer.ret = 1 /\ sys_sched_getscheduler(p) = PolicyNumber.SHORT
          /\ remaining_time(p).ret > 0 /\ remaining_trials(p).ret > 0
       \/ /\ answer.ret = 0 /\ sys_sched_getscheduler(p) = PolicyNumber.SHORT
          /\ remaining_trials(p).ret = 0

\* hw2_syscalls.h of remaining_time: "If overdue, returns 0", for which hw2_syscalls.c
\* relies on overdue tasks to have no ticks.
OverdueHasNoTime ==
  \A p \in Pid : Hashed(p) /\ is_SHORT(p).ret = 0 => remaining_time(p).ret = 0
=============================================================================
