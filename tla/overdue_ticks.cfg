SPECIFICATION Spec
CONSTANTS
  task1 = task1  task2 = task2  task3 = task3  task4 = task4
  Idle = Idle  None = None  InitTask = task1
  Pid = {task1, task2, task3}
  Boot <- MCBoot1
  MAX_USER_RT_PRIO = 2  MAX_PRIO = 4  DEF_PRIO = 3
  MIN_TIMESLICE = 1  MAX_TIMESLICE = 2  HZ = 500  SLICE_MAX = 8
  Bonus <- MCBonus
  LOG_SWITCHES = 0
  Calls = {"setscheduler", "fork"}
  NewPolicies = {"SHORT"}
  Requests = {4}
  Trials = {2}
  NicePrios = {2}
  Signals = {FALSE}
  Interactive = {FALSE}
INVARIANTS OverdueHasNoTime
