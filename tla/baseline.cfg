SPECIFICATION WorkSpec
CONSTANTS
  task1 = task1  task2 = task2  task3 = task3
  Idle = Idle  None = None  InitTask = task1
  Pid = {task1, task2}
  Boot <- MCBoot2
  MAX_USER_RT_PRIO = 2  MAX_PRIO = 4  DEF_PRIO = 3
  MIN_TIMESLICE = 1  MAX_TIMESLICE = 2  HZ = 500  SLICE_MAX = 8
  Bonus <- MCBonus
  LOG_SWITCHES = 0
  Calls = {"sleep", "setscheduler", "setscheduler_other", "yield", "fork", "fork_fail",
           "vfork", "exit", "wait", "nice"}
  NewPolicies = {"RR", "FIFO", "OTHER", "KEEP"}
  Requests = {2}
  Trials = {1}
  NicePrios = {2}
  Signals = {FALSE, TRUE}
  Interactive = {FALSE, TRUE}
INVARIANTS BaseSafe
PROPERTIES AsBefore EveryoneRuns
