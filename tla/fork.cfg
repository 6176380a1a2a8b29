SPECIFICATION WorkSpec
CONSTANTS
  task1 = task1  task2 = task2  task3 = task3  task4 = task4
  Idle = Idle  None = None  InitTask = task1
  Pid = {task1, task2, task3}
  Boot <- MCBoot1
  MAX_USER_RT_PRIO = 2  MAX_PRIO = 4  DEF_PRIO = 3
  MIN_TIMESLICE = 1  MAX_TIMESLICE = 1  HZ = 500  SLICE_MAX = 8
  Bonus <- MCBonus2
  LOG_SWITCHES = 1
  Calls = {"sleep", "setscheduler", "setscheduler_other", "yield", "yield_short", "fork",
           "fork_block", "fork_fail", "vfork", "exit", "exit_block", "wait"}
  NewPolicies = {"SHORT", "FIFO", "RR", "OTHER"}
  Requests = {4}
  Trials = {2}
  NicePrios = {2}
  Signals = {FALSE}
  Interactive = {FALSE}
  Workloads = {"fork", "realtime", "exit"}
SYMMETRY Sym
INVARIANTS TypeOK QueriesAgree NoMissedChild Inductive
PROPERTIES TrialsOnlyShrink
