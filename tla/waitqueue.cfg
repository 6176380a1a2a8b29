SPECIFICATION PartSpec
CONSTANTS
  w1 = w1  w2 = w2  w3 = w3  w4 = w4
  Pid = {w1, w2, w3, w4}
  Ops = {"completion", "event", "exclusive", "sleep_on"}
  Modes = {"INT", "UNINT"}
  MaxItems = 3
  Timers = TRUE
INVARIANTS SleeperCanBeWoken NoLostCompletion NoLostWakeUp
PROPERTIES EveryWaiterServed
CHECK_DEADLOCK FALSE
