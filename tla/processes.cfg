SPECIFICATION PartSpec
CONSTANTS
  task1 = task1  task2 = task2  task3 = task3  task4 = task4  task5 = task5
  m1 = m1  m2 = m2  m3 = m3  o1 = o1  o2 = o2  o3 = o3  o4 = o4
  Idle = Idle  init_mm = init_mm  None = None
  LogSize = 4
  Window = 3
  MaxSwitches = 10
INVARIANTS MemoryCounted SharesCounted TreeLinked NoStoppedOrphan RingInv QuietReadInOrder EachSwitchOnce
PROPERTIES VforkGivesBack PidsFree OnlyNewOrphans HistorySpec
