------------------------------- MODULE MCSched ------------------------------
EXTENDS SchedLiveness, SchedInvariant, Queries, TLC

CONSTANTS task1, task2, task3, task4  \* the tasks; task1 is process 1

Sym == Permutations({task2, task3})
MCBoot1 == <<task1>>
MCBoot2 == <<task1, task2>>
MCBoot3 == <<task1, task2, task3>>
MCBonus == {0}
MCBonus2 == {-1, 0}
=============================================================================
