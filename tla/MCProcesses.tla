---------------------------- MODULE MCProcesses ----------------------------
(***************************************************************************)
(* Five parts of the life of processes, each under one to three workloads, *)
(* and the log of the switches.  They share no state in these models, so   *)
(* that their interleavings show nothing: a behaviour stays with the part  *)
(* and the workload it starts with, and the other parts with their initial *)
(* state.                                                                  *)
(***************************************************************************)
EXTENDS Logger, FiniteSets

CONSTANTS task1, task2, task3, task4, task5, m1, m2, m3, o1, o2, o3, o4, Idle, init_mm, None

VARIABLES
  part,
  mem, mm, active_mm, curr, mm_pc, mm_kid, kid_mm, leaving, dies, vfork_done, done,
  obj, count, user, processes, nr_threads, res_pc, at, res_kid, shares,
  last_pid, next_safe, list, made, failed,
  links, p_opptr, next_thread, ptrace, pc, found,
  state, p_pptr, pgrp, session, sent

mmVars == <<mem, mm, active_mm, curr, mm_pc, mm_kid, kid_mm, leaving, dies, vfork_done, done>>
resVars == <<obj, count, user, processes, nr_threads, res_pc, at, res_kid, shares>>
pidVars == <<last_pid, next_safe, list, made, failed>>
treeVars == <<links, p_opptr, next_thread, ptrace, pc, found>>
groupVars == <<state, p_pptr, pgrp, session, sent>>

InitTask == task1

-----------------------------------------------------------------------------
(* Three tasks and three address spaces, where do_fork fails while it      *)
(* copies the memory, or also later.                                       *)

Spaces == INSTANCE AddressSpace WITH
  Pid <- {task1, task2, task3}, MM <- {m1, m2, m3}, MaxCount <- 3, Failures <- {"dup"},
  pc <- mm_pc, kid <- mm_kid
LateSpaces == INSTANCE AddressSpace WITH
  Pid <- {task1, task2, task3}, MM <- {m1, m2, m3}, MaxCount <- 2, Failures <- {"dup", "late"},
  pc <- mm_pc, kid <- mm_kid

(* Four tasks of two users that may share files, or three that become      *)
(* kernel threads.                                                         *)

Shares == INSTANCE ForkResources WITH
  Pid <- {task1, task2, task3, task4}, Obj <- {o1, o2, o3, o4}, UserTask <- task2,
  InitObj <- o1, UserObj <- o2, Flags <- {{"files"}}, NPROC <- 2, max_threads <- 4,
  Daemons <- FALSE, pc <- res_pc, kid <- res_kid
Daemons == INSTANCE ForkResources WITH
  Pid <- {task1, task2, task3}, Obj <- {o1, o2, o3}, UserTask <- task2,
  InitObj <- o1, UserObj <- o2, Flags <- {{}, {"fs"}, {"files", "fs", "sig"}}, NPROC <- 2,
  max_threads <- 4, Daemons <- TRUE, pc <- res_pc, kid <- res_kid

(* Three tasks with process groups, or with threads, and five pids, which  *)
(* never run out; or four tasks and three pids, which do.                  *)

Pids == INSTANCE PidAlloc WITH
  PID_MAX <- 8, RESERVED <- 3, MaxTasks <- 3, MaxForks <- 1, Calls <- {"setpgid"}
ThreadPids == INSTANCE PidAlloc WITH
  PID_MAX <- 8, RESERVED <- 3, MaxTasks <- 3, MaxForks <- 1, Calls <- {"thread"}
FewPids == INSTANCE PidAlloc WITH
  PID_MAX <- 6, RESERVED <- 3, MaxTasks <- 4, MaxForks <- 2, Calls <- {"setsid"}

(* Four tasks that trace each other, or in thread groups.                  *)

Tree == INSTANCE ProcessTree WITH
  Pid <- {task1, task2, task3, task4}, Flags <- {{}, {"parent"}, {"ptrace"}},
  Calls <- {"ptrace", "status", "jobs"}
Threads == INSTANCE ProcessTree WITH
  Pid <- {task1, task2, task3, task4}, Flags <- {{}, {"thread"}, {"thread", "parent"}},
  Calls <- {"daemon"}

(* A shell, its jobs, and the terminal.                                    *)

Groups == INSTANCE OrphanGroups WITH
  Pid <- {task1, task2, task3, task4, task5}, Shell <- task2, Stops <- {"tty"}

ASSUME PartAssumption ==
  /\ Spaces!AddressSpaceAssumption /\ LateSpaces!AddressSpaceAssumption
  /\ Shares!ForkResourcesAssumption /\ Daemons!ForkResourcesAssumption
  /\ Pids!PidAllocAssumption /\ ThreadPids!PidAllocAssumption /\ FewPids!PidAllocAssumption
  /\ Tree!ProcessTreeAssumption /\ Threads!ProcessTreeAssumption
  /\ Groups!OrphanGroupsAssumption

-----------------------------------------------------------------------------
PartInit ==
  /\ part \in {"spaces", "late", "shares", "daemons", "pids", "tgids", "few", "tree", "threads",
               "groups", "log"}
  /\ Init
  /\ Spaces!Init /\ mm[InitTask] = m1  \* one of three, all the same
  /\ Tree!Init /\ Groups!Init
  /\ IF part = "daemons" THEN Daemons!Init ELSE Shares!Init
  /\ IF part = "few" THEN FewPids!Init ELSE Pids!Init

SpacesStep == /\ \/ part = "spaces" /\ Spaces!Next
                 \/ part = "late" /\ LateSpaces!Next
              /\ UNCHANGED <<vars, resVars, pidVars, treeVars, groupVars>>
SharesStep == /\ \/ part = "shares" /\ Shares!Next
                 \/ part = "daemons" /\ Daemons!Next
              /\ UNCHANGED <<vars, mmVars, pidVars, treeVars, groupVars>>
PidsStep == /\ \/ part = "pids" /\ Pids!Next
               \/ part = "tgids" /\ ThreadPids!Next
               \/ part = "few" /\ FewPids!Next
            /\ UNCHANGED <<vars, mmVars, resVars, treeVars, groupVars>>
TreeStep == /\ \/ part = "tree" /\ Tree!Next
               \/ part = "threads" /\ Threads!Next
            /\ UNCHANGED <<vars, mmVars, resVars, pidVars, groupVars>>
GroupsStep == /\ part = "groups" /\ Groups!Next
              /\ UNCHANGED <<vars, mmVars, resVars, pidVars, treeVars>>
LogStep == /\ part = "log" /\ Next
           /\ UNCHANGED <<mmVars, resVars, pidVars, treeVars, groupVars>>

PartNext ==
  UNCHANGED part /\ (SpacesStep \/ SharesStep \/ PidsStep \/ TreeStep \/ GroupsStep \/ LogStep)

partVars == <<part, vars, mmVars, resVars, pidVars, treeVars, groupVars>>
PartSpec == PartInit /\ [][PartNext]_partVars

-----------------------------------------------------------------------------
(* The properties of the modules, for the workloads in which they hold:    *)
(* a guard on part leaves out one that the code does not have there.       *)

Part(s) == part \in s

\* AddressSpace: the memory of the running task is there, the counts lose exactly the
\* references they were given, and none is left over unless do_fork fails late.
MemoryCounted ==
  /\ Part({"spaces", "late"}) => Spaces!TypeOK /\ Spaces!ActiveAlive /\ Spaces!UsersExact
  /\ Part({"spaces"}) => Spaces!NoLeak

\* AddressSpace: no vfork returns before the child has left the memory they share, if no
\* fork of the child fails late.
VforkGivesBack ==
  [][Part({"spaces"}) =>
     \A p \in {task1, task2, task3} : ~ done[p] /\ done'[p] => mm'[mm_kid[p]] # mm[p]]_partVars

\* ForkResources: what a task shares with others is counted once for each of them, and
\* every task for its user, within its limit, and among the threads, whatever fails on the
\* way.  Of tasks that become kernel threads the users lose count.
SharesCounted ==
  /\ Part({"shares"}) =>
       Shares!TypeOK /\ Shares!CountsExact /\ Shares!ProcessesExact /\ Shares!ThreadsCounted /\ Shares!LimitKept
  /\ Part({"daemons"}) => Daemons!CountsExact

\* PidAlloc: the window that get_pid trusts is free and its pids are new, as long as the
\* pids do not run out; it gives up only when they do.
PidsFree ==
  /\ [](Part({"pids", "tgids"}) => Pids!TypeOK /\ Pids!WindowFree /\ Pids!UniquePids)
  /\ FewPids!GivesUpOnlyIfFull

\* ProcessTree: the links between parents, children and siblings agree; without threads
\* nobody is its own ancestor, and a dead child is released once.
TreeLinked ==
  /\ Part({"tree", "threads"}) => Tree!TypeOK /\ Tree!SiblingsLinked /\ Tree!ParentsLive
  /\ Part({"tree"}) => Tree!NoCycle /\ Tree!ReleasedOnce

\* OrphanGroups: stopped jobs are told when nobody is left to continue them, and only
\* then.
NoStoppedOrphan == Part({"groups"}) => Groups!TypeOK /\ Groups!NoStoppedOrphan
OnlyNewOrphans == Groups!OnlyNewOrphans
=============================================================================
