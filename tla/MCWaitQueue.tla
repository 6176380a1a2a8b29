---------------------------- MODULE MCWaitQueue ----------------------------
(***************************************************************************)
(* Tasks that wait, for TLC, under four workloads: a behaviour stays with *)
(* the one it starts with.                                                 *)
(***************************************************************************)
EXTENDS WaitQueue

CONSTANTS w1, w2, w3, w4
VARIABLE part

-----------------------------------------------------------------------------
\* Four that wait for one completion; two that wait for a condition, exclusive or not, and
\* are only interrupted by signals; three whom nothing interrupts; and two that wait in
\* every way.
Completions == INSTANCE WaitQueue WITH Ops <- {"completion"}, Modes <- {"UNINT"}, Timers <- FALSE
Waiters == INSTANCE WaitQueue WITH
  Ops <- {"event", "exclusive"}, Modes <- {"INT"}, MaxItems <- 2, Timers <- FALSE
Sleepers == INSTANCE WaitQueue WITH
  Ops <- {"event", "exclusive"}, Modes <- {"UNINT"}, MaxItems <- 2, Timers <- FALSE
All == INSTANCE WaitQueue WITH MaxItems <- 2

ASSUME WaitQueueAssumption

Only(S) == \A p \in Pid \ S : op'[p] = "none" /\ ~ sigpending'[p]

PartInit == part \in {"completions", "waiters", "sleepers", "all"} /\ Init

PartNext ==
  /\ UNCHANGED part
  /\ \/ part = "completions" /\ Completions!Next
     \/ part = "waiters" /\ Waiters!Next /\ Only({w1, w2})
     \/ part = "sleepers" /\ Sleepers!Next /\ Only({w1, w2, w3})
     \/ part = "all" /\ All!Next /\ Only({w1, w2})

Fairness ==
  /\ \A p \in Pid : WF_vars(part = "completions" /\ Completions!Step(p))
  /\ \A p \in {w1, w2} : WF_vars(part = "waiters" /\ Waiters!Step(p))
  /\ WF_vars(part = "waiters" /\ Waiters!__wake_up)

PartSpec == PartInit /\ [][PartNext]_<<vars, part>> /\ Fairness

-----------------------------------------------------------------------------
\* Nobody waits for ever for what is there all the time.
EveryWaiterServed ==
  /\ part = "completions" => CompletionServed
  /\ part = "waiters" => WaiterServed
=============================================================================
