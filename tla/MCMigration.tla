---------------------------- MODULE MCMigration ----------------------------
(***************************************************************************)
(* Two CPUs, for TLC, under three workloads: a behaviour stays with the    *)
(* one it starts with.                                                     *)
(***************************************************************************)
EXTENDS Migration

CONSTANTS w1, w2, w3, m0, m1
VARIABLE part

MCThread(c) == IF c = 0 THEN m0 ELSE m1

-----------------------------------------------------------------------------
\* Two workers, one of which may change the affinity of both; three that nobody moves by
\* force; and two again that run without sleep, ticks and sync wake-ups, to ask about the
\* progress of the changes.
Fixed == INSTANCE Migration WITH Worker <- {w1, w2, w3}, Setters <- {}
Quiet == INSTANCE Migration WITH Ops <- {}

ASSUME PartAssumption == MigrationAssumption /\ Fixed!MigrationAssumption

PartInit ==
  /\ part \in {"all", "fixed", "quiet"}
  /\ IF part = "fixed" THEN Fixed!Init ELSE Init

PartNext ==
  /\ UNCHANGED part
  /\ \/ part = "all" /\ Next
     \/ part = "fixed" /\ Fixed!Next
     \/ part = "quiet" /\ Quiet!Next

Fairness ==
  \A c \in Cpu : SF_vars(part = "quiet" /\ Quiet!Kernel(c)) /\ WF_vars(part = "quiet" /\ Quiet!Preempt(c))

PartSpec == PartInit /\ [][PartNext]_<<vars, part>> /\ Fairness

-----------------------------------------------------------------------------
\* IdleNotices, where no migration thread brings tasks.
IdleTold == part = "fixed" => Fixed!IdleNotices

\* RequestAnswered, for requests that nothing else delays.
RequestServed == part = "quiet" => RequestAnswered
=============================================================================
