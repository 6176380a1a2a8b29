--------------------------- MODULE MigrationProofs --------------------------
(***************************************************************************)
(* However many CPUs and tasks there are, and however they sleep, wake     *)
(* each other, are balanced and migrate, as long as none of them is        *)
(* overdue: no task runs on two CPUs, nor on one that is not its own; no   *)
(* CPUs wait for each other's locks; idle ones are told of what comes to   *)
(* their run queues; and a task stays where its mask lets it be.           *)
(***************************************************************************)
EXTENDS Migration, FiniteSetTheorems, FunctionTheorems, SequenceTheorems, WellFoundedInduction, TLAPS

\* What the assumption says of the tasks.
LEMMA Names ==
  ASSUME MigrationAssumption
  PROVE  /\ Worker \subseteq Task /\ Setters \subseteq Worker /\ 0 \in Cpu
         /\ None \notin Worker /\ Idle \notin Task /\ None \notin Cpu
         /\ None \notin Task /\ \A c \in Cpu : MThread(c) \in Task /\ MThread(c) \notin Worker
<1>1. 0 \in Cpu /\ None \notin Cpu /\ Worker \subseteq Task /\ Setters \subseteq Worker
  BY DEF MigrationAssumption, Task, Cpu
<1>2. None \notin Worker /\ Idle \notin Worker
  BY DEF MigrationAssumption
<1>3. ASSUME NEW c \in Cpu
      PROVE  MThread(c) \in Thread /\ MThread(c) \notin Worker \cup {Idle, None}
  <2>1. MThread(c) \notin Worker \cup {Idle, None}
    BY DEF MigrationAssumption, Cpu
  <2>2. MThread(c) \in Thread
    BY DEF Thread
  <2> QED BY <2>1, <2>2
<1>4. Idle \notin Thread /\ None \notin Thread
  BY <1>3 DEF Thread
<1> QED BY <1>1, <1>2, <1>3, <1>4 DEF Task

\* The thread of each CPU is at home there.
LEMMA HomeOfThread ==
  ASSUME MigrationAssumption, NEW p \in Task
  PROVE  Home(p) \in Cpu
<1>1. CASE p \in Worker
  BY <1>1, Names DEF Home
<1>2. CASE p \notin Worker
  <2>1. \E c \in Cpu : MThread(c) = p
    BY <1>2 DEF Task, Thread
  <2> QED BY <1>2, <2>1 DEF Home
<1> QED BY <1>1, <1>2

\* first_bit of a mask that is not empty is in the mask.
LEMMA FirstInMask ==
  ASSUME NEW mask \in (SUBSET Cpu) \ {{}}
  PROVE  First(mask) \in mask
<1>1. IsWellFoundedOn({ss \in Nat \X Nat : ss[1] < ss[2]}, Nat)
  BY NatLessThanWellFounded, Zenon DEF OpToRel
<1>2. mask \subseteq Nat /\ mask # {}
  BY DEF Cpu
<1>3. PICK R : R = {ss \in Nat \X Nat : ss[1] < ss[2]}
  OBVIOUS
<1>4. PICK x \in mask : \A y \in mask : ~ (<<y, x>> \in R)
  BY <1>1, <1>2, <1>3, WFMin, Zenon
<1>5. \A y \in Nat, z \in Nat : y < z => <<y, z>> \in R
  BY <1>3
<1>6. \A y \in mask : x <= y
  <2> TAKE y \in mask
  <2>1. y \in Nat /\ x \in Nat
    BY <1>2
  <2>2. ~ (y < x)
    BY <1>4, <1>5, <2>1
  <2> QED BY <2>1, <2>2
<1> QED BY <1>4, <1>6 DEF First

\* The tasks of a run queue can be counted.
LEMMA FiniteQueue ==
  ASSUME MigrationAssumption, NEW c
  PROVE  IsFiniteSet({p \in Task : q[p] = c})
<1>1. IsFiniteSet(Cpu)
  BY FS_Interval DEF MigrationAssumption, Cpu
<1>2. IsFiniteSet(Thread)
  <2>1. PICK f : f = [x \in Cpu |-> MThread(x)]
    OBVIOUS
  <2>2. f \in Surjection(Cpu, Thread)
    BY <2>1 DEF Surjection, Thread
  <2> QED BY <1>1, <2>2, FS_Surjection
<1>3. IsFiniteSet(Task)
  BY <1>2, FS_Union DEF MigrationAssumption, Task
<1> QED BY <1>3, FS_Subset

\* nr_running is a number.
LEMMA NrRunning ==
  ASSUME MigrationAssumption, NEW c
  PROVE  nr_running(c) \in Nat
BY FiniteQueue, FS_CardinalityType DEF nr_running

-----------------------------------------------------------------------------
\* What Goto does to the record of a CPU.
LEMMA GotoStep ==
  ASSUME op \in [Cpu -> OpRecord], NEW c \in Cpu, NEW l \in Places, Goto(c, l)
  PROVE  /\ op' \in [Cpu -> OpRecord] /\ \A d \in Cpu \ {c} : op'[d] = op[d]
         /\ op'[c].pc = l /\ op'[c].p = op[c].p /\ op'[c].n = op[c].n /\ op'[c].back = op[c].back
         /\ op'[c].rq = op[c].rq /\ op'[c].other = op[c].other
BY DEF Goto, OpRecord

\* The record of one CPU is another one.
LEMMA NewRecord ==
  ASSUME op \in [Cpu -> OpRecord], NEW c \in Cpu, NEW r \in OpRecord, op' = [op EXCEPT ![c] = r]
  PROVE  op' \in [Cpu -> OpRecord] /\ (\A d \in Cpu \ {c} : op'[d] = op[d]) /\ op'[c] = r
OBVIOUS

\* Back ends what the CPU was at.
LEMMA BackStep ==
  ASSUME op \in [Cpu -> OpRecord], NEW c \in Cpu, Back(c)
  PROVE  /\ op' \in [Cpu -> OpRecord] /\ \A d \in Cpu \ {c} : op'[d] = op[d]
         /\ op'[c].pc = op[c].back /\ op'[c].pc \notin Migrating
         /\ op'[c].back = "run" /\ op'[c].other = None /\ op'[c].n = 0
<1>1. op[c].back \in {"run", "picked", "ticked", "down"}
  BY DEF OpRecord
<1>2. [Running EXCEPT !.pc = op[c].back] \in OpRecord
  BY <1>1 DEF Running, OpRecord, Places
<1>3. PICK r : r = [Running EXCEPT !.pc = op[c].back]
  OBVIOUS
<1>4. r.pc = op[c].back /\ r.back = "run" /\ r.other = None /\ r.n = 0
  BY <1>3 DEF Running
<1>5. op' = [op EXCEPT ![c] = r]
  BY <1>3, Zenon DEF Back
<1> QED BY <1>1, <1>2, <1>3, <1>4, <1>5, NewRecord DEF Migrating

-----------------------------------------------------------------------------
(* What the steps that enter a place with arguments write into the record  *)
(* of their CPU.                                                           *)

LEMMA PickNoneDoes ==
  ASSUME op \in [Cpu -> OpRecord], NEW c \in Cpu, PickNone(c)
  PROVE  /\ op' \in [Cpu -> OpRecord] /\ \A d \in Cpu \ {c} : op'[d] = op[d]
         /\ op'[c].pc = "find" /\ op'[c].back = "picked" /\ op'[c].other = op[c].other
         /\ op'[c].n = op[c].n
<1>1. PICK r : r = [op[c] EXCEPT !.pc = "find", !.back = "picked"]
  OBVIOUS
<1>2. op' = [op EXCEPT ![c] = r]
  BY <1>1, Zenon DEF PickNone
<1>3. r \in OpRecord /\ r.pc = "find" /\ r.back = "picked" /\ r.other = op[c].other /\ r.n = op[c].n
  BY <1>1 DEF OpRecord, Places, Balancing
<1> QED BY <1>2, <1>3, NewRecord

LEMMA TickDoes ==
  ASSUME op \in [Cpu -> OpRecord], NEW c \in Cpu, Tick(c)
  PROVE  /\ op' \in [Cpu -> OpRecord] /\ \A d \in Cpu \ {c} : op'[d] = op[d]
         /\ op'[c].pc = "find" /\ op'[c].back = "ticked" /\ op'[c].other = op[c].other
         /\ op'[c].n = op[c].n
<1>1. PICK r : r = [op[c] EXCEPT !.pc = "find", !.back = "ticked"]
  OBVIOUS
<1>2. op' = [op EXCEPT ![c] = r]
  BY <1>1, Zenon DEF Tick
<1>3. r \in OpRecord /\ r.pc = "find" /\ r.back = "ticked" /\ r.other = op[c].other /\ r.n = op[c].n
  BY <1>1 DEF OpRecord, Places, Balancing
<1> QED BY <1>2, <1>3, NewRecord

\* find_busiest_queue finds nothing, or a queue of another CPU.
LEMMA FindDoes ==
  ASSUME MigrationAssumption, op \in [Cpu -> OpRecord], NEW c \in Cpu, BalanceFind(c), ~ Back(c)
  PROVE  /\ op' \in [Cpu -> OpRecord] /\ \A d \in Cpu \ {c} : op'[d] = op[d]
         /\ op'[c].pc = "try" /\ op'[c].rq \in Cpu \ {c}
         /\ op'[c].back = op[c].back /\ op'[c].other = op[c].other
         /\ op'[c].n \in Nat /\ op'[c].n > 0
<1>1. PICK b \in Busiest(c) :
        op' = [op EXCEPT ![c].pc = "try", ![c].rq = b,
                         ![c].n = IF IdleBalance(c) THEN 1
                                  ELSE (nr_running(b) - nr_running(c)) \div 2]
  BY Zenon DEF BalanceFind
<1>2. PICK n \in Nat \ {0} : n = IF IdleBalance(c) THEN 1 ELSE (nr_running(b) - nr_running(c)) \div 2
  <2>1. PICK k, m : k = nr_running(b) /\ m = nr_running(c)
    OBVIOUS
  <2>2. k \in Nat /\ m \in Nat
    BY <2>1, NrRunning
  <2>3. k > 1 /\ (IdleBalance(c) \/ (k - m) \div 2 >= (k + 3) \div 4)
    BY <2>1 DEF Busiest
  <2>4. ~ IdleBalance(c) => (k - m) \div 2 \in Nat \ {0}
    BY <2>2, <2>3
  <2> QED BY <2>1, <2>4
<1>3. PICK r : r = [op[c] EXCEPT !.pc = "try", !.rq = b, !.n = n]
  OBVIOUS
<1>4. op' = [op EXCEPT ![c].pc = "try", ![c].rq = b, ![c].n = n]
  BY <1>1, <1>2, Zenon
<1>5. op' = [op EXCEPT ![c] = r]
  BY <1>3, <1>4, Zenon
<1>6. b \in Cpu \ {c}
  BY DEF Busiest
<1>7. n \in Int /\ n > 0 /\ op[c] \in OpRecord
  OBVIOUS
<1>8. /\ r \in OpRecord /\ r.pc = "try" /\ r.rq = b /\ r.n = n
      /\ r.back = op[c].back /\ r.other = op[c].other
  BY <1>3, <1>6, <1>7 DEF OpRecord, Places, Balancing
<1> QED BY <1>5, <1>6, <1>7, <1>8, NewRecord

LEMMA PullDoes ==
  ASSUME op \in [Cpu -> OpRecord], NEW c \in Cpu, BalancePull(c)
  PROVE  /\ op' \in [Cpu -> OpRecord] /\ \A d \in Cpu \ {c} : op'[d] = op[d]
         /\ op'[c].pc = "pulled" /\ op'[c].rq = op[c].rq
         /\ op'[c].back = op[c].back /\ op'[c].other = op[c].other
         /\ op'[c].n = op[c].n - 1
<1>1. PICK m : m = op[c].n - 1
  OBVIOUS
<1>2. PICK r : r = [op[c] EXCEPT !.n = m, !.pc = "pulled"]
  OBVIOUS
<1>3. op' = [op EXCEPT ![c].n = op[c].n - 1, ![c].pc = "pulled"]
  BY Zenon DEF BalancePull
<1>4. op' = [op EXCEPT ![c].n = m, ![c].pc = "pulled"]
  BY <1>1, <1>3, Zenon
<1>5. op' = [op EXCEPT ![c] = r]
  BY <1>2, <1>4, Zenon
<1>6. op[c] \in OpRecord
  OBVIOUS
<1>7. m \in Int
  BY <1>1, <1>6 DEF OpRecord
<1>8. /\ r \in OpRecord /\ r.pc = "pulled" /\ r.rq = op[c].rq /\ r.n = m
      /\ r.back = op[c].back /\ r.other = op[c].other
  BY <1>2, <1>6, <1>7 DEF OpRecord, Places, Balancing
<1> QED BY <1>1, <1>5, <1>8, NewRecord

LEMMA WakeUpDoes ==
  ASSUME MigrationAssumption, op \in [Cpu -> OpRecord], NEW c \in Cpu, NEW p \in Worker, WakeUp(c, p)
  PROVE  /\ op' \in [Cpu -> OpRecord] /\ \A d \in Cpu \ {c} : op'[d] = op[d]
         /\ op'[c].pc = "wake" /\ op'[c].p = p
         /\ op'[c].back = op[c].back /\ op'[c].other = op[c].other /\ op'[c].n = op[c].n
<1>1. PICK r : r = [op[c] EXCEPT !.pc = "wake", !.p = p]
  OBVIOUS
<1>2. op' = [op EXCEPT ![c] = r]
  BY <1>1, Zenon DEF WakeUp
<1>3. /\ r \in OpRecord /\ r.pc = "wake" /\ r.p = p
      /\ r.back = op[c].back /\ r.other = op[c].other /\ r.n = op[c].n
  BY <1>1, Names DEF OpRecord, Places
<1> QED BY <1>2, <1>3, NewRecord

\* set_cpus_allowed that asks the migration thread.
LEMMA AskDoes ==
  ASSUME MigrationAssumption, op \in [Cpu -> OpRecord], NEW c \in Cpu, NEW r \in Cpu,
         op' = [op EXCEPT ![c].pc = "wake", ![c].p = MThread(r), ![c].back = "down"]
  PROVE  /\ op' \in [Cpu -> OpRecord] /\ \A d \in Cpu \ {c} : op'[d] = op[d]
         /\ op'[c].pc = "wake" /\ op'[c].p = MThread(r)
         /\ op'[c].back = "down" /\ op'[c].other = op[c].other /\ op'[c].n = op[c].n
<1>1. PICK s : s = [op[c] EXCEPT !.pc = "wake", !.p = MThread(r), !.back = "down"]
  OBVIOUS
<1>2. op' = [op EXCEPT ![c] = s]
  BY <1>1, Zenon
<1>3. MThread(r) \in Task
  BY Names
<1>4. op[c] \in OpRecord
  OBVIOUS
<1>5. /\ s \in OpRecord /\ s.pc = "wake" /\ s.p = MThread(r) /\ s.back = "down"
      /\ s.other = op[c].other /\ s.n = op[c].n
  BY <1>1, <1>3, <1>4 DEF OpRecord, Places
<1> QED BY <1>2, <1>5, NewRecord

\* The thread takes the first request.
LEMMA TakeDoes ==
  ASSUME MigrationAssumption, Typed, NEW c \in Cpu, MigrationTake(c)
  PROVE  /\ op' \in [Cpu -> OpRecord] /\ \A d \in Cpu \ {c} : op'[d] = op[d]
         /\ op'[c].pc = "dest" /\ op'[c].p = requests[c][1].task /\ op'[c].other = requests[c][1].from
         /\ op'[c].back = op[c].back /\ op'[c].p \in Worker /\ op'[c].other \in Worker
         /\ op'[c].n = op[c].n
<1>1. op \in [Cpu -> OpRecord] /\ requests \in [Cpu -> Seq([task : Worker, from : Worker])]
  BY DEF Typed
<1>2. PICK s : s = requests[c]
  OBVIOUS
<1>3. s # <<>> /\ s \in Seq([task : Worker, from : Worker])
  BY <1>1, <1>2 DEF MigrationTake
<1>4. Head(s) = s[1] /\ Head(s) \in [task : Worker, from : Worker]
  <2>1. PICK S : S = [task : Worker, from : Worker]
    OBVIOUS
  <2>2. s \in Seq(S)
    BY <1>3, <2>1
  <2>3. Head(s) = s[1] /\ Head(s) \in S
    BY <1>3, <2>2, HeadTailProperties
  <2> QED BY <2>1, <2>3
<1>5. PICK t, f : t = Head(s).task /\ f = Head(s).from
  OBVIOUS
<1>6. t \in Worker /\ f \in Worker
  BY <1>4, <1>5
<1>7. PICK r : r = [op[c] EXCEPT !.pc = "dest", !.p = t, !.other = f]
  OBVIOUS
<1>8. op' = [op EXCEPT ![c] = r]
  <2>1. op' = [op EXCEPT ![c].pc = "dest", ![c].p = t, ![c].other = f]
    BY <1>2, <1>5, Zenon DEF MigrationTake
  <2> QED BY <1>7, <2>1, Zenon
<1>9. op[c] \in OpRecord
  BY <1>1
<1>10. /\ r \in OpRecord /\ r.pc = "dest" /\ r.p = t /\ r.other = f
       /\ r.back = op[c].back /\ r.n = op[c].n
  BY <1>6, <1>7, <1>9, Names DEF OpRecord, Places, Migrating
<1>11. op' \in [Cpu -> OpRecord] /\ (\A d \in Cpu \ {c} : op'[d] = op[d]) /\ op'[c] = r
  BY <1>1, <1>8, <1>10, NewRecord
<1> QED BY <1>2, <1>4, <1>5, <1>6, <1>10, <1>11

LEMMA DestDoes ==
  ASSUME MigrationAssumption, MigrationInv, NEW c \in Cpu, MigrationDest(c)
  PROVE  /\ op' \in [Cpu -> OpRecord] /\ \A d \in Cpu \ {c} : op'[d] = op[d]
         /\ op'[c].pc = "lock1" /\ op'[c].p = op[c].p /\ op'[c].n \in cpus_allowed[op[c].p]
         /\ op'[c].back = op[c].back /\ op'[c].other = op[c].other
<1>1. op[c].pc = "dest" /\ op[c].pc \in Migrating /\ op[c] \in OpRecord
  BY DEF MigrationDest, At, Migrating, MigrationInv, Typed
<1>2. PICK n : n = First(cpus_allowed[op[c].p])
  OBVIOUS
<1>3. n \in cpus_allowed[op[c].p] /\ n \in Cpu
  <2>1. op[c].p \in Task
    BY <1>1, Names DEF MigrationInv, KeepsCPU
  <2>2. cpus_allowed[op[c].p] \in (SUBSET Cpu) \ {{}}
    BY <2>1 DEF MigrationInv, Typed
  <2> QED BY <1>2, <2>2, FirstInMask
<1>4. PICK r : r = [op[c] EXCEPT !.pc = "lock1", !.n = n]
  OBVIOUS
<1>5. op' = [op EXCEPT ![c] = r]
  <2>1. op' = [op EXCEPT ![c].pc = "lock1", ![c].n = n]
    BY <1>2, Zenon DEF MigrationDest
  <2> QED BY <1>4, <2>1, Zenon
<1>6. n \in Int
  BY <1>3 DEF Cpu
<1>7. /\ r \in OpRecord /\ r.pc = "lock1" /\ r.p = op[c].p /\ r.n = n
      /\ r.back = op[c].back /\ r.other = op[c].other
  BY <1>1, <1>4, <1>6 DEF OpRecord, Places, Migrating
<1>8. op \in [Cpu -> OpRecord]
  BY DEF MigrationInv, Typed
<1> QED BY <1>3, <1>5, <1>7, <1>8, NewRecord

LEMMA LockDoes ==
  ASSUME MigrationAssumption, MigrationInv, NEW c \in Cpu, MigrationLock(c)
  PROVE  /\ op' \in [Cpu -> OpRecord] /\ \A d \in Cpu \ {c} : op'[d] = op[d]
         /\ op[c].pc = "lock1" /\ op'[c].rq = cpu[op[c].p] /\ op'[c].rq \in Cpu /\ op[c].n \in Cpu
         /\ op'[c].pc = IF op'[c].rq = op[c].n THEN "move" ELSE "lock2"
         /\ op'[c].p = op[c].p /\ op'[c].n = op[c].n
         /\ op'[c].back = op[c].back /\ op'[c].other = op[c].other
<1>1. op[c].pc = "lock1" /\ op[c].pc \in Migrating \ {"dest"} /\ op \in [Cpu -> OpRecord]
  BY DEF MigrationLock, At, Migrating, MigrationInv, Typed
<1>2. PICK src : src = cpu[op[c].p]
  OBVIOUS
<1>3. src \in Cpu /\ op[c].n \in Cpu
  BY <1>1, <1>2, Names DEF MigrationInv, KeepsCPU, Typed
<1>4. PICK l \in {"move", "lock2"} : l = IF src = op[c].n THEN "move" ELSE "lock2"
  OBVIOUS
<1>5. PICK r : r = [op[c] EXCEPT !.rq = src, !.pc = l]
  OBVIOUS
<1>6. op' = [op EXCEPT ![c] = r]
  <2>1. op' = [op EXCEPT ![c].rq = src, ![c].pc = l]
    BY <1>2, <1>4, Zenon DEF MigrationLock
  <2> QED BY <1>5, <2>1, Zenon
<1>7. op[c] \in OpRecord
  BY <1>1
<1>8. /\ r \in OpRecord /\ r.rq = src /\ r.pc = l /\ r.p = op[c].p /\ r.n = op[c].n
      /\ r.back = op[c].back /\ r.other = op[c].other
  BY <1>3, <1>4, <1>5, <1>7 DEF OpRecord, Places, Migrating
<1>9. op' \in [Cpu -> OpRecord] /\ (\A d \in Cpu \ {c} : op'[d] = op[d]) /\ op'[c] = r
  BY <1>1, <1>6, <1>8, NewRecord
<1> QED BY <1>1, <1>2, <1>3, <1>4, <1>8, <1>9

LEMMA UpDoes ==
  ASSUME op \in [Cpu -> OpRecord], NEW c \in Cpu, up(c)
  PROVE  /\ op' \in [Cpu -> OpRecord] /\ \A d \in Cpu \ {c} : op'[d] = op[d]
         /\ op'[c].pc = "wake" /\ op'[c].p = op[c].other /\ op'[c].back = "run" /\ op'[c].other = None
         /\ op'[c].n = 0
<1>1. PICK t \in Task \cup {None} : t = op[c].other
  BY DEF OpRecord
<1>2. PICK r : r = [Running EXCEPT !.pc = "wake", !.p = t]
  OBVIOUS
<1>3. op' = [op EXCEPT ![c] = r]
  BY <1>1, <1>2, Zenon DEF up
<1>4. r \in OpRecord /\ r.pc = "wake" /\ r.p = t /\ r.back = "run" /\ r.other = None /\ r.n = 0
  <2>1. PICK s \in OpRecord : s = Running
    <3>1. Running \in OpRecord
      BY DEF Running, OpRecord, Places
    <3> QED BY <3>1, Zenon
  <2>2. r = [s EXCEPT !.pc = "wake", !.p = t]
    BY <1>2, <2>1, Zenon
  <2>3. s.back = "run" /\ s.other = None /\ s.n = 0
    BY <2>1 DEF Running
  <2> QED BY <2>2, <2>3 DEF OpRecord, Places
<1> QED BY <1>1, <1>3, <1>4, NewRecord

-----------------------------------------------------------------------------
\* Where only the CPU c goes on, the others have nothing to fear.
LEMMA Calm ==
  ASSUME MigrationInv, NEW c \in Cpu, UNCHANGED <<q, cpu, curr>>, Typed',
         \A d \in Cpu \ {c} : op'[d] = op[d], KeepsCPU(c)', IsLeaving(c)'
  PROVE  MigrationInv'
<1>1. LinkedAtHome' /\ CurrentAtHome'
  BY DEF MigrationInv, LinkedAtHome, CurrentAtHome
<1>2. ASSUME NEW d \in Cpu PROVE KeepsCPU(d)' /\ IsLeaving(d)'
  <2>1. CASE d = c
    BY <2>1
  <2>2. CASE d # c
    BY <2>2 DEF MigrationInv, KeepsCPU, IsLeaving
  <2> QED BY <2>1, <2>2
<1> QED BY <1>1, <1>2 DEF MigrationInv

\* A task that is nobody's current one may change its CPU, with its run queue if it is in one.
LEMMA Moved ==
  ASSUME MigrationInv, NEW p \in Task, NEW d \in Cpu, p # curr[cpu[p]], curr' = curr,
         cpu' = [cpu EXCEPT ![p] = d],
         q' = [q EXCEPT ![p] = d] \/ (q[p] = None /\ q' = q)
  PROVE  /\ q' \in [Task -> Cpu \cup {None}] /\ cpu' \in [Task -> Cpu]
         /\ LinkedAtHome' /\ CurrentAtHome'
         /\ \A c \in Cpu : curr[c] # Idle => curr[c] \in Task /\ q'[curr[c]] = q[curr[c]]
<1>1. /\ q \in [Task -> Cpu \cup {None}] /\ cpu \in [Task -> Cpu]
      /\ curr \in [Cpu -> Task \cup {Idle}] /\ LinkedAtHome /\ CurrentAtHome
  BY DEF MigrationInv, Typed
<1>2. ASSUME NEW c \in Cpu, curr[c] # Idle PROVE curr[c] \in Task /\ curr[c] # p
  BY <1>1, <1>2 DEF CurrentAtHome
<1>3. q' \in [Task -> Cpu \cup {None}] /\ cpu' \in [Task -> Cpu]
  BY <1>1
<1>4. LinkedAtHome'
  BY <1>1 DEF LinkedAtHome
<1>5. CurrentAtHome'
  BY <1>1, <1>2 DEF CurrentAtHome
<1>6. \A c \in Cpu : curr[c] # Idle => curr[c] \in Task /\ q'[curr[c]] = q[curr[c]]
  BY <1>1, <1>2
<1> QED BY <1>3, <1>4, <1>5, <1>6

-----------------------------------------------------------------------------
LEMMA InitInv ==
  ASSUME MigrationAssumption, Init
  PROVE  MigrationInv
<1>1. PICK w \in Worker : /\ curr = [c \in Cpu |-> IF c = 0 THEN w ELSE Idle]
                          /\ q[w] = 0 /\ cpu[w] = 0
  <2>1. PICK w : w = CHOOSE v \in Worker : TRUE
    OBVIOUS
  <2>2. w \in Worker
    BY <2>1 DEF MigrationAssumption
  <2>3. w \in Task /\ Home(w) = 0
    BY <2>2, Names DEF Home
  <2> QED BY <2>1, <2>2, <2>3 DEF Init
<1>2. Running \in OpRecord /\ Running.pc = "run"
  BY DEF Running, OpRecord, Places
<1>3. \A p \in Task : Home(p) \in Cpu /\ (p \in Worker => Home(p) = 0)
  BY HomeOfThread DEF Home
<1>4. \A c \in Cpu : op[c] = Running
  BY DEF Init
<1>5. Typed
  <2>1. lock \in [Cpu -> Cpu \cup {None}] /\ need_resched \in [Cpu -> BOOLEAN]
    BY DEF Init
  <2>2. q \in [Task -> Cpu \cup {None}] /\ cpu \in [Task -> Cpu]
    BY <1>3, Names DEF Init
  <2>3. state \in [Task -> {"RUNNING", "INTERRUPTIBLE", "UNINTERRUPTIBLE"}]
    BY DEF Init
  <2>4. cpus_allowed \in [Task -> (SUBSET Cpu) \ {{}}]
    BY <1>3, Names DEF Init
  <2>5. curr \in [Cpu -> Task \cup {Idle}]
    BY <1>1, Names
  <2>6. requests \in [Cpu -> Seq([task : Worker, from : Worker])]
    BY DEF Init
  <2>7. op \in [Cpu -> OpRecord]
    BY <1>2 DEF Init
  <2> QED BY <2>1, <2>2, <2>3, <2>4, <2>5, <2>6, <2>7 DEF Typed
<1>6. LinkedAtHome
  BY <1>3 DEF LinkedAtHome, Init
<1>7. CurrentAtHome
  BY <1>1 DEF CurrentAtHome
<1>8. \A c \in Cpu : KeepsCPU(c)
  BY <1>2, <1>4 DEF KeepsCPU, Migrating
<1>9. \A c \in Cpu : IsLeaving(c)
  BY <1>1, Names DEF IsLeaving
<1> QED BY <1>5, <1>6, <1>7, <1>8, <1>9 DEF MigrationInv

-----------------------------------------------------------------------------
\* schedule().

LEMMA SleepStep ==
  ASSUME MigrationAssumption, MigrationInv, NEW c \in Cpu, Sleep(c) \/ Preempt(c)
  PROVE  MigrationInv'
<1>1. Goto(c, "sched") /\ At(c, "run") /\ "sched" \in Places
  BY DEF Sleep, Preempt, Places
<1>2. UNCHANGED <<lock, q, cpu, cpus_allowed, curr, need_resched, requests>>
  BY DEF Sleep, Preempt, taskVars
<1>3. op' \in [Cpu -> OpRecord] /\ (\A d \in Cpu \ {c} : op'[d] = op[d]) /\ op'[c].pc = "sched"
  BY <1>1, GotoStep DEF MigrationInv, Typed
<1>4. Typed'
  BY <1>2, <1>3 DEF MigrationInv, Typed, Sleep, Preempt, taskVars
<1>5. KeepsCPU(c)'
  BY <1>3 DEF KeepsCPU, Migrating
<1>6. IsLeaving(c)'
  BY <1>1, <1>2 DEF MigrationInv, IsLeaving, At, Balancing
<1> QED BY <1>2, <1>3, <1>4, <1>5, <1>6, Calm

\* The task that leaves is the current one of no other CPU.
LEMMA PutPrevStep ==
  ASSUME MigrationAssumption, MigrationInv, NEW c \in Cpu, PutPrev(c)
  PROVE  MigrationInv'
<1>1. Goto(c, "pick") /\ "pick" \in Places /\ UNCHANGED <<cpu, state, cpus_allowed, curr, need_resched, requests>>
  BY DEF PutPrev, Places
<1>2. op' \in [Cpu -> OpRecord] /\ (\A d \in Cpu \ {c} : op'[d] = op[d]) /\ op'[c].pc = "pick"
  BY <1>1, GotoStep DEF MigrationInv, Typed
<1>3. \A p \in Task : q'[p] = q[p] \/ (p = curr[c] /\ curr[c] # Idle /\ q'[p] = None)
  BY DEF PutPrev, MigrationInv, Typed
<1>4. Typed'
  BY <1>1, <1>2 DEF MigrationInv, Typed, PutPrev
<1>5. LinkedAtHome' /\ CurrentAtHome'
  BY <1>1, <1>3 DEF MigrationInv, LinkedAtHome, CurrentAtHome
<1>6. ASSUME NEW d \in Cpu PROVE KeepsCPU(d)' /\ IsLeaving(d)'
  <2>1. CASE d = c
    BY <1>2, <2>1 DEF KeepsCPU, IsLeaving, Migrating
  <2>2. CASE d # c
    <3>1. curr[d] # Idle => curr[d] \in Task /\ curr[d] # curr[c]
      BY <2>2 DEF MigrationInv, Typed, CurrentAtHome
    <3>2. curr[d] # Idle => q'[curr[d]] = q[curr[d]]
      BY <1>3, <3>1
    <3> QED BY <1>1, <1>2, <2>2, <3>2 DEF MigrationInv, KeepsCPU, IsLeaving
  <2> QED BY <2>1, <2>2
<1> QED BY <1>4, <1>5, <1>6 DEF MigrationInv

\* What a CPU switches to is in its run queue, or is the idle task.
LEMMA SwitchStep ==
  ASSUME MigrationAssumption, MigrationInv, NEW c \in Cpu, NEW p \in Task \cup {Idle},
         p # Idle => q[p] = c, SwitchTo(c, p), UNCHANGED <<taskVars, requests>>
  PROVE  MigrationInv'
<1>1. PICK l \in {"down", "run"} : Goto(c, l)
  BY DEF SwitchTo
<1>2. l \in Places
  BY <1>1 DEF Places
<1>3. op' \in [Cpu -> OpRecord] /\ (\A d \in Cpu \ {c} : op'[d] = op[d]) /\ op'[c].pc = l
  BY <1>1, <1>2, GotoStep DEF MigrationInv, Typed
<1>4. Typed'
  BY <1>3 DEF MigrationInv, Typed, SwitchTo, taskVars
<1>5. p # Idle => cpu[p] = c /\ q[p] # None
  BY Names DEF MigrationInv, LinkedAtHome
<1>6. curr'[c] = p /\ \A d \in Cpu \ {c} : curr'[d] = curr[d]
  BY DEF SwitchTo, MigrationInv, Typed
<1>7. LinkedAtHome' /\ CurrentAtHome'
  BY <1>5, <1>6 DEF MigrationInv, LinkedAtHome, CurrentAtHome, taskVars
<1>8. ASSUME NEW d \in Cpu PROVE KeepsCPU(d)' /\ IsLeaving(d)'
  <2>1. CASE d = c
    BY <1>1, <1>3, <1>5, <1>6, <2>1 DEF KeepsCPU, IsLeaving, Migrating, taskVars
  <2>2. CASE d # c
    BY <1>3, <1>6, <2>2 DEF MigrationInv, KeepsCPU, IsLeaving, taskVars
  <2> QED BY <2>1, <2>2
<1> QED BY <1>4, <1>7, <1>8 DEF MigrationInv

LEMMA PickNextStep ==
  ASSUME MigrationAssumption, MigrationInv, NEW c \in Cpu, PickNext(c)
  PROVE  MigrationInv'
<1>1. PICK p \in Next_task(c) : SwitchTo(c, p)
  BY DEF PickNext
<1>2. p \in Task /\ q[p] = c
  BY Names DEF Next_task
<1> QED BY <1>1, <1>2, SwitchStep DEF PickNext

LEMMA PickNoneStep ==
  ASSUME MigrationAssumption, MigrationInv, NEW c \in Cpu, PickNone(c)
  PROVE  MigrationInv'
<1>1. UNCHANGED <<lock, q, cpu, state, cpus_allowed, curr, need_resched, requests>>
  BY DEF PickNone, taskVars
<1>2. /\ op' \in [Cpu -> OpRecord] /\ (\A d \in Cpu \ {c} : op'[d] = op[d])
      /\ op'[c].pc = "find" /\ op'[c].back = "picked"
  <2>1. op \in [Cpu -> OpRecord]
    BY DEF MigrationInv, Typed
  <2> QED BY <2>1, PickNoneDoes
<1>3. Typed'
  BY <1>1, <1>2 DEF MigrationInv, Typed
<1>4. KeepsCPU(c)' /\ IsLeaving(c)'
  BY <1>2 DEF KeepsCPU, IsLeaving, Migrating, Balancing
<1> QED BY <1>1, <1>2, <1>3, <1>4, Calm

LEMMA AfterBalanceStep ==
  ASSUME MigrationAssumption, MigrationInv, NEW c \in Cpu, AfterBalance(c)
  PROVE  MigrationInv'
<1>1. CASE SwitchTo(c, Idle)
  BY <1>1, SwitchStep DEF AfterBalance
<1>2. CASE Goto(c, "pick") /\ UNCHANGED <<lock, curr, need_resched>>
  <2>1. UNCHANGED <<lock, q, cpu, state, cpus_allowed, curr, need_resched, requests>> /\ "pick" \in Places
    BY <1>2 DEF AfterBalance, taskVars, Places
  <2>2. op' \in [Cpu -> OpRecord] /\ (\A d \in Cpu \ {c} : op'[d] = op[d]) /\ op'[c].pc = "pick"
    BY <1>2, <2>1, GotoStep DEF MigrationInv, Typed
  <2>3. Typed'
    BY <2>1, <2>2 DEF MigrationInv, Typed
  <2>4. KeepsCPU(c)' /\ IsLeaving(c)'
    BY <2>2 DEF KeepsCPU, IsLeaving, Migrating
  <2> QED BY <2>1, <2>2, <2>3, <2>4, Calm
<1> QED BY <1>1, <1>2 DEF AfterBalance

-----------------------------------------------------------------------------
\* load_balance.

LEMMA TickStep ==
  ASSUME MigrationAssumption, MigrationInv, NEW c \in Cpu, Tick(c)
  PROVE  MigrationInv'
<1>1. UNCHANGED <<q, cpu, state, cpus_allowed, curr, need_resched, requests>> /\ At(c, "run")
  BY DEF Tick, taskVars
<1>2. /\ op' \in [Cpu -> OpRecord] /\ (\A d \in Cpu \ {c} : op'[d] = op[d])
      /\ op'[c].pc = "find"
  <2>1. op \in [Cpu -> OpRecord]
    BY DEF MigrationInv, Typed
  <2> QED BY <2>1, TickDoes
<1>3. Typed'
  BY <1>1, <1>2 DEF MigrationInv, Typed, Tick
<1>4. KeepsCPU(c)'
  BY <1>2 DEF KeepsCPU, Migrating
<1>5. IsLeaving(c)'
  BY <1>1 DEF MigrationInv, IsLeaving, At, Balancing
<1> QED BY <1>1, <1>2, <1>3, <1>4, <1>5, Calm

LEMMA TickedStep ==
  ASSUME MigrationAssumption, MigrationInv, NEW c \in Cpu, Ticked(c)
  PROVE  MigrationInv'
<1>1. /\ UNCHANGED <<q, cpu, state, cpus_allowed, curr, need_resched, requests>> /\ At(c, "ticked")
      /\ Goto(c, "run") /\ "run" \in Places
  BY DEF Ticked, taskVars, Places
<1>2. op' \in [Cpu -> OpRecord] /\ (\A d \in Cpu \ {c} : op'[d] = op[d]) /\ op'[c].pc = "run"
  BY <1>1, GotoStep DEF MigrationInv, Typed
<1>3. Typed'
  BY <1>1, <1>2 DEF MigrationInv, Typed, Ticked
<1>4. KeepsCPU(c)'
  BY <1>2 DEF KeepsCPU, Migrating
<1>5. IsLeaving(c)'
  BY <1>1 DEF MigrationInv, IsLeaving, At, Balancing
<1> QED BY <1>1, <1>2, <1>3, <1>4, <1>5, Calm

\* A CPU ends its balancing where it was called from, so that a task on its way out
\* is in schedule() again.
LEMMA BackInv ==
  ASSUME MigrationAssumption, MigrationInv, NEW c \in Cpu, op[c].pc \in Balancing, Back(c),
         UNCHANGED <<q, cpu, state, cpus_allowed, curr, need_resched, requests>>,
         lock' \in [Cpu -> Cpu \cup {None}]
  PROVE  MigrationInv'
<1>1. op \in [Cpu -> OpRecord]
  BY DEF MigrationInv, Typed
<1>2. /\ op' \in [Cpu -> OpRecord] /\ (\A d \in Cpu \ {c} : op'[d] = op[d])
      /\ op'[c].pc = op[c].back /\ op'[c].pc \notin Migrating
  BY <1>1, BackStep
<1>3. Typed'
  BY <1>2 DEF MigrationInv, Typed
<1>4. KeepsCPU(c)'
  BY <1>2 DEF KeepsCPU
<1>5. IsLeaving(c)'
  BY <1>2 DEF MigrationInv, IsLeaving, Balancing
<1> QED BY <1>2, <1>3, <1>4, <1>5, Calm

\* As long as it balances, c is where it was.
LEMMA BalancingOn ==
  ASSUME MigrationAssumption, MigrationInv, NEW c \in Cpu, op[c].pc \in Balancing,
         op' \in [Cpu -> OpRecord], \A d \in Cpu \ {c} : op'[d] = op[d],
         op'[c].pc \in Balancing, op'[c].back = op[c].back,
         UNCHANGED <<q, cpu, state, cpus_allowed, curr, need_resched, requests>>,
         lock' \in [Cpu -> Cpu \cup {None}]
  PROVE  MigrationInv'
<1>1. Typed'
  BY DEF MigrationInv, Typed
<1>2. KeepsCPU(c)'
  BY DEF KeepsCPU, Balancing, Migrating
<1>3. IsLeaving(c)'
  BY DEF MigrationInv, IsLeaving, Balancing
<1> QED BY <1>1, <1>2, <1>3, Calm

LEMMA BalanceFindStep ==
  ASSUME MigrationAssumption, MigrationInv, NEW c \in Cpu, BalanceFind(c)
  PROVE  MigrationInv'
<1>1. /\ UNCHANGED <<lock, q, cpu, state, cpus_allowed, curr, need_resched, requests>>
      /\ op[c].pc \in Balancing
  BY DEF BalanceFind, taskVars, At, Balancing
<1>2. op \in [Cpu -> OpRecord] /\ lock' \in [Cpu -> Cpu \cup {None}]
  BY <1>1 DEF MigrationInv, Typed
<1>3. CASE Back(c)
  BY <1>1, <1>2, <1>3, BackInv
<1>4. CASE ~ Back(c)
  <2>1. /\ op' \in [Cpu -> OpRecord] /\ \A d \in Cpu \ {c} : op'[d] = op[d]
        /\ op'[c].pc \in Balancing /\ op'[c].back = op[c].back
    BY <1>2, <1>4, FindDoes DEF Balancing
  <2> QED BY <1>1, <1>2, <2>1, BalancingOn
<1> QED BY <1>3, <1>4

LEMMA BalanceLockStep ==
  ASSUME MigrationAssumption, MigrationInv, NEW c \in Cpu, BalanceTry(c) \/ BalanceLock(c)
  PROVE  MigrationInv'
<1>1. /\ UNCHANGED <<q, cpu, state, cpus_allowed, curr, need_resched, requests>>
      /\ op[c].pc \in Balancing
  BY DEF BalanceTry, BalanceLock, taskVars, At, Balancing
<1>2. op \in [Cpu -> OpRecord] /\ lock' \in [Cpu -> Cpu \cup {None}]
  <2>1. PICK d : lock' = [lock EXCEPT ![d] = c] \/ lock' = [lock EXCEPT ![d] = None] \/ lock' = lock
    <3>1. CASE BalanceTry(c)
      BY <3>1, Zenon DEF BalanceTry
    <3>2. CASE BalanceLock(c)
      BY <3>2, Zenon DEF BalanceLock
    <3> QED BY <3>1, <3>2
  <2>2. lock \in [Cpu -> Cpu \cup {None}] /\ op \in [Cpu -> OpRecord]
    BY DEF MigrationInv, Typed
  <2> QED BY <2>1, <2>2
<1>3. PICK l \in Balancing : Goto(c, l)
  <2>1. \E l \in {"spin", "lock_busiest", "lock_own", "pull"} : Goto(c, l)
    <3>1. CASE BalanceTry(c)
      BY <3>1, Zenon DEF BalanceTry
    <3>2. CASE BalanceLock(c)
      BY <3>2, Zenon DEF BalanceLock
    <3> QED BY <3>1, <3>2
  <2> QED BY <2>1 DEF Balancing
<1>4. l \in Places
  BY <1>3 DEF Places
<1>5. /\ op' \in [Cpu -> OpRecord] /\ (\A d \in Cpu \ {c} : op'[d] = op[d])
      /\ op'[c].pc \in Balancing /\ op'[c].back = op[c].back
  BY <1>2, <1>3, <1>4, GotoStep
<1> QED BY <1>1, <1>2, <1>5, BalancingOn

\* What is taken from another CPU is not what runs there.
LEMMA BalancePullStep ==
  ASSUME MigrationAssumption, MigrationInv, NEW c \in Cpu, BalancePull(c)
  PROVE  MigrationInv'
<1>1. UNCHANGED <<lock, state, cpus_allowed, curr, requests>> /\ op[c].pc \in Balancing
  BY DEF BalancePull, At, Balancing
<1>2. PICK p \in Worker :
        /\ q[p] = op[c].rq /\ InArray(p) /\ p # curr[op[c].rq]
        /\ q' = [q EXCEPT ![p] = c] /\ cpu' = [cpu EXCEPT ![p] = c]
        /\ \E better \in Preempts(p, c) : need_resched' = [need_resched EXCEPT ![c] = @ \/ better]
  BY DEF BalancePull, CAN_MIGRATE_TASK
<1>3. p \in Task /\ cpu[p] = op[c].rq
  BY <1>2, Names DEF MigrationInv, LinkedAtHome, InArray
<1>4. /\ q' \in [Task -> Cpu \cup {None}] /\ cpu' \in [Task -> Cpu]
      /\ LinkedAtHome' /\ CurrentAtHome'
      /\ \A d \in Cpu : curr[d] # Idle => curr[d] \in Task /\ q'[curr[d]] = q[curr[d]]
  BY <1>1, <1>2, <1>3, Moved
<1>5. /\ op' \in [Cpu -> OpRecord] /\ (\A d \in Cpu \ {c} : op'[d] = op[d])
      /\ op'[c].pc \in Balancing /\ op'[c].back = op[c].back
  <2>1. op \in [Cpu -> OpRecord]
    BY DEF MigrationInv, Typed
  <2> QED BY <2>1, PullDoes DEF Balancing
<1>6. need_resched' \in [Cpu -> BOOLEAN]
  BY <1>2 DEF MigrationInv, Typed
<1>7. Typed'
  BY <1>1, <1>4, <1>5, <1>6 DEF MigrationInv, Typed
<1>8. ASSUME NEW d \in Cpu PROVE KeepsCPU(d)' /\ IsLeaving(d)'
  <2>1. CASE d = c
    <3>1. KeepsCPU(d)'
      BY <1>5, <2>1 DEF KeepsCPU, Migrating, Balancing
    <3>2. IsLeaving(d)'
      BY <1>1, <1>4, <1>5, <2>1 DEF MigrationInv, IsLeaving, Balancing
    <3> QED BY <3>1, <3>2
  <2>2. CASE d # c
    BY <1>1, <1>4, <1>5, <2>2 DEF MigrationInv, KeepsCPU, IsLeaving
  <2> QED BY <2>1, <2>2
<1> QED BY <1>4, <1>7, <1>8 DEF MigrationInv

LEMMA BalanceEndStep ==
  ASSUME MigrationAssumption, MigrationInv, NEW c \in Cpu, BalanceEnd(c)
  PROVE  MigrationInv'
<1>1. /\ UNCHANGED <<q, cpu, state, cpus_allowed, curr, need_resched, requests>>
      /\ op[c].pc \in Balancing /\ Back(c)
  BY DEF BalanceEnd, taskVars, At, Balancing
<1>2. lock' \in [Cpu -> Cpu \cup {None}]
  BY DEF MigrationInv, Typed, BalanceEnd
<1> QED BY <1>1, <1>2, BackInv

-----------------------------------------------------------------------------
\* try_to_wake_up and set_cpus_allowed.

LEMMA WakeUpStep ==
  ASSUME MigrationAssumption, MigrationInv, NEW c \in Cpu, NEW p \in Worker, WakeUp(c, p)
  PROVE  MigrationInv'
<1>1. UNCHANGED <<lock, q, cpu, state, cpus_allowed, curr, need_resched, requests>> /\ At(c, "run")
  BY DEF WakeUp, taskVars
<1>2. /\ op' \in [Cpu -> OpRecord] /\ (\A d \in Cpu \ {c} : op'[d] = op[d])
      /\ op'[c].pc = "wake"
  <2>1. op \in [Cpu -> OpRecord]
    BY DEF MigrationInv, Typed
  <2> QED BY <2>1, WakeUpDoes
<1>3. Typed'
  BY <1>1, <1>2 DEF MigrationInv, Typed
<1>4. KeepsCPU(c)'
  BY <1>2 DEF KeepsCPU, Migrating
<1>5. IsLeaving(c)'
  BY <1>1 DEF MigrationInv, IsLeaving, At, Balancing
<1> QED BY <1>1, <1>2, <1>3, <1>4, <1>5, Calm

\* Who moves without an action of its own CPU is in no run queue and runs nowhere.
LEMMA MovedAlone ==
  ASSUME MigrationAssumption, MigrationInv, NEW p \in Task, NEW d \in Cpu,
         p # curr[cpu[p]], q[p] = None, cpu' = [cpu EXCEPT ![p] = d],
         UNCHANGED <<lock, q, state, curr, need_resched, requests, op>>,
         cpus_allowed' \in [Task -> (SUBSET Cpu) \ {{}}]
  PROVE  MigrationInv'
<1>1. cpu' \in [Task -> Cpu] /\ LinkedAtHome' /\ CurrentAtHome'
  BY Moved
<1>2. Typed'
  BY <1>1 DEF MigrationInv, Typed
<1>3. \A c \in Cpu : KeepsCPU(c)' /\ IsLeaving(c)'
  BY DEF MigrationInv, KeepsCPU, IsLeaving
<1> QED BY <1>1, <1>2, <1>3 DEF MigrationInv

LEMMA FastMigrateStep ==
  ASSUME MigrationAssumption, MigrationInv, NEW c \in Cpu, FastMigrate(c)
  PROVE  MigrationInv'
<1>1. PICK p \in Worker : p # curr[cpu[p]] /\ q[p] = None /\ cpu' = [cpu EXCEPT ![p] = c]
  BY DEF FastMigrate, FastMigrates
<1>2. p \in Task
  BY <1>1, Names
<1>3. UNCHANGED <<lock, q, state, curr, need_resched, requests, op, cpus_allowed>>
  BY DEF FastMigrate
<1>4. cpus_allowed' \in [Task -> (SUBSET Cpu) \ {{}}]
  BY <1>3 DEF MigrationInv, Typed
<1> QED BY <1>1, <1>2, <1>3, <1>4, MovedAlone

LEMMA WakeStep ==
  ASSUME MigrationAssumption, MigrationInv, NEW c \in Cpu, try_to_wake_up(c)
  PROVE  MigrationInv'
<1>1. UNCHANGED <<lock, cpu, cpus_allowed, curr, requests>> /\ At(c, "wake") /\ Back(c)
  BY DEF try_to_wake_up
<1>2. PICK p : p = op[c].p
  OBVIOUS
<1>3. PICK r : r = cpu[p]
  OBVIOUS
<1>4. /\ state' = [state EXCEPT ![p] = "RUNNING"]
      /\ \/ UNCHANGED <<q, need_resched>>
         \/ /\ q[p] = None /\ q' = [q EXCEPT ![p] = r]
            /\ \E b \in Preempts(p, r) : need_resched' = [need_resched EXCEPT ![r] = @ \/ b]
  BY <1>2, <1>3, Zenon DEF try_to_wake_up
<1>5. p \in Task \cup {None} /\ (p \in Task => r \in Cpu)
  BY <1>2, <1>3 DEF MigrationInv, Typed, OpRecord
<1>6. q' = q \/ (p \in Task /\ r \in Cpu /\ r = cpu[p] /\ q' = [q EXCEPT ![p] = r])
  <2>1. q \in [Task -> Cpu \cup {None}]
    BY DEF MigrationInv, Typed
  <2>2. CASE p \in Task
    BY <1>3, <1>4, <1>5, <2>2
  <2>3. CASE p \notin Task
    BY <1>4, <2>1, <2>3
  <2> QED BY <2>2, <2>3
<1>7. q' \in [Task -> Cpu \cup {None}]
  BY <1>6 DEF MigrationInv, Typed
<1>8. state' \in [Task -> {"RUNNING", "INTERRUPTIBLE", "UNINTERRUPTIBLE"}]
  BY <1>4 DEF MigrationInv, Typed
<1>9. need_resched' \in [Cpu -> BOOLEAN]
  BY <1>4 DEF MigrationInv, Typed
<1>10. /\ op' \in [Cpu -> OpRecord] /\ (\A d \in Cpu \ {c} : op'[d] = op[d])
       /\ op'[c].pc \notin Migrating
  BY <1>1, BackStep DEF MigrationInv, Typed
<1>11. Typed'
  BY <1>1, <1>7, <1>8, <1>9, <1>10 DEF MigrationInv, Typed
<1>12. LinkedAtHome'
  BY <1>1, <1>6 DEF MigrationInv, Typed, LinkedAtHome
<1>13. CurrentAtHome'
  BY <1>1 DEF MigrationInv, CurrentAtHome
<1>14. \A t \in Task : q[t] # None => q'[t] # None
  <2>1. q \in [Task -> Cpu \cup {None}] /\ None \notin Cpu
    BY Names DEF MigrationInv, Typed
  <2> QED BY <1>6, <2>1
<1>15. ASSUME NEW d \in Cpu PROVE KeepsCPU(d)' /\ IsLeaving(d)'
  <2>1. curr[d] # Idle => curr[d] \in Task
    BY DEF MigrationInv, Typed
  <2>2. CASE d = c
    <3>1. KeepsCPU(d)'
      BY <1>10, <2>2 DEF KeepsCPU
    <3>2. curr[d] # Idle => q[curr[d]] # None
      BY <1>1, <2>2 DEF MigrationInv, IsLeaving, At, Balancing
    <3>3. IsLeaving(d)'
      BY <1>1, <1>14, <2>1, <3>2 DEF IsLeaving
    <3> QED BY <3>1, <3>3
  <2>3. CASE d # c
    <3>1. op'[d] = op[d] /\ KeepsCPU(d) /\ IsLeaving(d)
      BY <1>10, <2>3 DEF MigrationInv
    <3>2. KeepsCPU(d)'
      BY <1>1, <3>1 DEF KeepsCPU
    <3>3. IsLeaving(d)'
      BY <1>1, <1>14, <2>1, <3>1 DEF IsLeaving
    <3> QED BY <3>2, <3>3
  <2> QED BY <2>2, <2>3
<1> QED BY <1>11, <1>12, <1>13, <1>15 DEF MigrationInv

LEMMA SetAllowedStep ==
  ASSUME MigrationAssumption, Overdue = {}, MigrationInv, NEW c \in Cpu, NEW p \in Worker,
         NEW mask \in (SUBSET Cpu) \ {{}}, set_cpus_allowed(c, p, mask)
  PROVE  MigrationInv'
<1>1. /\ UNCHANGED <<lock, q, state, curr, need_resched>> /\ At(c, "run") /\ curr[c] \in Worker
      /\ p \in Task
  BY Names DEF set_cpus_allowed
<1>2. cpus_allowed' \in [Task -> (SUBSET Cpu) \ {{}}]
  BY DEF set_cpus_allowed, MigrationInv, Typed
<1>3. CASE UNCHANGED <<cpu, requests, op>>
  <2>1. Typed'
    BY <1>1, <1>2, <1>3 DEF MigrationInv, Typed
  <2>2. LinkedAtHome' /\ CurrentAtHome'
    BY <1>1, <1>3 DEF MigrationInv, LinkedAtHome, CurrentAtHome
  <2>3. \A d \in Cpu : KeepsCPU(d)' /\ IsLeaving(d)'
    BY <1>1, <1>3 DEF MigrationInv, KeepsCPU, IsLeaving
  <2> QED BY <2>1, <2>2, <2>3 DEF MigrationInv
<1>4. CASE NotRunning(p) /\ cpu' = [cpu EXCEPT ![p] = First(mask)] /\ UNCHANGED <<requests, op>>
  <2>1. First(mask) \in Cpu
    BY FirstInMask
  <2>2. p # curr[cpu[p]] /\ q[p] = None
    BY <1>4 DEF NotRunning, InArray
  <2> QED BY <1>1, <1>2, <1>4, <2>1, <2>2, MovedAlone
<1>5. ASSUME UNCHANGED cpu,
             requests' = [requests EXCEPT ![cpu[p]] = <<[task |-> p, from |-> curr[c]]>> \o @],
             op' = [op EXCEPT ![c].pc = "wake", ![c].p = MThread(cpu[p]), ![c].back = "down"]
      PROVE  MigrationInv'
  <2>1. op \in [Cpu -> OpRecord] /\ requests \in [Cpu -> Seq([task : Worker, from : Worker])]
    BY DEF MigrationInv, Typed
  <2>2. PICK r : r = cpu[p]
    OBVIOUS
  <2>3. r \in Cpu /\ MThread(r) \in Task
    BY <1>1, <2>2, Names DEF MigrationInv, Typed
  <2>4. requests' \in [Cpu -> Seq([task : Worker, from : Worker])]
    <3>1. PICK e \in [task : Worker, from : Worker] : e = [task |-> p, from |-> curr[c]]
      BY <1>1
    <3>2. <<e>> \o requests[r] \in Seq([task : Worker, from : Worker])
      <4>1. PICK S : S = [task : Worker, from : Worker]
        OBVIOUS
      <4>2. requests[r] \in Seq(S)
        BY <2>1, <2>3, <4>1
      <4>3. e \in S
        BY <4>1
      <4>4. <<e>> \in Seq(S)
        BY <4>3
      <4>5. <<e>> \o requests[r] \in Seq(S)
        BY <4>2, <4>4, ConcatProperties
      <4> QED BY <4>1, <4>5, Zenon
    <3>3. requests' = [requests EXCEPT ![r] = <<e>> \o requests[r]]
      <4>1. requests' = [requests EXCEPT ![r] = <<[task |-> p, from |-> curr[c]]>> \o @]
        BY <1>5, <2>2, Zenon
      <4> QED BY <3>1, <4>1, Zenon
    <3> QED BY <2>1, <3>2, <3>3
  <2>5. op' = [op EXCEPT ![c].pc = "wake", ![c].p = MThread(r), ![c].back = "down"]
    BY <1>5, <2>2, Zenon
  <2>6. op' \in [Cpu -> OpRecord] /\ (\A d \in Cpu \ {c} : op'[d] = op[d]) /\ op'[c].pc = "wake"
    BY <2>1, <2>3, <2>5, AskDoes
  <2>7. Typed'
    BY <1>1, <1>2, <1>5, <2>4, <2>6 DEF MigrationInv, Typed
  <2>8. KeepsCPU(c)'
    BY <2>6 DEF KeepsCPU, Migrating
  <2>9. IsLeaving(c)'
    BY <1>1 DEF MigrationInv, IsLeaving, At, Balancing
  <2> QED BY <1>1, <1>5, <2>6, <2>7, <2>8, <2>9, Calm
<1> QED BY <1>3, <1>4, <1>5 DEF set_cpus_allowed

LEMMA DownStep ==
  ASSUME MigrationAssumption, MigrationInv, NEW c \in Cpu, down(c)
  PROVE  MigrationInv'
<1>1. UNCHANGED <<lock, q, cpu, cpus_allowed, curr, need_resched, requests>> /\ At(c, "down")
  BY DEF down
<1>2. PICK l \in {"run", "sched"} : Goto(c, l)
  BY DEF down
<1>3. l \in Places
  BY <1>2 DEF Places
<1>4. op' \in [Cpu -> OpRecord] /\ (\A d \in Cpu \ {c} : op'[d] = op[d]) /\ op'[c].pc = l
  BY <1>2, <1>3, GotoStep DEF MigrationInv, Typed
<1>5. state' \in [Task -> {"RUNNING", "INTERRUPTIBLE", "UNINTERRUPTIBLE"}]
  BY DEF MigrationInv, Typed, down
<1>6. Typed'
  BY <1>1, <1>4, <1>5 DEF MigrationInv, Typed
<1>7. KeepsCPU(c)'
  BY <1>2, <1>4 DEF KeepsCPU, Migrating
<1>8. IsLeaving(c)'
  BY <1>1 DEF MigrationInv, IsLeaving, At, Balancing
<1> QED BY <1>1, <1>4, <1>6, <1>7, <1>8, Calm

-----------------------------------------------------------------------------
\* migration_thread.

LEMMA MigrationWaitStep ==
  ASSUME MigrationAssumption, MigrationInv, NEW c \in Cpu, MigrationWait(c)
  PROVE  MigrationInv'
<1>1. /\ UNCHANGED <<lock, q, cpu, cpus_allowed, curr, need_resched, requests>> /\ At(c, "run")
      /\ Goto(c, "sched") /\ "sched" \in Places
  BY DEF MigrationWait, Places
<1>2. op' \in [Cpu -> OpRecord] /\ (\A d \in Cpu \ {c} : op'[d] = op[d]) /\ op'[c].pc = "sched"
  BY <1>1, GotoStep DEF MigrationInv, Typed
<1>3. Typed'
  BY <1>1, <1>2 DEF MigrationInv, Typed, MigrationWait
<1>4. KeepsCPU(c)'
  BY <1>2 DEF KeepsCPU, Migrating
<1>5. IsLeaving(c)'
  BY <1>1 DEF MigrationInv, IsLeaving, At, Balancing
<1> QED BY <1>1, <1>2, <1>3, <1>4, <1>5, Calm

LEMMA MigrationTakeStep ==
  ASSUME MigrationAssumption, MigrationInv, NEW c \in Cpu, MigrationTake(c)
  PROVE  MigrationInv'
<1>1. /\ UNCHANGED <<lock, q, cpu, cpus_allowed, curr, need_resched>> /\ At(c, "run")
      /\ curr[c] = MThread(c)
  BY DEF MigrationTake
<1>2. Typed
  BY DEF MigrationInv
<1>3. /\ op' \in [Cpu -> OpRecord] /\ \A d \in Cpu \ {c} : op'[d] = op[d]
      /\ op'[c].pc = "dest" /\ op'[c].p \in Worker
  BY <1>2, TakeDoes
<1>4. requests' \in [Cpu -> Seq([task : Worker, from : Worker])]
  <2>1. PICK S, s : S = [task : Worker, from : Worker] /\ s = requests[c]
    OBVIOUS
  <2>2. s \in Seq(S) /\ s # <<>>
    BY <1>2, <2>1 DEF Typed, MigrationTake
  <2>3. Tail(s) \in Seq(S)
    BY <2>2, HeadTailProperties
  <2>4. requests' = [requests EXCEPT ![c] = Tail(s)]
    BY <2>1, Zenon DEF MigrationTake
  <2>5. requests \in [Cpu -> Seq(S)]
    BY <1>2, <2>1 DEF Typed
  <2>6. requests' \in [Cpu -> Seq(S)]
    BY <2>3, <2>4, <2>5
  <2> QED BY <2>1, <2>6
<1>5. state' \in [Task -> {"RUNNING", "INTERRUPTIBLE", "UNINTERRUPTIBLE"}]
  BY <1>2 DEF Typed, MigrationTake
<1>6. Typed'
  BY <1>1, <1>2, <1>3, <1>4, <1>5 DEF Typed
<1>7. KeepsCPU(c)'
  BY <1>1, <1>3 DEF KeepsCPU
<1>8. IsLeaving(c)'
  BY <1>1 DEF MigrationInv, IsLeaving, At, Balancing
<1> QED BY <1>1, <1>3, <1>6, <1>7, <1>8, Calm

\* The thread does not leave its CPU, nor change the task it moves.
LEMMA MigratingOn ==
  ASSUME MigrationAssumption, MigrationInv, NEW c \in Cpu, op[c].pc \in Migrating \cup {"up"},
         op' \in [Cpu -> OpRecord], \A d \in Cpu \ {c} : op'[d] = op[d], op'[c].p = op[c].p,
         op'[c].pc = "up" \/ (op[c].pc # "up" /\ op'[c].n \in Cpu),
         UNCHANGED <<q, cpu, state, cpus_allowed, curr, need_resched, requests>>,
         lock' \in [Cpu -> Cpu \cup {None}]
  PROVE  MigrationInv'
<1>1. Typed'
  BY DEF MigrationInv, Typed
<1>2. KeepsCPU(c)'
  BY DEF MigrationInv, KeepsCPU, Migrating
<1>3. IsLeaving(c)'
  BY DEF MigrationInv, IsLeaving, Balancing, Migrating
<1> QED BY <1>1, <1>2, <1>3, Calm

LEMMA MigrationDestStep ==
  ASSUME MigrationAssumption, MigrationInv, NEW c \in Cpu, MigrationDest(c)
  PROVE  MigrationInv'
<1>1. /\ UNCHANGED <<lock, q, cpu, state, cpus_allowed, curr, need_resched, requests>>
      /\ op[c].pc = "dest" /\ op[c].pc \in Migrating
  BY DEF MigrationDest, taskVars, At, Migrating
<1>2. op \in [Cpu -> OpRecord] /\ lock' \in [Cpu -> Cpu \cup {None}]
  BY <1>1 DEF MigrationInv, Typed
<1>3. /\ op' \in [Cpu -> OpRecord] /\ \A d \in Cpu \ {c} : op'[d] = op[d]
      /\ op'[c].p = op[c].p /\ op'[c].n \in cpus_allowed[op[c].p]
  BY DestDoes
<1>4. op'[c].n \in Cpu
  <2>1. op[c].p \in Task
    BY <1>1, Names DEF MigrationInv, KeepsCPU
  <2> QED BY <1>3, <2>1 DEF MigrationInv, Typed
<1> QED BY <1>1, <1>2, <1>3, <1>4, MigratingOn

LEMMA MigrationLockStep ==
  ASSUME MigrationAssumption, MigrationInv, NEW c \in Cpu, MigrationLock(c)
  PROVE  MigrationInv'
<1>1. /\ UNCHANGED <<q, cpu, state, cpus_allowed, curr, need_resched, requests>>
      /\ op[c].pc = "lock1" /\ op[c].pc \in Migrating
  BY DEF MigrationLock, taskVars, At, Migrating
<1>2. op \in [Cpu -> OpRecord] /\ lock' \in [Cpu -> Cpu \cup {None}]
  BY DEF MigrationInv, Typed, MigrationLock
<1>3. /\ op' \in [Cpu -> OpRecord] /\ \A d \in Cpu \ {c} : op'[d] = op[d]
      /\ op'[c].p = op[c].p /\ op'[c].n = op[c].n /\ op[c].n \in Cpu
  BY LockDoes
<1> QED BY <1>1, <1>2, <1>3, MigratingOn

LEMMA MigrationLock2Step ==
  ASSUME MigrationAssumption, MigrationInv, NEW c \in Cpu, MigrationLock2(c)
  PROVE  MigrationInv'
<1>1. /\ UNCHANGED <<q, cpu, state, cpus_allowed, curr, need_resched, requests>>
      /\ op[c].pc = "lock2" /\ op[c].pc \in Migrating
      /\ Goto(c, "move") /\ "move" \in Places
  BY DEF MigrationLock2, taskVars, At, Migrating, Places
<1>2. op \in [Cpu -> OpRecord] /\ lock' \in [Cpu -> Cpu \cup {None}]
  <2>1. PICK l : lock' = [lock EXCEPT ![l] = c]
    BY Zenon DEF MigrationLock2
  <2>2. lock \in [Cpu -> Cpu \cup {None}] /\ op \in [Cpu -> OpRecord]
    BY DEF MigrationInv, Typed
  <2> QED BY <2>1, <2>2
<1>3. op[c].n \in Cpu
  BY <1>1 DEF MigrationInv, KeepsCPU
<1>4. /\ op' \in [Cpu -> OpRecord] /\ (\A d \in Cpu \ {c} : op'[d] = op[d])
      /\ op'[c].p = op[c].p /\ op'[c].n = op[c].n
  BY <1>1, <1>2, GotoStep
<1> QED BY <1>1, <1>2, <1>3, <1>4, MigratingOn

\* What the thread moves is not running: here the thread is, and elsewhere tasks at home run.
LEMMA MigrationMoveStep ==
  ASSUME MigrationAssumption, Overdue = {}, MigrationInv, NEW c \in Cpu, MigrationMove(c)
  PROVE  MigrationInv'
<1>1. /\ UNCHANGED <<state, cpus_allowed, curr, need_resched, requests>>
      /\ op[c].pc = "move" /\ op[c].pc \in Migrating
  BY DEF MigrationMove, At, Migrating
<1>2. op \in [Cpu -> OpRecord] /\ lock' \in [Cpu -> Cpu \cup {None}]
  BY DEF MigrationInv, Typed, MigrationMove
<1>3. PICK l \in {"lock1", "up"} : Goto(c, l)
  BY DEF MigrationMove
<1>4. l \in Places
  BY <1>3 DEF Places, Migrating
<1>5. /\ op' \in [Cpu -> OpRecord] /\ (\A d \in Cpu \ {c} : op'[d] = op[d])
      /\ op'[c].pc = l /\ op'[c].p = op[c].p /\ op'[c].n = op[c].n
  BY <1>2, <1>3, <1>4, GotoStep
<1>6. PICK p, dest : p = op[c].p /\ dest = op[c].n
  OBVIOUS
<1>7. p \in Worker /\ p \in Task /\ dest \in Cpu /\ curr[c] = MThread(c)
  BY <1>1, <1>6, Names DEF MigrationInv, KeepsCPU
<1>8. CASE Moves(c, p)
  <2>1. p # curr[cpu[p]]
    BY <1>7, <1>8, Names DEF Moves
  <2>2. cpu' = [cpu EXCEPT ![p] = dest]
    BY <1>6, <1>8, Zenon DEF MigrationMove
  <2>3. q' = [q EXCEPT ![p] = dest] \/ (q[p] = None /\ q' = q)
    <3>1. q' = IF Moves(c, p) /\ InArray(p) THEN [q EXCEPT ![p] = dest] ELSE q
      BY <1>6, Zenon DEF MigrationMove
    <3> QED BY <1>8, <3>1 DEF InArray
  <2>4. /\ q' \in [Task -> Cpu \cup {None}] /\ cpu' \in [Task -> Cpu]
        /\ LinkedAtHome' /\ CurrentAtHome'
        /\ \A d \in Cpu : curr[d] # Idle => curr[d] \in Task /\ q'[curr[d]] = q[curr[d]]
    BY <1>1, <1>7, <2>1, <2>2, <2>3, Moved
  <2>5. Typed'
    BY <1>1, <1>2, <1>5, <2>4 DEF MigrationInv, Typed
  <2>6. ASSUME NEW d \in Cpu PROVE KeepsCPU(d)' /\ IsLeaving(d)'
    <3>1. CASE d = c
      <4>1. KeepsCPU(d)'
        BY <1>1, <1>3, <1>5, <1>6, <1>7, <3>1 DEF KeepsCPU, Migrating
      <4>2. IsLeaving(d)'
        BY <1>1, <2>4, <3>1 DEF MigrationInv, IsLeaving, Balancing
      <4> QED BY <4>1, <4>2
    <3>2. CASE d # c
      BY <1>1, <1>5, <2>4, <3>2 DEF MigrationInv, KeepsCPU, IsLeaving
    <3> QED BY <3>1, <3>2
  <2> QED BY <2>4, <2>5, <2>6 DEF MigrationInv
<1>9. CASE ~ Moves(c, p)
  <2>1. UNCHANGED <<q, cpu>>
    BY <1>6, <1>9 DEF MigrationMove
  <2>2. op'[c].pc = "up" \/ (op[c].pc # "up" /\ op'[c].n \in Cpu)
    BY <1>1, <1>5, <1>6, <1>7
  <2> QED BY <1>1, <1>2, <1>5, <2>1, <2>2, MigratingOn
<1> QED BY <1>8, <1>9

LEMMA UpStep ==
  ASSUME MigrationAssumption, MigrationInv, NEW c \in Cpu, up(c)
  PROVE  MigrationInv'
<1>1. UNCHANGED <<lock, q, cpu, state, cpus_allowed, curr, need_resched, requests>> /\ At(c, "up")
  BY DEF up, taskVars
<1>2. op \in [Cpu -> OpRecord]
  BY DEF MigrationInv, Typed
<1>3. op' \in [Cpu -> OpRecord] /\ (\A d \in Cpu \ {c} : op'[d] = op[d]) /\ op'[c].pc = "wake"
  BY <1>2, UpDoes
<1>4. Typed'
  BY <1>1, <1>3 DEF MigrationInv, Typed
<1>5. KeepsCPU(c)'
  BY <1>3 DEF KeepsCPU, Migrating
<1>6. IsLeaving(c)'
  BY <1>1 DEF MigrationInv, IsLeaving, At, Balancing
<1> QED BY <1>1, <1>3, <1>4, <1>5, <1>6, Calm

-----------------------------------------------------------------------------
LEMMA Preserved ==
  ASSUME MigrationAssumption, Overdue = {}, MigrationInv, [Next]_vars
  PROVE  MigrationInv'
<1>1. CASE UNCHANGED vars
  BY <1>1 DEF vars, taskVars, MigrationInv, Typed, LinkedAtHome, CurrentAtHome, KeepsCPU, IsLeaving
<1>2. ASSUME NEW c \in Cpu, Schedule(c) PROVE MigrationInv'
  BY <1>2, PutPrevStep, PickNextStep, PickNoneStep, AfterBalanceStep DEF Schedule
<1>3. ASSUME NEW c \in Cpu, Balance(c) PROVE MigrationInv'
  BY <1>3, TickedStep, BalanceFindStep, BalanceLockStep, BalancePullStep, BalanceEndStep DEF Balance
<1>4. ASSUME NEW c \in Cpu, Migrate(c) PROVE MigrationInv'
  BY <1>4, MigrationWaitStep, MigrationTakeStep, MigrationDestStep, MigrationLockStep,
     MigrationLock2Step, MigrationMoveStep, UpStep DEF Migrate
<1>5. ASSUME NEW c \in Cpu, Kernel(c) PROVE MigrationInv'
  BY <1>2, <1>3, <1>4, <1>5, FastMigrateStep, WakeStep, DownStep DEF Kernel
<1>6. ASSUME NEW c \in Cpu, Sleep(c) \/ Preempt(c) \/ Tick(c) PROVE MigrationInv'
  BY <1>6, SleepStep, TickStep
<1>7. ASSUME NEW c \in Cpu, NEW p \in Worker,
             WakeUp(c, p) \/ \E mask \in (SUBSET Cpu) \ {{}} : set_cpus_allowed(c, p, mask)
      PROVE  MigrationInv'
  BY <1>7, WakeUpStep, SetAllowedStep
<1> QED BY <1>1, <1>5, <1>6, <1>7, Zenon DEF Next

\* The invariant keeps a task off every CPU but its own, and out of its code once it has left
\* the run queue.
LEMMA InvImplies ==
  ASSUME MigrationInv
  PROVE  RunsWhereItIs
BY DEF MigrationInv, CurrentAtHome, IsLeaving, RunsWhereItIs, At, Balancing

\* Schedule, load_balance, try_to_wake_up, set_cpus_allowed and migration_thread of any
\* number of CPUs keep the stack of every task in use on at most one CPU, its own.
THEOREM TasksRunWhereTheyAre ==
  ASSUME MigrationAssumption, Overdue = {}
  PROVE  Spec => []RunsWhereItIs
<1>1. Init => MigrationInv
  BY InitInv
<1>2. MigrationInv /\ [Next]_vars => MigrationInv'
  BY Preserved
<1>3. MigrationInv => RunsWhereItIs
  BY InvImplies
<1> QED BY <1>1, <1>2, <1>3, PTL DEF Spec

\* The same steps leave every task that is in a run queue in that of its own CPU.
THEOREM LinkedWhereTheyAre ==
  ASSUME MigrationAssumption, Overdue = {}
  PROVE  Spec => []LinkedAtHome
<1>1. Init => MigrationInv
  BY InitInv
<1>2. MigrationInv /\ [Next]_vars => MigrationInv'
  BY Preserved
<1>3. MigrationInv => LinkedAtHome
  BY DEF MigrationInv
<1> QED BY <1>1, <1>2, <1>3, PTL DEF Spec

-----------------------------------------------------------------------------
(* The locks: which ones a CPU holds follows from where it is, and what it *)
(* spins for comes after all of them.                                      *)

Held(c) ==
  LET rq == op[c].rq  n == op[c].n IN
  IF op[c].pc \in {"pick", "picked", "ticked", "find", "try", "spin"} THEN {c}
  ELSE IF At(c, "lock_own") THEN {rq}
  ELSE IF op[c].pc \in {"pull", "pulled"} THEN {c, rq}
  ELSE IF At(c, "lock2") THEN {LockFirst(rq, n)}
  ELSE IF At(c, "move") THEN {rq, n}
  ELSE {}

Pairing == {"try", "spin", "lock_busiest", "lock_own", "pull", "pulled"}
InOrder(c) ==
  /\ op[c].back \in IF op[c].pc \in Balancing THEN {"picked", "ticked"} ELSE {"run", "down"}
  /\ op[c].pc \in Pairing => op[c].rq \in Cpu \ {c}
  /\ At(c, "spin") => ~ MustDrop(c)
  /\ op[c].pc \in {"lock_busiest", "lock_own"} => MustDrop(c)
  /\ op[c].pc \in {"lock2", "move"} => op[c].rq \in Cpu /\ op[c].n \in Cpu
  /\ At(c, "lock2") => op[c].rq # op[c].n
  /\ op[c].pc \in Migrating \cup {"up"} => op[c].other \in Worker
  /\ At(c, "wake") => op[c].p \in Task

LockInv ==
  /\ \A c, d \in Cpu : lock[d] = c <=> d \in Held(c)
  /\ \A c \in Cpu : InOrder(c)

\* A CPU that takes and drops locks of its own leaves those of the others alone.
LEMMA LocksOf ==
  ASSUME MigrationAssumption, LockInv, NEW c \in Cpu, \A d \in Cpu \ {c} : op'[d] = op[d],
         \A d \in Cpu : lock'[d] = lock[d] \/ (lock[d] \in {c, None} /\ lock'[d] \in {c, None}),
         \A d \in Cpu : lock'[d] = c <=> d \in Held(c)',
         InOrder(c)'
  PROVE  LockInv'
<1>1. ASSUME NEW e \in Cpu, e # c
      PROVE  InOrder(e)' /\ \A d \in Cpu : lock'[d] = e <=> d \in Held(e)'
  <2>1. op'[e] = op[e]
    BY <1>1
  <2>2. InOrder(e)'
    BY <2>1 DEF LockInv, InOrder, At, MustDrop
  <2>3. Held(e)' = Held(e)
    BY <2>1 DEF Held, At
  <2>4. \A d \in Cpu : lock'[d] = e <=> lock[d] = e
    BY <1>1, Names
  <2> QED BY <2>2, <2>3, <2>4 DEF LockInv
<1>2. \A e \in Cpu : InOrder(e)' /\ \A d \in Cpu : lock'[d] = e <=> d \in Held(e)'
  BY <1>1
<1> QED BY <1>2 DEF LockInv

\* One that holds the same locks as before.
LEMMA SameLocks ==
  ASSUME MigrationAssumption, LockInv, NEW c \in Cpu, \A d \in Cpu \ {c} : op'[d] = op[d],
         lock' = lock, Held(c)' = Held(c), InOrder(c)'
  PROVE  LockInv'
<1>1. \A d \in Cpu : lock'[d] = c <=> d \in Held(c)'
  BY DEF LockInv
<1> QED BY <1>1, LocksOf

\* From a place without locks, or with the one of the CPU's own run queue, to another.
LEMMA PlainGoto ==
  ASSUME MigrationAssumption, MigrationInv, LockInv, NEW c \in Cpu, lock' = lock, NEW l, Goto(c, l),
         \/ op[c].pc \in {"run", "sched", "down"} /\ l \in {"run", "sched", "down"}
         \/ op[c].pc = "picked" /\ l = "pick"
  PROVE  LockInv'
<1>1. l \in Places /\ op \in [Cpu -> OpRecord]
  BY DEF Places, MigrationInv, Typed
<1>2. /\ \A d \in Cpu \ {c} : op'[d] = op[d]
      /\ op'[c].pc = l /\ op'[c].back = op[c].back
  BY <1>1, GotoStep
<1>3. Held(c)' = Held(c)
  BY <1>2 DEF Held, At
<1>4. InOrder(c)'
  BY <1>2 DEF LockInv, InOrder, At, Balancing, Migrating, Pairing
<1> QED BY <1>2, <1>3, <1>4, SameLocks

\* The first lock is taken, or the last one dropped.
LEMMA OwnLock ==
  ASSUME MigrationAssumption, MigrationInv, LockInv, NEW c \in Cpu,
         \A d \in Cpu \ {c} : op'[d] = op[d], op'[c].back = op[c].back,
         \/ /\ lock[c] = None /\ lock' = [lock EXCEPT ![c] = c]
            /\ op[c].pc = "sched" /\ op'[c].pc = "pick"
         \/ /\ lock' = [lock EXCEPT ![c] = None] /\ op[c].pc \in {"pick", "picked", "ticked"}
            /\ op'[c].pc \in {"run", "down"}
  PROVE  LockInv'
<1>1. lock \in [Cpu -> Cpu \cup {None}] /\ None \notin Cpu
  BY Names DEF MigrationInv, Typed
<1>2. InOrder(c)'
  BY DEF LockInv, InOrder, At, Balancing, Migrating, Pairing
<1>3. CASE lock[c] = None /\ lock' = [lock EXCEPT ![c] = c] /\ op[c].pc = "sched" /\ op'[c].pc = "pick"
  <2>1. Held(c) = {} /\ Held(c)' = {c}
    BY <1>3 DEF Held, At
  <2>2. \A d \in Cpu : lock[d] # c
    BY <2>1 DEF LockInv
  <2>3. \A d \in Cpu : lock'[d] = c <=> d \in Held(c)'
    BY <1>1, <1>3, <2>1, <2>2
  <2>4. \A d \in Cpu : lock'[d] = lock[d] \/ (lock[d] \in {c, None} /\ lock'[d] \in {c, None})
    BY <1>1, <1>3
  <2> QED BY <1>2, <2>3, <2>4, LocksOf
<1>4. CASE /\ lock' = [lock EXCEPT ![c] = None] /\ op[c].pc \in {"pick", "picked", "ticked"}
           /\ op'[c].pc \in {"run", "down"}
  <2>1. Held(c) = {c} /\ Held(c)' = {}
    BY <1>4 DEF Held, At
  <2>2. \A d \in Cpu : lock[d] = c <=> d = c
    BY <2>1 DEF LockInv
  <2>3. \A d \in Cpu : lock'[d] = c <=> d \in Held(c)'
    BY <1>1, <1>4, <2>1, <2>2
  <2>4. \A d \in Cpu : lock'[d] = lock[d] \/ (lock[d] \in {c, None} /\ lock'[d] \in {c, None})
    BY <1>1, <1>4, <2>2
  <2> QED BY <1>2, <2>3, <2>4, LocksOf
<1> QED BY <1>3, <1>4

-----------------------------------------------------------------------------
LEMMA InitLocks ==
  ASSUME MigrationAssumption, Init
  PROVE  LockInv
<1>1. \A c \in Cpu : op[c].pc = "run" /\ op[c].back = "run" /\ lock[c] = None
  BY DEF Init, Running
<1>2. \A c \in Cpu : Held(c) = {} /\ InOrder(c)
  BY <1>1 DEF Held, At, InOrder, Balancing, Migrating, Pairing
<1> QED BY <1>1, <1>2, Names DEF LockInv

LEMMA ScheduleLocks ==
  ASSUME MigrationAssumption, MigrationInv, LockInv, NEW c \in Cpu,
         Sleep(c) \/ Preempt(c) \/ Schedule(c) \/ Ticked(c)
  PROVE  LockInv'
<1>0. op \in [Cpu -> OpRecord]
  BY DEF MigrationInv, Typed
<1>1. CASE Sleep(c) \/ Preempt(c)
  <2>1. lock' = lock /\ op[c].pc = "run" /\ Goto(c, "sched")
    BY <1>1 DEF Sleep, Preempt, At
  <2> QED BY <2>1, PlainGoto
<1>2. CASE PutPrev(c)
  <2>1. Goto(c, "pick") /\ "pick" \in Places /\ op[c].pc = "sched" /\ lock[c] = None /\ lock' = [lock EXCEPT ![c] = c]
    BY <1>2 DEF PutPrev, At, Places
  <2>2. (\A d \in Cpu \ {c} : op'[d] = op[d]) /\ op'[c].pc = "pick" /\ op'[c].back = op[c].back
    BY <1>0, <2>1, GotoStep
  <2> QED BY <2>1, <2>2, OwnLock
<1>3. ASSUME NEW p, SwitchTo(c, p), op[c].pc \in {"pick", "picked"} PROVE LockInv'
  <2>1. PICK l \in {"down", "run"} : Goto(c, l)
    BY <1>3 DEF SwitchTo
  <2>2. l \in Places /\ lock' = [lock EXCEPT ![c] = None]
    BY <1>3, <2>1 DEF SwitchTo, Places
  <2>3. (\A d \in Cpu \ {c} : op'[d] = op[d]) /\ op'[c].pc = l /\ op'[c].back = op[c].back
    BY <1>0, <2>1, <2>2, GotoStep
  <2> QED BY <1>3, <2>2, <2>3, OwnLock
<1>4. CASE PickNext(c)
  BY <1>3, <1>4 DEF PickNext, At
<1>5. CASE PickNone(c)
  <2>1. lock' = lock /\ op[c].pc = "pick"
    BY <1>5 DEF PickNone, At
  <2>2. (\A d \in Cpu \ {c} : op'[d] = op[d]) /\ op'[c].pc = "find" /\ op'[c].back = "picked"
    BY <1>0, <1>5, PickNoneDoes
  <2>3. Held(c)' = Held(c)
    BY <2>1, <2>2 DEF Held, At
  <2>4. InOrder(c)'
    BY <2>2 DEF InOrder, At, Balancing, Migrating, Pairing
  <2> QED BY <2>1, <2>2, <2>3, <2>4, SameLocks
<1>6. CASE AfterBalance(c)
  <2>1. op[c].pc = "picked" /\ (SwitchTo(c, Idle) \/ (Goto(c, "pick") /\ lock' = lock))
    BY <1>6 DEF AfterBalance, At
  <2> QED BY <1>3, <2>1, PlainGoto
<1>7. CASE Ticked(c)
  <2>1. Goto(c, "run") /\ "run" \in Places /\ op[c].pc = "ticked" /\ lock' = [lock EXCEPT ![c] = None]
    BY <1>7 DEF Ticked, At, Places
  <2>2. (\A d \in Cpu \ {c} : op'[d] = op[d]) /\ op'[c].pc = "run" /\ op'[c].back = op[c].back
    BY <1>0, <2>1, GotoStep
  <2> QED BY <2>1, <2>2, OwnLock
<1> QED BY <1>1, <1>2, <1>4, <1>5, <1>6, <1>7 DEF Schedule

LEMMA TickLocks ==
  ASSUME MigrationAssumption, MigrationInv, LockInv, NEW c \in Cpu, Tick(c)
  PROVE  LockInv'
<1>1. lock \in [Cpu -> Cpu \cup {None}] /\ None \notin Cpu /\ op \in [Cpu -> OpRecord]
  BY Names DEF MigrationInv, Typed
<1>2. op[c].pc = "run" /\ lock[c] = None /\ lock' = [lock EXCEPT ![c] = c]
  BY DEF Tick, At
<1>3. (\A d \in Cpu \ {c} : op'[d] = op[d]) /\ op'[c].pc = "find" /\ op'[c].back = "ticked"
  BY <1>1, TickDoes
<1>4. Held(c) = {} /\ Held(c)' = {c} /\ InOrder(c)'
  BY <1>2, <1>3 DEF Held, At, InOrder, Balancing, Migrating, Pairing
<1>5. \A d \in Cpu : lock[d] # c
  BY <1>4 DEF LockInv
<1>6. \A d \in Cpu : lock'[d] = c <=> d \in Held(c)'
  BY <1>1, <1>2, <1>4, <1>5
<1>7. \A d \in Cpu : lock'[d] = lock[d] \/ (lock[d] \in {c, None} /\ lock'[d] \in {c, None})
  BY <1>1, <1>2
<1> QED BY <1>3, <1>4, <1>6, <1>7, LocksOf

LEMMA BalanceFindLocks ==
  ASSUME MigrationAssumption, MigrationInv, LockInv, NEW c \in Cpu, BalanceFind(c)
  PROVE  LockInv'
<1>1. op \in [Cpu -> OpRecord] /\ lock' = lock /\ op[c].pc = "find" /\ op[c].back \in {"picked", "ticked"}
  BY DEF MigrationInv, Typed, BalanceFind, At, LockInv, InOrder, Balancing
<1>2. CASE Back(c)
  <2>1. (\A d \in Cpu \ {c} : op'[d] = op[d]) /\ op'[c].pc \in {"picked", "ticked"} /\ op'[c].back = "run"
    BY <1>1, <1>2, BackStep
  <2>2. Held(c)' = Held(c) /\ InOrder(c)'
    BY <1>1, <2>1 DEF Held, At, InOrder, Balancing, Migrating, Pairing
  <2> QED BY <1>1, <2>1, <2>2, SameLocks
<1>3. CASE ~ Back(c)
  <2>1. /\ \A d \in Cpu \ {c} : op'[d] = op[d]
        /\ op'[c].pc = "try" /\ op'[c].rq \in Cpu \ {c} /\ op'[c].back = op[c].back
    BY <1>1, <1>3, FindDoes
  <2>2. Held(c)' = Held(c) /\ InOrder(c)'
    BY <1>1, <2>1 DEF Held, At, InOrder, Balancing, Migrating, Pairing
  <2> QED BY <1>1, <2>1, <2>2, SameLocks
<1> QED BY <1>2, <1>3

\* spin_trylock; else a lock that comes later is spun for, and one that comes earlier is
\* spun for with nothing held.
LEMMA BalanceTryLocks ==
  ASSUME MigrationAssumption, MigrationInv, LockInv, NEW c \in Cpu, BalanceTry(c)
  PROVE  LockInv'
<1>1. lock \in [Cpu -> Cpu \cup {None}] /\ None \notin Cpu /\ op \in [Cpu -> OpRecord]
  BY Names DEF MigrationInv, Typed
<1>2. PICK b : b = op[c].rq
  OBVIOUS
<1>3. /\ op[c].pc = "try" /\ op[c].back \in {"picked", "ticked"} /\ b \in Cpu \ {c}
      /\ Held(c) = {c}
  BY <1>2 DEF BalanceTry, At, LockInv, InOrder, Balancing, Migrating, Pairing, Held
<1>4. \A d \in Cpu : lock[d] = c <=> d = c
  BY <1>3 DEF LockInv
<1>5. ASSUME NEW l \in {"pull", "lock_busiest", "spin"}, Goto(c, l)
      PROVE  /\ \A d \in Cpu \ {c} : op'[d] = op[d]
             /\ op'[c].pc = l /\ op'[c].rq = b /\ op'[c].back = op[c].back
  <2>1. l \in Places
    BY DEF Places, Balancing
  <2> QED BY <1>1, <1>2, <1>5, <2>1, GotoStep
<1>6. CASE lock[b] = None /\ lock' = [lock EXCEPT ![b] = c] /\ Goto(c, "pull")
  <2>1. /\ \A d \in Cpu \ {c} : op'[d] = op[d]
        /\ op'[c].pc = "pull" /\ op'[c].rq = b /\ op'[c].back = op[c].back
    BY <1>5, <1>6
  <2>2. Held(c)' = {c, b} /\ InOrder(c)'
    BY <1>3, <2>1 DEF Held, At, InOrder, Balancing, Migrating, Pairing
  <2>3. \A d \in Cpu : lock'[d] = c <=> d \in Held(c)'
    BY <1>1, <1>3, <1>4, <1>6, <2>2
  <2>4. \A d \in Cpu : lock'[d] = lock[d] \/ (lock[d] \in {c, None} /\ lock'[d] \in {c, None})
    BY <1>1, <1>3, <1>6
  <2> QED BY <2>1, <2>2, <2>3, <2>4, LocksOf
<1>7. CASE MustDrop(c) /\ lock' = [lock EXCEPT ![c] = None] /\ Goto(c, "lock_busiest")
  <2>1. /\ \A d \in Cpu \ {c} : op'[d] = op[d]
        /\ op'[c].pc = "lock_busiest" /\ op'[c].rq = b /\ op'[c].back = op[c].back
    BY <1>5, <1>7
  <2>2. Held(c)' = {} /\ InOrder(c)'
    BY <1>2, <1>3, <1>7, <2>1 DEF Held, At, InOrder, Balancing, Migrating, Pairing, MustDrop
  <2>3. \A d \in Cpu : lock'[d] = c <=> d \in Held(c)'
    BY <1>1, <1>4, <1>7, <2>2
  <2>4. \A d \in Cpu : lock'[d] = lock[d] \/ (lock[d] \in {c, None} /\ lock'[d] \in {c, None})
    BY <1>1, <1>4, <1>7
  <2> QED BY <2>1, <2>2, <2>3, <2>4, LocksOf
<1>8. CASE ~ MustDrop(c) /\ Goto(c, "spin") /\ lock' = lock
  <2>1. /\ \A d \in Cpu \ {c} : op'[d] = op[d]
        /\ op'[c].pc = "spin" /\ op'[c].rq = b /\ op'[c].back = op[c].back
    BY <1>5, <1>8
  <2>2. Held(c)' = Held(c) /\ InOrder(c)'
    BY <1>2, <1>3, <1>8, <2>1 DEF Held, At, InOrder, Balancing, Migrating, Pairing, MustDrop
  <2> QED BY <1>8, <2>1, <2>2, SameLocks
<1>9. \/ lock[b] = None /\ lock' = [lock EXCEPT ![b] = c] /\ Goto(c, "pull")
      \/ MustDrop(c) /\ lock' = [lock EXCEPT ![c] = None] /\ Goto(c, "lock_busiest")
      \/ ~ MustDrop(c) /\ Goto(c, "spin") /\ lock' = lock
  BY <1>2, Zenon DEF BalanceTry
<1> QED BY <1>6, <1>7, <1>8, <1>9

LEMMA BalanceLockLocks ==
  ASSUME MigrationAssumption, MigrationInv, LockInv, NEW c \in Cpu, BalanceLock(c)
  PROVE  LockInv'
<1>1. lock \in [Cpu -> Cpu \cup {None}] /\ None \notin Cpu /\ op \in [Cpu -> OpRecord]
  BY Names DEF MigrationInv, Typed
<1>2. PICK b : b = op[c].rq
  OBVIOUS
<1>3. PICK l \in {"spin", "lock_busiest", "lock_own"} :
        LET d == IF l = "lock_own" THEN c ELSE op[c].rq IN
        /\ At(c, l) /\ lock[d] = None
        /\ lock' = [lock EXCEPT ![d] = c]
        /\ Goto(c, IF l = "lock_busiest" THEN "lock_own" ELSE "pull")
  BY Zenon DEF BalanceLock
<1>4. PICK d : d = IF l = "lock_own" THEN c ELSE b
  OBVIOUS
<1>5. op[c].pc = l /\ lock[d] = None /\ lock' = [lock EXCEPT ![d] = c]
  BY <1>2, <1>3, <1>4, Zenon DEF At
<1>6. PICK m \in {"lock_own", "pull"} : m = IF l = "lock_busiest" THEN "lock_own" ELSE "pull"
  OBVIOUS
<1>7. Goto(c, m)
  BY <1>3, <1>6, Zenon
<1>8. op[c].back \in {"picked", "ticked"} /\ b \in Cpu \ {c} /\ (l = "lock_busiest" => MustDrop(c))
  BY <1>2, <1>5 DEF LockInv, InOrder, Balancing, Migrating, Pairing, At
<1>9. m \in Places
  BY <1>6 DEF Places, Balancing
<1>10. /\ \A e \in Cpu \ {c} : op'[e] = op[e]
       /\ op'[c].pc = m /\ op'[c].rq = b /\ op'[c].back = op[c].back
  BY <1>1, <1>2, <1>7, <1>9, GotoStep
<1>11. InOrder(c)'
  BY <1>2, <1>6, <1>8, <1>10 DEF InOrder, Balancing, Migrating, Pairing, At, MustDrop
<1>12. d \in Cpu /\ Held(c)' = Held(c) \cup {d}
  BY <1>2, <1>4, <1>5, <1>6, <1>8, <1>10 DEF Held, At
<1>13. \A e \in Cpu : lock[e] = c <=> e \in Held(c)
  BY DEF LockInv
<1>14. \A e \in Cpu : lock'[e] = c <=> e \in Held(c)'
  BY <1>1, <1>5, <1>12, <1>13
<1>15. \A e \in Cpu : lock'[e] = lock[e] \/ (lock[e] \in {c, None} /\ lock'[e] \in {c, None})
  BY <1>1, <1>5, <1>12
<1> QED BY <1>10, <1>11, <1>14, <1>15, LocksOf

LEMMA BalancePullLocks ==
  ASSUME MigrationAssumption, MigrationInv, LockInv, NEW c \in Cpu, BalancePull(c)
  PROVE  LockInv'
<1>1. op \in [Cpu -> OpRecord] /\ lock' = lock /\ op[c].pc \in {"pull", "pulled"}
  BY DEF MigrationInv, Typed, BalancePull, At
<1>2. /\ \A d \in Cpu \ {c} : op'[d] = op[d]
      /\ op'[c].pc = "pulled" /\ op'[c].rq = op[c].rq /\ op'[c].back = op[c].back
  BY <1>1, PullDoes
<1>3. Held(c)' = Held(c)
  BY <1>1, <1>2 DEF Held, At
<1>4. InOrder(c)'
  BY <1>1, <1>2 DEF LockInv, InOrder, Balancing, Migrating, Pairing, At
<1> QED BY <1>1, <1>2, <1>3, <1>4, SameLocks

LEMMA BalanceEndLocks ==
  ASSUME MigrationAssumption, MigrationInv, LockInv, NEW c \in Cpu, BalanceEnd(c)
  PROVE  LockInv'
<1>1. lock \in [Cpu -> Cpu \cup {None}] /\ None \notin Cpu /\ op \in [Cpu -> OpRecord]
  BY Names DEF MigrationInv, Typed
<1>2. PICK b : b = op[c].rq
  OBVIOUS
<1>3. op[c].pc \in {"pull", "pulled"} /\ lock' = [lock EXCEPT ![b] = None] /\ Back(c)
  BY <1>2, Zenon DEF BalanceEnd, At
<1>4. op[c].back \in {"picked", "ticked"} /\ b \in Cpu \ {c} /\ Held(c) = {c, b}
  BY <1>2, <1>3 DEF LockInv, InOrder, Balancing, Migrating, Pairing, At, Held
<1>5. (\A d \in Cpu \ {c} : op'[d] = op[d]) /\ op'[c].pc \in {"picked", "ticked"} /\ op'[c].back = "run"
  BY <1>1, <1>3, <1>4, BackStep
<1>6. Held(c)' = {c} /\ InOrder(c)'
  BY <1>5 DEF Held, At, InOrder, Balancing, Migrating, Pairing
<1>7. \A d \in Cpu : lock[d] = c <=> d \in {c, b}
  BY <1>4 DEF LockInv
<1>8. \A d \in Cpu : lock'[d] = c <=> d \in Held(c)'
  BY <1>1, <1>3, <1>4, <1>6, <1>7
<1>9. \A d \in Cpu : lock'[d] = lock[d] \/ (lock[d] \in {c, None} /\ lock'[d] \in {c, None})
  BY <1>1, <1>3, <1>4, <1>7
<1> QED BY <1>5, <1>6, <1>8, <1>9, LocksOf

\* try_to_wake_up, set_cpus_allowed and down hold no lock between their steps.
LEMMA WakeLocks ==
  ASSUME MigrationAssumption, MigrationInv, LockInv, NEW c \in Cpu, NEW p \in Worker,
         \/ WakeUp(c, p) \/ FastMigrate(c) \/ try_to_wake_up(c) \/ down(c)
         \/ \E mask \in (SUBSET Cpu) \ {{}} : set_cpus_allowed(c, p, mask)
  PROVE  LockInv'
<1>1. op \in [Cpu -> OpRecord]
  BY DEF MigrationInv, Typed
<1>2. ASSUME op[c].pc \in {"run", "wake", "down"}, op'[c].pc \in {"run", "wake", "down"},
             op'[c].back \in {"run", "down"}, op'[c].pc = "wake" => op'[c].p \in Task,
             lock' = lock, \A d \in Cpu \ {c} : op'[d] = op[d]
      PROVE  LockInv'
  <2>1. Held(c)' = Held(c) /\ InOrder(c)'
    BY <1>2 DEF Held, At, InOrder, Balancing, Migrating, Pairing
  <2> QED BY <1>2, <2>1, SameLocks
<1>3. CASE WakeUp(c, p)
  <2>1. op[c].pc = "run" /\ lock' = lock
    BY <1>3 DEF WakeUp, At
  <2>2. op[c].back \in {"run", "down"}
    BY <2>1 DEF LockInv, InOrder, Balancing, Migrating
  <2>3. /\ \A d \in Cpu \ {c} : op'[d] = op[d]
        /\ op'[c].pc = "wake" /\ op'[c].back = op[c].back /\ op'[c].p \in Task
    BY <1>1, <1>3, Names, WakeUpDoes
  <2> QED BY <1>2, <2>1, <2>2, <2>3
<1>4. CASE UNCHANGED <<op, lock>>
  BY <1>4 DEF LockInv, InOrder, Held, At, MustDrop
<1>5. CASE try_to_wake_up(c)
  <2>1. op[c].pc = "wake" /\ lock' = lock /\ Back(c)
    BY <1>5 DEF try_to_wake_up, At
  <2>2. op[c].back \in {"run", "down"}
    BY <2>1 DEF LockInv, InOrder, Balancing, Migrating
  <2>3. (\A d \in Cpu \ {c} : op'[d] = op[d]) /\ op'[c].pc = op[c].back /\ op'[c].back = "run"
    BY <1>1, <2>1, BackStep
  <2> QED BY <1>2, <2>1, <2>2, <2>3
<1>6. CASE down(c)
  <2>1. lock' = lock /\ op[c].pc = "down" /\ (Goto(c, "run") \/ Goto(c, "sched"))
    BY <1>6 DEF down, At
  <2> QED BY <2>1, PlainGoto
<1>7. ASSUME NEW mask \in (SUBSET Cpu) \ {{}}, set_cpus_allowed(c, p, mask) PROVE LockInv'
  <2>1. /\ op[c].pc = "run" /\ lock' = lock
        /\ \/ op' = op
           \/ op' = [op EXCEPT ![c].pc = "wake", ![c].p = MThread(cpu[p]), ![c].back = "down"]
    BY <1>7, Zenon DEF set_cpus_allowed, At
  <2>2. PICK r \in Cpu : r = cpu[p]
    BY Names DEF MigrationInv, Typed
  <2>3. CASE op' = [op EXCEPT ![c].pc = "wake", ![c].p = MThread(r), ![c].back = "down"]
    <3>1. /\ \A d \in Cpu \ {c} : op'[d] = op[d]
          /\ op'[c].pc = "wake" /\ op'[c].back = "down" /\ op'[c].p = MThread(r)
      BY <1>1, <2>3, AskDoes
    <3>2. MThread(r) \in Task
      BY Names
    <3> QED BY <1>2, <2>1, <3>1, <3>2
  <2> QED BY <1>4, <2>1, <2>2, <2>3
<1>8. CASE FastMigrate(c)
  BY <1>4, <1>8 DEF FastMigrate
<1> QED BY <1>3, <1>5, <1>6, <1>7, <1>8

LEMMA MigrateLocks ==
  ASSUME MigrationAssumption, MigrationInv, LockInv, NEW c \in Cpu,
         MigrationWait(c) \/ MigrationTake(c) \/ MigrationDest(c) \/ up(c)
  PROVE  LockInv'
<1>1. op \in [Cpu -> OpRecord] /\ Typed
  BY DEF MigrationInv, Typed
<1>2. op[c].pc \in {"run", "dest", "up"} /\ lock' = lock
  BY DEF MigrationWait, MigrationTake, MigrationDest, up, At
<1>3. op[c].back \in {"run", "down"}
  BY <1>2 DEF LockInv, InOrder, Balancing, Migrating
<1>4. CASE MigrationWait(c)
  <2>1. op[c].pc = "run" /\ Goto(c, "sched")
    BY <1>4 DEF MigrationWait, At
  <2> QED BY <1>2, <2>1, PlainGoto
<1>5. ASSUME op'[c].pc \in {"dest", "lock1", "wake"},
             op'[c].pc # "wake" => op'[c].other \in Worker,
             op'[c].pc = "wake" => op'[c].p \in Task,
             op'[c].back \in {"run", "down"}, \A d \in Cpu \ {c} : op'[d] = op[d]
      PROVE  LockInv'
  <2>1. Held(c)' = Held(c) /\ InOrder(c)'
    BY <1>2, <1>5 DEF Held, At, InOrder, Balancing, Migrating, Pairing
  <2> QED BY <1>2, <1>5, <2>1, SameLocks
<1>6. CASE MigrationTake(c)
  <2>1. /\ \A d \in Cpu \ {c} : op'[d] = op[d]
        /\ op'[c].pc = "dest" /\ op'[c].back = op[c].back /\ op'[c].other \in Worker
    BY <1>1, <1>6, TakeDoes
  <2> QED BY <1>3, <1>5, <2>1
<1>7. CASE MigrationDest(c)
  <2>1. op[c].other \in Worker
    BY <1>7 DEF LockInv, InOrder, MigrationDest, At, Migrating
  <2>2. /\ \A d \in Cpu \ {c} : op'[d] = op[d]
        /\ op'[c].pc = "lock1" /\ op'[c].back = op[c].back /\ op'[c].other = op[c].other
    BY <1>7, DestDoes
  <2> QED BY <1>3, <1>5, <2>1, <2>2
<1>8. CASE up(c)
  <2>1. op[c].other \in Task
    BY <1>8, Names DEF LockInv, InOrder, up, At, Migrating
  <2> QED BY <1>1, <1>5, <1>8, <2>1, UpDoes
<1> QED BY <1>4, <1>6, <1>7, <1>8

\* double_rq_lock and double_rq_unlock.
LEMMA MigrationLockLocks ==
  ASSUME MigrationAssumption, MigrationInv, LockInv, NEW c \in Cpu, MigrationLock(c)
  PROVE  LockInv'
<1>1. lock \in [Cpu -> Cpu \cup {None}] /\ None \notin Cpu /\ op \in [Cpu -> OpRecord]
  BY Names DEF MigrationInv, Typed
<1>2. PICK src : src = cpu[op[c].p]
  OBVIOUS
<1>3. PICK l : l = LockFirst(src, op[c].n)
  OBVIOUS
<1>4. op[c].pc = "lock1" /\ lock[l] = None /\ lock' = [lock EXCEPT ![l] = c]
  BY <1>2, <1>3, Zenon DEF MigrationLock, At
<1>5. /\ \A d \in Cpu \ {c} : op'[d] = op[d]
      /\ op'[c].rq = src /\ src \in Cpu /\ op[c].n \in Cpu /\ op'[c].n = op[c].n
      /\ op'[c].pc = (IF src = op[c].n THEN "move" ELSE "lock2")
      /\ op'[c].back = op[c].back /\ op'[c].other = op[c].other
  BY <1>2, LockDoes
<1>6. l \in Cpu /\ (src = op[c].n => l = src)
  BY <1>3, <1>5 DEF LockFirst
<1>7. Held(c) = {} /\ op[c].back \in {"run", "down"} /\ op[c].other \in Worker
  BY <1>4 DEF Held, At, LockInv, InOrder, Balancing, Migrating
<1>8. Held(c)' = {l}
  BY <1>3, <1>5, <1>6 DEF Held, At
<1>9. InOrder(c)'
  BY <1>5, <1>7 DEF InOrder, Balancing, Migrating, Pairing, At
<1>10. \A d \in Cpu : lock[d] # c
  BY <1>7 DEF LockInv
<1>11. \A d \in Cpu : lock'[d] = c <=> d \in Held(c)'
  BY <1>1, <1>4, <1>6, <1>8, <1>10
<1>12. \A d \in Cpu : lock'[d] = lock[d] \/ (lock[d] \in {c, None} /\ lock'[d] \in {c, None})
  BY <1>1, <1>4, <1>6
<1> QED BY <1>5, <1>9, <1>11, <1>12, LocksOf

LEMMA MigrationLock2Locks ==
  ASSUME MigrationAssumption, MigrationInv, LockInv, NEW c \in Cpu, MigrationLock2(c)
  PROVE  LockInv'
<1>1. lock \in [Cpu -> Cpu \cup {None}] /\ None \notin Cpu /\ op \in [Cpu -> OpRecord]
  BY Names DEF MigrationInv, Typed
<1>2. PICK r, n : r = op[c].rq /\ n = op[c].n
  OBVIOUS
<1>3. PICK l \in {r, n} :
        /\ op[c].pc = "lock2" /\ l # LockFirst(r, n) /\ lock[l] = None
        /\ lock' = [lock EXCEPT ![l] = c] /\ Goto(c, "move")
  BY <1>2, Zenon DEF MigrationLock2, At
<1>4. /\ r \in Cpu /\ n \in Cpu /\ Held(c) = {LockFirst(r, n)}
      /\ op[c].back \in {"run", "down"} /\ op[c].other \in Worker
  BY <1>2, <1>3 DEF LockInv, InOrder, Balancing, Migrating, At, Held
<1>5. "move" \in Places
  BY DEF Places, Migrating
<1>6. /\ \A d \in Cpu \ {c} : op'[d] = op[d]
      /\ op'[c].pc = "move" /\ op'[c].rq = r /\ op'[c].n = n
      /\ op'[c].back = op[c].back /\ op'[c].other = op[c].other
  BY <1>1, <1>2, <1>3, <1>5, GotoStep
<1>7. l \in Cpu /\ LockFirst(r, n) \in {r, n} /\ {r, n} = {l, LockFirst(r, n)}
  BY <1>3, <1>4 DEF LockFirst
<1>8. Held(c)' = {r, n} /\ InOrder(c)'
  BY <1>4, <1>6 DEF Held, At, InOrder, Balancing, Migrating, Pairing
<1>9. \A d \in Cpu : lock[d] = c <=> d = LockFirst(r, n)
  BY <1>4 DEF LockInv
<1>10. \A d \in Cpu : lock'[d] = c <=> d \in {l, LockFirst(r, n)}
  BY <1>1, <1>3, <1>7, <1>9
<1>11. \A d \in Cpu : lock'[d] = c <=> d \in Held(c)'
  BY <1>7, <1>8, <1>10
<1>12. \A d \in Cpu : lock'[d] = lock[d] \/ (lock[d] \in {c, None} /\ lock'[d] \in {c, None})
  BY <1>1, <1>3, <1>7
<1> QED BY <1>6, <1>8, <1>11, <1>12, LocksOf

LEMMA MigrationMoveLocks ==
  ASSUME MigrationAssumption, MigrationInv, LockInv, NEW c \in Cpu, MigrationMove(c)
  PROVE  LockInv'
<1>1. lock \in [Cpu -> Cpu \cup {None}] /\ None \notin Cpu /\ op \in [Cpu -> OpRecord]
  BY Names DEF MigrationInv, Typed
<1>2. PICK r, n : r = op[c].rq /\ n = op[c].n
  OBVIOUS
<1>3. op[c].pc = "move" /\ lock' = [lock EXCEPT ![r] = None, ![n] = None]
  BY <1>2, Zenon DEF MigrationMove, At
<1>4. PICK l \in {"lock1", "up"} : Goto(c, l)
  BY DEF MigrationMove
<1>5. l \in Places
  BY <1>4 DEF Places, Migrating
<1>6. /\ \A d \in Cpu \ {c} : op'[d] = op[d]
      /\ op'[c].pc = l /\ op'[c].back = op[c].back /\ op'[c].other = op[c].other
  BY <1>1, <1>4, <1>5, GotoStep
<1>7. /\ r \in Cpu /\ n \in Cpu /\ Held(c) = {r, n}
      /\ op[c].back \in {"run", "down"} /\ op[c].other \in Worker
  BY <1>2, <1>3 DEF LockInv, InOrder, Balancing, Migrating, At, Held
<1>8. Held(c)' = {} /\ InOrder(c)'
  BY <1>6, <1>7 DEF Held, At, InOrder, Balancing, Migrating, Pairing
<1>9. \A d \in Cpu : lock[d] = c <=> d \in {r, n}
  BY <1>7 DEF LockInv
<1>10. \A d \in Cpu : lock'[d] = IF d \in {r, n} THEN None ELSE lock[d]
  BY <1>1, <1>3, <1>7
<1>11. \A d \in Cpu : lock'[d] = c <=> d \in Held(c)'
  BY <1>1, <1>8, <1>9, <1>10
<1>12. \A d \in Cpu : lock'[d] = lock[d] \/ (lock[d] \in {c, None} /\ lock'[d] \in {c, None})
  BY <1>1, <1>9, <1>10
<1> QED BY <1>6, <1>8, <1>11, <1>12, LocksOf

-----------------------------------------------------------------------------
LEMMA LocksPreserved ==
  ASSUME MigrationAssumption, MigrationInv, LockInv, [Next]_vars
  PROVE  LockInv'
<1>1. CASE UNCHANGED vars
  BY <1>1 DEF vars, LockInv, InOrder, Held, At, MustDrop
<1>2. ASSUME NEW c \in Cpu, Balance(c) PROVE LockInv'
  BY <1>2, ScheduleLocks, BalanceFindLocks, BalanceTryLocks, BalanceLockLocks, BalancePullLocks,
     BalanceEndLocks DEF Balance
<1>3. ASSUME NEW c \in Cpu, Migrate(c) PROVE LockInv'
  BY <1>3, MigrateLocks, MigrationLockLocks, MigrationLock2Locks, MigrationMoveLocks DEF Migrate
<1>4. PICK p : p \in Worker
  BY DEF MigrationAssumption
<1>5. ASSUME NEW c \in Cpu, Kernel(c) PROVE LockInv'
  BY <1>2, <1>3, <1>4, <1>5, ScheduleLocks, WakeLocks DEF Kernel
<1>6. ASSUME NEW c \in Cpu, Sleep(c) \/ Preempt(c) \/ Tick(c) PROVE LockInv'
  BY <1>6, ScheduleLocks, TickLocks
<1>7. ASSUME NEW c \in Cpu, NEW t \in Worker,
             WakeUp(c, t) \/ \E mask \in (SUBSET Cpu) \ {{}} : set_cpus_allowed(c, t, mask)
      PROVE  LockInv'
  BY <1>7, WakeLocks
<1> QED BY <1>1, <1>5, <1>6, <1>7, Zenon DEF Next

\* "double_rq_lock - safely lock two runqueues": a CPU spins only for a lock that comes after
\* those it holds.
LocksAscend == \A c, d \in Cpu : lock[d] = c /\ Wants(c) # None => d < Wants(c)

LEMMA Ascending ==
  ASSUME MigrationAssumption, LockInv
  PROVE  LocksAscend
<1>1. SUFFICES ASSUME NEW c \in Cpu, NEW d \in Cpu, lock[d] = c, Wants(c) # None
               PROVE  d < Wants(c)
  BY DEF LocksAscend
<1>2. d \in Held(c) /\ InOrder(c) /\ c \in Int /\ d \in Int
  BY <1>1 DEF LockInv, Cpu
<1>3. op[c].pc \in {"spin", "lock_own", "lock2"}
  BY <1>1, <1>2 DEF Held, Wants, At
<1>4. CASE At(c, "spin")
  <2>1. d = c /\ op[c].rq \in Cpu \ {c} /\ ~ (op[c].rq < c)
    BY <1>2, <1>4 DEF Held, InOrder, At, MustDrop, Pairing
  <2>2. Wants(c) = op[c].rq
    BY <1>4 DEF Wants, At
  <2> QED BY <1>2, <2>1, <2>2 DEF Cpu
<1>5. CASE At(c, "lock_own")
  <2>1. d = op[c].rq /\ op[c].rq < c
    BY <1>2, <1>5 DEF Held, InOrder, At, MustDrop
  <2>2. Wants(c) = c
    BY <1>5 DEF Wants, At
  <2> QED BY <2>1, <2>2
<1>6. CASE At(c, "lock2")
  <2>1. PICK r, n : r = op[c].rq /\ n = op[c].n
    OBVIOUS
  <2>2. r \in Cpu /\ n \in Cpu /\ r # n /\ d = LockFirst(r, n)
    BY <1>2, <1>6, <2>1 DEF Held, InOrder, At
  <2>3. lock[r] = c <=> r = LockFirst(r, n)
    BY <1>6, <2>1, <2>2 DEF LockInv, Held, At
  <2>4. Wants(c) = IF lock[r] = c THEN n ELSE r
    BY <1>6, <2>1 DEF Wants, At
  <2>5. r \in Int /\ n \in Int
    BY <2>2 DEF Cpu
  <2> QED BY <2>2, <2>3, <2>4, <2>5 DEF LockFirst
<1> QED BY <1>3, <1>4, <1>5, <1>6 DEF At

\* What a CPU spins for is the lock of a run queue.
LEMMA WantsALock ==
  ASSUME MigrationAssumption, MigrationInv, LockInv, NEW c \in Cpu
  PROVE  Wants(c) \in Cpu \cup {None}
<1>1. InOrder(c) /\ KeepsCPU(c) /\ cpu \in [Task -> Cpu] /\ Worker \subseteq Task
  BY Names DEF LockInv, MigrationInv, Typed
<1>2. CASE op[c].pc \in {"spin", "lock_busiest", "lock2"}
  <2>1. op[c].rq \in Cpu /\ (At(c, "lock2") => op[c].n \in Cpu)
    BY <1>1, <1>2 DEF InOrder, Pairing, At
  <2> QED BY <1>2, <2>1 DEF Wants, At
<1>3. CASE op[c].pc = "wake"
  <2>1. cpu[op[c].p] \in Cpu
    BY <1>1, <1>3 DEF InOrder, At
  <2> QED BY <1>3, <2>1 DEF Wants, At
<1>4. CASE op[c].pc = "lock1"
  <2>1. cpu[op[c].p] \in Cpu /\ op[c].n \in Cpu
    BY <1>1, <1>4 DEF KeepsCPU, Migrating
  <2>2. LockFirst(cpu[op[c].p], op[c].n) \in Cpu
    BY <2>1 DEF LockFirst
  <2> QED BY <1>4, <2>2 DEF Wants, At
<1>5. CASE op[c].pc \notin {"spin", "lock_busiest", "lock2", "wake", "lock1"}
  BY <1>5 DEF Wants, At
<1> QED BY <1>2, <1>3, <1>4, <1>5

LEMMA InvOfLocks ==
  ASSUME MigrationAssumption, MigrationInv, LockInv
  PROVE  LocksAscend /\ NoLockCycle
<1>1. LocksAscend
  BY Ascending
<1>2. ASSUME NEW c \in Cpu, NEW d \in Cpu, Wants(c) # None, Wants(d) # None,
             lock[Wants(c)] = d, lock[Wants(d)] = c
      PROVE  FALSE
  <2>1. Wants(c) \in Cpu /\ Wants(d) \in Cpu
    BY <1>2, WantsALock
  <2>2. Wants(d) < Wants(c) /\ Wants(c) < Wants(d)
    BY <1>1, <1>2, <2>1 DEF LocksAscend
  <2> QED BY <2>1, <2>2 DEF Cpu
<1> QED BY <1>1, <1>2 DEF NoLockCycle

\* double_lock_balance and double_rq_lock keep to one order, and so do the places that take
\* a lock after them: whatever CPU spins for a lock, those it holds come before it.
THEOREM LocksTakenUpwards ==
  ASSUME MigrationAssumption, Overdue = {}
  PROVE  Spec => []LocksAscend
<1>1. Init => MigrationInv /\ LockInv
  BY InitInv, InitLocks
<1>2. MigrationInv /\ LockInv /\ [Next]_vars => (MigrationInv /\ LockInv)'
  BY Preserved, LocksPreserved
<1>3. MigrationInv /\ LockInv => LocksAscend
  BY InvOfLocks
<1> QED BY <1>1, <1>2, <1>3, PTL DEF Spec

\* So no two CPUs of any number of them spin for each other's run queue locks.
THEOREM NoLocksCrossed ==
  ASSUME MigrationAssumption, Overdue = {}
  PROVE  Spec => []NoLockCycle
<1>1. Init => MigrationInv /\ LockInv
  BY InitInv, InitLocks
<1>2. MigrationInv /\ LockInv /\ [Next]_vars => (MigrationInv /\ LockInv)'
  BY Preserved, LocksPreserved
<1>3. MigrationInv /\ LockInv => NoLockCycle
  BY InvOfLocks
<1> QED BY <1>1, <1>2, <1>3, PTL DEF Spec

-----------------------------------------------------------------------------
(* The idle task is told of every task that comes to its run queue, as     *)
(* long as nobody asks a migration thread to bring one.                    *)

Occupied(c) == \E p \in Task : q[p] = c
Scheduling(c) ==
  op[c].pc \in {"sched", "pick", "picked"} \/ (op[c].pc \in Balancing /\ op[c].back = "picked")

IdleInv ==
  \A c \in Cpu :
    /\ requests[c] = <<>> /\ op[c].pc \notin Migrating \cup {"up"}
    /\ curr[c] = Idle /\ Occupied(c) /\ ~ Scheduling(c) => need_resched[c]

\* A run queue that counts a task links one.
LEMMA CountsTasks ==
  ASSUME MigrationAssumption, NEW c
  PROVE  nr_running(c) > 0 <=> Occupied(c)
<1>1. IsFiniteSet({p \in Task : q[p] = c})
  BY FiniteQueue
<1>2. nr_running(c) \in Nat /\ (nr_running(c) = 0 <=> {p \in Task : q[p] = c} = {})
  BY <1>1, FS_CardinalityType, FS_EmptySet DEF nr_running
<1>3. nr_running(c) > 0 <=> nr_running(c) # 0
  BY <1>2
<1> QED BY <1>2, <1>3 DEF Occupied

\* Whoever comes to an idle CPU makes it give way.
LEMMA IdleGivesWay ==
  ASSUME Overdue = {}, NEW p \in Task, NEW r \in Cpu, need_resched \in [Cpu -> BOOLEAN],
         \E b \in Preempts(p, r) : need_resched' = [need_resched EXCEPT ![r] = @ \/ b]
  PROVE  /\ \A d \in Cpu \ {r} : need_resched'[d] = need_resched[d]
         /\ curr[r] = Idle => need_resched'[r]
<1>1. PICK b \in Preempts(p, r) : need_resched' = [need_resched EXCEPT ![r] = need_resched[r] \/ b]
  BY Zenon
<1>2. PICK v : v = (need_resched[r] \/ b)
  OBVIOUS
<1>3. need_resched' = [need_resched EXCEPT ![r] = v]
  BY <1>1, <1>2
<1>4. need_resched'[r] = v /\ \A d \in Cpu \ {r} : need_resched'[d] = need_resched[d]
  BY <1>3
<1>5. curr[r] = Idle => b = TRUE
  BY DEF Preempts
<1> QED BY <1>2, <1>4, <1>5

\* A step of c that brings nobody to a run queue and lets no CPU go idle.
LEMMA NobodyComes ==
  ASSUME MigrationAssumption, IdleInv, NEW c \in Cpu, \A d \in Cpu \ {c} : op'[d] = op[d],
         op'[c].pc \notin Migrating \cup {"up"}, Scheduling(c)' \/ ~ Scheduling(c),
         \A p \in Task : q'[p] = q[p] \/ q'[p] = None,
         UNCHANGED <<curr, need_resched, requests>>
  PROVE  IdleInv'
<1>1. None \notin Cpu
  BY Names
<1>2. \A d \in Cpu : Occupied(d)' => Occupied(d)
  BY <1>1 DEF Occupied
<1>3. \A d \in Cpu \ {c} : Scheduling(d)' <=> Scheduling(d)
  BY DEF Scheduling
<1> QED BY <1>2, <1>3 DEF IdleInv

\* One that links p in the run queue of r, and tells r if it is idle.
LEMMA SomebodyComes ==
  ASSUME MigrationAssumption, Overdue = {}, IdleInv, NEW c \in Cpu, NEW p \in Task, NEW r \in Cpu,
         \A d \in Cpu \ {c} : op'[d] = op[d],
         op'[c].pc \notin Migrating \cup {"up"}, Scheduling(c)' \/ ~ Scheduling(c),
         q \in [Task -> Cpu \cup {None}], q' = [q EXCEPT ![p] = r],
         \A d \in Cpu \ {r} : need_resched'[d] = need_resched[d], curr[r] = Idle => need_resched'[r],
         UNCHANGED <<curr, requests>>
  PROVE  IdleInv'
<1>1. \A d \in Cpu \ {r} : Occupied(d)' => Occupied(d)
  BY DEF Occupied
<1>2. \A d \in Cpu \ {c} : Scheduling(d)' <=> Scheduling(d)
  BY DEF Scheduling
<1> QED BY <1>1, <1>2 DEF IdleInv

-----------------------------------------------------------------------------
LEMMA InitIdle ==
  ASSUME MigrationAssumption, Init
  PROVE  IdleInv
<1>1. \A c \in Cpu : requests[c] = <<>> /\ op[c].pc = "run"
  BY DEF Init, Running
<1>2. ASSUME NEW c \in Cpu, curr[c] = Idle, Occupied(c) PROVE FALSE
  <2>1. PICK p \in Task : q[p] = c
    BY <1>2 DEF Occupied
  <2>2. c = 0
    BY <2>1, Names DEF Init
  <2>3. curr[c] = CHOOSE w \in Worker : TRUE
    BY <2>2 DEF Init
  <2>4. curr[c] \in Worker
    BY <2>3 DEF MigrationAssumption
  <2> QED BY <1>2, <2>4, Names
<1> QED BY <1>1, <1>2 DEF IdleInv, Migrating

LEMMA SwitchIdle ==
  ASSUME MigrationAssumption, MigrationInv, IdleInv, NEW c \in Cpu, NEW p \in Task \cup {Idle},
         p = Idle => ~ Occupied(c), SwitchTo(c, p), UNCHANGED <<taskVars, requests>>
  PROVE  IdleInv'
<1>1. op \in [Cpu -> OpRecord] /\ curr \in [Cpu -> Task \cup {Idle}] /\ need_resched \in [Cpu -> BOOLEAN]
  BY DEF MigrationInv, Typed
<1>2. PICK l \in {"down", "run"} : Goto(c, l)
  BY DEF SwitchTo
<1>3. l \in Places
  BY <1>2 DEF Places
<1>4. (\A d \in Cpu \ {c} : op'[d] = op[d]) /\ op'[c].pc = l
  BY <1>1, <1>2, <1>3, GotoStep
<1>5. curr'[c] = p /\ \A d \in Cpu \ {c} : curr'[d] = curr[d] /\ need_resched'[d] = need_resched[d]
  BY <1>1 DEF SwitchTo
<1>6. \A d \in Cpu : Occupied(d)' <=> Occupied(d)
  BY DEF Occupied, taskVars
<1>7. \A d \in Cpu \ {c} : Scheduling(d)' <=> Scheduling(d)
  BY <1>4 DEF Scheduling
<1> QED BY <1>4, <1>5, <1>6, <1>7 DEF IdleInv, Migrating

LEMMA ScheduleIdle ==
  ASSUME MigrationAssumption, MigrationInv, IdleInv, NEW c \in Cpu,
         Sleep(c) \/ Preempt(c) \/ Schedule(c)
  PROVE  IdleInv'
<1>0. op \in [Cpu -> OpRecord] /\ q \in [Task -> Cpu \cup {None}]
  BY DEF MigrationInv, Typed
<1>1. ASSUME NEW l \in {"sched", "pick"}, Goto(c, l), UNCHANGED <<curr, need_resched, requests>>,
             \A p \in Task : q'[p] = q[p] \/ q'[p] = None
      PROVE  IdleInv'
  <2>1. l \in Places
    BY DEF Places
  <2>2. (\A d \in Cpu \ {c} : op'[d] = op[d]) /\ op'[c].pc = l
    BY <1>0, <1>1, <2>1, GotoStep
  <2>3. Scheduling(c)' /\ op'[c].pc \notin Migrating \cup {"up"}
    BY <2>2 DEF Scheduling, Migrating
  <2> QED BY <1>1, <2>2, <2>3, NobodyComes
<1>2. CASE Sleep(c) \/ Preempt(c)
  <2>1. Goto(c, "sched") /\ UNCHANGED <<q, curr, need_resched, requests>>
    BY <1>2 DEF Sleep, Preempt, taskVars
  <2> QED BY <1>1, <2>1
<1>3. CASE PutPrev(c)
  <2>1. \A p \in Task : q'[p] = q[p] \/ q'[p] = None
    BY <1>0, <1>3 DEF PutPrev
  <2>2. Goto(c, "pick") /\ UNCHANGED <<curr, need_resched, requests>>
    BY <1>3 DEF PutPrev
  <2> QED BY <1>1, <2>1, <2>2
<1>4. CASE PickNext(c)
  <2>1. PICK p \in Next_task(c) : SwitchTo(c, p)
    BY <1>4 DEF PickNext
  <2>2. p \in Task /\ p # Idle
    BY Names DEF Next_task
  <2>3. UNCHANGED <<taskVars, requests>>
    BY <1>4 DEF PickNext
  <2> QED BY <2>1, <2>2, <2>3, SwitchIdle
<1>5. CASE PickNone(c)
  <2>1. (\A d \in Cpu \ {c} : op'[d] = op[d]) /\ op'[c].pc = "find" /\ op'[c].back = "picked"
    BY <1>0, <1>5, PickNoneDoes
  <2>2. Scheduling(c)' /\ op'[c].pc \notin Migrating \cup {"up"}
    BY <2>1 DEF Scheduling, Balancing, Migrating
  <2>3. UNCHANGED <<q, curr, need_resched, requests>>
    BY <1>5 DEF PickNone, taskVars
  <2> QED BY <2>1, <2>2, <2>3, NobodyComes
<1>6. CASE AfterBalance(c)
  <2>1. UNCHANGED <<q, requests>> /\ UNCHANGED <<taskVars, requests>>
    BY <1>6 DEF AfterBalance, taskVars
  <2>2. CASE nr_running(c) > 0
    <3>1. Goto(c, "pick") /\ UNCHANGED <<curr, need_resched>>
      BY <1>6, <2>2 DEF AfterBalance
    <3> QED BY <1>1, <2>1, <3>1
  <2>3. CASE ~ (nr_running(c) > 0)
    <3>1. SwitchTo(c, Idle) /\ ~ Occupied(c)
      BY <1>6, <2>3, CountsTasks DEF AfterBalance
    <3> QED BY <2>1, <3>1, SwitchIdle
  <2> QED BY <2>2, <2>3
<1> QED BY <1>2, <1>3, <1>4, <1>5, <1>6 DEF Schedule

\* Tick and load_balance.
LEMMA BalanceIdle ==
  ASSUME MigrationAssumption, Overdue = {}, MigrationInv, LockInv, IdleInv, NEW c \in Cpu,
         Tick(c) \/ Balance(c)
  PROVE  IdleInv'
<1>0. /\ op \in [Cpu -> OpRecord] /\ q \in [Task -> Cpu \cup {None}]
      /\ need_resched \in [Cpu -> BOOLEAN] /\ InOrder(c)
  BY DEF MigrationInv, Typed, LockInv
<1>1. ASSUME \A d \in Cpu \ {c} : op'[d] = op[d], op'[c].pc \notin Migrating \cup {"up"},
             Scheduling(c)' \/ ~ Scheduling(c), UNCHANGED <<q, curr, need_resched, requests>>
      PROVE  IdleInv'
  BY <1>1, NobodyComes
<1>2. CASE Tick(c)
  <2>1. (\A d \in Cpu \ {c} : op'[d] = op[d]) /\ op'[c].pc = "find"
    BY <1>0, <1>2, TickDoes
  <2>2. op[c].pc = "run" /\ UNCHANGED <<q, curr, need_resched, requests>>
    BY <1>2 DEF Tick, taskVars, At
  <2>3. ~ Scheduling(c) /\ op'[c].pc \notin Migrating \cup {"up"}
    BY <2>1, <2>2 DEF Scheduling, Balancing, Migrating
  <2> QED BY <1>1, <2>1, <2>2, <2>3
<1>3. CASE Ticked(c)
  <2>1. op[c].pc = "ticked" /\ UNCHANGED <<q, curr, need_resched, requests>> /\ Goto(c, "run") /\ "run" \in Places
    BY <1>3 DEF Ticked, taskVars, At, Places
  <2>2. (\A d \in Cpu \ {c} : op'[d] = op[d]) /\ op'[c].pc = "run"
    BY <1>0, <2>1, GotoStep
  <2>3. ~ Scheduling(c) /\ op'[c].pc \notin Migrating \cup {"up"}
    BY <2>1, <2>2 DEF Scheduling, Balancing, Migrating
  <2> QED BY <1>1, <2>1, <2>2, <2>3
<1>4. ASSUME op[c].pc \in Balancing, Back(c), UNCHANGED <<q, curr, need_resched, requests>>
      PROVE  IdleInv'
  <2>1. op[c].back \in {"picked", "ticked"}
    BY <1>0, <1>4 DEF InOrder
  <2>2. (\A d \in Cpu \ {c} : op'[d] = op[d]) /\ op'[c].pc = op[c].back
    BY <1>0, <1>4, BackStep
  <2>3. (Scheduling(c)' \/ ~ Scheduling(c)) /\ op'[c].pc \notin Migrating \cup {"up"}
    BY <1>4, <2>1, <2>2 DEF Scheduling, Balancing, Migrating
  <2> QED BY <1>1, <1>4, <2>2, <2>3
<1>5. ASSUME op[c].pc \in Balancing, \A d \in Cpu \ {c} : op'[d] = op[d], op'[c].pc \in Balancing,
             op'[c].back = op[c].back
      PROVE  (Scheduling(c)' \/ ~ Scheduling(c)) /\ op'[c].pc \notin Migrating \cup {"up"}
  BY <1>5 DEF Scheduling, Balancing, Migrating
<1>6. CASE BalanceFind(c)
  <2>1. op[c].pc \in Balancing /\ UNCHANGED <<q, curr, need_resched, requests>>
    BY <1>6 DEF BalanceFind, taskVars, At, Balancing
  <2>2. CASE ~ Back(c)
    <3>1. (\A d \in Cpu \ {c} : op'[d] = op[d]) /\ op'[c].pc \in Balancing /\ op'[c].back = op[c].back
      BY <1>0, <1>6, <2>2, FindDoes DEF Balancing
    <3> QED BY <1>1, <1>5, <2>1, <3>1
  <2> QED BY <1>4, <2>1, <2>2
<1>7. CASE BalanceTry(c) \/ BalanceLock(c)
  <2>1. op[c].pc \in Balancing /\ UNCHANGED <<q, curr, need_resched, requests>>
    BY <1>7 DEF BalanceTry, BalanceLock, taskVars, At, Balancing
  <2>2. PICK l \in {"spin", "lock_busiest", "lock_own", "pull"} : Goto(c, l)
    <3>1. CASE BalanceTry(c)
      BY <3>1, Zenon DEF BalanceTry
    <3>2. CASE BalanceLock(c)
      BY <3>2, Zenon DEF BalanceLock
    <3> QED BY <1>7, <3>1, <3>2
  <2>3. l \in Places /\ l \in Balancing
    BY <2>2 DEF Places, Balancing
  <2>4. (\A d \in Cpu \ {c} : op'[d] = op[d]) /\ op'[c].pc = l /\ op'[c].back = op[c].back
    BY <1>0, <2>2, <2>3, GotoStep
  <2> QED BY <1>1, <1>5, <2>1, <2>3, <2>4
<1>8. CASE BalancePull(c)
  <2>1. op[c].pc \in Balancing /\ UNCHANGED <<curr, requests>>
    BY <1>8 DEF BalancePull, At, Balancing
  <2>2. PICK p \in Worker :
          /\ q' = [q EXCEPT ![p] = c]
          /\ \E b \in Preempts(p, c) : need_resched' = [need_resched EXCEPT ![c] = @ \/ b]
    BY <1>8 DEF BalancePull
  <2>3. (\A d \in Cpu \ {c} : op'[d] = op[d]) /\ op'[c].pc \in Balancing /\ op'[c].back = op[c].back
    BY <1>0, <1>8, PullDoes DEF Balancing
  <2>4. (Scheduling(c)' \/ ~ Scheduling(c)) /\ op'[c].pc \notin Migrating \cup {"up"}
    BY <1>5, <2>1, <2>3
  <2>5. p \in Task
    BY Names
  <2>6. (\A d \in Cpu \ {c} : need_resched'[d] = need_resched[d]) /\ (curr[c] = Idle => need_resched'[c])
    BY <1>0, <2>2, <2>5, IdleGivesWay
  <2> QED BY <1>0, <2>1, <2>2, <2>3, <2>4, <2>5, <2>6, SomebodyComes
<1>9. CASE BalanceEnd(c)
  <2>1. op[c].pc \in Balancing /\ Back(c) /\ UNCHANGED <<q, curr, need_resched, requests>>
    BY <1>9 DEF BalanceEnd, taskVars, At, Balancing
  <2> QED BY <1>4, <2>1
<1> QED BY <1>2, <1>3, <1>6, <1>7, <1>8, <1>9 DEF Balance

LEMMA WakeIdle ==
  ASSUME MigrationAssumption, Overdue = {}, MigrationInv, LockInv, IdleInv, NEW c \in Cpu,
         FastMigrate(c) \/ try_to_wake_up(c) \/ down(c) \/ \E p \in Worker : WakeUp(c, p)
  PROVE  IdleInv'
<1>0. /\ op \in [Cpu -> OpRecord] /\ q \in [Task -> Cpu \cup {None}] /\ cpu \in [Task -> Cpu]
      /\ need_resched \in [Cpu -> BOOLEAN] /\ InOrder(c)
  BY DEF MigrationInv, Typed, LockInv
<1>1. ASSUME NEW p \in Worker, WakeUp(c, p) PROVE IdleInv'
  <2>1. (\A d \in Cpu \ {c} : op'[d] = op[d]) /\ op'[c].pc = "wake"
    BY <1>0, <1>1, WakeUpDoes
  <2>2. op[c].pc = "run" /\ UNCHANGED <<q, curr, need_resched, requests>>
    BY <1>1 DEF WakeUp, taskVars, At
  <2>3. ~ Scheduling(c) /\ op'[c].pc \notin Migrating \cup {"up"}
    BY <2>1, <2>2 DEF Scheduling, Balancing, Migrating
  <2> QED BY <2>1, <2>2, <2>3, NobodyComes
<1>2. CASE FastMigrate(c)
  <2>1. UNCHANGED <<q, curr, need_resched, requests, op>>
    BY <1>2 DEF FastMigrate
  <2> QED BY <2>1 DEF IdleInv, Occupied, Scheduling
<1>3. CASE try_to_wake_up(c)
  <2>1. op[c].pc = "wake" /\ Back(c) /\ UNCHANGED <<curr, requests>>
    BY <1>3 DEF try_to_wake_up, At
  <2>2. op[c].back \in {"run", "down"} /\ op[c].p \in Task
    BY <1>0, <2>1 DEF InOrder, Balancing, At
  <2>3. (\A d \in Cpu \ {c} : op'[d] = op[d]) /\ op'[c].pc = op[c].back
    BY <1>0, <2>1, BackStep
  <2>4. ~ Scheduling(c) /\ op'[c].pc \notin Migrating \cup {"up"}
    BY <2>1, <2>2, <2>3 DEF Scheduling, Balancing, Migrating
  <2>5. PICK p \in Task, r \in Cpu : p = op[c].p /\ r = cpu[p]
    BY <1>0, <2>2
  <2>6. \/ UNCHANGED <<q, need_resched>>
        \/ /\ q' = [q EXCEPT ![p] = r]
           /\ \E b \in Preempts(p, r) : need_resched' = [need_resched EXCEPT ![r] = @ \/ b]
    BY <1>3, <2>5, Zenon DEF try_to_wake_up
  <2>7. CASE UNCHANGED <<q, need_resched>>
    BY <2>1, <2>3, <2>4, <2>7, NobodyComes
  <2>8. CASE /\ q' = [q EXCEPT ![p] = r]
             /\ \E b \in Preempts(p, r) : need_resched' = [need_resched EXCEPT ![r] = @ \/ b]
    <3>1. (\A d \in Cpu \ {r} : need_resched'[d] = need_resched[d]) /\ (curr[r] = Idle => need_resched'[r])
      BY <1>0, <2>8, IdleGivesWay
    <3> QED BY <1>0, <2>1, <2>3, <2>4, <2>8, <3>1, SomebodyComes
  <2> QED BY <2>6, <2>7, <2>8
<1>4. CASE down(c)
  <2>1. op[c].pc = "down" /\ UNCHANGED <<q, curr, need_resched, requests>>
    BY <1>4 DEF down, At
  <2>2. PICK l \in {"run", "sched"} : Goto(c, l)
    BY <1>4 DEF down
  <2>3. l \in Places
    BY <2>2 DEF Places
  <2>4. (\A d \in Cpu \ {c} : op'[d] = op[d]) /\ op'[c].pc = l
    BY <1>0, <2>2, <2>3, GotoStep
  <2>5. ~ Scheduling(c) /\ op'[c].pc \notin Migrating \cup {"up"}
    BY <2>1, <2>2, <2>4 DEF Scheduling, Balancing, Migrating
  <2> QED BY <2>1, <2>4, <2>5, NobodyComes
<1> QED BY <1>1, <1>2, <1>3, <1>4

\* Without requests the migration threads only go to sleep.
LEMMA MigrateIdle ==
  ASSUME MigrationAssumption, MigrationInv, IdleInv, NEW c \in Cpu, Migrate(c)
  PROVE  IdleInv'
<1>1. op[c].pc \notin Migrating \cup {"up"} /\ requests[c] = <<>>
  BY DEF IdleInv
<1>2. MigrationWait(c)
  BY <1>1 DEF Migrate, MigrationTake, MigrationDest, MigrationLock, MigrationLock2, MigrationMove,
     up, At, Migrating
<1>3. Goto(c, "sched") /\ UNCHANGED <<q, curr, need_resched, requests>> /\ "sched" \in Places
  BY <1>2 DEF MigrationWait, Places
<1>4. (\A d \in Cpu \ {c} : op'[d] = op[d]) /\ op'[c].pc = "sched"
  BY <1>3, GotoStep DEF MigrationInv, Typed
<1>5. Scheduling(c)' /\ op'[c].pc \notin Migrating \cup {"up"}
  BY <1>4 DEF Scheduling, Migrating
<1> QED BY <1>3, <1>4, <1>5, NobodyComes

LEMMA IdlePreserved ==
  ASSUME MigrationAssumption, Overdue = {}, Setters = {}, MigrationInv, LockInv, IdleInv, [Next]_vars
  PROVE  IdleInv'
<1>1. CASE UNCHANGED vars
  BY <1>1 DEF vars, taskVars, IdleInv, Occupied, Scheduling
<1>2. ASSUME NEW c \in Cpu, Kernel(c) \/ Sleep(c) \/ Preempt(c) \/ Tick(c) PROVE IdleInv'
  BY <1>2, ScheduleIdle, BalanceIdle, WakeIdle, MigrateIdle DEF Kernel
<1>3. ASSUME NEW c \in Cpu, NEW p \in Worker, WakeUp(c, p) PROVE IdleInv'
  BY <1>3, WakeIdle
<1>4. \A c, p, mask : ~ set_cpus_allowed(c, p, mask)
  BY DEF set_cpus_allowed
<1> QED BY <1>1, <1>2, <1>3, <1>4, Zenon DEF Next

LEMMA InvOfIdle ==
  ASSUME MigrationAssumption, IdleInv
  PROVE  IdleNotices
<1>1. ASSUME NEW c \in Cpu, curr[c] = Idle, At(c, "run"), nr_running(c) > 0 PROVE need_resched[c]
  <2>1. Occupied(c)
    BY <1>1, CountsTasks
  <2>2. ~ Scheduling(c)
    BY <1>1 DEF Scheduling, At, Balancing
  <2> QED BY <1>1, <2>1, <2>2 DEF IdleInv
<1> QED BY <1>1 DEF IdleNotices

\* Wake-ups and load balancing of any number of CPUs and tasks tell an idle CPU of what they
\* put in its run queue.  (The migration thread does not, see set_cpus_allowed.)
THEOREM IdleIsTold ==
  ASSUME MigrationAssumption, Overdue = {}, Setters = {}
  PROVE  Spec => []IdleNotices
<1>1. Init => MigrationInv /\ LockInv /\ IdleInv
  BY InitInv, InitLocks, InitIdle
<1>2. MigrationInv /\ LockInv /\ IdleInv /\ [Next]_vars => (MigrationInv /\ LockInv /\ IdleInv)'
  BY Preserved, LocksPreserved, IdlePreserved
<1>3. IdleInv => IdleNotices
  BY InvOfIdle
<1> QED BY <1>1, <1>2, <1>3, PTL DEF Spec

-----------------------------------------------------------------------------
(* One task at a time asks for an affinity: its request is answered before *)
(* it goes on, and until then nobody else changes a mask.                  *)

\* A request that nobody has answered: in the list of c, or in the hands of its thread.
Serving(c) == op[c].pc \in Migrating \cup {"up"}
Engaged(c) == requests[c] # <<>> \/ Serving(c)
AskedAt(p, c) ==
  \/ requests[c] # <<>> /\ requests[c][1].task = p
  \/ op[c].pc \in Migrating /\ op[c].p = p

\* The caller s is between its request and its return from down.
Calling(c) == At(c, "down") \/ (At(c, "wake") /\ op[c].back = "down")
Asking(s) ==
  \/ s \in waiting
  \/ \E c \in Cpu : curr[c] = s /\ Calling(c)

OneRequest ==
  /\ \A c \in Cpu : /\ Len(requests[c]) <= 1 /\ (Serving(c) => requests[c] = <<>>)
                    /\ ~ Serving(c) => op[c].other = None
  /\ \A c, d \in Cpu : Engaged(c) /\ Engaged(d) => c = d
CallersWait ==
  \A s \in Setters :
    /\ s \in done \/ (\E c \in Cpu : Engaged(c)) => Asking(s)
    /\ s \in done => \A c \in Cpu : ~ Engaged(c)
    /\ s \in waiting => \A c \in Cpu : curr[c] = s => Scheduling(c) \/ At(c, "down")
Placed ==
  /\ \A p \in Task : cpu[p] \in cpus_allowed[p] \/ AskedAt(p, cpu[p])
  /\ \A c \in Cpu : op[c].pc \in Migrating \ {"dest"} => op[c].n \in cpus_allowed[op[c].p]

AffinityInv == OneRequest /\ CallersWait /\ Placed

\* A step of c that leaves the requests where they are.
LEMMA OneRequestKept ==
  ASSUME OneRequest, NEW c \in Cpu, \A d \in Cpu \ {c} : op'[d] = op[d], requests' = requests,
         Serving(c)' <=> Serving(c), op'[c].other \in {op[c].other, None}
  PROVE  OneRequest' /\ \A d \in Cpu : Engaged(d)' <=> Engaged(d)
<1>1. \A d \in Cpu \ {c} : (Serving(d)' <=> Serving(d)) /\ op'[d].other = op[d].other
  BY DEF Serving
<1>2. \A d \in Cpu : Serving(d)' <=> Serving(d)
  BY <1>1
<1>3. \A d \in Cpu : Engaged(d)' <=> Engaged(d)
  BY <1>2 DEF Engaged
<1>4. \A d \in Cpu : ~ Serving(d) => op'[d].other = None
  BY <1>1 DEF OneRequest
<1> QED BY <1>2, <1>3, <1>4 DEF OneRequest

\* One after which its callers are where they were, or further on to their sleep.
LEMMA CallersKept ==
  ASSUME CallersWait, NEW c \in Cpu, \A d \in Cpu \ {c} : op'[d] = op[d],
         UNCHANGED <<curr, done, waiting>>,
         \A d \in Cpu : Engaged(d)' => Engaged(d),
         Calling(c) => Calling(c)', Scheduling(c) \/ At(c, "down") => Scheduling(c)' \/ At(c, "down")'
  PROVE  CallersWait'
<1>1. \A d \in Cpu : Calling(d) => Calling(d)'
  BY DEF Calling, At
<1>2. \A d \in Cpu : Scheduling(d) \/ At(d, "down") => Scheduling(d)' \/ At(d, "down")'
  BY DEF Scheduling, At
<1>3. \A s : Asking(s) => Asking(s)'
  BY <1>1 DEF Asking
<1> QED BY <1>2, <1>3 DEF CallersWait

\* One that moves tasks only to where they may be.
LEMMA PlacedKept ==
  ASSUME Placed, NEW c \in Cpu, \A d \in Cpu \ {c} : op'[d] = op[d], cpu \in [Task -> Cpu],
         UNCHANGED <<cpus_allowed, requests>>, \A p \in Task : cpu'[p] \in {cpu[p]} \cup cpus_allowed[p],
         op[c].pc \in Migrating => op'[c].pc \in Migrating /\ op'[c].p = op[c].p,
         op'[c].pc \in Migrating \ {"dest"} => op'[c].n \in cpus_allowed[op'[c].p]
  PROVE  Placed'
<1>1. \A p \in Task : \A d \in Cpu : AskedAt(p, d) => AskedAt(p, d)'
  BY DEF AskedAt
<1>2. ASSUME NEW p \in Task, cpu'[p] \notin cpus_allowed[p] PROVE AskedAt(p, cpu[p])'
  <2>1. PICK d \in Cpu : d = cpu[p]
    OBVIOUS
  <2>2. cpu'[p] = d /\ AskedAt(p, d)
    BY <1>2, <2>1 DEF Placed
  <2>3. AskedAt(p, d)'
    BY <1>1, <2>1, <2>2
  <2> QED BY <2>2, <2>3 DEF AskedAt
<1>3. \A p \in Task : (cpu[p] \in cpus_allowed[p] \/ AskedAt(p, cpu[p]))'
  BY <1>2
<1>4. ASSUME NEW d \in Cpu, op'[d].pc \in Migrating \ {"dest"} PROVE op'[d].n \in cpus_allowed[op'[d].p]
  BY <1>4 DEF Placed
<1> QED BY <1>3, <1>4 DEF Placed

\* A step of c outside the requests, the masks and the semaphores.
LEMMA NoRequest ==
  ASSUME MigrationInv, AffinityInv, NEW c \in Cpu, \A d \in Cpu \ {c} : op'[d] = op[d],
         op[c].pc \notin Migrating \cup {"up"}, op'[c].pc \notin Migrating \cup {"up"},
         UNCHANGED <<curr, done, waiting, requests, cpus_allowed>>,
         op'[c].other \in {op[c].other, None},
         \A p \in Task : cpu'[p] \in {cpu[p]} \cup cpus_allowed[p],
         Calling(c) => Calling(c)', Scheduling(c) \/ At(c, "down") => Scheduling(c)' \/ At(c, "down")'
  PROVE  AffinityInv'
<1>1. Serving(c)' <=> Serving(c)
  BY DEF Serving
<1>2. OneRequest' /\ \A d \in Cpu : Engaged(d)' <=> Engaged(d)
  BY <1>1, OneRequestKept DEF AffinityInv
<1>3. CallersWait'
  BY <1>2, CallersKept DEF AffinityInv
<1>4. cpu \in [Task -> Cpu]
  BY DEF MigrationInv, Typed
<1>5. Placed'
  BY <1>4, PlacedKept DEF AffinityInv
<1> QED BY <1>2, <1>3, <1>5 DEF AffinityInv

\* One of the migration thread that serves a request and goes on with it.
LEMMA ServesOn ==
  ASSUME MigrationInv, AffinityInv, NEW c \in Cpu, \A d \in Cpu \ {c} : op'[d] = op[d],
         op[c].pc \in Migrating, op'[c].pc \in Migrating, op'[c].p = op[c].p,
         UNCHANGED <<curr, done, waiting, requests, cpus_allowed, cpu>>,
         op'[c].other = op[c].other, op'[c].pc # "dest" => op'[c].n \in cpus_allowed[op[c].p]
  PROVE  AffinityInv'
<1>1. Serving(c)' <=> Serving(c)
  BY DEF Serving
<1>2. OneRequest' /\ \A d \in Cpu : Engaged(d)' <=> Engaged(d)
  BY <1>1, OneRequestKept DEF AffinityInv
<1>3. ~ Calling(c) /\ ~ Scheduling(c) /\ ~ At(c, "down")
  BY DEF Calling, Scheduling, At, Migrating, Balancing
<1>4. CallersWait'
  BY <1>2, <1>3, CallersKept DEF AffinityInv
<1>5. cpu \in [Task -> Cpu] /\ \A p \in Task : cpu'[p] \in {cpu[p]} \cup cpus_allowed[p]
  BY DEF MigrationInv, Typed
<1>6. Placed'
  BY <1>5, PlacedKept DEF AffinityInv
<1> QED BY <1>2, <1>4, <1>6 DEF AffinityInv

-----------------------------------------------------------------------------
LEMMA InitAffinity ==
  ASSUME MigrationAssumption, Init
  PROVE  AffinityInv
<1>1. \A c \in Cpu : op[c].pc = "run" /\ op[c].other = None /\ requests[c] = <<>>
  BY DEF Init, Running
<1>2. done = {} /\ waiting = {}
  BY DEF Init
<1>3. \A c \in Cpu : ~ Serving(c) /\ ~ Engaged(c)
  BY <1>1 DEF Serving, Engaged, Migrating
<1>4. OneRequest
  BY <1>1, <1>3 DEF OneRequest
<1>5. CallersWait
  BY <1>2, <1>3 DEF CallersWait
<1>6. \A p \in Task : Home(p) \in Cpu
  BY HomeOfThread
<1>7. Placed
  BY <1>1, <1>6 DEF Placed, Init, Migrating
<1> QED BY <1>4, <1>5, <1>7 DEF AffinityInv

\* A caller that is chosen again goes on in down.
LEMMA SwitchAffinity ==
  ASSUME MigrationAssumption, MigrationInv, AffinityInv, NEW c \in Cpu, NEW p \in Task \cup {Idle},
         op[c].pc \in {"pick", "picked"}, SwitchTo(c, p), UNCHANGED <<taskVars, requests, done, waiting>>
  PROVE  AffinityInv'
<1>1. op \in [Cpu -> OpRecord] /\ curr \in [Cpu -> Task \cup {Idle}] /\ cpu \in [Task -> Cpu]
  BY DEF MigrationInv, Typed
<1>2. PICK l \in {"down", "run"} : Goto(c, l) /\ (p \in waiting => l = "down")
  BY DEF SwitchTo
<1>3. l \in Places
  BY <1>2 DEF Places
<1>4. (\A d \in Cpu \ {c} : op'[d] = op[d]) /\ op'[c].pc = l /\ op'[c].other = op[c].other
  BY <1>1, <1>2, <1>3, GotoStep
<1>5. curr'[c] = p /\ \A d \in Cpu \ {c} : curr'[d] = curr[d]
  BY <1>1 DEF SwitchTo
<1>6. Serving(c)' <=> Serving(c)
  BY <1>4 DEF Serving, Migrating
<1>7. OneRequest' /\ \A d \in Cpu : Engaged(d)' <=> Engaged(d)
  BY <1>4, <1>6, OneRequestKept DEF AffinityInv
<1>8. CallersWait'
  <2>1. ~ Calling(c) /\ \A d \in Cpu \ {c} : Calling(d)' <=> Calling(d)
    BY <1>4 DEF Calling, At
  <2>2. \A s \in Setters : Asking(s) => Asking(s)'
    BY <1>5, <2>1 DEF Asking
  <2>3. \A d \in Cpu \ {c} : Scheduling(d) \/ At(d, "down") => (Scheduling(d) \/ At(d, "down"))'
    BY <1>4 DEF Scheduling, At
  <2>4. p \in waiting => At(c, "down")'
    BY <1>2, <1>4 DEF At
  <2>5. ASSUME NEW s \in Setters, s \in waiting, NEW d \in Cpu, curr'[d] = s
        PROVE  (Scheduling(d) \/ At(d, "down"))'
    <3>1. CASE d = c
      BY <1>5, <2>4, <2>5, <3>1
    <3>2. CASE d # c
      BY <1>5, <2>3, <2>5, <3>2 DEF AffinityInv, CallersWait
    <3> QED BY <3>1, <3>2
  <2> QED BY <1>7, <2>2, <2>5 DEF AffinityInv, CallersWait
<1>9. Placed'
  <2>1. op'[c].pc \notin Migrating /\ op[c].pc \notin Migrating
    BY <1>4 DEF Migrating
  <2>2. UNCHANGED <<cpus_allowed, requests, cpu>>
    BY DEF taskVars
  <2> QED BY <1>1, <1>4, <2>1, <2>2, PlacedKept DEF AffinityInv
<1> QED BY <1>7, <1>8, <1>9 DEF AffinityInv

LEMMA ScheduleAffinity ==
  ASSUME MigrationAssumption, MigrationInv, AffinityInv, NEW c \in Cpu,
         Sleep(c) \/ Preempt(c) \/ Schedule(c)
  PROVE  AffinityInv'
<1>0. op \in [Cpu -> OpRecord]
  BY DEF MigrationInv, Typed
<1>1. ASSUME NEW l \in {"sched", "pick"}, Goto(c, l), op[c].pc \in {"run", "sched", "picked"},
             UNCHANGED <<curr, done, waiting, requests, cpus_allowed, cpu>>
      PROVE  AffinityInv'
  <2>1. l \in Places
    BY DEF Places
  <2>2. (\A d \in Cpu \ {c} : op'[d] = op[d]) /\ op'[c].pc = l /\ op'[c].other = op[c].other
    BY <1>0, <1>1, <2>1, GotoStep
  <2>3. Scheduling(c)' /\ ~ Calling(c)
    BY <1>1, <2>2 DEF Scheduling, Calling, At
  <2>4. op[c].pc \notin Migrating \cup {"up"} /\ op'[c].pc \notin Migrating \cup {"up"}
    BY <1>1, <2>2 DEF Migrating
  <2> QED BY <1>1, <2>2, <2>3, <2>4, NoRequest
<1>2. CASE Sleep(c) \/ Preempt(c)
  <2>1. /\ Goto(c, "sched") /\ op[c].pc = "run"
        /\ UNCHANGED <<curr, done, waiting, requests, cpus_allowed, cpu>>
    BY <1>2 DEF Sleep, Preempt, taskVars, At
  <2> QED BY <1>1, <2>1
<1>3. CASE PutPrev(c)
  <2>1. /\ Goto(c, "pick") /\ op[c].pc = "sched"
        /\ UNCHANGED <<curr, done, waiting, requests, cpus_allowed, cpu>>
    BY <1>3 DEF PutPrev, At
  <2> QED BY <1>1, <2>1
<1>4. CASE PickNext(c)
  <2>1. PICK p \in Next_task(c) : SwitchTo(c, p)
    BY <1>4 DEF PickNext
  <2>2. p \in Task
    BY Names DEF Next_task
  <2>3. op[c].pc = "pick" /\ UNCHANGED <<taskVars, requests, done, waiting>>
    BY <1>4 DEF PickNext, At
  <2> QED BY <2>1, <2>2, <2>3, SwitchAffinity
<1>5. CASE PickNone(c)
  <2>1. /\ \A d \in Cpu \ {c} : op'[d] = op[d]
        /\ op'[c].pc = "find" /\ op'[c].back = "picked" /\ op'[c].other = op[c].other
    BY <1>0, <1>5, PickNoneDoes
  <2>2. op[c].pc = "pick" /\ UNCHANGED <<curr, done, waiting, requests, cpus_allowed, cpu>>
    BY <1>5 DEF PickNone, taskVars, At
  <2>3. /\ Scheduling(c)' /\ ~ Calling(c)
        /\ op[c].pc \notin Migrating \cup {"up"} /\ op'[c].pc \notin Migrating \cup {"up"}
    BY <2>1, <2>2 DEF Scheduling, Calling, Balancing, Migrating, At
  <2> QED BY <2>1, <2>2, <2>3, NoRequest
<1>6. CASE AfterBalance(c)
  <2>1. op[c].pc = "picked" /\ UNCHANGED <<taskVars, requests, done, waiting>>
    BY <1>6 DEF AfterBalance, At
  <2>2. SwitchTo(c, Idle) \/ (Goto(c, "pick") /\ curr' = curr)
    BY <1>6 DEF AfterBalance
  <2> QED BY <1>1, <2>1, <2>2, SwitchAffinity DEF taskVars
<1> QED BY <1>2, <1>3, <1>4, <1>5, <1>6 DEF Schedule

LEMMA BalanceAffinity ==
  ASSUME MigrationAssumption, MigrationInv, LockInv, AffinityInv, NEW c \in Cpu,
         Tick(c) \/ Balance(c)
  PROVE  AffinityInv'
<1>0. op \in [Cpu -> OpRecord] /\ cpu \in [Task -> Cpu] /\ InOrder(c)
  BY DEF MigrationInv, Typed, LockInv
<1>1. ASSUME op[c].pc \in {"run", "ticked"}, op'[c].pc \in {"run", "find"}, op'[c].other = op[c].other,
             \A d \in Cpu \ {c} : op'[d] = op[d],
             UNCHANGED <<curr, done, waiting, requests, cpus_allowed, cpu>>
      PROVE  AffinityInv'
  <2>1. /\ ~ Calling(c) /\ ~ Scheduling(c) /\ ~ At(c, "down")
        /\ op[c].pc \notin Migrating \cup {"up"} /\ op'[c].pc \notin Migrating \cup {"up"}
    BY <1>1 DEF Calling, Scheduling, At, Balancing, Migrating
  <2> QED BY <1>1, <2>1, NoRequest
<1>2. CASE Tick(c)
  <2>1. op[c].pc = "run" /\ UNCHANGED <<curr, done, waiting, requests, cpus_allowed, cpu>>
    BY <1>2 DEF Tick, taskVars, At
  <2>2. (\A d \in Cpu \ {c} : op'[d] = op[d]) /\ op'[c].pc = "find" /\ op'[c].other = op[c].other
    BY <1>0, <1>2, TickDoes
  <2> QED BY <1>1, <2>1, <2>2
<1>3. CASE Ticked(c)
  <2>1. /\ op[c].pc = "ticked" /\ UNCHANGED <<curr, done, waiting, requests, cpus_allowed, cpu>>
        /\ Goto(c, "run") /\ "run" \in Places
    BY <1>3 DEF Ticked, taskVars, At, Places
  <2>2. (\A d \in Cpu \ {c} : op'[d] = op[d]) /\ op'[c].pc = "run" /\ op'[c].other = op[c].other
    BY <1>0, <2>1, GotoStep
  <2> QED BY <1>1, <2>1, <2>2
<1>4. ASSUME op[c].pc \in Balancing, Back(c), UNCHANGED <<curr, done, waiting, requests, cpus_allowed, cpu>>
      PROVE  AffinityInv'
  <2>1. op[c].back \in {"picked", "ticked"}
    BY <1>0, <1>4 DEF InOrder
  <2>2. (\A d \in Cpu \ {c} : op'[d] = op[d]) /\ op'[c].pc = op[c].back /\ op'[c].other = None
    BY <1>0, <1>4, BackStep
  <2>3. /\ Scheduling(c) => Scheduling(c)'
        /\ ~ Calling(c) /\ ~ At(c, "down")
        /\ op[c].pc \notin Migrating \cup {"up"} /\ op'[c].pc \notin Migrating \cup {"up"}
    BY <1>4, <2>1, <2>2 DEF Calling, Scheduling, At, Balancing, Migrating
  <2> QED BY <1>4, <2>2, <2>3, NoRequest
<1>5. ASSUME op[c].pc \in Balancing, op'[c].pc \in Balancing, op'[c].back = op[c].back,
             op'[c].other = op[c].other, \A d \in Cpu \ {c} : op'[d] = op[d],
             UNCHANGED <<curr, done, waiting, requests, cpus_allowed>>,
             \A p \in Task : cpu'[p] \in {cpu[p]} \cup cpus_allowed[p]
      PROVE  AffinityInv'
  <2>1. /\ Scheduling(c) => Scheduling(c)'
        /\ ~ Calling(c) /\ ~ At(c, "down")
        /\ op[c].pc \notin Migrating \cup {"up"} /\ op'[c].pc \notin Migrating \cup {"up"}
    BY <1>5 DEF Calling, Scheduling, At, Balancing, Migrating
  <2> QED BY <1>5, <2>1, NoRequest
<1>6. CASE BalanceFind(c)
  <2>1. op[c].pc \in Balancing /\ UNCHANGED <<curr, done, waiting, requests, cpus_allowed, cpu>>
    BY <1>6 DEF BalanceFind, taskVars, At, Balancing
  <2>2. CASE ~ Back(c)
    <3>1. /\ \A d \in Cpu \ {c} : op'[d] = op[d]
          /\ op'[c].pc \in Balancing /\ op'[c].back = op[c].back /\ op'[c].other = op[c].other
      BY <1>0, <1>6, <2>2, FindDoes DEF Balancing
    <3> QED BY <1>5, <2>1, <3>1
  <2> QED BY <1>4, <2>1, <2>2
<1>7. CASE BalanceTry(c) \/ BalanceLock(c)
  <2>1. op[c].pc \in Balancing /\ UNCHANGED <<curr, done, waiting, requests, cpus_allowed, cpu>>
    BY <1>7 DEF BalanceTry, BalanceLock, taskVars, At, Balancing
  <2>2. PICK l \in {"spin", "lock_busiest", "lock_own", "pull"} : Goto(c, l)
    <3>1. CASE BalanceTry(c)
      BY <3>1, Zenon DEF BalanceTry
    <3>2. CASE BalanceLock(c)
      BY <3>2, Zenon DEF BalanceLock
    <3> QED BY <1>7, <3>1, <3>2
  <2>3. l \in Places /\ l \in Balancing
    BY <2>2 DEF Places, Balancing
  <2>4. /\ \A d \in Cpu \ {c} : op'[d] = op[d]
        /\ op'[c].pc = l /\ op'[c].back = op[c].back /\ op'[c].other = op[c].other
    BY <1>0, <2>2, <2>3, GotoStep
  <2> QED BY <1>5, <2>1, <2>3, <2>4
<1>8. CASE BalancePull(c)
  <2>1. op[c].pc \in Balancing /\ UNCHANGED <<curr, done, waiting, requests, cpus_allowed>>
    BY <1>8 DEF BalancePull, At, Balancing
  <2>2. PICK p \in Worker : c \in cpus_allowed[p] /\ cpu' = [cpu EXCEPT ![p] = c]
    BY <1>8 DEF BalancePull, CAN_MIGRATE_TASK
  <2>3. \A t \in Task : cpu'[t] \in {cpu[t]} \cup cpus_allowed[t]
    BY <1>0, <2>2
  <2>4. /\ \A d \in Cpu \ {c} : op'[d] = op[d]
        /\ op'[c].pc \in Balancing /\ op'[c].back = op[c].back /\ op'[c].other = op[c].other
    BY <1>0, <1>8, PullDoes DEF Balancing
  <2> QED BY <1>5, <2>1, <2>3, <2>4
<1>9. CASE BalanceEnd(c)
  <2>1. op[c].pc \in Balancing /\ Back(c) /\ UNCHANGED <<curr, done, waiting, requests, cpus_allowed, cpu>>
    BY <1>9 DEF BalanceEnd, taskVars, At, Balancing
  <2> QED BY <1>4, <2>1
<1> QED BY <1>2, <1>3, <1>6, <1>7, <1>8, <1>9 DEF Balance

-----------------------------------------------------------------------------
LEMMA WakeAffinity ==
  ASSUME MigrationAssumption, MigrationInv, LockInv, AffinityInv, NEW c \in Cpu,
         FastMigrate(c) \/ try_to_wake_up(c) \/ \E p \in Worker : WakeUp(c, p)
  PROVE  AffinityInv'
<1>0. op \in [Cpu -> OpRecord] /\ cpu \in [Task -> Cpu] /\ InOrder(c)
  BY DEF MigrationInv, Typed, LockInv
<1>1. ASSUME NEW p \in Worker, WakeUp(c, p) PROVE AffinityInv'
  <2>1. /\ \A d \in Cpu \ {c} : op'[d] = op[d]
        /\ op'[c].pc = "wake" /\ op'[c].other = op[c].other
    BY <1>0, <1>1, WakeUpDoes
  <2>2. op[c].pc = "run" /\ UNCHANGED <<curr, done, waiting, requests, cpus_allowed, cpu>>
    BY <1>1 DEF WakeUp, taskVars, At
  <2>3. /\ ~ Calling(c) /\ ~ Scheduling(c) /\ ~ At(c, "down")
        /\ op[c].pc \notin Migrating \cup {"up"} /\ op'[c].pc \notin Migrating \cup {"up"}
    BY <2>1, <2>2 DEF Calling, Scheduling, At, Balancing, Migrating
  <2> QED BY <2>1, <2>2, <2>3, NoRequest
<1>2. CASE FastMigrate(c)
  <2>1. /\ op' = op /\ op[c].pc = "wake"
        /\ UNCHANGED <<curr, done, waiting, requests, cpus_allowed>>
    BY <1>2 DEF FastMigrate, At
  <2>2. PICK p \in Worker : c \in cpus_allowed[p] /\ cpu' = [cpu EXCEPT ![p] = c]
    BY <1>2 DEF FastMigrate, FastMigrates
  <2>3. \A t \in Task : cpu'[t] \in {cpu[t]} \cup cpus_allowed[t]
    BY <1>0, <2>2
  <2>4. /\ Calling(c) => Calling(c)'
        /\ Scheduling(c) \/ At(c, "down") => Scheduling(c)' \/ At(c, "down")'
        /\ op[c].pc \notin Migrating \cup {"up"} /\ op'[c].pc \notin Migrating \cup {"up"}
        /\ op'[c].other = op[c].other /\ \A d \in Cpu \ {c} : op'[d] = op[d]
    BY <2>1 DEF Calling, Scheduling, At, Migrating
  <2> QED BY <2>1, <2>3, <2>4, NoRequest
<1>3. CASE try_to_wake_up(c)
  <2>1. /\ op[c].pc = "wake" /\ Back(c)
        /\ UNCHANGED <<curr, done, waiting, requests, cpus_allowed, cpu>>
    BY <1>3 DEF try_to_wake_up, At
  <2>2. op[c].back \in {"run", "down"}
    BY <1>0, <2>1 DEF InOrder, Balancing
  <2>3. (\A d \in Cpu \ {c} : op'[d] = op[d]) /\ op'[c].pc = op[c].back /\ op'[c].other = None
    BY <1>0, <2>1, BackStep
  <2>4. /\ Calling(c) => Calling(c)'
        /\ ~ Scheduling(c) /\ ~ At(c, "down")
        /\ op[c].pc \notin Migrating \cup {"up"} /\ op'[c].pc \notin Migrating \cup {"up"}
    BY <2>1, <2>2, <2>3 DEF Calling, Scheduling, At, Balancing, Migrating
  <2> QED BY <2>1, <2>3, <2>4, NoRequest
<1> QED BY <1>1, <1>2, <1>3

\* The caller that finds the semaphore up has been answered; another one goes to sleep.
LEMMA DownAffinity ==
  ASSUME MigrationAssumption, MigrationInv, AffinityInv, NEW c \in Cpu, down(c)
  PROVE  AffinityInv'
<1>0. op \in [Cpu -> OpRecord] /\ cpu \in [Task -> Cpu]
  BY DEF MigrationInv, Typed
<1>1. PICK t : t = curr[c]
  OBVIOUS
<1>2. op[c].pc = "down" /\ UNCHANGED <<curr, requests, cpus_allowed, cpu>>
  BY DEF down, At
<1>3. \/ t \in done /\ done' = done \ {t} /\ waiting' = waiting \ {t} /\ Goto(c, "run")
      \/ t \notin done /\ waiting' = waiting \cup {t} /\ Goto(c, "sched") /\ done' = done
  BY <1>1, Zenon DEF down
<1>4. PICK l \in {"run", "sched"} : Goto(c, l) /\ (l = "run" <=> t \in done)
  BY <1>3
<1>5. l \in Places
  BY <1>4 DEF Places
<1>6. (\A d \in Cpu \ {c} : op'[d] = op[d]) /\ op'[c].pc = l /\ op'[c].other = op[c].other
  BY <1>0, <1>4, <1>5, GotoStep
<1>7. Serving(c)' <=> Serving(c)
  BY <1>2, <1>6 DEF Serving, Migrating
<1>8. OneRequest' /\ \A d \in Cpu : Engaged(d)' <=> Engaged(d)
  BY <1>2, <1>6, <1>7, OneRequestKept DEF AffinityInv
<1>9. CallersWait'
  <2>1. ASSUME NEW s \in Setters, s # t
        PROVE  (Asking(s) => Asking(s)') /\ (s \in done' <=> s \in done) /\ (s \in waiting' <=> s \in waiting)
    <3>1. \A d \in Cpu \ {c} : Calling(d)' <=> Calling(d)
      BY <1>6 DEF Calling, At
    <3>2. curr[c] # s
      BY <1>1, <2>1
    <3>3. (s \in done' <=> s \in done) /\ (s \in waiting' <=> s \in waiting)
      BY <1>3, <2>1
    <3> QED BY <1>2, <3>1, <3>2, <3>3 DEF Asking
  <2>2. \A d \in Cpu \ {c} : (Scheduling(d) \/ At(d, "down"))' <=> (Scheduling(d) \/ At(d, "down"))
    BY <1>6 DEF Scheduling, At
  <2>3. ASSUME NEW s \in Setters, s # t
        PROVE  /\ s \in done' \/ (\E d \in Cpu : Engaged(d)') => Asking(s)'
               /\ s \in done' => \A d \in Cpu : ~ Engaged(d)'
               /\ s \in waiting' => \A d \in Cpu : curr'[d] = s => (Scheduling(d) \/ At(d, "down"))'
    <3>1. curr[c] # s
      BY <1>1, <2>3
    <3> QED BY <1>2, <1>8, <2>1, <2>2, <2>3, <3>1 DEF AffinityInv, CallersWait
  <2>4. ASSUME t \in Setters
        PROVE  /\ t \in done' \/ (\E d \in Cpu : Engaged(d)') => Asking(t)'
               /\ t \in done' => \A d \in Cpu : ~ Engaged(d)'
               /\ t \in waiting' => \A d \in Cpu : curr'[d] = t => (Scheduling(d) \/ At(d, "down"))'
    <3>1. CASE t \in done
      <4>1. t \notin done' /\ t \notin waiting'
        BY <1>3, <3>1
      <4>2. \A d \in Cpu : ~ Engaged(d)'
        BY <1>8, <2>4, <3>1 DEF AffinityInv, CallersWait
      <4> QED BY <4>1, <4>2
    <3>2. CASE t \notin done
      <4>1. t \notin done' /\ t \in waiting' /\ l = "sched"
        BY <1>3, <1>4, <3>2
      <4>2. Asking(t)'
        BY <4>1 DEF Asking
      <4>3. ASSUME NEW d \in Cpu, curr[d] = t PROVE Scheduling(d)'
        <5>1. t # Idle
          BY <2>4, Names
        <5>2. d = c
          BY <1>1, <4>3, <5>1 DEF MigrationInv, CurrentAtHome
        <5> QED BY <1>6, <4>1, <5>2 DEF Scheduling
      <4> QED BY <1>2, <4>1, <4>2, <4>3
    <3> QED BY <3>1, <3>2
  <2> QED BY <2>3, <2>4 DEF CallersWait
<1>10. Placed'
  <2>1. op'[c].pc \notin Migrating /\ op[c].pc \notin Migrating
    BY <1>2, <1>6 DEF Migrating
  <2> QED BY <1>0, <1>2, <1>6, <2>1, PlacedKept DEF AffinityInv
<1> QED BY <1>8, <1>9, <1>10 DEF AffinityInv

\* Who asks is the only one that may, and nobody's request is open.
LEMMA NobodyEngaged ==
  ASSUME MigrationAssumption, MigrationInv, AffinityInv, NEW c \in Cpu, op[c].pc = "run",
         curr[c] \in Setters
  PROVE  (\A d \in Cpu : ~ Engaged(d)) /\ curr[c] \notin done /\ curr[c] \notin waiting
<1>1. ~ Scheduling(c) /\ ~ At(c, "down") /\ ~ Calling(c)
  BY DEF Scheduling, At, Calling, Balancing
<1>2. curr[c] # Idle
  BY Names
<1>3. \A d \in Cpu : curr[d] = curr[c] => d = c
  BY <1>2 DEF MigrationInv, CurrentAtHome
<1>4. curr[c] \notin waiting
  BY <1>1 DEF AffinityInv, CallersWait
<1>5. ~ Asking(curr[c])
  BY <1>1, <1>3, <1>4 DEF Asking
<1> QED BY <1>4, <1>5 DEF AffinityInv, CallersWait

LEMMA SetAffinity ==
  ASSUME MigrationAssumption, \A s, t \in Setters : s = t, MigrationInv, AffinityInv,
         NEW c \in Cpu, NEW p \in Worker, NEW mask \in (SUBSET Cpu) \ {{}}, set_cpus_allowed(c, p, mask)
  PROVE  AffinityInv'
<1>0. /\ op \in [Cpu -> OpRecord] /\ cpu \in [Task -> Cpu] /\ p \in Task
      /\ cpus_allowed \in [Task -> (SUBSET Cpu) \ {{}}]
      /\ requests \in [Cpu -> Seq([task : Worker, from : Worker])]
  BY Names DEF MigrationInv, Typed
<1>1. op[c].pc = "run" /\ curr[c] \in Setters /\ UNCHANGED <<curr, done, waiting>>
  BY DEF set_cpus_allowed, At
<1>2. (\A d \in Cpu : ~ Engaged(d)) /\ curr[c] \notin done /\ curr[c] \notin waiting
  BY <1>1, NobodyEngaged
<1>3. \A t \in Task : cpu[t] \in cpus_allowed[t]
  BY <1>0, <1>2 DEF AffinityInv, Placed, AskedAt, Engaged, Serving
<1>4. cpus_allowed' = [cpus_allowed EXCEPT ![p] = mask]
  BY DEF set_cpus_allowed
<1>5. PICK r \in Cpu : r = cpu[p]
  BY <1>0
<1>6. ASSUME UNCHANGED <<requests, op>>, \A t \in Task : cpu'[t] \in cpus_allowed'[t]
      PROVE  AffinityInv'
  <2>1. \A d \in Cpu : (Engaged(d)' <=> Engaged(d)) /\ (Serving(d)' <=> Serving(d))
    BY <1>6 DEF Engaged, Serving
  <2>2. OneRequest'
    BY <1>6, <2>1 DEF AffinityInv, OneRequest
  <2>3. \A s \in Setters : Asking(s)' <=> Asking(s)
    BY <1>1, <1>6 DEF Asking, Calling, At
  <2>4. \A d \in Cpu : (Scheduling(d)' <=> Scheduling(d)) /\ (At(d, "down")' <=> At(d, "down"))
    BY <1>6 DEF Scheduling, At
  <2>5. CallersWait'
    BY <1>1, <2>1, <2>3, <2>4 DEF AffinityInv, CallersWait
  <2>6. \A d \in Cpu : op'[d].pc \notin Migrating
    BY <1>2, <1>6 DEF Engaged, Serving
  <2>7. Placed'
    BY <1>6, <2>6 DEF Placed
  <2> QED BY <2>2, <2>5, <2>7 DEF AffinityInv
<1>7. CASE r \in mask
  <2>1. UNCHANGED <<cpu, requests, op>>
    BY <1>5, <1>7 DEF set_cpus_allowed
  <2>2. \A t \in Task : cpu'[t] \in cpus_allowed'[t]
    BY <1>0, <1>3, <1>4, <1>5, <1>7, <2>1
  <2> QED BY <1>6, <2>1, <2>2
<1>8. CASE cpu' = [cpu EXCEPT ![p] = First(mask)] /\ UNCHANGED <<requests, op>>
  <2>1. First(mask) \in mask
    BY FirstInMask
  <2>2. \A t \in Task : cpu'[t] \in cpus_allowed'[t]
    BY <1>0, <1>3, <1>4, <1>8, <2>1
  <2> QED BY <1>6, <1>8, <2>2
<1>9. ASSUME requests' = [requests EXCEPT ![cpu[p]] = <<[task |-> p, from |-> curr[c]]>> \o @],
             op' = [op EXCEPT ![c].pc = "wake", ![c].p = MThread(cpu[p]), ![c].back = "down"],
             cpu' = cpu
      PROVE  AffinityInv'
  <2>1. /\ \A d \in Cpu \ {c} : op'[d] = op[d]
        /\ op'[c].pc = "wake" /\ op'[c].back = "down" /\ op'[c].other = op[c].other
    BY <1>0, <1>5, <1>9, AskDoes
  <2>2. requests[r] = <<>>
    BY <1>2 DEF Engaged
  <2>3. PICK e : e = [task |-> p, from |-> curr[c]]
    OBVIOUS
  <2>4. requests' = [requests EXCEPT ![r] = <<e>>]
    <3>1. requests' = [requests EXCEPT ![r] = <<e>> \o requests[r]]
      BY <1>5, <1>9, <2>3, Zenon
    <3>2. <<e>> \o <<>> = <<e>>
      OBVIOUS
    <3> QED BY <2>2, <3>1, <3>2
  <2>5. requests'[r] = <<e>> /\ \A d \in Cpu \ {r} : requests'[d] = <<>>
    BY <1>0, <1>2, <2>4 DEF Engaged
  <2>6. \A d \in Cpu : ~ Serving(d)'
    <3>1. \A d \in Cpu : ~ Serving(d)
      BY <1>2 DEF Engaged
    <3>2. ~ Serving(c)'
      BY <2>1 DEF Serving, Migrating
    <3> QED BY <2>1, <3>1, <3>2 DEF Serving
  <2>7. \A d \in Cpu : Engaged(d)' => d = r
    BY <2>5, <2>6 DEF Engaged
  <2>8. OneRequest'
    <3>1. \A d \in Cpu : Len(requests'[d]) <= 1
      <4>1. Len(<<e>>) = 1 /\ Len(<<>>) = 0
        OBVIOUS
      <4>2. \A d \in Cpu : Len(requests'[d]) \in {0, 1}
        BY <2>5, <4>1
      <4> QED BY <4>2
    <3>2. \A d \in Cpu : op'[d].other = None
      <4>1. \A d \in Cpu : op[d].other = None
        BY <1>2 DEF AffinityInv, OneRequest, Engaged
      <4> QED BY <2>1, <4>1
    <3> QED BY <2>6, <2>7, <3>1, <3>2 DEF OneRequest
  <2>9. Asking(curr[c])'
    BY <1>1, <2>1 DEF Asking, Calling, At
  <2>10. CallersWait'
    BY <1>1, <1>2, <2>9 DEF CallersWait
  <2>11. Placed'
    <3>1. \A d \in Cpu : op'[d].pc \notin Migrating
      BY <2>6 DEF Serving
    <3>2. ASSUME NEW t \in Task, t # p PROVE cpu'[t] \in cpus_allowed'[t]
      BY <1>0, <1>3, <1>4, <1>9, <3>2
    <3>3. AskedAt(p, cpu[p])'
      <4>1. requests'[cpu'[p]] # <<>> /\ requests'[cpu'[p]][1].task = p
        BY <1>5, <1>9, <2>3, <2>5
      <4> QED BY <4>1 DEF AskedAt
    <3> QED BY <3>1, <3>2, <3>3 DEF Placed
  <2> QED BY <2>8, <2>10, <2>11 DEF AffinityInv
<1> QED BY <1>5, <1>7, <1>8, <1>9, Zenon DEF set_cpus_allowed

-----------------------------------------------------------------------------
\* The migration thread holds the only request from its list to its up.
LEMMA TakeAffinity ==
  ASSUME MigrationAssumption, MigrationInv, AffinityInv, NEW c \in Cpu, MigrationTake(c)
  PROVE  AffinityInv'
<1>0. /\ Typed /\ cpu \in [Task -> Cpu]
      /\ requests \in [Cpu -> Seq([task : Worker, from : Worker])]
  BY DEF MigrationInv, Typed
<1>1. /\ op[c].pc = "run" /\ requests[c] # <<>>
      /\ requests' = [requests EXCEPT ![c] = Tail(requests[c])]
      /\ UNCHANGED <<curr, done, waiting, cpus_allowed, cpu>>
  BY Zenon DEF MigrationTake, At
<1>2. /\ \A d \in Cpu \ {c} : op'[d] = op[d]
      /\ op'[c].pc = "dest" /\ op'[c].p = requests[c][1].task
  BY <1>0, TakeDoes
<1>3. Engaged(c) /\ \A d \in Cpu \ {c} : ~ Engaged(d)
  BY <1>1 DEF AffinityInv, OneRequest, Engaged
<1>4. PICK S, s : S = [task : Worker, from : Worker] /\ s = requests[c]
  OBVIOUS
<1>5. s \in Seq(S) /\ Len(s) <= 1 /\ s # <<>>
  BY <1>0, <1>1, <1>4 DEF AffinityInv, OneRequest
<1>6. Tail(s) = <<>>
  <2>1. Tail(s) \in Seq(S) /\ Len(Tail(s)) = Len(s) - 1 /\ Len(s) \in Nat
    BY <1>5, HeadTailProperties
  <2>2. Len(Tail(s)) \in Nat
    BY <2>1
  <2>3. Len(Tail(s)) = 0
    BY <1>5, <2>1, <2>2
  <2> QED BY <2>1, <2>3, EmptySeq
<1>7. requests'[c] = <<>> /\ \A d \in Cpu \ {c} : requests'[d] = requests[d] /\ requests[d] = <<>>
  BY <1>0, <1>1, <1>3, <1>4, <1>6 DEF Engaged
<1>8. Serving(c)' /\ \A d \in Cpu \ {c} : ~ Serving(d)'
  BY <1>2, <1>3 DEF Serving, Engaged, Migrating
<1>9. \A d \in Cpu : Engaged(d)' => Engaged(d)
  BY <1>3, <1>7, <1>8 DEF Engaged
<1>10. OneRequest'
  <2>1. \A d \in Cpu : Len(requests'[d]) <= 1
    BY <1>7
  <2>2. \A d \in Cpu \ {c} : op'[d].other = None
    BY <1>2, <1>3 DEF AffinityInv, OneRequest, Engaged
  <2>3. \A d, f \in Cpu : Engaged(d)' /\ Engaged(f)' => d = f
    BY <1>3, <1>9
  <2>4. \A d \in Cpu : requests'[d] = <<>>
    BY <1>7
  <2> QED BY <1>8, <2>1, <2>2, <2>3, <2>4 DEF OneRequest
<1>11. ~ Calling(c) /\ ~ Scheduling(c) /\ ~ At(c, "down")
  BY <1>1 DEF Calling, Scheduling, At, Balancing
<1>12. CallersWait'
  BY <1>1, <1>2, <1>9, <1>11, CallersKept DEF AffinityInv
<1>13. Placed'
  <2>1. ASSUME NEW p \in Task, cpu[p] \notin cpus_allowed[p] PROVE AskedAt(p, cpu[p])'
    <3>1. PICK d \in Cpu : d = cpu[p]
      BY <1>0
    <3>2. AskedAt(p, d)
      BY <2>1, <3>1 DEF AffinityInv, Placed
    <3>3. d = c
      BY <1>3, <3>2 DEF AskedAt, Engaged, Serving
    <3>4. requests[c][1].task = p
      BY <1>1, <3>2, <3>3 DEF AskedAt, Migrating
    <3>5. op'[d].pc \in Migrating /\ op'[d].p = p /\ cpu'[p] = d
      BY <1>1, <1>2, <3>1, <3>3, <3>4 DEF Migrating
    <3> QED BY <3>5 DEF AskedAt
  <2>2. \A d \in Cpu : op'[d].pc \notin Migrating \ {"dest"}
    BY <1>2, <1>8 DEF Serving
  <2>3. \A p \in Task : (cpu[p] \in cpus_allowed[p] \/ AskedAt(p, cpu[p]))'
    BY <1>1, <2>1
  <2> QED BY <2>2, <2>3 DEF Placed
<1> QED BY <1>10, <1>12, <1>13 DEF AffinityInv

LEMMA ServeAffinity ==
  ASSUME MigrationAssumption, MigrationInv, AffinityInv, NEW c \in Cpu,
         MigrationWait(c) \/ MigrationDest(c) \/ MigrationLock(c) \/ MigrationLock2(c)
  PROVE  AffinityInv'
<1>0. op \in [Cpu -> OpRecord]
  BY DEF MigrationInv, Typed
<1>1. UNCHANGED <<curr, done, waiting, requests, cpus_allowed, cpu>>
  BY DEF MigrationWait, MigrationDest, MigrationLock, MigrationLock2, taskVars
<1>2. CASE MigrationWait(c)
  <2>1. op[c].pc = "run" /\ Goto(c, "sched") /\ "sched" \in Places
    BY <1>2 DEF MigrationWait, At, Places
  <2>2. (\A d \in Cpu \ {c} : op'[d] = op[d]) /\ op'[c].pc = "sched" /\ op'[c].other = op[c].other
    BY <1>0, <2>1, GotoStep
  <2>3. /\ ~ Calling(c) /\ ~ Scheduling(c) /\ ~ At(c, "down")
        /\ op[c].pc \notin Migrating \cup {"up"} /\ op'[c].pc \notin Migrating \cup {"up"}
    BY <2>1, <2>2 DEF Calling, Scheduling, At, Balancing, Migrating
  <2>4. \A p \in Task : cpu'[p] \in {cpu[p]} \cup cpus_allowed[p]
    BY <1>1
  <2> QED BY <1>1, <2>2, <2>3, <2>4, NoRequest
<1>3. CASE MigrationDest(c)
  <2>1. op[c].pc \in Migrating
    BY <1>3 DEF MigrationDest, At, Migrating
  <2>2. /\ \A d \in Cpu \ {c} : op'[d] = op[d]
        /\ op'[c].pc = "lock1" /\ op'[c].p = op[c].p /\ op'[c].n \in cpus_allowed[op[c].p]
        /\ op'[c].other = op[c].other
    BY <1>3, DestDoes
  <2>3. op'[c].pc \in Migrating
    BY <2>2 DEF Migrating
  <2> QED BY <1>1, <2>1, <2>2, <2>3, ServesOn
<1>4. CASE MigrationLock(c)
  <2>1. op[c].pc \in Migrating \ {"dest"}
    BY <1>4 DEF MigrationLock, At, Migrating
  <2>2. /\ \A d \in Cpu \ {c} : op'[d] = op[d]
        /\ op'[c].pc \in Migrating /\ op'[c].p = op[c].p /\ op'[c].n = op[c].n
        /\ op'[c].other = op[c].other
    BY <1>4, LockDoes DEF Migrating
  <2>3. op'[c].n \in cpus_allowed[op[c].p]
    BY <2>1, <2>2 DEF AffinityInv, Placed
  <2> QED BY <1>1, <2>1, <2>2, <2>3, ServesOn
<1>5. CASE MigrationLock2(c)
  <2>1. op[c].pc \in Migrating \ {"dest"} /\ Goto(c, "move") /\ "move" \in Places
    BY <1>5 DEF MigrationLock2, At, Migrating, Places
  <2>2. /\ \A d \in Cpu \ {c} : op'[d] = op[d]
        /\ op'[c].pc = "move" /\ op'[c].p = op[c].p /\ op'[c].n = op[c].n
        /\ op'[c].other = op[c].other
    BY <1>0, <2>1, GotoStep
  <2>3. op'[c].n \in cpus_allowed[op[c].p] /\ op'[c].pc \in Migrating
    BY <2>1, <2>2 DEF AffinityInv, Placed, Migrating
  <2> QED BY <1>1, <2>1, <2>2, <2>3, ServesOn
<1> QED BY <1>2, <1>3, <1>4, <1>5

\* Once the thread has found the task on the CPU it locked, the task is where it may be:
\* there before, or brought there.
LEMMA MoveAffinity ==
  ASSUME MigrationAssumption, MigrationInv, AffinityInv, NEW c \in Cpu, MigrationMove(c)
  PROVE  AffinityInv'
<1>0. op \in [Cpu -> OpRecord] /\ cpu \in [Task -> Cpu]
  BY DEF MigrationInv, Typed
<1>1. PICK p, src, n : p = op[c].p /\ src = op[c].rq /\ n = op[c].n
  OBVIOUS
<1>2. /\ op[c].pc = "move" /\ UNCHANGED <<curr, done, waiting, requests, cpus_allowed>>
      /\ cpu' = IF Moves(c, p) THEN [cpu EXCEPT ![p] = n] ELSE cpu
      /\ Goto(c, IF cpu[p] # src THEN "lock1" ELSE "up")
  BY <1>1, Zenon DEF MigrationMove, At
<1>3. op[c].pc \in Migrating \ {"dest"} /\ p \in Task /\ n \in cpus_allowed[p]
  <2>1. op[c].pc \in Migrating \ {"dest"}
    BY <1>2 DEF Migrating
  <2> QED BY <1>1, <2>1, Names DEF MigrationInv, KeepsCPU, AffinityInv, Placed
<1>4. CASE cpu[p] # src
  <2>1. Goto(c, "lock1") /\ "lock1" \in Places /\ cpu' = cpu
    BY <1>1, <1>2, <1>4 DEF Moves, Places, Migrating
  <2>2. /\ \A d \in Cpu \ {c} : op'[d] = op[d]
        /\ op'[c].pc = "lock1" /\ op'[c].p = op[c].p /\ op'[c].n = op[c].n
        /\ op'[c].other = op[c].other
    BY <1>0, <2>1, GotoStep
  <2>3. op'[c].pc \in Migrating /\ op'[c].n \in cpus_allowed[op[c].p]
    BY <1>1, <1>3, <2>2 DEF Migrating
  <2> QED BY <1>2, <1>3, <2>1, <2>2, <2>3, ServesOn
<1>5. CASE cpu[p] = src
  <2>1. Goto(c, "up") /\ "up" \in Places
    BY <1>2, <1>5 DEF Places
  <2>2. /\ \A d \in Cpu \ {c} : op'[d] = op[d]
        /\ op'[c].pc = "up" /\ op'[c].other = op[c].other
    BY <1>0, <2>1, GotoStep
  <2>3. Serving(c)' <=> Serving(c)
    BY <1>3, <2>2 DEF Serving
  <2>4. OneRequest' /\ \A d \in Cpu : Engaged(d)' <=> Engaged(d)
    BY <1>2, <2>2, <2>3, OneRequestKept DEF AffinityInv
  <2>5. ~ Calling(c) /\ ~ Scheduling(c) /\ ~ At(c, "down")
    BY <1>2 DEF Calling, Scheduling, At, Balancing
  <2>6. CallersWait'
    BY <1>2, <2>2, <2>4, <2>5, CallersKept DEF AffinityInv
  <2>7. Engaged(c) /\ requests[c] = <<>> /\ \A d \in Cpu \ {c} : ~ Engaged(d)
    BY <1>3 DEF AffinityInv, OneRequest, Engaged, Serving
  <2>8. ASSUME NEW t \in Task, NEW d \in Cpu, AskedAt(t, d) PROVE d = c /\ t = p
    <3>1. d = c
      BY <2>7, <2>8 DEF AskedAt, Engaged, Serving
    <3> QED BY <1>1, <2>7, <2>8, <3>1 DEF AskedAt
  <2>9. \A t \in Task : cpu[t] \in cpus_allowed[t] \/ (t = p /\ cpu[p] = c)
    BY <1>0, <2>8 DEF AffinityInv, Placed
  <2>10. ASSUME NEW t \in Task PROVE cpu'[t] \in cpus_allowed[t]
    <3>1. CASE Moves(c, p)
      BY <1>0, <1>2, <1>3, <2>9, <3>1
    <3>2. CASE ~ Moves(c, p)
      <4>1. cpu' = cpu /\ cpu[p] # c
        BY <1>1, <1>2, <1>5, <3>2 DEF Moves
      <4> QED BY <2>9, <4>1
    <3> QED BY <3>1, <3>2
  <2>11. \A d \in Cpu : op'[d].pc \notin Migrating
    BY <2>2, <2>7 DEF Engaged, Serving, Migrating
  <2>12. Placed'
    BY <1>2, <2>10, <2>11 DEF Placed
  <2> QED BY <2>4, <2>6, <2>12 DEF AffinityInv
<1> QED BY <1>4, <1>5

\* With the answer the request is gone.
LEMMA UpAffinity ==
  ASSUME MigrationAssumption, MigrationInv, AffinityInv, NEW c \in Cpu, up(c)
  PROVE  AffinityInv'
<1>0. op \in [Cpu -> OpRecord] /\ cpu \in [Task -> Cpu]
  BY DEF MigrationInv, Typed
<1>1. PICK t : t = op[c].other
  OBVIOUS
<1>2. /\ op[c].pc = "up" /\ UNCHANGED <<curr, waiting, requests, cpus_allowed, cpu>>
      /\ done' = done \cup {t}
  BY <1>1 DEF up, Answered, taskVars, At
<1>3. /\ \A d \in Cpu \ {c} : op'[d] = op[d]
      /\ op'[c].pc = "wake" /\ op'[c].back = "run" /\ op'[c].other = None
  BY <1>0, UpDoes
<1>4. Engaged(c) /\ requests[c] = <<>> /\ \A d \in Cpu \ {c} : ~ Engaged(d)
  BY <1>2 DEF AffinityInv, OneRequest, Engaged, Serving
<1>5. \A d \in Cpu : requests'[d] = <<>> /\ ~ Serving(d)' /\ ~ Engaged(d)'
  BY <1>2, <1>3, <1>4 DEF Engaged, Serving, Migrating
<1>6. OneRequest'
  <2>1. \A d \in Cpu : op'[d].other = None
    BY <1>3, <1>4 DEF AffinityInv, OneRequest, Engaged
  <2> QED BY <1>5, <2>1 DEF OneRequest
<1>7. ~ Calling(c) /\ ~ Scheduling(c) /\ ~ At(c, "down")
  BY <1>2 DEF Calling, Scheduling, At, Balancing
<1>8. \A s \in Setters : Asking(s)'
  <2>1. \A s \in Setters : Asking(s)
    BY <1>4 DEF AffinityInv, CallersWait
  <2>2. \A d \in Cpu \ {c} : Calling(d)' <=> Calling(d)
    BY <1>3 DEF Calling, At
  <2> QED BY <1>2, <1>7, <2>1, <2>2 DEF Asking
<1>9. \A d \in Cpu : Scheduling(d) \/ At(d, "down") => (Scheduling(d) \/ At(d, "down"))'
  BY <1>3, <1>7 DEF Scheduling, At
<1>10. CallersWait'
  BY <1>2, <1>5, <1>8, <1>9 DEF AffinityInv, CallersWait
<1>11. Placed'
  <2>1. ASSUME NEW p \in Task PROVE cpu[p] \in cpus_allowed[p]
    <3>1. \A d \in Cpu : ~ AskedAt(p, d)
      BY <1>2, <1>4 DEF AskedAt, Engaged, Serving, Migrating
    <3> QED BY <1>0, <3>1 DEF AffinityInv, Placed
  <2>2. \A d \in Cpu : op'[d].pc \notin Migrating
    BY <1>5 DEF Serving
  <2> QED BY <1>2, <2>1, <2>2 DEF Placed
<1> QED BY <1>6, <1>10, <1>11 DEF AffinityInv

-----------------------------------------------------------------------------
LEMMA AffinityPreserved ==
  ASSUME MigrationAssumption, \A s, t \in Setters : s = t,
         MigrationInv, LockInv, AffinityInv, [Next]_vars
  PROVE  AffinityInv'
<1>1. CASE UNCHANGED vars
  BY <1>1 DEF vars, taskVars, AffinityInv, OneRequest, CallersWait, Placed, Engaged, Serving, AskedAt,
     Asking, Calling, Scheduling, At
<1>2. ASSUME NEW c \in Cpu, Migrate(c) PROVE AffinityInv'
  BY <1>2, TakeAffinity, ServeAffinity, MoveAffinity, UpAffinity DEF Migrate
<1>3. ASSUME NEW c \in Cpu, Kernel(c) \/ Sleep(c) \/ Preempt(c) \/ Tick(c) PROVE AffinityInv'
  BY <1>2, <1>3, ScheduleAffinity, BalanceAffinity, WakeAffinity, DownAffinity DEF Kernel
<1>4. ASSUME NEW c \in Cpu, NEW p \in Worker, WakeUp(c, p) PROVE AffinityInv'
  BY <1>4, WakeAffinity
<1>5. ASSUME NEW c \in Cpu, NEW p \in Worker, NEW mask \in (SUBSET Cpu) \ {{}},
             set_cpus_allowed(c, p, mask)
      PROVE  AffinityInv'
  BY <1>5, SetAffinity
<1> QED BY <1>1, <1>3, <1>4, <1>5, Zenon DEF Next

LEMMA InvOfAffinity ==
  ASSUME MigrationAssumption, MigrationInv, LockInv, AffinityInv
  PROVE  AffinityKept
<1>1. ASSUME NEW p \in Task, Settled(p) PROVE cpu[p] \in cpus_allowed[p]
  <2>1. PICK d \in Cpu : d = cpu[p]
    BY DEF MigrationInv, Typed
  <2>2. ASSUME requests[d] # <<>> PROVE requests[d][1].task # p
    <3>1. requests[d] \in Seq([task : Worker, from : Worker])
      BY DEF MigrationInv, Typed
    <3>2. 1 \in 1 .. Len(requests[d])
      BY <2>2, <3>1
    <3> QED BY <1>1, <3>2 DEF Settled
  <2>3. op[d].pc \in Migrating => op[d].p # p
    BY <1>1, Names DEF Settled, LockInv, InOrder
  <2>4. ~ AskedAt(p, d)
    BY <2>2, <2>3 DEF AskedAt
  <2> QED BY <2>1, <2>4 DEF AffinityInv, Placed
<1> QED BY <1>1 DEF AffinityKept

\* set_cpus_allowed, when one task calls it at a time, keeps every task of any number of CPUs
\* where it may be, from the answer of the migration thread on, whoever balances, wakes or
\* migrates it.
THEOREM AllowedWhereTheyAre ==
  ASSUME MigrationAssumption, Overdue = {}, \A s, t \in Setters : s = t
  PROVE  Spec => []AffinityKept
<1>1. Init => MigrationInv /\ LockInv /\ AffinityInv
  BY InitInv, InitLocks, InitAffinity
<1>2. MigrationInv /\ LockInv /\ AffinityInv /\ [Next]_vars => (MigrationInv /\ LockInv /\ AffinityInv)'
  BY Preserved, LocksPreserved, AffinityPreserved
<1>3. MigrationInv /\ LockInv /\ AffinityInv => AffinityKept
  BY InvOfAffinity
<1> QED BY <1>1, <1>2, <1>3, PTL DEF Spec

-----------------------------------------------------------------------------
(* The count of a balancing never falls below zero: the first task is      *)
(* taken when at least one is to be, the others while some are left.       *)

CountInv ==
  /\ \A c \in Cpu : op[c].n \in Nat /\ (op[c].pc \in Pairing \ {"pulled"} => op[c].n > 0)
  /\ \A c \in Cpu : \A i \in 1 .. Len(requests[c]) : requests[c][i].from \in Setters

\* A step of c that asks nobody.
LEMMA CountKept ==
  ASSUME CountInv, NEW c \in Cpu, \A d \in Cpu \ {c} : op'[d] = op[d], requests' = requests,
         op'[c].n \in Nat, op'[c].pc \in Pairing \ {"pulled"} => op'[c].n > 0
  PROVE  CountInv'
BY DEF CountInv

LEMMA InitCount ==
  ASSUME MigrationAssumption, Init
  PROVE  CountInv
<1>1. \A c \in Cpu : op[c].n = 0 /\ op[c].pc = "run" /\ requests[c] = <<>>
  BY DEF Init, Running
<1>2. Len(<<>>) = 0
  OBVIOUS
<1>3. 1 .. 0 = {}
  OBVIOUS
<1> QED BY <1>1, <1>2, <1>3 DEF CountInv, Pairing

LEMMA CountGoto ==
  ASSUME MigrationInv, CountInv, NEW c \in Cpu, NEW l \in Places, Goto(c, l), requests' = requests,
         l \in Pairing \ {"pulled"} => op[c].pc \in Pairing \ {"pulled"}
  PROVE  CountInv'
<1>1. (\A d \in Cpu \ {c} : op'[d] = op[d]) /\ op'[c].pc = l /\ op'[c].n = op[c].n
  BY GotoStep DEF MigrationInv, Typed
<1>2. op[c].n \in Nat /\ (op[c].pc \in Pairing \ {"pulled"} => op[c].n > 0)
  BY DEF CountInv
<1> QED BY <1>1, <1>2, CountKept

LEMMA CountBack ==
  ASSUME MigrationInv, CountInv, NEW c \in Cpu, Back(c), requests' = requests
  PROVE  CountInv'
<1>1. op \in [Cpu -> OpRecord] /\ op[c].back \in {"run", "picked", "ticked", "down"}
  BY DEF MigrationInv, Typed, OpRecord
<1>2. (\A d \in Cpu \ {c} : op'[d] = op[d]) /\ op'[c].pc = op[c].back /\ op'[c].n = 0
  BY <1>1, BackStep
<1>3. op'[c].pc \notin Pairing
  BY <1>1, <1>2 DEF Pairing
<1> QED BY <1>2, <1>3, CountKept

LEMMA ScheduleCount ==
  ASSUME MigrationAssumption, MigrationInv, CountInv, NEW c \in Cpu,
         Sleep(c) \/ Preempt(c) \/ Schedule(c) \/ Tick(c) \/ Ticked(c) \/ down(c)
  PROVE  CountInv'
<1>1. op \in [Cpu -> OpRecord] /\ op[c].n \in Nat /\ requests' = requests
  BY DEF MigrationInv, Typed, CountInv, Sleep, Preempt, Schedule, PutPrev, PickNext, PickNone, AfterBalance,
     Tick, Ticked, down
<1>2. CASE \E l \in {"sched", "pick", "run", "down"} : Goto(c, l)
  <2>1. PICK l \in {"sched", "pick", "run", "down"} : Goto(c, l)
    BY <1>2
  <2>2. l \in Places /\ l \notin Pairing
    BY <2>1 DEF Places, Pairing
  <2> QED BY <1>1, <2>1, <2>2, CountGoto
<1>3. CASE PickNone(c)
  <2>1. (\A d \in Cpu \ {c} : op'[d] = op[d]) /\ op'[c].pc = "find" /\ op'[c].n = op[c].n
    BY <1>1, <1>3, PickNoneDoes
  <2> QED BY <1>1, <2>1, CountKept DEF Pairing
<1>4. CASE Tick(c)
  <2>1. (\A d \in Cpu \ {c} : op'[d] = op[d]) /\ op'[c].pc = "find" /\ op'[c].n = op[c].n
    BY <1>1, <1>4, TickDoes
  <2> QED BY <1>1, <2>1, CountKept DEF Pairing
<1>5. PickNext(c) \/ AfterBalance(c) => \E l \in {"sched", "pick", "run", "down"} : Goto(c, l)
  BY DEF PickNext, AfterBalance, SwitchTo
<1>6. Sleep(c) \/ Preempt(c) \/ PutPrev(c) \/ Ticked(c) \/ down(c)
        => \E l \in {"sched", "pick", "run", "down"} : Goto(c, l)
  BY DEF Sleep, Preempt, PutPrev, Ticked, down
<1> QED BY <1>2, <1>3, <1>4, <1>5, <1>6 DEF Schedule

LEMMA BalanceCount ==
  ASSUME MigrationAssumption, MigrationInv, CountInv, NEW c \in Cpu, Balance(c)
  PROVE  CountInv'
<1>1. /\ op \in [Cpu -> OpRecord] /\ op[c].n \in Nat /\ requests' = requests
      /\ op[c].pc \in Pairing \ {"pulled"} => op[c].n > 0
  BY DEF MigrationInv, Typed, CountInv, Balance, Ticked, BalanceFind, BalanceTry, BalanceLock,
     BalancePull, BalanceEnd
<1>2. CASE Back(c)
  BY <1>1, <1>2, CountBack
<1>3. CASE BalanceFind(c) /\ ~ Back(c)
  <2>1. (\A d \in Cpu \ {c} : op'[d] = op[d]) /\ op'[c].n \in Nat /\ op'[c].n > 0
    BY <1>1, <1>3, FindDoes
  <2> QED BY <1>1, <2>1, CountKept
<1>4. CASE BalanceTry(c) \/ BalanceLock(c)
  <2>1. PICK l \in {"spin", "lock_busiest", "lock_own", "pull"} : Goto(c, l)
    <3>1. CASE BalanceTry(c)
      BY <3>1, Zenon DEF BalanceTry
    <3>2. CASE BalanceLock(c)
      BY <3>2, Zenon DEF BalanceLock
    <3> QED BY <1>4, <3>1, <3>2
  <2>2. l \in Places /\ op[c].pc \in Pairing \ {"pulled"}
    BY <1>4, <2>1 DEF Places, Balancing, BalanceTry, BalanceLock, At, Pairing
  <2> QED BY <1>1, <2>1, <2>2, CountGoto
<1>5. CASE BalancePull(c)
  <2>1. /\ \A d \in Cpu \ {c} : op'[d] = op[d]
        /\ op'[c].pc = "pulled" /\ op'[c].n = op[c].n - 1
    BY <1>1, <1>5, PullDoes
  <2>2. op[c].n > 0
    BY <1>1, <1>5 DEF BalancePull, At, Pairing
  <2>3. op'[c].n \in Nat
    BY <1>1, <2>1, <2>2
  <2> QED BY <1>1, <2>1, <2>3, CountKept
<1>6. CASE Ticked(c)
  BY <1>6, ScheduleCount
<1>7. BalanceEnd(c) => Back(c)
  BY DEF BalanceEnd
<1> QED BY <1>2, <1>3, <1>4, <1>5, <1>6, <1>7 DEF Balance

LEMMA WakeCount ==
  ASSUME MigrationAssumption, MigrationInv, CountInv, NEW c \in Cpu, NEW p \in Worker,
         \/ WakeUp(c, p) \/ FastMigrate(c) \/ try_to_wake_up(c)
         \/ \E mask \in (SUBSET Cpu) \ {{}} : set_cpus_allowed(c, p, mask)
  PROVE  CountInv'
<1>1. op \in [Cpu -> OpRecord] /\ op[c].n \in Nat
  BY DEF MigrationInv, Typed, CountInv
<1>2. CASE WakeUp(c, p)
  <2>1. (\A d \in Cpu \ {c} : op'[d] = op[d]) /\ op'[c].pc = "wake" /\ op'[c].n = op[c].n
    BY <1>1, <1>2, WakeUpDoes
  <2>2. requests' = requests
    BY <1>2 DEF WakeUp
  <2> QED BY <1>1, <2>1, <2>2, CountKept DEF Pairing
<1>3. CASE FastMigrate(c)
  <2>1. requests' = requests /\ op' = op
    BY <1>3 DEF FastMigrate
  <2> QED BY <2>1 DEF CountInv
<1>4. CASE try_to_wake_up(c)
  <2>1. requests' = requests /\ Back(c)
    BY <1>4 DEF try_to_wake_up
  <2> QED BY <2>1, CountBack
<1>5. ASSUME NEW mask \in (SUBSET Cpu) \ {{}}, set_cpus_allowed(c, p, mask) PROVE CountInv'
  <2>1. PICK r \in Cpu : r = cpu[p]
    BY Names DEF MigrationInv, Typed
  <2>2. PICK e : e = [task |-> p, from |-> curr[c]]
    OBVIOUS
  <2>3. e.from \in Setters /\ e \in [task : Worker, from : Worker]
    BY <1>5, <2>2, Names DEF set_cpus_allowed
  <2>4. \/ UNCHANGED <<requests, op>>
        \/ /\ requests' = [requests EXCEPT ![r] = <<e>> \o requests[r]]
           /\ op' = [op EXCEPT ![c].pc = "wake", ![c].p = MThread(r), ![c].back = "down"]
    BY <1>5, <2>1, <2>2, Zenon DEF set_cpus_allowed
  <2>5. CASE UNCHANGED <<requests, op>>
    BY <2>5 DEF CountInv
  <2>6. CASE /\ requests' = [requests EXCEPT ![r] = <<e>> \o requests[r]]
             /\ op' = [op EXCEPT ![c].pc = "wake", ![c].p = MThread(r), ![c].back = "down"]
    <3>1. (\A d \in Cpu \ {c} : op'[d] = op[d]) /\ op'[c].pc = "wake" /\ op'[c].n = op[c].n
      BY <1>1, <2>6, AskDoes
    <3>2. \A d \in Cpu : op'[d].n \in Nat /\ (op'[d].pc \in Pairing \ {"pulled"} => op'[d].n > 0)
      BY <1>1, <3>1 DEF CountInv, Pairing
    <3>3. PICK S, s : S = [task : Worker, from : Worker] /\ s = requests[r]
      OBVIOUS
    <3>4. requests \in [Cpu -> Seq(S)] /\ s \in Seq(S)
      BY <3>3 DEF MigrationInv, Typed
    <3>5. requests'[r] = <<e>> \o s /\ \A d \in Cpu \ {r} : requests'[d] = requests[d]
      BY <2>6, <3>3, <3>4
    <3>6. ASSUME NEW i \in 1 .. Len(<<e>> \o s) PROVE (<<e>> \o s)[i].from \in Setters
      <4>1. <<e>> \in Seq(S) /\ Len(<<e>>) = 1 /\ <<e>>[1] = e
        BY <2>3, <3>3
      <4>2. Len(<<e>> \o s) = 1 + Len(s) /\ Len(s) \in Nat
        BY <3>4, <4>1, ConcatProperties
      <4>3. CASE i = 1
        <5>1. (<<e>> \o s)[i] = e
          BY <3>4, <4>1, <4>3, ConcatProperties
        <5> QED BY <2>3, <5>1
      <4>4. CASE i # 1
        <5>1. (<<e>> \o s)[i] = s[i - 1] /\ i - 1 \in 1 .. Len(s)
          BY <3>4, <4>1, <4>2, <4>4, ConcatProperties
        <5> QED BY <3>3, <5>1 DEF CountInv
      <4> QED BY <4>3, <4>4
    <3>7. \A d \in Cpu : \A i \in 1 .. Len(requests'[d]) : requests'[d][i].from \in Setters
      BY <3>5, <3>6 DEF CountInv
    <3> QED BY <3>2, <3>7 DEF CountInv
  <2> QED BY <2>4, <2>5, <2>6
<1> QED BY <1>2, <1>3, <1>4, <1>5

LEMMA MigrateCount ==
  ASSUME MigrationAssumption, MigrationInv, CountInv, NEW c \in Cpu, Migrate(c)
  PROVE  CountInv'
<1>1. op \in [Cpu -> OpRecord] /\ op[c].n \in Nat /\ Typed
  BY DEF MigrationInv, Typed, CountInv
<1>2. CASE \E l \in {"sched", "lock1", "move", "up"} : Goto(c, l) /\ requests' = requests
  <2>1. PICK l \in {"sched", "lock1", "move", "up"} : Goto(c, l)
    BY <1>2
  <2>2. l \in Places /\ l \notin Pairing
    BY <2>1 DEF Places, Pairing, Migrating
  <2> QED BY <1>2, <2>1, <2>2, CountGoto
<1>3. MigrationWait(c) \/ MigrationLock2(c) \/ MigrationMove(c)
        => \E l \in {"sched", "lock1", "move", "up"} : Goto(c, l) /\ requests' = requests
  BY DEF MigrationWait, MigrationLock2, MigrationMove
<1>4. CASE MigrationTake(c)
  <2>1. (\A d \in Cpu \ {c} : op'[d] = op[d]) /\ op'[c].pc = "dest" /\ op'[c].n = op[c].n
    BY <1>1, <1>4, TakeDoes
  <2>2. \A d \in Cpu : op'[d].n \in Nat /\ (op'[d].pc \in Pairing \ {"pulled"} => op'[d].n > 0)
    BY <1>1, <2>1 DEF CountInv, Pairing
  <2>3. PICK S, s : S = [task : Worker, from : Worker] /\ s = requests[c]
    OBVIOUS
  <2>4. requests \in [Cpu -> Seq(S)] /\ s \in Seq(S) /\ s # <<>>
    BY <1>4, <2>3 DEF MigrationInv, Typed, MigrationTake
  <2>5. requests' = [requests EXCEPT ![c] = Tail(s)]
    BY <1>4, <2>3, Zenon DEF MigrationTake
  <2>6. requests'[c] = Tail(s) /\ \A d \in Cpu \ {c} : requests'[d] = requests[d]
    BY <2>4, <2>5
  <2>7. Len(Tail(s)) = Len(s) - 1 /\ Len(s) \in Nat /\ \A i \in 1 .. Len(Tail(s)) : Tail(s)[i] = s[i + 1]
    BY <2>4, HeadTailProperties
  <2>8. ASSUME NEW i \in 1 .. Len(Tail(s)) PROVE Tail(s)[i].from \in Setters
    <3>1. Tail(s)[i] = s[i + 1] /\ i + 1 \in 1 .. Len(s)
      BY <2>7
    <3> QED BY <2>3, <3>1 DEF CountInv
  <2>9. \A d \in Cpu : \A i \in 1 .. Len(requests'[d]) : requests'[d][i].from \in Setters
    BY <2>6, <2>8 DEF CountInv
  <2> QED BY <2>2, <2>9 DEF CountInv
<1>5. CASE MigrationDest(c)
  <2>1. /\ \A d \in Cpu \ {c} : op'[d] = op[d]
        /\ op'[c].pc = "lock1" /\ op'[c].n \in cpus_allowed[op[c].p]
    BY <1>5, DestDoes
  <2>2. op[c].p \in Task
    BY <1>5, Names DEF MigrationInv, KeepsCPU, MigrationDest, At, Migrating
  <2>3. op'[c].n \in Nat
    BY <2>1, <2>2 DEF MigrationInv, Typed, Cpu
  <2>4. requests' = requests
    BY <1>5 DEF MigrationDest
  <2> QED BY <2>1, <2>3, <2>4, CountKept DEF Pairing
<1>6. CASE MigrationLock(c)
  <2>1. /\ \A d \in Cpu \ {c} : op'[d] = op[d]
        /\ op'[c].pc \in {"move", "lock2"} /\ op'[c].n = op[c].n
    BY <1>6, LockDoes
  <2>2. requests' = requests
    BY <1>6 DEF MigrationLock
  <2> QED BY <1>1, <2>1, <2>2, CountKept DEF Pairing
<1>7. CASE up(c)
  <2>1. (\A d \in Cpu \ {c} : op'[d] = op[d]) /\ op'[c].pc = "wake" /\ op'[c].n = 0
    BY <1>1, <1>7, UpDoes
  <2>2. requests' = requests
    BY <1>7 DEF up
  <2> QED BY <2>1, <2>2, CountKept DEF Pairing
<1> QED BY <1>2, <1>3, <1>4, <1>5, <1>6, <1>7 DEF Migrate

LEMMA CountPreserved ==
  ASSUME MigrationAssumption, MigrationInv, CountInv, [Next]_vars
  PROVE  CountInv'
<1>1. CASE UNCHANGED vars
  BY <1>1 DEF vars, CountInv
<1>2. PICK w : w \in Worker
  BY DEF MigrationAssumption
<1>3. ASSUME NEW c \in Cpu, Kernel(c) PROVE CountInv'
  BY <1>2, <1>3, ScheduleCount, BalanceCount, MigrateCount, WakeCount DEF Kernel
<1>4. ASSUME NEW c \in Cpu, Sleep(c) \/ Preempt(c) \/ Tick(c) PROVE CountInv'
  BY <1>4, ScheduleCount
<1>5. ASSUME NEW c \in Cpu, NEW p \in Worker,
             WakeUp(c, p) \/ \E mask \in (SUBSET Cpu) \ {{}} : set_cpus_allowed(c, p, mask)
      PROVE  CountInv'
  BY <1>5, WakeCount
<1> QED BY <1>1, <1>3, <1>4, <1>5, Zenon DEF Next

\* The variables keep their types: what load_balance counts down stays a number of tasks, and
\* a request comes from one that may make it.
THEOREM MigrationTypeOK ==
  ASSUME MigrationAssumption, Overdue = {}
  PROVE  Spec => []TypeOK
<1>1. Init => MigrationInv /\ CountInv
  BY InitInv, InitCount
<1>2. MigrationInv /\ CountInv /\ [Next]_vars => (MigrationInv /\ CountInv)'
  BY Preserved, CountPreserved
<1>3. MigrationInv /\ CountInv => TypeOK
  BY DEF MigrationInv, Typed, CountInv, TypeOK
<1> QED BY <1>1, <1>2, <1>3, PTL DEF Spec
=============================================================================
