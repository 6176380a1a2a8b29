---------------------------- MODULE AddressSpace ----------------------------
(***************************************************************************)
(* The two reference counts of an address space.  mm_users counts the      *)
(* tasks that have it as mm; they hold together one reference of mm_count, *)
(* and each task without an mm of its own that borrows it while it runs    *)
(* (active_mm, the lazy TLB) holds one more.  copy_mm, exit_mm,            *)
(* start_lazy_tlb and context_switch move these references about, and may  *)
(* sleep between two of them.                                              *)
(*                                                                         *)
(* pc[p] is where task p is:                                               *)
(*   run     in user mode, or a kernel thread in its loop                  *)
(*   dup     in dup_mmap, which may sleep, with the new mm in kid_mm       *)
(*   late    in do_fork after copy_mm                                      *)
(*   vwait   waiting for its vfork child                                   *)
(*   lazy    between start_lazy_tlb and end_lazy_tlb                       *)
(*   unmap   in mmput, in exit_mmap, as the last user of leaving[p]        *)
(*   dead    a zombie;  copy: being filled by do_fork;  free: no task      *)
(***************************************************************************)
EXTENDS Integers, FiniteSets

CONSTANTS
  Pid,       \* the task_structs
  Idle,      \* the idle task, which has no mm
  InitTask,  \* pid 1, whose exit is a panic
  MM,        \* the mm_structs allocate_mm may return
  init_mm,   \* the kernel's own, which is never freed
  None,
  MaxCount,  \* bound: do_fork fails late only while mm_count is below it
  Failures   \* which steps of do_fork may fail: "dup", "late"

AddressSpaceAssumption ==
  /\ Idle \notin Pid /\ init_mm \notin MM /\ None \notin Pid \cup MM \cup {Idle, init_mm}
  /\ IsFiniteSet(Pid) /\ IsFiniteSet(MM) /\ MM # {} /\ InitTask \in Pid
  /\ MaxCount \in Nat /\ Failures \subseteq {"dup", "late"}

Task == Pid \cup {Idle}
AllMM == MM \cup {init_mm}

VARIABLES
  mem,          \* mm_users, mm_count, and which mms are allocated and mapped
  mm, active_mm,
  curr, pc,
  kid, kid_mm,  \* the task and the mm do_fork is making
  leaving,      \* the mm a task in mmput drops last, or lazy left behind
  dies,         \* whether a task in exit_mm is in do_exit
  vfork_done,   \* the task whose vfork this one completes
  done          \* that this task's vfork is completed

vars == <<mem, mm, active_mm, curr, pc, kid, kid_mm, leaving, dies, vfork_done, done>>

-----------------------------------------------------------------------------
(* The counts.                                                             *)

allocate_mm(m) ==
  [mem EXCEPT !.users[m] = 1, !.count[m] = 1, !.allocated = @ \cup {m}, !.mapped = @ \cup {m}]

Hold(s, m) == [s EXCEPT !.count[m] = @ + 1]

\* mmdrop, with __mmdrop when the last reference goes.
mmdrop(s, m) ==
  [s EXCEPT !.count[m] = @ - 1, !.allocated = IF s.count[m] = 1 THEN @ \ {m} ELSE @]

\* The first half of mmput.  Its last user goes on to exit_mmap and mmdrop.
LastUser(s, m) == s.users[m] = 1
DropUser(s, m) == [s EXCEPT !.users[m] = @ - 1]
exit_mmap(s, m) == [s EXCEPT !.mapped = @ \ {m}]
mmput(s, m) ==
  IF LastUser(s, m) THEN mmdrop(exit_mmap(DropUser(s, m), m), m) ELSE DropUser(s, m)

-----------------------------------------------------------------------------
Init ==
  /\ \E m \in MM :
       /\ mem = [users |-> [n \in AllMM |-> IF n = m THEN 1 ELSE 0],
                 count |-> [n \in AllMM |-> IF n = m THEN 1 ELSE IF n = init_mm THEN 2 ELSE 0],
                 allocated |-> {m, init_mm}, mapped |-> {m}]
       /\ mm = [p \in Task |-> IF p = InitTask THEN m ELSE None]
       /\ active_mm = [mm EXCEPT ![Idle] = init_mm]
  /\ pc = [p \in Task |-> IF p \in {InitTask, Idle} THEN "run" ELSE "free"]
  /\ curr = Idle
  /\ kid = [p \in Task |-> None] /\ kid_mm = [p \in Task |-> None]
  /\ leaving = [p \in Task |-> None] /\ dies = [p \in Task |-> FALSE]
  /\ vfork_done = [p \in Task |-> None] /\ done = [p \in Task |-> FALSE]

At(p, l) == p = curr /\ pc[p] = l
Goto(p, l) == pc' = [pc EXCEPT ![p] = l]

\* The reference next borrows, and the one prev gives back.  A mistake: the
\* reference is not given back.
Borrow(s, next, old) == IF mm[next] = None THEN Hold(s, old) ELSE s
GiveBack_keep(s, prev, old) == s
GiveBack(s, prev, old) == IF mm[prev] = None THEN mmdrop(s, old) ELSE s

context_switch(next) ==
  LET prev == curr
      old  == active_mm[prev]
  IN /\ \/ pc[next] \in {"run", "dup", "late", "lazy", "unmap"}
        \/ pc[next] = "vwait" /\ done[next]
     /\ next # prev
     /\ curr' = next
     /\ mem' = GiveBack(Borrow(mem, next, old), prev, old)
     /\ active_mm' = [p \in Task |-> IF p = prev /\ mm[prev] = None THEN None
                                     ELSE IF p = next /\ mm[next] = None THEN old
                                     ELSE active_mm[p]]
     /\ UNCHANGED <<mm, pc, kid, kid_mm, leaving, dies, vfork_done, done>>

-----------------------------------------------------------------------------
(* do_fork.                                                                *)

\* The completion the child will call.  A mistake: *p = *current is left as it is.
VforkDone_copied(p, vfork) == IF vfork THEN p ELSE vfork_done[p]
VforkDone(p, vfork) == IF vfork THEN p ELSE None

\* A kernel thread's child has no mm; with CLONE_VM it shares the parent's.  vfork
\* shares and waits.
ForkShare(p, c, vfork) ==
  /\ At(p, "run") /\ pc[c] = "free"
  /\ vfork => mm[p] # None
  /\ mem' = IF mm[p] = None THEN mem ELSE [mem EXCEPT !.users[mm[p]] = @ + 1]
  /\ mm' = [mm EXCEPT ![c] = mm[p]]
  /\ active_mm' = [active_mm EXCEPT ![c] = mm[p]]
  /\ pc' = [pc EXCEPT ![p] = "late", ![c] = "copy"]
  /\ kid' = [kid EXCEPT ![p] = c]
  /\ vfork_done' = [vfork_done EXCEPT ![c] = VforkDone(p, vfork)]
  /\ UNCHANGED <<curr, kid_mm, leaving, dies, done>>

ForkAlloc(p, c, m) ==
  /\ At(p, "run") /\ mm[p] # None /\ pc[c] = "free" /\ m \in MM \ mem.allocated
  /\ mem' = allocate_mm(m)
  /\ pc' = [pc EXCEPT ![p] = "dup", ![c] = "copy"]
  /\ kid' = [kid EXCEPT ![p] = c] /\ kid_mm' = [kid_mm EXCEPT ![p] = m]
  /\ UNCHANGED <<mm, active_mm, curr, leaving, dies, vfork_done, done>>

DupDone(p) ==
  LET c == kid[p] IN
  /\ At(p, "dup")
  /\ mm' = [mm EXCEPT ![c] = kid_mm[p]] /\ active_mm' = [active_mm EXCEPT ![c] = kid_mm[p]]
  /\ Goto(p, "late")
  /\ kid_mm' = [kid_mm EXCEPT ![p] = None]
  /\ UNCHANGED <<mem, curr, kid, leaving, dies, vfork_done, done>>

\* mm_release works on the current task, p.
mm_release(p, vfd) ==
  /\ vfork_done' = [vfd EXCEPT ![p] = None]
  /\ done' = [q \in Task |-> done[q] \/ q = vfork_done[p]]

\* do_fork frees the copy and returns an error.
FreeCopy(p) ==
  /\ pc' = [pc EXCEPT ![p] = "run", ![kid[p]] = "free"]
  /\ kid' = [kid EXCEPT ![p] = None]

\* A mistake: the half-made mm is only unmapped.
DupFailed_unmapped(p) ==
  /\ At(p, "dup") /\ "dup" \in Failures
  /\ mem' = exit_mmap(mem, kid_mm[p])
  /\ FreeCopy(p)
  /\ kid_mm' = [kid_mm EXCEPT ![p] = None]
  /\ UNCHANGED <<mm, active_mm, curr, leaving, dies, vfork_done, done>>

DupFailed(p) ==
  /\ At(p, "dup") /\ "dup" \in Failures
  /\ mem' = mmput(mem, kid_mm[p])
  /\ FreeCopy(p)
  /\ kid_mm' = [kid_mm EXCEPT ![p] = None]
  /\ UNCHANGED <<mm, active_mm, curr, leaving, dies, vfork_done, done>>

\* A later step fails: exit_mm(p) for the copy.  Its mm_release is that of the current
\* task, and the reference exit_mm takes for the copy's active_mm is nobody's.
LateFailed(p) ==
  LET c == kid[p] IN
  /\ At(p, "late") /\ "late" \in Failures
  /\ mm[c] # None => mem.count[mm[c]] < MaxCount
  /\ mm_release(p, [vfork_done EXCEPT ![c] = None])
  /\ mem' = IF mm[c] = None THEN mem ELSE mmput(Hold(mem, mm[c]), mm[c])
  /\ mm' = [mm EXCEPT ![c] = None] /\ active_mm' = [active_mm EXCEPT ![c] = None]
  /\ FreeCopy(p)
  /\ UNCHANGED <<curr, kid_mm, leaving, dies>>

\* The parent of a vfork keeps its child in kid until it goes on.
ForkDone(p) ==
  LET c     == kid[p]
      vfork == vfork_done[c] = p
  IN /\ At(p, "late")
     /\ pc' = [pc EXCEPT ![p] = IF vfork THEN "vwait" ELSE "run", ![c] = "run"]
     /\ kid' = IF vfork THEN kid ELSE [kid EXCEPT ![p] = None]
     /\ UNCHANGED <<mem, mm, active_mm, curr, kid_mm, leaving, dies, vfork_done, done>>

VforkReturn(p) ==
  /\ At(p, "vwait") /\ done[p]
  /\ Goto(p, "run")
  /\ kid' = [kid EXCEPT ![p] = None] /\ done' = [done EXCEPT ![p] = FALSE]
  /\ UNCHANGED <<mem, mm, active_mm, curr, kid_mm, leaving, dies, vfork_done>>

-----------------------------------------------------------------------------
(* exit_mm, called by do_exit and by daemonize, and the lazy TLB.          *)

\* A mistake: no reference is taken for the mm that stays active.
Unhook_uncounted(p) == mem

\* exit_mm keeps the mm it leaves as its active one.
Unhook(p) == Hold(mem, mm[p])

exit_mm(p, exit) ==
  LET m == mm[p] IN
  /\ At(p, "run") /\ p \in Pid
  /\ IF exit THEN p # InitTask ELSE m # None
  /\ mm_release(p, vfork_done)
  /\ mem' = IF m = None THEN mem ELSE DropUser(Unhook(p), m)
  /\ mm' = [mm EXCEPT ![p] = None]
  /\ IF m # None /\ LastUser(mem, m)
     THEN Goto(p, "unmap") /\ leaving' = [leaving EXCEPT ![p] = m]
          /\ dies' = [dies EXCEPT ![p] = exit]
     ELSE Goto(p, IF exit THEN "dead" ELSE "run") /\ UNCHANGED <<leaving, dies>>
  /\ UNCHANGED <<active_mm, curr, kid, kid_mm>>

\* exit_mmap, which may have slept, is done.
Unmapped(p) ==
  /\ At(p, "unmap")
  /\ mem' = mmdrop(exit_mmap(mem, leaving[p]), leaving[p])
  /\ Goto(p, IF dies[p] THEN "dead" ELSE "run")
  /\ leaving' = [leaving EXCEPT ![p] = None] /\ dies' = [dies EXCEPT ![p] = FALSE]
  /\ UNCHANGED <<mm, active_mm, curr, kid, kid_mm, vfork_done, done>>

start_lazy_tlb(p) ==
  /\ At(p, "run") /\ mm[p] # None
  /\ mem' = Hold(mem, mm[p])
  /\ leaving' = [leaving EXCEPT ![p] = mm[p]]
  /\ mm' = [mm EXCEPT ![p] = None]
  /\ Goto(p, "lazy")
  /\ UNCHANGED <<active_mm, curr, kid, kid_mm, dies, vfork_done, done>>

\* The mm to drop is the one that is active now.
end_lazy_tlb(p) ==
  /\ At(p, "lazy")
  /\ mm' = [mm EXCEPT ![p] = leaving[p]]
  /\ active_mm' = [active_mm EXCEPT ![p] = leaving[p]]
  /\ mem' = mmdrop(mem, active_mm[p])
  /\ leaving' = [leaving EXCEPT ![p] = None]
  /\ Goto(p, "run")
  /\ UNCHANGED <<curr, kid, kid_mm, dies, vfork_done, done>>

\* release_task of a zombie that is off the CPU.
Reap(c) ==
  /\ pc[c] = "dead" /\ c # curr
  /\ Goto(c, "free")
  /\ UNCHANGED <<mem, mm, active_mm, curr, kid, kid_mm, leaving, dies, vfork_done, done>>

-----------------------------------------------------------------------------
Next ==
  \/ \E p \in Task : context_switch(p)
  \/ \E p \in Pid :
       \/ \E c \in Pid, vfork \in BOOLEAN : ForkShare(p, c, vfork)
       \/ \E c \in Pid, m \in MM : ForkAlloc(p, c, m)
       \/ DupDone(p) \/ DupFailed(p) \/ LateFailed(p) \/ ForkDone(p) \/ VforkReturn(p)
       \/ \E exit \in BOOLEAN : exit_mm(p, exit)
       \/ Unmapped(p) \/ start_lazy_tlb(p) \/ end_lazy_tlb(p) \/ Reap(p)

Spec == Init /\ [][Next]_vars

-----------------------------------------------------------------------------
TypeOK ==
  /\ mem.users \in [AllMM -> Nat] /\ mem.count \in [AllMM -> Nat]
  /\ mem.allocated \subseteq AllMM /\ mem.mapped \subseteq MM
  /\ mm \in [Task -> MM \cup {None}] /\ active_mm \in [Task -> AllMM \cup {None}]
  /\ curr \in Task
  /\ pc \in [Task -> {"run", "dup", "late", "vwait", "lazy", "unmap", "dead", "copy", "free"}]
  /\ kid \in [Task -> Pid \cup {None}] /\ kid_mm \in [Task -> MM \cup {None}]
  /\ leaving \in [Task -> MM \cup {None}] /\ dies \in [Task -> BOOLEAN]
  /\ vfork_done \in [Task -> Task \cup {None}] /\ done \in [Task -> BOOLEAN]

Users(m) ==
  Cardinality({p \in Task : mm[p] = m}) + Cardinality({p \in Task : kid_mm[p] = m})
    + Cardinality({p \in Task : pc[p] = "lazy" /\ leaving[p] = m})
Borrowers(m) == {p \in Task : mm[p] = None /\ active_mm[p] = m}
Unmapping(m) == {p \in Task : pc[p] = "unmap" /\ leaving[p] = m}

\* The page tables in the CPU are those of an mm that is not freed, and a task in user
\* mode finds its memory mapped: no switch, exit or lazy task outlives its mm.
ActiveAlive ==
  /\ active_mm[curr] \in mem.allocated
  /\ \A p \in Task : mm[p] # None /\ pc[p] # "free" => mm[p] \in mem.mapped

\* mm_users is the number of tasks that have the mm, or will have it again.
UsersExact == \A m \in MM : mem.users[m] = Users(m)

\* An mm is freed as soon as nobody uses, borrows or unmaps it: each of the two counts
\* loses exactly the references it was given, whatever slept in between.
NoLeak ==
  \A m \in mem.allocated \ {init_mm} : Users(m) > 0 \/ Borrowers(m) \cup Unmapping(m) # {}

\* The parent of a vfork goes on only when the child has left the memory they share.
VforkGivesBack ==
  [][\A p \in Pid : ~ done[p] /\ done'[p] => mm'[kid[p]] # mm[p]]_vars
=============================================================================
