---------------------------- MODULE ProcessTree ----------------------------
(***************************************************************************)
(* Who is whose child: the pointers SET_LINKS and REMOVE_LINKS keep, the   *)
(* real and the tracing parent, thread groups, and what exit and wait do   *)
(* with them.  do_exit marks a task PF_EXITING, gives its children away in *)
(* forget_original_parent and hands them over, one by one, in exit_notify; *)
(* sys_wait4 may sleep between finding a zombie and releasing it.  The big *)
(* kernel lock keeps other exits and ptrace out from the first of these    *)
(* steps of an exit to its last, but neither forks nor sys_wait4 on        *)
(* another CPU.  tasklist_lock keeps those out of the loop of exit_notify, *)
(* except where it tells a process group of a child: there it is dropped.  *)
(*                                                                         *)
(* pc[p]: run | exiting | forgot (its children have another p_opptr)       *)
(*        | handing (in the loop, with tasklist_lock) | window (without)   *)
(*        | zombie | reap (in sys_wait4, with the zombie found[p]) | free  *)
(***************************************************************************)
EXTENDS Integers, FiniteSets

CONSTANTS
  Pid, InitTask,   \* init is child_reaper and never exits
  None,
  Flags,           \* the clone_flags used, sets of "parent", "thread" and "ptrace"
  Calls            \* of "ptrace", "daemon", "status" (a stat_addr), "jobs" (a child in another
                   \* process group of the session, whatever child it is)

ProcessTreeAssumption ==
  /\ IsFiniteSet(Pid) /\ InitTask \in Pid /\ None \notin Pid
  /\ Flags \subseteq SUBSET {"parent", "thread", "ptrace"}
  /\ Calls \subseteq {"ptrace", "daemon", "status", "jobs"}

VARIABLES
  links,        \* p_pptr, p_cptr, p_ysptr, p_osptr of every task
  p_opptr,
  next_thread,  \* the ring of the thread group
  ptrace,
  pc, found

vars == <<links, p_opptr, next_thread, ptrace, pc, found>>

Linked == {p \in Pid : pc[p] # "free"}
TASK_ZOMBIE == {"handing", "window", "zombie"}

\* tasklist_lock is free.
Unlocked == \A q \in Pid : pc[q] # "handing"

\* A mistake: the big kernel lock is dropped together with tasklist_lock.
KernelUnlocked_early == \A q \in Pid : pc[q] \notin {"forgot", "handing"}

\* The big kernel lock is: do_exit holds it in exit_notify, sys_ptrace all the time.
KernelUnlocked == \A q \in Pid : pc[q] \notin {"forgot", "handing", "window"}

-----------------------------------------------------------------------------
(* The macros of sched.h.  The youngest child of q comes first.            *)

SetYounger(L, p, y) == IF p = None THEN L ELSE [L EXCEPT !.p_ysptr[p] = y]

\* A mistake: the older sibling still points to the task that was the youngest before.
SET_LINKS_one_way(L, p, q) ==
  [L EXCEPT !.p_pptr[p] = q, !.p_ysptr[p] = None, !.p_osptr[p] = L.p_cptr[q], !.p_cptr[q] = p]

\* SET_LINKS(p) when p's parent is to be q.
SET_LINKS(L, p, q) ==
  SetYounger([L EXCEPT !.p_pptr[p] = q, !.p_ysptr[p] = None,
                       !.p_osptr[p] = L.p_cptr[q], !.p_cptr[q] = p],
             L.p_cptr[q], p)

REMOVE_LINKS(L, p) ==
  LET y == L.p_ysptr[p]
      o == L.p_osptr[p]
      M == SetYounger(L, o, y)
  IN IF y # None THEN [M EXCEPT !.p_osptr[y] = o] ELSE [M EXCEPT !.p_cptr[L.p_pptr[p]] = o]

Relink(p, q) == links' = SET_LINKS(REMOVE_LINKS(links, p), p, q)

-----------------------------------------------------------------------------
Init ==
  LET nobody == [p \in Pid |-> None] IN
  /\ links = [p_pptr |-> nobody, p_cptr |-> nobody, p_ysptr |-> nobody, p_osptr |-> nobody]
  /\ p_opptr = nobody
  /\ next_thread = [p \in Pid |-> p]
  /\ ptrace = [p \in Pid |-> FALSE]
  /\ pc = [p \in Pid |-> IF p = InitTask THEN "run" ELSE "free"]
  /\ found = nobody

\* The end of do_fork, with tasklist_lock.  CLONE_PARENT re-uses the old parent, and a
\* traced child the tracer.
do_fork(p, c, flags) ==
  LET traced == "ptrace" \in flags /\ ptrace[p]
      real   == IF "parent" \in flags THEN p_opptr[p] ELSE p
      parent == IF "parent" \in flags \/ traced THEN links.p_pptr[p] ELSE p
  IN /\ Unlocked /\ pc[p] = "run" /\ pc[c] = "free"
     /\ flags # {} => p # InitTask
     /\ p_opptr' = [p_opptr EXCEPT ![c] = real]
     /\ links' = SET_LINKS(links, c, parent)
     /\ ptrace' = [ptrace EXCEPT ![c] = traced]
     /\ next_thread' = IF "thread" \in flags
                       THEN [next_thread EXCEPT ![p] = c, ![c] = next_thread[p]]
                       ELSE next_thread
     /\ pc' = [pc EXCEPT ![c] = "run"]
     /\ UNCHANGED found

\* PTRACE_ATTACH and PTRACE_DETACH.
attach(t, p) ==
  /\ KernelUnlocked /\ "ptrace" \in Calls
  /\ pc[t] = "run" /\ pc[p] = "run" /\ p \notin {t, InitTask} /\ ~ ptrace[p]
  /\ ptrace' = [ptrace EXCEPT ![p] = TRUE]
  /\ Relink(p, t)
  /\ UNCHANGED <<p_opptr, next_thread, pc, found>>

detach(p) ==
  /\ KernelUnlocked
  /\ pc[p] = "run" /\ ptrace[p] /\ pc[links.p_pptr[p]] = "run"
  /\ ptrace' = [ptrace EXCEPT ![p] = FALSE]
  /\ Relink(p, p_opptr[p])
  /\ UNCHANGED <<p_opptr, next_thread, pc, found>>

reparent_to_init(p) ==
  /\ Unlocked /\ "daemon" \in Calls /\ pc[p] = "run" /\ p # InitTask
  /\ Relink(p, InitTask)
  /\ p_opptr' = [p_opptr EXCEPT ![p] = InitTask]
  /\ ptrace' = [ptrace EXCEPT ![p] = FALSE]
  /\ UNCHANGED <<next_thread, pc, found>>

-----------------------------------------------------------------------------
do_exit(p) ==
  /\ pc[p] = "run" /\ p # InitTask
  /\ pc' = [pc EXCEPT ![p] = "exiting"]
  /\ UNCHANGED <<links, p_opptr, next_thread, ptrace, found>>

\* The n-th task after p in its thread group.
Thread(p, n) == LET f[i \in Nat] == IF i = 0 THEN p ELSE next_thread[f[i - 1]] IN f[n]
PF_EXITING(p) == pc[p] \in {"exiting", "forgot"} \cup TASK_ZOMBIE

\* The next thread that is not exiting, or init.
Reaper(p) ==
  LET alive == {n \in 1 .. Cardinality(Pid) : ~ PF_EXITING(Thread(p, n))} IN
  IF alive = {} THEN InitTask
  ELSE Thread(p, CHOOSE n \in alive : \A k \in alive : n <= k)

\* A mistake: the children go to the parent of their parent.
forget_original_parent_up(p) ==
  /\ KernelUnlocked /\ pc[p] = "exiting"
  /\ pc' = [pc EXCEPT ![p] = "forgot"]
  /\ p_opptr' = [q \in Pid |-> IF p_opptr[q] = p THEN links.p_pptr[p] ELSE p_opptr[q]]
  /\ UNCHANGED <<links, next_thread, ptrace, found>>

forget_original_parent(p) ==
  /\ KernelUnlocked /\ pc[p] = "exiting"
  /\ pc' = [pc EXCEPT ![p] = "forgot"]
  /\ p_opptr' = [q \in Pid |-> IF p_opptr[q] # p \/ q \notin Linked THEN p_opptr[q]
                               ELSE IF q = Reaper(p) THEN InitTask ELSE Reaper(p)]
  /\ UNCHANGED <<links, next_thread, ptrace, found>>

\* From here on the task is a zombie, and tasklist_lock is held.
exit_notify(p) ==
  /\ pc[p] = "forgot"
  /\ pc' = [pc EXCEPT ![p] = "handing"]
  /\ UNCHANGED <<links, p_opptr, next_thread, ptrace, found>>

\* A mistake: the child keeps its younger sibling, which has gone before.
Handed_stale(p) ==
  LET c == links.p_cptr[p]
      L == SET_LINKS([links EXCEPT !.p_cptr[p] = links.p_osptr[c]], c, p_opptr[c])
  IN [L EXCEPT !.p_ysptr[c] = links.p_ysptr[c]]

\* The first child of p goes to its p_opptr.  The next one still names it as its younger
\* sibling.
Handed(p) ==
  LET c == links.p_cptr[p]
  IN SET_LINKS([links EXCEPT !.p_cptr[p] = links.p_osptr[c]], c, p_opptr[c])

\* Each time round the loop.  For the sake of its process group the lock is dropped after it.
HandOver(p) ==
  /\ pc[p] \in {"handing", "window"} /\ links.p_cptr[p] # None
  /\ links' = Handed(p)
  /\ ptrace' = [ptrace EXCEPT ![links.p_cptr[p]] = FALSE]
  /\ \E next \in {"handing"} \cup (IF "jobs" \in Calls THEN {"window"} ELSE {}) :
       pc' = [pc EXCEPT ![p] = next]
  /\ UNCHANGED <<p_opptr, next_thread, found>>

EndNotify(p) ==
  /\ pc[p] \in {"handing", "window"} /\ links.p_cptr[p] = None
  /\ pc' = [pc EXCEPT ![p] = "zombie"]
  /\ UNCHANGED <<links, p_opptr, next_thread, ptrace, found>>

-----------------------------------------------------------------------------
\* The zombies sys_wait4 of p looks at: those of its threads, for any choice of pid.
SameGroup(p) == {Thread(p, n) : n \in 0 .. Cardinality(Pid)}
\* A mistake: the real parent may collect a zombie that somebody else traces.
Zombies_real(p) == {c \in Linked : pc[c] \in TASK_ZOMBIE /\ p \in {links.p_pptr[c], p_opptr[c]}}
Zombies(p) == {c \in Linked : pc[c] \in TASK_ZOMBIE /\ links.p_pptr[c] \in SameGroup(p)}

\* What unhash_process leaves of the ring.
Unring(c) ==
  [q \in Pid |-> IF q = c THEN c ELSE IF next_thread[q] = c THEN next_thread[c] ELSE next_thread[q]]

\* A traced zombie goes back to its real parent, any other one is released.
GoesBack(c) == p_opptr[c] # links.p_pptr[c]

\* A task_struct that is freed forgets its pointers.
Reaped(c) ==
  IF GoesBack(c) THEN Relink(c, p_opptr[c]) /\ UNCHANGED <<p_opptr, next_thread>>
  ELSE /\ links' = [f \in DOMAIN links |-> [REMOVE_LINKS(links, c)[f] EXCEPT ![c] = None]]
       /\ next_thread' = Unring(c)
       /\ p_opptr' = [p_opptr EXCEPT ![c] = None]

Gone(c) == IF GoesBack(c) THEN pc[c] ELSE "free"

\* release_task waits until the zombie has left its CPU for good.
Inactive(c) == GoesBack(c) \/ pc[c] = "zombie"

\* Without a stat_addr and an rusage, sys_wait4 goes on at once.
sys_wait4(p, c) ==
  /\ Unlocked /\ pc[p] = "run" /\ c \in Zombies(p) /\ Inactive(c)
  /\ "status" \notin Calls
  /\ Reaped(c)
  /\ pc' = [pc EXCEPT ![c] = Gone(c)]
  /\ ptrace' = [ptrace EXCEPT ![c] = ptrace[c] /\ GoesBack(c)]
  /\ UNCHANGED found

\* Otherwise it writes the status to user space first, without a lock.
FindZombie(p, c) ==
  /\ Unlocked /\ pc[p] = "run" /\ c \in Zombies(p)
  /\ "status" \in Calls
  /\ pc' = [pc EXCEPT ![p] = "reap"] /\ found' = [found EXCEPT ![p] = c]
  /\ UNCHANGED <<links, p_opptr, next_thread, ptrace>>

ReapFound(p) ==
  LET c == found[p] IN
  /\ Unlocked /\ pc[p] = "reap" /\ pc[c] \in TASK_ZOMBIE /\ Inactive(c)
  /\ Reaped(c)
  /\ pc' = [pc EXCEPT ![p] = "run", ![c] = Gone(c)]
  /\ ptrace' = [ptrace EXCEPT ![c] = ptrace[c] /\ GoesBack(c)]
  /\ found' = [found EXCEPT ![p] = None]

\* put_user fails: the zombie stays for another try.
ReapFault(p) ==
  /\ pc[p] = "reap"
  /\ pc' = [pc EXCEPT ![p] = "run"]
  /\ found' = [found EXCEPT ![p] = None]
  /\ UNCHANGED <<links, p_opptr, next_thread, ptrace>>

-----------------------------------------------------------------------------
Next ==
  \E p \in Pid :
    \/ \E c \in Pid, flags \in Flags : do_fork(p, c, flags)
    \/ \E c \in Pid : attach(p, c) \/ sys_wait4(p, c) \/ FindZombie(p, c)
    \/ detach(p) \/ reparent_to_init(p)
    \/ do_exit(p) \/ forget_original_parent(p) \/ exit_notify(p) \/ HandOver(p) \/ EndNotify(p)
    \/ ReapFound(p) \/ ReapFault(p)

Spec == Init /\ [][Next]_vars

-----------------------------------------------------------------------------
\* next_thread is a permutation of the tasks, the rings of the thread groups its cycles, and
\* a task whose task_struct is freed is in no ring but its own.
TypeOK ==
  /\ \A f \in DOMAIN links : links[f] \in [Pid -> Pid \cup {None}]
  /\ p_opptr \in [Pid -> Pid \cup {None}] /\ found \in [Pid -> Pid \cup {None}]
  /\ next_thread \in [Pid -> Pid] /\ {next_thread[p] : p \in Pid} = Pid
  /\ \A p \in Pid \ Linked : next_thread[p] = p
  /\ ptrace \in [Pid -> BOOLEAN]
  /\ pc \in [Pid -> {"run", "exiting", "forgot", "handing", "window", "zombie", "reap", "free"}]

\* The n-th child of p.
Child(p, n) ==
  LET f[i \in Nat] ==
        IF i = 0 THEN links.p_cptr[p]
        ELSE IF f[i - 1] = None THEN None ELSE links.p_osptr[f[i - 1]]
  IN f[n]
Children(p) == {Child(p, n) : n \in 0 .. Cardinality(Pid)} \ {None}

\* Nobody takes a child of a task in the window off its list, as its own threads could with
\* sys_wait4, and a child that becomes a daemon itself: those would go by the stale pointer.
WindowKept == "jobs" \in Calls => "daemon" \notin Calls /\ \A flags \in Flags : "thread" \notin flags

\* From p_cptr along p_osptr one meets exactly the tasks whose p_pptr leads back, in a list
\* that ends, and p_ysptr is the way back: whoever leaves the list leaves it whole.  In the
\* middle of exit_notify the first child that is left may name one that is gone.
SiblingsLinked ==
  \A p \in Linked :
    /\ Children(p) = {c \in Linked : links.p_pptr[c] = p}
    /\ Child(p, Cardinality(Pid)) = None
    /\ \A c \in Children(p) :
         IF links.p_cptr[p] = c THEN links.p_ysptr[c] = None \/ pc[p] \in {"handing", "window"}
         ELSE links.p_ysptr[c] # None /\ links.p_osptr[links.p_ysptr[c]] = c

\* Every task has a parent that will look after it, and if somebody else traces it one
\* to come back to: neither is freed or a zombie, whichever of them exits first and
\* whatever thread they had left.  The parent may be one that is about to hand it over.
ParentsLive ==
  \A p \in Linked \ {InitTask} :
    pc[p_opptr[p]] \in {"run", "reap", "exiting"}
      /\ pc[links.p_pptr[p]] \in {"run", "reap", "exiting", "forgot", "handing", "window"}

\* Without threads no task becomes its own ancestor, whoever traces whom: init is reached
\* from every task along p_opptr.  (Two exiting threads can be each other's parent for a
\* while: forget_original_parent only excludes the reaper itself.)
NoCycle ==
  \A p \in Linked :
    LET f[i \in Nat] == IF i = 0 \/ f[i - 1] = InitTask THEN IF i = 0 THEN p ELSE InitTask
                        ELSE p_opptr[f[i - 1]]
    IN f[Cardinality(Pid)] = InitTask

\* A zombie that sys_wait4 has found is still there when it releases it.  sched.h says of
\* task_lock that it "synchronises with wait4()".
ReleasedOnce == \A p \in Pid : pc[p] = "reap" => pc[found[p]] \in TASK_ZOMBIE
=============================================================================
