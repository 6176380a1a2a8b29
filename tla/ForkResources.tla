--------------------------- MODULE ForkResources ---------------------------
(***************************************************************************)
(* What do_fork gives a child besides a time slice: its files, fs and      *)
(* signal structures, shared with the parent or copied, a place in the     *)
(* counts of its user and of the system; and how all of it is given back   *)
(* when do_fork fails half way, in do_exit, daemonize and release_task.    *)
(* Each allocation of do_fork may sleep and may fail, so the other tasks   *)
(* act between any two of its steps.                                       *)
(*                                                                         *)
(* pc[p]: run | copy (in do_fork, about to make the structure no. at[p])   *)
(*        | unwind (in do_fork, about to give back the structure at[p])    *)
(*        | exit (in do_exit, about to drop the structure at[p])           *)
(*        | daemon (in daemonize, between fs and files) | zombie           *)
(*        | child (a task_struct do_fork is filling) | free                *)
(***************************************************************************)
EXTENDS Integers, FiniteSets, Sequences

CONSTANTS
  Pid, InitTask, UserTask,  \* the tasks; the first two of root and of another user
  Obj, InitObj, UserObj,    \* the structures of each kind; init_task's; the first user's
  None,
  NPROC,                    \* RLIMIT_NPROC of a user other than root
  max_threads,
  Flags,                    \* which sets of kinds clone_flags may share
  Daemons                   \* whether tasks become kernel threads

ForkResourcesAssumption ==
  /\ IsFiniteSet(Pid) /\ {InitTask, UserTask} \subseteq Pid /\ InitTask # UserTask
  /\ IsFiniteSet(Obj) /\ {InitObj, UserObj} \subseteq Obj /\ InitObj # UserObj
  /\ None \notin Pid \cup Obj
  /\ NPROC \in Nat /\ max_threads \in Nat /\ Daemons \in BOOLEAN
  /\ Flags \subseteq SUBSET {"files", "fs", "sig"}

\* The order of copy_files, copy_fs and copy_sighand, and of do_exit.
Order == <<"files", "fs", "sig">>
Kinds == {"files", "fs", "sig"}
Users == {"root", "user"}

VARIABLES
  obj,          \* obj[k][p]: tsk->files, tsk->fs, tsk->sig
  count,        \* count[k][o]: how many tasks an object thinks it has; 0: it is freed
  user,         \* p->user
  processes,    \* user->processes
  nr_threads,
  pc, at,
  kid,          \* the child of a task in do_fork
  shares        \* the kinds its clone_flags share

vars == <<obj, count, user, processes, nr_threads, pc, at, kid, shares>>

Init ==
  LET Of(p) == IF p = InitTask THEN InitObj ELSE IF p = UserTask THEN UserObj ELSE None IN
  /\ obj = [k \in Kinds |-> [p \in Pid |-> Of(p)]]
  /\ count = [k \in Kinds |-> [o \in Obj |-> IF o = InitObj THEN 2 ELSE IF o = UserObj THEN 1 ELSE 0]]
  /\ user = [p \in Pid |-> IF p = UserTask THEN "user" ELSE "root"]
  /\ processes = [u \in Users |-> 1]
  /\ nr_threads = 2
  /\ pc = [p \in Pid |-> IF p \in {InitTask, UserTask} THEN "run" ELSE "free"]
  /\ at = [p \in Pid |-> 1] /\ kid = [p \in Pid |-> None] /\ shares = [p \in Pid |-> {}]

-----------------------------------------------------------------------------
Get(c, k, o) == [c EXCEPT ![k][o] = @ + 1]

\* put_files_struct, __put_fs_struct, exit_sighand: the last one frees it.
Put(c, k, o) == IF o = None THEN c ELSE [c EXCEPT ![k][o] = @ - 1]

\* root is excluded from the limit.  A mistake: one too many.
OverLimit_past(p) == user[p] # "root" /\ processes[user[p]] > NPROC
OverLimit(p) == user[p] # "root" /\ processes[user[p]] >= NPROC

\* The checks of do_fork, up to its first sleep.  The child starts as a copy of p, with
\* p's pointers and none of their counts.
ForkStart(p, c, S) ==
  /\ pc[p] = "run" /\ pc[c] = "free"
  /\ ~ OverLimit(p) /\ nr_threads < max_threads
  /\ processes' = [processes EXCEPT ![user[p]] = @ + 1]
  /\ user' = [user EXCEPT ![c] = user[p]]
  /\ obj' = [k \in Kinds |-> [obj[k] EXCEPT ![c] = obj[k][p]]]
  /\ pc' = [pc EXCEPT ![p] = "copy", ![c] = "child"]
  /\ at' = [at EXCEPT ![p] = 1]
  /\ kid' = [kid EXCEPT ![p] = c] /\ shares' = [shares EXCEPT ![p] = S]
  /\ UNCHANGED <<count, nr_threads>>

\* Which free one kmem_cache_alloc returns makes no difference.
Free(k) == {o \in Obj : count[k][o] = 0}
New(k) == CHOOSE o \in Free(k) : TRUE

\* copy_files, copy_fs, copy_sighand: share the parent's or fill a new one.
Share(p, k) == count' = Get(count, k, obj[k][p]) /\ UNCHANGED obj

\* A mistake: the new one is not stored in the child.
Fill_in_parent(p, k) == count' = Get(count, k, New(k)) /\ UNCHANGED obj

Fill(p, k) ==
  /\ Free(k) # {}
  /\ count' = Get(count, k, New(k)) /\ obj' = [obj EXCEPT ![k][kid[p]] = New(k)]

CopyStep(p) ==
  LET k == Order[at[p]] IN
  /\ pc[p] = "copy" /\ at[p] <= Len(Order)
  /\ IF k \in shares[p] THEN Share(p, k) ELSE Fill(p, k)
  /\ at' = [at EXCEPT ![p] = @ + 1]
  /\ UNCHANGED <<user, processes, nr_threads, pc, kid, shares>>

\* Which structures an error gives back: those before the one that failed.
FirstToUndo(p) == at[p] - 1

\* An allocation fails, its own or, after the last of them, that of copy_mm or later.
CopyFails(p) ==
  /\ pc[p] = "copy"
  /\ at[p] <= Len(Order) => Order[at[p]] \notin shares[p]
  /\ pc' = [pc EXCEPT ![p] = "unwind"]
  /\ at' = [at EXCEPT ![p] = FirstToUndo(p)]
  /\ shares' = [shares EXCEPT ![p] = {}]
  /\ UNCHANGED <<obj, count, user, processes, nr_threads, kid>>

\* exit_sighand, exit_fs and exit_files of the child, which may sleep.
UnwindStep(p) ==
  LET k == Order[at[p]]
      c == kid[p]
  IN /\ pc[p] = "unwind" /\ at[p] > 0
     /\ count' = Put(count, k, obj[k][c])
     /\ obj' = [obj EXCEPT ![k][c] = None]
     /\ at' = [at EXCEPT ![p] = @ - 1]
     /\ UNCHANGED <<user, processes, nr_threads, pc, kid, shares>>

\* The locals of do_fork are gone.
Leave(p) ==
  /\ kid' = [kid EXCEPT ![p] = None] /\ shares' = [shares EXCEPT ![p] = {}]
  /\ at' = [at EXCEPT ![p] = 1]

\* What is freed with a task_struct.
Freed(c) == obj' = [k \in Kinds |-> [obj[k] EXCEPT ![c] = None]]

\* bad_fork_cleanup_count and bad_fork_free.  A mistake: the count of the user stays.
ForkFailed_counted(p) ==
  /\ pc[p] = "unwind" /\ at[p] = 0
  /\ pc' = [pc EXCEPT ![p] = "run", ![kid[p]] = "free"]
  /\ Freed(kid[p])
  /\ Leave(p)
  /\ UNCHANGED <<count, user, processes, nr_threads>>

ForkFailed(p) ==
  /\ pc[p] = "unwind" /\ at[p] = 0
  /\ processes' = [processes EXCEPT ![user[kid[p]]] = @ - 1]
  /\ pc' = [pc EXCEPT ![p] = "run", ![kid[p]] = "free"]
  /\ Freed(kid[p])
  /\ Leave(p)
  /\ UNCHANGED <<count, user, nr_threads>>

\* SET_LINKS, hash_pid and nr_threads++, without a sleep.
ForkDone(p) ==
  /\ pc[p] = "copy" /\ at[p] > Len(Order)
  /\ nr_threads' = nr_threads + 1
  /\ pc' = [pc EXCEPT ![p] = "run", ![kid[p]] = "run"]
  /\ Leave(p)
  /\ UNCHANGED <<obj, count, user, processes>>

-----------------------------------------------------------------------------
do_exit(p) ==
  /\ pc[p] = "run" /\ p # InitTask
  /\ pc' = [pc EXCEPT ![p] = "exit"] /\ at' = [at EXCEPT ![p] = 1]
  /\ UNCHANGED <<obj, count, user, processes, nr_threads, kid, shares>>

\* __exit_files, __exit_fs, exit_sighand; then exit_notify.
ExitStep(p) ==
  LET k == Order[at[p]] IN
  /\ pc[p] = "exit"
  /\ count' = Put(count, k, obj[k][p])
  /\ obj' = [obj EXCEPT ![k][p] = None]
  /\ IF at[p] < Len(Order)
     THEN at' = [at EXCEPT ![p] = @ + 1] /\ UNCHANGED pc
     ELSE pc' = [pc EXCEPT ![p] = "zombie"] /\ at' = [at EXCEPT ![p] = 1]
  /\ UNCHANGED <<user, processes, nr_threads, kid, shares>>

\* release_task with unhash_process.  A mistake: nr_threads is left to do_exit.
release_task_linked(p) ==
  /\ pc[p] = "zombie"
  /\ processes' = [processes EXCEPT ![user[p]] = @ - 1]
  /\ pc' = [pc EXCEPT ![p] = "free"]
  /\ UNCHANGED <<obj, count, user, nr_threads, at, kid, shares>>

release_task(p) ==
  /\ pc[p] = "zombie"
  /\ processes' = [processes EXCEPT ![user[p]] = @ - 1]
  /\ nr_threads' = nr_threads - 1
  /\ pc' = [pc EXCEPT ![p] = "free"]
  /\ UNCHANGED <<obj, count, user, at, kid, shares>>

NowInit(p, k) == Get(Put(count, k, obj[k][p]), k, InitObj)

\* daemonize takes the fs and the files of init_task, and may sleep in between.
Become(p, k) ==
  /\ count' = NowInit(p, k)
  /\ obj' = [obj EXCEPT ![k][p] = InitObj]
  /\ UNCHANGED <<user, processes, nr_threads, at, kid, shares>>

daemonize(p) ==
  \/ Daemons /\ pc[p] = "run" /\ Become(p, "fs") /\ pc' = [pc EXCEPT ![p] = "daemon"]
  \/ pc[p] = "daemon" /\ Become(p, "files") /\ pc' = [pc EXCEPT ![p] = "run"]

\* The counts of the two users are left as they are.
reparent_to_init(p) ==
  /\ Daemons /\ pc[p] = "run"
  /\ user' = [user EXCEPT ![p] = "root"]
  /\ UNCHANGED <<obj, count, processes, nr_threads, pc, at, kid, shares>>

-----------------------------------------------------------------------------
Next ==
  \E p \in Pid :
    \/ \E c \in Pid, S \in Flags : ForkStart(p, c, S)
    \/ CopyStep(p) \/ CopyFails(p) \/ UnwindStep(p) \/ ForkFailed(p) \/ ForkDone(p)
    \/ do_exit(p) \/ ExitStep(p) \/ release_task(p)
    \/ daemonize(p) \/ reparent_to_init(p)

Spec == Init /\ [][Next]_vars

-----------------------------------------------------------------------------
TypeOK ==
  /\ obj \in [Kinds -> [Pid -> Obj \cup {None}]] /\ count \in [Kinds -> [Obj -> Nat]]
  /\ user \in [Pid -> Users] /\ processes \in [Users -> Nat] /\ nr_threads \in Nat
  /\ pc \in [Pid -> {"run", "copy", "unwind", "exit", "daemon", "zombie", "child", "free"}]
  /\ at \in [Pid -> 0 .. Len(Order) + 1]
  /\ kid \in [Pid -> Pid \cup {None}] /\ shares \in [Pid -> SUBSET Kinds]

\* The tasks that hold a counted reference of kind k: a child from its copy_ on.
Made(c, k) == \E p \in Pid : kid[p] = c /\ \E i \in 1 .. Len(Order) :
  Order[i] = k /\ (IF pc[p] = "copy" THEN i < at[p] ELSE i <= at[p])
Holds(k) == {p \in Pid : pc[p] # "child" \/ Made(p, k)}

\* Every structure is counted once for each task that has it, and is freed by the last
\* of them: no step of do_fork that fails leaves one counted or takes one from the
\* parent, and no task is left with a freed one.
CountsExact ==
  \A k \in Kinds, o \in Obj :
    count[k][o] = Cardinality({p \in Holds(k) : obj[k][p] = o}) + (IF o = InitObj THEN 1 ELSE 0)

\* user->processes is the number of task_structs of that user, copies included.
ProcessesExact ==
  \A u \in Users : processes[u] = Cardinality({p \in Pid : pc[p] # "free" /\ user[p] = u})

\* nr_threads is the number of tasks in the task list, zombies included.
ThreadsCounted == nr_threads = Cardinality({p \in Pid : pc[p] \notin {"free", "child"}})

\* A user other than root never has more task_structs than its limit.
LimitKept == processes["user"] <= NPROC

=============================================================================
