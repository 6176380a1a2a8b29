------------------------------ MODULE PidAlloc ------------------------------
(***************************************************************************)
(* get_pid: the next pid no task uses as pid, process group, thread group  *)
(* or session.  The list of tasks is only gone through when the pids run   *)
(* over or last_pid reaches next_safe, the smallest id above it that was   *)
(* in use at the last time.  A child is put into the list at the end of    *)
(* do_fork, which may sleep after get_pid.                                 *)
(***************************************************************************)
EXTENDS Integers, SequencesExt

CONSTANTS
  PID_MAX,      \* 0x8000
  RESERVED,     \* 300: where pids start again
  MaxTasks,     \* bound on the tasks in the list
  Calls,        \* which of "thread", "setpgid" and "setsid" tasks use
  MaxForks      \* bound on the calls of do_fork under way

PidAllocAssumption ==
  /\ PID_MAX \in Nat /\ RESERVED \in 2 .. PID_MAX - 1
  /\ MaxTasks \in Nat /\ MaxForks \in Nat \ {0}
  /\ Calls \subseteq {"thread", "setpgid", "setsid"}

VARIABLES
  last_pid, next_safe,
  list,     \* what for_each_task goes through
  made,     \* the children of the calls under way
  failed    \* the last call of get_pid found no pid

vars == <<last_pid, next_safe, list, made, failed>>

Ids(t) == {t.pid, t.pgrp, t.tgid, t.session}
Used == UNION {Ids(list[i]) : i \in DOMAIN list}

\* init; its group and session are those daemons have.
Init ==
  /\ last_pid = 1 /\ next_safe = PID_MAX
  /\ list = <<[pid |-> 1, pgrp |-> 1, tgid |-> 1, session |-> 1]>>
  /\ made = <<>> /\ failed = FALSE

-----------------------------------------------------------------------------
\* A mistake: starting again with the pids of the daemons.
Wrapped_one(pid) == IF pid >= PID_MAX THEN 1 ELSE pid
Wrapped(pid) == IF pid >= PID_MAX THEN RESERVED ELSE pid

\* The smallest of safe and the ids of t above last.  A mistake: groups and sessions are
\* forgotten.
Lower_pid(safe, t, last) == Min({safe} \cup {n \in {t.pid} : n > last})
Lower(safe, t, last) == Min({safe} \cup {n \in Ids(t) : n > last})

\* The loop over the tasks looks at the i-th and starts again at every id in use.  It ends
\* without a pid when it has come round to the one it began with.
Look(r, begin) ==
  IF ~ r.ok \/ r.i > Len(list) THEN r
  ELSE IF r.last \notin Ids(list[r.i])
  THEN [r EXCEPT !.safe = Lower(r.safe, list[r.i], r.last), !.i = r.i + 1]
  ELSE LET over == r.last + 1 >= r.safe
           next == IF over THEN Wrapped(r.last + 1) ELSE r.last + 1
       IN [ok |-> next # begin, last |-> next, safe |-> IF over THEN PID_MAX ELSE r.safe, i |-> 1]

\* A round for every task and pid is enough: no pid is come back to but the first.
Scan(start, begin) ==
  LET f[n \in Nat] == IF n = 0 THEN [ok |-> TRUE, last |-> start, safe |-> PID_MAX, i |-> 1]
                      ELSE Look(f[n - 1], begin)
  IN f[PID_MAX * (Len(list) + 1)]

\* A mistake: the last pid before next_safe is the one that is in use.
MustScan_late(next) == next >= PID_MAX \/ next > next_safe
MustScan(next) == next >= PID_MAX \/ next >= next_safe

get_pid ==
  LET next == last_pid + 1 IN
  IF MustScan(next) THEN Scan(Wrapped(next), last_pid)
  ELSE [ok |-> TRUE, last |-> next, safe |-> next_safe]

-----------------------------------------------------------------------------
(* The life of a task as far as it matters to get_pid.                     *)

\* do_fork up to get_pid, for a child of list[i]; or it fails there.
ForkPid(i, thread) ==
  LET r == get_pid
      p == list[i]
  IN /\ thread => "thread" \in Calls
     /\ Len(list) + Len(made) < MaxTasks /\ Len(made) < MaxForks
     /\ last_pid' = r.last /\ next_safe' = r.safe
     /\ failed' = ~ r.ok
     /\ made' = IF r.ok
                THEN Append(made, [pid |-> r.last, pgrp |-> p.pgrp, session |-> p.session,
                                   tgid |-> IF thread THEN p.tgid ELSE r.last])
                ELSE made
     /\ UNCHANGED list

\* SET_LINKS
ForkDone(i) ==
  /\ list' = Append(list, made[i]) /\ made' = RemoveAt(made, i)
  /\ UNCHANGED <<last_pid, next_safe, failed>>

ForkFails(i) == made' = RemoveAt(made, i) /\ UNCHANGED <<last_pid, next_safe, list, failed>>

\* unhash_process
Release(i) ==
  /\ i > 1
  /\ list' = RemoveAt(list, i)
  /\ UNCHANGED <<last_pid, next_safe, made, failed>>

\* A task leads a new group, or session, of its own number, or moves to another group.
SetIds(i, t) == list' = [list EXCEPT ![i] = t] /\ UNCHANGED <<last_pid, next_safe, made, failed>>
setpgid(i) ==
  /\ "setpgid" \in Calls
  /\ \/ SetIds(i, [list[i] EXCEPT !.pgrp = list[i].pid])
     \/ \E j \in DOMAIN list :
          list[j].session = list[i].session /\ SetIds(i, [list[i] EXCEPT !.pgrp = list[j].pgrp])
setsid(i) ==
  /\ "setsid" \in Calls
  /\ SetIds(i, [list[i] EXCEPT !.pgrp = list[i].pid, !.session = list[i].pid])

Next ==
  \/ \E i \in DOMAIN list :
       (\E thread \in BOOLEAN : ForkPid(i, thread)) \/ Release(i) \/ setpgid(i) \/ setsid(i)
  \/ \E i \in DOMAIN made : ForkDone(i) \/ ForkFails(i)

Spec == Init /\ [][Next]_vars

-----------------------------------------------------------------------------
TypeOK ==
  /\ last_pid \in 1 .. PID_MAX - 1 /\ next_safe \in 2 .. PID_MAX
  /\ Used \subseteq 1 .. PID_MAX - 1 /\ failed \in BOOLEAN

\* No id between last_pid and next_safe is in use: pids may be handed out up to there
\* without another look at the list, whatever groups and sessions outlived their leaders.
WindowFree == \A n \in Used : ~ (last_pid < n /\ n < next_safe)

\* No two tasks have the same pid, and no new task has the number of a group that lives.
UniquePids ==
  /\ IsInjective([i \in DOMAIN (list \o made) |-> (list \o made)[i].pid])
  /\ \A i \in DOMAIN made : made[i].pid \notin Used

\* get_pid gives up only if every other pid is in use, and never gives out one of those
\* below 300 again.
GivesUpOnlyIfFull ==
  [][/\ failed' /\ ~ failed => RESERVED .. PID_MAX - 1 \subseteq Used \cup {last_pid}
     /\ last_pid' < last_pid => last_pid' >= RESERVED]_vars
=============================================================================
