---------------------------- MODULE OrphanGroups ----------------------------
(***************************************************************************)
(* Process groups that lose their last connection to the rest of their     *)
(* session.  exit_notify looks whether the death of the task, or of the    *)
(* parent of a connection, orphans a group that has stopped jobs, and if   *)
(* so sends it SIGHUP and SIGCONT.  exit_notify does not sleep and holds   *)
(* the big kernel lock: on one CPU it is one step, a fold over the         *)
(* children.                                                               *)
(*                                                                         *)
(* Groups and sessions are called by the pid of their leader.  Threads and *)
(* tracers are left to ProcessTree.                                        *)
(***************************************************************************)
EXTENDS Integers, FiniteSetsExt

CONSTANTS
  Pid, InitTask, Shell,  \* the shell leads a session and is a child of init
  Stops                  \* of "tty" (SIGTSTP and its like) and "kill" (SIGSTOP)

OrphanGroupsAssumption ==
  IsFiniteSet(Pid) /\ {InitTask, Shell} \subseteq Pid /\ InitTask # Shell /\ Stops \subseteq {"tty", "kill"}

VARIABLES
  state, p_pptr, pgrp, session,
  sent   \* the groups that the last step sent SIGHUP and SIGCONT to

vars == <<state, p_pptr, pgrp, session, sent>>

Linked(s) == {p \in Pid : s.state[p] # "free"}

-----------------------------------------------------------------------------
(* The tests, on a state s that exit_notify is working on.                 *)

\* No living member of g, besides the ignored one, has a parent in another group of its
\* session.
will_become_orphaned_pgrp(s, g, ignored) ==
  \A p \in Linked(s) \ ignored :
    s.pgrp[p] = g /\ s.state[p] # "zombie" /\ s.p_pptr[p] # InitTask
    => s.pgrp[s.p_pptr[p]] = g \/ s.session[s.p_pptr[p]] # s.session[p]

is_orphaned_pgrp(s, g) == will_become_orphaned_pgrp(s, g, {})
has_stopped_jobs(s, g) == \E p \in Linked(s) : s.pgrp[p] = g /\ s.state[p] = "stopped"

\* kill_pg(g, SIGHUP), kill_pg(g, SIGCONT): the stopped jobs go on, perhaps to die.
HangUp(s, g) ==
  [s EXCEPT !.state = [p \in Pid |-> IF s.pgrp[p] = g /\ s.state[p] = "stopped" THEN "run"
                                     ELSE s.state[p]],
            !.sent = @ \cup {g}]

\* Case i: p is the only connection of its own group.  A mistake: p itself counts.
OwnGroup_self(s, p) ==
  LET t == s.p_pptr[p]
      g == s.pgrp[p]
  IN IF /\ s.pgrp[t] # g /\ s.session[t] = s.session[p]
        /\ is_orphaned_pgrp(s, g) /\ has_stopped_jobs(s, g)
     THEN HangUp(s, g) ELSE s
OwnGroup(s, p) ==
  LET t == s.p_pptr[p]
      g == s.pgrp[p]
  IN IF /\ s.pgrp[t] # g /\ s.session[t] = s.session[p]
        /\ will_become_orphaned_pgrp(s, g, {p}) /\ has_stopped_jobs(s, g)
     THEN HangUp(s, g) ELSE s

\* Case ii: the child c of p, now a child of init, was the only connection of its group.
\* A mistake: nobody looks whether the group has stopped jobs.
ChildGroup_running(s, p, c) ==
  LET g == s.pgrp[c]
      r == [s EXCEPT !.p_pptr[c] = InitTask]
  IN IF g # s.pgrp[p] /\ s.session[c] = s.session[p] /\ is_orphaned_pgrp(r, g)
     THEN HangUp(r, g) ELSE r
ChildGroup(s, p, c) ==
  LET g == s.pgrp[c]
      r == [s EXCEPT !.p_pptr[c] = InitTask]
  IN IF /\ g # s.pgrp[p] /\ s.session[c] = s.session[p]
        /\ is_orphaned_pgrp(r, g) /\ has_stopped_jobs(r, g)
     THEN HangUp(r, g) ELSE r

exit_notify(s, p) ==
  FoldSet(LAMBDA c, r : ChildGroup(r, p, c),
          [OwnGroup(s, p) EXCEPT !.state[p] = "zombie"],
          {c \in Linked(s) : s.p_pptr[c] = p})

-----------------------------------------------------------------------------
S == [state |-> state, p_pptr |-> p_pptr, pgrp |-> pgrp, session |-> session, sent |-> {}]

Become(s) ==
  state' = s.state /\ p_pptr' = s.p_pptr /\ pgrp' = s.pgrp /\ session' = s.session /\ sent' = s.sent

Init ==
  /\ state = [p \in Pid |-> IF p \in {InitTask, Shell} THEN "run" ELSE "free"]
  /\ p_pptr = [p \in Pid |-> InitTask]
  /\ pgrp = [p \in Pid |-> p] /\ session = [p \in Pid |-> p]
  /\ sent = {}

\* get_pid gives no pid away that is still the name of a group or a session.
Unused(c) == \A p \in Linked(S) : c \notin {p, pgrp[p], session[p]}

\* init starts a new shell when the old one is gone.
Login ==
  /\ Unused(Shell)
  /\ Become([S EXCEPT !.state[Shell] = "run"])

Fork(p, c) ==
  /\ state[p] = "run" /\ Unused(c) /\ c # Shell /\ p # InitTask
  /\ Become([S EXCEPT !.state[c] = "run", !.p_pptr[c] = p, !.pgrp[c] = pgrp[p],
                      !.session[c] = session[p]])

Childless(p) == \A c \in Linked(S) : p_pptr[c] # p

\* A shell puts a new job p into its own group, or into that of an earlier one.
setpgid(p, g) ==
  /\ state[p] = "run" /\ p_pptr[p] # InitTask /\ session[p] # p
  /\ pgrp[p] = pgrp[p_pptr[p]] /\ Childless(p)
  /\ g = p \/ \E q \in Linked(S) : pgrp[q] = g /\ session[q] = session[p] /\ g # pgrp[p]
  /\ Become([S EXCEPT !.pgrp[p] = g])

\* The terminal stops no task of an orphaned group; SIGSTOP stops any.
Stop(p, how) ==
  /\ state[p] = "run" /\ p # InitTask
  /\ how = "tty" => ~ is_orphaned_pgrp(S, pgrp[p])
  /\ Become([S EXCEPT !.state[p] = "stopped"])

Continue(p) == state[p] = "stopped" /\ Become([S EXCEPT !.state[p] = "run"])

Exit(p) == state[p] = "run" /\ p # InitTask /\ Become(exit_notify(S, p))

release_task(c) ==
  /\ state[c] = "zombie" /\ state[p_pptr[c]] = "run"
  /\ Become([S EXCEPT !.state[c] = "free", !.p_pptr[c] = InitTask, !.pgrp[c] = c, !.session[c] = c])

Next ==
  \/ Login
  \/ \E p \in Pid :
    \/ \E q \in Pid : Fork(p, q) \/ setpgid(p, q)
    \/ \E how \in Stops : Stop(p, how)
    \/ Continue(p) \/ Exit(p) \/ release_task(p)

Spec == Init /\ [][Next]_vars

-----------------------------------------------------------------------------
TypeOK ==
  /\ state \in [Pid -> {"run", "stopped", "zombie", "free"}]
  /\ \A p \in Linked(S) : state[p_pptr[p]] \in {"run", "stopped"}
  /\ pgrp \in [Pid -> Pid] /\ session \in [Pid -> Pid] /\ sent \subseteq Pid
  /\ \A p, q \in Linked(S) : pgrp[p] = pgrp[q] => session[p] = session[q]

\* Nobody is left stopped in a group that no shell of its session can continue: whoever
\* exits and in whatever order, the group is told when it is orphaned.
NoStoppedOrphan ==
  \A p \in Linked(S) : state[p] = "stopped" => ~ is_orphaned_pgrp(S, pgrp[p])

\* exit_notify is to "check to see if any process groups have become orphaned as a result
\* of our exiting": it hangs up on groups that have, and had jobs stopped.
OnlyNewOrphans ==
  [][\A g \in sent' : ~ is_orphaned_pgrp(S, g) /\ is_orphaned_pgrp(S', g) /\ has_stopped_jobs(S, g)]_vars
=============================================================================
