----------------------------- MODULE WaitQueue -----------------------------
(***************************************************************************)
(* Wait queues, completions and the sleep_on family.  A task puts itself   *)
(* on a queue, sets its state, looks once more at what it waits for, and   *)
(* calls schedule(), which takes it off the run queue unless a wake-up has *)
(* made it TASK_RUNNING in between.  Every step up to the next lock or     *)
(* memory access that matters is an action: on several CPUs, or with an    *)
(* interrupt, anything may come in between.                                *)
(*                                                                         *)
(* pc[p]: out | add (to the queue) | set (the state) | test (the condition)*)
(*        | ready (about to call schedule) | woke | remove (from the queue)*)
(***************************************************************************)
EXTENDS Integers, FiniteSets, SequencesExt

CONSTANTS
  Pid,
  Ops,        \* subset of {"completion", "event", "exclusive", "sleep_on"}
  Modes,      \* the states they may sleep in, of {"INT", "UNINT"}
  MaxItems,   \* bound on done, on what the condition counts, and on wake-ups under way
  Timers      \* whether sleep_on may have a timeout

WaitQueueAssumption ==
  /\ IsFiniteSet(Pid) /\ MaxItems \in Nat \ {0} /\ Timers \in BOOLEAN
  /\ Ops \subseteq {"completion", "event", "exclusive", "sleep_on"}
  /\ Modes \subseteq {"INT", "UNINT"}

VARIABLES
  op, pc,
  state,      \* p->state
  mode,       \* the state p sleeps in
  queued,     \* p is on a run queue
  sigpending,
  task_list,  \* of the wait queue of the completion and of the other one
  done,       \* x->done
  items,      \* the condition is items > 0
  owed        \* wake-ups whose condition is already set

vars == <<op, pc, state, mode, queued, sigpending, task_list, done, items, owed>>

Heads == {"x", "wq"}
Exclusive(p) == op[p] \in {"completion", "exclusive"}

-----------------------------------------------------------------------------
(* Waking.                                                                 *)

\* A mistake: a task that is still on the run queue is left alone.
try_to_wake_up_asleep(S) ==
  /\ state' = [p \in Pid |-> IF p \in S /\ ~ queued[p] THEN "RUNNING" ELSE state[p]]
  /\ queued' = [p \in Pid |-> queued[p] \/ p \in S]

\* try_to_wake_up of each task of S
try_to_wake_up(S) ==
  /\ state' = [p \in Pid |-> IF p \in S THEN "RUNNING" ELSE state[p]]
  /\ queued' = [p \in Pid |-> queued[p] \/ p \in S]

\* What it returns: only a task that was off the run queue counts as woken.  A
\* mistake: any task whose state fits does.
Success_always(p) == TRUE
Success(p) == ~ queued[p]

\* __wake_up_common: every waiter whose state fits, from the head on, until nr exclusive
\* ones are woken; 0 for all.  Waking one changes nothing for those behind it.
__wake_up_common(h, modes, nr) ==
  LET s        == task_list[h]
      Fits(i)  == state[s[i]] \in modes
      Ended(i) == {j \in 1 .. i - 1 : Fits(j) /\ Success(s[j]) /\ Exclusive(s[j])}
  IN try_to_wake_up({s[i] : i \in {j \in 1 .. Len(s) :
                                    Fits(j) /\ (nr = 0 \/ Cardinality(Ended(j)) < nr)}})

-----------------------------------------------------------------------------
Init ==
  /\ op = [p \in Pid |-> "none"] /\ pc = [p \in Pid |-> "out"]
  /\ state = [p \in Pid |-> "RUNNING"] /\ mode = [p \in Pid |-> "UNINT"]
  /\ queued = [p \in Pid |-> TRUE] /\ sigpending = [p \in Pid |-> FALSE]
  /\ task_list = [h \in Heads |-> <<>>]
  /\ done = 0 /\ items = 0 /\ owed = 0

Runs(p, l) == queued[p] /\ pc[p] = l
Goto(p, l) == pc' = [pc EXCEPT ![p] = l]
SetState(p, s) == state' = [state EXCEPT ![p] = s]

\* A task with a signal does not sleep interruptibly.  A mistake: schedule() does not
\* look at the state its caller has set.
StaysOn_never(p) == FALSE
StaysOn(p) == state[p] = "RUNNING" \/ (state[p] = "INT" /\ sigpending[p])

\* schedule() of a task that is about to sleep.
Schedule(p) ==
  /\ Runs(p, "ready")
  /\ queued' = [queued EXCEPT ![p] = StaysOn(p)]
  /\ IF StaysOn(p) THEN SetState(p, "RUNNING") ELSE UNCHANGED state
  /\ Goto(p, CASE op[p] = "completion" -> "woke" [] op[p] = "sleep_on" -> "remove" [] OTHER -> "set")
  /\ UNCHANGED <<op, mode, sigpending, task_list, done, items, owed>>

\* s without its element p
Without(s, p) ==
  IF \E i \in 1 .. Len(s) : s[i] = p
  THEN LET i == CHOOSE i \in 1 .. Len(s) : s[i] = p
       IN [j \in 1 .. Len(s) - 1 |-> s[IF j < i THEN j ELSE j + 1]]
  ELSE s

__remove_wait_queue(h, p) == task_list' = [task_list EXCEPT ![h] = Without(@, p)]

-----------------------------------------------------------------------------
(* Completions.                                                            *)

wait_for_completion(p) ==
  /\ Runs(p, "out") /\ "completion" \in Ops
  /\ IF done > 0
     THEN done' = done - 1 /\ UNCHANGED <<op, pc, state, mode, task_list>>
     ELSE /\ op' = [op EXCEPT ![p] = "completion"] /\ mode' = [mode EXCEPT ![p] = "UNINT"]
          /\ task_list' = [task_list EXCEPT !["x"] = Append(@, p)]
          /\ SetState(p, "UNINT") /\ Goto(p, "ready")
          /\ UNCHANGED done
  /\ UNCHANGED <<queued, sigpending, items, owed>>

Finish(p) ==
  /\ __remove_wait_queue("x", p)
  /\ done' = done - 1
  /\ Goto(p, "out") /\ op' = [op EXCEPT ![p] = "none"]
  /\ UNCHANGED state

AfterSchedule(p) ==
  IF done > 0 THEN Finish(p)
  ELSE SetState(p, "UNINT") /\ Goto(p, "ready") /\ UNCHANGED <<op, task_list, done>>

CompletionLoop(p) ==
  /\ Runs(p, "woke")
  /\ AfterSchedule(p)
  /\ UNCHANGED <<mode, queued, sigpending, items, owed>>

\* A mistake: only the first of several completions wakes somebody.
complete_first ==
  /\ "completion" \in Ops /\ done < MaxItems
  /\ done' = done + 1
  /\ IF done = 0 THEN __wake_up_common("x", {"UNINT", "INT"}, 1)
     ELSE UNCHANGED <<state, queued>>
  /\ UNCHANGED <<op, pc, mode, sigpending, task_list, items, owed>>

complete ==
  /\ "completion" \in Ops /\ done < MaxItems
  /\ done' = done + 1
  /\ __wake_up_common("x", {"UNINT", "INT"}, 1)
  /\ UNCHANGED <<op, pc, mode, sigpending, task_list, items, owed>>

-----------------------------------------------------------------------------
(* wait_event, the loop of an exclusive waiter, and sleep_on.              *)

\* sleep_on sets the state before it takes the lock of the queue.
Begin(p, o, m) ==
  /\ Runs(p, "out") /\ o \in Ops \ {"completion"}
  /\ o # "sleep_on" => items = 0
  /\ op' = [op EXCEPT ![p] = o] /\ mode' = [mode EXCEPT ![p] = m]
  /\ IF o = "sleep_on" THEN SetState(p, m) ELSE UNCHANGED state
  /\ Goto(p, "add")
  /\ UNCHANGED <<queued, sigpending, task_list, done, items, owed>>

\* add_wait_queue puts a task at the head, add_wait_queue_exclusive at the tail.
add_wait_queue(p) ==
  /\ Runs(p, "add")
  /\ task_list' = [task_list EXCEPT !["wq"] = IF Exclusive(p) THEN Append(@, p) ELSE <<p>> \o @]
  /\ Goto(p, IF op[p] = "sleep_on" THEN "ready" ELSE "set")
  /\ UNCHANGED <<op, state, mode, queued, sigpending, done, items, owed>>

set_current_state(p) ==
  /\ Runs(p, "set")
  /\ SetState(p, mode[p])
  /\ Goto(p, "test")
  /\ UNCHANGED <<op, mode, queued, sigpending, task_list, done, items, owed>>

\* A mistake: a signal is looked at before the condition.
GivesUp_first(p) == mode[p] = "INT" /\ sigpending[p]
GivesUp(p) == mode[p] = "INT" /\ sigpending[p] /\ items = 0

\* The condition, then the signal.  An exclusive waiter takes what it finds.
Test(p) ==
  /\ Runs(p, "test")
  /\ items' = IF items > 0 /\ ~ GivesUp(p) /\ Exclusive(p) THEN items - 1 ELSE items
  /\ Goto(p, IF items > 0 \/ GivesUp(p) THEN "remove" ELSE "ready")
  /\ UNCHANGED <<op, state, mode, queued, sigpending, task_list, done, owed>>

\* The signal is dealt with on the way to user mode.
remove_wait_queue(p) ==
  /\ Runs(p, "remove")
  /\ SetState(p, "RUNNING")
  /\ __remove_wait_queue("wq", p)
  /\ Goto(p, "out") /\ op' = [op EXCEPT ![p] = "none"]
  /\ sigpending' = [sigpending EXCEPT ![p] = FALSE]
  /\ UNCHANGED <<mode, queued, done, items, owed>>

-----------------------------------------------------------------------------
(* What sets conditions, signals and timers.                               *)

SetCondition ==
  /\ Ops \ {"completion"} # {} /\ items < MaxItems /\ owed < MaxItems
  /\ items' = items + 1 /\ owed' = owed + 1
  /\ UNCHANGED <<op, pc, state, mode, queued, sigpending, task_list, done>>

\* Someone finds the condition true and takes without waiting.
Take ==
  /\ items > 0
  /\ items' = items - 1
  /\ UNCHANGED <<op, pc, state, mode, queued, sigpending, task_list, done, owed>>

\* wake_up(&wq)
__wake_up ==
  /\ owed > 0
  /\ owed' = owed - 1
  /\ __wake_up_common("wq", {"UNINT", "INT"}, 1)
  /\ UNCHANGED <<op, pc, mode, sigpending, task_list, done, items>>

Signal(p) ==
  /\ ~ sigpending[p] /\ mode[p] = "INT" /\ op[p] \notin {"none", "completion"}
  /\ sigpending' = [sigpending EXCEPT ![p] = TRUE]
  /\ IF state[p] = "INT" THEN try_to_wake_up({p}) ELSE UNCHANGED <<state, queued>>
  /\ UNCHANGED <<op, pc, mode, task_list, done, items, owed>>

\* wake_up_process, by the timer of schedule_timeout
Timeout(p) ==
  /\ Timers /\ op[p] = "sleep_on" /\ ~ queued[p]
  /\ try_to_wake_up({p})
  /\ UNCHANGED <<op, pc, mode, sigpending, task_list, done, items, owed>>

-----------------------------------------------------------------------------
Step(p) ==
  \/ Schedule(p) \/ CompletionLoop(p) \/ add_wait_queue(p)
  \/ set_current_state(p) \/ Test(p) \/ remove_wait_queue(p)

Next ==
  \/ \E p \in Pid :
       \/ Step(p) \/ wait_for_completion(p) \/ Signal(p) \/ Timeout(p)
       \/ \E o \in Ops, m \in Modes : Begin(p, o, m)
  \/ complete \/ SetCondition \/ Take \/ __wake_up

Spec == Init /\ [][Next]_vars

\* A runnable task gets on with its loop, and whoever sets the condition calls wake_up.
FairSpec == Spec /\ (\A p \in Pid : WF_vars(Step(p))) /\ WF_vars(__wake_up)

-----------------------------------------------------------------------------
TypeOK ==
  /\ op \in [Pid -> {"none", "completion", "event", "exclusive", "sleep_on"}]
  /\ pc \in [Pid -> {"out", "add", "set", "test", "ready", "woke", "remove"}]
  /\ state \in [Pid -> {"RUNNING", "INT", "UNINT"}] /\ mode \in [Pid -> {"INT", "UNINT"}]
  /\ queued \in [Pid -> BOOLEAN] /\ sigpending \in [Pid -> BOOLEAN]
  /\ done \in 0 .. MaxItems /\ items \in 0 .. MaxItems /\ owed \in 0 .. MaxItems
  /\ \A h \in Heads : IsInjective(task_list[h]) /\ ToSet(task_list[h]) \subseteq Pid

Waiting(h) == ToSet(task_list[h])
Asleep(S) == {p \in S : ~ queued[p]}

\* A task that is off the run queue is in a state the next wake-up looks for and on the
\* queue it goes through: nobody sleeps where no wake-up finds him.
SleeperCanBeWoken ==
  \A p \in Asleep(Pid) : state[p] = mode[p] /\ p \in Waiting("x") \cup Waiting("wq")

\* As many waiters are awake as there are completions to take: with done > 0, none sleeps
\* on that one of them could have served.
NoLostCompletion ==
  Cardinality(Asleep(Waiting("x"))) = 0
    \/ Cardinality(Waiting("x")) - Cardinality(Asleep(Waiting("x"))) >= done

\* While there is something to take and an exclusive waiter sleeps, a wake-up is still to
\* come or a waiter is awake that will look at the condition: the one wake-up was not
\* spent on a task that was leaving.
NoLostWakeUp ==
  items > 0 /\ (\E p \in Asleep(Waiting("wq")) : Exclusive(p))
    => owed > 0 \/ \E p \in Pid : Runs(p, "set") \/ Runs(p, "test") \/ Runs(p, "ready")

\* No waiter waits for ever for a completion that is there all the time, whoever else
\* comes and takes one without waiting.
CompletionServed == \A p \in Pid : ~ <>[](op[p] = "completion" /\ done > 0)

\* No waiter, exclusive or not, waits for ever while the condition holds all the time:
\* the one exclusive task each wake-up wakes passes it on by taking or by being skipped.
WaiterServed == \A p \in Pid : ~ <>[](op[p] \in {"event", "exclusive"} /\ items > 0)
=============================================================================
