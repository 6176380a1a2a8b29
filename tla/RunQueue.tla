------------------------------ MODULE RunQueue ------------------------------
(***************************************************************************)
(* The per-CPU runqueue of kernel/sched.c and the task fields it works on, *)
(* with every function that changes them under rq->lock, as operators from *)
(* a state k to a state:                                                   *)
(*                                                                         *)
(*   active            which of arrays[0], arrays[1] rq->active points at  *)
(*   nr_active[a]      arrays[a].nr_active                                 *)
(*   bitmap            the pairs <<a, i>> whose bit i is set in arrays[a]  *)
(*   queue[<<a, i>>]   arrays[a].queue[i], head of the list first          *)
(*   overdue           rq->overdue_SHORT, head first                       *)
(*   nr_running, nr_uninterruptible, curr                                  *)
(*   task[p]           the task_struct of p                                *)
(*                                                                         *)
(* arrays[2] is rq->active_SHORT for good, and rq->expired is always the   *)
(* other one of 0 and 1.  The kernel is the uniprocessor build with        *)
(* hw2_debug = 0, so rq->lock is "interrupts off" and each of these        *)
(* functions is one step.  sleep_avg, jiffies and expired_timestamp are    *)
(* abstracted: what they decide is a parameter (prio, stay) of the         *)
(* operator, and the caller chooses it.                                    *)
(***************************************************************************)
EXTENDS Integers, Sequences, FiniteSetsExt

CONSTANTS
  Pid,              \* the task_structs
  Idle,             \* rq->idle
  MAX_USER_RT_PRIO, \* = MAX_RT_PRIO: priorities below it are real-time
  MAX_PRIO,         \* number of priorities
  MIN_TIMESLICE, MAX_TIMESLICE,
  HZ,               \* ticks per second
  SLICE_MAX,        \* the largest value of the unsigned time_slice
  Bonus             \* the sleep_avg bonuses effective_prio may subtract

ASSUME PidAssumption == IsFiniteSet(Pid) /\ Idle \notin Pid
ASSUME PrioAssumption ==
  /\ MAX_USER_RT_PRIO \in Nat /\ MAX_USER_RT_PRIO > 0
  /\ MAX_PRIO \in Nat /\ MAX_PRIO > MAX_USER_RT_PRIO + 1
ASSUME SliceAssumption ==
  /\ MIN_TIMESLICE \in Nat /\ MIN_TIMESLICE > 0
  /\ MAX_TIMESLICE \in Nat /\ MAX_TIMESLICE >= MIN_TIMESLICE
  /\ HZ \in Nat /\ SLICE_MAX \in Nat /\ SLICE_MAX >= 2 * MAX_TIMESLICE
ASSUME BonusAssumption == Bonus \subseteq Int /\ 0 \in Bonus

MAX_RT_PRIO == MAX_USER_RT_PRIO
Prio == 0 .. MAX_PRIO - 1
UserPrio == MAX_RT_PRIO .. MAX_PRIO - 1
Task == Pid \cup {Idle}

\* The three prio_arrays, and p->array = NULL.
ArrayId == 0 .. 2
active_SHORT == 2
NULL == 3

Policies == {"OTHER", "FIFO", "RR", "SHORT"}

\* enum SWITCH_REASONS
UNKNOWN == 0
CREATED == 1
ENDED == 2
YIELD == 3
OVERDUE == 4
PREV_WAIT == 5
PRIO == 6
SLICE == 7

-----------------------------------------------------------------------------
(* Predicates on a task_struct t.                                          *)

is_short(t) == t.policy = "SHORT"
is_overdue(t) == is_short(t) /\ t.remaining_trials = 0
rt_task(t) == t.prio < MAX_RT_PRIO

\* A mistake: an overdue task is taken for a SHORT one.
should_switch_no_overdue(oldt, newt) ==
  /\ ~ is_overdue(newt)
  /\ \/ rt_task(newt) /\ (~ rt_task(oldt) \/ oldt.prio > newt.prio)
     \/ /\ ~ rt_task(newt) /\ ~ rt_task(oldt) /\ is_short(newt)
        /\ ~ is_short(oldt) \/ oldt.prio > newt.prio
     \/ ~ rt_task(oldt) /\ ~ is_short(oldt) /\ newt.prio < oldt.prio

\* Whether the running task oldt gives way to newt.
should_switch(oldt, newt) ==
  /\ ~ is_overdue(newt)
  /\ \/ rt_task(newt) /\ (~ rt_task(oldt) \/ oldt.prio > newt.prio)
     \/ /\ ~ rt_task(newt) /\ is_short(newt)
        /\ \/ is_overdue(oldt)
           \/ is_short(oldt) /\ oldt.prio > newt.prio
           \/ ~ is_short(oldt) /\ ~ rt_task(oldt)
     \/ /\ ~ rt_task(newt) /\ ~ is_short(newt)
        /\ ~ is_short(oldt) /\ ~ rt_task(oldt) /\ newt.prio < oldt.prio

TASK_TIMESLICE(t) ==
  MIN_TIMESLICE + ((MAX_TIMESLICE - MIN_TIMESLICE) * (MAX_PRIO - 1 - t.static_prio))
                    \div (MAX_PRIO - 1 - MAX_RT_PRIO)

hw2_ms_to_ticks(ms) == (HZ * ms) \div 1000
hw2_ticks_to_ms(n) == (1000 * n) \div HZ

\* --time_slice on an unsigned field.
Decremented(n) == IF n = 0 THEN SLICE_MAX ELSE n - 1

\* A mistake: the result is not clamped.
effective_prio_unclamped(t) == IF is_short(t) THEN {t.static_prio} ELSE {t.static_prio - b : b \in Bonus}

\* The priorities effective_prio can return for t, one for each bonus.
effective_prio(t) ==
  IF is_short(t) THEN {t.static_prio}
  ELSE {Min({Max({t.static_prio - b, MAX_RT_PRIO}), MAX_PRIO - 1}) : b \in Bonus}

-----------------------------------------------------------------------------
(* Lists, priority arrays, and the hw2 wrappers around them.               *)

\* s without its element p.
Without(s, p) ==
  IF \E i \in 1 .. Len(s) : s[i] = p
  THEN LET i == CHOOSE i \in 1 .. Len(s) : s[i] = p
       IN [j \in 1 .. Len(s) - 1 |-> IF j < i THEN s[j] ELSE s[j + 1]]
  ELSE s

Set(k, p, t) == [k EXCEPT !.task[p] = t]

UPDATE_REASON(k, p, res) ==
  IF k.task[p].reason = UNKNOWN \/ k.task[p].reason > res
  THEN Set(k, p, [k.task[p] EXCEPT !.reason = res])
  ELSE k

resched_task(k, p) == Set(k, p, [k.task[p] EXCEPT !.need_resched = TRUE])

\* list_del unlinks p from whatever list it is on; its own pointers dangle, so
\* is_queued (run_list not pointing at itself) stays as it was.
list_del(k, p) == [k EXCEPT !.queue = [h \in DOMAIN k.queue |-> Without(k.queue[h], p)],
                            !.overdue = Without(@, p)]

\* INIT_LIST_HEAD(&p->run_list): from here on is_queued says no.
INIT_LIST_HEAD(k, p) == Set(k, p, [k.task[p] EXCEPT !.queued = FALSE])
list_del_init(k, p) == INIT_LIST_HEAD(list_del(k, p), p)

\* A mistake: the bit of an emptied queue stays set.
dequeue_task_no_clear(k, p, a) == [list_del(k, p) EXCEPT !.nr_active[a] = @ - 1]

dequeue_task(k, p, a) ==
  LET h  == <<a, k.task[p].prio>>
      k1 == list_del(k, p)
  IN [k1 EXCEPT !.nr_active[a] = @ - 1,
                !.bitmap = IF k1.queue[h] = <<>> THEN @ \ {h} ELSE @]

enqueue_task(k, p, a) ==
  LET h  == <<a, k.task[p].prio>>
      k1 == Set(k, p, [k.task[p] EXCEPT !.array = a, !.queued = TRUE])
  IN [k1 EXCEPT !.queue[h] = Append(@, p),
                !.bitmap = @ \cup {h},
                !.nr_active[a] = @ + 1]

\* A mistake: list_add_tail for list_add.
EnqueueOverdue_tail(k, p) ==
  [Set(k, p, [k.task[p] EXCEPT !.array = NULL, !.queued = TRUE])
     EXCEPT !.overdue = Append(@, p)]

\* The new overdue task goes to the head of its list; the tail runs first.
EnqueueOverdue(k, p) ==
  [Set(k, p, [k.task[p] EXCEPT !.array = NULL, !.queued = TRUE])
     EXCEPT !.overdue = <<p>> \o @]

expired(k) == 1 - k.active

\* A mistake: every SHORT task is put into active_SHORT.
hw2_enqueue_by_policy(k, p, make_active) ==
  enqueue_task(k, p, IF is_short(k.task[p]) THEN active_SHORT
                     ELSE IF make_active THEN k.active ELSE expired(k))

hw2_enqueue(k, p, make_active) ==
  IF is_overdue(k.task[p]) THEN EnqueueOverdue(k, p)
  ELSE enqueue_task(k, p, IF is_short(k.task[p]) THEN active_SHORT
                          ELSE IF make_active THEN k.active ELSE expired(k))

hw2_dequeue(k, p, a) ==
  IF is_overdue(k.task[p]) THEN list_del_init(k, p) ELSE dequeue_task(k, p, a)

hw2_back_of_the_queue(k, p) ==
  IF is_short(k.task[p])
  THEN hw2_enqueue(hw2_dequeue(k, p, k.task[p].array), p, TRUE)
  ELSE k

OVERDUE_PUSH_BACK(k, p) ==
  IF is_overdue(k.task[p]) THEN hw2_back_of_the_queue(k, p) ELSE k

\* sched_find_first_bit: MAX_PRIO is the delimiter bit that is always set.
FirstBit(k, a) == Min({i \in Prio : <<a, i>> \in k.bitmap} \cup {MAX_PRIO})

-----------------------------------------------------------------------------
(* Activation, deactivation, wake-up.                                      *)

\* The priorities a task may be activated with: its own when it has not slept
\* a whole jiffy or is real-time, a recomputed one otherwise.
ActivationPrios(t) == IF rt_task(t) THEN {t.prio} ELSE {t.prio} \cup effective_prio(t)

activate_task(k, p, prio) ==
  LET k1 == hw2_enqueue(Set(k, p, [k.task[p] EXCEPT !.prio = prio]), p, TRUE)
  IN [k1 EXCEPT !.nr_running = @ + 1]

\* A mistake: every sleeping task is counted.
deactivate_task_any(k, p) ==
  LET t  == k.task[p]
      k1 == hw2_dequeue([k EXCEPT !.nr_running = @ - 1,
                                  !.nr_uninterruptible = IF t.state # "RUNNING" THEN @ + 1 ELSE @],
                        p, t.array)
  IN Set(k1, p, [k1.task[p] EXCEPT !.array = NULL])

deactivate_task(k, p) ==
  LET t  == k.task[p]
      k1 == hw2_dequeue([k EXCEPT !.nr_running = @ - 1,
                                  !.nr_uninterruptible =
                                     IF t.state = "UNINTERRUPTIBLE" THEN @ + 1 ELSE @],
                        p, t.array)
  IN Set(k1, p, [k1.task[p] EXCEPT !.array = NULL])

\* A mistake: the same test for every task.
Enqueued_by_list(t) == t.queued

\* The test of try_to_wake_up for "already on a queue".
Enqueued(t) == IF is_overdue(t) THEN t.queued ELSE t.array # NULL

try_to_wake_up(k, p, prio) ==
  LET t    == k.task[p]
      k1   == [k EXCEPT !.nr_uninterruptible =
                           IF t.state = "UNINTERRUPTIBLE" THEN @ - 1 ELSE @]
      k2   == activate_task(k1, p, prio)
      curr == k.curr
      k3   == IF should_switch(k2.task[curr], k2.task[p])
              THEN OVERDUE_PUSH_BACK(UPDATE_REASON(resched_task(k2, curr), curr, PRIO), curr)
              ELSE k2
      k4   == IF Enqueued(t) THEN k ELSE k3
  IN Set(k4, p, [k4.task[p] EXCEPT !.state = "RUNNING"])

wake_up_forked_process(k, p, prio) ==
  activate_task(Set(k, p, [k.task[p] EXCEPT !.state = "RUNNING"]), p, prio)

=============================================================================
