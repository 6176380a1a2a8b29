----------------------------- MODULE Scheduler ------------------------------
(***************************************************************************)
(* The scheduler's entry points of kernel/sched.c, and the scheduling      *)
(* halves of do_fork and release_task, as operators on the state k of      *)
(* module RunQueue.  The parameter prio of an operator is the priority     *)
(* effective_prio returned, stay says that TASK_INTERACTIVE holds and      *)
(* EXPIRED_STARVING does not, sig that a signal is pending.                *)
(***************************************************************************)
EXTENDS RunQueue

-----------------------------------------------------------------------------
(* scheduler_tick.                                                         *)

\* The current task's turn is over.
EndOfSlice(k, p) == UPDATE_REASON(resched_task(k, p), p, SLICE)

\* A real-time task: RR rotates at the end of its slice, FIFO has none.
TickRealTime(k, p) ==
  LET t  == k.task[p]
      k1 == EndOfSlice(Set(k, p, [t EXCEPT !.time_slice = TASK_TIMESLICE(t),
                                           !.first_time_slice = FALSE]), p)
  IN IF t.policy # "RR" THEN k
     ELSE IF Decremented(t.time_slice) # 0
          THEN Set(k, p, [t EXCEPT !.time_slice = Decremented(@)])
          ELSE enqueue_task(dequeue_task(k1, p, k1.active), p, k1.active)

\* An OTHER task out of slice is refilled and moves to the expired array, or
\* stays in the active one when it is interactive.
ExpireOther(k, p, prio, stay) ==
  LET k1 == EndOfSlice(dequeue_task(k, p, k.active), p)
      k2 == Set(k1, p, [k1.task[p] EXCEPT !.prio = prio,
                                          !.first_time_slice = FALSE,
                                          !.time_slice = TASK_TIMESLICE(k1.task[p])])
  IN enqueue_task(k2, p, IF stay THEN k.active ELSE expired(k))

\* A mistake: a SHORT task is refilled as an OTHER one is.
ExpireShort_refill(k, p) ==
  LET t == k.task[p]
  IN hw2_back_of_the_queue(EndOfSlice(Set(k, p,
       [t EXCEPT !.time_slice = Max({1, hw2_ms_to_ticks(t.requested_time)})]), p), p)

\* A SHORT task out of slice starts its next, shorter trial; without a trial
\* or a tick left it is overdue from here on.
ExpireShort(k, p) ==
  LET k1     == EndOfSlice(hw2_dequeue(k, p, k.task[p].array), p)
      t      == k1.task[p]
      trials == t.remaining_trials - 1
      slice  == hw2_ms_to_ticks(t.requested_time) \div (t.current_trial + 1)
      t1     == [t EXCEPT !.first_time_slice = FALSE, !.remaining_trials = trials,
                          !.current_trial = @ + 1, !.time_slice = slice]
      k2     == UPDATE_REASON(INIT_LIST_HEAD(Set(k1, p, t1), p), p, OVERDUE)
      k3     == Set(k2, p, [k2.task[p] EXCEPT !.remaining_trials = 0, !.time_slice = 0])
  IN hw2_enqueue(IF trials = 0 \/ slice = 0 THEN k3 ELSE Set(k1, p, t1), p, TRUE)

scheduler_tick(k, prio, stay) ==
  LET p == k.curr
      t == k.task[p]
      k1 == Set(k, p, [t EXCEPT !.time_slice = Decremented(@)])
  IN IF p = Idle THEN k
     ELSE IF ~ is_short(t) /\ t.array # k.active THEN EndOfSlice(k, p)
     ELSE IF rt_task(t) \/ is_overdue(t) THEN TickRealTime(k, p)
     ELSE IF Decremented(t.time_slice) # 0 THEN k1
     ELSE IF is_short(t) THEN ExpireShort(k1, p)
     ELSE ExpireOther(k1, p, prio, stay)

-----------------------------------------------------------------------------
(* schedule(), up to and including the context switch.                     *)

\* A task that is not running leaves the queues, unless a signal is pending.
PutPrev(k, sig) ==
  LET p == k.curr
      s == k.task[p].state
  IN IF s = "RUNNING" THEN k
     ELSE IF s = "INTERRUPTIBLE" /\ sig
          THEN Set(k, p, [k.task[p] EXCEPT !.state = "RUNNING"])
          ELSE UPDATE_REASON(deactivate_task(k, p), p, PREV_WAIT)

SwapArrays(k) ==
  IF k.nr_active[k.active] = 0 /\ k.overdue = <<>>
  THEN [k EXCEPT !.active = expired(k)] ELSE k

\* An overdue task that is switched out, and a SHORT one that forked, go to
\* the end of their line.
PushPrevBack(k) ==
  LET t == k.task[k.curr]
  IN IF /\ t.state = "RUNNING"
        /\ is_overdue(t) \/ (is_short(t) /\ t.reason = CREATED)
     THEN hw2_back_of_the_queue(k, k.curr) ELSE k

\* A mistake: any task of the active array comes before the SHORT ones.
PickNext_other_first(k) ==
  LET idx   == FirstBit(k, k.active)
      short == FirstBit(k, active_SHORT)
  IN IF idx # MAX_PRIO THEN Head(k.queue[<<k.active, idx>>])
     ELSE IF short # MAX_PRIO THEN Head(k.queue[<<active_SHORT, short>>])
     ELSE k.overdue[Len(k.overdue)]

\* Real-time first, then SHORT, then OTHER, then overdue.
PickNext(k) ==
  LET idx   == FirstBit(k, k.active)
      short == FirstBit(k, active_SHORT)
  IN IF idx > MAX_RT_PRIO - 1 /\ short # MAX_PRIO THEN Head(k.queue[<<active_SHORT, short>>])
     ELSE IF idx # MAX_PRIO THEN Head(k.queue[<<k.active, idx>>])
     ELSE k.overdue[Len(k.overdue)]

schedule(k, sig) ==
  LET prev == k.curr
      k1   == PutPrev(k, sig)
      k2   == IF k1.nr_running = 0 THEN k1 ELSE PushPrevBack(SwapArrays(k1))
      next == IF k2.nr_running = 0 THEN Idle ELSE PickNext(k2)
  IN [Set(k2, prev, [k2.task[prev] EXCEPT !.need_resched = FALSE]) EXCEPT !.curr = next]

-----------------------------------------------------------------------------
(* System calls.                                                           *)

\* A mistake: the task is left where it is queued.
set_user_nice_in_place(k, p, prio) ==
  Set(k, p, [k.task[p] EXCEPT !.static_prio = prio, !.prio = prio])

\* set_user_nice(p, nice), with prio = NICE_TO_PRIO(nice).  Line 1746 compares the
\* new priority with the static_prio it has just been stored in, so only the
\* other two disjuncts of that test count.
set_user_nice(k, p, prio) ==
  LET t    == k.task[p]
      t1   == [t EXCEPT !.static_prio = prio, !.prio = prio]
      curr == k.curr
      k1   == enqueue_task(Set(hw2_dequeue(k, p, t.array), p, t1), p, t.array)
      k2   == IF p = curr \/ should_switch(k1.task[curr], k1.task[p])
              THEN OVERDUE_PUSH_BACK(UPDATE_REASON(resched_task(k1, curr), curr, PRIO), curr)
              ELSE k1
  IN IF t.static_prio = prio \/ is_overdue(t) THEN k
     ELSE IF rt_task(t) THEN Set(k, p, [t EXCEPT !.static_prio = prio])
     ELSE IF t.array = NULL THEN Set(k, p, t1)
     ELSE k2

\* sys_sched_setparam passes the policy -1, which promises not to change it.
KEEP == "KEEP"
NewPolicy(t, policy) == IF policy = KEEP THEN t.policy ELSE policy

\* The checks of setscheduler that depend on its arguments and on p.
MaySetScheduler(t, policy, rt_priority, requested_time, trials) ==
  /\ rt_priority \in 0 .. MAX_USER_RT_PRIO - 1
  /\ (NewPolicy(t, policy) \in {"OTHER", "SHORT"}) = (rt_priority = 0)
  /\ NewPolicy(t, policy) = "SHORT" => requested_time \in 1 .. 5000 /\ trials \in 1 .. 50
  /\ policy # KEEP => /\ t.policy # "SHORT"
                      /\ policy = "SHORT" => t.policy = "OTHER"

\* A mistake: whoever is SHORT after the call gets all the trials asked for.
WithPolicy_again(t, policy, rt_priority, requested_time, trials) ==
  LET new == NewPolicy(t, policy)
      t1  == [t EXCEPT !.policy = new,
                       !.prio = IF new \in {"FIFO", "RR"} THEN MAX_USER_RT_PRIO - 1 - rt_priority
                                ELSE t.static_prio]
  IN IF new # "SHORT" THEN t1
     ELSE [t1 EXCEPT !.requested_time = requested_time,
                     !.remaining_trials = trials, !.current_trial = 1,
                     !.time_slice = Max({1, hw2_ms_to_ticks(requested_time)})]

\* What setscheduler writes into p; a task that is SHORT already keeps its trials.
WithPolicy(t, policy, rt_priority, requested_time, trials) ==
  LET new == NewPolicy(t, policy)
      t1  == [t EXCEPT !.policy = new,
                       !.prio = IF new \in {"FIFO", "RR"} THEN MAX_USER_RT_PRIO - 1 - rt_priority
                                ELSE t.static_prio]
      t2  == [t1 EXCEPT !.requested_time = requested_time]
  IN IF new # "SHORT" THEN t1
     ELSE IF is_short(t) THEN t2
     ELSE [t2 EXCEPT !.remaining_trials = trials, !.current_trial = 1,
                     !.time_slice = Max({1, hw2_ms_to_ticks(requested_time)})]

\* A mistake: the task is left where it is queued.
setscheduler_in_place(k, p, new, prio) == Set(k, p, new)

\* setscheduler turning the record of p into new.  The caller, k.curr, gives up
\* the CPU when p becomes SHORT.
setscheduler(k, p, new, prio) ==
  LET t  == k.task[p]
      k1 == Set(IF t.array # NULL THEN deactivate_task(k, p) ELSE k,
                p, [new EXCEPT !.array = NULL])
      k2 == IF is_short(new) /\ ~ is_short(t)
            THEN UPDATE_REASON(resched_task(k1, k.curr), k.curr, PRIO) ELSE k1
  IN IF t.array # NULL THEN activate_task(k2, p, prio) ELSE k2

\* s with p behind its head.
Second(s, p) == IF s = <<>> THEN <<p>> ELSE <<Head(s), p>> \o Tail(s)

\* sys_sched_yield of a task that is not SHORT, up to its call of schedule().
\* An OTHER task steps behind one task of its priority, or else down to the
\* next priority that has tasks.
YieldPlace(k, p) ==
  LET t  == k.task[p]
      h  == <<t.array, t.prio>>
      k1 == list_del(k, p)
      k2 == [k1 EXCEPT !.bitmap = @ \ {h}]
      i  == FirstBit(k2, t.array)
      d  == IF i = MAX_PRIO \/ i <= t.prio THEN h ELSE <<t.array, i>>
      Insert(j, h2) == [j EXCEPT !.queue[h2] = Second(@, p)]
  IN IF rt_task(t) THEN [k1 EXCEPT !.queue[h] = Append(@, p)]
     ELSE IF k1.queue[h] # <<>> THEN Insert(k1, h)
     ELSE [Set(Insert(k2, d), p, [t EXCEPT !.prio = d[2]]) EXCEPT !.bitmap = @ \cup {d}]

sys_sched_yield(k, p) == UPDATE_REASON(YieldPlace(k, p), p, YIELD)

-----------------------------------------------------------------------------
(* The parts of do_fork and release_task that share time slices.           *)

\* A mistake: the copy keeps the parent's array.
CopyTask_array(t) == [t EXCEPT !.state = "UNINTERRUPTIBLE", !.queued = FALSE]

\* *p = *current, and the fields of the new task that do_fork resets at once.
CopyTask(t) == [t EXCEPT !.state = "UNINTERRUPTIBLE", !.queued = FALSE, !.array = NULL]

\* Of n ticks or trials, the child gets the larger half.  Two mistakes: the smaller
\* half, and all.
ChildShare_floor(n) == n \div 2
ChildShare_all(n) == n
ChildShare(n) == (n + 1) \div 2

\* The parent p and the child c share slice and trials.  A parent left with
\* nothing runs through scheduler_tick for the end of its slice, with its last
\* trial or with the overdue flag already set.
SplitSlice(k, p, c, prio, stay) ==
  LET t     == k.task[p]
      r     == t.remaining_trials
      last  == r = 1
      slice == IF last THEN 0 ELSE t.time_slice \div 2
      child == [k.task[c] EXCEPT !.time_slice = ChildShare(t.time_slice),
                                 !.first_time_slice = TRUE,
                                 !.remaining_trials = ChildShare(r),
                                 !.current_trial = 1]
      k1    == Set(Set(k, c, child), p,
                   [t EXCEPT !.remaining_trials = IF last THEN 1 ELSE r \div 2,
                             !.time_slice = Max({1, slice})])
  IN IF slice = 0 THEN scheduler_tick(k1, prio, stay) ELSE k1

\* do_fork's end: hand the CPU to the child.
ForkResched(k, p, vfork) ==
  IF ~ vfork \/ (is_short(k.task[p]) /\ ~ is_overdue(k.task[p]))
  THEN UPDATE_REASON(resched_task(k, p), p, CREATED)
  ELSE k

\* The reaper takes back the slice of a child that never used up its first one.
sched_exit(k, reaper, c) ==
  LET t == k.task[c]
  IN IF t.first_time_slice /\ ~ is_short(t)
     THEN Set(k, reaper, [k.task[reaper] EXCEPT !.time_slice = Min({@ + t.time_slice, MAX_TIMESLICE})])
     ELSE k
=============================================================================
