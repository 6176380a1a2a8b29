-------------------------- MODULE WaitQueueProofs --------------------------
(***************************************************************************)
(* Nobody sleeps for good on a completion or a wait queue: for any number  *)
(* of tasks, in whatever ways they wait, and for any bound on completions  *)
(* and conditions.                                                         *)
(***************************************************************************)
EXTENDS WaitQueue, FiniteSetTheorems, SequenceTheorems, WellFoundedInduction, TLAPS

-----------------------------------------------------------------------------
(* The inductive invariant.                                                *)

\* Where a task goes on when schedule() lets it sleep.
Resumes(p) == CASE op[p] = "completion" -> "woke" [] op[p] = "sleep_on" -> "remove" [] OTHER -> "set"

\* Where a task can be in its way of waiting, and with which state.
Located(p) ==
  /\ op[p] = "none" <=> pc[p] = "out"
  /\ op[p] = "completion" => pc[p] \in {"ready", "woke"} /\ mode[p] = "UNINT"
  /\ op[p] = "sleep_on" => pc[p] \in {"add", "ready", "remove"}
  /\ op[p] \in {"event", "exclusive"} => pc[p] \in {"add", "set", "test", "ready", "remove"}
  /\ state[p] \in {"RUNNING", mode[p]}
  /\ ~ queued[p] => state[p] = mode[p] /\ pc[p] = Resumes(p)
  /\ pc[p] = "out" \/ (pc[p] = "woke" /\ queued[p]) => state[p] = "RUNNING"

\* Who is on which queue.
OnQueue(h, p) ==
  IF h = "x" THEN op[p] = "completion"
  ELSE op[p] \in {"event", "exclusive", "sleep_on"} /\ pc[p] # "add"

Linked ==
  /\ task_list \in [Heads -> Seq(Pid)]
  /\ \A h \in Heads : Waiting(h) = {p \in Pid : OnQueue(h, p)}

\* Those that wait for the completion and sleep, or will do so unless they are woken
\* first, and those that will look at it.
NotLooking == {p \in Pid : op[p] = "completion" /\ state[p] # "RUNNING"}
Looking == {p \in Pid : op[p] = "completion" /\ state[p] = "RUNNING"}
EnoughLook == NotLooking = {} \/ Cardinality(Looking) >= done

\* The same for exclusive waiters, of which one that is about to test the condition will
\* look at it whatever its state.
Passing == {p \in Pid : op[p] = "exclusive"
                        /\ (~ queued[p] \/ (pc[p] = "ready" /\ state[p] # "RUNNING"))}
Testing == {p \in Pid : /\ op[p] = "exclusive" /\ queued[p]
                        /\ \/ pc[p] \in {"set", "test"}
                           \/ pc[p] = "ready" /\ state[p] = "RUNNING"}
EnoughTest == Passing = {} \/ Cardinality(Testing) + owed >= items

WaitInv == TypeOK /\ Linked /\ (\A p \in Pid : Located(p)) /\ EnoughLook /\ EnoughTest

-----------------------------------------------------------------------------
(* Lists and sets.                                                         *)

\* The waiters of a queue, by their places on it.
LEMMA Places ==
  ASSUME NEW s \in Seq(Pid)
  PROVE  /\ Len(s) \in Nat /\ DOMAIN s = 1 .. Len(s)
         /\ ToSet(s) = {s[i] : i \in 1 .. Len(s)}
         /\ IsInjective(s) <=> \A i, j \in 1 .. Len(s) : s[i] = s[j] => i = j
         /\ \A i \in 1 .. Len(s) : s[i] \in Pid
<1>1. Len(s) \in Nat /\ DOMAIN s = 1 .. Len(s)
  BY LenProperties
<1> QED BY <1>1 DEF ToSet, IsInjective

\* __remove_wait_queue takes the task off the queue and leaves the others there.
LEMMA WithoutIt ==
  ASSUME NEW s \in Seq(Pid), NEW p \in Pid, IsInjective(s)
  PROVE  /\ Without(s, p) \in Seq(Pid)
         /\ ToSet(Without(s, p)) = ToSet(s) \ {p}
         /\ IsInjective(Without(s, p))
<1>1. CASE ~ \E i \in 1 .. Len(s) : s[i] = p
  <2>1. Without(s, p) = s
    BY <1>1 DEF Without
  <2> QED BY <1>1, <2>1, Places
<1>2. CASE \E i \in 1 .. Len(s) : s[i] = p
  <2> DEFINE i    == CHOOSE j \in 1 .. Len(s) : s[j] = p
             at(j) == IF j < i THEN j ELSE j + 1
             w    == [j \in 1 .. Len(s) - 1 |-> s[at(j)]]
  <2>1. i \in 1 .. Len(s) /\ s[i] = p
    BY <1>2
  <2>2. Without(s, p) = w
    BY <1>2 DEF Without
  <2>3. Len(s) \in Nat /\ Len(s) - 1 \in Nat /\ \A j \in 1 .. Len(s) : s[j] \in Pid
    BY <2>1, Places
  <2> HIDE DEF i
  <2>4. \A j \in 1 .. Len(s) - 1 : at(j) \in 1 .. Len(s) /\ at(j) # i
    BY <2>1, <2>3
  <2>5. \A j, l \in 1 .. Len(s) - 1 : at(j) = at(l) => j = l
    BY <2>1, <2>3
  <2>6. \A l \in 1 .. Len(s) : l # i => \E j \in 1 .. Len(s) - 1 : at(j) = l
    <3> SUFFICES ASSUME NEW l \in 1 .. Len(s), l # i
                 PROVE  \E j \in 1 .. Len(s) - 1 : at(j) = l
      OBVIOUS
    <3>1. CASE l < i
      BY <2>1, <2>3, <3>1
    <3>2. CASE l > i
      <4>1. l - 1 \in 1 .. Len(s) - 1 /\ at(l - 1) = l
        BY <2>1, <2>3, <3>2
      <4> QED BY <4>1
    <3> QED BY <3>1, <3>2, <2>1, <2>3
  <2> HIDE DEF at
  <2>7. w \in [1 .. Len(s) - 1 -> Pid]
    <3>1. \A j \in 1 .. Len(s) - 1 : s[at(j)] \in Pid
      BY <2>3, <2>4
    <3> QED BY <3>1
  <2>8. w \in Seq(Pid) /\ Len(w) = Len(s) - 1
    BY <2>3, <2>7
  <2>9. \A j \in 1 .. Len(s) - 1 : w[j] = s[at(j)]
    OBVIOUS
  <2> HIDE DEF w
  <2>10. \A j, l \in 1 .. Len(s) : s[j] = s[l] => j = l
    BY Places
  <2>11. ToSet(w) = {w[j] : j \in 1 .. Len(s) - 1} /\ ToSet(s) = {s[j] : j \in 1 .. Len(s)}
    BY <2>8, Places
  <2>12. ToSet(w) \subseteq ToSet(s) \ {p}
    BY <2>1, <2>4, <2>9, <2>10, <2>11
  <2>13. ToSet(s) \ {p} \subseteq ToSet(w)
    BY <2>1, <2>6, <2>9, <2>11
  <2>14. \A j, l \in 1 .. Len(s) - 1 : w[j] = w[l] => j = l
    BY <2>4, <2>5, <2>9, <2>10
  <2> QED BY <2>2, <2>8, <2>12, <2>13, <2>14, Places
<1> QED BY <1>1, <1>2

\* add_wait_queue and add_wait_queue_exclusive, of a task that is not on the queue.
LEMMA Added ==
  ASSUME NEW s \in Seq(Pid), NEW p \in Pid, IsInjective(s), p \notin ToSet(s)
  PROVE  /\ Append(s, p) \in Seq(Pid) /\ <<p>> \o s \in Seq(Pid)
         /\ ToSet(Append(s, p)) = ToSet(s) \cup {p} /\ ToSet(<<p>> \o s) = ToSet(s) \cup {p}
         /\ IsInjective(Append(s, p)) /\ IsInjective(<<p>> \o s)
<1> DEFINE a == Append(s, p)
           c == <<p>> \o s
<1>1. /\ Len(s) \in Nat /\ ToSet(s) = {s[i] : i \in 1 .. Len(s)}
      /\ \A i, j \in 1 .. Len(s) : s[i] = s[j] => i = j
      /\ \A i \in 1 .. Len(s) : s[i] # p
  BY Places
<1>2. /\ a \in Seq(Pid) /\ Len(a) = Len(s) + 1
      /\ \A i \in 1 .. Len(s) : a[i] = s[i]
      /\ a[Len(s) + 1] = p
  BY AppendProperties
<1>3. /\ c \in Seq(Pid) /\ Len(c) = Len(s) + 1
      /\ c[1] = p
      /\ \A i \in 2 .. Len(s) + 1 : c[i] = s[i - 1]
  <2>1. <<p>> \in Seq(Pid) /\ Len(<<p>>) = 1 /\ <<p>>[1] = p
    OBVIOUS
  <2> QED BY <2>1, ConcatProperties, LenProperties
<1> HIDE DEF a, c
<1>4. ToSet(a) = {a[i] : i \in 1 .. Len(s) + 1} /\ ToSet(c) = {c[i] : i \in 1 .. Len(s) + 1}
  BY <1>2, <1>3, Places
<1>5. 1 .. Len(s) + 1 = 1 .. Len(s) \cup {Len(s) + 1}
  BY <1>1
<1>6. ToSet(a) = ToSet(s) \cup {p}
  BY <1>1, <1>2, <1>4, <1>5
<1>7. \A i \in 1 .. Len(s) + 1 : i = 1 \/ (i \in 2 .. Len(s) + 1 /\ i - 1 \in 1 .. Len(s))
  BY <1>1
<1>8. ToSet(c) = ToSet(s) \cup {p}
  <2>1. \A i \in 1 .. Len(s) + 1 : c[i] \in ToSet(s) \cup {p}
    BY <1>1, <1>3, <1>7
  <2>2. \A i \in 1 .. Len(s) : i + 1 \in 1 .. Len(s) + 1 /\ c[i + 1] = s[i]
    <3> SUFFICES ASSUME NEW i \in 1 .. Len(s)
                 PROVE  i + 1 \in 1 .. Len(s) + 1 /\ c[i + 1] = s[i]
      OBVIOUS
    <3>1. i + 1 \in 2 .. Len(s) + 1 /\ i + 1 \in 1 .. Len(s) + 1 /\ (i + 1) - 1 = i
      BY <1>1
    <3>2. c[i + 1] = s[(i + 1) - 1]
      BY <1>3, <3>1
    <3> QED BY <3>1, <3>2
  <2>3. 1 \in 1 .. Len(s) + 1
    BY <1>1
  <2>4. ToSet(c) \subseteq ToSet(s) \cup {p}
    BY <1>4, <2>1
  <2>5. ToSet(s) \subseteq ToSet(c) /\ p \in ToSet(c)
    BY <1>1, <1>3, <1>4, <2>2, <2>3
  <2> QED BY <2>4, <2>5
<1>9. IsInjective(a)
  <2> SUFFICES \A i, j \in 1 .. Len(s) + 1 : a[i] = a[j] => i = j
    BY <1>2, Places
  <2> QED BY <1>1, <1>2, <1>5
<1>10. IsInjective(c)
  <2> SUFFICES ASSUME NEW i \in 1 .. Len(s) + 1, NEW j \in 1 .. Len(s) + 1, c[i] = c[j]
               PROVE  i = j
    BY <1>3, Places
  <2>1. CASE i = 1 \/ j = 1
    <3>1. \A l \in 2 .. Len(s) + 1 : c[l] # p
      BY <1>1, <1>3, <1>7
    <3>2. c[i] = p /\ c[j] = p
      BY <1>3, <2>1
    <3>3. i \notin 2 .. Len(s) + 1 /\ j \notin 2 .. Len(s) + 1
      BY <3>1, <3>2
    <3> QED BY <1>7, <3>3
  <2>2. CASE i # 1 /\ j # 1
    <3>1. i - 1 \in 1 .. Len(s) /\ j - 1 \in 1 .. Len(s) /\ s[i - 1] = s[j - 1]
      BY <1>3, <1>7, <2>2
    <3>2. i - 1 = j - 1
      BY <1>1, <3>1
    <3> QED BY <1>1, <3>2
  <2> QED BY <2>1, <2>2
<1> QED BY <1>2, <1>3, <1>6, <1>8, <1>9, <1>10 DEF a, c

\* Finite sets that differ in one element at most, or in one at least.
LEMMA OneMoreOrLess ==
  ASSUME NEW S, IsFiniteSet(S), NEW T, IsFiniteSet(T), NEW p, S \ {p} = T \ {p}
  PROVE  /\ Cardinality(S) \in Nat /\ Cardinality(T) \in Nat
         /\ p \in S /\ p \notin T => Cardinality(S) = Cardinality(T) + 1
         /\ p \notin S /\ p \in T => Cardinality(T) = Cardinality(S) + 1
         /\ (p \in S <=> p \in T) => S = T
<1>1. Cardinality(S) \in Nat /\ Cardinality(T) \in Nat
  BY FS_CardinalityType
<1>2. /\ Cardinality(S \ {p}) = IF p \in S THEN Cardinality(S) - 1 ELSE Cardinality(S)
      /\ Cardinality(T \ {p}) = IF p \in T THEN Cardinality(T) - 1 ELSE Cardinality(T)
  BY FS_RemoveElement
<1> QED BY <1>1, <1>2

LEMMA MoreOfThem ==
  ASSUME NEW S, NEW T, IsFiniteSet(T), S \subseteq T
  PROVE  /\ Cardinality(S) \in Nat /\ Cardinality(T) \in Nat
         /\ Cardinality(S) <= Cardinality(T)
         /\ S # T => Cardinality(S) + 1 <= Cardinality(T)
<1>1. IsFiniteSet(S) /\ Cardinality(S) <= Cardinality(T) /\ (Cardinality(S) = Cardinality(T) => S = T)
  BY FS_Subset
<1>2. Cardinality(S) \in Nat /\ Cardinality(T) \in Nat
  BY <1>1, FS_CardinalityType
<1> QED BY <1>1, <1>2

-----------------------------------------------------------------------------
(* Wake-ups.                                                               *)

\* What a wake-up of the tasks of S does to each task.
LEMMA Awakened ==
  ASSUME TypeOK, NEW S, S \subseteq Pid, try_to_wake_up(S)
  PROVE  /\ state' \in [Pid -> {"RUNNING", "INT", "UNINT"}] /\ queued' \in [Pid -> BOOLEAN]
         /\ \A p \in S : state'[p] = "RUNNING" /\ queued'[p] = TRUE
         /\ \A p \in Pid \ S : state'[p] = state[p] /\ queued'[p] = queued[p]
BY DEF try_to_wake_up, TypeOK

\* A set of positions has a first one.
LEMMA FirstOf ==
  ASSUME NEW T, T \subseteq Nat, T # {}
  PROVE  \E i \in T : \A j \in T : ~ (j < i)
<1>1. IsWellFoundedOn({ss \in Nat \X Nat : ss[1] < ss[2]}, Nat)
  BY NatLessThanWellFounded, Zenon DEF OpToRel
<1>2. PICK i \in T : \A j \in T : ~ (<<j, i>> \in {ss \in Nat \X Nat : ss[1] < ss[2]})
  BY <1>1, WFMin
<1> QED BY <1>2

\* __wake_up_common wakes waiters of its queue only: all that would sleep, or an exclusive
\* one that did.
LEMMA WakesEnough ==
  ASSUME TypeOK, Linked, NEW h \in Heads, __wake_up_common(h, {"UNINT", "INT"}, 1)
  PROVE  \E S \in SUBSET Waiting(h) :
           /\ try_to_wake_up(S)
           /\ \/ \E p \in S : ~ queued[p] /\ Exclusive(p)
              \/ \A p \in Waiting(h) : state[p] # "RUNNING" => p \in S
<1> DEFINE s        == task_list[h]
           Fits(i)  == state[s[i]] \in {"UNINT", "INT"}
           Stop(j)  == Fits(j) /\ Success(s[j]) /\ Exclusive(s[j])
           Ended(i) == {j \in 1 .. i - 1 : Stop(j)}
           Reached  == {j \in 1 .. Len(s) : Fits(j) /\ Cardinality(Ended(j)) < 1}
           S        == {s[i] : i \in Reached}
<1>1. s \in Seq(Pid)
  BY DEF Linked
<1>2. Len(s) \in Nat /\ Waiting(h) = {s[i] : i \in 1 .. Len(s)} /\ \A i \in 1 .. Len(s) : s[i] \in Pid
  BY <1>1, Places DEF Waiting
<1>3. try_to_wake_up(S)
  <2>1. S = {s[i] : i \in {j \in 1 .. Len(s) : Fits(j) /\ (1 = 0 \/ Cardinality(Ended(j)) < 1)}}
    OBVIOUS
  <2> QED BY <2>1 DEF __wake_up_common
<1>4. \A i \in 1 .. Len(s) : Fits(i) <=> state[s[i]] # "RUNNING"
  BY <1>2 DEF TypeOK
<1>5. \A i \in 1 .. Len(s) : (\A j \in 1 .. i - 1 : ~ Stop(j)) => Cardinality(Ended(i)) < 1
  <2> SUFFICES ASSUME NEW i \in 1 .. Len(s), \A j \in 1 .. i - 1 : ~ Stop(j)
               PROVE  Cardinality(Ended(i)) < 1
    OBVIOUS
  <2>1. Ended(i) = {}
    OBVIOUS
  <2> HIDE DEF Ended
  <2>2. Cardinality(Ended(i)) = 0
    BY <2>1, FS_EmptySet
  <2> QED BY <2>2
<1> HIDE DEF Fits
<1>6. S \subseteq Waiting(h)
  BY <1>2
<1>7. CASE \A j \in 1 .. Len(s) : ~ Stop(j)
  <2>1. \A i \in 1 .. Len(s) : Fits(i) => s[i] \in S
    <3> SUFFICES ASSUME NEW i \in 1 .. Len(s), Fits(i)
                 PROVE  i \in Reached
      OBVIOUS
    <3>1. \A j \in 1 .. i - 1 : ~ Stop(j)
      BY <1>2, <1>7
    <3> QED BY <1>5, <3>1
  <2>2. \A p \in Waiting(h) : state[p] # "RUNNING" => p \in S
    BY <1>2, <1>4, <2>1
  <2> QED BY <1>3, <1>6, <2>2
<1>8. CASE \E j \in 1 .. Len(s) : Stop(j)
  <2> DEFINE T == {j \in 1 .. Len(s) : Stop(j)}
  <2>1. T \subseteq Nat /\ T # {}
    BY <1>8
  <2> HIDE DEF T
  <2>2. PICK i \in T : \A j \in T : ~ (j < i)
    BY <2>1, FirstOf
  <2>3. i \in 1 .. Len(s) /\ Stop(i)
    BY <2>2 DEF T
  <2>4. \A j \in 1 .. i - 1 : ~ Stop(j)
    <3> SUFFICES ASSUME NEW j \in 1 .. i - 1, Stop(j)
                 PROVE  FALSE
      OBVIOUS
    <3>1. j \in 1 .. Len(s) /\ j < i
      BY <1>2, <2>3
    <3> QED BY <2>2, <3>1 DEF T
  <2>5. i \in Reached
    BY <1>5, <2>3, <2>4
  <2>6. s[i] \in S /\ ~ queued[s[i]] /\ Exclusive(s[i])
    BY <2>3, <2>5 DEF Success
  <2> QED BY <1>3, <1>6, <2>6
<1> QED BY <1>7, <1>8

-----------------------------------------------------------------------------
(* Steps that concern one task.                                            *)

Others(p) ==
  \A q \in Pid \ {p} : /\ op'[q] = op[q] /\ pc'[q] = pc[q] /\ state'[q] = state[q]
                       /\ mode'[q] = mode[q] /\ queued'[q] = queued[q]

Fields ==
  /\ op \in [Pid -> {"none", "completion", "event", "exclusive", "sleep_on"}]
  /\ pc \in [Pid -> {"out", "add", "set", "test", "ready", "woke", "remove"}]
  /\ state \in [Pid -> {"RUNNING", "INT", "UNINT"}] /\ mode \in [Pid -> {"INT", "UNINT"}]
  /\ queued \in [Pid -> BOOLEAN] /\ sigpending \in [Pid -> BOOLEAN]
  /\ done \in 0 .. MaxItems /\ items \in 0 .. MaxItems /\ owed \in 0 .. MaxItems

\* p leaves the queue h, joins it or stays where it is, and h only.
Relinks(h, p) ==
  /\ \A g \in Heads \ {h} : OnQueue(g, p)' <=> OnQueue(g, p)
  /\ \/ task_list' = task_list /\ (OnQueue(h, p)' <=> OnQueue(h, p))
     \/ __remove_wait_queue(h, p) /\ ~ OnQueue(h, p)'
     \/ /\ ~ OnQueue(h, p) /\ OnQueue(h, p)'
        /\ \/ task_list' = [task_list EXCEPT ![h] = Append(@, p)]
           \/ task_list' = [task_list EXCEPT ![h] = <<p>> \o @]

One(b) == IF b THEN 1 ELSE 0

\* p comes and goes as completions do, and falls asleep only if there is none.
Balanced(p) ==
  /\ done' = 0 \/ p \in NotLooking \/ p \notin NotLooking'
  /\ done' = 0 \/ done' + One(p \in Looking) <= done + One(p \in Looking')

\* p comes and goes as what there is to take does, and the wake-ups that tell of it.
Passed(p) ==
  /\ items' = 0 \/ p \in Passing \/ p \notin Passing'
  /\ items' = 0 \/ items' + owed + One(p \in Testing) <= items + owed' + One(p \in Testing')

\* Where T has p in the place that S gives it, or not, it covers what is left to cover.
LEMMA Replaced ==
  ASSUME NEW S, IsFiniteSet(S), NEW T, IsFiniteSet(T), NEW p, S \ {p} = T \ {p},
         NEW m \in Nat, NEW n \in Nat, NEW u \in Nat, NEW v \in Nat
  PROVE  /\ n = 0 => Cardinality(T) >= n /\ Cardinality(T) + v >= n
         /\ Cardinality(S) >= m /\ n + One(p \in S) <= m + One(p \in T) => Cardinality(T) >= n
         /\ /\ Cardinality(S) + u >= m
            /\ n + u + One(p \in S) <= m + v + One(p \in T)
            => Cardinality(T) + v >= n
<1>1. PICK c, d : c = Cardinality(S) /\ d = Cardinality(T)
  OBVIOUS
<1>2. /\ c \in Nat /\ d \in Nat
      /\ p \in S /\ p \notin T => c = d + 1
      /\ p \notin S /\ p \in T => d = c + 1
      /\ (p \in S <=> p \in T) => c = d
  BY <1>1, OneMoreOrLess
<1>3. PICK a, b : a = One(p \in S) /\ b = One(p \in T)
  OBVIOUS
<1>4. a \in Nat /\ b \in Nat /\ d + a = c + b
  BY <1>2, <1>3 DEF One
<1> QED BY <1>1, <1>2, <1>3, <1>4

\* The others are where they were, and enough of them look at the completion and at the
\* condition.
LEMMA OneTask ==
  ASSUME IsFiniteSet(Pid), WaitInv, TypeOK', NEW p \in Pid, Others(p)
  PROVE  /\ \A q \in Pid \ {p} : Located(q)'
         /\ Balanced(p) => EnoughLook'
         /\ Passed(p) => EnoughTest'
<1>1. \A q \in Pid \ {p} : Located(q)'
  BY DEF Others, WaitInv, Located, Resumes
<1>2. /\ IsFiniteSet(Looking) /\ IsFiniteSet(Looking')
      /\ IsFiniteSet(Testing) /\ IsFiniteSet(Testing')
  <2>1. /\ Looking \in SUBSET Pid /\ Looking' \in SUBSET Pid
        /\ Testing \in SUBSET Pid /\ Testing' \in SUBSET Pid
    BY DEF Looking, Testing
  <2> QED BY <2>1, FS_Subset
<1>3. /\ done \in Nat /\ items \in Nat /\ owed \in Nat
      /\ done' \in Nat /\ items' \in Nat /\ owed' \in Nat
  BY DEF WaitInv, TypeOK
<1>4. Looking \ {p} = Looking' \ {p} /\ NotLooking \ {p} = NotLooking' \ {p}
  BY DEF Others, Looking, NotLooking
<1>5. Testing \ {p} = Testing' \ {p} /\ Passing \ {p} = Passing' \ {p}
  BY DEF Others, Testing, Passing
<1>6. ASSUME Balanced(p)
      PROVE  EnoughLook'
  <2>0. /\ done' = 0 \/ p \in NotLooking \/ p \notin NotLooking'
        /\ done' = 0 \/ done' + One(p \in Looking) <= done + One(p \in Looking')
    BY <1>6 DEF Balanced
  <2>1. NotLooking' = {} \/ Cardinality(Looking') >= done'
    <3>1. NotLooking = {} \/ Cardinality(Looking) >= done
      BY DEF WaitInv, EnoughLook
    <3>2. CASE NotLooking = {} /\ done' # 0
      BY <1>4, <2>0, <3>2
    <3>3. CASE done' = 0 \/ Cardinality(Looking) >= done
      BY <1>2, <1>3, <1>4, <2>0, <3>3, Replaced
    <3> QED BY <3>1, <3>2, <3>3
  <2> QED BY <2>1 DEF EnoughLook
<1>7. ASSUME Passed(p)
      PROVE  EnoughTest'
  <2>0. /\ items' = 0 \/ p \in Passing \/ p \notin Passing'
        /\ items' = 0 \/ items' + owed + One(p \in Testing) <= items + owed' + One(p \in Testing')
    BY <1>7 DEF Passed
  <2>1. Passing' = {} \/ Cardinality(Testing') + owed' >= items'
    <3>1. Passing = {} \/ Cardinality(Testing) + owed >= items
      BY DEF WaitInv, EnoughTest
    <3>2. CASE Passing = {} /\ items' # 0
      BY <1>5, <2>0, <3>2
    <3>3. CASE items' = 0 \/ Cardinality(Testing) + owed >= items
      BY <1>2, <1>3, <1>5, <2>0, <3>3, Replaced
    <3> QED BY <3>1, <3>2, <3>3
  <2> QED BY <2>1 DEF EnoughTest
<1> QED BY <1>1, <1>6, <1>7

\* What p leaves, joins or leaves alone holds who waits there.
LEMMA QueuesOf ==
  ASSUME TypeOK, Linked, NEW p \in Pid, Others(p), NEW h \in Heads, Relinks(h, p)
  PROVE  Linked' /\ \A g \in Heads : IsInjective(task_list'[g]) /\ ToSet(task_list'[g]) \subseteq Pid
<1>1. /\ task_list \in [Heads -> Seq(Pid)]
      /\ \A g \in Heads : /\ task_list[g] \in Seq(Pid) /\ IsInjective(task_list[g])
                           /\ ToSet(task_list[g]) = {q \in Pid : OnQueue(g, q)}
  BY DEF Linked, TypeOK, Waiting
<1>2. \A g \in Heads, q \in Pid \ {p} : OnQueue(g, q)' <=> OnQueue(g, q)
  BY DEF Others, OnQueue, Relinks
<1>3. SUFFICES ASSUME NEW l, l \in Seq(Pid), IsInjective(l), task_list' = [task_list EXCEPT ![h] = l],
                      ToSet(l) = {q \in Pid : OnQueue(h, q)'}
               PROVE  /\ Linked'
                      /\ \A g \in Heads : IsInjective(task_list'[g]) /\ ToSet(task_list'[g]) \subseteq Pid
  <2>1. CASE task_list' = task_list /\ (OnQueue(h, p)' <=> OnQueue(h, p))
    <3> DEFINE l == task_list[h]
    <3>1. l \in Seq(Pid) /\ IsInjective(l) /\ task_list' = [task_list EXCEPT ![h] = l]
      BY <1>1, <2>1
    <3>2. ToSet(l) = {q \in Pid : OnQueue(h, q)'}
      BY <1>1, <1>2, <2>1
    <3> QED BY <1>3, <3>1, <3>2
  <2>2. CASE __remove_wait_queue(h, p) /\ ~ OnQueue(h, p)'
    <3> DEFINE l == Without(task_list[h], p)
    <3>1. /\ l \in Seq(Pid) /\ IsInjective(l) /\ task_list' = [task_list EXCEPT ![h] = l]
          /\ ToSet(l) = ToSet(task_list[h]) \ {p}
      BY <1>1, <2>2, WithoutIt DEF __remove_wait_queue
    <3>2. ToSet(l) = {q \in Pid : OnQueue(h, q)'}
      BY <1>1, <1>2, <2>2, <3>1
    <3> QED BY <1>3, <3>1, <3>2
  <2>3. CASE /\ ~ OnQueue(h, p) /\ OnQueue(h, p)'
             /\ \/ task_list' = [task_list EXCEPT ![h] = Append(@, p)]
                \/ task_list' = [task_list EXCEPT ![h] = <<p>> \o @]
    <3>1. PICK l : /\ l = Append(task_list[h], p) \/ l = <<p>> \o task_list[h]
                   /\ task_list' = [task_list EXCEPT ![h] = l]
      BY <2>3
    <3>2. l \in Seq(Pid) /\ IsInjective(l) /\ ToSet(l) = ToSet(task_list[h]) \cup {p}
      <4>1. task_list[h] \in Seq(Pid) /\ IsInjective(task_list[h]) /\ p \notin ToSet(task_list[h])
        BY <1>1, <2>3
      <4>2. \A s : s = task_list[h] =>
              /\ Append(s, p) \in Seq(Pid) /\ <<p>> \o s \in Seq(Pid)
              /\ ToSet(Append(s, p)) = ToSet(s) \cup {p} /\ ToSet(<<p>> \o s) = ToSet(s) \cup {p}
              /\ IsInjective(Append(s, p)) /\ IsInjective(<<p>> \o s)
        BY <4>1, Added
      <4>3. CASE l = Append(task_list[h], p)
        BY <4>2, <4>3
      <4>4. CASE l = <<p>> \o task_list[h]
        BY <4>2, <4>4
      <4> QED BY <3>1, <4>3, <4>4
    <3>3. ToSet(l) = {q \in Pid : OnQueue(h, q)'}
      BY <1>1, <1>2, <2>3, <3>2
    <3> QED BY <1>3, <3>1, <3>2, <3>3
  <2> QED BY <2>1, <2>2, <2>3 DEF Relinks
<1>4. /\ task_list' \in [Heads -> Seq(Pid)] /\ task_list'[h] = l
      /\ \A g \in Heads \ {h} : task_list'[g] = task_list[g]
  BY <1>1, <1>3
<1>5. \A g \in Heads : /\ IsInjective(task_list'[g])
                       /\ ToSet(task_list'[g]) = {q \in Pid : OnQueue(g, q)'}
  <2> SUFFICES ASSUME NEW g \in Heads
               PROVE  /\ IsInjective(task_list'[g])
                      /\ ToSet(task_list'[g]) = {q \in Pid : OnQueue(g, q)'}
    OBVIOUS
  <2>1. CASE g = h
    BY <1>3, <1>4, <2>1
  <2>2. CASE g # h
    BY <1>1, <1>2, <1>4, <2>2 DEF Relinks
  <2> QED BY <2>1, <2>2
<1>6. \A g \in Heads : ToSet(task_list'[g]) \subseteq Pid
  BY <1>5
<1> QED BY <1>4, <1>5, <1>6 DEF Linked, Waiting

\* What is left to show of a step that concerns one task.
LEMMA OneTaskStep ==
  ASSUME WaitQueueAssumption, WaitInv, NEW p \in Pid, NEW h \in Heads,
         Fields', Others(p), Located(p)', Relinks(h, p), Balanced(p), Passed(p)
  PROVE  WaitInv'
<1>1. Linked' /\ \A g \in Heads : IsInjective(task_list'[g]) /\ ToSet(task_list'[g]) \subseteq Pid
  BY QueuesOf DEF WaitInv
<1>2. TypeOK'
  BY <1>1 DEF TypeOK, Fields
<1>3. /\ \A q \in Pid \ {p} : Located(q)'
      /\ EnoughLook' /\ EnoughTest'
  BY <1>2, OneTask DEF WaitQueueAssumption
<1> QED BY <1>1, <1>2, <1>3 DEF WaitInv

-----------------------------------------------------------------------------
(* The actions.                                                            *)

\* wake_up_process of one task.
LEMMA WakeOne ==
  ASSUME TypeOK, NEW p \in Pid, try_to_wake_up({p})
  PROVE  state' = [state EXCEPT ![p] = "RUNNING"] /\ queued' = [queued EXCEPT ![p] = TRUE]
BY DEF TypeOK, try_to_wake_up

\* A task leaves the run queue with nothing to look for, or stays on it and looks.
LEMMA ScheduleStep ==
  ASSUME WaitQueueAssumption, WaitInv, NEW p \in Pid, Schedule(p)
  PROVE  WaitInv'
<1>1. Fields'
  BY DEF WaitQueueAssumption, WaitInv, TypeOK, Located, Fields,
         Schedule, Runs, StaysOn, Goto, SetState
<1>2. Others(p)
  BY DEF WaitInv, TypeOK, Others, Schedule, Runs, StaysOn, Goto, SetState
<1>3. Located(p)'
  BY DEF WaitInv, TypeOK, Located, Resumes, WaitQueueAssumption,
         Schedule, Runs, StaysOn, Goto, SetState
<1>4. "x" \in Heads /\ Relinks("x", p)
  BY DEF WaitInv, TypeOK, Located, OnQueue, Relinks, Heads,
         Schedule, Runs, StaysOn, Goto, SetState
<1>5. Balanced(p)
  BY <1>1 DEF WaitInv, TypeOK, Fields, Located, Resumes, WaitQueueAssumption, NotLooking, Looking, One,
              Balanced, Schedule, Runs, StaysOn, Goto, SetState
<1>6. Passed(p)
  BY <1>1 DEF WaitInv, TypeOK, Fields, Located, Resumes, WaitQueueAssumption, Passing, Testing, One,
              Passed, Schedule, Runs, StaysOn, Goto, SetState
<1> QED BY <1>1, <1>2, <1>3, <1>4, <1>5, <1>6, OneTaskStep

\* A waiter that finds a completion takes it; only one that finds none sleeps again.
LEMMA CompletionLoopStep ==
  ASSUME WaitQueueAssumption, WaitInv, NEW p \in Pid, CompletionLoop(p)
  PROVE  WaitInv'
<1>1. Fields'
  BY DEF WaitQueueAssumption, WaitInv, TypeOK, Located, Fields,
         CompletionLoop, AfterSchedule, Finish, Runs, Goto, SetState
<1>2. Others(p)
  BY DEF WaitInv, TypeOK, Others, CompletionLoop, AfterSchedule, Finish, Runs, Goto, SetState
<1>3. Located(p)'
  BY DEF WaitInv, TypeOK, Located, Resumes, WaitQueueAssumption,
         CompletionLoop, AfterSchedule, Finish, Runs, Goto, SetState
<1>4. "x" \in Heads /\ Relinks("x", p)
  BY DEF WaitInv, TypeOK, Located, OnQueue, Relinks, Heads,
         CompletionLoop, AfterSchedule, Finish, Runs, Goto, SetState
<1>5. Balanced(p)
  BY <1>1 DEF WaitInv, TypeOK, Fields, Located, Resumes, WaitQueueAssumption, NotLooking, Looking, One,
              Balanced, CompletionLoop, AfterSchedule, Finish, Runs, Goto, SetState
<1>6. Passed(p)
  BY <1>1 DEF WaitInv, TypeOK, Fields, Located, Resumes, WaitQueueAssumption, Passing, Testing, One,
              Passed, CompletionLoop, AfterSchedule, Finish, Runs, Goto, SetState
<1> QED BY <1>1, <1>2, <1>3, <1>4, <1>5, <1>6, OneTaskStep

\* A task begins to wait only if there is no completion.
LEMMA WaitStep ==
  ASSUME WaitQueueAssumption, WaitInv, NEW p \in Pid, wait_for_completion(p)
  PROVE  WaitInv'
<1>1. Fields'
  BY DEF WaitQueueAssumption, WaitInv, TypeOK, Located, Fields,
         wait_for_completion, Runs, Goto, SetState
<1>2. Others(p)
  BY DEF WaitInv, TypeOK, Others, wait_for_completion, Runs, Goto, SetState
<1>3. Located(p)'
  BY DEF WaitInv, TypeOK, Located, Resumes, WaitQueueAssumption,
         wait_for_completion, Runs, Goto, SetState
<1>4. "x" \in Heads /\ Relinks("x", p)
  BY DEF WaitInv, TypeOK, Located, OnQueue, Relinks, Heads,
         wait_for_completion, Runs, Goto, SetState
<1>5. Balanced(p)
  BY <1>1 DEF WaitInv, TypeOK, Fields, Located, Resumes, WaitQueueAssumption, NotLooking, Looking, One,
              Balanced, wait_for_completion, Runs, Goto, SetState
<1>6. Passed(p)
  BY <1>1 DEF WaitInv, TypeOK, Fields, Located, Resumes, WaitQueueAssumption, Passing, Testing, One,
              Passed, wait_for_completion, Runs, Goto, SetState
<1> QED BY <1>1, <1>2, <1>3, <1>4, <1>5, <1>6, OneTaskStep

\* A task that joins the queue tests the condition next.
LEMMA AddStep ==
  ASSUME WaitQueueAssumption, WaitInv, NEW p \in Pid, add_wait_queue(p)
  PROVE  WaitInv'
<1>1. Fields'
  BY DEF WaitQueueAssumption, WaitInv, TypeOK, Located, Fields,
         add_wait_queue, Runs, Goto, Exclusive
<1>2. Others(p)
  BY DEF WaitInv, TypeOK, Others, add_wait_queue, Runs, Goto, Exclusive
<1>3. Located(p)'
  BY DEF WaitInv, TypeOK, Located, Resumes, WaitQueueAssumption,
         add_wait_queue, Runs, Goto, Exclusive
<1>4. "wq" \in Heads /\ Relinks("wq", p)
  BY DEF WaitInv, TypeOK, Located, OnQueue, Relinks, Heads,
         add_wait_queue, Runs, Goto, Exclusive
<1>5. Balanced(p)
  BY <1>1 DEF WaitInv, TypeOK, Fields, Located, Resumes, WaitQueueAssumption, NotLooking, Looking, One,
              Balanced, add_wait_queue, Runs, Goto, Exclusive
<1>6. Passed(p)
  BY <1>1 DEF WaitInv, TypeOK, Fields, Located, Resumes, WaitQueueAssumption, Passing, Testing, One,
              Passed, add_wait_queue, Runs, Goto, Exclusive
<1> QED BY <1>1, <1>2, <1>3, <1>4, <1>5, <1>6, OneTaskStep

\* The state is set before the condition is tested.
LEMMA SetStep ==
  ASSUME WaitQueueAssumption, WaitInv, NEW p \in Pid, set_current_state(p)
  PROVE  WaitInv'
<1>1. Fields'
  BY DEF WaitQueueAssumption, WaitInv, TypeOK, Located, Fields,
         set_current_state, Runs, Goto, SetState
<1>2. Others(p)
  BY DEF WaitInv, TypeOK, Others, set_current_state, Runs, Goto, SetState
<1>3. Located(p)'
  BY DEF WaitInv, TypeOK, Located, Resumes, WaitQueueAssumption,
         set_current_state, Runs, Goto, SetState
<1>4. "wq" \in Heads /\ Relinks("wq", p)
  BY DEF WaitInv, TypeOK, Located, OnQueue, Relinks, Heads,
         set_current_state, Runs, Goto, SetState
<1>5. Balanced(p)
  BY <1>1 DEF WaitInv, TypeOK, Fields, Located, Resumes, WaitQueueAssumption, NotLooking, Looking, One,
              Balanced, set_current_state, Runs, Goto, SetState
<1>6. Passed(p)
  BY <1>1 DEF WaitInv, TypeOK, Fields, Located, Resumes, WaitQueueAssumption, Passing, Testing, One,
              Passed, set_current_state, Runs, Goto, SetState
<1> QED BY <1>1, <1>2, <1>3, <1>4, <1>5, <1>6, OneTaskStep

\* A waiter that passes by what there is to take is not exclusive.
LEMMA TestStep ==
  ASSUME WaitQueueAssumption, WaitInv, NEW p \in Pid, Test(p)
  PROVE  WaitInv'
<1>1. Fields'
  BY DEF WaitQueueAssumption, WaitInv, TypeOK, Located, Fields,
         Test, GivesUp, Exclusive, Runs, Goto
<1>2. Others(p)
  BY DEF WaitInv, TypeOK, Others, Test, GivesUp, Exclusive, Runs, Goto
<1>3. Located(p)'
  BY DEF WaitInv, TypeOK, Located, Resumes, WaitQueueAssumption,
         Test, GivesUp, Exclusive, Runs, Goto
<1>4. "wq" \in Heads /\ Relinks("wq", p)
  BY DEF WaitInv, TypeOK, Located, OnQueue, Relinks, Heads,
         Test, GivesUp, Exclusive, Runs, Goto
<1>5. Balanced(p)
  BY <1>1 DEF WaitInv, TypeOK, Fields, Located, Resumes, WaitQueueAssumption, NotLooking, Looking, One,
              Balanced, Test, GivesUp, Exclusive, Runs, Goto
<1>6. Passed(p)
  BY <1>1 DEF WaitInv, TypeOK, Fields, Located, Resumes, WaitQueueAssumption, Passing, Testing, One,
              Passed, Test, GivesUp, Exclusive, Runs, Goto
<1> QED BY <1>1, <1>2, <1>3, <1>4, <1>5, <1>6, OneTaskStep

\* A task that leaves the queue had done its test before.
LEMMA RemoveStep ==
  ASSUME WaitQueueAssumption, WaitInv, NEW p \in Pid, remove_wait_queue(p)
  PROVE  WaitInv'
<1>1. Fields'
  BY DEF WaitQueueAssumption, WaitInv, TypeOK, Located, Fields,
         remove_wait_queue, Runs, Goto, SetState
<1>2. Others(p)
  BY DEF WaitInv, TypeOK, Others, remove_wait_queue, Runs, Goto, SetState
<1>3. Located(p)'
  BY DEF WaitInv, TypeOK, Located, Resumes, WaitQueueAssumption,
         remove_wait_queue, Runs, Goto, SetState
<1>4. "wq" \in Heads /\ Relinks("wq", p)
  BY DEF WaitInv, TypeOK, Located, OnQueue, Relinks, Heads,
         remove_wait_queue, Runs, Goto, SetState
<1>5. Balanced(p)
  BY <1>1 DEF WaitInv, TypeOK, Fields, Located, Resumes, WaitQueueAssumption, NotLooking, Looking, One,
              Balanced, remove_wait_queue, Runs, Goto, SetState
<1>6. Passed(p)
  BY <1>1 DEF WaitInv, TypeOK, Fields, Located, Resumes, WaitQueueAssumption, Passing, Testing, One,
              Passed, remove_wait_queue, Runs, Goto, SetState
<1> QED BY <1>1, <1>2, <1>3, <1>4, <1>5, <1>6, OneTaskStep

\* A signal wakes an exclusive waiter, which then looks.
LEMMA SignalStep ==
  ASSUME WaitQueueAssumption, WaitInv, NEW p \in Pid, Signal(p)
  PROVE  WaitInv'
<1>0. \/ /\ state[p] = "INT"
         /\ state' = [state EXCEPT ![p] = "RUNNING"] /\ queued' = [queued EXCEPT ![p] = TRUE]
      \/ state[p] # "INT" /\ UNCHANGED <<state, queued>>
  BY WakeOne DEF WaitInv, Signal
<1>1. Fields'
  BY <1>0 DEF WaitQueueAssumption, WaitInv, TypeOK, Located, Fields,
         Signal, SetState
<1>2. Others(p)
  BY <1>0 DEF WaitInv, TypeOK, Others, Signal, SetState
<1>3. Located(p)'
  BY <1>0 DEF WaitInv, TypeOK, Located, Resumes, WaitQueueAssumption,
         Signal, SetState
<1>4. "wq" \in Heads /\ Relinks("wq", p)
  BY <1>0 DEF WaitInv, TypeOK, Located, OnQueue, Relinks, Heads,
         Signal, SetState
<1>5. Balanced(p)
  BY <1>0, <1>1 DEF WaitInv, TypeOK, Fields, Located, Resumes, WaitQueueAssumption, NotLooking, Looking, One,
              Balanced, Signal, SetState
<1>6. Passed(p)
  BY <1>0, <1>1 DEF WaitInv, TypeOK, Fields, Located, Resumes, WaitQueueAssumption, Passing, Testing, One,
              Passed, Signal, SetState
<1> QED BY <1>1, <1>2, <1>3, <1>4, <1>5, <1>6, OneTaskStep

\* A timer wakes no exclusive waiter.
LEMMA TimeoutStep ==
  ASSUME WaitQueueAssumption, WaitInv, NEW p \in Pid, Timeout(p)
  PROVE  WaitInv'
<1>0. state' = [state EXCEPT ![p] = "RUNNING"] /\ queued' = [queued EXCEPT ![p] = TRUE]
  BY WakeOne DEF WaitInv, Timeout
<1>1. Fields'
  BY <1>0 DEF WaitQueueAssumption, WaitInv, TypeOK, Located, Fields,
         Timeout, SetState
<1>2. Others(p)
  BY <1>0 DEF WaitInv, TypeOK, Others, Timeout, SetState
<1>3. Located(p)'
  BY <1>0 DEF WaitInv, TypeOK, Located, Resumes, WaitQueueAssumption,
         Timeout, SetState
<1>4. "wq" \in Heads /\ Relinks("wq", p)
  BY <1>0 DEF WaitInv, TypeOK, Located, OnQueue, Relinks, Heads,
         Timeout, SetState
<1>5. Balanced(p)
  BY <1>0, <1>1 DEF WaitInv, TypeOK, Fields, Located, Resumes, WaitQueueAssumption, NotLooking, Looking, One,
              Balanced, Timeout, SetState
<1>6. Passed(p)
  BY <1>0, <1>1 DEF WaitInv, TypeOK, Fields, Located, Resumes, WaitQueueAssumption, Passing, Testing, One,
              Passed, Timeout, SetState
<1> QED BY <1>1, <1>2, <1>3, <1>4, <1>5, <1>6, OneTaskStep

\* A task that begins to wait is on no queue yet.
LEMMA BeginStep ==
  ASSUME WaitQueueAssumption, WaitInv, NEW p \in Pid, NEW o \in Ops, NEW m \in Modes, Begin(p, o, m)
  PROVE  WaitInv'
<1>1. Fields'
  BY DEF WaitQueueAssumption, WaitInv, TypeOK, Located, Fields,
         Begin, Runs, Goto, SetState
<1>2. Others(p)
  BY DEF WaitInv, TypeOK, Others, Begin, Runs, Goto, SetState
<1>3. Located(p)'
  BY DEF WaitInv, TypeOK, Located, Resumes, WaitQueueAssumption,
         Begin, Runs, Goto, SetState
<1>4. "wq" \in Heads /\ Relinks("wq", p)
  BY DEF WaitInv, TypeOK, Located, OnQueue, Relinks, Heads,
         Begin, Runs, Goto, SetState
<1>5. Balanced(p)
  BY <1>1 DEF WaitInv, TypeOK, Fields, Located, Resumes, WaitQueueAssumption, NotLooking, Looking, One,
              Balanced, Begin, Runs, Goto, SetState
<1>6. Passed(p)
  BY <1>1 DEF WaitInv, TypeOK, Fields, Located, Resumes, WaitQueueAssumption, Passing, Testing, One,
              Passed, Begin, Runs, Goto, SetState
<1> QED BY <1>1, <1>2, <1>3, <1>4, <1>5, <1>6, OneTaskStep

\* A wake-up of tasks that wait leaves everybody in his place, only awake.
LEMMA WakeStep ==
  ASSUME WaitQueueAssumption, WaitInv, NEW S, S \subseteq Pid, try_to_wake_up(S),
         UNCHANGED <<op, pc, mode, sigpending, task_list>>,
         done' \in 0 .. MaxItems, items' \in 0 .. MaxItems, owed' \in 0 .. MaxItems
  PROVE  /\ TypeOK' /\ Linked' /\ \A p \in Pid : Located(p)'
         /\ Looking \subseteq Looking' /\ Testing \subseteq Testing'
         /\ NotLooking' = NotLooking \ S /\ Passing' = Passing \ S
         /\ IsFiniteSet(Looking') /\ IsFiniteSet(Testing')
<1>1. /\ state' \in [Pid -> {"RUNNING", "INT", "UNINT"}] /\ queued' \in [Pid -> BOOLEAN]
      /\ \A p \in S : state'[p] = "RUNNING" /\ queued'[p] = TRUE
      /\ \A p \in Pid \ S : state'[p] = state[p] /\ queued'[p] = queued[p]
  BY Awakened DEF WaitInv
<1>2. TypeOK'
  BY <1>1 DEF WaitInv, TypeOK
<1>3. Linked'
  BY DEF WaitInv, Linked, Waiting, OnQueue
<1>4. \A p \in Pid : Located(p)'
  <2> SUFFICES ASSUME NEW p \in Pid
               PROVE  Located(p)'
    OBVIOUS
  <2>1. Located(p)
    BY DEF WaitInv
  <2> QED BY <1>1, <2>1 DEF Located, Resumes
<1>5. Looking \subseteq Looking' /\ NotLooking' = NotLooking \ S
  BY <1>1 DEF Looking, NotLooking
<1>6. Testing \subseteq Testing' /\ Passing' = Passing \ S
  <2>1. \A p \in Pid : op[p] = "exclusive" /\ ~ queued[p] => pc[p] = "set"
    BY DEF WaitInv, Located, Resumes
  <2> QED BY <1>1, <2>1 DEF Testing, Passing
<1>7. IsFiniteSet(Looking') /\ IsFiniteSet(Testing')
  <2>1. Looking' \in SUBSET Pid /\ Testing' \in SUBSET Pid
    BY DEF Looking, Testing
  <2> QED BY <2>1, FS_Subset DEF WaitQueueAssumption
<1> QED BY <1>2, <1>3, <1>4, <1>5, <1>6, <1>7

\* complete: one more completion, and one more that will look at it, or nobody left that
\* would sleep.
LEMMA CompleteStep ==
  ASSUME WaitQueueAssumption, WaitInv, complete
  PROVE  WaitInv'
<1>1. /\ "x" \in Heads /\ done \in Nat /\ done' = done + 1 /\ done' \in 0 .. MaxItems
      /\ UNCHANGED <<op, pc, mode, sigpending, task_list, items, owed>>
      /\ __wake_up_common("x", {"UNINT", "INT"}, 1)
      /\ items' \in 0 .. MaxItems /\ owed' \in 0 .. MaxItems
  BY DEF complete, WaitInv, TypeOK, Heads, WaitQueueAssumption
<1>2. PICK S \in SUBSET Waiting("x") :
           /\ try_to_wake_up(S)
           /\ \/ \E p \in S : ~ queued[p] /\ Exclusive(p)
              \/ \A p \in Waiting("x") : state[p] # "RUNNING" => p \in S
  BY <1>1, WakesEnough DEF WaitInv
<1>3. S \subseteq Pid /\ Waiting("x") = {p \in Pid : op[p] = "completion"}
  BY <1>1, <1>2 DEF WaitInv, Linked, OnQueue
<1>4. /\ TypeOK' /\ Linked' /\ \A p \in Pid : Located(p)'
      /\ Looking \subseteq Looking' /\ Testing \subseteq Testing'
      /\ NotLooking' = NotLooking \ S /\ Passing' = Passing \ S
      /\ IsFiniteSet(Looking') /\ IsFiniteSet(Testing')
  BY <1>1, <1>2, <1>3, WakeStep
<1>5. EnoughLook'
  <2>1. CASE \A p \in Waiting("x") : state[p] # "RUNNING" => p \in S
    <3>1. NotLooking' = {}
      BY <1>3, <1>4, <2>1 DEF NotLooking
    <3> QED BY <3>1 DEF EnoughLook
  <2>2. CASE \E p \in S : ~ queued[p] /\ Exclusive(p)
    <3>1. PICK p \in S : ~ queued[p]
      BY <2>2
    <3>2. p \in Pid /\ op[p] = "completion" /\ state[p] # "RUNNING"
      BY <1>2, <1>3, <3>1 DEF WaitInv, Located, TypeOK
    <3>3. p \in NotLooking /\ p \notin Looking
      BY <3>2 DEF NotLooking, Looking
    <3>4. p \in Looking'
      BY <1>1, <1>2, <1>3, <3>2, Awakened DEF WaitInv, Looking
    <3>5. /\ Cardinality(Looking) \in Nat /\ Cardinality(Looking') \in Nat
          /\ Cardinality(Looking) + 1 <= Cardinality(Looking')
      BY <1>4, <3>3, <3>4, MoreOfThem
    <3>6. Cardinality(Looking) >= done
      BY <3>3 DEF WaitInv, EnoughLook
    <3>7. Cardinality(Looking') >= done + 1
      BY <1>1, <3>5, <3>6
    <3> QED BY <1>1, <3>7 DEF EnoughLook
  <2> QED BY <1>2, <2>1, <2>2
<1>6. EnoughTest'
  <2>1. Testing' = Testing /\ Passing' = Passing
    <3>1. \A p \in S : op[p] = "completion"
      BY <1>2, <1>3
    <3>2. \A p \in Pid \ S : state'[p] = state[p] /\ queued'[p] = queued[p]
      BY <1>2, <1>3, Awakened DEF WaitInv
    <3> QED BY <1>1, <3>1, <3>2 DEF Testing, Passing
  <2> QED BY <1>1, <2>1 DEF WaitInv, EnoughTest
<1> QED BY <1>4, <1>5, <1>6 DEF WaitInv

\* wake_up: one wake-up less to come, and one more that will test the condition, or nobody
\* left that would sleep.
LEMMA WakeUpStep ==
  ASSUME WaitQueueAssumption, WaitInv, __wake_up
  PROVE  WaitInv'
<1>1. /\ "wq" \in Heads /\ items \in Nat /\ owed \in Nat /\ owed > 0 /\ owed' = owed - 1
      /\ UNCHANGED <<op, pc, mode, sigpending, task_list, done, items>>
      /\ __wake_up_common("wq", {"UNINT", "INT"}, 1)
      /\ done' \in 0 .. MaxItems /\ items' \in 0 .. MaxItems /\ owed' \in 0 .. MaxItems
  BY DEF __wake_up, WaitInv, TypeOK, Heads, WaitQueueAssumption
<1>2. PICK S \in SUBSET Waiting("wq") :
           /\ try_to_wake_up(S)
           /\ \/ \E p \in S : ~ queued[p] /\ Exclusive(p)
              \/ \A p \in Waiting("wq") : state[p] # "RUNNING" => p \in S
  BY <1>1, WakesEnough DEF WaitInv
<1>3. /\ S \subseteq Pid
      /\ Waiting("wq") = {p \in Pid : op[p] \in {"event", "exclusive", "sleep_on"} /\ pc[p] # "add"}
  BY <1>1, <1>2 DEF WaitInv, Linked, OnQueue
<1>4. /\ TypeOK' /\ Linked' /\ \A p \in Pid : Located(p)'
      /\ Looking \subseteq Looking' /\ Testing \subseteq Testing'
      /\ NotLooking' = NotLooking \ S /\ Passing' = Passing \ S
      /\ IsFiniteSet(Looking') /\ IsFiniteSet(Testing')
  BY <1>1, <1>2, <1>3, WakeStep
<1>5. EnoughTest'
  <2>1. CASE \A p \in Waiting("wq") : state[p] # "RUNNING" => p \in S
    <3>1. \A p \in Passing : p \in Waiting("wq") /\ state[p] # "RUNNING"
      BY <1>3 DEF WaitInv, TypeOK, Located, Resumes, Passing
    <3>2. Passing' = {}
      BY <1>4, <2>1, <3>1
    <3> QED BY <3>2 DEF EnoughTest
  <2>2. CASE \E p \in S : ~ queued[p] /\ Exclusive(p)
    <3>1. PICK p \in S : ~ queued[p] /\ Exclusive(p)
      BY <2>2
    <3>2. p \in Pid /\ op[p] = "exclusive" /\ pc[p] = "set"
      BY <1>2, <1>3, <3>1 DEF WaitInv, Located, Resumes, Exclusive
    <3>3. p \in Passing /\ p \notin Testing
      BY <3>1, <3>2 DEF Passing, Testing
    <3>4. p \in Testing'
      BY <1>1, <1>2, <1>3, <3>2, Awakened DEF WaitInv, Testing
    <3>5. /\ Cardinality(Testing) \in Nat /\ Cardinality(Testing') \in Nat
          /\ Cardinality(Testing) + 1 <= Cardinality(Testing')
      BY <1>4, <3>3, <3>4, MoreOfThem
    <3>6. Cardinality(Testing) + owed >= items
      BY <3>3 DEF WaitInv, EnoughTest
    <3>7. Cardinality(Testing') + (owed - 1) >= items
      BY <1>1, <3>5, <3>6
    <3> QED BY <1>1, <3>7 DEF EnoughTest
  <2> QED BY <1>2, <2>1, <2>2
<1>6. EnoughLook'
  <2>1. Looking' = Looking /\ NotLooking' = NotLooking
    <3>1. \A p \in S : op[p] # "completion"
      BY <1>2, <1>3
    <3>2. \A p \in Pid \ S : state'[p] = state[p] /\ queued'[p] = queued[p]
      BY <1>2, <1>3, Awakened DEF WaitInv
    <3> QED BY <1>1, <3>1, <3>2 DEF Looking, NotLooking
  <2> QED BY <1>1, <2>1 DEF WaitInv, EnoughLook
<1> QED BY <1>4, <1>5, <1>6 DEF WaitInv

\* What sets the condition, and who takes without waiting.
LEMMA ConditionStep ==
  ASSUME WaitQueueAssumption, WaitInv, SetCondition \/ Take
  PROVE  WaitInv'
<1>1. /\ UNCHANGED <<op, pc, state, mode, queued, sigpending, task_list, done>>
      /\ items \in Nat /\ owed \in Nat
      /\ items' \in 0 .. MaxItems /\ owed' \in 0 .. MaxItems
      /\ items' \in Nat /\ owed' \in Nat /\ items' + owed <= items + owed'
  BY DEF SetCondition, Take, WaitInv, TypeOK, WaitQueueAssumption
<1>2. TypeOK' /\ Linked' /\ \A p \in Pid : Located(p)'
  BY <1>1 DEF WaitInv, TypeOK, Linked, OnQueue, Waiting, Located, Resumes
<1>3. EnoughLook'
  BY <1>1 DEF WaitInv, EnoughLook, Looking, NotLooking
<1>4. EnoughTest'
  <2>1. Testing' = Testing /\ Passing' = Passing
    BY <1>1 DEF Testing, Passing
  <2>2. Cardinality(Testing) \in Nat
    <3>1. Testing \in SUBSET Pid
      BY DEF Testing
    <3> QED BY <3>1, FS_Subset, FS_CardinalityType DEF WaitQueueAssumption
  <2>3. Passing = {} \/ Cardinality(Testing) + owed >= items
    BY DEF WaitInv, EnoughTest
  <2>4. Cardinality(Testing) + owed >= items => Cardinality(Testing) + owed' >= items'
    <3>1. items \in Nat /\ owed \in Nat /\ items' \in Nat /\ owed' \in Nat /\ items' + owed <= items + owed'
      BY <1>1
    <3>2. \A c, i, u, j, v \in Nat : c + u >= i /\ j + u <= i + v => c + v >= j
      OBVIOUS
    <3> QED BY <2>2, <3>1, <3>2
  <2> QED BY <2>1, <2>3, <2>4 DEF EnoughTest
<1> QED BY <1>2, <1>3, <1>4 DEF WaitInv

-----------------------------------------------------------------------------
(* The theorems.                                                           *)

LEMMA WaitInit ==
  ASSUME WaitQueueAssumption, Init
  PROVE  WaitInv
<1>1. TypeOK /\ Linked
  <2>1. <<>> \in Seq(Pid) /\ IsInjective(<<>>) /\ ToSet(<<>>) = {}
    BY DEF IsInjective, ToSet
  <2> QED BY <2>1 DEF WaitQueueAssumption, Init, TypeOK, Linked, OnQueue, Waiting, Heads
<1>2. \A p \in Pid : Located(p)
  BY DEF Init, Located
<1>3. NotLooking = {} /\ Passing = {}
  BY DEF Init, NotLooking, Passing
<1> QED BY <1>1, <1>2, <1>3 DEF WaitInv, EnoughLook, EnoughTest

\* The inductive invariant holds of every behaviour.
LEMMA WaitInvariant ==
  ASSUME WaitQueueAssumption
  PROVE  Spec => []WaitInv
<1>1. Init => WaitInv
  BY WaitInit
<1>2. WaitInv /\ [Next]_vars => WaitInv'
  <2> SUFFICES ASSUME WaitInv, [Next]_vars
               PROVE  WaitInv'
    OBVIOUS
  <2>1. CASE UNCHANGED vars
    BY <2>1 DEF vars, WaitInv, TypeOK, Linked, OnQueue, Waiting, Located, Resumes, EnoughLook,
                EnoughTest, Looking, NotLooking, Testing, Passing
  <2>2. ASSUME NEW p \in Pid, Step(p)
        PROVE  WaitInv'
    BY <2>2, ScheduleStep, CompletionLoopStep, AddStep, SetStep, TestStep, RemoveStep DEF Step
  <2>3. ASSUME NEW p \in Pid, wait_for_completion(p) \/ Signal(p) \/ Timeout(p)
        PROVE  WaitInv'
    BY <2>3, WaitStep, SignalStep, TimeoutStep
  <2>4. ASSUME NEW p \in Pid, NEW o \in Ops, NEW m \in Modes, Begin(p, o, m)
        PROVE  WaitInv'
    BY <2>4, BeginStep
  <2>5. CASE complete \/ SetCondition \/ Take \/ __wake_up
    BY <2>5, CompleteStep, ConditionStep, WakeUpStep
  <2> QED BY <2>1, <2>2, <2>3, <2>4, <2>5 DEF Next
<1> QED BY <1>1, <1>2, PTL DEF Spec

\* Every field stays in its range, and nobody is on a queue twice.
THEOREM WaitTypeOK ==
  ASSUME WaitQueueAssumption
  PROVE  Spec => []TypeOK
BY WaitInvariant, PTL DEF WaitInv

\* A task that schedule() has taken off the run queue is on a queue that wake-ups go
\* through, in a state that they look for.
THEOREM SleepersFound ==
  ASSUME WaitQueueAssumption
  PROVE  Spec => []SleeperCanBeWoken
<1>1. WaitInv => SleeperCanBeWoken
  <2> SUFFICES ASSUME WaitInv, NEW p \in Pid, ~ queued[p]
               PROVE  state[p] = mode[p] /\ p \in Waiting("x") \cup Waiting("wq")
    BY DEF SleeperCanBeWoken, Asleep
  <2>1. Located(p) /\ ~ queued[p] /\ op[p] \in {"none", "completion", "event", "exclusive", "sleep_on"}
    BY DEF WaitInv, TypeOK
  <2>2. OnQueue("x", p) \/ OnQueue("wq", p)
    BY <2>1 DEF Located, Resumes, OnQueue
  <2>3. "x" \in Heads /\ "wq" \in Heads
    BY DEF Heads
  <2> QED BY <2>1, <2>2, <2>3 DEF Located, WaitInv, Linked
<1> QED BY <1>1, WaitInvariant, PTL

\* A completion is never left to a sleeping task that no wake-up is spent on.
THEOREM CompletionsReach ==
  ASSUME WaitQueueAssumption
  PROVE  Spec => []NoLostCompletion
<1>1. WaitInv => NoLostCompletion
  <2> SUFFICES ASSUME WaitInv
               PROVE  NoLostCompletion
    OBVIOUS
  <2> DEFINE W == Waiting("x")
             A == Asleep(Waiting("x"))
  <2>1. W = {p \in Pid : op[p] = "completion"}
    BY DEF WaitInv, Linked, OnQueue, Heads
  <2>2. A \subseteq NotLooking /\ Looking \subseteq W \ A /\ A \subseteq W
    BY <2>1 DEF WaitInv, Located, TypeOK, Asleep, NotLooking, Looking
  <2>3. W \in SUBSET Pid
    BY <2>1
  <2> HIDE DEF W, A
  <2>4. IsFiniteSet(W) /\ IsFiniteSet(A) /\ IsFiniteSet(W \ A)
    <3>1. A \in SUBSET Pid /\ W \ A \in SUBSET Pid
      BY <2>2, <2>3
    <3> QED BY <2>3, <3>1, FS_Subset DEF WaitQueueAssumption
  <2>5. Cardinality(W \ A) = Cardinality(W) - Cardinality(A)
    <3>1. W \cap A = A
      BY <2>2
    <3> QED BY <2>4, <3>1, FS_Difference
  <2>6. Cardinality(Looking) <= Cardinality(W \ A) /\ Cardinality(Looking) \in Nat /\ Cardinality(W \ A) \in Nat
    BY <2>2, <2>4, MoreOfThem
  <2>7. CASE A = {}
    BY <2>7, FS_EmptySet DEF NoLostCompletion, A
  <2>8. CASE A # {}
    <3>1. Cardinality(Looking) >= done /\ done \in Nat
      BY <2>2, <2>8 DEF WaitInv, EnoughLook, TypeOK
    <3>2. Cardinality(W \ A) >= done
      BY <2>6, <3>1
    <3> QED BY <2>5, <3>2 DEF NoLostCompletion, W, A
  <2> QED BY <2>7, <2>8
<1> QED BY <1>1, WaitInvariant, PTL

\* While an exclusive waiter sleeps and there is something to take, somebody is about to
\* look at the condition or to wake the next one.
THEOREM WakeUpsPassOn ==
  ASSUME WaitQueueAssumption
  PROVE  Spec => []NoLostWakeUp
<1>1. WaitInv => NoLostWakeUp
  <2> SUFFICES ASSUME WaitInv, items > 0, NEW p \in Asleep(Waiting("wq")), Exclusive(p), ~ (owed > 0)
               PROVE  \E q \in Pid : Runs(q, "set") \/ Runs(q, "test") \/ Runs(q, "ready")
    BY DEF NoLostWakeUp
  <2>1. p \in Pid /\ op[p] = "exclusive" /\ ~ queued[p]
    BY DEF WaitInv, Linked, OnQueue, Heads, Asleep, Exclusive
  <2>2. Passing # {}
    BY <2>1 DEF Passing
  <2>3. owed = 0 /\ items \in Nat
    BY DEF WaitInv, TypeOK
  <2>4. Cardinality(Testing) + owed >= items
    BY <2>2 DEF WaitInv, EnoughTest
  <2>5. Testing # {}
    <3> SUFFICES ASSUME Testing = {}
                 PROVE  FALSE
      OBVIOUS
    <3>1. Cardinality(Testing) = 0
      BY FS_EmptySet
    <3> QED BY <2>3, <2>4, <3>1
  <2> QED BY <2>5 DEF Testing, Runs
<1> QED BY <1>1, WaitInvariant, PTL

=============================================================================
