------------------------------ MODULE ProcessProofs ------------------------------
(***************************************************************************)
(* The tree of processes holds together for any number of tasks.  Whole    *)
(* says what the pointers of tasks and their siblings agree on without     *)
(* following them further than one step; that every list of siblings ends  *)
(* and meets every child is then what its walk shows.  While a task hands  *)
(* over its children one by one its pointers are not whole, and Mend says  *)
(* what they will be.                                                      *)
(*                                                                         *)
(* The other two views of processes follow: no exit leaves a stopped job   *)
(* behind in an orphaned group, since every such group still had a         *)
(* connection (Told); and get_pid finds a pid that nobody uses, since its  *)
(* loop ends, having looked at every task (Looked) or passed every pid     *)
(* (Behind).                                                               *)
(***************************************************************************)
EXTENDS ProcessTree, FiniteSetTheorems, SequenceTheorems, WellFoundedInduction, TLAPS

-----------------------------------------------------------------------------
(* Recursion.                                                              *)

\* Induction over the natural numbers, for sets.
LEMMA NatSet ==
  ASSUME NEW S, 0 \in S, \A n \in Nat : n \in S => n + 1 \in S
  PROVE  Nat \subseteq S
<1> DEFINE T == Nat \ S
<1> SUFFICES ASSUME T # {} PROVE FALSE
  OBVIOUS
<1>1. \A x, y : x \in Nat /\ y \in Nat /\ y < x => <<y, x>> \in OpToRel(<, Nat)
  BY DEF OpToRel
<1>2. \E x \in T : \A y \in T : ~ (<<y, x>> \in OpToRel(<, Nat))
  <2>1. T \subseteq Nat
    OBVIOUS
  <2> HIDE DEF T
  <2> QED BY <2>1, NatLessThanWellFounded, WFMin
<1>3. PICK x \in T : \A y \in T : ~ (<<y, x>> \in OpToRel(<, Nat))
  BY <1>2
<1>4. x \in Nat \ {0} /\ x - 1 \in Nat /\ x - 1 < x /\ (x - 1) + 1 = x
  OBVIOUS
<1>5. x - 1 \in S
  BY <1>1, <1>3, <1>4
<1> QED BY <1>3, <1>4, <1>5

\* A set of natural numbers has a least element.
LEMMA LeastIn ==
  ASSUME NEW S, S \subseteq Nat, S # {}
  PROVE  \E n \in S : \A m \in S : n <= m
<1>1. PICK x \in S : \A y \in S : ~ (<<y, x>> \in OpToRel(<, Nat))
  BY NatLessThanWellFounded, WFMin
<1>2. \A y, z : y \in Nat /\ z \in Nat /\ y < z => <<y, z>> \in OpToRel(<, Nat)
  BY DEF OpToRel
<1>3. \A y \in S : x <= y
  <2> TAKE y \in S
  <2>1. ~ (y < x)
    BY <1>1, <1>2
  <2> QED BY <2>1
<1> QED BY <1>3

\* A function can be iterated.
Iteration(f, X, s, step) == f \in [Nat -> X] /\ f[0] = s /\ \A n \in Nat : f[n + 1] = step[f[n]]

LEMMA Iterates ==
  ASSUME NEW X, NEW s \in X, NEW step \in [X -> X]
  PROVE  \E f : Iteration(f, X, s, step)
<1> DEFINE Good(n) == {g \in [0 .. n -> X] : g[0] = s /\ \A i \in 0 .. n - 1 : g[i + 1] = step[g[i]]}
           S == {n \in Nat : Good(n) # {}}
<1>1. Nat \subseteq S
  <2>1. 0 \in S
    <3>1. [i \in 0 .. 0 |-> s] \in Good(0)
      OBVIOUS
    <3> QED BY <3>1
  <2>2. ASSUME NEW n \in Nat, n \in S PROVE n + 1 \in S
    <3>1. PICK g \in [0 .. n -> X] : g[0] = s /\ \A i \in 0 .. n - 1 : g[i + 1] = step[g[i]]
      BY <2>2
    <3> DEFINE h == [i \in 0 .. n + 1 |-> IF i = n + 1 THEN step[g[n]] ELSE g[i]]
    <3>2. h \in [0 .. n + 1 -> X]
      BY <3>1
    <3>3. h[0] = s /\ \A i \in 0 .. (n + 1) - 1 : h[i + 1] = step[h[i]]
      <4>1. h[0] = s
        BY <3>1
      <4>2. ASSUME NEW i \in 0 .. (n + 1) - 1 PROVE h[i + 1] = step[h[i]]
        BY <3>1
      <4> QED BY <4>1, <4>2
    <3> HIDE DEF h
    <3>4. h \in Good(n + 1)
      BY <3>2, <3>3
    <3> QED BY <3>4
  <2> HIDE DEF S
  <2> QED BY <2>1, <2>2, NatSet
<1>2. ASSUME NEW m \in Nat, NEW n \in Nat, NEW g \in Good(m), NEW h \in Good(n)
      PROVE  \A i \in Nat : i <= m /\ i <= n => g[i] = h[i]
  <2> DEFINE U == {i \in Nat : i <= m /\ i <= n => g[i] = h[i]}
  <2>1. 0 \in U
    OBVIOUS
  <2>2. ASSUME NEW i \in Nat, i \in U PROVE i + 1 \in U
    <3>1. CASE i + 1 <= m /\ i + 1 <= n
      <4>1. g[i + 1] = step[g[i]]
        BY <3>1
      <4>2. h[i + 1] = step[h[i]]
        BY <3>1
      <4>3. g[i] = h[i]
        BY <2>2, <3>1
      <4> QED BY <4>1, <4>2, <4>3
    <3>2. CASE ~ (i + 1 <= m /\ i + 1 <= n)
      BY <3>2
    <3> QED BY <3>1, <3>2
  <2>3. Nat \subseteq U
    <3> HIDE DEF U
    <3> QED BY <2>1, <2>2, NatSet
  <2> QED BY <2>3
<1>3. \E c : \A n \in Nat : c[n] \in Good(n)
  <2>1. \A n \in Nat : \E g : g \in Good(n)
    BY <1>1
  <2> DEFINE d == [n \in Nat |-> CHOOSE g : g \in Good(n)]
  <2> HIDE DEF Good
  <2>2. \A n \in Nat : d[n] \in Good(n)
    BY <2>1
  <2> QED BY <2>2
<1>4. PICK c : \A n \in Nat : c[n] \in Good(n)
  BY <1>3
<1> DEFINE f == [n \in Nat |-> c[n][n]]
<1>5. f \in [Nat -> X] /\ f[0] = s
  BY <1>4
<1>6. ASSUME NEW n \in Nat PROVE f[n + 1] = step[f[n]]
  <2>1. c[n] \in Good(n) /\ c[n + 1] \in Good(n + 1)
    BY <1>4
  <2>2. f[n] = c[n][n] /\ f[n + 1] = c[n + 1][n + 1]
    OBVIOUS
  <2>3. c[n + 1][n + 1] = step[c[n + 1][n]]
    BY <2>1
  <2>4. \A i \in Nat : i <= n /\ i <= n + 1 => c[n][i] = c[n + 1][i]
    <3> HIDE DEF Good
    <3> QED BY <1>2, <2>1
  <2>5. c[n + 1][n] = c[n][n]
    BY <2>4
  <2> QED BY <2>2, <2>3, <2>5
<1> HIDE DEF f
<1> QED BY <1>5, <1>6 DEF Iteration

\* The recursive function of Thread is the iterate of next_thread.
LEMMA ThreadIs ==
  ASSUME NEW X, next_thread \in [X -> X], NEW p \in X
  PROVE  /\ Thread(p, 0) = p
         /\ \A n \in Nat : Thread(p, n) \in X /\ Thread(p, n + 1) = next_thread[Thread(p, n)]
<1> DEFINE F == CHOOSE f : f = [i \in Nat |-> IF i = 0 THEN p ELSE next_thread[f[i - 1]]]
<1>1. PICK g \in [Nat -> X] : g[0] = p /\ \A n \in Nat : g[n + 1] = next_thread[g[n]]
  BY Iterates DEF Iteration
<1>2. g = [i \in Nat |-> IF i = 0 THEN p ELSE next_thread[g[i - 1]]]
  <2>1. \A i \in Nat : g[i] = IF i = 0 THEN p ELSE next_thread[g[i - 1]]
    <3> TAKE i \in Nat
    <3>1. i # 0 => i - 1 \in Nat /\ (i - 1) + 1 = i
      OBVIOUS
    <3> QED BY <1>1, <3>1
  <2> QED BY <2>1, <1>1
<1>3. F = [i \in Nat |-> IF i = 0 THEN p ELSE next_thread[F[i - 1]]]
  BY <1>2
<1>4. \A n : Thread(p, n) = F[n]
  BY DEF Thread
<1>5. PICK k : k = F
  OBVIOUS
<1>6. k = [i \in Nat |-> IF i = 0 THEN p ELSE next_thread[k[i - 1]]]
  BY <1>3, <1>5
<1>7. \A n : Thread(p, n) = k[n]
  BY <1>4, <1>5
<1> HIDE DEF F
<1>8. k[0] = p
  BY <1>6
<1>9. \A n \in Nat : k[n + 1] = next_thread[k[n]]
  <2> TAKE n \in Nat
  <2>1. n + 1 \in Nat /\ n + 1 # 0 /\ (n + 1) - 1 = n
    OBVIOUS
  <2>2. k[n + 1] = next_thread[k[(n + 1) - 1]]
    BY <1>6, <2>1
  <2> QED BY <2>1, <2>2
<1>10. \A n \in Nat : k[n] \in X
  <2> DEFINE S == {n \in Nat : k[n] \in X}
  <2>1. 0 \in S
    BY <1>8
  <2>2. \A n \in Nat : n \in S => n + 1 \in S
    BY <1>9
  <2> HIDE DEF S
  <2>3. Nat \subseteq S
    BY <2>1, <2>2, NatSet
  <2> QED BY <2>3 DEF S
<1> QED BY <1>7, <1>8, <1>9, <1>10
-----------------------------------------------------------------------------
(* SET_LINKS and REMOVE_LINKS.                                             *)

Pointer == [Pid -> Pid \cup {None}]
LinkRecord == [p_pptr : Pointer, p_cptr : Pointer, p_ysptr : Pointer, p_osptr : Pointer]

\* The tasks of C are on the lists of children of those of P, and nobody else is.
Whole(L, P, C) ==
  /\ L \in LinkRecord
  /\ \A c \in C : L.p_pptr[c] \in P
  /\ \A c \in C : L.p_ysptr[c] = None => L.p_cptr[L.p_pptr[c]] = c
  /\ \A c \in C : L.p_ysptr[c] # None =>
       LET y == L.p_ysptr[c] IN y \in C /\ L.p_pptr[y] = L.p_pptr[c] /\ L.p_osptr[y] = c
  /\ \A c \in C : L.p_osptr[c] # None =>
       LET o == L.p_osptr[c] IN o \in C /\ L.p_pptr[o] = L.p_pptr[c] /\ L.p_ysptr[o] = c
  /\ \A p \in P : L.p_cptr[p] # None =>
       LET c == L.p_cptr[p] IN c \in C /\ L.p_pptr[c] = p /\ L.p_ysptr[c] = None
  /\ \A T \in SUBSET C : T # {} => \E c \in T : L.p_ysptr[c] \notin T

\* M is L without the task c on its list, and with it on that of q.
UnlinkedFrom(M, L, c, P, C) ==
  /\ Whole(M, P, C \ {c})
  /\ M.p_pptr = L.p_pptr
  /\ \A p \in Pid : p # L.p_pptr[c] => M.p_cptr[p] = L.p_cptr[p]
LinkedTo(M, L, c, q, P, C) ==
  /\ Whole(M, P, C \cup {c})
  /\ M.p_pptr = [L.p_pptr EXCEPT ![c] = q]
  /\ \A p \in Pid : p # q => M.p_cptr[p] = L.p_cptr[p]

\* REMOVE_LINKS takes a task off the list it is on and leaves the lists whole.
LEMMA LinksRemoved ==
  ASSUME ProcessTreeAssumption, NEW P \in SUBSET Pid, NEW C \in SUBSET Pid, NEW L, Whole(L, P, C),
         NEW c \in C, NEW M, M = REMOVE_LINKS(L, c)
  PROVE  UnlinkedFrom(M, L, c, P, C)
<1> DEFINE y == L.p_ysptr[c]
           o == L.p_osptr[c]
           q == L.p_pptr[c]
<1>1. L \in LinkRecord /\ c \in Pid /\ q \in P /\ q \in Pid /\ None \notin Pid
  BY DEF Whole, ProcessTreeAssumption
<1>2. /\ y \in Pid \cup {None} /\ o \in Pid \cup {None}
      /\ y = None => L.p_cptr[q] = c
      /\ y # None => y \in C /\ L.p_pptr[y] = q /\ L.p_osptr[y] = c
      /\ o # None => o \in C /\ L.p_pptr[o] = q /\ L.p_ysptr[o] = c
  BY <1>1 DEF Whole, LinkRecord, Pointer
<1>3. /\ M.p_pptr = L.p_pptr
      /\ M.p_ysptr = IF o = None THEN L.p_ysptr ELSE [L.p_ysptr EXCEPT ![o] = y]
      /\ M.p_osptr = IF y = None THEN L.p_osptr ELSE [L.p_osptr EXCEPT ![y] = o]
      /\ M.p_cptr = IF y = None THEN [L.p_cptr EXCEPT ![q] = o] ELSE L.p_cptr
      /\ M \in LinkRecord
  BY <1>1, <1>2 DEF REMOVE_LINKS, SetYounger, LinkRecord, Pointer
<1>4. /\ \A x \in Pid : M.p_ysptr[x] = IF o # None /\ x = o THEN y ELSE L.p_ysptr[x]
      /\ \A x \in Pid : M.p_osptr[x] = IF y # None /\ x = y THEN o ELSE L.p_osptr[x]
      /\ \A x \in Pid : M.p_cptr[x] = IF y = None /\ x = q THEN o ELSE L.p_cptr[x]
  BY <1>1, <1>2, <1>3 DEF LinkRecord, Pointer
<1> HIDE DEF y, o, q
<1>5. \A x \in C \ {c} : M.p_pptr[x] \in P
  BY <1>3 DEF Whole
<1>6. \A x \in C \ {c} : M.p_ysptr[x] = None => M.p_cptr[M.p_pptr[x]] = x
  BY <1>1, <1>2, <1>3, <1>4 DEF Whole
<1>7. ASSUME NEW x \in C \ {c}, M.p_ysptr[x] # None
      PROVE  LET z == M.p_ysptr[x] IN
             z \in C \ {c} /\ M.p_pptr[z] = M.p_pptr[x] /\ M.p_osptr[z] = x
  <2>1. CASE x = o
    <3>1. o # None /\ M.p_ysptr[x] = y /\ y # None
      BY <1>1, <1>4, <1>7, <2>1
    <3>2. y # c
      BY <1>2, <2>1, <3>1 DEF o
    <3> QED BY <1>2, <1>3, <1>4, <2>1, <3>1, <3>2
  <2>2. CASE x # o
    <3>1. M.p_ysptr[x] = L.p_ysptr[x]
      BY <1>4, <2>2
    <3>2. PICK z : z = L.p_ysptr[x]
      OBVIOUS
    <3>3. z \in C /\ L.p_pptr[z] = L.p_pptr[x] /\ L.p_osptr[z] = x
      BY <1>7, <3>1, <3>2 DEF Whole
    <3>4. z # c
      BY <2>2, <3>3 DEF o
    <3>5. z # y
      BY <1>2, <1>7, <3>1, <3>2, <3>3
    <3> QED BY <1>3, <1>4, <3>1, <3>2, <3>3, <3>4, <3>5
  <2> QED BY <2>1, <2>2
<1>8. ASSUME NEW x \in C \ {c}, M.p_osptr[x] # None
      PROVE  LET z == M.p_osptr[x] IN
             z \in C \ {c} /\ M.p_pptr[z] = M.p_pptr[x] /\ M.p_ysptr[z] = x
  BY <1>1, <1>2, <1>3, <1>4, <1>8 DEF Whole
<1>9. ASSUME NEW p \in P, M.p_cptr[p] # None
      PROVE  LET z == M.p_cptr[p] IN
             z \in C \ {c} /\ M.p_pptr[z] = p /\ M.p_ysptr[z] = None
  BY <1>1, <1>2, <1>3, <1>4, <1>9 DEF Whole
<1>10. ASSUME NEW T \in SUBSET (C \ {c}), T # {}
       PROVE  \E x \in T : M.p_ysptr[x] \notin T
  <2> DEFINE U == IF o \in T THEN T \cup {c} ELSE T
  <2>1. U \in SUBSET C /\ U # {}
    BY <1>10
  <2>2. PICK x \in U : L.p_ysptr[x] \notin U
    BY <2>1 DEF Whole
  <2>3. CASE x = c
    BY <1>1, <1>2, <1>4, <2>2, <2>3 DEF y
  <2>4. CASE x # c
    BY <1>1, <1>2, <1>4, <2>2, <2>4
  <2> QED BY <2>3, <2>4
<1>11. Whole(M, P, C \ {c})
  BY <1>3, <1>5, <1>6, <1>7, <1>8, <1>9, <1>10 DEF Whole
<1> QED BY <1>3, <1>4, <1>11 DEF q, UnlinkedFrom

\* SET_LINKS puts a task that is on no list before the other children of q.
LEMMA LinksSet ==
  ASSUME ProcessTreeAssumption, NEW P \in SUBSET Pid, NEW C \in SUBSET Pid, NEW L, Whole(L, P, C),
         NEW c \in Pid \ C, NEW q \in P, NEW M, M = SET_LINKS(L, c, q)
  PROVE  LinkedTo(M, L, c, q, P, C)
<1> DEFINE f == L.p_cptr[q]
<1>1. L \in LinkRecord /\ q \in Pid /\ None \notin Pid
  BY DEF Whole, ProcessTreeAssumption
<1>2. /\ f \in Pid \cup {None}
      /\ f # None => f \in C /\ L.p_pptr[f] = q /\ L.p_ysptr[f] = None
  BY <1>1 DEF Whole, LinkRecord, Pointer
<1>3. /\ M.p_pptr = [L.p_pptr EXCEPT ![c] = q]
      /\ M.p_ysptr = IF f = None THEN [L.p_ysptr EXCEPT ![c] = None]
                     ELSE [L.p_ysptr EXCEPT ![c] = None, ![f] = c]
      /\ M.p_osptr = [L.p_osptr EXCEPT ![c] = f]
      /\ M.p_cptr = [L.p_cptr EXCEPT ![q] = c]
      /\ M \in LinkRecord
  BY <1>1, <1>2 DEF SET_LINKS, SetYounger, LinkRecord, Pointer
<1>4. /\ \A x \in Pid : M.p_pptr[x] = IF x = c THEN q ELSE L.p_pptr[x]
      /\ \A x \in Pid : M.p_ysptr[x] = IF x = c THEN None
                                       ELSE IF x = f THEN c ELSE L.p_ysptr[x]
      /\ \A x \in Pid : M.p_osptr[x] = IF x = c THEN f ELSE L.p_osptr[x]
      /\ \A x \in Pid : M.p_cptr[x] = IF x = q THEN c ELSE L.p_cptr[x]
  BY <1>1, <1>2, <1>3 DEF LinkRecord, Pointer
<1> HIDE DEF f
<1>5. \A x \in C \cup {c} : M.p_pptr[x] \in P
  BY <1>4 DEF Whole
<1>6. \A x \in C \cup {c} : M.p_ysptr[x] = None => M.p_cptr[M.p_pptr[x]] = x
  BY <1>1, <1>2, <1>4 DEF Whole, f
<1>7. ASSUME NEW x \in C \cup {c}, M.p_ysptr[x] # None
      PROVE  LET z == M.p_ysptr[x] IN
             z \in C \cup {c} /\ M.p_pptr[z] = M.p_pptr[x] /\ M.p_osptr[z] = x
  BY <1>1, <1>2, <1>4, <1>7 DEF Whole
<1>8. ASSUME NEW x \in C \cup {c}, M.p_osptr[x] # None
      PROVE  LET z == M.p_osptr[x] IN
             z \in C \cup {c} /\ M.p_pptr[z] = M.p_pptr[x] /\ M.p_ysptr[z] = x
  BY <1>1, <1>2, <1>4, <1>8 DEF Whole
<1>9. ASSUME NEW p \in P, M.p_cptr[p] # None
      PROVE  LET z == M.p_cptr[p] IN
             z \in C \cup {c} /\ M.p_pptr[z] = p /\ M.p_ysptr[z] = None
  BY <1>1, <1>2, <1>4, <1>9 DEF Whole, f
<1>10. ASSUME NEW T \in SUBSET (C \cup {c}), T # {}
       PROVE  \E x \in T : M.p_ysptr[x] \notin T
  <2>1. CASE c \in T
    BY <1>1, <1>4, <2>1
  <2>2. CASE c \notin T
    <3>1. PICK x \in T : L.p_ysptr[x] \notin T
      BY <1>10, <2>2 DEF Whole
    <3> QED BY <1>4, <2>2, <3>1
  <2> QED BY <2>1, <2>2
<1>11. Whole(M, P, C \cup {c})
  BY <1>3, <1>5, <1>6, <1>7, <1>8, <1>9, <1>10 DEF Whole
<1> QED BY <1>3, <1>4, <1>11 DEF LinkedTo

-----------------------------------------------------------------------------
(* The loop of exit_notify takes a child off the list without telling the  *)
(* next one, whose p_ysptr stays as it was.  Mend(L, B) is L with that     *)
(* pointer as it should be, for the tasks of B that are in the loop:       *)
(* SET_LINKS and REMOVE_LINKS do to it what they do to L.                  *)

FirstOf(L, B, x) == \E p \in B : L.p_cptr[p] = x
Mend(L, B) == [L EXCEPT !.p_ysptr = [x \in Pid |-> IF FirstOf(L, B, x) THEN None ELSE L.p_ysptr[x]]]

LEMMA MendIs ==
  ASSUME NEW L \in LinkRecord, NEW B
  PROVE  /\ Mend(L, B) \in LinkRecord
         /\ Mend(L, B).p_pptr = L.p_pptr /\ Mend(L, B).p_cptr = L.p_cptr /\ Mend(L, B).p_osptr = L.p_osptr
         /\ \A x \in Pid : Mend(L, B).p_ysptr[x] = IF FirstOf(L, B, x) THEN None ELSE L.p_ysptr[x]
<1>1. PICK y : y = [x \in Pid |-> IF FirstOf(L, B, x) THEN None ELSE L.p_ysptr[x]]
  OBVIOUS
<1>2. y \in Pointer
  BY <1>1 DEF LinkRecord, Pointer
<1>3. Mend(L, B) = [L EXCEPT !.p_ysptr = y]
  BY <1>1 DEF Mend
<1> QED BY <1>1, <1>2, <1>3 DEF LinkRecord

LEMMA SameLinks ==
  ASSUME NEW L \in LinkRecord, NEW M \in LinkRecord,
         \A x \in Pid : /\ L.p_pptr[x] = M.p_pptr[x] /\ L.p_cptr[x] = M.p_cptr[x]
                        /\ L.p_ysptr[x] = M.p_ysptr[x] /\ L.p_osptr[x] = M.p_osptr[x]
  PROVE  L = M
<1>1. L.p_pptr = M.p_pptr /\ L.p_cptr = M.p_cptr /\ L.p_ysptr = M.p_ysptr /\ L.p_osptr = M.p_osptr
  BY DEF LinkRecord, Pointer
<1> QED BY <1>1 DEF LinkRecord

\* The macros, pointer by pointer.
IsSet(M, L, c, q) ==
  /\ M \in LinkRecord
  /\ \A x \in Pid : /\ M.p_pptr[x] = IF x = c THEN q ELSE L.p_pptr[x]
                    /\ M.p_cptr[x] = IF x = q THEN c ELSE L.p_cptr[x]
                    /\ M.p_osptr[x] = IF x = c THEN L.p_cptr[q] ELSE L.p_osptr[x]
                    /\ M.p_ysptr[x] = IF x = L.p_cptr[q] THEN c ELSE IF x = c THEN None ELSE L.p_ysptr[x]

LEMMA SetIs ==
  ASSUME NEW L \in LinkRecord, None \notin Pid, NEW c \in Pid, NEW q \in Pid,
         NEW M, M = SET_LINKS(L, c, q)
  PROVE  IsSet(M, L, c, q)
<1>1. PICK f : f = L.p_cptr[q]
  OBVIOUS
<1>2. f \in Pid \cup {None}
  BY <1>1 DEF LinkRecord, Pointer
<1>3. /\ M.p_pptr = [L.p_pptr EXCEPT ![c] = q] /\ M.p_cptr = [L.p_cptr EXCEPT ![q] = c]
      /\ M.p_osptr = [L.p_osptr EXCEPT ![c] = f]
      /\ M.p_ysptr = IF f = None THEN [L.p_ysptr EXCEPT ![c] = None]
                     ELSE [L.p_ysptr EXCEPT ![c] = None, ![f] = c]
      /\ M \in LinkRecord
  BY <1>1, <1>2 DEF SET_LINKS, SetYounger, LinkRecord, Pointer
<1> QED BY <1>1, <1>2, <1>3 DEF IsSet, LinkRecord, Pointer

LEMMA RemoveIs ==
  ASSUME NEW L \in LinkRecord, None \notin Pid, NEW c \in Pid, L.p_pptr[c] \in Pid,
         NEW M, M = REMOVE_LINKS(L, c)
  PROVE  /\ M \in LinkRecord /\ M.p_pptr = L.p_pptr
         /\ \A x \in Pid :
              /\ M.p_cptr[x] = IF L.p_ysptr[c] = None /\ x = L.p_pptr[c] THEN L.p_osptr[c] ELSE L.p_cptr[x]
              /\ M.p_osptr[x] = IF x = L.p_ysptr[c] THEN L.p_osptr[c] ELSE L.p_osptr[x]
              /\ M.p_ysptr[x] = IF x = L.p_osptr[c] THEN L.p_ysptr[c] ELSE L.p_ysptr[x]
<1>1. PICK y : y = L.p_ysptr[c]
  OBVIOUS
<1>2. PICK o : o = L.p_osptr[c]
  OBVIOUS
<1>3. PICK q : q = L.p_pptr[c]
  OBVIOUS
<1>4. y \in Pid \cup {None} /\ o \in Pid \cup {None} /\ q \in Pid
  BY <1>1, <1>2, <1>3 DEF LinkRecord, Pointer
<1>5. /\ M.p_pptr = L.p_pptr
      /\ M.p_ysptr = IF o = None THEN L.p_ysptr ELSE [L.p_ysptr EXCEPT ![o] = y]
      /\ M.p_osptr = IF y = None THEN L.p_osptr ELSE [L.p_osptr EXCEPT ![y] = o]
      /\ M.p_cptr = IF y = None THEN [L.p_cptr EXCEPT ![q] = o] ELSE L.p_cptr
      /\ M \in LinkRecord
  BY <1>1, <1>2, <1>3, <1>4 DEF REMOVE_LINKS, SetYounger, LinkRecord, Pointer
<1> QED BY <1>1, <1>2, <1>3, <1>4, <1>5 DEF LinkRecord, Pointer

\* A task in the middle of the loop takes part in SET_LINKS like any other.
LEMMA MendSet ==
  ASSUME ProcessTreeAssumption, NEW P \in SUBSET Pid, NEW C \in SUBSET Pid, NEW B \in SUBSET P,
         NEW L \in LinkRecord, Whole(Mend(L, B), P, C), NEW c \in Pid \ C, NEW q \in P
  PROVE  /\ SET_LINKS(L, c, q) \in LinkRecord
         /\ Mend(SET_LINKS(L, c, q), B) = SET_LINKS(Mend(L, B), c, q)
<1>1. PICK N : N = Mend(L, B)
  OBVIOUS
<1>2. PICK M : M = SET_LINKS(L, c, q)
  OBVIOUS
<1>3. PICK K : K = SET_LINKS(N, c, q)
  OBVIOUS
<1>4. None \notin Pid /\ q \in Pid
  BY DEF ProcessTreeAssumption
<1>5. /\ N \in LinkRecord /\ N.p_pptr = L.p_pptr /\ N.p_cptr = L.p_cptr /\ N.p_osptr = L.p_osptr
      /\ \A x \in Pid : N.p_ysptr[x] = IF FirstOf(L, B, x) THEN None ELSE L.p_ysptr[x]
  BY <1>1, MendIs
<1>6. IsSet(M, L, c, q)
  BY <1>2, <1>4, SetIs
<1>7. IsSet(K, N, c, q)
  BY <1>3, <1>4, <1>5, SetIs
<1>8. PICK D : D = Mend(M, B)
  OBVIOUS
<1>9. /\ D \in LinkRecord /\ D.p_pptr = M.p_pptr /\ D.p_cptr = M.p_cptr /\ D.p_osptr = M.p_osptr
      /\ \A x \in Pid : D.p_ysptr[x] = IF FirstOf(M, B, x) THEN None ELSE M.p_ysptr[x]
  BY <1>6, <1>8, MendIs DEF IsSet
<1>10. \A p \in P : L.p_cptr[p] # None => L.p_cptr[p] \in C /\ L.p_pptr[L.p_cptr[p]] = p
  BY <1>1, <1>5 DEF Whole
<1>11. ASSUME NEW x \in Pid PROVE D.p_ysptr[x] = K.p_ysptr[x]
  <2>1. CASE x = c
    <3>1. x # L.p_cptr[q]
      BY <1>4, <1>10, <2>1
    <3> QED BY <1>5, <1>6, <1>7, <1>9, <2>1, <3>1 DEF IsSet
  <2>2. CASE x # c /\ x = L.p_cptr[q]
    <3>1. \A p \in B : M.p_cptr[p] # x
      BY <1>4, <1>6, <1>10, <2>2 DEF IsSet
    <3> QED BY <1>5, <1>6, <1>7, <1>9, <2>2, <3>1 DEF FirstOf, IsSet
  <2>3. CASE x # c /\ x # L.p_cptr[q]
    <3>1. FirstOf(M, B, x) <=> FirstOf(L, B, x)
      BY <1>6, <2>3 DEF FirstOf, IsSet
    <3> QED BY <1>5, <1>6, <1>7, <1>9, <2>3, <3>1 DEF IsSet
  <2> QED BY <2>1, <2>2, <2>3
<1>12. D = K
  BY <1>5, <1>6, <1>7, <1>9, <1>11, SameLinks DEF IsSet
<1> QED BY <1>1, <1>2, <1>3, <1>6, <1>8, <1>12 DEF IsSet

\* So does a child of a task that is not in the loop in REMOVE_LINKS.
LEMMA MendRemove ==
  ASSUME ProcessTreeAssumption, NEW P \in SUBSET Pid, NEW C \in SUBSET Pid, NEW B \in SUBSET P,
         NEW L \in LinkRecord, Whole(Mend(L, B), P, C), NEW c \in C, L.p_pptr[c] \notin B
  PROVE  /\ REMOVE_LINKS(L, c) \in LinkRecord
         /\ Mend(REMOVE_LINKS(L, c), B) = REMOVE_LINKS(Mend(L, B), c)
<1>1. PICK N : N = Mend(L, B)
  OBVIOUS
<1>2. PICK M : M = REMOVE_LINKS(L, c)
  OBVIOUS
<1>3. PICK K : K = REMOVE_LINKS(N, c)
  OBVIOUS
<1>4. /\ N \in LinkRecord /\ N.p_pptr = L.p_pptr /\ N.p_cptr = L.p_cptr /\ N.p_osptr = L.p_osptr
      /\ \A x \in Pid : N.p_ysptr[x] = IF FirstOf(L, B, x) THEN None ELSE L.p_ysptr[x]
  BY <1>1, MendIs
<1>5. None \notin Pid /\ c \in Pid /\ L.p_pptr[c] \in P
  BY <1>1, <1>4 DEF Whole, ProcessTreeAssumption
<1>6. \A p \in P : L.p_cptr[p] # None => L.p_cptr[p] \in C /\ L.p_pptr[L.p_cptr[p]] = p
  BY <1>1, <1>4 DEF Whole
<1>7. ~ FirstOf(L, B, c) /\ N.p_ysptr[c] = L.p_ysptr[c]
  BY <1>4, <1>5, <1>6 DEF FirstOf
<1>8. L.p_osptr[c] # None => L.p_osptr[c] \in C /\ L.p_pptr[L.p_osptr[c]] = L.p_pptr[c]
  BY <1>1, <1>4 DEF Whole
<1>9. /\ M \in LinkRecord /\ M.p_pptr = L.p_pptr
      /\ \A x \in Pid :
           /\ M.p_cptr[x] = IF L.p_ysptr[c] = None /\ x = L.p_pptr[c] THEN L.p_osptr[c] ELSE L.p_cptr[x]
           /\ M.p_osptr[x] = IF x = L.p_ysptr[c] THEN L.p_osptr[c] ELSE L.p_osptr[x]
           /\ M.p_ysptr[x] = IF x = L.p_osptr[c] THEN L.p_ysptr[c] ELSE L.p_ysptr[x]
  BY <1>2, <1>5, RemoveIs
<1>10. /\ K \in LinkRecord /\ K.p_pptr = N.p_pptr
       /\ \A x \in Pid :
            /\ K.p_cptr[x] = IF N.p_ysptr[c] = None /\ x = N.p_pptr[c] THEN N.p_osptr[c] ELSE N.p_cptr[x]
            /\ K.p_osptr[x] = IF x = N.p_ysptr[c] THEN N.p_osptr[c] ELSE N.p_osptr[x]
            /\ K.p_ysptr[x] = IF x = N.p_osptr[c] THEN N.p_ysptr[c] ELSE N.p_ysptr[x]
  BY <1>3, <1>4, <1>5, RemoveIs
<1>11. PICK D : D = Mend(M, B)
  OBVIOUS
<1>12. /\ D \in LinkRecord /\ D.p_pptr = M.p_pptr /\ D.p_cptr = M.p_cptr /\ D.p_osptr = M.p_osptr
       /\ \A x \in Pid : D.p_ysptr[x] = IF FirstOf(M, B, x) THEN None ELSE M.p_ysptr[x]
  BY <1>9, <1>11, MendIs
<1>13. \A x : FirstOf(M, B, x) <=> FirstOf(L, B, x)
  BY <1>9 DEF FirstOf
<1>14. \A x \in Pid : FirstOf(L, B, x) => x # L.p_osptr[c]
  BY <1>5, <1>6, <1>8 DEF FirstOf
<1>15. \A x \in Pid : D.p_ysptr[x] = K.p_ysptr[x]
  BY <1>4, <1>7, <1>9, <1>10, <1>12, <1>13, <1>14
<1>16. D = K
  BY <1>4, <1>7, <1>9, <1>10, <1>12, <1>15, SameLinks
<1> QED BY <1>1, <1>2, <1>3, <1>9, <1>11, <1>16

\* A round of the loop of p is a REMOVE_LINKS and a SET_LINKS of its first child.
IsHanded(M, L, p, c, q) == M = SET_LINKS([L EXCEPT !.p_cptr[p] = L.p_osptr[c]], c, q)
Relinks(V, W, c, q) == V = SET_LINKS(REMOVE_LINKS(W, c), c, q)

LEMMA MendHanded ==
  ASSUME ProcessTreeAssumption, NEW P \in SUBSET Pid, NEW C \in SUBSET Pid, NEW B \in SUBSET P,
         NEW L \in LinkRecord, Whole(Mend(L, B), P, C), NEW p \in B, NEW c, c = L.p_cptr[p], c # None,
         NEW q \in P \ B, NEW M, IsHanded(M, L, p, c, q)
  PROVE  M \in LinkRecord /\ Relinks(Mend(M, B), Mend(L, B), c, q)
<1> DEFINE N == [L EXCEPT !.p_cptr[p] = L.p_osptr[c]]
<1>1. M = SET_LINKS(N, c, q)
  BY DEF IsHanded
<1>2. PICK W : W = Mend(L, B)
  OBVIOUS
<1>3. /\ W \in LinkRecord /\ W.p_pptr = L.p_pptr /\ W.p_cptr = L.p_cptr /\ W.p_osptr = L.p_osptr
      /\ \A x \in Pid : W.p_ysptr[x] = IF FirstOf(L, B, x) THEN None ELSE L.p_ysptr[x]
  BY <1>2, MendIs
<1>4. /\ None \notin Pid /\ p \in Pid /\ p \in P /\ q \in Pid /\ q # p
      /\ c \in C /\ c \in Pid /\ L.p_pptr[c] = p /\ W.p_ysptr[c] = None
  BY <1>2, <1>3 DEF Whole, ProcessTreeAssumption
<1>5. \A b \in P : L.p_cptr[b] # None => L.p_cptr[b] \in C /\ L.p_pptr[L.p_cptr[b]] = b
  BY <1>2, <1>3 DEF Whole
<1>6. PICK o : o = L.p_osptr[c]
  OBVIOUS
<1>7. o \in Pid \cup {None} /\ (o # None => L.p_pptr[o] = p /\ o # c)
  <2>1. o \in Pid \cup {None}
    BY <1>4, <1>6 DEF LinkRecord, Pointer
  <2>2. o # None => L.p_pptr[o] = p /\ W.p_ysptr[o] = c
    BY <1>2, <1>3, <1>4, <1>6 DEF Whole
  <2> QED BY <1>4, <2>1, <2>2
<1>8. /\ N \in LinkRecord /\ N.p_pptr = L.p_pptr /\ N.p_ysptr = L.p_ysptr /\ N.p_osptr = L.p_osptr
      /\ \A x \in Pid : N.p_cptr[x] = IF x = p THEN o ELSE L.p_cptr[x]
  BY <1>4, <1>6, <1>7 DEF LinkRecord, Pointer
<1> HIDE DEF N
<1>9. PICK R : R = REMOVE_LINKS(W, c)
  OBVIOUS
<1>10. /\ R \in LinkRecord /\ R.p_pptr = W.p_pptr
      /\ \A x \in Pid :
           /\ R.p_cptr[x] = IF W.p_ysptr[c] = None /\ x = W.p_pptr[c] THEN W.p_osptr[c] ELSE W.p_cptr[x]
           /\ R.p_osptr[x] = IF x = W.p_ysptr[c] THEN W.p_osptr[c] ELSE W.p_osptr[x]
           /\ R.p_ysptr[x] = IF x = W.p_osptr[c] THEN W.p_ysptr[c] ELSE W.p_ysptr[x]
  BY <1>3, <1>4, <1>9, RemoveIs
<1>11. \A x \in Pid : /\ R.p_cptr[x] = N.p_cptr[x] /\ R.p_osptr[x] = N.p_osptr[x] /\ R.p_pptr[x] = N.p_pptr[x]
                      /\ R.p_ysptr[x] = IF x = o \/ FirstOf(L, B, x) THEN None ELSE L.p_ysptr[x]
  BY <1>3, <1>4, <1>6, <1>8, <1>10
<1>12. PICK K : K = SET_LINKS(R, c, q)
  OBVIOUS
<1>13. IsSet(K, R, c, q)
  BY <1>4, <1>10, <1>12, SetIs
<1>14. IsSet(M, N, c, q)
  BY <1>1, <1>4, <1>8, SetIs
<1>15. PICK D : D = Mend(M, B)
  OBVIOUS
<1>16. /\ D \in LinkRecord /\ D.p_pptr = M.p_pptr /\ D.p_cptr = M.p_cptr /\ D.p_osptr = M.p_osptr
       /\ \A x \in Pid : D.p_ysptr[x] = IF FirstOf(M, B, x) THEN None ELSE M.p_ysptr[x]
  BY <1>14, <1>15, MendIs DEF IsSet
<1>17. N.p_cptr[q] = L.p_cptr[q] /\ R.p_cptr[q] = L.p_cptr[q]
  BY <1>4, <1>8, <1>11
<1>18. ASSUME NEW x \in Pid PROVE D.p_ysptr[x] = K.p_ysptr[x]
  <2>1. CASE x = c
    <3>1. x # L.p_cptr[q]
      BY <1>4, <1>5, <2>1
    <3> QED BY <1>4, <1>13, <1>14, <1>16, <1>17, <2>1, <3>1 DEF IsSet
  <2>2. CASE x = L.p_cptr[q] /\ x # c
    <3>1. L.p_pptr[x] = q
      BY <1>4, <1>5, <2>2
    <3>2. ASSUME NEW b \in B PROVE M.p_cptr[b] # x
      <4>1. b \in Pid /\ b # q /\ M.p_cptr[b] = N.p_cptr[b]
        BY <1>14 DEF IsSet
      <4>2. CASE b = p
        BY <1>4, <1>7, <1>8, <2>2, <3>1, <4>1, <4>2
      <4>3. CASE b # p
        BY <1>4, <1>5, <1>8, <3>1, <4>1, <4>3
      <4> QED BY <4>2, <4>3
    <3>3. ~ FirstOf(M, B, x) /\ M.p_ysptr[x] = c
      BY <1>14, <1>17, <2>2, <3>2 DEF FirstOf, IsSet
    <3>4. D.p_ysptr[x] = c
      BY <1>16, <3>3
    <3> QED BY <1>13, <1>17, <2>2, <3>4 DEF IsSet
  <2>3. CASE x = o /\ x # c /\ x # L.p_cptr[q]
    <3>1. M.p_cptr[p] = x
      BY <1>4, <1>8, <1>14, <2>3 DEF IsSet
    <3> QED BY <1>11, <1>13, <1>16, <1>17, <2>3, <3>1 DEF FirstOf, IsSet
  <2>4. CASE x # o /\ x # c /\ x # L.p_cptr[q]
    <3>1. FirstOf(M, B, x) <=> FirstOf(L, B, x)
      BY <1>4, <1>8, <1>14, <2>4 DEF FirstOf, IsSet
    <3> QED BY <1>8, <1>11, <1>13, <1>14, <1>16, <1>17, <2>4, <3>1 DEF IsSet
  <2> QED BY <2>1, <2>2, <2>3, <2>4
<1>19. D = K
  BY <1>11, <1>13, <1>14, <1>16, <1>18, SameLinks DEF IsSet
<1> QED BY <1>2, <1>9, <1>12, <1>14, <1>15, <1>19 DEF IsSet, Relinks

\* A task whose list is whole may begin the loop, one without children end it.
LEMMA MendMore ==
  ASSUME ProcessTreeAssumption, NEW P \in SUBSET Pid, NEW C \in SUBSET Pid, NEW B \in SUBSET P,
         NEW L \in LinkRecord, Whole(Mend(L, B), P, C), NEW p \in P
  PROVE  Mend(L, B \cup {p}) = Mend(L, B)
<1>1. PICK W : W = Mend(L, B)
  OBVIOUS
<1>2. PICK D : D = Mend(L, B \cup {p})
  OBVIOUS
<1>3. /\ W \in LinkRecord /\ W.p_pptr = L.p_pptr /\ W.p_cptr = L.p_cptr /\ W.p_osptr = L.p_osptr
      /\ \A x \in Pid : W.p_ysptr[x] = IF FirstOf(L, B, x) THEN None ELSE L.p_ysptr[x]
  BY <1>1, MendIs
<1>4. /\ D \in LinkRecord /\ D.p_pptr = L.p_pptr /\ D.p_cptr = L.p_cptr /\ D.p_osptr = L.p_osptr
      /\ \A x \in Pid : D.p_ysptr[x] = IF FirstOf(L, B \cup {p}, x) THEN None ELSE L.p_ysptr[x]
  BY <1>2, MendIs
<1>5. \A x \in Pid : L.p_cptr[p] = x => W.p_ysptr[x] = None
  BY <1>1, <1>3 DEF Whole, ProcessTreeAssumption
<1>6. \A x : FirstOf(L, B \cup {p}, x) <=> FirstOf(L, B, x) \/ L.p_cptr[p] = x
  BY DEF FirstOf
<1>7. \A x \in Pid : D.p_ysptr[x] = W.p_ysptr[x]
  BY <1>3, <1>4, <1>5, <1>6
<1>8. D = W
  BY <1>3, <1>4, <1>7, SameLinks
<1> QED BY <1>1, <1>2, <1>8

LEMMA MendLess ==
  ASSUME ProcessTreeAssumption, NEW L \in LinkRecord, NEW B, NEW p, L.p_cptr[p] = None
  PROVE  Mend(L, B \ {p}) = Mend(L, B)
<1>1. \A x \in Pid : FirstOf(L, B \ {p}, x) <=> FirstOf(L, B, x)
  BY DEF FirstOf, ProcessTreeAssumption
<1> QED BY <1>1 DEF Mend

-----------------------------------------------------------------------------
(* The walk along the children of a task.                                  *)

\* One step of the walk.
LEMMA ChildIs ==
  ASSUME ProcessTreeAssumption, links \in LinkRecord, NEW p \in Pid
  PROVE  /\ Child(p, 0) = links.p_cptr[p]
         /\ \A n \in Nat : Child(p, n) \in Pid \cup {None}
         /\ \A n \in Nat : Child(p, n + 1) = IF Child(p, n) = None THEN None
                                             ELSE links.p_osptr[Child(p, n)]
<1> DEFINE After(c) == IF c = None THEN None ELSE links.p_osptr[c]
           X == Pid \cup {None}
           step == [c \in X |-> After(c)]
           F == CHOOSE f : f = [i \in Nat |-> IF i = 0 THEN links.p_cptr[p]
                                              ELSE IF f[i - 1] = None THEN None
                                              ELSE links.p_osptr[f[i - 1]]]
<1>1. step \in [X -> X] /\ links.p_cptr[p] \in X
  BY DEF LinkRecord, Pointer, ProcessTreeAssumption
<1>2. PICK g \in [Nat -> X] : g[0] = links.p_cptr[p] /\ \A n \in Nat : g[n + 1] = step[g[n]]
  <2> HIDE DEF X, step, After, F
  <2>1. PICK start : start = links.p_cptr[p]
    OBVIOUS
  <2>2. PICK after : after = step
    OBVIOUS
  <2>3. PICK Y : Y = X
    OBVIOUS
  <2>4. start \in Y
    BY <1>1, <2>1, <2>3
  <2>5. after \in [Y -> Y]
    BY <1>1, <2>2, <2>3
  <2>6. PICK g : Iteration(g, Y, start, after)
    BY <2>4, <2>5, Iterates
  <2> QED BY <2>1, <2>2, <2>3, <2>6 DEF Iteration
<1>3. g = [i \in Nat |-> IF i = 0 THEN links.p_cptr[p]
                         ELSE IF g[i - 1] = None THEN None ELSE links.p_osptr[g[i - 1]]]
  <2>1. \A i \in Nat : g[i] = IF i = 0 THEN links.p_cptr[p]
                              ELSE IF g[i - 1] = None THEN None ELSE links.p_osptr[g[i - 1]]
    <3> TAKE i \in Nat
    <3>1. i # 0 => i - 1 \in Nat /\ (i - 1) + 1 = i
      OBVIOUS
    <3> QED BY <1>2, <3>1
  <2> QED BY <2>1, <1>2
<1>4. F = [i \in Nat |-> IF i = 0 THEN links.p_cptr[p]
                         ELSE IF F[i - 1] = None THEN None ELSE links.p_osptr[F[i - 1]]]
  BY <1>3
<1>5. \A n : Child(p, n) = F[n]
  BY DEF Child
<1>6. PICK k : k = F
  OBVIOUS
<1> HIDE DEF F
<1>7. k = [i \in Nat |-> IF i = 0 THEN links.p_cptr[p]
                         ELSE IF k[i - 1] = None THEN None ELSE links.p_osptr[k[i - 1]]]
  BY <1>4, <1>6, Zenon
<1>8. \A n : Child(p, n) = k[n]
  BY <1>5, <1>6, Zenon
<1>9. k[0] = links.p_cptr[p]
  BY <1>7
<1>10. \A n \in Nat : k[n + 1] = IF k[n] = None THEN None ELSE links.p_osptr[k[n]]
  <2> TAKE n \in Nat
  <2>1. n + 1 \in Nat /\ n + 1 # 0 /\ (n + 1) - 1 = n
    OBVIOUS
  <2> QED BY <1>7, <2>1
<1>11. \A n \in Nat : k[n] \in X
  <2> DEFINE S == {n \in Nat : k[n] \in X}
  <2>1. 0 \in S
    BY <1>1, <1>9
  <2>2. \A n \in Nat : n \in S => n + 1 \in S
    BY <1>10 DEF LinkRecord, Pointer
  <2>3. Nat \subseteq S
    <3> HIDE DEF S
    <3> QED BY <2>1, <2>2, NatSet
  <2> QED BY <2>3
<1>12. \A n \in Nat : Child(p, n) \in Pid \cup {None}
  BY <1>8, <1>11
<1>13. \A n \in Nat : Child(p, n + 1) = IF Child(p, n) = None THEN None
                                        ELSE links.p_osptr[Child(p, n)]
  BY <1>8, <1>10
<1>14. Child(p, 0) = links.p_cptr[p]
  BY <1>8, <1>9
<1> QED BY <1>12, <1>13, <1>14

\* Every child is met, none of them twice, and the walk ends before there is no other task.
LEMMA WalkMeets ==
  ASSUME ProcessTreeAssumption, links \in LinkRecord, NEW L, L.p_cptr = links.p_cptr,
         L.p_osptr = links.p_osptr, NEW C, C \subseteq Linked, Whole(L, Linked, C), NEW p \in Linked
  PROVE  /\ \A n \in Nat : Child(p, n) # None =>
              /\ Child(p, n) \in C /\ L.p_pptr[Child(p, n)] = p
              /\ n < Cardinality(Pid)
              /\ n = 0 => L.p_ysptr[Child(p, n)] = None
              /\ n # 0 => /\ L.p_ysptr[Child(p, n)] = Child(p, n - 1)
                          /\ Child(p, n - 1) # None /\ L.p_osptr[Child(p, n - 1)] = Child(p, n)
         /\ \A c \in C : L.p_pptr[c] = p => \E n \in Nat : Child(p, n) = c
<1>1. links \in LinkRecord /\ L \in LinkRecord /\ p \in Pid /\ Linked \subseteq Pid /\ None \notin Pid
  BY DEF Whole, ProcessTreeAssumption, Linked
<1>2. PICK k : k = [n \in Nat |-> Child(p, n)]
  OBVIOUS
<1>3. /\ \A n \in Nat : Child(p, n) = k[n] /\ k[n] \in Pid \cup {None}
      /\ k[0] = L.p_cptr[p]
      /\ \A n \in Nat : k[n + 1] = IF k[n] = None THEN None ELSE L.p_osptr[k[n]]
  BY <1>1, <1>2, ChildIs
<1> DEFINE Mine(n) == k[n] # None =>
             /\ k[n] \in C /\ L.p_pptr[k[n]] = p
             /\ n = 0 => L.p_ysptr[k[n]] = None
             /\ n # 0 => /\ L.p_ysptr[k[n]] = k[n - 1] /\ k[n - 1] # None
                         /\ L.p_osptr[k[n - 1]] = k[n]
<1>4. \A n \in Nat : Mine(n)
  <2> DEFINE S == {n \in Nat : Mine(n)}
  <2>1. 0 \in S
    BY <1>1, <1>3 DEF Whole
  <2>2. ASSUME NEW n \in Nat, n \in S PROVE n + 1 \in S
    <3>1. CASE k[n + 1] = None
      BY <3>1
    <3>2. CASE k[n + 1] # None
      <4>1. k[n] # None /\ k[n + 1] = L.p_osptr[k[n]]
        BY <1>3, <3>2
      <4>2. k[n] \in C /\ L.p_pptr[k[n]] = p
        BY <2>2, <4>1
      <4>3. k[n + 1] \in C /\ L.p_pptr[k[n + 1]] = p /\ L.p_ysptr[k[n + 1]] = k[n]
        BY <3>2, <4>1, <4>2 DEF Whole
      <4>4. (n + 1) - 1 = n /\ n + 1 # 0
        OBVIOUS
      <4> QED BY <4>1, <4>3, <4>4
    <3> QED BY <3>1, <3>2
  <2>3. Nat \subseteq S
    <3> HIDE DEF S
    <3> QED BY <2>1, <2>2, NatSet
  <2> QED BY <2>3
<1>5. ASSUME NEW c \in C, L.p_pptr[c] = p PROVE \E n \in Nat : k[n] = c
  <2> DEFINE T == {x \in C : L.p_pptr[x] = p /\ \A n \in Nat : k[n] # x}
  <2>1. SUFFICES ASSUME T # {} PROVE FALSE
    BY <1>5
  <2>2. PICK x \in T : L.p_ysptr[x] \notin T
    <3>1. T \in SUBSET C
      OBVIOUS
    <3> HIDE DEF T
    <3> QED BY <2>1, <3>1 DEF Whole
  <2>3. CASE L.p_ysptr[x] = None
    <3>1. k[0] = x
      BY <1>3, <2>3 DEF Whole
    <3> QED BY <3>1
  <2>4. CASE L.p_ysptr[x] # None
    <3>1. PICK y : y = L.p_ysptr[x]
      OBVIOUS
    <3>2. y \in C /\ y # None /\ L.p_pptr[y] = p /\ L.p_osptr[y] = x
      BY <1>1, <2>4, <3>1 DEF Whole
    <3>3. PICK n \in Nat : k[n] = y
      BY <2>2, <3>1, <3>2
    <3>4. k[n + 1] = x /\ n + 1 \in Nat
      BY <1>3, <3>2, <3>3
    <3> QED BY <3>4
  <2> QED BY <2>3, <2>4
<1>6. \A i, j \in Nat : k[i] = k[j] /\ k[i] # None => i = j
  <2> DEFINE S == {i \in Nat : \A j \in Nat : k[i] = k[j] /\ k[i] # None => i = j}
  <2>1. 0 \in S
    BY <1>4
  <2>2. ASSUME NEW i \in Nat, i \in S PROVE i + 1 \in S
    <3> SUFFICES ASSUME NEW j \in Nat, k[i + 1] = k[j], k[i + 1] # None
                 PROVE  i + 1 = j
      OBVIOUS
    <3>1. (i + 1) - 1 = i /\ i + 1 # 0 /\ i + 1 \in Nat
      OBVIOUS
    <3>2. L.p_ysptr[k[i + 1]] = k[i] /\ k[i] # None
      BY <1>4, <3>1
    <3>3. j # 0
      BY <1>4, <3>2
    <3>4. j - 1 \in Nat /\ L.p_ysptr[k[j]] = k[j - 1]
      BY <1>4, <3>3
    <3>5. i = j - 1
      BY <2>2, <3>2, <3>4
    <3> QED BY <3>4, <3>5
  <2>3. Nat \subseteq S
    <3> HIDE DEF S
    <3> QED BY <2>1, <2>2, NatSet
  <2> QED BY <2>3
<1> DEFINE Met(n) == {k[i] : i \in 0 .. n}
<1>7. \A n \in Nat : k[n] # None => Met(n) \subseteq Pid /\ IsFiniteSet(Met(n)) /\ Cardinality(Met(n)) = n + 1
  <2> DEFINE S == {n \in Nat : k[n] # None => Met(n) \subseteq Pid /\ IsFiniteSet(Met(n)) /\ Cardinality(Met(n)) = n + 1}
  <2>1. 0 \in S
    <3>1. Met(0) = {k[0]}
      OBVIOUS
    <3>2. k[0] # None => k[0] \in Pid
      BY <1>3
    <3>3. IsFiniteSet({k[0]}) /\ Cardinality({k[0]}) = 1
      BY FS_Singleton
    <3> QED BY <3>1, <3>2, <3>3
  <2>2. ASSUME NEW n \in Nat, n \in S PROVE n + 1 \in S
    <3> SUFFICES ASSUME k[n + 1] # None
                 PROVE  /\ Met(n + 1) \subseteq Pid /\ IsFiniteSet(Met(n + 1))
                        /\ Cardinality(Met(n + 1)) = (n + 1) + 1
      OBVIOUS
    <3>1. k[n] # None /\ k[n + 1] \in Pid
      BY <1>3
    <3>2. Met(n) \subseteq Pid /\ IsFiniteSet(Met(n)) /\ Cardinality(Met(n)) = n + 1
      BY <2>2, <3>1
    <3>3. Met(n + 1) = Met(n) \cup {k[n + 1]}
      <4>1. 0 .. n + 1 = (0 .. n) \cup {n + 1}
        OBVIOUS
      <4> QED BY <4>1
    <3>4. k[n + 1] \notin Met(n)
      <4>1. ASSUME NEW i \in 0 .. n, k[i] = k[n + 1] PROVE FALSE
        <5>1. i = n + 1
          BY <1>6, <4>1
        <5> QED BY <5>1
      <4> QED BY <4>1
    <3> HIDE DEF Met
    <3>5. Cardinality(Met(n + 1)) = Cardinality(Met(n)) + 1 /\ IsFiniteSet(Met(n + 1))
      <4>1. PICK S1, e : S1 = Met(n) /\ e = k[n + 1]
        OBVIOUS
      <4>2. IsFiniteSet(S1 \cup {e}) /\ Cardinality(S1 \cup {e}) = Cardinality(S1) + 1
        BY <3>2, <3>4, <4>1, FS_AddElement
      <4> QED BY <3>3, <4>1, <4>2
    <3> QED BY <3>1, <3>2, <3>3, <3>5
  <2>3. Nat \subseteq S
    <3> HIDE DEF S
    <3> QED BY <2>1, <2>2, NatSet
  <2> QED BY <2>3
<1>8. \A n \in Nat : k[n] # None => n < Cardinality(Pid)
  <2> TAKE n \in Nat
  <2> HAVE k[n] # None
  <2>1. IsFiniteSet(Pid) /\ Cardinality(Pid) \in Nat
    BY FS_CardinalityType DEF ProcessTreeAssumption
  <2>2. Met(n) \subseteq Pid /\ Cardinality(Met(n)) = n + 1
    BY <1>7
  <2> HIDE DEF Met
  <2>3. Cardinality(Met(n)) <= Cardinality(Pid)
    BY <2>1, <2>2, FS_Subset
  <2> QED BY <2>1, <2>2, <2>3
<1> HIDE DEF Met
<1>9. ASSUME NEW n \in Nat, Child(p, n) # None
      PROVE  /\ Child(p, n) \in C /\ L.p_pptr[Child(p, n)] = p
             /\ n < Cardinality(Pid)
             /\ n = 0 => L.p_ysptr[Child(p, n)] = None
             /\ n # 0 => /\ L.p_ysptr[Child(p, n)] = Child(p, n - 1)
                         /\ Child(p, n - 1) # None /\ L.p_osptr[Child(p, n - 1)] = Child(p, n)
  <2>1. n # 0 => n - 1 \in Nat
    OBVIOUS
  <2>2. Child(p, n) = k[n] /\ (n # 0 => Child(p, n - 1) = k[n - 1])
    BY <1>3, <2>1
  <2>3. k[n] # None
    BY <1>9, <2>2
  <2> QED BY <1>4, <1>8, <2>2, <2>3
<1>10. ASSUME NEW c \in C, L.p_pptr[c] = p PROVE \E n \in Nat : Child(p, n) = c
  BY <1>3, <1>5, <1>10
<1> QED BY <1>9, <1>10

-----------------------------------------------------------------------------
(* The invariant.                                                          *)

Busy == {p \in Pid : pc[p] \in {"handing", "window"}}

\* SiblingsLinked follows from what Whole says of neighbours.
LEMMA WholeIsLinked ==
  ASSUME ProcessTreeAssumption, links \in LinkRecord,
         Whole(Mend(links, Busy), Linked, Linked \ {InitTask}), links.p_pptr[InitTask] = None
  PROVE  SiblingsLinked
<1> SUFFICES ASSUME NEW p \in Linked
             PROVE  /\ Children(p) = {c \in Linked : links.p_pptr[c] = p}
                    /\ Child(p, Cardinality(Pid)) = None
                    /\ \A c \in Children(p) :
                         IF links.p_cptr[p] = c
                         THEN links.p_ysptr[c] = None \/ pc[p] \in {"handing", "window"}
                         ELSE links.p_ysptr[c] # None /\ links.p_osptr[links.p_ysptr[c]] = c
  BY DEF SiblingsLinked
<1>1. PICK C : C = Linked \ {InitTask}
  OBVIOUS
<1>2. PICK L : L = Mend(links, Busy)
  OBVIOUS
<1>3. /\ L.p_pptr = links.p_pptr /\ L.p_cptr = links.p_cptr /\ L.p_osptr = links.p_osptr
      /\ \A x \in Pid : L.p_ysptr[x] = IF FirstOf(links, Busy, x) THEN None ELSE links.p_ysptr[x]
  BY <1>2, MendIs
<1>4. C \subseteq Linked /\ Whole(L, Linked, C) /\ p \in Pid /\ None \notin Pid
  BY <1>1, <1>2 DEF Linked, ProcessTreeAssumption
<1>5. Cardinality(Pid) \in Nat
  BY FS_CardinalityType DEF ProcessTreeAssumption
<1>6. /\ \A n \in Nat : Child(p, n) # None =>
           /\ Child(p, n) \in C /\ L.p_pptr[Child(p, n)] = p
           /\ n < Cardinality(Pid)
      /\ \A c \in C : L.p_pptr[c] = p => \E n \in Nat : Child(p, n) = c
  BY <1>3, <1>4, WalkMeets
<1>7. Child(p, Cardinality(Pid)) = None
  BY <1>5, <1>6
<1>8. \A c \in Linked : links.p_pptr[c] = p => c \in C
  BY <1>1, <1>4
<1>9. Children(p) = {c \in Linked : links.p_pptr[c] = p}
  <2>1. ASSUME NEW c \in Children(p) PROVE c \in Linked /\ links.p_pptr[c] = p
    <3>1. PICK n \in 0 .. Cardinality(Pid) : c = Child(p, n) /\ c # None
      BY DEF Children
    <3> QED BY <1>3, <1>4, <1>5, <1>6, <3>1
  <2>2. ASSUME NEW c \in Linked, links.p_pptr[c] = p PROVE c \in Children(p)
    <3>1. PICK n \in Nat : Child(p, n) = c
      BY <1>3, <1>6, <1>8, <2>2
    <3>2. c # None
      BY <1>4 DEF Linked
    <3>3. n \in 0 .. Cardinality(Pid)
      BY <1>5, <1>6, <3>1, <3>2
    <3> QED BY <3>1, <3>2, <3>3 DEF Children
  <2> QED BY <2>1, <2>2
<1>10. ASSUME NEW c \in Children(p)
       PROVE  IF links.p_cptr[p] = c
              THEN links.p_ysptr[c] = None \/ pc[p] \in {"handing", "window"}
              ELSE links.p_ysptr[c] # None /\ links.p_osptr[links.p_ysptr[c]] = c
  <2>1. c \in C /\ c \in Pid /\ L.p_pptr[c] = p
    BY <1>3, <1>8, <1>9 DEF Linked
  <2>2. CASE links.p_cptr[p] = c
    <3>1. L.p_ysptr[c] = None
      BY <1>3, <1>4, <2>1, <2>2 DEF Whole
    <3>2. \A b \in Busy : links.p_cptr[b] = c => b = p
      BY <1>3, <1>4, <2>1 DEF Whole, Linked, Busy
    <3> QED BY <1>3, <1>4, <2>1, <2>2, <3>1, <3>2 DEF FirstOf, Busy
  <2>3. CASE links.p_cptr[p] # c
    <3>1. L.p_ysptr[c] # None /\ L.p_osptr[L.p_ysptr[c]] = c
      BY <1>3, <1>4, <2>1, <2>3 DEF Whole
    <3>2. L.p_ysptr[c] = links.p_ysptr[c]
      BY <1>3, <2>1, <3>1
    <3> QED BY <1>3, <2>3, <3>1, <3>2
  <2> QED BY <2>2, <2>3
<1> QED BY <1>7, <1>9, <1>10

Place == {"run", "exiting", "forgot", "handing", "window", "zombie", "reap", "free"}
TreeTyped ==
  /\ links \in LinkRecord /\ p_opptr \in Pointer /\ found \in Pointer
  /\ next_thread \in [Pid -> Pid] /\ ptrace \in [Pid -> BOOLEAN]
  /\ pc \in [Pid -> Place]
  /\ pc[InitTask] \in {"run", "reap"} /\ ~ ptrace[InitTask] /\ links.p_pptr[InitTask] = None
  /\ \A p \in Pid : pc[p] = "reap" => found[p] \in Pid
  /\ \A p \in Pid : pc[p] = "window" => "jobs" \in Calls

Rings ==
  /\ \A p, q \in Pid : next_thread[p] = next_thread[q] => p = q
  /\ \A q \in Pid : \E p \in Pid : next_thread[p] = q
  /\ \A p \in Pid : pc[p] = "free" => next_thread[p] = p

Siblings ==
  /\ Whole(Mend(links, Busy), Linked, Linked \ {InitTask})
  /\ \A p \in Pid : pc[p] = "free" => links.p_cptr[p] = None

\* Until the end of its second loop exit_notify's task is still a parent, but nobody's real
\* one.
RealParent == {"run", "reap", "exiting"}
AnyParent == RealParent \cup {"forgot", "handing", "window"}
Parents ==
  \A p \in Linked \ {InitTask} :
    /\ p_opptr[p] \in Pid /\ pc[p_opptr[p]] \in RealParent
    /\ pc[links.p_pptr[p]] \in AnyParent

TreeInv == TreeTyped /\ Rings /\ Siblings /\ Parents

\* Busy tasks have pointers too.
LEMMA BusyLinked == Busy \in SUBSET Linked
BY DEF Busy, Linked

\* What Siblings says, of the pointers themselves.
LEMMA Neighbours ==
  ASSUME ProcessTreeAssumption, TreeInv
  PROVE  /\ \A c \in Linked \ {InitTask} : links.p_pptr[c] \in Linked
         /\ \A p \in Linked : links.p_cptr[p] # None =>
              links.p_cptr[p] \in Linked \ {InitTask} /\ links.p_pptr[links.p_cptr[p]] = p
<1>1. PICK L : L = Mend(links, Busy)
  OBVIOUS
<1>2. L.p_pptr = links.p_pptr /\ L.p_cptr = links.p_cptr
  BY <1>1, MendIs DEF TreeInv, TreeTyped
<1>3. Whole(L, Linked, Linked \ {InitTask})
  BY <1>1 DEF TreeInv, Siblings
<1> QED BY <1>2, <1>3 DEF Whole

\* What all steps that are no forks do to links, in terms of who is whose child.
Relinked(c, q) ==
  /\ links' \in LinkRecord /\ Whole(Mend(links', Busy), Linked, Linked \ {InitTask})
  /\ \A p \in Pid : links'.p_pptr[p] = IF p = c THEN q ELSE links.p_pptr[p]
  /\ \A p \in Pid : pc[p] = "free" => links'.p_cptr[p] = None

\* REMOVE_LINKS and SET_LINKS of the mended pointers V to U say so of those they are, L to M.
LEMMA MovedIs ==
  ASSUME ProcessTreeAssumption, TreeInv, NEW c \in Linked \ {InitTask}, NEW q \in Linked,
         NEW U, U = SET_LINKS(REMOVE_LINKS(Mend(links, Busy), c), c, q),
         links' \in LinkRecord, Mend(links', Busy) = U
  PROVE  Relinked(c, q)
<1>1. PICK P : P = Linked
  OBVIOUS
<1>2. PICK L : L = Mend(links, Busy)
  OBVIOUS
<1>3. PICK R : R = REMOVE_LINKS(L, c)
  OBVIOUS
<1>4. U = SET_LINKS(R, c, q)
  BY <1>2, <1>3
<1>5. /\ L.p_pptr = links.p_pptr /\ L.p_cptr = links.p_cptr
      /\ U.p_pptr = links'.p_pptr /\ U.p_cptr = links'.p_cptr
  BY <1>2, MendIs DEF TreeInv, TreeTyped
<1>6. PICK C : C = P \ {InitTask}
  OBVIOUS
<1>7. Whole(L, P, C) /\ P \in SUBSET Pid /\ C \in SUBSET Pid /\ c \in C /\ q \in P
  BY <1>1, <1>2, <1>6 DEF TreeInv, Siblings, Linked
<1>8. UnlinkedFrom(R, L, c, P, C)
  BY <1>3, <1>7, LinksRemoved
<1>9. PICK D : D = C \ {c}
  OBVIOUS
<1>10. Whole(R, P, D) /\ D \in SUBSET Pid /\ c \in Pid \ D /\ D \cup {c} = C
  BY <1>7, <1>8, <1>9 DEF UnlinkedFrom
<1>11. LinkedTo(U, R, c, q, P, D)
  BY <1>4, <1>7, <1>10, LinksSet
<1>12. Whole(U, P, C)
  BY <1>10, <1>11 DEF LinkedTo
<1>13. U.p_pptr = [L.p_pptr EXCEPT ![c] = q] /\ L \in LinkRecord
  BY <1>7, <1>8, <1>11 DEF UnlinkedFrom, LinkedTo, Whole
<1>14. \A p \in Pid : U.p_pptr[p] = IF p = c THEN q ELSE L.p_pptr[p]
  BY <1>13 DEF LinkRecord, Pointer
<1>15. ASSUME NEW p \in Pid, pc[p] = "free" PROVE U.p_cptr[p] = None
  <2>1. p # q /\ p # L.p_pptr[c] /\ L.p_cptr[p] = None
    BY <1>1, <1>5, <1>7, <1>15 DEF TreeInv, Siblings, Linked, Whole
  <2> QED BY <1>8, <1>11, <2>1 DEF UnlinkedFrom, LinkedTo
<1> QED BY <1>1, <1>5, <1>6, <1>12, <1>14, <1>15 DEF Relinked

LEMMA RelinkKeeps ==
  ASSUME ProcessTreeAssumption, TreeInv, NEW c \in Linked \ {InitTask}, links.p_pptr[c] \notin Busy,
         NEW q \in Linked, Relink(c, q)
  PROVE  Relinked(c, q)
<1>1. PICK P : P = Linked
  OBVIOUS
<1>2. PICK B : B = Busy
  OBVIOUS
<1>3. PICK L : L = links
  OBVIOUS
<1>4. PICK C : C = P \ {InitTask}
  OBVIOUS
<1>5. /\ P \in SUBSET Pid /\ C \in SUBSET Pid /\ B \in SUBSET P /\ L \in LinkRecord
      /\ Whole(Mend(L, B), P, C) /\ c \in C /\ L.p_pptr[c] \notin B /\ q \in P
  BY <1>1, <1>2, <1>3, <1>4, BusyLinked DEF TreeInv, TreeTyped, Siblings, Linked
<1>6. PICK R : R = REMOVE_LINKS(L, c)
  OBVIOUS
<1>7. R \in LinkRecord /\ Mend(R, B) = REMOVE_LINKS(Mend(L, B), c)
  BY <1>5, <1>6, MendRemove
<1>8. PICK W : W = Mend(L, B)
  OBVIOUS
<1>9. PICK V : V = Mend(R, B)
  OBVIOUS
<1>10. UnlinkedFrom(V, W, c, P, C)
  BY <1>5, <1>7, <1>8, <1>9, LinksRemoved
<1>11. PICK D : D = C \ {c}
  OBVIOUS
<1>12. D \in SUBSET Pid /\ c \in Pid \ D /\ Whole(Mend(R, B), P, D)
  BY <1>5, <1>9, <1>10, <1>11 DEF UnlinkedFrom
<1>13. SET_LINKS(R, c, q) \in LinkRecord /\ Mend(SET_LINKS(R, c, q), B) = SET_LINKS(Mend(R, B), c, q)
  BY <1>5, <1>7, <1>12, MendSet
<1>14. links' = SET_LINKS(R, c, q)
  BY <1>3, <1>6 DEF Relink
<1>15. /\ links' \in LinkRecord
       /\ Mend(links', Busy) = SET_LINKS(REMOVE_LINKS(Mend(links, Busy), c), c, q)
  BY <1>2, <1>3, <1>7, <1>13, <1>14
<1>16. PICK U : U = SET_LINKS(REMOVE_LINKS(Mend(links, Busy), c), c, q)
  OBVIOUS
<1> QED BY <1>15, <1>16, MovedIs

\* A task that has no children yet can get some.
LEMMA OneMoreParent ==
  ASSUME NEW P \in SUBSET Pid, NEW C \in SUBSET P, NEW L, Whole(L, P, C),
         NEW c \in Pid, L.p_cptr[c] = None
  PROVE  Whole(L, P \cup {c}, C)
BY DEF Whole

\* A task without children or a place among them can forget its pointers.
Forgot(M, L, c, P, C) ==
  /\ Whole(M, P \ {c}, C)
  /\ \A x \in Pid : /\ M.p_pptr[x] = IF x = c THEN None ELSE L.p_pptr[x]
                    /\ M.p_cptr[x] = IF x = c THEN None ELSE L.p_cptr[x]

LEMMA OneLess ==
  ASSUME ProcessTreeAssumption, NEW P \in SUBSET Pid, NEW C \in SUBSET P, NEW L, Whole(L, P, C),
         NEW c \in Pid \ C, \A x \in C : L.p_pptr[x] # c,
         NEW M, M = [f \in DOMAIN L |-> [L[f] EXCEPT ![c] = None]]
  PROVE  Forgot(M, L, c, P, C)
<1>1. L \in LinkRecord /\ None \notin Pid
  BY DEF Whole, ProcessTreeAssumption
<1>2. M = [p_pptr |-> [L.p_pptr EXCEPT ![c] = None], p_cptr |-> [L.p_cptr EXCEPT ![c] = None],
           p_ysptr |-> [L.p_ysptr EXCEPT ![c] = None], p_osptr |-> [L.p_osptr EXCEPT ![c] = None]]
  BY <1>1 DEF LinkRecord
<1>3. M \in LinkRecord
  BY <1>1, <1>2 DEF LinkRecord, Pointer
<1>4. \A x \in Pid : /\ M.p_pptr[x] = IF x = c THEN None ELSE L.p_pptr[x]
                     /\ M.p_cptr[x] = IF x = c THEN None ELSE L.p_cptr[x]
                     /\ M.p_ysptr[x] = IF x = c THEN None ELSE L.p_ysptr[x]
                     /\ M.p_osptr[x] = IF x = c THEN None ELSE L.p_osptr[x]
  BY <1>1, <1>2 DEF LinkRecord, Pointer
<1>5. \A x \in C : M.p_pptr[x] \in P \ {c}
  BY <1>4 DEF Whole
<1>6. \A x \in C : M.p_ysptr[x] = None => M.p_cptr[M.p_pptr[x]] = x
  BY <1>4 DEF Whole
<1>7. \A x \in C : M.p_ysptr[x] # None =>
        LET y == M.p_ysptr[x] IN y \in C /\ M.p_pptr[y] = M.p_pptr[x] /\ M.p_osptr[y] = x
  BY <1>4 DEF Whole
<1>8. \A x \in C : M.p_osptr[x] # None =>
        LET o == M.p_osptr[x] IN o \in C /\ M.p_pptr[o] = M.p_pptr[x] /\ M.p_ysptr[o] = x
  BY <1>4 DEF Whole
<1>9. \A p \in P \ {c} : M.p_cptr[p] # None =>
        LET x == M.p_cptr[p] IN x \in C /\ M.p_pptr[x] = p /\ M.p_ysptr[x] = None
  BY <1>4 DEF Whole
<1>10. ASSUME NEW T \in SUBSET C, T # {} PROVE \E x \in T : M.p_ysptr[x] \notin T
  <2>1. PICK x \in T : L.p_ysptr[x] \notin T
    BY <1>10 DEF Whole
  <2> QED BY <1>4, <2>1
<1> QED BY <1>3, <1>4, <1>5, <1>6, <1>7, <1>8, <1>9, <1>10 DEF Whole, Forgot

\* So it can where they are mended.
ForgotIs(M, L, c) ==
  /\ M \in LinkRecord
  /\ \A x \in Pid : /\ M.p_pptr[x] = IF x = c THEN None ELSE L.p_pptr[x]
                    /\ M.p_cptr[x] = IF x = c THEN None ELSE L.p_cptr[x]
                    /\ M.p_ysptr[x] = IF x = c THEN None ELSE L.p_ysptr[x]
                    /\ M.p_osptr[x] = IF x = c THEN None ELSE L.p_osptr[x]

LEMMA Forgetting ==
  ASSUME NEW L \in LinkRecord, NEW c \in Pid,
         NEW M, M = [f \in DOMAIN L |-> [L[f] EXCEPT ![c] = None]]
  PROVE  ForgotIs(M, L, c)
<1>1. M = [p_pptr |-> [L.p_pptr EXCEPT ![c] = None], p_cptr |-> [L.p_cptr EXCEPT ![c] = None],
           p_ysptr |-> [L.p_ysptr EXCEPT ![c] = None], p_osptr |-> [L.p_osptr EXCEPT ![c] = None]]
  BY DEF LinkRecord
<1>2. M \in LinkRecord
  BY <1>1 DEF LinkRecord, Pointer
<1>3. \A x \in Pid : /\ M.p_pptr[x] = IF x = c THEN None ELSE L.p_pptr[x]
                     /\ M.p_cptr[x] = IF x = c THEN None ELSE L.p_cptr[x]
                     /\ M.p_ysptr[x] = IF x = c THEN None ELSE L.p_ysptr[x]
                     /\ M.p_osptr[x] = IF x = c THEN None ELSE L.p_osptr[x]
  BY <1>1 DEF LinkRecord, Pointer
<1> QED BY <1>2, <1>3 DEF ForgotIs

LEMMA MendForgot ==
  ASSUME ProcessTreeAssumption, NEW L \in LinkRecord, NEW B \in SUBSET Pid, NEW c \in Pid \ B,
         NEW M, ForgotIs(M, L, c), NEW K, ForgotIs(K, Mend(L, B), c)
  PROVE  Mend(M, B) = K
<1>1. PICK N : N = Mend(L, B)
  OBVIOUS
<1>2. /\ N \in LinkRecord /\ N.p_pptr = L.p_pptr /\ N.p_cptr = L.p_cptr /\ N.p_osptr = L.p_osptr
      /\ \A x \in Pid : N.p_ysptr[x] = IF FirstOf(L, B, x) THEN None ELSE L.p_ysptr[x]
  BY <1>1, MendIs
<1>3. M \in LinkRecord /\ K \in LinkRecord
  BY DEF ForgotIs
<1>4. \A x \in Pid : /\ M.p_pptr[x] = IF x = c THEN None ELSE L.p_pptr[x]
                     /\ M.p_cptr[x] = IF x = c THEN None ELSE L.p_cptr[x]
                     /\ M.p_ysptr[x] = IF x = c THEN None ELSE L.p_ysptr[x]
                     /\ M.p_osptr[x] = IF x = c THEN None ELSE L.p_osptr[x]
  BY DEF ForgotIs
<1>5. \A x \in Pid : /\ K.p_pptr[x] = IF x = c THEN None ELSE N.p_pptr[x]
                     /\ K.p_cptr[x] = IF x = c THEN None ELSE N.p_cptr[x]
                     /\ K.p_ysptr[x] = IF x = c THEN None ELSE N.p_ysptr[x]
                     /\ K.p_osptr[x] = IF x = c THEN None ELSE N.p_osptr[x]
  BY <1>1 DEF ForgotIs
<1>6. PICK D : D = Mend(M, B)
  OBVIOUS
<1>7. /\ D \in LinkRecord /\ D.p_pptr = M.p_pptr /\ D.p_cptr = M.p_cptr /\ D.p_osptr = M.p_osptr
      /\ \A x \in Pid : D.p_ysptr[x] = IF FirstOf(M, B, x) THEN None ELSE M.p_ysptr[x]
  BY <1>3, <1>6, MendIs
<1>8. \A x : FirstOf(M, B, x) <=> FirstOf(L, B, x)
  BY <1>4 DEF FirstOf
<1>9. \A x \in Pid : D.p_ysptr[x] = K.p_ysptr[x]
  BY <1>2, <1>4, <1>5, <1>7, <1>8
<1>10. D = K
  BY <1>2, <1>3, <1>4, <1>5, <1>7, <1>9, SameLinks
<1> QED BY <1>6, <1>10

\* There is always somebody to take the children over.
LEMMA ReaperLives ==
  ASSUME ProcessTreeAssumption, TreeInv, NEW p \in Linked
  PROVE  Reaper(p) \in Pid /\ pc[Reaper(p)] \in {"run", "reap"}
<1>1. next_thread \in [Pid -> Pid] /\ p \in Pid /\ InitTask \in Pid
  BY DEF TreeInv, TreeTyped, Linked, ProcessTreeAssumption
<1>2. PICK k : k = [n \in Nat |-> Thread(p, n)]
  OBVIOUS
<1>3. /\ \A n \in Nat : Thread(p, n) = k[n] /\ k[n] \in Pid
      /\ k[0] = p /\ \A n \in Nat : k[n + 1] = next_thread[k[n]]
  BY <1>1, <1>2, ThreadIs
<1>4. \A q \in Pid : pc[q] # "free" => pc[next_thread[q]] # "free"
  BY <1>1 DEF TreeInv, Rings
<1>5. \A n \in Nat : pc[k[n]] # "free"
  <2> DEFINE S == {n \in Nat : pc[k[n]] # "free"}
  <2>1. 0 \in S
    BY <1>3 DEF Linked
  <2>2. \A n \in Nat : n \in S => n + 1 \in S
    BY <1>3, <1>4
  <2>3. Nat \subseteq S
    <3> HIDE DEF S
    <3> QED BY <2>1, <2>2, NatSet
  <2> QED BY <2>3
<1> DEFINE alive == {n \in 1 .. Cardinality(Pid) : ~ PF_EXITING(Thread(p, n))}
<1>6. Cardinality(Pid) \in Nat
  BY FS_CardinalityType DEF ProcessTreeAssumption
<1>7. CASE alive = {}
  <2>1. Reaper(p) = InitTask
    BY <1>7 DEF Reaper
  <2> QED BY <1>1, <2>1 DEF TreeInv, TreeTyped
<1>8. CASE alive # {}
  <2>1. alive \subseteq Nat
    BY <1>6
  <2>2. \E n \in alive : \A m \in alive : n <= m
    <3> HIDE DEF alive
    <3> QED BY <1>8, <2>1, LeastIn
  <2>3. PICK n : n = CHOOSE i \in alive : \A m \in alive : i <= m
    OBVIOUS
  <2>4. n \in alive
    <3> HIDE DEF alive
    <3> QED BY <2>2, <2>3
  <2>5. Reaper(p) = Thread(p, n)
    BY <1>8, <2>3 DEF Reaper
  <2>6. n \in Nat /\ ~ PF_EXITING(Thread(p, n))
    BY <2>1, <2>4
  <2>7. pc[k[n]] \in Place
    BY <1>3, <2>6 DEF TreeInv, TreeTyped
  <2> QED BY <1>3, <1>5, <2>5, <2>6, <2>7 DEF PF_EXITING, TASK_ZOMBIE, Place
<1> QED BY <1>7, <1>8

-----------------------------------------------------------------------------
(* One lemma per action.                                                   *)

LEMMA TreeInit ==
  ASSUME ProcessTreeAssumption, Init
  PROVE  TreeInv
<1>1. /\ InitTask \in Pid /\ None \notin Pid /\ Linked = {InitTask}
      /\ \A p \in Pid : pc[p] = IF p = InitTask THEN "run" ELSE "free"
  BY DEF ProcessTreeAssumption, Init, Linked
<1>2. TreeTyped
  BY <1>1 DEF Init, TreeTyped, LinkRecord, Pointer, Place
<1>3. Rings
  BY <1>1 DEF Init, Rings
<1>4. Siblings
  <2>1. Busy = {} /\ links \in LinkRecord
    BY <1>1, <1>2 DEF Busy, TreeTyped
  <2>2. PICK L : L = Mend(links, Busy)
    OBVIOUS
  <2>3. L \in LinkRecord /\ L.p_cptr = links.p_cptr
    BY <2>1, <2>2, MendIs
  <2>4. \A p \in Pid : links.p_cptr[p] = None
    BY DEF Init
  <2>5. Whole(L, Linked, Linked \ {InitTask})
    BY <1>1, <2>3, <2>4 DEF Whole
  <2> QED BY <2>2, <2>4, <2>5 DEF Siblings
<1>5. Parents
  BY <1>1 DEF Parents
<1> QED BY <1>2, <1>3, <1>4, <1>5 DEF TreeInv

\* The child c is put before the other children of its parent.
ForkLinked(M, c, q) ==
  /\ M \in LinkRecord /\ Whole(Mend(M, Busy), Linked \cup {c}, (Linked \cup {c}) \ {InitTask})
  /\ \A p \in Pid : M.p_pptr[p] = IF p = c THEN q ELSE links.p_pptr[p]
  /\ \A p \in Pid \ {c} : pc[p] = "free" => M.p_cptr[p] = None

LEMMA ForkLinks ==
  ASSUME ProcessTreeAssumption, TreeInv, NEW c \in Pid, pc[c] = "free", NEW q \in Linked,
         NEW M, M = SET_LINKS(links, c, q)
  PROVE  ForkLinked(M, c, q)
<1>1. PICK P : P = Linked
  OBVIOUS
<1>2. PICK B : B = Busy
  OBVIOUS
<1>3. PICK C : C = P \ {InitTask}
  OBVIOUS
<1>4. PICK L : L = links
  OBVIOUS
<1>5. PICK W : W = Mend(L, B)
  OBVIOUS
<1>6. L \in LinkRecord /\ W.p_pptr = L.p_pptr /\ W.p_cptr = L.p_cptr
  BY <1>4, <1>5, MendIs DEF TreeInv, TreeTyped
<1>7. /\ Whole(W, P, C) /\ P \in SUBSET Pid /\ C \in SUBSET P /\ B \in SUBSET P /\ q \in P
      /\ c \notin P /\ W.p_cptr[c] = None /\ c # InitTask
  BY <1>1, <1>2, <1>3, <1>4, <1>5, <1>6, BusyLinked DEF TreeInv, Siblings, Linked, TreeTyped
<1>8. PICK Q : Q = P \cup {c}
  OBVIOUS
<1>9. /\ Q \in SUBSET Pid /\ C \in SUBSET Pid /\ B \in SUBSET Q /\ c \in Pid \ C /\ q \in Q
      /\ C \cup {c} = Q \ {InitTask} /\ Whole(W, Q, C)
  <2>1. Whole(W, Q, C)
    BY <1>7, <1>8, OneMoreParent
  <2> QED BY <1>3, <1>7, <1>8, <2>1
<1>10. PICK U : U = SET_LINKS(W, c, q)
  OBVIOUS
<1>11. LinkedTo(U, W, c, q, Q, C)
  BY <1>9, <1>10, LinksSet
<1>12. M \in LinkRecord /\ Mend(M, B) = U
  <2>1. M = SET_LINKS(L, c, q) /\ Whole(Mend(L, B), Q, C)
    BY <1>4, <1>5, <1>9
  <2>2. SET_LINKS(L, c, q) \in LinkRecord /\ Mend(SET_LINKS(L, c, q), B) = SET_LINKS(Mend(L, B), c, q)
    BY <1>6, <1>9, <2>1, MendSet
  <2> QED BY <1>5, <1>10, <2>1, <2>2
<1>13. M.p_pptr = U.p_pptr /\ M.p_cptr = U.p_cptr
  BY <1>12, MendIs
<1>14. Whole(U, Q, Q \ {InitTask}) /\ U.p_pptr = [W.p_pptr EXCEPT ![c] = q]
  BY <1>9, <1>11 DEF LinkedTo
<1>15. \A p \in Pid : M.p_pptr[p] = IF p = c THEN q ELSE links.p_pptr[p]
  BY <1>4, <1>6, <1>13, <1>14 DEF LinkRecord, Pointer
<1>16. \A p \in Pid \ {c} : pc[p] = "free" => M.p_cptr[p] = None
  <2> TAKE p \in Pid \ {c}
  <2> HAVE pc[p] = "free"
  <2>1. p # q /\ W.p_cptr[p] = None
    BY <1>4, <1>6 DEF TreeInv, Siblings, Linked
  <2> QED BY <1>11, <1>13, <2>1 DEF LinkedTo
<1> QED BY <1>1, <1>2, <1>8, <1>12, <1>14, <1>15, <1>16 DEF ForkLinked

LEMMA ForkKeeps ==
  ASSUME ProcessTreeAssumption, TreeInv, NEW p \in Pid, NEW c \in Pid, NEW flags \in Flags,
         do_fork(p, c, flags)
  PROVE  TreeInv'
<1> DEFINE traced == "ptrace" \in flags /\ ptrace[p]
           real == IF "parent" \in flags THEN p_opptr[p] ELSE p
           parent == IF "parent" \in flags \/ traced THEN links.p_pptr[p] ELSE p
<1>1. /\ pc[p] = "run" /\ pc[c] = "free" /\ (flags # {} => p # InitTask)
      /\ p_opptr' = [p_opptr EXCEPT ![c] = real]
      /\ links' = SET_LINKS(links, c, parent)
      /\ ptrace' = [ptrace EXCEPT ![c] = traced]
      /\ next_thread' = IF "thread" \in flags
                        THEN [next_thread EXCEPT ![p] = c, ![c] = next_thread[p]]
                        ELSE next_thread
      /\ pc' = [pc EXCEPT ![c] = "run"]
      /\ found' = found
  BY DEF do_fork
<1>2. /\ InitTask \in Pid /\ c # InitTask /\ p # c
      /\ links \in LinkRecord /\ p_opptr \in Pointer /\ found \in Pointer
      /\ next_thread \in [Pid -> Pid] /\ ptrace \in [Pid -> BOOLEAN]
      /\ pc \in [Pid -> Place]
  BY <1>1 DEF TreeInv, TreeTyped, ProcessTreeAssumption
<1>3. /\ real \in Pid /\ pc[real] \in RealParent
      /\ parent \in Pid /\ pc[parent] \in AnyParent /\ parent \in Linked
  <2>1. CASE flags = {}
    BY <1>1, <2>1 DEF RealParent, AnyParent, Linked
  <2>2. CASE flags # {}
    <3>1. p \in Linked \ {InitTask}
      BY <1>1, <2>2 DEF Linked
    <3>2. /\ p_opptr[p] \in Pid /\ pc[p_opptr[p]] \in RealParent
          /\ pc[links.p_pptr[p]] \in AnyParent /\ links.p_pptr[p] \in Linked
      BY <3>1, Neighbours DEF TreeInv, Parents
    <3> QED BY <1>1, <3>2 DEF RealParent, AnyParent, Linked
  <2> QED BY <2>1, <2>2
<1> HIDE DEF traced, real, parent
<1>4. Linked' = Linked \cup {c} /\ c \notin Linked
  BY <1>1, <1>2 DEF Linked
<1>5. PICK M : M = SET_LINKS(links, c, parent)
  OBVIOUS
<1>6. PICK q : q = parent
  OBVIOUS
<1>7. /\ M \in LinkRecord /\ Whole(Mend(M, Busy), Linked \cup {c}, (Linked \cup {c}) \ {InitTask})
      /\ \A x \in Pid : M.p_pptr[x] = IF x = c THEN q ELSE links.p_pptr[x]
      /\ \A x \in Pid \ {c} : pc[x] = "free" => M.p_cptr[x] = None
  <2>1. q \in Linked /\ M = SET_LINKS(links, c, q) /\ pc[c] = "free"
    BY <1>1, <1>3, <1>5, <1>6, Zenon
  <2>2. ForkLinked(M, c, q)
    BY <2>1, ForkLinks, Zenon
  <2> QED BY <2>2 DEF ForkLinked
<1>8. links' = M
  BY <1>1, <1>5
<1>9. \A x \in Pid : pc'[x] = IF x = c THEN "run" ELSE pc[x]
  BY <1>1, <1>2
<1>10. TreeTyped'
  <2>1. links' \in LinkRecord
    BY <1>7, <1>8
  <2>2. p_opptr' \in Pointer
    BY <1>1, <1>2, <1>3 DEF Pointer
  <2>3. next_thread' \in [Pid -> Pid] /\ ptrace' \in [Pid -> BOOLEAN] /\ ~ ptrace'[InitTask]
    BY <1>1, <1>2 DEF traced, TreeInv, TreeTyped
  <2>4. pc' \in [Pid -> Place]
    BY <1>1, <1>2 DEF Place
  <2>5. links'.p_pptr[InitTask] = None /\ pc'[InitTask] \in {"run", "reap"}
    BY <1>2, <1>7, <1>8, <1>9 DEF TreeInv, TreeTyped
  <2>6. \A x \in Pid : /\ pc'[x] = "reap" => found'[x] \in Pid
                       /\ pc'[x] = "window" => "jobs" \in Calls
    BY <1>1, <1>9 DEF TreeInv, TreeTyped
  <2> QED BY <1>1, <1>2, <2>1, <2>2, <2>3, <2>4, <2>5, <2>6 DEF TreeTyped
<1>11. Rings'
  <2>1. CASE "thread" \in flags
    <3>1. \A x \in Pid : next_thread'[x] = IF x = c THEN next_thread[p] ELSE IF x = p THEN c ELSE next_thread[x]
      BY <1>1, <1>2, <2>1
    <3>2. next_thread[c] = c /\ \A x \in Pid : next_thread[x] \in Pid
      BY <1>1, <1>2 DEF TreeInv, Rings
    <3>3. \A x, y \in Pid : next_thread'[x] = next_thread'[y] => x = y
      BY <1>2, <3>1, <3>2 DEF TreeInv, Rings
    <3>4. ASSUME NEW y \in Pid PROVE \E x \in Pid : next_thread'[x] = y
      <4>1. PICK x \in Pid : next_thread[x] = y
        BY DEF TreeInv, Rings
      <4>2. CASE x = p
        BY <1>2, <3>1, <4>1, <4>2
      <4>3. CASE x = c
        BY <1>2, <3>1, <3>2, <4>1, <4>3
      <4>4. CASE x \notin {p, c}
        BY <3>1, <4>1, <4>4
      <4> QED BY <4>2, <4>3, <4>4
    <3>5. \A x \in Pid : pc'[x] = "free" => next_thread'[x] = x
      BY <1>1, <1>2, <1>9, <3>1 DEF TreeInv, Rings
    <3> QED BY <3>3, <3>4, <3>5 DEF Rings
  <2>2. CASE "thread" \notin flags
    BY <1>1, <1>9, <2>2 DEF TreeInv, Rings
  <2> QED BY <2>1, <2>2
<1>12. Siblings'
  <2>1. Busy' = Busy
    BY <1>1, <1>9 DEF Busy
  <2> QED BY <1>4, <1>7, <1>8, <1>9, <2>1 DEF Siblings
<1>13. Parents'
  <2> SUFFICES ASSUME NEW x \in Linked' \ {InitTask}
               PROVE  /\ p_opptr'[x] \in Pid /\ pc'[p_opptr'[x]] \in RealParent
                      /\ pc'[links'.p_pptr[x]] \in AnyParent
    BY DEF Parents
  <2>1. CASE x = c
    <3>1. p_opptr'[x] = real /\ links'.p_pptr[x] = parent
      BY <1>1, <1>2, <1>6, <1>7, <1>8, <2>1 DEF Pointer
    <3> QED BY <1>3, <1>9, <3>1 DEF RealParent, AnyParent
  <2>2. CASE x # c
    <3>1. x \in Linked \ {InitTask} /\ x \in Pid
      BY <1>4, <2>2 DEF Linked
    <3>2. p_opptr'[x] = p_opptr[x] /\ links'.p_pptr[x] = links.p_pptr[x]
      BY <1>1, <1>2, <1>7, <1>8, <2>2, <3>1 DEF Pointer
    <3>3. /\ p_opptr[x] \in Pid /\ pc[p_opptr[x]] \in RealParent /\ links.p_pptr[x] \in Pid
          /\ pc[links.p_pptr[x]] \in AnyParent
      BY <3>1, Neighbours DEF TreeInv, Parents, Linked
    <3> QED BY <1>1, <1>9, <3>2, <3>3 DEF RealParent, AnyParent
  <2> QED BY <2>1, <2>2
<1> QED BY <1>10, <1>11, <1>12, <1>13 DEF TreeInv

\* A step that only gives c another parent, and perhaps another real one.
LEMMA MoveKeeps ==
  ASSUME ProcessTreeAssumption, TreeInv, NEW c \in Linked \ {InitTask}, NEW q \in Linked,
         pc[q] \in AnyParent, Relinked(c, q),
         pc' \in [Pid -> Place],
         \A p \in Pid : \/ pc'[p] = pc[p] \/ (pc[p] = "reap" /\ pc'[p] = "run")
                        \/ {pc[p], pc'[p]} \subseteq {"handing", "window"},
         \A p \in Pid : pc'[p] = "window" => "jobs" \in Calls,
         found' \in Pointer, \A p \in Pid : pc'[p] = "reap" => found'[p] = found[p],
         next_thread' = next_thread, ptrace' \in [Pid -> BOOLEAN], ~ ptrace'[InitTask],
         NEW r \in Pid, pc[r] \in RealParent, p_opptr' = [p_opptr EXCEPT ![c] = r]
  PROVE  TreeInv'
<1>1. /\ InitTask \in Pid /\ c \in Pid /\ c # InitTask /\ q \in Pid
      /\ p_opptr \in Pointer
  BY DEF Linked, ProcessTreeAssumption, TreeInv, TreeTyped
<1>2. \A p \in Pid : /\ pc'[p] = "free" <=> pc[p] = "free"
                     /\ pc[p] \in RealParent <=> pc'[p] \in RealParent
                     /\ pc[p] \in AnyParent <=> pc'[p] \in AnyParent
                     /\ p \in Busy <=> p \in Busy'
  BY DEF RealParent, AnyParent, Busy
<1>3. Linked' = Linked /\ Busy' = Busy
  BY <1>2 DEF Linked, Busy
<1>4. TreeTyped'
  <2>1. links' \in LinkRecord /\ links'.p_pptr[InitTask] = None
    BY <1>1 DEF Relinked, TreeInv, TreeTyped
  <2>2. p_opptr' \in Pointer
    BY <1>1 DEF Pointer
  <2>3. pc'[InitTask] \in {"run", "reap"}
    BY <1>1 DEF TreeInv, TreeTyped
  <2>4. \A p \in Pid : pc'[p] = "reap" => found'[p] \in Pid
    BY DEF TreeInv, TreeTyped
  <2>5. next_thread' \in [Pid -> Pid]
    BY DEF TreeInv, TreeTyped
  <2> QED BY <2>1, <2>2, <2>3, <2>4, <2>5 DEF TreeTyped
<1>5. Rings'
  BY <1>2 DEF TreeInv, Rings
<1>6. Siblings'
  BY <1>2, <1>3 DEF Relinked, Siblings
<1>7. Parents'
  <2> SUFFICES ASSUME NEW x \in Linked \ {InitTask}
               PROVE  /\ p_opptr'[x] \in Pid /\ pc'[p_opptr'[x]] \in RealParent
                      /\ pc'[links'.p_pptr[x]] \in AnyParent
    BY <1>3 DEF Parents
  <2>1. x \in Pid /\ links'.p_pptr[x] = IF x = c THEN q ELSE links.p_pptr[x]
    BY DEF Relinked, Linked
  <2>2. p_opptr'[x] = IF x = c THEN r ELSE p_opptr[x]
    BY <1>1, <2>1 DEF Pointer
  <2>3. /\ p_opptr[x] \in Pid /\ pc[p_opptr[x]] \in RealParent
        /\ pc[links.p_pptr[x]] \in AnyParent /\ links.p_pptr[x] \in Pid
    BY Neighbours DEF TreeInv, Parents, Linked
  <2> QED BY <1>1, <1>2, <2>1, <2>2, <2>3
<1> QED BY <1>4, <1>5, <1>6, <1>7 DEF TreeInv

\* A step that only takes tasks from one place of the code to the next.
LEMMA WalkKeeps ==
  ASSUME ProcessTreeAssumption, TreeInv, NEW p \in Pid, NEW w,
         \/ w = "exiting" /\ p # InitTask
         \/ w = "run"
         \/ w = "reap" /\ found'[p] \in Pid,
         pc[p] \in RealParent, pc' = [pc EXCEPT ![p] = w],
         found' \in Pointer, \A x \in Pid \ {p} : found'[x] = found[x],
         UNCHANGED <<links, p_opptr, next_thread, ptrace>>
  PROVE  TreeInv'
<1>1. /\ pc \in [Pid -> Place] /\ InitTask \in Pid
      /\ w \in RealParent
  BY DEF TreeInv, TreeTyped, ProcessTreeAssumption, RealParent
<1>2. \A x \in Pid : pc'[x] = IF x = p THEN w ELSE pc[x]
  BY <1>1
<1>3. Linked' = Linked /\ Busy' = Busy
  BY <1>1, <1>2 DEF Linked, Busy, RealParent
<1>4. TreeTyped'
  <2>1. pc' \in [Pid -> Place]
    BY <1>1 DEF RealParent, Place
  <2>2. /\ pc'[InitTask] \in {"run", "reap"}
        /\ \A x \in Pid : pc'[x] = "reap" => found'[x] \in Pid
        /\ \A x \in Pid : pc'[x] = "window" => "jobs" \in Calls
    BY <1>1, <1>2 DEF TreeInv, TreeTyped
  <2> QED BY <2>1, <2>2 DEF TreeInv, TreeTyped
<1>5. Rings'
  BY <1>1, <1>2 DEF TreeInv, Rings, RealParent
<1>6. Siblings'
  BY <1>1, <1>2, <1>3 DEF TreeInv, Siblings, RealParent
<1>7. Parents'
  <2> SUFFICES ASSUME NEW x \in Linked \ {InitTask}
               PROVE  /\ p_opptr[x] \in Pid /\ pc'[p_opptr[x]] \in RealParent
                      /\ pc'[links.p_pptr[x]] \in AnyParent
    BY <1>3 DEF Parents
  <2>1. /\ p_opptr[x] \in Pid /\ pc[p_opptr[x]] \in RealParent
        /\ pc[links.p_pptr[x]] \in AnyParent /\ links.p_pptr[x] \in Pid
    BY Neighbours DEF TreeInv, Parents, Linked
  <2> QED BY <1>1, <1>2, <2>1 DEF AnyParent
<1> QED BY <1>4, <1>5, <1>6, <1>7 DEF TreeInv

LEMMA AttachKeeps ==
  ASSUME ProcessTreeAssumption, TreeInv, NEW t \in Pid, NEW p \in Pid, attach(t, p)
  PROVE  TreeInv' /\ Relinked(p, t)
<1>1. /\ pc[t] = "run" /\ pc[p] = "run" /\ p \notin {t, InitTask}
      /\ ptrace' = [ptrace EXCEPT ![p] = TRUE] /\ Relink(p, t)
      /\ p_opptr' = p_opptr /\ next_thread' = next_thread /\ pc' = pc /\ found' = found
  BY DEF attach
<1>2. p \in Linked \ {InitTask} /\ t \in Linked /\ Busy = {}
  BY <1>1 DEF Linked, Busy, attach, KernelUnlocked
<1>3. Relinked(p, t)
  BY <1>1, <1>2, RelinkKeeps
<1>4. p_opptr[p] \in Pid /\ pc[p_opptr[p]] \in RealParent
  BY <1>2 DEF TreeInv, Parents
<1>5. p_opptr' = [p_opptr EXCEPT ![p] = p_opptr[p]]
  BY <1>1, <1>2 DEF TreeInv, TreeTyped, Pointer, Linked
<1>6. /\ pc' \in [Pid -> Place] /\ found' \in Pointer
      /\ ptrace' \in [Pid -> BOOLEAN] /\ ~ ptrace'[InitTask]
      /\ \A x \in Pid : pc'[x] = "window" => "jobs" \in Calls
  BY <1>1 DEF TreeInv, TreeTyped
<1>7. pc[t] \in AnyParent
  BY <1>1 DEF RealParent, AnyParent
<1>8. PICK r : r = p_opptr[p]
  OBVIOUS
<1>9. TreeInv'
  BY <1>1, <1>2, <1>3, <1>4, <1>5, <1>6, <1>7, <1>8, MoveKeeps
<1> QED BY <1>3, <1>9

LEMMA DetachKeeps ==
  ASSUME ProcessTreeAssumption, TreeInv, NEW p \in Pid, detach(p)
  PROVE  TreeInv' /\ Relinked(p, p_opptr[p])
<1>1. /\ pc[p] = "run" /\ ptrace[p]
      /\ ptrace' = [ptrace EXCEPT ![p] = FALSE] /\ Relink(p, p_opptr[p])
      /\ p_opptr' = p_opptr /\ next_thread' = next_thread /\ pc' = pc /\ found' = found
  BY DEF detach
<1>2. p \in Linked \ {InitTask} /\ Busy = {}
  BY <1>1 DEF Linked, Busy, TreeInv, TreeTyped, detach, KernelUnlocked
<1>3. PICK r : r = p_opptr[p]
  OBVIOUS
<1>4. r \in Pid /\ pc[r] \in RealParent
  BY <1>2, <1>3 DEF TreeInv, Parents
<1>5. r \in Linked /\ pc[r] \in AnyParent
  BY <1>4 DEF Linked, RealParent, AnyParent
<1>6. Relinked(p, r)
  BY <1>1, <1>2, <1>3, <1>5, RelinkKeeps
<1>7. p_opptr' = [p_opptr EXCEPT ![p] = r]
  BY <1>1, <1>2, <1>3 DEF TreeInv, TreeTyped, Pointer, Linked
<1>8. /\ pc' \in [Pid -> Place] /\ found' \in Pointer
      /\ ptrace' \in [Pid -> BOOLEAN] /\ ~ ptrace'[InitTask]
      /\ \A x \in Pid : pc'[x] = "window" => "jobs" \in Calls
  BY <1>1 DEF TreeInv, TreeTyped
<1>9. TreeInv'
  BY <1>1, <1>2, <1>4, <1>5, <1>6, <1>7, <1>8, MoveKeeps
<1> QED BY <1>3, <1>6, <1>9

LEMMA DaemonKeeps ==
  ASSUME ProcessTreeAssumption, WindowKept, TreeInv, NEW p \in Pid, reparent_to_init(p)
  PROVE  TreeInv' /\ Relinked(p, InitTask)
<1>1. /\ pc[p] = "run" /\ p # InitTask
      /\ ptrace' = [ptrace EXCEPT ![p] = FALSE] /\ Relink(p, InitTask)
      /\ p_opptr' = [p_opptr EXCEPT ![p] = InitTask]
      /\ next_thread' = next_thread /\ pc' = pc /\ found' = found
  BY DEF reparent_to_init
<1>2. p \in Linked \ {InitTask} /\ Busy = {}
  BY <1>1 DEF Linked, Busy, TreeInv, TreeTyped, reparent_to_init, Unlocked, WindowKept
<1>3. InitTask \in Linked /\ InitTask \in Pid /\ pc[InitTask] \in RealParent /\ pc[InitTask] \in AnyParent
  BY DEF TreeInv, TreeTyped, Linked, ProcessTreeAssumption, RealParent, AnyParent
<1>4. PICK i : i = InitTask
  OBVIOUS
<1>5. Relinked(p, i)
  BY <1>1, <1>2, <1>3, <1>4, RelinkKeeps
<1>6. /\ pc' \in [Pid -> Place] /\ found' \in Pointer
      /\ ptrace' \in [Pid -> BOOLEAN] /\ ~ ptrace'[InitTask]
      /\ \A x \in Pid : pc'[x] = "window" => "jobs" \in Calls
  BY <1>1 DEF TreeInv, TreeTyped
<1>7. TreeInv'
  BY <1>1, <1>2, <1>3, <1>4, <1>5, <1>6, MoveKeeps
<1> QED BY <1>4, <1>5, <1>7

LEMMA ExitKeeps ==
  ASSUME ProcessTreeAssumption, TreeInv, NEW p \in Pid, do_exit(p)
  PROVE  TreeInv'
<1>1. /\ pc[p] = "run" /\ p # InitTask /\ pc' = [pc EXCEPT ![p] = "exiting"]
      /\ UNCHANGED <<links, p_opptr, next_thread, ptrace>> /\ found' = found
  BY DEF do_exit
<1>2. pc[p] \in RealParent /\ found' \in Pointer
  BY <1>1 DEF RealParent, TreeInv, TreeTyped
<1> QED BY <1>1, <1>2, WalkKeeps

LEMMA FindKeeps ==
  ASSUME ProcessTreeAssumption, TreeInv, NEW p \in Pid, NEW c \in Pid, FindZombie(p, c)
  PROVE  TreeInv'
<1>1. /\ pc[p] = "run" /\ pc' = [pc EXCEPT ![p] = "reap"] /\ found' = [found EXCEPT ![p] = c]
      /\ UNCHANGED <<links, p_opptr, next_thread, ptrace>>
  BY DEF FindZombie
<1>2. pc[p] \in RealParent /\ found \in Pointer
  BY <1>1 DEF RealParent, TreeInv, TreeTyped
<1>3. found' \in Pointer /\ found'[p] \in Pid /\ \A x \in Pid \ {p} : found'[x] = found[x]
  BY <1>1, <1>2 DEF Pointer
<1> QED BY <1>1, <1>2, <1>3, WalkKeeps

LEMMA FaultKeeps ==
  ASSUME ProcessTreeAssumption, TreeInv, NEW p \in Pid, ReapFault(p)
  PROVE  TreeInv'
<1>1. /\ pc[p] = "reap" /\ pc' = [pc EXCEPT ![p] = "run"] /\ found' = [found EXCEPT ![p] = None]
      /\ UNCHANGED <<links, p_opptr, next_thread, ptrace>>
  BY DEF ReapFault
<1>2. pc[p] \in RealParent /\ found \in Pointer
  BY <1>1 DEF RealParent, TreeInv, TreeTyped
<1>3. found' \in Pointer /\ \A x \in Pid \ {p} : found'[x] = found[x]
  BY <1>1, <1>2 DEF Pointer
<1> QED BY <1>1, <1>2, <1>3, WalkKeeps

LEMMA ForgetKeeps ==
  ASSUME ProcessTreeAssumption, TreeInv, NEW p \in Pid, forget_original_parent(p)
  PROVE  TreeInv'
<1>1. /\ pc[p] = "exiting" /\ pc' = [pc EXCEPT ![p] = "forgot"]
      /\ p_opptr' = [q \in Pid |-> IF p_opptr[q] # p \/ q \notin Linked THEN p_opptr[q]
                                   ELSE IF q = Reaper(p) THEN InitTask ELSE Reaper(p)]
      /\ UNCHANGED <<links, next_thread, ptrace, found>>
  BY DEF forget_original_parent
<1>2. /\ pc \in [Pid -> Place]
      /\ InitTask \in Pid /\ p # InitTask /\ p \in Linked /\ pc[InitTask] \in {"run", "reap"}
      /\ p_opptr \in Pointer
  BY <1>1 DEF TreeInv, TreeTyped, ProcessTreeAssumption, Linked
<1>3. PICK r : r = Reaper(p)
  OBVIOUS
<1>4. r \in Pid /\ pc[r] \in {"run", "reap"}
  BY <1>2, <1>3, ReaperLives
<1>5. \A x \in Pid : pc'[x] = IF x = p THEN "forgot" ELSE pc[x]
  BY <1>1, <1>2
<1>6. Linked' = Linked /\ Busy' = Busy
  BY <1>1, <1>5 DEF Linked, Busy
<1>7. \A x \in Pid : p_opptr'[x] \in {p_opptr[x], InitTask, r}
  BY <1>1, <1>3
<1>8. \A x \in Linked : p_opptr[x] = p => p_opptr'[x] \in {InitTask, r}
  BY <1>1, <1>3 DEF Linked
<1>9. TreeTyped'
  <2>1. p_opptr' \in Pointer
    BY <1>1, <1>2, <1>3, <1>4 DEF Pointer
  <2>2. pc' \in [Pid -> Place]
    BY <1>1, <1>2 DEF Place
  <2> QED BY <1>1, <1>2, <1>5, <2>1, <2>2 DEF TreeInv, TreeTyped
<1>10. Rings'
  BY <1>1, <1>5 DEF TreeInv, Rings
<1>11. Siblings'
  BY <1>1, <1>5, <1>6 DEF TreeInv, Siblings
<1>12. Parents'
  <2> SUFFICES ASSUME NEW x \in Linked \ {InitTask}
               PROVE  /\ p_opptr'[x] \in Pid /\ pc'[p_opptr'[x]] \in RealParent
                      /\ pc'[links.p_pptr[x]] \in AnyParent
    BY <1>1, <1>6 DEF Parents
  <2>1. /\ p_opptr[x] \in Pid /\ pc[p_opptr[x]] \in RealParent
        /\ pc[links.p_pptr[x]] \in AnyParent /\ links.p_pptr[x] \in Pid /\ x \in Pid
    BY Neighbours DEF TreeInv, Parents, Linked
  <2>2. p_opptr'[x] \in Pid /\ p_opptr'[x] # p
    BY <1>1, <1>2, <1>4, <1>7, <1>8, <2>1
  <2>3. pc[p_opptr'[x]] \in RealParent
    BY <1>2, <1>4, <1>7, <2>1 DEF RealParent
  <2> QED BY <1>5, <2>1, <2>2, <2>3 DEF AnyParent
<1> QED BY <1>9, <1>10, <1>11, <1>12 DEF TreeInv

\* The parts of a step that reaps c, by p.
ReapStep(p, c) ==
  /\ pc[c] \in TASK_ZOMBIE /\ Inactive(c) /\ pc[p] \in {"run", "reap"}
  /\ links.p_pptr[c] \notin Busy
  /\ Reaped(c)
  /\ pc' = [pc EXCEPT ![p] = "run", ![c] = Gone(c)]
  /\ ptrace' = [ptrace EXCEPT ![c] = ptrace[c] /\ GoesBack(c)]
  /\ found' \in {found, [found EXCEPT ![p] = None]}

\* What a released task leaves.
Released(c) ==
  /\ \A x \in Pid : links'.p_pptr[x] = IF x = c THEN None ELSE links.p_pptr[x]
  /\ p_opptr' = [p_opptr EXCEPT ![c] = None]

LEMMA ReleaseKeeps ==
  ASSUME ProcessTreeAssumption, TreeInv, NEW p \in Pid, NEW c \in Pid, ReapStep(p, c), ~ GoesBack(c)
  PROVE  TreeInv' /\ Released(c)
<1>1. /\ pc[c] = "zombie" /\ pc[p] \in {"run", "reap"}
      /\ links' = [f \in DOMAIN links |-> [REMOVE_LINKS(links, c)[f] EXCEPT ![c] = None]]
      /\ next_thread' = Unring(c) /\ p_opptr' = [p_opptr EXCEPT ![c] = None]
      /\ pc' = [pc EXCEPT ![p] = "run", ![c] = "free"]
      /\ ptrace' = [ptrace EXCEPT ![c] = ptrace[c] /\ GoesBack(c)]
      /\ found' \in {found, [found EXCEPT ![p] = None]}
  BY DEF ReapStep, Reaped, Gone, Inactive
<1>2. /\ InitTask \in Pid /\ None \notin Pid /\ c # InitTask /\ p # c /\ c \in Linked
      /\ links \in LinkRecord /\ p_opptr \in Pointer /\ found \in Pointer
      /\ next_thread \in [Pid -> Pid] /\ ptrace \in [Pid -> BOOLEAN]
      /\ pc \in [Pid -> Place]
  BY <1>1 DEF TreeInv, TreeTyped, ProcessTreeAssumption, Linked
<1>3. PICK L : L = links
  OBVIOUS
<1>4. PICK P : P = Linked
  OBVIOUS
<1>5. PICK C : C = P \ {InitTask}
  OBVIOUS
<1>6. PICK B : B = Busy
  OBVIOUS
<1>7. /\ Whole(Mend(L, B), P, C) /\ P \in SUBSET Pid /\ C \in SUBSET Pid /\ c \in C
      /\ B \in SUBSET P /\ L.p_pptr[c] \notin B /\ c \notin B /\ L \in LinkRecord
  <2>1. c \notin Busy
    BY <1>1 DEF Busy
  <2> QED BY <1>2, <1>3, <1>4, <1>5, <1>6, <2>1, BusyLinked DEF TreeInv, Siblings, Linked, ReapStep
<1>8. PICK W : W = Mend(L, B)
  OBVIOUS
<1>9. PICK V : V = REMOVE_LINKS(W, c)
  OBVIOUS
<1>10. UnlinkedFrom(V, W, c, P, C)
  BY <1>7, <1>8, <1>9, LinksRemoved
<1>11. PICK D : D = C \ {c}
  OBVIOUS
<1>12. PICK R : R = REMOVE_LINKS(L, c)
  OBVIOUS
<1>13. R \in LinkRecord /\ Mend(R, B) = V /\ R.p_pptr = V.p_pptr /\ R.p_cptr = V.p_cptr
  <2>1. R \in LinkRecord /\ Mend(R, B) = V
    BY <1>7, <1>8, <1>9, <1>12, MendRemove
  <2> QED BY <2>1, MendIs
<1>14. PICK M : M = [f \in DOMAIN R |-> [R[f] EXCEPT ![c] = None]]
  OBVIOUS
<1>15. /\ links' = M /\ M \in LinkRecord /\ Whole(Mend(M, B), P \ {c}, D) /\ D = (P \ {c}) \ {InitTask}
       /\ \A x \in Pid : /\ M.p_pptr[x] = IF x = c THEN None ELSE L.p_pptr[x]
                         /\ M.p_cptr[x] = IF x = c THEN None ELSE V.p_cptr[x]
  <2>1. links' = M
    <3>1. DOMAIN R = DOMAIN links
      BY <1>2, <1>13 DEF LinkRecord
    <3> QED BY <1>1, <1>3, <1>12, <1>14, <3>1
  <2>2. ForgotIs(M, R, c)
    BY <1>2, <1>13, <1>14, Forgetting, Zenon
  <2>3. PICK K : K = [f \in DOMAIN V |-> [V[f] EXCEPT ![c] = None]]
    OBVIOUS
  <2>4. /\ Whole(V, P, D) /\ V \in LinkRecord /\ D \in SUBSET P /\ c \in Pid \ D
        /\ D = (P \ {c}) \ {InitTask} /\ V.p_pptr = W.p_pptr
    BY <1>5, <1>7, <1>10, <1>11 DEF UnlinkedFrom, Whole
  <2>5. ForgotIs(K, Mend(R, B), c)
    <3>1. ForgotIs(K, V, c)
      BY <1>2, <2>3, <2>4, Forgetting, Zenon
    <3> QED BY <1>13, <3>1
  <2>6. Mend(M, B) = K
    <3>1. c \in Pid \ B /\ B \in SUBSET Pid
      BY <1>2, <1>7
    <3> QED BY <1>13, <2>2, <2>5, <3>1, MendForgot
  <2>7. W.p_pptr = L.p_pptr
    BY <1>7, <1>8, MendIs
  <2>8. \A x \in D : V.p_pptr[x] # c
    <3> TAKE x \in D
    <3>1. x \in Linked \ {InitTask} /\ V.p_pptr[x] = links.p_pptr[x]
      BY <1>3, <1>4, <2>4, <2>7
    <3> QED BY <1>1, <3>1 DEF TreeInv, Parents, AnyParent, RealParent
  <2>9. Forgot(K, V, c, P, D)
    BY <1>7, <2>3, <2>4, <2>8, OneLess
  <2>10. Whole(K, P \ {c}, D)
    BY <2>9 DEF Forgot
  <2>11. \A x \in Pid : /\ M.p_pptr[x] = IF x = c THEN None ELSE L.p_pptr[x]
                        /\ M.p_cptr[x] = IF x = c THEN None ELSE V.p_cptr[x]
    BY <1>13, <2>2, <2>4, <2>7 DEF ForgotIs
  <2> QED BY <2>1, <2>2, <2>4, <2>6, <2>10, <2>11 DEF ForgotIs
<1>16. \A x \in Pid : pc'[x] = IF x = c THEN "free" ELSE IF x = p THEN "run" ELSE pc[x]
  BY <1>1, <1>2
<1>17. Linked' = Linked \ {c} /\ Busy' = Busy
  BY <1>1, <1>2, <1>16 DEF Linked, Busy
<1>18. TreeTyped'
  <2>1. links' \in LinkRecord /\ links'.p_pptr[InitTask] = None
    BY <1>2, <1>3, <1>15 DEF TreeInv, TreeTyped
  <2>2. p_opptr' \in Pointer /\ found' \in Pointer
    BY <1>1, <1>2 DEF Pointer
  <2>3. next_thread' \in [Pid -> Pid]
    BY <1>1, <1>2 DEF Unring
  <2>4. ptrace' \in [Pid -> BOOLEAN] /\ ~ ptrace'[InitTask]
    <3>1. (ptrace[c] /\ GoesBack(c)) \in BOOLEAN
      BY <1>2 DEF GoesBack
    <3> QED BY <1>1, <1>2, <3>1 DEF TreeInv, TreeTyped
  <2>5. pc' \in [Pid -> Place]
    BY <1>1, <1>2 DEF Place
  <2>6. pc'[InitTask] \in {"run", "reap"}
    BY <1>2, <1>16 DEF TreeInv, TreeTyped
  <2>7. \A x \in Pid : pc'[x] = "reap" => found'[x] \in Pid
    <3> SUFFICES ASSUME NEW x \in Pid, pc'[x] = "reap" PROVE found'[x] \in Pid
      OBVIOUS
    <3>1. x # p /\ x # c /\ pc[x] = "reap"
      BY <1>2, <1>16
    <3>2. found'[x] = found[x]
      BY <1>1, <1>2, <3>1 DEF Pointer
    <3> QED BY <3>1, <3>2 DEF TreeInv, TreeTyped
  <2>8. \A x \in Pid : pc'[x] = "window" => "jobs" \in Calls
    BY <1>16 DEF TreeInv, TreeTyped
  <2> QED BY <2>1, <2>2, <2>3, <2>4, <2>5, <2>6, <2>7, <2>8 DEF TreeTyped
<1>19. Rings'
  <2>1. \A x \in Pid : next_thread'[x] = IF x = c THEN c ELSE IF next_thread[x] = c THEN next_thread[c] ELSE next_thread[x]
    BY <1>1 DEF Unring
  <2>2. \A x \in Pid : next_thread[x] \in Pid
    BY <1>2
  <2>3. \A x, y \in Pid : next_thread'[x] = next_thread'[y] => x = y
    BY <2>1, <2>2 DEF TreeInv, Rings
  <2>4. ASSUME NEW y \in Pid PROVE \E x \in Pid : next_thread'[x] = y
    <3>1. CASE y = c
      BY <2>1, <3>1
    <3>2. CASE y # c
      <4>1. PICK x \in Pid : next_thread[x] = y
        BY DEF TreeInv, Rings
      <4>2. CASE x # c
        BY <2>1, <3>2, <4>1, <4>2
      <4>3. CASE x = c
        <5>1. PICK z \in Pid : next_thread[z] = c
          BY DEF TreeInv, Rings
        <5>2. z # c
          BY <3>2, <4>1, <4>3, <5>1
        <5> QED BY <2>1, <4>1, <4>3, <5>1, <5>2
      <4> QED BY <4>2, <4>3
    <3> QED BY <3>1, <3>2
  <2>5. \A x \in Pid : pc'[x] = "free" => next_thread'[x] = x
    BY <1>1, <1>2, <1>16, <2>1 DEF TreeInv, Rings
  <2> QED BY <2>3, <2>4, <2>5 DEF Rings
<1>20. Siblings'
  <2>1. Whole(Mend(links', Busy'), Linked', Linked' \ {InitTask})
    BY <1>4, <1>6, <1>15, <1>17
  <2>2. ASSUME NEW x \in Pid, pc'[x] = "free" PROVE links'.p_cptr[x] = None
    <3>1. CASE x = c
      BY <1>15, <3>1
    <3>2. CASE x # c
      <4>1. x # links.p_pptr[c] /\ links.p_cptr[x] = None
        BY <1>2, <1>16, <2>2, <3>2, Neighbours DEF TreeInv, Siblings, Linked
      <4>2. W.p_pptr = L.p_pptr /\ W.p_cptr = L.p_cptr
        BY <1>7, <1>8, MendIs
      <4>3. V.p_cptr[x] = W.p_cptr[x]
        BY <1>3, <1>10, <4>1, <4>2 DEF UnlinkedFrom
      <4> QED BY <1>3, <1>15, <3>2, <4>1, <4>2, <4>3
    <3> QED BY <3>1, <3>2
  <2> QED BY <2>1, <2>2 DEF Siblings
<1>21. Parents'
  <2> SUFFICES ASSUME NEW x \in Linked' \ {InitTask}
               PROVE  /\ p_opptr'[x] \in Pid /\ pc'[p_opptr'[x]] \in RealParent
                      /\ pc'[links'.p_pptr[x]] \in AnyParent
    BY DEF Parents
  <2>1. x \in Linked \ {InitTask} /\ x \in Pid /\ x # c
    BY <1>17 DEF Linked
  <2>2. p_opptr'[x] = p_opptr[x] /\ links'.p_pptr[x] = links.p_pptr[x]
    BY <1>1, <1>2, <1>3, <1>15, <2>1 DEF Pointer
  <2>3. /\ p_opptr[x] \in Pid /\ pc[p_opptr[x]] \in RealParent
        /\ pc[links.p_pptr[x]] \in AnyParent /\ links.p_pptr[x] \in Pid
    BY <2>1, Neighbours DEF TreeInv, Parents, Linked
  <2> QED BY <1>1, <1>16, <2>2, <2>3 DEF RealParent, AnyParent
<1>22. Released(c)
  BY <1>1, <1>3, <1>15 DEF Released
<1> QED BY <1>18, <1>19, <1>20, <1>21, <1>22 DEF TreeInv

LEMMA GoBackKeeps ==
  ASSUME ProcessTreeAssumption, TreeInv, NEW p \in Pid, NEW c \in Pid, ReapStep(p, c), GoesBack(c)
  PROVE  TreeInv' /\ Relinked(c, p_opptr[c])
<1>1. /\ pc[c] \in TASK_ZOMBIE /\ pc[p] \in {"run", "reap"} /\ Relink(c, p_opptr[c])
      /\ links.p_pptr[c] \notin Busy
      /\ p_opptr' = p_opptr /\ next_thread' = next_thread
      /\ pc' = [pc EXCEPT ![p] = "run", ![c] = pc[c]]
      /\ ptrace' = [ptrace EXCEPT ![c] = ptrace[c] /\ GoesBack(c)]
      /\ found' \in {found, [found EXCEPT ![p] = None]}
  BY DEF ReapStep, Reaped, Gone
<1>2. /\ InitTask \in Pid /\ None \notin Pid /\ c # InitTask /\ p # c /\ c \in Linked \ {InitTask}
      /\ p_opptr \in Pointer /\ found \in Pointer /\ ptrace \in [Pid -> BOOLEAN]
      /\ pc \in [Pid -> Place]
  BY <1>1 DEF TreeInv, TreeTyped, ProcessTreeAssumption, Linked, TASK_ZOMBIE
<1>3. PICK r : r = p_opptr[c]
  OBVIOUS
<1>4. r \in Pid /\ pc[r] \in RealParent
  BY <1>2, <1>3 DEF TreeInv, Parents
<1>5. r \in Linked /\ pc[r] \in AnyParent
  BY <1>4 DEF Linked, RealParent, AnyParent
<1>6. Relinked(c, r)
  BY <1>1, <1>2, <1>3, <1>5, RelinkKeeps
<1>7. p_opptr' = [p_opptr EXCEPT ![c] = r]
  BY <1>1, <1>2, <1>3 DEF Pointer
<1>8. \A x \in Pid : pc'[x] = IF x = p THEN "run" ELSE pc[x]
  BY <1>1, <1>2
<1>9. /\ pc' \in [Pid -> Place] /\ \A x \in Pid : pc'[x] = "window" => "jobs" \in Calls
      /\ \A x \in Pid : pc'[x] = pc[x] \/ (pc[x] = "reap" /\ pc'[x] = "run")
  BY <1>1, <1>2, <1>8 DEF Place, TreeInv, TreeTyped
<1>10. found' \in Pointer /\ \A x \in Pid : pc'[x] = "reap" => found'[x] = found[x]
  BY <1>1, <1>2, <1>8 DEF Pointer
<1>11. ptrace' \in [Pid -> BOOLEAN] /\ ~ ptrace'[InitTask]
  <2>1. (ptrace[c] /\ GoesBack(c)) \in BOOLEAN
    BY <1>2 DEF GoesBack
  <2> QED BY <1>1, <1>2, <2>1 DEF TreeInv, TreeTyped
<1>12. TreeInv'
  BY <1>1, <1>2, <1>4, <1>5, <1>6, <1>7, <1>9, <1>10, <1>11, MoveKeeps
<1> QED BY <1>3, <1>6, <1>12

-----------------------------------------------------------------------------
(* The loop of exit_notify.                                                *)

\* A task that enters the loop, or leaves it when nobody is left.
LEMMA LeaveKeeps ==
  ASSUME ProcessTreeAssumption, TreeInv, NEW p \in Pid, NEW w,
         \/ pc[p] = "forgot" /\ w = "handing"
         \/ pc[p] \in {"handing", "window"} /\ w = "zombie" /\ links.p_cptr[p] = None,
         pc' = [pc EXCEPT ![p] = w], UNCHANGED <<links, p_opptr, next_thread, ptrace, found>>
  PROVE  TreeInv'
<1>1. /\ pc \in [Pid -> Place] /\ p \in Linked /\ w # "free" /\ p # InitTask /\ w \in Place
      /\ links \in LinkRecord /\ Linked \in SUBSET Pid /\ None \notin Pid
  BY DEF TreeInv, TreeTyped, Linked, Place, ProcessTreeAssumption
<1>2. \A x \in Pid : pc'[x] = IF x = p THEN w ELSE pc[x]
  BY <1>1
<1>3. Linked' = Linked
  BY <1>1, <1>2 DEF Linked
<1>4. PICK C : C = Linked \ {InitTask}
  OBVIOUS
<1>5. PICK L : L = Mend(links, Busy)
  OBVIOUS
<1>6. C \in SUBSET Pid /\ Whole(L, Linked, C) /\ L.p_pptr = links.p_pptr /\ L.p_cptr = links.p_cptr
  BY <1>1, <1>4, <1>5, MendIs DEF TreeInv, Siblings
<1>7. Mend(links, Busy') = L
  <2>1. CASE pc[p] = "forgot" /\ w = "handing"
    <3>1. Busy' = Busy \cup {p}
      BY <1>2, <2>1 DEF Busy
    <3>2. Mend(links, Busy \cup {p}) = Mend(links, Busy)
      BY <1>1, <1>5, <1>6, BusyLinked, MendMore
    <3> QED BY <1>5, <3>1, <3>2
  <2>2. CASE pc[p] \in {"handing", "window"} /\ w = "zombie" /\ links.p_cptr[p] = None
    <3>1. Busy' = Busy \ {p}
      BY <1>2, <2>2 DEF Busy
    <3>2. Mend(links, Busy \ {p}) = Mend(links, Busy)
      BY <1>1, <2>2, MendLess
    <3> QED BY <1>5, <3>1, <3>2
  <2> QED BY <2>1, <2>2
<1>8. TreeTyped'
  <2>1. pc' \in [Pid -> Place]
    BY <1>1
  <2> QED BY <1>1, <1>2, <2>1 DEF TreeInv, TreeTyped
<1>9. Rings'
  BY <1>1, <1>2 DEF TreeInv, Rings
<1>10. Siblings'
  BY <1>1, <1>2, <1>3, <1>4, <1>6, <1>7 DEF TreeInv, Siblings
<1>11. ASSUME links.p_cptr[p] = None PROVE \A x \in C : links.p_pptr[x] # p
  <2>1. PICK T : T = {x \in C : L.p_pptr[x] = p}
    OBVIOUS
  <2>2. ASSUME T # {} PROVE FALSE
    <3>1. PICK x \in T : L.p_ysptr[x] \notin T
      BY <1>6, <2>1, <2>2, Zenon DEF Whole
    <3>2. L.p_ysptr[x] = None
      BY <1>6, <2>1, <3>1 DEF Whole
    <3> QED BY <1>1, <1>6, <1>11, <2>1, <3>1, <3>2 DEF Whole
  <2> QED BY <1>6, <2>1, <2>2
<1>12. Parents'
  <2> SUFFICES ASSUME NEW x \in Linked \ {InitTask}
               PROVE  /\ p_opptr[x] \in Pid /\ pc'[p_opptr[x]] \in RealParent
                      /\ pc'[links.p_pptr[x]] \in AnyParent
    BY <1>3 DEF Parents
  <2>1. /\ p_opptr[x] \in Pid /\ pc[p_opptr[x]] \in RealParent
        /\ pc[links.p_pptr[x]] \in AnyParent /\ links.p_pptr[x] \in Pid
    BY Neighbours DEF TreeInv, Parents, Linked
  <2>2. p_opptr[x] # p
    BY <2>1 DEF RealParent
  <2>3. w = "zombie" => links.p_pptr[x] # p
    BY <1>4, <1>11
  <2> QED BY <1>2, <2>1, <2>2, <2>3 DEF AnyParent
<1> QED BY <1>8, <1>9, <1>10, <1>12 DEF TreeInv

LEMMA NotifyKeeps ==
  ASSUME ProcessTreeAssumption, TreeInv, NEW p \in Pid, exit_notify(p)
  PROVE  TreeInv'
BY LeaveKeeps DEF exit_notify

LEMMA EndKeeps ==
  ASSUME ProcessTreeAssumption, TreeInv, NEW p \in Pid, EndNotify(p)
  PROVE  TreeInv'
BY LeaveKeeps DEF EndNotify

\* Each round moves one child to its real parent.
LEMMA HandKeeps ==
  ASSUME ProcessTreeAssumption, TreeInv, NEW p \in Pid, HandOver(p), NEW c, c = links.p_cptr[p]
  PROVE  TreeInv' /\ Relinked(c, p_opptr[c]) /\ links.p_pptr[c] = p
<1>1. /\ pc[p] \in {"handing", "window"} /\ c # None /\ links' = Handed(p)
      /\ ptrace' = [ptrace EXCEPT ![c] = FALSE]
      /\ UNCHANGED <<p_opptr, next_thread, found>>
  BY DEF HandOver
<1>2. PICK w \in {"handing", "window"} : (w = "window" => "jobs" \in Calls) /\ pc' = [pc EXCEPT ![p] = w]
  BY DEF HandOver
<1>3. /\ p \in Linked /\ p \in Busy /\ links \in LinkRecord /\ p_opptr \in Pointer /\ found \in Pointer
      /\ ptrace \in [Pid -> BOOLEAN] /\ pc \in [Pid -> Place] /\ Linked \in SUBSET Pid
  BY <1>1 DEF TreeInv, TreeTyped, Linked, Busy
<1>4. c \in Linked \ {InitTask} /\ links.p_pptr[c] = p /\ c \in Pid
  BY <1>1, <1>3, Neighbours
<1>5. PICK r : r = p_opptr[c]
  OBVIOUS
<1>6. r \in Pid /\ pc[r] \in RealParent
  BY <1>4, <1>5 DEF TreeInv, Parents
<1>7. r \in Linked /\ r \notin Busy /\ pc[r] \in AnyParent
  BY <1>6 DEF Linked, Busy, RealParent, AnyParent
<1>8. Relinked(c, r)
  <2>1. PICK B : B = Busy
    OBVIOUS
  <2>2. PICK P : P = Linked
    OBVIOUS
  <2>3. PICK C : C = P \ {InitTask}
    OBVIOUS
  <2>4. PICK L : L = links
    OBVIOUS
  <2>5. PICK M : M = links'
    OBVIOUS
  <2>6. IsHanded(M, L, p, c, r)
    BY <1>1, <1>5, <2>4, <2>5 DEF Handed, IsHanded
  <2>7. /\ P \in SUBSET Pid /\ C \in SUBSET Pid /\ B \in SUBSET P /\ L \in LinkRecord
        /\ p \in B /\ r \in P \ B
    BY <1>3, <1>7, <2>1, <2>2, <2>3, <2>4, BusyLinked
  <2>8. Whole(Mend(L, B), P, C) /\ c = L.p_cptr[p] /\ c # None
    BY <1>1, <2>1, <2>2, <2>3, <2>4 DEF TreeInv, Siblings
  <2>9. M \in LinkRecord /\ Relinks(Mend(M, B), Mend(L, B), c, r)
    BY <2>6, <2>7, <2>8, MendHanded
  <2>10. PICK U : U = SET_LINKS(REMOVE_LINKS(Mend(links, Busy), c), c, r)
    OBVIOUS
  <2>11. links' \in LinkRecord /\ Mend(links', Busy) = U
    BY <2>1, <2>4, <2>5, <2>9, <2>10 DEF Relinks
  <2> QED BY <1>4, <1>7, <2>10, <2>11, MovedIs
<1>9. \A x \in Pid : pc'[x] = IF x = p THEN w ELSE pc[x]
  BY <1>2, <1>3
<1>10. /\ pc' \in [Pid -> Place]
       /\ \A x \in Pid : \/ pc'[x] = pc[x] \/ (pc[x] = "reap" /\ pc'[x] = "run")
                         \/ {pc[x], pc'[x]} \subseteq {"handing", "window"}
       /\ \A x \in Pid : pc'[x] = "window" => "jobs" \in Calls
  <2>1. w \in Place
    BY DEF Place
  <2> QED BY <1>1, <1>2, <1>3, <1>9, <2>1 DEF TreeInv, TreeTyped
<1>11. /\ found' \in Pointer /\ \A x \in Pid : pc'[x] = "reap" => found'[x] = found[x]
       /\ ptrace' \in [Pid -> BOOLEAN] /\ ~ ptrace'[InitTask]
  BY <1>1, <1>3, <1>4 DEF TreeInv, TreeTyped
<1>12. p_opptr' = [p_opptr EXCEPT ![c] = r] /\ next_thread' = next_thread
  BY <1>1, <1>3, <1>4, <1>5 DEF Pointer
<1>13. TreeInv'
  BY <1>4, <1>6, <1>7, <1>8, <1>10, <1>11, <1>12, MoveKeeps
<1> QED BY <1>4, <1>5, <1>8, <1>13

-----------------------------------------------------------------------------
(* Without threads.  Nobody's real parents go round in a circle when every *)
(* set of tasks without init has one whose real parent is outside it.      *)

Unthreaded == \A F \in Flags : "thread" \notin F

Single == \A p \in Pid : next_thread[p] = p
Reach ==
  \A T \in SUBSET (Linked \ {InitTask}) : T # {} => \E c \in T : p_opptr[c] \notin T
Kept ==
  \A p \in Pid : pc[p] = "reap" =>
    "status" \in Calls /\ pc[found[p]] \in TASK_ZOMBIE /\ links.p_pptr[found[p]] = p
Lone == Single /\ Reach /\ Kept

LEMMA SingleGroup ==
  ASSUME ProcessTreeAssumption, TreeInv, Single, NEW p \in Pid
  PROVE  \A n \in Nat : Thread(p, n) = p
<1> DEFINE S == {n \in Nat : Thread(p, n) = p}
<1>1. next_thread \in [Pid -> Pid]
  BY DEF TreeInv, TreeTyped
<1>2. Thread(p, 0) = p /\ \A n \in Nat : Thread(p, n + 1) = next_thread[Thread(p, n)]
  BY <1>1, ThreadIs
<1>3. Nat \subseteq S
  <2>1. 0 \in S
    BY <1>2
  <2>2. \A n \in Nat : n \in S => n + 1 \in S
    BY <1>2 DEF Single
  <2> HIDE DEF S
  <2> QED BY <2>1, <2>2, NatSet
<1> QED BY <1>3

\* The reaper of the children of a task without threads is init, and it only waits for its own.
LEMMA SingleReaper ==
  ASSUME ProcessTreeAssumption, TreeInv, Single, NEW p \in Pid
  PROVE  SameGroup(p) = {p} /\ (pc[p] = "exiting" => Reaper(p) = InitTask)
<1>1. Cardinality(Pid) \in Nat
  BY FS_CardinalityType DEF ProcessTreeAssumption
<1>2. \A n \in 0 .. Cardinality(Pid) : Thread(p, n) = p
  BY <1>1, SingleGroup
<1>3. SameGroup(p) = {p}
  BY <1>1, <1>2 DEF SameGroup
<1>4. ASSUME pc[p] = "exiting" PROVE {n \in 1 .. Cardinality(Pid) : ~ PF_EXITING(Thread(p, n))} = {}
  <2>1. \A n \in 1 .. Cardinality(Pid) : n \in 0 .. Cardinality(Pid)
    BY <1>1
  <2> QED BY <1>2, <1>4, <2>1 DEF PF_EXITING
<1> QED BY <1>3, <1>4 DEF Reaper

-----------------------------------------------------------------------------
(* sys_wait4 and ReapFound release a task or send it back, and its parent  *)
(* is not in the loop: either tasklist_lock is held all through the loop,  *)
(* or there are no threads, and the parent is the task that waits.         *)

LEMMA WaitReaps ==
  ASSUME ProcessTreeAssumption, WindowKept, TreeInv, Unthreaded => Single /\ Kept,
         NEW p \in Pid, NEW c \in Pid, sys_wait4(p, c) \/ (ReapFound(p) /\ c = found[p])
  PROVE  ReapStep(p, c)
<1>1. pc \in [Pid -> Place]
  BY DEF TreeInv, TreeTyped
<1>2. Unlocked /\ pc[p] \in {"run", "reap"}
  BY DEF sys_wait4, ReapFound
<1>3. links.p_pptr[c] \notin Busy
  <2>1. CASE "jobs" \notin Calls
    BY <1>2, <2>1 DEF Busy, Unlocked, TreeInv, TreeTyped
  <2>2. CASE "jobs" \in Calls
    <3>1. Single /\ Kept
      BY <2>2 DEF WindowKept, Unthreaded
    <3>2. CASE sys_wait4(p, c)
      <4>1. SameGroup(p) = {p}
        BY <3>1, SingleReaper
      <4>2. links.p_pptr[c] = p
        BY <3>2, <4>1 DEF sys_wait4, Zombies
      <4> QED BY <1>2, <4>2 DEF Busy
    <3>3. CASE ReapFound(p) /\ c = found[p]
      <4>1. links.p_pptr[c] = p
        BY <3>1, <3>3 DEF ReapFound, Kept
      <4> QED BY <1>2, <4>1 DEF Busy
    <3> QED BY <3>2, <3>3
  <2> QED BY <2>1, <2>2
<1>4. CASE sys_wait4(p, c)
  <2>1. /\ pc[p] = "run" /\ pc[c] \in TASK_ZOMBIE /\ Inactive(c) /\ Reaped(c) /\ pc' = [pc EXCEPT ![c] = Gone(c)]
        /\ ptrace' = [ptrace EXCEPT ![c] = ptrace[c] /\ GoesBack(c)] /\ found' = found
    BY <1>4 DEF sys_wait4, Zombies
  <2>2. pc' = [pc EXCEPT ![p] = "run", ![c] = Gone(c)]
    <3>1. [pc EXCEPT ![p] = "run"] = pc
      BY <1>1, <2>1
    <3> QED BY <1>1, <2>1, <3>1
  <2> QED BY <1>3, <2>1, <2>2 DEF ReapStep
<1>5. CASE ReapFound(p) /\ c = found[p]
  BY <1>3, <1>5 DEF ReapFound, ReapStep
<1> QED BY <1>4, <1>5

-----------------------------------------------------------------------------
\* Steps that leave the real parents alone, or give tasks to init.
LEMMA ReachKept ==
  ASSUME Reach, Linked' \subseteq Linked,
         \A x \in Linked' : p_opptr'[x] \in {p_opptr[x], InitTask}
  PROVE  Reach'
<1> SUFFICES ASSUME NEW T \in SUBSET (Linked' \ {InitTask}), T # {}
             PROVE  \E c \in T : p_opptr'[c] \notin T
  BY DEF Reach
<1>1. PICK c \in T : p_opptr[c] \notin T
  BY DEF Reach
<1> QED BY <1>1

LEMMA KeptOn ==
  ASSUME Kept, TreeTyped,
         \A x \in Pid : pc'[x] = "reap" => pc[x] = "reap" /\ found'[x] = found[x],
         \A x \in Pid : pc[x] = "reap" /\ pc'[x] = "reap" =>
           pc'[found[x]] \in TASK_ZOMBIE /\ links'.p_pptr[found[x]] = x
  PROVE  Kept'
BY DEF Kept, TreeTyped

LEMMA ForkLone ==
  ASSUME ProcessTreeAssumption, Unthreaded, TreeInv, Lone, NEW p \in Pid, NEW c \in Pid,
         NEW flags \in Flags, do_fork(p, c, flags)
  PROVE  Lone'
<1> DEFINE real == IF "parent" \in flags THEN p_opptr[p] ELSE p
<1>1. /\ pc[p] = "run" /\ pc[c] = "free" /\ pc' = [pc EXCEPT ![c] = "run"] /\ found' = found
      /\ next_thread' = next_thread /\ (flags # {} => p # InitTask)
      /\ p_opptr' = [p_opptr EXCEPT ![c] = real]
  BY DEF do_fork, Unthreaded
<1>2. pc \in [Pid -> Place] /\ p_opptr \in Pointer
  BY DEF TreeInv, TreeTyped
<1>3. real \in Linked
  BY <1>1 DEF TreeInv, Parents, Linked, RealParent
<1>4. Linked' = Linked \cup {c} /\ c \notin Linked
  BY <1>1, <1>2 DEF Linked
<1>5. \A x \in Linked \ {InitTask} : p_opptr[x] # c
  BY <1>1 DEF TreeInv, Parents, RealParent
<1>6. Reach'
  <2> SUFFICES ASSUME NEW T \in SUBSET (Linked' \ {InitTask}), T # {}
               PROVE  \E d \in T : p_opptr'[d] \notin T
    BY DEF Reach
  <2>1. CASE T = {c}
    <3>1. p_opptr'[c] = real
      BY <1>1, <1>2 DEF Pointer
    <3> QED BY <1>3, <1>4, <2>1, <3>1
  <2>2. CASE T # {c}
    <3>1. T \ {c} \in SUBSET (Linked \ {InitTask}) /\ T \ {c} # {}
      BY <1>4, <2>2
    <3>2. PICK d \in T \ {c} : p_opptr[d] \notin T \ {c}
      BY <3>1 DEF Lone, Reach
    <3>3. p_opptr[d] # c
      BY <1>5, <3>1
    <3>4. p_opptr'[d] = p_opptr[d]
      BY <1>1, <1>2, <3>1 DEF Pointer, Linked
    <3> QED BY <3>2, <3>3, <3>4
  <2> QED BY <2>1, <2>2
<1>7. Kept'
  <2> DEFINE parent == IF "parent" \in flags \/ ("ptrace" \in flags /\ ptrace[p]) THEN links.p_pptr[p] ELSE p
  <2>1. parent \in Linked
    BY <1>1, <1>2, Neighbours DEF Linked
  <2>2. links' = SET_LINKS(links, c, parent)
    BY DEF do_fork
  <2> HIDE DEF parent
  <2>3. ForkLinked(links', c, parent)
    <3>1. PICK q : q = parent
      OBVIOUS
    <3>2. PICK M : M = SET_LINKS(links, c, q)
      OBVIOUS
    <3>3. ForkLinked(M, c, q)
      BY <1>1, <2>1, <3>1, <3>2, ForkLinks
    <3> QED BY <2>2, <3>1, <3>2, <3>3
  <2>4. \A x \in Pid : pc[x] = "reap" => pc'[found[x]] \in TASK_ZOMBIE /\ links'.p_pptr[found[x]] = x
    BY <1>1, <1>2, <2>3 DEF Lone, Kept, TreeInv, TreeTyped, ForkLinked, TASK_ZOMBIE
  <2>5. \A x \in Pid : pc'[x] = "reap" => pc[x] = "reap" /\ found'[x] = found[x]
    BY <1>1, <1>2
  <2> QED BY <2>4, <2>5, KeptOn DEF Lone, TreeInv
<1> QED BY <1>1, <1>6, <1>7 DEF Lone, Single

\* A task that moves to another parent, and is no zombie.
LEMMA MoveLone ==
  ASSUME ProcessTreeAssumption, TreeInv, Lone, NEW c \in Pid, pc[c] = "run", NEW q, Relinked(c, q),
         p_opptr' \in {p_opptr, [p_opptr EXCEPT ![c] = InitTask]}, UNCHANGED <<next_thread, pc, found>>
  PROVE  Lone'
<1>1. p_opptr \in Pointer
  BY DEF TreeInv, TreeTyped
<1>2. Linked' = Linked /\ \A x \in Linked' : p_opptr'[x] \in {p_opptr[x], InitTask}
  BY <1>1 DEF Linked, Pointer
<1>3. Reach'
  BY <1>2, ReachKept DEF Lone
<1>4. Kept'
  <2>1. \A x \in Pid : pc[x] = "reap" => pc'[found[x]] \in TASK_ZOMBIE /\ links'.p_pptr[found[x]] = x
    BY DEF Lone, Kept, TreeInv, TreeTyped, Relinked, TASK_ZOMBIE
  <2>2. \A x \in Pid : pc'[x] = "reap" => pc[x] = "reap" /\ found'[x] = found[x]
    OBVIOUS
  <2> QED BY <2>1, <2>2, KeptOn DEF Lone, TreeInv
<1> QED BY <1>3, <1>4 DEF Lone, Single

\* The steps of an exit: only those that change links may disturb a zombie that is found.
LEMMA ExitLone ==
  ASSUME ProcessTreeAssumption, TreeInv, Lone, NEW p \in Pid,
         \/ do_exit(p) \/ forget_original_parent(p) \/ exit_notify(p) \/ HandOver(p) \/ EndNotify(p)
  PROVE  Lone'
<1>1. /\ pc \in [Pid -> Place] /\ p_opptr \in Pointer
      /\ \A x \in Pid : pc[x] = "reap" => found[x] \in Pid
  BY DEF TreeInv, TreeTyped
<1>2. PICK w : /\ pc' = [pc EXCEPT ![p] = w] /\ w \notin {"run", "reap", "free"}
               /\ (pc[p] \in TASK_ZOMBIE => w \in TASK_ZOMBIE)
  BY DEF do_exit, forget_original_parent, exit_notify, HandOver, EndNotify, TASK_ZOMBIE
<1>3. pc[p] \notin {"reap", "free"} /\ found' = found /\ next_thread' = next_thread
  BY DEF do_exit, forget_original_parent, exit_notify, HandOver, EndNotify
<1>4. \A x \in Linked : p_opptr'[x] \in {p_opptr[x], InitTask}
  <2>1. CASE do_exit(p) \/ exit_notify(p) \/ HandOver(p) \/ EndNotify(p)
    BY <2>1 DEF do_exit, exit_notify, HandOver, EndNotify
  <2>2. CASE forget_original_parent(p)
    <3>1. Reaper(p) = InitTask
      BY <2>2, SingleReaper DEF Lone, forget_original_parent
    <3> QED BY <2>2, <3>1 DEF forget_original_parent, Linked
  <2> QED BY <2>1, <2>2
<1>5. \A x \in Pid : pc'[x] = IF x = p THEN w ELSE pc[x]
  BY <1>1, <1>2
<1>6. Linked' = Linked
  BY <1>2, <1>3, <1>5 DEF Linked
<1>7. Reach'
  BY <1>4, <1>6, ReachKept DEF Lone
<1>8. ASSUME NEW x \in Pid, pc[x] = "reap" PROVE links'.p_pptr[found[x]] = x
  <2>1. links.p_pptr[found[x]] = x /\ found[x] \in Pid
    BY <1>1, <1>8 DEF Lone, Kept
  <2>2. CASE do_exit(p) \/ forget_original_parent(p) \/ exit_notify(p) \/ EndNotify(p)
    BY <2>1, <2>2 DEF do_exit, forget_original_parent, exit_notify, EndNotify
  <2>3. CASE HandOver(p)
    <3>1. PICK c : c = links.p_cptr[p]
      OBVIOUS
    <3>2. Relinked(c, p_opptr[c]) /\ links.p_pptr[c] = p
      BY <2>3, <3>1, HandKeeps
    <3>3. found[x] # c
      BY <1>3, <1>8, <2>1, <3>2
    <3> QED BY <2>1, <3>2, <3>3 DEF Relinked
  <2> QED BY <2>2, <2>3
<1>9. ASSUME NEW x \in Pid, pc[x] = "reap" PROVE pc'[found[x]] \in TASK_ZOMBIE
  <2>1. pc[found[x]] \in TASK_ZOMBIE /\ found[x] \in Pid
    BY <1>1, <1>9 DEF Lone, Kept
  <2> QED BY <1>2, <1>5, <2>1
<1>10. \A x \in Pid : pc'[x] = "reap" => pc[x] = "reap" /\ found'[x] = found[x]
  BY <1>2, <1>3, <1>5
<1>11. Kept'
  BY <1>8, <1>9, <1>10, KeptOn DEF Lone, TreeInv
<1> QED BY <1>3, <1>7, <1>11 DEF Lone, Single

\* A zombie that is released, or goes back to its real parent.
LEMMA ReapLone ==
  ASSUME ProcessTreeAssumption, TreeInv, Lone, NEW p \in Pid, NEW c \in Pid, ReapStep(p, c),
         \A x \in Pid : pc[x] = "reap" /\ x # p => found[x] # c
  PROVE  Lone'
<1>1. /\ pc \in [Pid -> Place]
      /\ p_opptr \in Pointer /\ found \in Pointer
      /\ \A x \in Pid : pc[x] = "reap" => found[x] \in Pid
  BY DEF TreeInv, TreeTyped
<1>2. /\ pc[c] \in TASK_ZOMBIE /\ pc[p] \in {"run", "reap"} /\ pc' = [pc EXCEPT ![p] = "run", ![c] = Gone(c)]
      /\ found' \in {found, [found EXCEPT ![p] = None]} /\ Gone(c) \in {pc[c], "free"}
  BY DEF ReapStep, Gone
<1>3. \A x \in Pid : pc'[x] = IF x = c THEN Gone(c) ELSE IF x = p THEN "run" ELSE pc[x]
  BY <1>1, <1>2
<1>4. \A x \in Pid \ {c} : links'.p_pptr[x] = links.p_pptr[x]
  <2>1. CASE GoesBack(c)
    BY <2>1, GoBackKeeps DEF Relinked
  <2>2. CASE ~ GoesBack(c)
    BY <2>2, ReleaseKeeps DEF Released
  <2> QED BY <2>1, <2>2
<1>5. \A x \in Pid \ {c} : p_opptr'[x] = p_opptr[x]
  BY <1>1 DEF ReapStep, Reaped, Pointer
<1>6. Reach'
  <2>1. Linked' \subseteq Linked
    BY <1>1, <1>2, <1>3 DEF Linked, TASK_ZOMBIE
  <2>2. c \in Linked' => p_opptr'[c] = p_opptr[c]
    BY <1>2, <1>3 DEF Linked, Gone, ReapStep, Reaped
  <2>3. \A x \in Linked' : p_opptr'[x] \in {p_opptr[x], InitTask}
    BY <1>5, <2>2 DEF Linked
  <2> QED BY <2>1, <2>3, ReachKept DEF Lone
<1>7. Single'
  <2>1. CASE GoesBack(c)
    BY <2>1 DEF ReapStep, Reaped, Lone, Single
  <2>2. CASE ~ GoesBack(c)
    BY <2>2 DEF ReapStep, Reaped, Lone, Single, Unring
  <2> QED BY <2>1, <2>2
<1>8. \A x \in Pid : pc'[x] = "reap" => x # p /\ x # c /\ pc[x] = "reap" /\ found'[x] = found[x]
  BY <1>1, <1>2, <1>3 DEF Pointer, TASK_ZOMBIE
<1>9. \A x \in Pid : pc[x] = "reap" /\ pc'[x] = "reap" =>
           pc'[found[x]] \in TASK_ZOMBIE /\ links'.p_pptr[found[x]] = x
  <2> SUFFICES ASSUME NEW x \in Pid, pc[x] = "reap", pc'[x] = "reap"
               PROVE  pc'[found[x]] \in TASK_ZOMBIE /\ links'.p_pptr[found[x]] = x
    OBVIOUS
  <2>1. found[x] \in Pid \ {c} /\ pc[found[x]] \in TASK_ZOMBIE /\ links.p_pptr[found[x]] = x
    BY <1>1, <1>8 DEF Lone, Kept
  <2>2. found[x] # p
    BY <1>2, <2>1 DEF TASK_ZOMBIE
  <2> QED BY <1>3, <1>4, <2>1, <2>2
<1>10. Kept'
  BY <1>8, <1>9, KeptOn DEF Lone, TreeInv
<1> QED BY <1>6, <1>7, <1>10 DEF Lone

LEMMA LoneInit == ASSUME ProcessTreeAssumption, Init PROVE Lone
<1>1. Linked \ {InitTask} = {}
  BY DEF Init, Linked
<1>2. \A p \in Pid : pc[p] # "reap"
  BY DEF Init
<1> QED BY <1>1, <1>2 DEF Init, Lone, Single, Reach, Kept

LEMMA LoneNext ==
  ASSUME ProcessTreeAssumption, WindowKept, Unthreaded, TreeInv, Lone, [Next]_vars
  PROVE  Lone'
<1>1. CASE UNCHANGED vars
  BY <1>1 DEF vars, Lone, Single, Reach, Kept, Linked
<1>2. ASSUME NEW p \in Pid, NEW c \in Pid, NEW flags \in Flags, do_fork(p, c, flags) PROVE Lone'
  BY <1>2, ForkLone
<1>3. ASSUME NEW t \in Pid, NEW p \in Pid, attach(t, p) PROVE Lone'
  <2>1. Relinked(p, t)
    BY <1>3, AttachKeeps
  <2>2. pc[p] = "run" /\ p_opptr' = p_opptr /\ UNCHANGED <<next_thread, pc, found>>
    BY <1>3 DEF attach
  <2> QED BY <2>1, <2>2, MoveLone
<1>4. ASSUME NEW p \in Pid, NEW c \in Pid, sys_wait4(p, c) PROVE Lone'
  <2>1. ReapStep(p, c)
    BY <1>4, WaitReaps DEF Lone
  <2>2. \A x \in Pid : pc[x] # "reap"
    BY <1>4 DEF sys_wait4, Lone, Kept
  <2> QED BY <2>1, <2>2, ReapLone
<1>5. ASSUME NEW p \in Pid, NEW c \in Pid, FindZombie(p, c) PROVE Lone'
  <2>1. /\ pc[p] = "run" /\ c \in Zombies(p) /\ "status" \in Calls
        /\ pc' = [pc EXCEPT ![p] = "reap"] /\ found' = [found EXCEPT ![p] = c]
        /\ UNCHANGED <<links, p_opptr, next_thread, ptrace>>
    BY <1>5 DEF FindZombie
  <2>2. pc[c] \in TASK_ZOMBIE /\ links.p_pptr[c] = p
    BY <2>1, SingleReaper DEF Zombies, Lone
  <2>3. Linked' = Linked
    BY <2>1 DEF Linked, TreeInv, TreeTyped
  <2>4. Reach'
    BY <2>1, <2>3, ReachKept DEF Lone
  <2>5. Kept'
    BY <2>1, <2>2 DEF Lone, Kept, TreeInv, TreeTyped, Pointer, TASK_ZOMBIE
  <2> QED BY <2>1, <2>4, <2>5 DEF Lone, Single
<1>6. ASSUME NEW p \in Pid, detach(p) PROVE Lone'
  <2>1. PICK q : q = p_opptr[p]
    OBVIOUS
  <2>2. Relinked(p, q)
    BY <1>6, <2>1, DetachKeeps
  <2>3. pc[p] = "run" /\ p_opptr' = p_opptr /\ UNCHANGED <<next_thread, pc, found>>
    BY <1>6 DEF detach
  <2> QED BY <2>2, <2>3, MoveLone
<1>7. ASSUME NEW p \in Pid, reparent_to_init(p) PROVE Lone'
  <2>1. Relinked(p, InitTask)
    BY <1>7, DaemonKeeps
  <2>2. /\ pc[p] = "run" /\ p_opptr' = [p_opptr EXCEPT ![p] = InitTask]
        /\ UNCHANGED <<next_thread, pc, found>>
    BY <1>7 DEF reparent_to_init
  <2> QED BY <2>1, <2>2, MoveLone
<1>8. ASSUME NEW p \in Pid,
             \/ do_exit(p) \/ forget_original_parent(p) \/ exit_notify(p) \/ HandOver(p) \/ EndNotify(p)
      PROVE  Lone'
  BY <1>8, ExitLone
<1>9. ASSUME NEW p \in Pid, ReapFound(p) PROVE Lone'
  <2>1. PICK c : c = found[p]
    OBVIOUS
  <2>2. c \in Pid
    BY <1>9, <2>1 DEF ReapFound, TreeInv, TreeTyped
  <2>3. ReapStep(p, c)
    BY <1>9, <2>1, <2>2, WaitReaps DEF Lone
  <2>4. \A x \in Pid : pc[x] = "reap" /\ x # p => found[x] # c
    BY <1>9, <2>1 DEF ReapFound, Lone, Kept
  <2> QED BY <2>2, <2>3, <2>4, ReapLone
<1>10. ASSUME NEW p \in Pid, ReapFault(p) PROVE Lone'
  <2>1. Linked' = Linked /\ Reach'
    <3>1. Linked' = Linked
      BY <1>10 DEF ReapFault, Linked, TreeInv, TreeTyped
    <3> QED BY <1>10, <3>1, ReachKept DEF Lone, ReapFault
  <2>2. Kept'
    BY <1>10 DEF ReapFault, Lone, Kept, TreeInv, TreeTyped, Pointer, TASK_ZOMBIE
  <2> QED BY <1>10, <2>1, <2>2 DEF Lone, Single, ReapFault
<1> QED BY <1>1, <1>2, <1>3, <1>4, <1>5, <1>6, <1>7, <1>8, <1>9, <1>10 DEF Next

LEMMA TreeNext ==
  ASSUME ProcessTreeAssumption, WindowKept, TreeInv, Unthreaded => Lone, [Next]_vars
  PROVE  TreeInv'
<1>1. CASE UNCHANGED vars
  BY <1>1 DEF vars, TreeInv, TreeTyped, Rings, Siblings, Parents, Linked, Busy
<1>2. ASSUME NEW p \in Pid, NEW c \in Pid, NEW flags \in Flags, do_fork(p, c, flags) PROVE TreeInv'
  BY <1>2, ForkKeeps
<1>3. ASSUME NEW p \in Pid, NEW c \in Pid, attach(p, c) PROVE TreeInv'
  BY <1>3, AttachKeeps
<1>4. ASSUME NEW p \in Pid, NEW c \in Pid, sys_wait4(p, c) PROVE TreeInv'
  <2>1. ReapStep(p, c)
    BY <1>4, WaitReaps DEF Lone
  <2> QED BY <2>1, ReleaseKeeps, GoBackKeeps
<1>5. ASSUME NEW p \in Pid, NEW c \in Pid, FindZombie(p, c) PROVE TreeInv'
  BY <1>5, FindKeeps
<1>6. ASSUME NEW p \in Pid, detach(p) PROVE TreeInv'
  BY <1>6, DetachKeeps
<1>7. ASSUME NEW p \in Pid, reparent_to_init(p) PROVE TreeInv'
  BY <1>7, DaemonKeeps
<1>8. ASSUME NEW p \in Pid, do_exit(p) PROVE TreeInv'
  BY <1>8, ExitKeeps
<1>9. ASSUME NEW p \in Pid, forget_original_parent(p) PROVE TreeInv'
  BY <1>9, ForgetKeeps
<1>10. ASSUME NEW p \in Pid, exit_notify(p) PROVE TreeInv'
  BY <1>10, NotifyKeeps
<1>11. ASSUME NEW p \in Pid, HandOver(p) PROVE TreeInv'
  BY <1>11, HandKeeps
<1>12. ASSUME NEW p \in Pid, EndNotify(p) PROVE TreeInv'
  BY <1>12, EndKeeps
<1>13. ASSUME NEW p \in Pid, ReapFound(p) PROVE TreeInv'
  <2>1. PICK c : c = found[p]
    OBVIOUS
  <2>2. c \in Pid
    BY <1>13, <2>1 DEF ReapFound, TreeInv, TreeTyped
  <2>3. ReapStep(p, c)
    BY <1>13, <2>1, <2>2, WaitReaps DEF Lone
  <2> QED BY <2>2, <2>3, ReleaseKeeps, GoBackKeeps
<1>14. ASSUME NEW p \in Pid, ReapFault(p) PROVE TreeInv'
  BY <1>14, FaultKeeps
<1> QED BY <1>1, <1>2, <1>3, <1>4, <1>5, <1>6, <1>7, <1>8, <1>9, <1>10, <1>11, <1>12, <1>13, <1>14
    DEF Next

-----------------------------------------------------------------------------
(* The two go together: that nobody takes a child off the list of a task   *)
(* in the window is known, without threads, from Lone.                     *)

LEMMA TreeInvariant ==
  ASSUME ProcessTreeAssumption, WindowKept
  PROVE  Spec => [](TreeInv /\ (Unthreaded => Lone))
<1>1. Init => TreeInv /\ Lone
  BY TreeInit, LoneInit
<1>2. TreeInv /\ (Unthreaded => Lone) /\ [Next]_vars => TreeInv' /\ (Unthreaded => Lone)'
  <2> SUFFICES ASSUME TreeInv, Unthreaded => Lone, [Next]_vars
               PROVE  TreeInv' /\ (Unthreaded => Lone')
    BY DEF Unthreaded
  <2> QED BY TreeNext, LoneNext
<1> QED BY <1>1, <1>2, PTL DEF Spec

LEMMA LoneInvariant ==
  ASSUME ProcessTreeAssumption, WindowKept, Unthreaded
  PROVE  Spec => [](TreeInv /\ Lone)
<1>1. TreeInv /\ (Unthreaded => Lone) => TreeInv /\ Lone
  OBVIOUS
<1> QED BY <1>1, TreeInvariant, PTL

\* Every task has its pointers, whatever forks, exits, attaches and waits in which order;
\* next_thread stays a permutation of the tasks (do_fork puts a thread in behind its
\* creator, unhash_process takes it out), and a task_struct that is freed is in no ring.
THEOREM TreeTypeOK == ASSUME ProcessTreeAssumption, WindowKept PROVE Spec => []TypeOK
<1>1. TreeInv => TypeOK
  <2> SUFFICES ASSUME TreeInv PROVE TypeOK
    OBVIOUS
  <2>1. ASSUME NEW f \in DOMAIN links PROVE links[f] \in [Pid -> Pid \cup {None}]
    BY <2>1 DEF TreeInv, TreeTyped, LinkRecord, Pointer
  <2>2. {next_thread[p] : p \in Pid} = Pid
    BY DEF TreeInv, TreeTyped, Rings
  <2>3. \A p \in Pid \ Linked : next_thread[p] = p
    BY DEF TreeInv, Rings, Linked
  <2> QED BY <2>1, <2>2, <2>3 DEF TreeInv, TreeTyped, Pointer, Place, TypeOK
<1> QED BY <1>1, TreeInvariant, PTL

\* Whatever forks, exits, attaches, detaches and waits in which order, and between any two
\* rounds of the loop of exit_notify, with tasklist_lock or without: the list from p_cptr
\* along p_osptr ends and meets exactly the tasks whose p_pptr leads back, and p_ysptr is
\* the way back from each but the first (SET_LINKS, REMOVE_LINKS and that loop, which
\* takes each child off without telling the next).  WindowKept leaves out those who would
\* use the stale pointer while the lock is free.
THEOREM TreeSiblingsLinked ==
  ASSUME ProcessTreeAssumption, WindowKept
  PROVE  Spec => []SiblingsLinked
<1>1. TreeInv => SiblingsLinked
  BY WholeIsLinked DEF TreeInv, TreeTyped, Siblings
<1> QED BY <1>1, TreeInvariant, PTL

\* The real parent of every task is neither free nor on its way to be a zombie after
\* forget_original_parent, and its p_pptr is no task that has left exit_notify: an exiting
\* task gives all its children away before it does, round by round, and none comes back to
\* it in between (a debugger that detaches or exits gives the child to its p_opptr).
THEOREM TreeParentsLive ==
  ASSUME ProcessTreeAssumption, WindowKept
  PROVE  Spec => []ParentsLive
<1>1. TreeInv => ParentsLive
  BY DEF TreeInv, Parents, ParentsLive, RealParent, AnyParent
<1> QED BY <1>1, TreeInvariant, PTL

\* A zombie that sys_wait4 has found, and whose status it writes without a lock, is still
\* there when it releases it: only its p_pptr looks at it, and that is the task that found
\* it until somebody moves it, which needs it to be running or its parent to exit.  Two
\* threads of a group may find the same one, so this is stated without them.
THEOREM TreeReleasedOnce ==
  ASSUME ProcessTreeAssumption, WindowKept, Unthreaded
  PROVE  Spec => []ReleasedOnce
<1>1. Lone => ReleasedOnce
  BY DEF Lone, Kept, ReleasedOnce
<1> QED BY <1>1, LoneInvariant, PTL

\* The function of NoCycle is the iterate of p_opptr, which stays at init.
Up(p) ==
  CHOOSE f : f = [i \in Nat |-> IF i = 0 \/ f[i - 1] = InitTask
                                THEN IF i = 0 THEN p ELSE InitTask ELSE p_opptr[f[i - 1]]]
Above(x) == IF x = InitTask THEN InitTask ELSE p_opptr[x]

LEMMA UpIs ==
  ASSUME ProcessTreeAssumption, TreeInv, NEW p \in Linked
  PROVE  Up(p)[0] = p /\ \A n \in Nat : Up(p)[n] \in Linked /\ Up(p)[n + 1] = Above(Up(p)[n])
<1> DEFINE step == [x \in Linked |-> Above(x)]
           Is(f) == f = [i \in Nat |-> IF i = 0 \/ f[i - 1] = InitTask
                                THEN IF i = 0 THEN p ELSE InitTask ELSE p_opptr[f[i - 1]]]
<1>1. step \in [Linked -> Linked]
  BY DEF TreeInv, TreeTyped, Parents, Linked, RealParent, Above, ProcessTreeAssumption
<1>2. PICK g \in [Nat -> Linked] : g[0] = p /\ \A n \in Nat : g[n + 1] = step[g[n]]
  <2>1. PICK X : X = Linked
    OBVIOUS
  <2>2. PICK h : h = step
    OBVIOUS
  <2>3. p \in X /\ h \in [X -> X]
    BY <1>1, <2>1, <2>2
  <2>4. \E g : Iteration(g, X, p, h)
    BY <2>3, Iterates
  <2> QED BY <2>1, <2>2, <2>4 DEF Iteration
<1>3. \A n \in Nat : g[n + 1] = Above(g[n])
  BY <1>2
<1>4. Is(g)
  <2>1. \A i \in Nat : g[i] = IF i = 0 \/ g[i - 1] = InitTask
                              THEN IF i = 0 THEN p ELSE InitTask ELSE p_opptr[g[i - 1]]
    <3> TAKE i \in Nat
    <3>1. CASE i = 0
      BY <1>2, <3>1
    <3>2. CASE i # 0
      <4>1. i - 1 \in Nat /\ (i - 1) + 1 = i
        BY <3>2
      <4> QED BY <1>3, <3>2, <4>1 DEF Above
    <3> QED BY <3>1, <3>2
  <2> QED BY <1>2, <2>1
<1>5. Is(Up(p))
  <2> HIDE DEF Is
  <2>1. \E f : Is(f)
    BY <1>4
  <2>2. Up(p) = CHOOSE f : Is(f)
    BY DEF Up, Is
  <2> QED BY <2>1, <2>2
<1>6. PICK k : k = Up(p)
  OBVIOUS
<1>7. Is(k)
  <2> HIDE DEF Is
  <2> QED BY <1>5, <1>6
<1>8. k[0] = p
  BY <1>7
<1>9. ASSUME NEW n \in Nat PROVE k[n + 1] = Above(k[n])
  <2>1. n + 1 \in Nat /\ n + 1 # 0 /\ (n + 1) - 1 = n
    OBVIOUS
  <2>2. k[n + 1] = IF n + 1 = 0 \/ k[(n + 1) - 1] = InitTask
                   THEN IF n + 1 = 0 THEN p ELSE InitTask ELSE p_opptr[k[(n + 1) - 1]]
    BY <1>7, <2>1
  <2> QED BY <2>1, <2>2 DEF Above
<1>10. Nat \subseteq {n \in Nat : k[n] \in Linked}
  <2> DEFINE S == {n \in Nat : k[n] \in Linked}
  <2>1. 0 \in S
    BY <1>8
  <2>2. \A n \in Nat : n \in S => n + 1 \in S
    BY <1>1, <1>9
  <2> HIDE DEF S
  <2>3. Nat \subseteq S
    BY <2>1, <2>2, NatSet
  <2> QED BY <2>3 DEF S
<1> QED BY <1>6, <1>8, <1>9, <1>10

\* Who is k steps below init, at most.
Near(k) == {p \in Linked : Up(p)[k] = InitTask}

LEMMA OneStepUp ==
  ASSUME ProcessTreeAssumption, TreeInv, NEW p \in Linked, NEW q \in Linked, q = Above(p), NEW k \in Nat
  PROVE  Up(p)[k + 1] = Up(q)[k]
<1> DEFINE S == {n \in Nat : Up(p)[n + 1] = Up(q)[n]}
<1>1. /\ Up(p)[0] = p /\ \A n \in Nat : Up(p)[n] \in Linked /\ Up(p)[n + 1] = Above(Up(p)[n])
      /\ Up(q)[0] = q /\ \A n \in Nat : Up(q)[n] \in Linked /\ Up(q)[n + 1] = Above(Up(q)[n])
  BY UpIs
<1>2. 0 \in S
  BY <1>1
<1>3. ASSUME NEW n \in Nat, n \in S PROVE n + 1 \in S
  <2>1. Up(p)[(n + 1) + 1] = Above(Up(p)[n + 1]) /\ Up(q)[n + 1] = Above(Up(q)[n])
    BY <1>1
  <2> QED BY <1>3, <2>1
<1>4. Nat \subseteq S
  <2> HIDE DEF S
  <2> QED BY <1>2, <1>3, NatSet
<1> QED BY <1>4

LEMMA NearGrows ==
  ASSUME ProcessTreeAssumption, TreeInv, Reach, NEW k \in Nat
  PROVE  /\ InitTask \in Near(k) /\ Near(k) \subseteq Near(k + 1)
         /\ Near(k) # Linked => Near(k + 1) # Near(k)
<1>1. InitTask \in Linked
  BY DEF TreeInv, TreeTyped, Linked, ProcessTreeAssumption
<1>2. Near(k) \subseteq Near(k + 1)
  <2> SUFFICES ASSUME NEW p \in Near(k) PROVE p \in Near(k + 1)
    OBVIOUS
  <2>1. p \in Linked /\ Up(p)[k] = InitTask
    BY DEF Near
  <2>2. Up(p)[k + 1] = Above(Up(p)[k])
    BY <2>1, UpIs
  <2> QED BY <2>1, <2>2 DEF Near, Above
<1>3. InitTask \in Near(k)
  <2> DEFINE S == {n \in Nat : Up(InitTask)[n] = InitTask}
  <2>1. Up(InitTask)[0] = InitTask /\ \A n \in Nat : Up(InitTask)[n + 1] = Above(Up(InitTask)[n])
    BY <1>1, UpIs
  <2>2. 0 \in S /\ \A n \in Nat : n \in S => n + 1 \in S
    BY <2>1 DEF Above
  <2>3. Nat \subseteq S
    <3> HIDE DEF S
    <3> QED BY <2>2, NatSet
  <2> QED BY <1>1, <2>3 DEF Near
<1>4. ASSUME Near(k) # Linked PROVE Near(k + 1) # Near(k)
  <2>1. PICK T \in SUBSET (Linked \ {InitTask}) : T = Linked \ Near(k)
    BY <1>3
  <2>2. T # {}
    BY <1>4, <2>1 DEF Near
  <2>3. PICK c \in T : p_opptr[c] \notin T
    BY <2>2 DEF Reach
  <2>4. PICK q : q = Above(c)
    OBVIOUS
  <2>5. c \in Linked /\ c # InitTask /\ c \notin Near(k) /\ q = p_opptr[c]
    BY <2>1, <2>4 DEF Above
  <2>6. q \in Linked
    BY <2>5 DEF TreeInv, Parents, Linked, RealParent
  <2>7. Up(q)[k] = InitTask
    BY <2>1, <2>3, <2>5, <2>6 DEF Near
  <2>8. Up(c)[k + 1] = Up(q)[k]
    BY <2>4, <2>5, <2>6, OneStepUp
  <2> QED BY <2>5, <2>7, <2>8 DEF Near
<1> QED BY <1>2, <1>3, <1>4

LEMMA AllNear ==
  ASSUME ProcessTreeAssumption, TreeInv, Reach
  PROVE  Near(Cardinality(Pid)) = Linked
<1> DEFINE S == {k \in Nat : Near(k) = Linked \/ k < Cardinality(Near(k))}
<1>1. \A k \in Nat : Near(k) \subseteq Pid /\ IsFiniteSet(Near(k)) /\ Cardinality(Near(k)) \in Nat
  <2> SUFFICES ASSUME NEW k \in Nat
               PROVE  Near(k) \subseteq Pid /\ IsFiniteSet(Near(k)) /\ Cardinality(Near(k)) \in Nat
    OBVIOUS
  <2>1. Near(k) \subseteq Pid
    BY DEF Near, Linked
  <2> QED BY <2>1, FS_Subset, FS_CardinalityType DEF ProcessTreeAssumption
<1>2. 0 \in S
  <2>1. InitTask \in Near(0)
    BY NearGrows
  <2>2. Cardinality(Near(0)) # 0
    BY <1>1, <2>1, FS_EmptySet
  <2> QED BY <1>1, <2>2
<1>3. ASSUME NEW k \in Nat, k \in S PROVE k + 1 \in S
  <2>1. Near(k) \subseteq Near(k + 1) /\ (Near(k) # Linked => Near(k + 1) # Near(k))
    BY NearGrows
  <2>2. Near(k + 1) \subseteq Linked
    BY DEF Near
  <2>3. CASE Near(k) = Linked
    BY <2>1, <2>2, <2>3
  <2>4. CASE Near(k) # Linked
    <3>1. PICK c \in Near(k + 1) : c \notin Near(k)
      BY <2>1, <2>4
    <3>2. k + 1 \in Nat
      OBVIOUS
    <3>3. /\ Cardinality(Near(k) \cup {c}) = Cardinality(Near(k)) + 1
      BY <1>1, <3>1, FS_AddElement
    <3>4. Cardinality(Near(k) \cup {c}) <= Cardinality(Near(k + 1))
      BY <1>1, <2>1, <3>1, <3>2, FS_Subset
    <3> QED BY <1>1, <1>3, <2>4, <3>2, <3>3, <3>4
  <2> QED BY <2>3, <2>4
<1>4. Nat \subseteq S
  <2> HIDE DEF S
  <2> QED BY <1>2, <1>3, NatSet
<1>5. Cardinality(Pid) \in Nat
  BY FS_CardinalityType DEF ProcessTreeAssumption
<1>6. Cardinality(Near(Cardinality(Pid))) <= Cardinality(Pid)
  BY <1>1, <1>5, FS_Subset DEF ProcessTreeAssumption
<1> QED BY <1>1, <1>4, <1>5, <1>6

\* Without threads no task is ever its own ancestor, whoever traces whom: do_fork puts a
\* task below one that is in the tree, debuggers change only p_pptr, and the children of an
\* exiting task go to init (forget_original_parent).  Every set of tasks without init has
\* one whose real parent is outside it.
THEOREM TreeNoCycle ==
  ASSUME ProcessTreeAssumption, WindowKept, Unthreaded
  PROVE  Spec => []NoCycle
<1>1. ASSUME ProcessTreeAssumption, TreeInv, Reach PROVE NoCycle
  <2>1. \A p \in Linked : Up(p)[Cardinality(Pid)] = InitTask
    BY <1>1, AllNear DEF Near
  <2> QED BY <2>1 DEF NoCycle, Up
<1> QED BY <1>1, LoneInvariant, PTL DEF Lone

-----------------------------------------------------------------------------
(* Orphaned process groups.                                                *)

CONSTANTS Shell, Stops
VARIABLES state, p_pptr, pgrp, session, sent
Groups == INSTANCE OrphanGroups

GroupState ==
  [state : [Pid -> {"run", "stopped", "zombie", "free"}], p_pptr : [Pid -> Pid],
   pgrp : [Pid -> Pid], session : [Pid -> Pid], sent : SUBSET Pid]

\* q connects its group to the rest of the session.
Connects(s, q) ==
  /\ q \in Groups!Linked(s) /\ s.state[q] # "zombie" /\ s.p_pptr[q] # InitTask
  /\ s.pgrp[s.p_pptr[q]] # s.pgrp[q] /\ s.session[s.p_pptr[q]] = s.session[q]

\* Every stopped job is in a group that something connects.
Continued(s) ==
  \A x \in Pid : s.state[x] = "stopped" => \E q \in Pid : s.pgrp[q] = s.pgrp[x] /\ Connects(s, q)

LEMMA OrphanedIs ==
  ASSUME NEW s \in GroupState, NEW g, NEW I
  PROVE  Groups!will_become_orphaned_pgrp(s, g, I) <=>
           \A q \in Pid \ I : s.pgrp[q] = g => ~ Connects(s, q)
BY DEF Groups!will_become_orphaned_pgrp, Groups!Linked, Connects

LEMMA OrphanIs ==
  ASSUME NEW s \in GroupState, NEW g
  PROVE  Groups!is_orphaned_pgrp(s, g) <=> \A q \in Pid : s.pgrp[q] = g => ~ Connects(s, q)
BY OrphanedIs DEF Groups!is_orphaned_pgrp

LEMMA StoppedIs ==
  ASSUME NEW s \in GroupState, NEW g
  PROVE  Groups!has_stopped_jobs(s, g) <=> \E q \in Pid : s.pgrp[q] = g /\ s.state[q] = "stopped"
BY DEF Groups!has_stopped_jobs, Groups!Linked

\* g was sent the two signals.
Hung(s, g, r) ==
  /\ r \in GroupState /\ r.p_pptr = s.p_pptr /\ r.pgrp = s.pgrp /\ r.session = s.session
  /\ r.sent = s.sent \cup {g}
  /\ \A x \in Pid : r.state[x] = IF s.pgrp[x] = g /\ s.state[x] = "stopped" THEN "run" ELSE s.state[x]

LEMMA HangUpIs ==
  ASSUME NEW s \in GroupState, NEW g \in Pid, NEW r, r = Groups!HangUp(s, g)
  PROVE  Hung(s, g, r)
<1> DEFINE st == [p \in Pid |-> IF s.pgrp[p] = g /\ s.state[p] = "stopped" THEN "run" ELSE s.state[p]]
           u == [s EXCEPT !.state = st]
<1>1. st \in [Pid -> {"run", "stopped", "zombie", "free"}]
  BY DEF GroupState
<1>2. u \in GroupState /\ u.state = st /\ u.sent = s.sent /\ u.p_pptr = s.p_pptr
      /\ u.pgrp = s.pgrp /\ u.session = s.session
  <2> HIDE DEF st
  <2> QED BY <1>1 DEF GroupState
<1>3. r = [u EXCEPT !.sent = s.sent \cup {g}]
  BY DEF Groups!HangUp
<1>4. /\ r \in GroupState /\ r.p_pptr = s.p_pptr /\ r.pgrp = s.pgrp /\ r.session = s.session
      /\ r.sent = s.sent \cup {g} /\ r.state = st
  <2> HIDE DEF st, u
  <2> QED BY <1>2, <1>3 DEF GroupState
<1> QED BY <1>4 DEF Hung

\* How far exit_notify of p has come from the state s: the children in T are init's.
Notified(s, p, T, r) ==
  /\ r \in GroupState /\ r.pgrp = s.pgrp /\ r.session = s.session
  /\ \A x \in Pid : r.p_pptr[x] = IF x \in T THEN InitTask ELSE s.p_pptr[x]
  /\ \A x \in Pid : x # p => r.state[x] = s.state[x] \/ (s.state[x] = "stopped" /\ r.state[x] = "run")
  /\ r.state[p] = "zombie"
  /\ Continued(r)
  /\ \A g \in r.sent :
       /\ Groups!has_stopped_jobs(s, g)
       /\ ~ Groups!is_orphaned_pgrp(s, g) /\ Groups!is_orphaned_pgrp(r, g)

\* Nobody but p has lost a connection, and p is none.
LEMMA StillConnects ==
  ASSUME NEW s \in GroupState, NEW p \in Pid, NEW T, NEW r, Notified(s, p, T, r),
         NEW q \in Pid, Connects(r, q)
  PROVE  q # p /\ q \notin T /\ Connects(s, q)
<1>1. q # p /\ q \notin T
  BY DEF Connects, Notified
<1>2. r.state[q] = s.state[q] \/ (s.state[q] = "stopped" /\ r.state[q] = "run")
  BY <1>1 DEF Notified
<1>3. Connects(s, q)
  BY <1>1, <1>2 DEF Connects, Notified, Groups!Linked
<1> QED BY <1>1, <1>3

\* What is stopped in r was stopped in s.
LEMMA WasStopped ==
  ASSUME NEW s \in GroupState, NEW p \in Pid, NEW T, NEW r, Notified(s, p, T, r),
         NEW x \in Pid, r.state[x] = "stopped"
  PROVE  x # p /\ s.state[x] = "stopped"
BY DEF Notified

\* The first test, and p dead.
LEMMA OwnGroupTold ==
  ASSUME NEW s \in GroupState, s.sent = {}, Continued(s), NEW p \in Pid, s.state[p] = "run",
         NEW r, r = [Groups!OwnGroup(s, p) EXCEPT !.state[p] = "zombie"]
  PROVE  Notified(s, p, {}, r)
<1>1. PICK g : g = s.pgrp[p]
  OBVIOUS
<1>2. g \in Pid
  BY <1>1 DEF GroupState
<1>3. PICK o : o = Groups!OwnGroup(s, p)
  OBVIOUS
<1>4. PICK h : h = Groups!HangUp(s, g)
  OBVIOUS
<1> DEFINE last == /\ s.pgrp[s.p_pptr[p]] # g /\ s.session[s.p_pptr[p]] = s.session[p]
                   /\ Groups!will_become_orphaned_pgrp(s, g, {p}) /\ Groups!has_stopped_jobs(s, g)
<1>5. o = IF last THEN h ELSE s
  BY <1>1, <1>3, <1>4 DEF Groups!OwnGroup
<1>6. Hung(s, g, h)
  BY <1>2, <1>4, HangUpIs
<1>7. /\ o \in GroupState /\ o.p_pptr = s.p_pptr /\ o.pgrp = s.pgrp /\ o.session = s.session
      /\ o.sent = IF last THEN {g} ELSE {}
      /\ \A x \in Pid : o.state[x] = IF last /\ s.pgrp[x] = g /\ s.state[x] = "stopped" THEN "run" ELSE s.state[x]
  <2>1. CASE last
    <3>1. o = h
      BY <1>5, <2>1
    <3> HIDE DEF last
    <3> QED BY <1>6, <2>1, <3>1 DEF Hung
  <2>2. CASE ~ last
    <3>1. o = s
      BY <1>5, <2>2
    <3> HIDE DEF last
    <3> QED BY <2>2, <3>1
  <2> HIDE DEF last
  <2> QED BY <2>1, <2>2
<1>8. /\ r \in GroupState /\ r.p_pptr = s.p_pptr /\ r.pgrp = s.pgrp /\ r.session = s.session
      /\ r.sent = o.sent /\ \A x \in Pid : r.state[x] = IF x = p THEN "zombie" ELSE o.state[x]
  BY <1>3, <1>7 DEF GroupState
<1>9. \A q \in Pid : q # p /\ Connects(s, q) => Connects(r, q)
  <2> SUFFICES ASSUME NEW q \in Pid, q # p, Connects(s, q) PROVE Connects(r, q)
    OBVIOUS
  <2>1. r.state[q] = s.state[q] \/ (s.state[q] = "stopped" /\ r.state[q] = "run")
    BY <1>7, <1>8
  <2> QED BY <1>8, <2>1 DEF Connects, Groups!Linked
<1>10. \A q \in Pid : Connects(r, q) => q # p /\ Connects(s, q)
  <2> SUFFICES ASSUME NEW q \in Pid, Connects(r, q) PROVE q # p /\ Connects(s, q)
    OBVIOUS
  <2>1. q # p
    BY <1>8 DEF Connects
  <2>2. r.state[q] = s.state[q] \/ (s.state[q] = "stopped" /\ r.state[q] = "run")
    BY <1>7, <1>8, <2>1
  <2> QED BY <1>8, <2>1, <2>2 DEF Connects, Groups!Linked
<1>11. last => \A q \in Pid : s.pgrp[q] = g /\ Connects(s, q) => q = p
  BY OrphanedIs
<1>12. Continued(r)
  <2> SUFFICES ASSUME NEW x \in Pid, r.state[x] = "stopped"
               PROVE  \E q \in Pid : r.pgrp[q] = r.pgrp[x] /\ Connects(r, q)
    BY DEF Continued
  <2>1. x # p /\ s.state[x] = "stopped" /\ (last => s.pgrp[x] # g)
    BY <1>7, <1>8
  <2>2. PICK q \in Pid : s.pgrp[q] = s.pgrp[x] /\ Connects(s, q)
    BY <2>1 DEF Continued
  <2>3. CASE q # p
    BY <1>8, <1>9, <2>2, <2>3
  <2>4. CASE q = p
    <3>1. s.pgrp[x] = g /\ ~ last
      BY <1>1, <2>1, <2>2, <2>4
    <3>2. s.pgrp[s.p_pptr[p]] # g /\ s.session[s.p_pptr[p]] = s.session[p]
      BY <1>1, <2>2, <2>4 DEF Connects
    <3>3. Groups!has_stopped_jobs(s, g)
      BY <2>1, <3>1, StoppedIs
    <3>4. ~ Groups!will_become_orphaned_pgrp(s, g, {p})
      BY <3>1, <3>2, <3>3
    <3>5. PICK y \in Pid \ {p} : s.pgrp[y] = g /\ Connects(s, y)
      BY <3>4, OrphanedIs
    <3> QED BY <1>8, <1>9, <3>1, <3>5
  <2> QED BY <2>3, <2>4
<1>13. ASSUME last PROVE /\ Groups!has_stopped_jobs(s, g)
                         /\ ~ Groups!is_orphaned_pgrp(s, g) /\ Groups!is_orphaned_pgrp(r, g)
  <2>1. Groups!has_stopped_jobs(s, g)
    BY <1>13
  <2>2. PICK x \in Pid : s.pgrp[x] = g /\ s.state[x] = "stopped"
    BY <2>1, StoppedIs
  <2>3. ~ Groups!is_orphaned_pgrp(s, g)
    BY <2>2, OrphanIs DEF Continued
  <2>4. \A q \in Pid : r.pgrp[q] = g => ~ Connects(r, q)
    BY <1>8, <1>10, <1>11, <1>13
  <2> QED BY <1>8, <2>1, <2>3, <2>4, OrphanIs
<1>14. \A x \in Pid : x # p => r.state[x] = s.state[x] \/ (s.state[x] = "stopped" /\ r.state[x] = "run")
  BY <1>7, <1>8
<1>15. \A x \in r.sent : last /\ x = g
  BY <1>7, <1>8
<1>16. \A x \in r.sent :
         /\ Groups!has_stopped_jobs(s, x)
         /\ ~ Groups!is_orphaned_pgrp(s, x) /\ Groups!is_orphaned_pgrp(r, x)
  <2> HIDE DEF last
  <2> QED BY <1>13, <1>15, Zenon
<1>17. r.state[p] = "zombie" /\ \A x \in Pid : r.p_pptr[x] = IF x \in {} THEN InitTask ELSE s.p_pptr[x]
  BY <1>8
<1> HIDE DEF last
<1> QED BY <1>8, <1>12, <1>14, <1>16, <1>17 DEF Notified

\* The second test, for one child.
LEMMA ChildGroupTold ==
  ASSUME NEW s \in GroupState, NEW p \in Pid, InitTask \in Pid, NEW T, NEW k, Notified(s, p, T, k),
         NEW c \in Pid \ T, s.p_pptr[c] = p, NEW r, r = Groups!ChildGroup(k, p, c)
  PROVE  Notified(s, p, T \cup {c}, r)
<1>0. k \in GroupState /\ k.pgrp = s.pgrp /\ k.session = s.session
  BY DEF Notified
<1>1. PICK g : g = k.pgrp[c]
  OBVIOUS
<1>2. g \in Pid
  BY <1>0, <1>1 DEF GroupState
<1>3. PICK m : m = [k EXCEPT !.p_pptr[c] = InitTask]
  OBVIOUS
<1>4. /\ m \in GroupState /\ m.pgrp = k.pgrp /\ m.session = k.session /\ m.sent = k.sent /\ m.state = k.state
      /\ \A x \in Pid : m.p_pptr[x] = IF x = c THEN InitTask ELSE k.p_pptr[x]
  BY <1>0, <1>3 DEF GroupState
<1>5. PICK h : h = Groups!HangUp(m, g)
  OBVIOUS
<1>6. Hung(m, g, h)
  BY <1>2, <1>4, <1>5, HangUpIs
<1> DEFINE last == /\ g # k.pgrp[p] /\ k.session[c] = k.session[p]
                   /\ Groups!is_orphaned_pgrp(m, g) /\ Groups!has_stopped_jobs(m, g)
<1>7. r = IF last THEN h ELSE m
  BY <1>1, <1>3, <1>5 DEF Groups!ChildGroup
<1>8. /\ r \in GroupState /\ r.p_pptr = m.p_pptr /\ r.pgrp = k.pgrp /\ r.session = k.session
      /\ r.sent = IF last THEN k.sent \cup {g} ELSE k.sent
      /\ \A x \in Pid : r.state[x] = IF last /\ k.pgrp[x] = g /\ k.state[x] = "stopped" THEN "run" ELSE k.state[x]
  <2>1. CASE last
    <3>1. r = h
      BY <1>7, <2>1
    <3> HIDE DEF last
    <3> QED BY <1>4, <1>6, <2>1, <3>1 DEF Hung
  <2>2. CASE ~ last
    <3>1. r = m
      BY <1>7, <2>2
    <3> HIDE DEF last
    <3> QED BY <1>4, <2>2, <3>1
  <2> HIDE DEF last
  <2> QED BY <2>1, <2>2
<1>9. \A q \in Pid : Connects(m, q) <=> q # c /\ Connects(k, q)
  BY <1>4 DEF Connects, Groups!Linked
<1>10. \A q \in Pid : Connects(r, q) <=> Connects(m, q)
  <2> TAKE q \in Pid
  <2>1. r.state[q] = m.state[q] \/ (m.state[q] = "stopped" /\ r.state[q] = "run")
    BY <1>4, <1>8
  <2> QED BY <1>4, <1>8, <2>1 DEF Connects, Groups!Linked
<1>11. Continued(r)
  <2> SUFFICES ASSUME NEW x \in Pid, r.state[x] = "stopped"
               PROVE  \E q \in Pid : r.pgrp[q] = r.pgrp[x] /\ Connects(r, q)
    BY DEF Continued
  <2>1. k.state[x] = "stopped" /\ (last => k.pgrp[x] # g)
    BY <1>8
  <2>2. PICK q \in Pid : k.pgrp[q] = k.pgrp[x] /\ Connects(k, q)
    BY <2>1 DEF Continued, Notified
  <2>3. CASE q # c
    BY <1>8, <1>9, <1>10, <2>2, <2>3
  <2>4. CASE q = c
    <3>1. k.pgrp[x] = g /\ ~ last
      BY <1>1, <2>1, <2>2, <2>4
    <3>2. k.p_pptr[c] = p
      BY DEF Notified
    <3>3. g # k.pgrp[p] /\ k.session[c] = k.session[p]
      BY <1>1, <2>2, <2>4, <3>2 DEF Connects
    <3>4. Groups!has_stopped_jobs(m, g)
      BY <1>4, <2>1, <3>1, StoppedIs
    <3>5. ~ Groups!is_orphaned_pgrp(m, g)
      BY <3>1, <3>3, <3>4
    <3>6. PICK y \in Pid : m.pgrp[y] = g /\ Connects(m, y)
      BY <1>4, <3>5, OrphanIs
    <3> QED BY <1>4, <1>8, <1>10, <3>1, <3>6
  <2> QED BY <2>3, <2>4
<1>12. ASSUME last PROVE /\ Groups!has_stopped_jobs(s, g)
                         /\ ~ Groups!is_orphaned_pgrp(s, g) /\ Groups!is_orphaned_pgrp(r, g)
  <2>1. Groups!has_stopped_jobs(m, g) /\ Groups!is_orphaned_pgrp(m, g)
    BY <1>12
  <2>2. PICK x \in Pid : m.pgrp[x] = g /\ m.state[x] = "stopped"
    BY <1>4, <2>1, StoppedIs
  <2>3. s.pgrp[x] = g /\ s.state[x] = "stopped"
    BY <1>0, <1>4, <2>2, WasStopped
  <2>4. PICK y \in Pid : k.pgrp[y] = k.pgrp[x] /\ Connects(k, y)
    BY <1>4, <2>2 DEF Notified, Continued
  <2>5. Connects(s, y) /\ s.pgrp[y] = g
    BY <1>0, <1>4, <2>2, <2>4, StillConnects
  <2>6. Groups!has_stopped_jobs(s, g)
    BY <2>3, StoppedIs
  <2>7. ~ Groups!is_orphaned_pgrp(s, g)
    BY <2>5, OrphanIs
  <2>8. \A q \in Pid : m.pgrp[q] = g => ~ Connects(m, q)
    BY <1>4, <2>1, OrphanIs
  <2>9. Groups!is_orphaned_pgrp(r, g)
    BY <1>4, <1>8, <1>10, <2>8, OrphanIs
  <2> QED BY <2>6, <2>7, <2>9
<1>13. ASSUME NEW x \in k.sent
       PROVE  /\ Groups!has_stopped_jobs(s, x)
              /\ ~ Groups!is_orphaned_pgrp(s, x) /\ Groups!is_orphaned_pgrp(r, x)
  <2>1. /\ Groups!has_stopped_jobs(s, x)
        /\ ~ Groups!is_orphaned_pgrp(s, x) /\ Groups!is_orphaned_pgrp(k, x)
    BY <1>13 DEF Notified
  <2>2. \A q \in Pid : k.pgrp[q] = x => ~ Connects(k, q)
    BY <1>0, <2>1, OrphanIs
  <2>3. \A q \in Pid : r.pgrp[q] = x => ~ Connects(r, q)
    BY <1>8, <1>9, <1>10, <2>2
  <2> QED BY <1>8, <2>1, <2>3, OrphanIs
<1>14. \A x \in r.sent : x \in k.sent \/ (last /\ x = g)
  BY <1>8
<1>15. \A x \in r.sent :
         /\ Groups!has_stopped_jobs(s, x)
         /\ ~ Groups!is_orphaned_pgrp(s, x) /\ Groups!is_orphaned_pgrp(r, x)
  <2> HIDE DEF last
  <2> QED BY <1>12, <1>13, <1>14, Zenon
<1>16. \A x \in Pid : x # p => r.state[x] = s.state[x] \/ (s.state[x] = "stopped" /\ r.state[x] = "run")
  <2> TAKE x \in Pid
  <2>1. x # p => k.state[x] = s.state[x] \/ (s.state[x] = "stopped" /\ k.state[x] = "run")
    BY DEF Notified
  <2>2. r.state[x] = k.state[x] \/ (k.state[x] = "stopped" /\ r.state[x] = "run")
    BY <1>8
  <2> QED BY <2>1, <2>2
<1>17. r.state[p] = "zombie" /\ \A x \in Pid : r.p_pptr[x] = IF x \in T \cup {c} THEN InitTask ELSE s.p_pptr[x]
  BY <1>4, <1>8 DEF Notified
<1> HIDE DEF last
<1> QED BY <1>0, <1>8, <1>11, <1>15, <1>16, <1>17 DEF Notified

\* The recursive function of exit_notify, for the sets of children.
Kids(s, p) == {c \in Groups!Linked(s) : s.p_pptr[c] = p}
Some(T) == CHOOSE c \in T : TRUE
Onward(s, p, f, T) ==
  IF T = {} THEN [Groups!OwnGroup(s, p) EXCEPT !.state[p] = "zombie"]
  ELSE Groups!ChildGroup(f[T \ {Some(T)}], p, Some(T))
Walk(s, p) ==
  CHOOSE f : f = [T \in SUBSET Kids(s, p) |->
                   IF T = {} THEN [Groups!OwnGroup(s, p) EXCEPT !.state[p] = "zombie"]
                   ELSE Groups!ChildGroup(f[T \ {CHOOSE c \in T : TRUE}], p, CHOOSE c \in T : TRUE)]

LEMMA OneFewer ==
  ASSUME NEW K, IsFiniteSet(K), NEW T \in SUBSET K
  PROVE  /\ Cardinality(T) \in Nat /\ (Cardinality(T) = 0 <=> T = {})
         /\ T # {} => /\ Some(T) \in T /\ T \ {Some(T)} \in SUBSET K
                      /\ Cardinality(T \ {Some(T)}) = Cardinality(T) - 1
<1>1. IsFiniteSet(T)
  BY FS_Subset
<1>2. T # {} => Some(T) \in T
  BY DEF Some
<1> QED BY <1>1, <1>2, FS_CardinalityType, FS_EmptySet, FS_RemoveElement

LEMMA WalkIs ==
  ASSUME IsFiniteSet(Pid), NEW s, NEW p \in Pid
  PROVE  \A T \in SUBSET Kids(s, p) : Walk(s, p)[T] = Onward(s, p, Walk(s, p), T)
<1>1. PICK K : K = Kids(s, p)
  OBVIOUS
<1>2. IsFiniteSet(K)
  BY <1>1, FS_Subset DEF Kids, Groups!Linked
<1> DEFINE Upto(f, n) == \A T \in SUBSET K : Cardinality(T) <= n => f[T] = Onward(s, p, f, T)
           N == {n \in Nat : \E f : Upto(f, n)}
<1>3. 0 \in N
  <2>1. PICK f : f = [T \in SUBSET K |-> Onward(s, p, {}, {})]
    OBVIOUS
  <2>2. ASSUME NEW T \in SUBSET K, Cardinality(T) <= 0 PROVE f[T] = Onward(s, p, f, T)
    <3>0. Cardinality(T) \in Nat /\ (Cardinality(T) = 0 <=> T = {})
      BY <1>2, OneFewer
    <3>1. T = {}
      BY <2>2, <3>0
    <3> QED BY <2>1, <3>1 DEF Onward
  <2> QED BY <2>2
<1>4. ASSUME NEW n \in Nat, n \in N PROVE n + 1 \in N
  <2>1. PICK f : Upto(f, n)
    BY <1>4
  <2>2. PICK g : g = [T \in SUBSET K |-> Onward(s, p, f, T)]
    OBVIOUS
  <2>3. ASSUME NEW T \in SUBSET K, Cardinality(T) <= n + 1 PROVE g[T] = Onward(s, p, g, T)
    <3>1. CASE T = {}
      BY <2>2, <3>1 DEF Onward
    <3>2. CASE T # {}
      <4>1. PICK U : U = T \ {Some(T)}
        OBVIOUS
      <4>2. U \in SUBSET K /\ Cardinality(U) <= n
        BY <1>2, <2>3, <3>2, <4>1, OneFewer
      <4>3. g[U] = f[U]
        BY <2>1, <2>2, <4>2
      <4> QED BY <2>2, <3>2, <4>1, <4>3 DEF Onward
    <3> QED BY <3>1, <3>2
  <2>4. Upto(g, n + 1)
    BY <2>3
  <2> QED BY <2>4
<1>5. PICK f : \A T \in SUBSET K : f[T] = Onward(s, p, f, T)
  <2>1. Nat \subseteq N
    <3> HIDE DEF N
    <3> QED BY <1>3, <1>4, NatSet
  <2>2. Cardinality(K) \in Nat
    BY <1>2, FS_CardinalityType
  <2>3. PICK g : Upto(g, Cardinality(K))
    BY <2>1, <2>2
  <2>4. \A T \in SUBSET K : Cardinality(T) <= Cardinality(K)
    BY <1>2, FS_Subset
  <2> QED BY <2>3, <2>4
<1> DEFINE Is(e) == e = [T \in SUBSET K |->
                          IF T = {} THEN [Groups!OwnGroup(s, p) EXCEPT !.state[p] = "zombie"]
                          ELSE Groups!ChildGroup(e[T \ {CHOOSE c \in T : TRUE}], p, CHOOSE c \in T : TRUE)]
<1>6. \E h : Is(h)
  <2>1. PICK h : h = [T \in SUBSET K |-> Onward(s, p, f, T)]
    OBVIOUS
  <2>2. ASSUME NEW T \in SUBSET K PROVE h[T] = Onward(s, p, h, T)
    <3>1. CASE T = {}
      BY <2>1, <3>1 DEF Onward
    <3>2. CASE T # {}
      <4>1. PICK U : U = T \ {Some(T)}
        OBVIOUS
      <4>2. U \in SUBSET K
        BY <4>1
      <4>3. h[U] = f[U]
        BY <1>5, <2>1, <4>2
      <4> QED BY <2>1, <3>2, <4>1, <4>3 DEF Onward
    <3> QED BY <3>1, <3>2
  <2>3. h = [T \in SUBSET K |-> Onward(s, p, h, T)]
    BY <2>1, <2>2
  <2> QED BY <2>3 DEF Onward, Some
<1>7. Is(Walk(s, p))
  <2>1. Walk(s, p) = CHOOSE h : Is(h)
    BY <1>1 DEF Walk
  <2> HIDE DEF Is
  <2> QED BY <1>6, <2>1
<1>8. PICK w : w = Walk(s, p)
  OBVIOUS
<1>9. w = [T \in SUBSET K |-> Onward(s, p, w, T)]
  BY <1>7, <1>8 DEF Onward, Some
<1> QED BY <1>1, <1>8, <1>9

\* exit_notify gives all children to init, and tells whom it has to.
LEMMA ExitNotifies ==
  ASSUME IsFiniteSet(Pid), InitTask \in Pid, NEW s \in GroupState, s.sent = {}, Continued(s),
         NEW p \in Pid, s.state[p] = "run", NEW r, r = Groups!exit_notify(s, p)
  PROVE  Notified(s, p, Kids(s, p), r)
<1>1. PICK K : K = Kids(s, p)
  OBVIOUS
<1>2. IsFiniteSet(K) /\ \A c \in K : c \in Pid /\ s.p_pptr[c] = p
  BY <1>1, FS_Subset DEF Kids, Groups!Linked
<1>3. PICK w : w = Walk(s, p)
  OBVIOUS
<1>4. \A T \in SUBSET K : w[T] = Onward(s, p, w, T)
  BY <1>1, <1>3, WalkIs
<1> DEFINE N == {n \in Nat : \A T \in SUBSET K : Cardinality(T) = n => Notified(s, p, T, w[T])}
<1>5. 0 \in N
  <2> SUFFICES ASSUME NEW T \in SUBSET K, Cardinality(T) = 0 PROVE Notified(s, p, T, w[T])
    OBVIOUS
  <2>1. T = {}
    BY <1>2, OneFewer
  <2>2. w[T] = [Groups!OwnGroup(s, p) EXCEPT !.state[p] = "zombie"]
    BY <1>4, <2>1 DEF Onward
  <2> QED BY <2>1, <2>2, OwnGroupTold
<1>6. ASSUME NEW n \in Nat, n \in N PROVE n + 1 \in N
  <2> SUFFICES ASSUME NEW T \in SUBSET K, Cardinality(T) = n + 1 PROVE Notified(s, p, T, w[T])
    OBVIOUS
  <2>1. PICK c : c = Some(T)
    OBVIOUS
  <2>2. PICK U : U = T \ {c}
    OBVIOUS
  <2>3. T # {} /\ c \in T /\ U \in SUBSET K /\ Cardinality(U) = n
    BY <1>2, <2>1, <2>2, OneFewer
  <2>4. PICK k : k = w[U]
    OBVIOUS
  <2>5. Notified(s, p, U, k)
    BY <1>6, <2>3, <2>4
  <2>6. c \in Pid \ U /\ s.p_pptr[c] = p /\ T = U \cup {c}
    BY <1>2, <2>2, <2>3
  <2>7. w[T] = Groups!ChildGroup(k, p, c)
    BY <1>4, <2>1, <2>2, <2>3, <2>4 DEF Onward
  <2> QED BY <2>5, <2>6, <2>7, ChildGroupTold
<1>7. Notified(s, p, K, w[K])
  <2>1. Nat \subseteq N
    <3> HIDE DEF N
    <3> QED BY <1>5, <1>6, NatSet
  <2>2. Cardinality(K) \in Nat
    BY <1>2, FS_CardinalityType
  <2> QED BY <2>1, <2>2
<1>8. r = Walk(s, p)[Kids(s, p)]
  BY DEF Groups!exit_notify, Groups!FoldSet, Groups!MapThenFoldSet, Walk, Kids
<1> QED BY <1>1, <1>3, <1>7, <1>8

Jobs ==
  /\ state \in [Pid -> {"run", "stopped", "zombie", "free"}] /\ p_pptr \in [Pid -> Pid]
  /\ pgrp \in [Pid -> Pid] /\ session \in [Pid -> Pid] /\ sent \in SUBSET Pid
  /\ state[InitTask] = "run"
  /\ \A p \in Pid : state[p] = "free" => p_pptr[p] = InitTask /\ pgrp[p] = p /\ session[p] = p
  /\ \A p \in Pid : state[p] # "free" => state[p_pptr[p]] \in {"run", "stopped"}
  /\ \A p, q \in Pid : state[p] # "free" /\ state[q] # "free" /\ (pgrp[p] = pgrp[q] \/ pgrp[p] = q)
                       => session[p] = session[q]

\* Connects and Continued, of the variables.
Joins(q) ==
  /\ state[q] \in {"run", "stopped"} /\ p_pptr[q] # InitTask
  /\ pgrp[p_pptr[q]] # pgrp[q] /\ session[p_pptr[q]] = session[q]
Told == \A x \in Pid : state[x] = "stopped" => \E q \in Pid : pgrp[q] = pgrp[x] /\ Joins(q)

GroupsInv == Jobs /\ Told

LEMMA NowIn ==
  ASSUME Jobs
  PROVE  /\ Groups!S \in GroupState /\ Groups!S.state = state /\ Groups!S.p_pptr = p_pptr
         /\ Groups!S.pgrp = pgrp /\ Groups!S.session = session /\ Groups!S.sent = {}
BY DEF Jobs, GroupState, Groups!S

LEMMA ToldIs ==
  ASSUME Jobs
  PROVE  /\ \A q \in Pid : Joins(q) <=> Connects(Groups!S, q)
         /\ Told <=> Continued(Groups!S)
<1>1. \A q \in Pid : Joins(q) <=> Connects(Groups!S, q)
  BY DEF Jobs, Joins, Connects, Groups!S, Groups!Linked
<1> QED BY <1>1, NowIn DEF Told, Continued

LEMMA OrphanedNow ==
  ASSUME Jobs, NEW g
  PROVE  Groups!is_orphaned_pgrp(Groups!S, g) <=> \A q \in Pid : pgrp[q] = g => ~ Joins(q)
<1>1. PICK s : s = Groups!S
  OBVIOUS
<1>2. s \in GroupState /\ s.pgrp = pgrp
  BY <1>1, NowIn
<1>3. Groups!is_orphaned_pgrp(s, g) <=> \A q \in Pid : s.pgrp[q] = g => ~ Connects(s, q)
  BY <1>2, OrphanIs
<1> QED BY <1>1, <1>2, <1>3, ToldIs

\* A step after which whoever connected a group still does.
LEMMA StillTold ==
  ASSUME Told, \A q \in Pid : Joins(q) => pgrp'[q] = pgrp[q] /\ Joins(q)',
         \A x \in Pid : state'[x] = "stopped" =>
           \/ state[x] = "stopped" /\ pgrp'[x] = pgrp[x]
           \/ \E q \in Pid : pgrp[q] = pgrp'[x] /\ Joins(q)
  PROVE  Told'
BY DEF Told

LEMMA GroupsInit == ASSUME Groups!OrphanGroupsAssumption, Groups!Init PROVE GroupsInv
BY DEF Groups!OrphanGroupsAssumption, Groups!Init, GroupsInv, Jobs, Told

LEMMA LoginTold ==
  ASSUME Groups!OrphanGroupsAssumption, GroupsInv, Groups!Login
  PROVE  GroupsInv'
<1>1. /\ state' = [state EXCEPT ![Shell] = "run"] /\ p_pptr' = p_pptr /\ pgrp' = pgrp
      /\ session' = session /\ sent' = {}
  BY DEF Groups!Login, Groups!Become, Groups!S
<1>2. Shell \in Pid /\ Shell # InitTask
  BY DEF Groups!OrphanGroupsAssumption
<1>3. state[Shell] = "free" /\ \A x \in Pid : state[x] # "free" => pgrp[x] # Shell
  BY <1>2 DEF Groups!Login, Groups!Unused, Groups!Linked, Groups!S, GroupsInv, Jobs
<1>4. Jobs'
  BY <1>1, <1>2, <1>3 DEF GroupsInv, Jobs
<1>5. \A q \in Pid : Joins(q) => pgrp'[q] = pgrp[q] /\ Joins(q)'
  BY <1>1, <1>2, <1>3 DEF GroupsInv, Jobs, Joins
<1>6. Told'
  BY <1>1, <1>2, <1>5, StillTold DEF GroupsInv, Jobs
<1> QED BY <1>4, <1>6 DEF GroupsInv

LEMMA GroupForkTold ==
  ASSUME Groups!OrphanGroupsAssumption, GroupsInv, NEW p \in Pid, NEW c \in Pid, Groups!Fork(p, c)
  PROVE  GroupsInv'
<1>1. /\ state' = [state EXCEPT ![c] = "run"] /\ p_pptr' = [p_pptr EXCEPT ![c] = p]
      /\ pgrp' = [pgrp EXCEPT ![c] = pgrp[p]] /\ session' = [session EXCEPT ![c] = session[p]] /\ sent' = {}
  BY DEF Groups!Fork, Groups!Become, Groups!S
<1>2. state[p] = "run" /\ p # InitTask
  BY DEF Groups!Fork
<1>3. state[c] = "free" /\ \A x \in Pid : state[x] # "free" => pgrp[x] # c /\ session[x] # c
  BY DEF Groups!Fork, Groups!Unused, Groups!Linked, Groups!S, GroupsInv, Jobs
<1>4. Jobs'
  BY <1>1, <1>2, <1>3 DEF GroupsInv, Jobs
<1>5. \A q \in Pid : Joins(q) => pgrp'[q] = pgrp[q] /\ Joins(q)'
  BY <1>1, <1>2, <1>3 DEF GroupsInv, Jobs, Joins
<1>6. Told'
  BY <1>1, <1>3, <1>5, StillTold DEF GroupsInv, Jobs
<1> QED BY <1>4, <1>6 DEF GroupsInv

LEMMA SetpgidTold ==
  ASSUME Groups!OrphanGroupsAssumption, GroupsInv, NEW p \in Pid, NEW g \in Pid, Groups!setpgid(p, g)
  PROVE  GroupsInv'
<1>1. /\ state' = state /\ p_pptr' = p_pptr
      /\ pgrp' = [pgrp EXCEPT ![p] = g] /\ session' = session /\ sent' = {}
  BY DEF Groups!setpgid, Groups!Become, Groups!S
<1>2. /\ state[p] = "run" /\ pgrp[p] = pgrp[p_pptr[p]]
      /\ \A c \in Pid : state[c] # "free" => p_pptr[c] # p
  BY DEF Groups!setpgid, Groups!Childless, Groups!Linked, Groups!S
<1>3. g = p \/ \E q \in Pid : state[q] # "free" /\ pgrp[q] = g /\ session[q] = session[p]
  BY DEF Groups!setpgid, Groups!Linked, Groups!S
<1>4. Jobs'
  BY <1>1, <1>2, <1>3 DEF GroupsInv, Jobs
<1>5. \A q \in Pid : Joins(q) => pgrp'[q] = pgrp[q] /\ Joins(q)'
  BY <1>1, <1>2 DEF GroupsInv, Jobs, Joins
<1>6. Told'
  BY <1>1, <1>2, <1>5, StillTold DEF GroupsInv, Jobs
<1> QED BY <1>4, <1>6 DEF GroupsInv

\* The terminal stops nobody in a group that nothing connects.
LEMMA StopTold ==
  ASSUME Groups!OrphanGroupsAssumption, GroupsInv, "kill" \notin Stops, NEW p \in Pid, NEW how \in Stops,
         Groups!Stop(p, how)
  PROVE  GroupsInv'
<1>1. /\ state' = [state EXCEPT ![p] = "stopped"] /\ p_pptr' = p_pptr /\ pgrp' = pgrp
      /\ session' = session /\ sent' = {}
  BY DEF Groups!Stop, Groups!Become, Groups!S
<1>2. /\ state[p] = "run" /\ p # InitTask /\ how = "tty"
      /\ ~ Groups!is_orphaned_pgrp(Groups!S, pgrp[p])
  BY DEF Groups!Stop, Groups!OrphanGroupsAssumption
<1>3. \E q \in Pid : pgrp[q] = pgrp[p] /\ Joins(q)
  <2>1. PICK g : g = pgrp[p]
    OBVIOUS
  <2>2. ~ Groups!is_orphaned_pgrp(Groups!S, g)
    BY <1>2, <2>1
  <2>3. Groups!is_orphaned_pgrp(Groups!S, g) <=> \A q \in Pid : pgrp[q] = g => ~ Joins(q)
    BY OrphanedNow DEF GroupsInv
  <2> QED BY <2>1, <2>2, <2>3
<1>4. Jobs'
  BY <1>1, <1>2 DEF GroupsInv, Jobs
<1>5. \A q \in Pid : Joins(q) => pgrp'[q] = pgrp[q] /\ Joins(q)'
  BY <1>1, <1>2 DEF GroupsInv, Jobs, Joins
<1>6. Told'
  BY <1>1, <1>2, <1>3, <1>5, StillTold DEF GroupsInv, Jobs
<1> QED BY <1>4, <1>6 DEF GroupsInv

LEMMA ContinueTold ==
  ASSUME GroupsInv, NEW p \in Pid, Groups!Continue(p)
  PROVE  GroupsInv'
<1>1. /\ state[p] = "stopped" /\ state' = [state EXCEPT ![p] = "run"] /\ p_pptr' = p_pptr /\ pgrp' = pgrp
      /\ session' = session /\ sent' = {}
  BY DEF Groups!Continue, Groups!Become, Groups!S
<1>2. Jobs'
  BY <1>1 DEF GroupsInv, Jobs
<1>3. \A q \in Pid : Joins(q) => pgrp'[q] = pgrp[q] /\ Joins(q)'
  BY <1>1 DEF GroupsInv, Jobs, Joins
<1>4. Told'
  BY <1>1, <1>3, StillTold DEF GroupsInv, Jobs
<1> QED BY <1>2, <1>4 DEF GroupsInv

LEMMA ReleaseTold ==
  ASSUME Groups!OrphanGroupsAssumption, GroupsInv, NEW c \in Pid, Groups!release_task(c)
  PROVE  GroupsInv'
<1>1. /\ state[c] = "zombie" /\ state' = [state EXCEPT ![c] = "free"]
      /\ p_pptr' = [p_pptr EXCEPT ![c] = InitTask]
      /\ pgrp' = [pgrp EXCEPT ![c] = c] /\ session' = [session EXCEPT ![c] = c] /\ sent' = {}
  BY DEF Groups!release_task, Groups!Become, Groups!S
<1>2. Jobs'
  BY <1>1 DEF GroupsInv, Jobs, Groups!OrphanGroupsAssumption
<1>3. \A q \in Pid : Joins(q) => pgrp'[q] = pgrp[q] /\ Joins(q)'
  BY <1>1 DEF GroupsInv, Jobs, Joins
<1>4. Told'
  BY <1>1, <1>3, StillTold DEF GroupsInv, Jobs
<1> QED BY <1>2, <1>4 DEF GroupsInv

\* What exit_notify hangs up on.
Hangs(g) ==
  /\ ~ Groups!is_orphaned_pgrp(Groups!S, g) /\ Groups!is_orphaned_pgrp(Groups!S, g)'
  /\ Groups!has_stopped_jobs(Groups!S, g)

LEMMA GroupExitTold ==
  ASSUME Groups!OrphanGroupsAssumption, GroupsInv, NEW p \in Pid, Groups!Exit(p)
  PROVE  GroupsInv' /\ \A g \in sent' : Hangs(g)
<1>1. PICK s : s = Groups!S
  OBVIOUS
<1>2. PICK r : r = Groups!exit_notify(s, p)
  OBVIOUS
<1>3. /\ state' = r.state /\ p_pptr' = r.p_pptr /\ pgrp' = r.pgrp /\ session' = r.session /\ sent' = r.sent
      /\ state[p] = "run" /\ p # InitTask
  BY <1>1, <1>2 DEF Groups!Exit, Groups!Become
<1>4. /\ s \in GroupState /\ s.state = state /\ s.p_pptr = p_pptr
      /\ s.pgrp = pgrp /\ s.session = session /\ s.sent = {}
  BY <1>1, NowIn DEF GroupsInv
<1>5. Continued(s)
  BY <1>1, ToldIs DEF GroupsInv
<1>6. PICK K : K = Kids(s, p)
  OBVIOUS
<1>7. Notified(s, p, K, r)
  <2>1. IsFiniteSet(Pid) /\ InitTask \in Pid
    BY DEF Groups!OrphanGroupsAssumption, Groups!IsFiniteSet, IsFiniteSet
  <2>2. s.state[p] = "run"
    BY <1>3, <1>4
  <2>3. Notified(s, p, Kids(s, p), r)
    BY <1>2, <1>4, <1>5, <2>1, <2>2, ExitNotifies
  <2> QED BY <1>6, <2>3
<1>8. /\ r \in GroupState /\ r.pgrp = pgrp /\ r.session = session
      /\ \A x \in Pid : r.p_pptr[x] = IF state[x] # "free" /\ p_pptr[x] = p THEN InitTask ELSE p_pptr[x]
      /\ \A x \in Pid : x # p => r.state[x] = state[x] \/ (state[x] = "stopped" /\ r.state[x] = "run")
      /\ r.state[p] = "zombie" /\ Continued(r)
  BY <1>4, <1>6, <1>7 DEF Notified, Kids, Groups!Linked
<1>9. Jobs'
  <2>1. /\ state' \in [Pid -> {"run", "stopped", "zombie", "free"}] /\ p_pptr' \in [Pid -> Pid]
        /\ pgrp' \in [Pid -> Pid] /\ session' \in [Pid -> Pid] /\ sent' \in SUBSET Pid
    BY <1>3, <1>8 DEF GroupState
  <2>2. \A x \in Pid : /\ state'[x] = "free" <=> state[x] = "free"
                       /\ x # p /\ state[x] \in {"run", "stopped"} => state'[x] \in {"run", "stopped"}
    BY <1>3, <1>8
  <2>3. state'[InitTask] = "run"
    BY <1>3, <1>8 DEF GroupsInv, Jobs, Groups!OrphanGroupsAssumption
  <2>4. \A x \in Pid : state'[x] = "free" => p_pptr'[x] = InitTask /\ pgrp'[x] = x /\ session'[x] = x
    BY <1>3, <1>8, <2>2 DEF GroupsInv, Jobs
  <2>5. ASSUME NEW x \in Pid, state'[x] # "free" PROVE state'[p_pptr'[x]] \in {"run", "stopped"}
    <3>1. CASE p_pptr[x] = p
      BY <1>3, <1>8, <2>2, <2>3, <2>5, <3>1
    <3>2. CASE p_pptr[x] # p
      BY <1>3, <1>8, <2>2, <2>5, <3>2 DEF GroupsInv, Jobs
    <3> QED BY <3>1, <3>2
  <2>6. \A x, y \in Pid : state'[x] # "free" /\ state'[y] # "free" /\ (pgrp'[x] = pgrp'[y] \/ pgrp'[x] = y)
                          => session'[x] = session'[y]
    BY <1>3, <1>8, <2>2 DEF GroupsInv, Jobs
  <2> QED BY <2>1, <2>3, <2>4, <2>5, <2>6 DEF Jobs
<1>10. \A q \in Pid : Joins(q)' <=> Connects(r, q)
  BY <1>3, <1>8 DEF Joins, Connects, Groups!Linked, GroupState
<1>11. Told'
  BY <1>3, <1>8, <1>10 DEF Told, Continued
<1>12. ASSUME NEW g \in sent' PROVE Hangs(g)
  <2>1. /\ Groups!has_stopped_jobs(s, g)
        /\ ~ Groups!is_orphaned_pgrp(s, g) /\ Groups!is_orphaned_pgrp(r, g)
    BY <1>3, <1>7, <1>12 DEF Notified
  <2>2. \A q \in Pid : pgrp'[q] = g => ~ Joins(q)'
    BY <1>3, <1>8, <1>10, <2>1, OrphanIs
  <2>3. PICK t : t = Groups!S'
    OBVIOUS
  <2>4. /\ t \in GroupState /\ t.pgrp = pgrp' /\ \A q \in Pid : Joins(q)' <=> Connects(t, q)
    BY <1>9, <2>3 DEF Jobs, GroupState, Groups!S, Joins, Connects, Groups!Linked
  <2>5. Groups!is_orphaned_pgrp(t, g)
    BY <2>2, <2>4, OrphanIs
  <2> QED BY <1>1, <2>1, <2>3, <2>5 DEF Hangs
<1> QED BY <1>9, <1>11, <1>12 DEF GroupsInv

LEMMA GroupsNext ==
  ASSUME Groups!OrphanGroupsAssumption, "kill" \notin Stops, GroupsInv, [Groups!Next]_(Groups!vars)
  PROVE  GroupsInv' /\ (UNCHANGED Groups!vars \/ \A g \in sent' : Hangs(g))
<1>1. CASE UNCHANGED Groups!vars
  BY <1>1 DEF Groups!vars, GroupsInv, Jobs, Told, Joins
<1>2. CASE Groups!Login
  BY <1>2, LoginTold DEF Groups!Login, Groups!Become, Groups!S
<1>3. ASSUME NEW p \in Pid, NEW q \in Pid, Groups!Fork(p, q) PROVE GroupsInv' /\ sent' = {}
  BY <1>3, GroupForkTold DEF Groups!Fork, Groups!Become, Groups!S
<1>4. ASSUME NEW p \in Pid, NEW q \in Pid, Groups!setpgid(p, q) PROVE GroupsInv' /\ sent' = {}
  BY <1>4, SetpgidTold DEF Groups!setpgid, Groups!Become, Groups!S
<1>5. ASSUME NEW p \in Pid, NEW how \in Stops, Groups!Stop(p, how) PROVE GroupsInv' /\ sent' = {}
  BY <1>5, StopTold DEF Groups!Stop, Groups!Become, Groups!S
<1>6. ASSUME NEW p \in Pid, Groups!Continue(p) PROVE GroupsInv' /\ sent' = {}
  BY <1>6, ContinueTold DEF Groups!Continue, Groups!Become, Groups!S
<1>7. ASSUME NEW p \in Pid, Groups!Exit(p) PROVE GroupsInv' /\ \A g \in sent' : Hangs(g)
  BY <1>7, GroupExitTold
<1>8. ASSUME NEW p \in Pid, Groups!release_task(p) PROVE GroupsInv' /\ sent' = {}
  BY <1>8, ReleaseTold DEF Groups!release_task, Groups!Become, Groups!S
<1> QED BY <1>1, <1>2, <1>3, <1>4, <1>5, <1>6, <1>7, <1>8 DEF Groups!Next

LEMMA GroupsInvariant ==
  ASSUME Groups!OrphanGroupsAssumption, "kill" \notin Stops
  PROVE  Groups!Spec => [](GroupsInv)
<1>1. Groups!Init => GroupsInv
  BY GroupsInit
<1>2. GroupsInv /\ [Groups!Next]_(Groups!vars) => GroupsInv'
  BY GroupsNext
<1> QED BY <1>1, <1>2, PTL DEF Groups!Spec

\* However many jobs a shell has in however many groups, and whoever exits in which order:
\* no job stays stopped in a group that nobody in its session can continue
\* (will_become_orphaned_pgrp and has_stopped_jobs, called by exit_notify for the group of
\* the task and for that of each child).  SIGSTOP is left out, which stops a job in
\* any group.
THEOREM GroupsNoStoppedOrphan ==
  ASSUME Groups!OrphanGroupsAssumption, "kill" \notin Stops
  PROVE  Groups!Spec => []Groups!NoStoppedOrphan
<1>1. ASSUME GroupsInv PROVE Groups!NoStoppedOrphan
  <2> SUFFICES ASSUME NEW x \in Pid, state[x] = "stopped"
               PROVE  ~ Groups!is_orphaned_pgrp(Groups!S, pgrp[x])
    BY DEF Groups!NoStoppedOrphan, Groups!Linked
  <2>1. PICK g : g = pgrp[x]
    OBVIOUS
  <2>2. Groups!is_orphaned_pgrp(Groups!S, g) <=> \A q \in Pid : pgrp[q] = g => ~ Joins(q)
    BY <1>1, OrphanedNow DEF GroupsInv
  <2>3. \E q \in Pid : pgrp[q] = g /\ Joins(q)
    BY <1>1, <2>1 DEF GroupsInv, Told
  <2> QED BY <2>1, <2>2, <2>3
<1> QED BY <1>1, GroupsInvariant, PTL

\* Only a group that the exit has orphaned, and that had stopped jobs, is hung up on; for
\* a child this is because a stopped job in its group still had a connection.
THEOREM GroupsOnlyNewOrphans ==
  ASSUME Groups!OrphanGroupsAssumption, "kill" \notin Stops
  PROVE  Groups!Spec => Groups!OnlyNewOrphans
<1>1. GroupsInv /\ [Groups!Next]_(Groups!vars) =>
        [\A g \in sent' : ~ Groups!is_orphaned_pgrp(Groups!S, g) /\ Groups!is_orphaned_pgrp(Groups!S', g)
                          /\ Groups!has_stopped_jobs(Groups!S, g)]_(Groups!vars)
  BY GroupsNext DEF Hangs
<1> QED BY <1>1, GroupsInvariant, PTL DEF Groups!Spec, Groups!OnlyNewOrphans

\* Pointers stay pointers, parents of tasks are alive, and a process group is in one session.
THEOREM GroupsTypeOK ==
  ASSUME Groups!OrphanGroupsAssumption, "kill" \notin Stops
  PROVE  Groups!Spec => []Groups!TypeOK
<1>1. GroupsInv => Groups!TypeOK
  BY DEF GroupsInv, Jobs, Groups!TypeOK, Groups!Linked, Groups!S
<1> QED BY <1>1, GroupsInvariant, PTL

-----------------------------------------------------------------------------
(* Pids.                                                                   *)

CONSTANTS PID_MAX, RESERVED, MaxTasks, PidCalls, MaxForks
VARIABLES last_pid, next_safe, list, made, failed
Pids == INSTANCE PidAlloc WITH Calls <- PidCalls

Id == 1 .. PID_MAX - 1
IdTask == [pid : Id, pgrp : Id, tgid : Id, session : Id]

PidsTyped ==
  /\ last_pid \in Id /\ next_safe \in 2 .. PID_MAX /\ failed \in BOOLEAN
  /\ list \in Seq(IdTask) /\ made \in Seq(IdTask)

\* One round of the loop of get_pid.
Round == [ok : BOOLEAN, last : Id, safe : 2 .. PID_MAX, i : Nat \ {0}]

LEMMA LowerIs ==
  ASSUME PID_MAX \in Nat, NEW t \in IdTask, NEW safe \in 2 .. PID_MAX, NEW last \in Id,
         NEW m, m = Pids!Lower(safe, t, last)
  PROVE  /\ m \in 2 .. PID_MAX /\ m <= safe
         /\ \A n \in Pids!Ids(t) : n > last => m <= n
<1> DEFINE S == {safe} \cup {n \in Pids!Ids(t) : n > last}
<1>1. S \subseteq Nat /\ S # {} /\ S \subseteq 2 .. PID_MAX
  BY DEF Pids!Ids, IdTask, Id
<1>2. m = CHOOSE x \in S : \A y \in S : x <= y
  BY DEF Pids!Lower, Pids!Min
<1>3. \E x \in S : \A y \in S : x <= y
  <2> HIDE DEF S
  <2> QED BY <1>1, LeastIn
<1>4. m \in S /\ \A y \in S : m <= y
  <2> HIDE DEF S
  <2> QED BY <1>2, <1>3
<1> QED BY <1>1, <1>4

LEMMA InList ==
  ASSUME PidsTyped, NEW i \in Nat \ {0}, i <= Len(list)
  PROVE  list[i] \in IdTask
<1>1. list \in Seq(IdTask) /\ Len(list) \in Nat
  BY LenProperties DEF PidsTyped
<1> QED BY <1>1, ElementOfSeq

\* What a round that goes on does.
Misses(r, next) ==
  LET t == list[r.i] IN
  /\ r.last \notin Pids!Ids(t)
  /\ next.ok /\ next.last = r.last /\ next.i = r.i + 1
  /\ next.safe <= r.safe /\ \A n \in Pids!Ids(t) : n > r.last => next.safe <= n
Hits(r, begin, next) ==
  /\ r.last \in Pids!Ids(list[r.i])
  /\ next.last = IF r.last + 1 < PID_MAX THEN r.last + 1 ELSE RESERVED
  /\ next.ok = (next.last # begin) /\ next.i = 1

LEMMA LookIs ==
  ASSUME Pids!PidAllocAssumption, PidsTyped, NEW begin, NEW r \in Round, NEW next, next = Pids!Look(r, begin)
  PROVE  /\ next \in Round
         /\ ~ r.ok \/ r.i > Len(list) => next = r
         /\ r.ok /\ r.i <= Len(list) => Misses(r, next) \/ Hits(r, begin, next)
<1>0. PID_MAX \in Nat /\ RESERVED \in 2 .. PID_MAX - 1
  BY DEF Pids!PidAllocAssumption
<1>1. Len(list) \in Nat
  BY LenProperties DEF PidsTyped
<1>2. CASE ~ r.ok \/ r.i > Len(list)
  BY <1>1, <1>2 DEF Pids!Look, Round
<1>3. CASE r.ok /\ r.i <= Len(list) /\ r.last \notin Pids!Ids(list[r.i])
  <2>1. PICK t : t = list[r.i]
    OBVIOUS
  <2>2. t \in IdTask
    BY <1>3, <2>1, InList DEF Round
  <2>3. PICK m : m = Pids!Lower(r.safe, t, r.last)
    OBVIOUS
  <2>4. /\ m \in 2 .. PID_MAX /\ m <= r.safe /\ \A n \in Pids!Ids(t) : n > r.last => m <= n
    BY <1>0, <2>2, <2>3, LowerIs DEF Round
  <2>5. next = [r EXCEPT !.safe = m, !.i = r.i + 1]
    BY <1>1, <1>3, <2>1, <2>3 DEF Pids!Look, Round
  <2>6. PICK j : j = r.i + 1
    OBVIOUS
  <2>7. j \in Nat \ {0}
    BY <2>6 DEF Round
  <2>8. next \in Round /\ next.ok = r.ok /\ next.last = r.last /\ next.safe = m /\ next.i = j
    BY <2>4, <2>5, <2>6, <2>7 DEF Round
  <2> QED BY <1>1, <1>3, <2>1, <2>4, <2>6, <2>8 DEF Misses, Round
<1>4. CASE r.ok /\ r.i <= Len(list) /\ r.last \in Pids!Ids(list[r.i])
  <2> DEFINE over == r.last + 1 >= r.safe
             l == IF over THEN Pids!Wrapped(r.last + 1) ELSE r.last + 1
             s == IF over THEN PID_MAX ELSE r.safe
  <2>1. next = [ok |-> l # begin, last |-> l, safe |-> s, i |-> 1]
    BY <1>1, <1>4 DEF Pids!Look, Round
  <2>2. l = IF r.last + 1 < PID_MAX THEN r.last + 1 ELSE RESERVED
    BY <1>0 DEF Pids!Wrapped, Round, Id
  <2>3. l \in Id /\ s \in 2 .. PID_MAX
    BY <1>0, <2>2 DEF Round, Id
  <2> HIDE DEF l, s
  <2>4. (l # begin) \in BOOLEAN
    OBVIOUS
  <2>5. next \in Round /\ next.ok = (l # begin) /\ next.last = l /\ next.i = 1
    BY <2>1, <2>3, <2>4 DEF Round
  <2> QED BY <1>1, <1>4, <2>2, <2>5 DEF Hits, Round
<1> QED BY <1>1, <1>2, <1>3, <1>4 DEF Round

\* The rounds of the loop.
Rounds(f, start, begin) ==
  /\ f[0] = [ok |-> TRUE, last |-> start, safe |-> PID_MAX, i |-> 1]
  /\ \A n \in Nat : f[n] \in Round /\ f[n + 1] = Pids!Look(f[n], begin)
Enough == PID_MAX * (Len(list) + 1)

LEMMA ScanIs ==
  ASSUME Pids!PidAllocAssumption, PidsTyped, NEW begin, NEW start \in Id
  PROVE  \E f : Rounds(f, start, begin) /\ Pids!Scan(start, begin) = f[Enough]
<1> DEFINE s == [ok |-> TRUE, last |-> start, safe |-> PID_MAX, i |-> 1]
           step == [r \in Round |-> Pids!Look(r, begin)]
           Is(f) == f = [n \in Nat |-> IF n = 0 THEN [ok |-> TRUE, last |-> start, safe |-> PID_MAX, i |-> 1]
                                       ELSE Pids!Look(f[n - 1], begin)]
           F == CHOOSE f : Is(f)
<1>1. s \in Round
  BY DEF Pids!PidAllocAssumption, Round
<1>2. step \in [Round -> Round]
  <2>1. ASSUME NEW r \in Round PROVE Pids!Look(r, begin) \in Round
    BY <2>1, LookIs
  <2> QED BY <2>1
<1>3. PICK g \in [Nat -> Round] : g[0] = s /\ \A n \in Nat : g[n + 1] = step[g[n]]
  <2>1. PICK X : X = Round
    OBVIOUS
  <2>2. PICK h : h = step
    OBVIOUS
  <2>3. PICK a : a = s
    OBVIOUS
  <2>4. a \in X /\ h \in [X -> X]
    BY <1>1, <1>2, <2>1, <2>2, <2>3
  <2>5. \E g : Iteration(g, X, a, h)
    BY <2>4, Iterates
  <2> QED BY <2>1, <2>2, <2>3, <2>5 DEF Iteration
<1>4. \A n \in Nat : g[n + 1] = Pids!Look(g[n], begin)
  BY <1>3
<1>5. Is(g)
  <2>1. \A n \in Nat : g[n] = IF n = 0 THEN s ELSE Pids!Look(g[n - 1], begin)
    <3> TAKE n \in Nat
    <3>1. CASE n = 0
      BY <1>3, <3>1
    <3>2. CASE n # 0
      <4>1. n - 1 \in Nat /\ (n - 1) + 1 = n
        BY <3>2
      <4> QED BY <1>4, <3>2, <4>1
    <3> QED BY <3>1, <3>2
  <2> QED BY <1>3, <2>1
<1>6. Is(F)
  <2> HIDE DEF Is
  <2> QED BY <1>5
<1>7. PICK k : k = F
  OBVIOUS
<1>8. Is(k)
  <2> HIDE DEF Is, F
  <2> QED BY <1>6, <1>7
<1> HIDE DEF F
<1>9. k[0] = s
  BY <1>8
<1>10. ASSUME NEW n \in Nat PROVE k[n + 1] = Pids!Look(k[n], begin)
  <2>1. n + 1 \in Nat /\ n + 1 # 0 /\ (n + 1) - 1 = n
    OBVIOUS
  <2>2. k[n + 1] = IF n + 1 = 0 THEN s ELSE Pids!Look(k[(n + 1) - 1], begin)
    BY <1>8, <2>1
  <2> QED BY <2>1, <2>2
<1>11. \A n \in Nat : k[n] \in Round
  <2> DEFINE N == {n \in Nat : k[n] \in Round}
  <2>1. 0 \in N
    BY <1>1, <1>9
  <2>2. \A n \in Nat : n \in N => n + 1 \in N
    BY <1>2, <1>10
  <2>3. Nat \subseteq N
    <3> HIDE DEF N
    <3> QED BY <2>1, <2>2, NatSet
  <2> QED BY <2>3
<1>12. Rounds(k, start, begin)
  BY <1>9, <1>10, <1>11 DEF Rounds
<1>13. Pids!Scan(start, begin) = k[Enough]
  BY <1>7 DEF Pids!Scan, Enough, F
<1> QED BY <1>12, <1>13

\* What the loop knows: the tasks it has looked at use neither the pid nor one between it
\* and the limit.
Looked(r) ==
  \A j \in 1 .. Len(list) : j < r.i =>
    /\ r.last \notin Pids!Ids(list[j])
    /\ \A m \in Pids!Ids(list[j]) : ~ (r.last < m /\ m < r.safe)

\* The pids that it has left behind, those above the one it began with first, are in use.
Behind(r, begin) ==
  \/ r.last > begin /\ \A m \in Id : begin < m /\ m < r.last => m \in Pids!Used
  \/ /\ RESERVED <= r.last /\ r.last <= begin /\ (r.ok => r.last < begin \/ RESERVED = PID_MAX - 1)
     /\ \A m \in Id : begin < m \/ (RESERVED <= m /\ m < r.last) => m \in Pids!Used
Ahead(r, begin) == Behind(r, begin) /\ (~ r.ok => r.last = begin)

LEMMA IdsIn == ASSUME NEW t \in IdTask PROVE Pids!Ids(t) \subseteq Id
BY DEF IdTask, Pids!Ids

LEMMA UsedIs ==
  ASSUME PidsTyped
  PROVE  /\ Pids!Used \subseteq Id
         /\ \A j \in Nat \ {0} : j <= Len(list) => Pids!Ids(list[j]) \subseteq Pids!Used
         /\ \A m \in Pids!Used : \E j \in 1 .. Len(list) : m \in Pids!Ids(list[j])
<1>1. list \in Seq(IdTask) /\ Len(list) \in Nat /\ DOMAIN list = 1 .. Len(list)
  BY LenProperties DEF PidsTyped
<1>2. \A m \in Pids!Used : \E j \in 1 .. Len(list) : m \in Pids!Ids(list[j])
  BY <1>1 DEF Pids!Used
<1>3. ASSUME NEW j \in Nat \ {0}, j <= Len(list) PROVE Pids!Ids(list[j]) \subseteq Pids!Used
  <2>1. j \in DOMAIN list
    BY <1>1, <1>3
  <2> QED BY <2>1 DEF Pids!Used
<1>4. ASSUME NEW j \in 1 .. Len(list) PROVE Pids!Ids(list[j]) \subseteq Id
  <2>1. list[j] \in IdTask
    BY <1>1, InList
  <2> QED BY <2>1 DEF Pids!Ids, IdTask
<1> QED BY <1>2, <1>3, <1>4

LEMMA LooksOn ==
  ASSUME Pids!PidAllocAssumption, PidsTyped, NEW begin, NEW r \in Round, Looked(r)
  PROVE  Looked(Pids!Look(r, begin))
<1>0. Len(list) \in Nat
  BY LenProperties DEF PidsTyped
<1>1. PICK next : next = Pids!Look(r, begin)
  OBVIOUS
<1> SUFFICES Looked(next)
  BY <1>1, Zenon
<1>2. CASE ~ r.ok \/ r.i > Len(list)
  <2>1. next = r
    BY <1>1, <1>2, LookIs
  <2> QED BY <2>1
<1>3. CASE r.ok /\ r.i <= Len(list)
  <2>1. next \in Round /\ (Misses(r, next) \/ Hits(r, begin, next))
    BY <1>1, <1>3, LookIs
  <2>2. CASE Misses(r, next)
    <3>1. ASSUME NEW j \in 1 .. Len(list), j < next.i
          PROVE  /\ next.last \notin Pids!Ids(list[j])
                 /\ \A m \in Pids!Ids(list[j]) : ~ (next.last < m /\ m < next.safe)
      <4>1. list[j] \in IdTask
        BY <1>0, InList
      <4>2. \A m \in Pids!Ids(list[j]) : m \in Id
        BY <4>1 DEF Pids!Ids, IdTask
      <4>3. CASE j < r.i
        BY <1>0, <2>1, <2>2, <4>2, <4>3 DEF Looked, Misses, Round, Id
      <4>4. CASE j = r.i
        BY <1>0, <2>1, <2>2, <4>2, <4>4 DEF Misses, Round, Id
      <4>5. j < r.i \/ j = r.i
        BY <1>0, <2>2, <3>1 DEF Misses, Round
      <4> QED BY <4>3, <4>4, <4>5
    <3> QED BY <3>1 DEF Looked
  <2>3. CASE Hits(r, begin, next)
    <3>1. \A j \in 1 .. Len(list) : ~ (j < next.i)
      BY <1>0, <2>3 DEF Hits
    <3> QED BY <3>1 DEF Looked
  <2> QED BY <2>1, <2>2, <2>3
<1> QED BY <1>0, <1>2, <1>3 DEF Round

LEMMA GoesOn ==
  ASSUME Pids!PidAllocAssumption, PidsTyped, NEW begin \in Id, NEW r \in Round, Ahead(r, begin)
  PROVE  Ahead(Pids!Look(r, begin), begin)
<1>0. PID_MAX \in Nat /\ RESERVED \in 2 .. PID_MAX - 1 /\ Len(list) \in Nat
  BY LenProperties DEF Pids!PidAllocAssumption, PidsTyped
<1>1. PICK next : next = Pids!Look(r, begin)
  OBVIOUS
<1> SUFFICES Ahead(next, begin)
  BY <1>1, Zenon
<1>2. CASE ~ r.ok \/ r.i > Len(list)
  <2>1. next = r
    BY <1>1, <1>2, LookIs
  <2> QED BY <2>1
<1>3. CASE r.ok /\ r.i <= Len(list)
  <2>1. next \in Round /\ (Misses(r, next) \/ Hits(r, begin, next))
    BY <1>1, <1>3, LookIs
  <2>2. CASE Misses(r, next)
    BY <1>3, <2>1, <2>2 DEF Misses, Ahead, Behind
  <2>3. CASE Hits(r, begin, next)
    <3>1. r.last \in Pids!Used
      <4>1. PICK i : i = r.i
        OBVIOUS
      <4>2. i \in Nat \ {0} /\ i <= Len(list) /\ r.last \in Pids!Ids(list[i])
        BY <1>3, <2>3, <4>1 DEF Hits, Round
      <4> QED BY <4>2, UsedIs
    <3>2. /\ next.last = IF r.last + 1 < PID_MAX THEN r.last + 1 ELSE RESERVED
          /\ next.ok = (next.last # begin)
      BY <2>3 DEF Hits
    <3>3. r.last \in Id /\ r.ok /\ begin \in 1 .. PID_MAX - 1
      BY <1>3 DEF Round, Id
    <3>6. ~ next.ok => next.last = begin
      BY <3>2
    <3> SUFFICES Behind(next, begin)
      BY <3>6 DEF Ahead
    <3>4. CASE r.last > begin /\ \A m \in Id : begin < m /\ m < r.last => m \in Pids!Used
      <4>1. CASE r.last + 1 < PID_MAX
        <5>1. next.last = r.last + 1
          BY <3>2, <4>1
        <5>2. next.last > begin
          BY <1>0, <3>3, <3>4, <5>1 DEF Id
        <5>3. ASSUME NEW m \in Id, begin < m, m < next.last PROVE m \in Pids!Used
          <6>1. m < r.last \/ m = r.last
            BY <1>0, <3>3, <5>1, <5>3 DEF Id
          <6> QED BY <3>1, <3>4, <5>3, <6>1
        <5> QED BY <5>2, <5>3 DEF Behind
      <4>2. CASE ~ (r.last + 1 < PID_MAX)
        <5>1. \A m \in Id : begin < m => m \in Pids!Used
          BY <1>0, <3>1, <3>3, <3>4, <4>2 DEF Id
        <5>2. next.last = RESERVED /\ (next.ok => RESERVED # begin)
          BY <3>2, <4>2
        <5>3. CASE RESERVED > begin
          BY <5>1, <5>2, <5>3 DEF Behind
        <5>4. CASE RESERVED <= begin
          <6>1. next.ok => next.last < begin
            BY <1>0, <3>3, <5>2, <5>4
          <6>2. \A m \in Id : ~ (RESERVED <= m /\ m < next.last)
            BY <1>0, <5>2 DEF Id
          <6> QED BY <1>0, <5>1, <5>2, <5>4, <6>1, <6>2 DEF Behind
        <5> QED BY <1>0, <3>3, <5>3, <5>4
      <4> QED BY <4>1, <4>2
    <3>5. CASE /\ RESERVED <= r.last /\ r.last <= begin /\ (r.ok => r.last < begin \/ RESERVED = PID_MAX - 1)
               /\ \A m \in Id : begin < m \/ (RESERVED <= m /\ m < r.last) => m \in Pids!Used
      <4>1. CASE r.last + 1 < PID_MAX
        <5>1. next.last = r.last + 1 /\ (next.ok => next.last # begin)
          BY <3>2, <4>1
        <5>2. r.last < begin
          BY <1>0, <3>3, <3>5, <4>1 DEF Id
        <5>3. RESERVED <= next.last /\ next.last <= begin /\ (next.ok => next.last < begin)
          BY <1>0, <3>3, <3>5, <5>1, <5>2 DEF Id
        <5>4. ASSUME NEW m \in Id, RESERVED <= m, m < next.last PROVE m \in Pids!Used
          <6>1. m < r.last \/ m = r.last
            BY <1>0, <3>3, <5>1, <5>4 DEF Id
          <6> QED BY <3>1, <3>5, <5>4, <6>1
        <5> QED BY <3>5, <5>3, <5>4 DEF Behind
      <4>2. CASE ~ (r.last + 1 < PID_MAX)
        BY <1>0, <3>2, <3>3, <3>5, <4>2 DEF Behind, Id
      <4> QED BY <4>1, <4>2
    <3> QED BY <3>4, <3>5 DEF Ahead, Behind
  <2> QED BY <2>1, <2>2, <2>3
<1> QED BY <1>0, <1>2, <1>3 DEF Round

\* How far the loop is.  Every round goes on.
Passed(r, begin) ==
  IF r.last > begin THEN r.last - begin - 1 ELSE PID_MAX - 1 - begin + r.last - RESERVED
Progress(r, begin) == Passed(r, begin) * (Len(list) + 1) + r.i - 1
Going(r) == r.ok /\ r.i <= Len(list)

\* No id is above the first pids as long as these last.
Below(t) == \A m \in Pids!Ids(t) : m <= last_pid
Low ==
  \/ last_pid >= RESERVED
  \/ (\A i \in 1 .. Len(list) : Below(list[i])) /\ \A i \in 1 .. Len(made) : Below(made[i])

LEMMA GetsOn ==
  ASSUME Pids!PidAllocAssumption, PidsTyped, NEW begin \in Id, NEW r \in Round, Ahead(r, begin), Going(r),
         begin >= RESERVED \/ (r.last = begin + 1 /\ \A m \in Pids!Used : m <= begin),
         NEW next, next = Pids!Look(r, begin), Going(next)
  PROVE  /\ Progress(next, begin) \in Nat /\ Progress(next, begin) >= Progress(r, begin) + 1
         /\ begin >= RESERVED \/ next.last = begin + 1
<1>0. PID_MAX \in Nat /\ RESERVED \in 2 .. PID_MAX - 1 /\ Len(list) \in Nat
  BY LenProperties DEF Pids!PidAllocAssumption, PidsTyped
<1>1. next \in Round /\ (Misses(r, next) \/ Hits(r, begin, next))
  BY LookIs DEF Going
<1>2. PICK K : K = Len(list) + 1
  OBVIOUS
<1>3. K \in Nat /\ r.i \in Nat \ {0} /\ next.i \in Nat \ {0} /\ r.i < K /\ next.i < K
  BY <1>0, <1>1, <1>2 DEF Going, Round
<1>4. Passed(r, begin) \in Nat
  BY <1>0 DEF Passed, Ahead, Behind, Round, Id
<1>5. PICK d \in Nat : d = Passed(r, begin)
  BY <1>4
<1>6. Progress(r, begin) = d * K + r.i - 1
  BY <1>2, <1>5 DEF Progress
<1>7. CASE Misses(r, next)
  <2>1. next.last = r.last /\ next.i = r.i + 1
    BY <1>7 DEF Misses
  <2>2. Passed(next, begin) = d
    BY <1>5, <2>1 DEF Passed
  <2>3. Progress(next, begin) = d * K + next.i - 1
    BY <1>2, <2>2 DEF Progress
  <2>4. PICK x \in Nat : x = d * K
    BY <1>3
  <2> QED BY <1>3, <1>6, <2>1, <2>3, <2>4
<1>8. CASE Hits(r, begin, next)
  <2>1. r.last \in Pids!Used
    <3>1. PICK i : i = r.i
      OBVIOUS
    <3>2. i \in Nat \ {0} /\ i <= Len(list) /\ r.last \in Pids!Ids(list[i])
      BY <1>8, <3>1 DEF Hits, Going, Round
    <3> QED BY <3>2, UsedIs
  <2>2. begin >= RESERVED
    BY <1>0, <2>1 DEF Id
  <2>3. /\ next.last = IF r.last + 1 < PID_MAX THEN r.last + 1 ELSE RESERVED
        /\ next.last # begin /\ next.i = 1
    BY <1>8 DEF Hits, Going
  <2>4. Passed(next, begin) = d + 1
    <3>1. PICK a : a = r.last
      OBVIOUS
    <3>2. PICK b : b = next.last
      OBVIOUS
    <3>3. a \in 1 .. PID_MAX - 1 /\ begin \in 1 .. PID_MAX - 1
      BY <3>1 DEF Round, Id
    <3>4. b = (IF a + 1 < PID_MAX THEN a + 1 ELSE RESERVED) /\ b # begin
      BY <2>3, <3>1, <3>2
    <3>5. a > begin \/ (RESERVED <= a /\ a <= begin /\ (a < begin \/ RESERVED = PID_MAX - 1))
      BY <3>1 DEF Ahead, Behind, Going
    <3>6. d = IF a > begin THEN a - begin - 1 ELSE PID_MAX - 1 - begin + a - RESERVED
      BY <1>5, <3>1 DEF Passed
    <3>7. Passed(next, begin) = IF b > begin THEN b - begin - 1 ELSE PID_MAX - 1 - begin + b - RESERVED
      BY <3>2 DEF Passed
    <3>8. CASE a + 1 < PID_MAX
      BY <1>0, <2>2, <3>3, <3>4, <3>5, <3>6, <3>7, <3>8
    <3>9. CASE ~ (a + 1 < PID_MAX)
      BY <1>0, <2>2, <3>3, <3>4, <3>5, <3>6, <3>7, <3>9
    <3> QED BY <3>8, <3>9
  <2>5. Progress(next, begin) = (d + 1) * K + next.i - 1
    BY <1>2, <2>4 DEF Progress
  <2>6. PICK x \in Nat : x = d * K
    BY <1>3
  <2>7. (d + 1) * K = x + K
    BY <1>3, <2>6
  <2> QED BY <1>3, <1>6, <2>2, <2>3, <2>5, <2>6, <2>7
<1> QED BY <1>1, <1>7, <1>8

\* No pid is looked at twice, so that the loop has ended.
LEMMA ScanEnds ==
  ASSUME Pids!PidAllocAssumption, PidsTyped, Low, NEW start, start = Pids!Wrapped(last_pid + 1),
         NEW r, r = Pids!Scan(start, last_pid)
  PROVE  r \in Round /\ Looked(r) /\ Ahead(r, last_pid) /\ ~ Going(r)
<1>0. /\ PID_MAX \in Nat /\ RESERVED \in 2 .. PID_MAX - 1 /\ Len(list) \in Nat
      /\ last_pid \in 1 .. PID_MAX - 1
  BY LenProperties DEF Pids!PidAllocAssumption, PidsTyped, Id
<1>1. PICK begin \in Id : begin = last_pid
  BY DEF PidsTyped
<1>2. start = (IF begin + 1 < PID_MAX THEN begin + 1 ELSE RESERVED) /\ start \in Id
  BY <1>0, <1>1 DEF Pids!Wrapped, Id
<1>3. PICK f : Rounds(f, start, begin) /\ Pids!Scan(start, begin) = f[Enough]
  BY <1>2, ScanIs
<1>4. r = f[Enough]
  BY <1>1, <1>3
<1>5. \A n \in Nat : f[n] \in Round /\ f[n + 1] = Pids!Look(f[n], begin)
  BY <1>3 DEF Rounds
<1>6. PICK s : s = f[0]
  OBVIOUS
<1>7. s.ok = TRUE /\ s.last = start /\ s.i = 1
  BY <1>3, <1>6 DEF Rounds
<1>8. \A n \in Nat : Looked(f[n])
  <2> DEFINE N == {n \in Nat : Looked(f[n])}
  <2>1. 0 \in N
    <3>1. Looked(s)
      BY <1>0, <1>7 DEF Looked
    <3> QED BY <1>6, <3>1
  <2>2. ASSUME NEW n \in Nat, n \in N PROVE n + 1 \in N
    <3>1. n + 1 \in Nat
      OBVIOUS
    <3>2. Looked(Pids!Look(f[n], begin))
      BY <1>5, <2>2, LooksOn
    <3> QED BY <1>5, <3>1, <3>2
  <2> HIDE DEF N
  <2>3. Nat \subseteq N
    BY <2>1, <2>2, NatSet
  <2> QED BY <2>3 DEF N
<1>9. \A n \in Nat : Ahead(f[n], begin)
  <2> DEFINE N == {n \in Nat : Ahead(f[n], begin)}
  <2>1. 0 \in N
    <3>1. Ahead(s, begin)
      BY <1>0, <1>1, <1>2, <1>7 DEF Ahead, Behind, Id
    <3> QED BY <1>6, <3>1
  <2>2. ASSUME NEW n \in Nat, n \in N PROVE n + 1 \in N
    <3>1. n + 1 \in Nat
      OBVIOUS
    <3>2. Ahead(Pids!Look(f[n], begin), begin)
      BY <1>5, <2>2, GoesOn
    <3> QED BY <1>5, <3>1, <3>2
  <2> HIDE DEF N
  <2>3. Nat \subseteq N
    BY <2>1, <2>2, NatSet
  <2> QED BY <2>3 DEF N
<1> DEFINE Far(n) == Going(f[n]) => /\ Progress(f[n], begin) \in Nat /\ Progress(f[n], begin) >= n
                                    /\ begin >= RESERVED \/ f[n].last = begin + 1
<1>10. begin >= RESERVED \/ \A m \in Pids!Used : m <= begin
  BY <1>1, UsedIs DEF Low, Below
<1>11. Far(0)
  <2>1. begin >= RESERVED \/ s.last = begin + 1
    BY <1>0, <1>2, <1>7 DEF Id
  <2>2. Passed(s, begin) \in Nat
    BY <1>0, <1>2, <1>7 DEF Passed, Id
  <2>3. Progress(s, begin) \in Nat
    BY <1>0, <1>7, <2>2 DEF Progress
  <2> QED BY <1>6, <2>1, <2>3
<1>12. ASSUME NEW n \in Nat, Far(n) PROVE Far(n + 1)
  <2> SUFFICES ASSUME Going(f[n + 1])
               PROVE  /\ Progress(f[n + 1], begin) \in Nat /\ Progress(f[n + 1], begin) >= n + 1
                      /\ begin >= RESERVED \/ f[n + 1].last = begin + 1
    OBVIOUS
  <2>1. PICK t \in Round : t = f[n]
    BY <1>5
  <2>2. PICK u : u = f[n + 1]
    OBVIOUS
  <2>3. u = Pids!Look(t, begin) /\ Going(u) /\ Ahead(t, begin)
    BY <1>5, <1>9, <2>1, <2>2
  <2>4. Going(t)
    BY <2>3, LookIs, <1>0 DEF Going, Round
  <2>5. /\ Progress(t, begin) \in Nat /\ Progress(t, begin) >= n
        /\ begin >= RESERVED \/ t.last = begin + 1
    BY <1>12, <2>1, <2>4
  <2>6. /\ Progress(u, begin) \in Nat /\ Progress(u, begin) >= Progress(t, begin) + 1
        /\ begin >= RESERVED \/ u.last = begin + 1
    BY <1>10, <2>3, <2>4, <2>5, GetsOn
  <2> QED BY <2>2, <2>5, <2>6
<1>13. \A n \in Nat : Far(n)
  <2> DEFINE N == {n \in Nat : Far(n)}
  <2>1. 0 \in N
    BY <1>11
  <2>2. ASSUME NEW n \in Nat, n \in N PROVE n + 1 \in N
    <3>1. n + 1 \in Nat /\ Far(n)
      BY <2>2
    <3>2. Far(n + 1)
      <4> HIDE DEF Far
      <4> QED BY <1>12, <3>1
    <3> QED BY <3>1, <3>2
  <2> HIDE DEF N
  <2>3. Nat \subseteq N
    BY <2>1, <2>2, NatSet
  <2> QED BY <2>3 DEF N
<1>14. PICK K \in Nat : K = Len(list) + 1
  BY <1>0
<1>15. Enough = PID_MAX * K /\ Enough \in Nat
  BY <1>0, <1>14 DEF Enough
<1>16. r \in Round /\ Looked(r) /\ Ahead(r, begin)
  BY <1>4, <1>5, <1>8, <1>9, <1>15
<1>17. ASSUME Going(r) PROVE FALSE
  <2>1. Progress(r, begin) >= Enough /\ (begin >= RESERVED \/ r.last = begin + 1)
    BY <1>4, <1>13, <1>15, <1>17
  <2>2. PICK d : d = Passed(r, begin)
    OBVIOUS
  <2>3. d \in Nat /\ d <= PID_MAX - 1
    BY <1>0, <1>16, <2>1, <2>2 DEF Passed, Ahead, Behind, Round, Id
  <2>4. d * K <= (PID_MAX - 1) * K
    BY <1>0, <2>3
  <2>5. (PID_MAX - 1) * K = PID_MAX * K - K
    BY <1>0
  <2>6. Progress(r, begin) = d * K + r.i - 1
    BY <1>14, <2>2 DEF Progress
  <2>7. r.i \in Nat /\ r.i < K
    BY <1>14, <1>16, <1>17, <1>0 DEF Going, Round
  <2>8. PICK x \in Nat : x = d * K
    BY <2>3
  <2>9. PICK y \in Nat : y = PID_MAX * K
    BY <1>0
  <2> QED BY <1>15, <2>1, <2>4, <2>5, <2>6, <2>7, <2>8, <2>9
<1> QED BY <1>1, <1>16, <1>17

LEMMA GetPidIs ==
  ASSUME Pids!PidAllocAssumption, PidsTyped, Low, NEW r, r = Pids!get_pid
  PROVE  /\ r.ok \in BOOLEAN /\ r.last \in Id /\ r.safe \in 2 .. PID_MAX
         /\ r.last > last_pid \/ r.last >= RESERVED
         /\ ~ r.ok => RESERVED .. PID_MAX - 1 \subseteq Pids!Used \cup {last_pid}
         /\ r.ok /\ Pids!WindowFree =>
              r.last \notin Pids!Used /\ \A m \in Pids!Used : ~ (r.last < m /\ m < r.safe)
<1>0. /\ PID_MAX \in Nat /\ RESERVED \in 2 .. PID_MAX - 1 /\ Len(list) \in Nat
      /\ last_pid \in 1 .. PID_MAX - 1 /\ next_safe \in 2 .. PID_MAX
  BY LenProperties DEF Pids!PidAllocAssumption, PidsTyped, Id
<1>1. CASE Pids!MustScan(last_pid + 1)
  <2>1. r = Pids!Scan(Pids!Wrapped(last_pid + 1), last_pid)
    BY <1>1 DEF Pids!get_pid
  <2>2. PICK start : start = Pids!Wrapped(last_pid + 1)
    OBVIOUS
  <2>3. r = Pids!Scan(start, last_pid)
    BY <2>1, <2>2
  <2>4. r \in Round /\ Looked(r) /\ Ahead(r, last_pid) /\ ~ Going(r)
    BY <2>2, <2>3, ScanEnds
  <2>5. r.ok \in BOOLEAN /\ r.last \in Id /\ r.safe \in 2 .. PID_MAX /\ r.i \in Nat
    BY <2>4 DEF Round
  <2>6. r.last > last_pid \/ r.last >= RESERVED
    BY <2>4 DEF Ahead, Behind
  <2>7. ASSUME ~ r.ok PROVE RESERVED .. PID_MAX - 1 \subseteq Pids!Used \cup {last_pid}
    <3>1. r.last = last_pid
      BY <2>4, <2>7 DEF Ahead
    <3>2. RESERVED .. PID_MAX - 1 \subseteq Id
      BY <1>0 DEF Id
    <3>3. \A m \in Id : last_pid < m \/ (RESERVED <= m /\ m < last_pid) => m \in Pids!Used
      BY <1>0, <2>4, <3>1 DEF Ahead, Behind
    <3>4. ASSUME NEW m \in RESERVED .. PID_MAX - 1 PROVE m \in Pids!Used \cup {last_pid}
      <4>1. m \in Id /\ (last_pid < m \/ m < last_pid \/ m = last_pid)
        BY <1>0, <3>2
      <4> QED BY <3>3, <4>1
    <3> QED BY <3>4
  <2>8. ASSUME r.ok PROVE r.last \notin Pids!Used /\ \A m \in Pids!Used : ~ (r.last < m /\ m < r.safe)
    <3> SUFFICES ASSUME NEW m \in Pids!Used PROVE m # r.last /\ ~ (r.last < m /\ m < r.safe)
      OBVIOUS
    <3>1. PICK j \in 1 .. Len(list) : m \in Pids!Ids(list[j])
      BY UsedIs
    <3>2. j < r.i
      BY <1>0, <2>4, <2>5, <2>8, <3>1 DEF Going
    <3> QED BY <2>4, <3>1, <3>2 DEF Looked
  <2> QED BY <2>5, <2>6, <2>7, <2>8
<1>2. CASE ~ Pids!MustScan(last_pid + 1)
  <2>1. r = [ok |-> TRUE, last |-> last_pid + 1, safe |-> next_safe]
    BY <1>2 DEF Pids!get_pid
  <2>2. r.ok = TRUE /\ r.last = last_pid + 1 /\ r.safe = next_safe
    BY <2>1
  <2>3. last_pid + 1 < PID_MAX /\ last_pid + 1 < next_safe
    BY <1>0, <1>2 DEF Pids!MustScan
  <2>4. Pids!Used \subseteq 1 .. PID_MAX - 1
    BY UsedIs DEF Id
  <2>5. ASSUME Pids!WindowFree
        PROVE  r.last \notin Pids!Used /\ \A m \in Pids!Used : ~ (r.last < m /\ m < r.safe)
    <3> SUFFICES ASSUME NEW m \in Pids!Used PROVE m # r.last /\ ~ (r.last < m /\ m < r.safe)
      OBVIOUS
    <3>1. ~ (last_pid < m /\ m < next_safe) /\ m \in Nat
      BY <2>4, <2>5 DEF Pids!WindowFree
    <3> QED BY <1>0, <2>2, <2>3, <3>1
  <2>6. r.last \in Id /\ r.last > last_pid
    BY <1>0, <2>2, <2>3 DEF Id
  <2> QED BY <1>0, <2>2, <2>5, <2>6
<1> QED BY <1>1, <1>2

-----------------------------------------------------------------------------
(* Tasks that fork.                                                        *)

PidInv == PidsTyped /\ Low

LEMMA PidsInit ==
  ASSUME Pids!PidAllocAssumption, Pids!Init
  PROVE  PidInv
<1>0. PID_MAX \in Nat /\ RESERVED \in 2 .. PID_MAX - 1
  BY DEF Pids!PidAllocAssumption
<1>1. PICK t : t = [pid |-> 1, pgrp |-> 1, tgid |-> 1, session |-> 1]
  OBVIOUS
<1>2. t \in IdTask /\ Pids!Ids(t) = {1}
  BY <1>0, <1>1 DEF IdTask, Id, Pids!Ids
<1>3. list = <<t>> /\ made = <<>> /\ last_pid = 1 /\ next_safe = PID_MAX /\ failed = FALSE
  BY <1>1 DEF Pids!Init
<1>4. PidsTyped
  <2>1. list \in Seq(IdTask) /\ made \in Seq(IdTask)
    BY <1>2, <1>3
  <2>2. last_pid \in Id /\ next_safe \in 2 .. PID_MAX
    BY <1>0, <1>3 DEF Id
  <2>3. failed \in BOOLEAN
    BY <1>3
  <2> QED BY <2>1, <2>2, <2>3 DEF PidsTyped
<1>5. Len(list) = 1 /\ list[1] = t /\ Len(made) = 0
  BY <1>3
<1>6. \A i \in 1 .. Len(list) : Below(list[i])
  BY <1>2, <1>3, <1>5 DEF Below
<1> QED BY <1>4, <1>5, <1>6 DEF PidInv, Low

\* r is the sequence s without its i-th element.
Removed(T, s, i, r) ==
  /\ r \in Seq(T) /\ Len(r) \in Nat /\ Len(r) = Len(s) - 1
  /\ \A j \in 1 .. Len(r) : r[j] = s[IF j < i THEN j ELSE j + 1]
  /\ \A j \in 1 .. Len(r) : \E k \in 1 .. Len(s) : r[j] = s[k]

LEMMA RemovedAt ==
  ASSUME NEW T, NEW s \in Seq(T), NEW i \in 1 .. Len(s), NEW r, r = Pids!RemoveAt(s, i)
  PROVE  Removed(T, s, i, r)
<1>0. Len(s) \in Nat /\ \A j \in 1 .. Len(s) : s[j] \in T
  BY LenProperties, ElementOfSeq
<1>1. PICK a : a = SubSeq(s, 1, i - 1)
  OBVIOUS
<1>2. PICK b : b = SubSeq(s, i + 1, Len(s))
  OBVIOUS
<1>3. a \in Seq(T) /\ Len(a) = i - 1 /\ \A j \in 1 .. i - 1 : a[j] = s[j]
  <2>1. \A j \in 1 .. i - 1 : s[j] \in T
    BY <1>0
  <2>2. 1 \in Int /\ i - 1 \in Int
    BY <1>0
  <2>3. /\ SubSeq(s, 1, i - 1) \in Seq(T)
        /\ Len(SubSeq(s, 1, i - 1)) = IF 1 <= i - 1 THEN (i - 1) - 1 + 1 ELSE 0
        /\ \A j \in 1 .. (i - 1) - 1 + 1 : SubSeq(s, 1, i - 1)[j] = s[1 + j - 1]
    BY <2>1, <2>2, SubSeqProperties
  <2> QED BY <1>0, <1>1, <2>3
<1>4. b \in Seq(T) /\ Len(b) = Len(s) - i /\ \A j \in 1 .. Len(s) - i : b[j] = s[i + j]
  <2>1. \A j \in i + 1 .. Len(s) : s[j] \in T
    BY <1>0
  <2>2. i + 1 \in Int /\ Len(s) \in Int
    BY <1>0
  <2>3. /\ SubSeq(s, i + 1, Len(s)) \in Seq(T)
        /\ Len(SubSeq(s, i + 1, Len(s))) = IF i + 1 <= Len(s) THEN Len(s) - (i + 1) + 1 ELSE 0
        /\ \A j \in 1 .. Len(s) - (i + 1) + 1 : SubSeq(s, i + 1, Len(s))[j] = s[(i + 1) + j - 1]
    BY <2>1, <2>2, SubSeqProperties
  <2> QED BY <1>0, <1>2, <2>3
<1>5. r = a \o b
  BY <1>1, <1>2 DEF Pids!RemoveAt
<1>6. /\ a \o b \in Seq(T) /\ Len(a \o b) = Len(a) + Len(b)
      /\ \A j \in 1 .. Len(a) + Len(b) : (a \o b)[j] = IF j <= Len(a) THEN a[j] ELSE b[j - Len(a)]
  BY <1>3, <1>4, ConcatProperties
<1>7. Len(r) = Len(s) - 1 /\ r \in Seq(T)
  BY <1>0, <1>3, <1>4, <1>5, <1>6
<1>8. ASSUME NEW j \in 1 .. Len(r) PROVE r[j] = s[IF j < i THEN j ELSE j + 1]
  <2>1. r[j] = IF j <= i - 1 THEN a[j] ELSE b[j - (i - 1)]
    BY <1>0, <1>3, <1>4, <1>5, <1>6, <1>7
  <2>2. CASE j < i
    BY <1>0, <1>3, <2>1, <2>2
  <2>3. CASE ~ (j < i)
    <3>1. PICK k : k = j - (i - 1)
      OBVIOUS
    <3>2. k \in 1 .. Len(s) - i /\ i + k = j + 1
      BY <1>0, <1>7, <2>3, <3>1
    <3> QED BY <1>0, <1>4, <2>1, <2>3, <3>1, <3>2
  <2> QED BY <2>2, <2>3
<1>9. ASSUME NEW j \in 1 .. Len(r) PROVE \E k \in 1 .. Len(s) : r[j] = s[k]
  <2>1. PICK k : k = IF j < i THEN j ELSE j + 1
    OBVIOUS
  <2>2. k \in 1 .. Len(s)
    BY <1>0, <1>7, <2>1
  <2> QED BY <1>8, <2>1, <2>2
<1>10. Len(r) \in Nat
  BY <1>0, <1>7
<1> QED BY <1>7, <1>8, <1>9, <1>10, Zenon DEF Removed

\* The child that get_pid makes room for.
NewTask(i, thread, r) ==
  [pid |-> r.last, pgrp |-> list[i].pgrp, session |-> list[i].session,
   tgid |-> IF thread THEN list[i].tgid ELSE r.last]

LEMMA NewTaskIs ==
  ASSUME PidsTyped, NEW i \in 1 .. Len(list), NEW thread \in BOOLEAN, NEW r, r.last \in Id,
         NEW t, t = NewTask(i, thread, r)
  PROVE  t \in IdTask /\ t.pid = r.last /\ Pids!Ids(t) \subseteq Pids!Ids(list[i]) \cup {r.last}
<1>1. PICK p : p = list[i]
  OBVIOUS
<1>2. p \in IdTask
  BY <1>1, LenProperties, InList DEF PidsTyped
<1>3. t = [pid |-> r.last, pgrp |-> p.pgrp, session |-> p.session,
           tgid |-> IF thread THEN p.tgid ELSE r.last]
  BY <1>1 DEF NewTask
<1>4. t \in IdTask /\ t.pid = r.last
  BY <1>2, <1>3 DEF IdTask
<1>5. Pids!Ids(t) = {r.last, p.pgrp, p.session, IF thread THEN p.tgid ELSE r.last}
  BY <1>3 DEF Pids!Ids
<1>6. Pids!Ids(list[i]) = {p.pid, p.pgrp, p.tgid, p.session}
  BY <1>1 DEF Pids!Ids
<1>7. Pids!Ids(t) \subseteq Pids!Ids(list[i]) \cup {r.last}
  BY <1>5, <1>6
<1> QED BY <1>4, <1>7

LEMMA ForkPidKeeps ==
  ASSUME Pids!PidAllocAssumption, PidInv, NEW i \in DOMAIN list, NEW thread \in BOOLEAN,
         Pids!ForkPid(i, thread)
  PROVE  PidInv'
<1>1. PICK r : r = Pids!get_pid
  OBVIOUS
<1>2. PICK t : t = NewTask(i, thread, r)
  OBVIOUS
<1>3. /\ last_pid' = r.last /\ next_safe' = r.safe /\ failed' = ~ r.ok /\ list' = list
      /\ made' = IF r.ok THEN Append(made, t) ELSE made
  BY <1>1, <1>2 DEF Pids!ForkPid, NewTask
<1>4. /\ r.ok \in BOOLEAN /\ r.last \in Id /\ r.safe \in 2 .. PID_MAX
      /\ r.last > last_pid \/ r.last >= RESERVED
  BY <1>1, GetPidIs DEF PidInv
<1>5. i \in 1 .. Len(list)
  BY LenProperties DEF PidInv, PidsTyped
<1>6. t \in IdTask /\ \A m \in Pids!Ids(t) : m = r.last \/ m \in Pids!Ids(list[i])
  <2>1. t \in IdTask /\ Pids!Ids(t) \subseteq Pids!Ids(list[i]) \cup {r.last}
    BY <1>2, <1>4, <1>5, NewTaskIs DEF PidInv
  <2> QED BY <2>1
<1>7. /\ list \in Seq(IdTask) /\ made \in Seq(IdTask) /\ Len(made) \in Nat
      /\ last_pid \in 1 .. PID_MAX - 1 /\ PID_MAX \in Nat /\ RESERVED \in Nat
  BY LenProperties DEF PidInv, PidsTyped, Id, Pids!PidAllocAssumption
<1>8. made' \in Seq(IdTask)
  BY <1>3, <1>6, <1>7, AppendProperties
<1>9. PidsTyped'
  <2>1. failed' \in BOOLEAN
    BY <1>3
  <2> QED BY <1>3, <1>4, <1>7, <1>8, <2>1 DEF PidsTyped
<1>10. Low'
  <2>1. CASE r.last >= RESERVED
    BY <1>3, <2>1 DEF Low
  <2>2. CASE ~ (r.last >= RESERVED)
    <3>1. r.last \in Nat /\ r.last > last_pid /\ ~ (last_pid >= RESERVED)
      BY <1>4, <1>7, <2>2 DEF Id
    <3>2. ASSUME NEW u \in IdTask, Below(u) PROVE \A m \in Pids!Ids(u) : m <= r.last
      <4>1. \A m \in Pids!Ids(u) : m \in Nat
        BY <3>2, IdsIn, <1>7 DEF Id
      <4> QED BY <1>7, <3>1, <3>2, <4>1 DEF Below
    <3>3. \A j \in 1 .. Len(list) : list[j] \in IdTask /\ Below(list[j])
      BY <1>7, <3>1, ElementOfSeq DEF PidInv, Low
    <3>4. \A j \in 1 .. Len(made) : made[j] \in IdTask /\ Below(made[j])
      BY <1>7, <3>1, ElementOfSeq DEF PidInv, Low
    <3>5. \A j \in 1 .. Len(list) : \A m \in Pids!Ids(list[j]) : m <= r.last
      BY <3>2, <3>3
    <3>6. \A m \in Pids!Ids(t) : m <= r.last
      BY <1>5, <1>6, <3>1, <3>5
    <3>7. \A j \in 1 .. Len(made') : \A m \in Pids!Ids(made'[j]) : m <= r.last
      <4>1. CASE r.ok
        <5>1. made' = Append(made, t)
          BY <1>3, <4>1
        <5>2. Len(made') = Len(made) + 1 /\ \A j \in 1 .. Len(made) + 1 : made'[j] = IF j <= Len(made) THEN made[j] ELSE t
          BY <1>6, <1>7, <5>1, AppendProperties
        <5> QED BY <1>7, <3>2, <3>4, <3>6, <5>2
      <4>2. CASE ~ r.ok
        BY <1>3, <3>2, <3>4, <4>2
      <4> QED BY <4>1, <4>2
    <3>8. \A j \in 1 .. Len(list') : \A m \in Pids!Ids(list'[j]) : m <= last_pid'
      BY <1>3, <3>5
    <3>9. \A j \in 1 .. Len(made') : \A m \in Pids!Ids(made'[j]) : m <= last_pid'
      BY <1>3, <3>7
    <3> QED BY <3>8, <3>9 DEF Low, Below
  <2> QED BY <2>1, <2>2
<1> QED BY <1>9, <1>10 DEF PidInv

\* Whose ids a task of the list, or a child under way, had before the step.
Held(t) ==
  \A m \in Pids!Ids(t) :
    (\E i \in 1 .. Len(list) : m \in Pids!Ids(list[i])) \/ \E i \in 1 .. Len(made) : m \in Pids!Ids(made[i])
Lives(t) == \A m \in Pids!Ids(t) : \E i \in 1 .. Len(list) : m \in Pids!Ids(list[i])
Clear(t) == \A m \in Pids!Ids(t) : ~ (last_pid < m /\ m < next_safe)
AllClear == (\A i \in 1 .. Len(list) : Clear(list[i])) /\ \A i \in 1 .. Len(made) : Clear(made[i])

\* A step that takes no pid and brings no new ids.
Others ==
  /\ UNCHANGED <<last_pid, next_safe, failed>>
  /\ list' \in Seq(IdTask) /\ \A j \in 1 .. Len(list') : Held(list'[j])
  /\ made' \in Seq(IdTask) /\ \A j \in 1 .. Len(made') : Held(made'[j])

LEMMA OthersKeep ==
  ASSUME PidInv, Others
  PROVE  PidInv' /\ (AllClear => AllClear')
<1>1. PidsTyped'
  BY DEF PidInv, PidsTyped, Others
<1>2. Low'
  <2>1. CASE last_pid >= RESERVED
    BY <2>1 DEF Low, Others
  <2>2. CASE ~ (last_pid >= RESERVED)
    <3>1. ASSUME NEW u, Held(u) PROVE Below(u)
      BY <2>2, <3>1 DEF PidInv, Low, Held, Below
    <3>2. /\ \A j \in 1 .. Len(list') : Below(list'[j])
          /\ \A j \in 1 .. Len(made') : Below(made'[j])
      BY <3>1 DEF Others
    <3>3. last_pid' = last_pid
      BY DEF Others
    <3> QED BY <3>2, <3>3 DEF Low, Below
  <2> QED BY <2>1, <2>2
<1>3. ASSUME AllClear PROVE AllClear'
  <2>1. ASSUME NEW u, Held(u) PROVE Clear(u)
    BY <1>3, <2>1 DEF AllClear, Held, Clear
  <2>2. /\ \A j \in 1 .. Len(list') : Clear(list'[j])
        /\ \A j \in 1 .. Len(made') : Clear(made'[j])
    BY <2>1 DEF Others
  <2>3. last_pid' = last_pid /\ next_safe' = next_safe
    BY DEF Others
  <2> QED BY <2>2, <2>3 DEF AllClear, Clear
<1> QED BY <1>1, <1>2, <1>3 DEF PidInv

LEMMA HeldNow ==
  /\ \A j \in 1 .. Len(list) : Held(list[j])
  /\ \A j \in 1 .. Len(made) : Held(made[j])
BY DEF Held

\* What SET_LINKS does.
LEMMA ForkDoneIs ==
  ASSUME PidInv, NEW i \in DOMAIN made, Pids!ForkDone(i)
  PROVE  /\ Others
         /\ i \in 1 .. Len(made) /\ Len(list') = Len(list) + 1 /\ Len(made') = Len(made) - 1
         /\ \A j \in 1 .. Len(list') : list'[j] = IF j <= Len(list) THEN list[j] ELSE made[i]
<1>1. /\ list \in Seq(IdTask) /\ Len(list) \in Nat /\ made \in Seq(IdTask) /\ Len(made) \in Nat
      /\ i \in 1 .. Len(made)
  BY LenProperties DEF PidInv, PidsTyped
<1>2. PICK t : t = made[i]
  OBVIOUS
<1>3. t \in IdTask
  BY <1>1, <1>2, ElementOfSeq
<1>4. list' = Append(list, t) /\ made' = Pids!RemoveAt(made, i) /\ UNCHANGED <<last_pid, next_safe, failed>>
  BY <1>2 DEF Pids!ForkDone
<1>5. /\ list' \in Seq(IdTask) /\ Len(list') = Len(list) + 1
      /\ \A j \in 1 .. Len(list') : list'[j] = IF j <= Len(list) THEN list[j] ELSE t
  BY <1>1, <1>3, <1>4, AppendProperties
<1>6. PICK r : r = made'
  OBVIOUS
<1>7. /\ r \in Seq(IdTask) /\ Len(r) \in Nat /\ Len(r) = Len(made) - 1
      /\ \A j \in 1 .. Len(r) : r[j] = made[IF j < i THEN j ELSE j + 1]
      /\ \A j \in 1 .. Len(r) : \E k \in 1 .. Len(made) : r[j] = made[k]
  <2>1. Removed(IdTask, made, i, r)
    BY <1>1, <1>4, <1>6, RemovedAt
  <2> QED BY <2>1 DEF Removed
<1>8. ASSUME NEW j \in 1 .. Len(made') PROVE Held(made'[j])
  <2>1. \E k \in 1 .. Len(made) : made'[j] = made[k]
    BY <1>6, <1>7
  <2> QED BY <2>1, HeldNow
<1>9. ASSUME NEW j \in 1 .. Len(list') PROVE Held(list'[j])
  <2>1. (j \in 1 .. Len(list) /\ list'[j] = list[j]) \/ list'[j] = made[i]
    BY <1>1, <1>2, <1>5
  <2> QED BY <1>1, <2>1, HeldNow
<1>10. Others
  BY <1>4, <1>5, <1>6, <1>7, <1>8, <1>9 DEF Others
<1> QED BY <1>1, <1>2, <1>5, <1>6, <1>7, <1>10

LEMMA ForkFailsIs ==
  ASSUME PidInv, NEW i \in DOMAIN made, Pids!ForkFails(i)
  PROVE  Others /\ list' = list /\ i \in 1 .. Len(made) /\ Len(made') = Len(made) - 1
<1>1. list \in Seq(IdTask) /\ made \in Seq(IdTask) /\ Len(made) \in Nat /\ i \in 1 .. Len(made)
  BY LenProperties DEF PidInv, PidsTyped
<1>2. made' = Pids!RemoveAt(made, i) /\ UNCHANGED <<last_pid, next_safe, failed>> /\ list' = list
  BY DEF Pids!ForkFails
<1>3. PICK r : r = made'
  OBVIOUS
<1>4. /\ r \in Seq(IdTask) /\ Len(r) \in Nat /\ Len(r) = Len(made) - 1
      /\ \A j \in 1 .. Len(r) : r[j] = made[IF j < i THEN j ELSE j + 1]
      /\ \A j \in 1 .. Len(r) : \E k \in 1 .. Len(made) : r[j] = made[k]
  <2>1. Removed(IdTask, made, i, r)
    BY <1>1, <1>2, <1>3, RemovedAt
  <2> QED BY <2>1 DEF Removed
<1>5. ASSUME NEW j \in 1 .. Len(made') PROVE Held(made'[j])
  <2>1. \E k \in 1 .. Len(made) : made'[j] = made[k]
    BY <1>3, <1>4
  <2> QED BY <2>1, HeldNow
<1>6. Others
  BY <1>1, <1>2, <1>3, <1>4, <1>5, HeldNow DEF Others
<1> QED BY <1>1, <1>2, <1>3, <1>4, <1>6

LEMMA ReleaseIs ==
  ASSUME PidInv, NEW i \in DOMAIN list, Pids!Release(i)
  PROVE  /\ Others /\ made' = made /\ i \in 1 .. Len(list) /\ Len(list') = Len(list) - 1
         /\ \A j \in 1 .. Len(list') : list'[j] = list[IF j < i THEN j ELSE j + 1]
<1>1. /\ list \in Seq(IdTask) /\ Len(list) \in Nat /\ made \in Seq(IdTask) /\ Len(made) \in Nat
      /\ i \in 1 .. Len(list)
  BY LenProperties DEF PidInv, PidsTyped
<1>2. list' = Pids!RemoveAt(list, i) /\ UNCHANGED <<last_pid, next_safe, failed>> /\ made' = made
  BY DEF Pids!Release
<1>3. PICK r : r = list'
  OBVIOUS
<1>4. /\ r \in Seq(IdTask) /\ Len(r) \in Nat /\ Len(r) = Len(list) - 1
      /\ \A j \in 1 .. Len(r) : r[j] = list[IF j < i THEN j ELSE j + 1]
      /\ \A j \in 1 .. Len(r) : \E k \in 1 .. Len(list) : r[j] = list[k]
  <2>1. Removed(IdTask, list, i, r)
    BY <1>1, <1>2, <1>3, RemovedAt
  <2> QED BY <2>1 DEF Removed
<1>5. ASSUME NEW j \in 1 .. Len(list') PROVE Held(list'[j])
  <2>1. \E k \in 1 .. Len(list) : list'[j] = list[k]
    BY <1>3, <1>4
  <2> QED BY <2>1, HeldNow
<1>6. Others
  BY <1>1, <1>2, <1>3, <1>4, <1>5, HeldNow DEF Others
<1> QED BY <1>1, <1>2, <1>3, <1>4, <1>6

\* A task takes other ids, but only such as live.
LEMMA SetIdsIs ==
  ASSUME PidInv, NEW i \in DOMAIN list, NEW t \in IdTask, Pids!SetIds(i, t), Lives(t)
  PROVE  /\ Others /\ made' = made /\ i \in 1 .. Len(list) /\ Len(list') = Len(list)
         /\ \A j \in 1 .. Len(list) : list'[j] = IF j = i THEN t ELSE list[j]
<1>1. /\ list \in Seq(IdTask) /\ Len(list) \in Nat /\ made \in Seq(IdTask) /\ Len(made) \in Nat
      /\ i \in 1 .. Len(list)
  BY LenProperties DEF PidInv, PidsTyped
<1>2. list' = [list EXCEPT ![i] = t] /\ UNCHANGED <<last_pid, next_safe, failed>> /\ made' = made
  BY DEF Pids!SetIds
<1>3. /\ list' \in Seq(IdTask) /\ Len(list') = Len(list)
      /\ \A j \in 1 .. Len(list) : list'[j] = IF j = i THEN t ELSE list[j]
  BY <1>1, <1>2, ExceptSeq
<1>4. ASSUME NEW j \in 1 .. Len(list') PROVE Held(list'[j])
  <2>1. list'[j] = t \/ list'[j] = list[j]
    BY <1>3
  <2>2. Held(t)
    BY DEF Held, Lives
  <2> QED BY <1>3, <2>1, <2>2, HeldNow
<1>5. Others
  BY <1>1, <1>2, <1>3, <1>4, HeldNow DEF Others
<1> QED BY <1>1, <1>2, <1>3, <1>5

LEMMA SetpgidIs ==
  ASSUME PidInv, NEW i \in DOMAIN list, Pids!setpgid(i)
  PROVE  \E t \in IdTask : Pids!SetIds(i, t) /\ Lives(t) /\ t.pid = list[i].pid
<1>1. /\ list \in Seq(IdTask) /\ Len(list) \in Nat /\ i \in 1 .. Len(list) /\ DOMAIN list = 1 .. Len(list)
  BY LenProperties DEF PidInv, PidsTyped
<1>2. PICK p \in IdTask : p = list[i]
  BY <1>1, ElementOfSeq
<1>3. Pids!Ids(p) = {p.pid, p.pgrp, p.tgid, p.session}
  BY DEF Pids!Ids
<1>4. CASE Pids!SetIds(i, [p EXCEPT !.pgrp = p.pid])
  <2>1. PICK t : t = [p EXCEPT !.pgrp = p.pid]
    OBVIOUS
  <2>2. t \in IdTask /\ t.pid = p.pid /\ Pids!Ids(t) = {p.pid, p.tgid, p.session}
    BY <1>2, <2>1 DEF IdTask, Pids!Ids
  <2>3. Lives(t)
    BY <1>1, <1>2, <1>3, <2>2 DEF Lives
  <2> QED BY <1>2, <1>4, <2>1, <2>2, <2>3
<1>5. CASE \E j \in DOMAIN list : Pids!SetIds(i, [p EXCEPT !.pgrp = list[j].pgrp])
  <2>1. PICK j \in DOMAIN list : Pids!SetIds(i, [p EXCEPT !.pgrp = list[j].pgrp])
    BY <1>5
  <2>2. PICK q \in IdTask : q = list[j]
    BY <1>1, ElementOfSeq
  <2>3. PICK t : t = [p EXCEPT !.pgrp = q.pgrp]
    OBVIOUS
  <2>4. t \in IdTask /\ t.pid = p.pid /\ Pids!Ids(t) = {p.pid, q.pgrp, p.tgid, p.session}
    BY <1>2, <2>2, <2>3 DEF IdTask, Pids!Ids
  <2>5. q.pgrp \in Pids!Ids(q)
    BY DEF Pids!Ids
  <2>6. Lives(t)
    BY <1>1, <1>2, <1>3, <2>2, <2>4, <2>5 DEF Lives
  <2>7. Pids!SetIds(i, t)
    BY <2>1, <2>2, <2>3
  <2> QED BY <1>2, <2>4, <2>6, <2>7
<1> QED BY <1>2, <1>4, <1>5 DEF Pids!setpgid

LEMMA SetsidIs ==
  ASSUME PidInv, NEW i \in DOMAIN list, Pids!setsid(i)
  PROVE  \E t \in IdTask : Pids!SetIds(i, t) /\ Lives(t) /\ t.pid = list[i].pid
<1>1. /\ list \in Seq(IdTask) /\ Len(list) \in Nat /\ i \in 1 .. Len(list)
  BY LenProperties DEF PidInv, PidsTyped
<1>2. PICK p \in IdTask : p = list[i]
  BY <1>1, ElementOfSeq
<1>3. Pids!Ids(p) = {p.pid, p.pgrp, p.tgid, p.session}
  BY DEF Pids!Ids
<1>4. PICK t : t = [p EXCEPT !.pgrp = p.pid, !.session = p.pid]
  OBVIOUS
<1>5. t \in IdTask /\ t.pid = p.pid /\ Pids!Ids(t) = {p.pid, p.tgid}
  BY <1>2, <1>4 DEF IdTask, Pids!Ids
<1>6. Lives(t)
  BY <1>1, <1>2, <1>3, <1>5 DEF Lives
<1>7. Pids!SetIds(i, t)
  BY <1>2, <1>4 DEF Pids!setsid
<1> QED BY <1>2, <1>5, <1>6, <1>7

LEMMA PidsKept ==
  ASSUME Pids!PidAllocAssumption, PidInv, [Pids!Next]_(Pids!vars)
  PROVE  PidInv'
<1>1. CASE UNCHANGED Pids!vars
  BY <1>1 DEF PidInv, PidsTyped, Low, Below, Pids!vars
<1>2. ASSUME NEW i \in DOMAIN list, NEW thread \in BOOLEAN, Pids!ForkPid(i, thread) PROVE PidInv'
  BY <1>2, ForkPidKeeps
<1>3. ASSUME NEW i \in DOMAIN list, Pids!Release(i) PROVE PidInv'
  BY <1>3, ReleaseIs, OthersKeep
<1>4. ASSUME NEW i \in DOMAIN list, NEW t \in IdTask, Pids!SetIds(i, t), Lives(t) PROVE PidInv'
  BY <1>4, SetIdsIs, OthersKeep
<1>5. ASSUME NEW i \in DOMAIN list, Pids!setpgid(i) PROVE PidInv'
  BY <1>4, <1>5, SetpgidIs
<1>6. ASSUME NEW i \in DOMAIN list, Pids!setsid(i) PROVE PidInv'
  BY <1>4, <1>6, SetsidIs
<1>7. ASSUME NEW i \in DOMAIN made, Pids!ForkDone(i) PROVE PidInv'
  BY <1>7, ForkDoneIs, OthersKeep
<1>8. ASSUME NEW i \in DOMAIN made, Pids!ForkFails(i) PROVE PidInv'
  BY <1>8, ForkFailsIs, OthersKeep
<1> QED BY <1>1, <1>2, <1>3, <1>5, <1>6, <1>7, <1>8 DEF Pids!Next

LEMMA PidsInvariant ==
  ASSUME Pids!PidAllocAssumption
  PROVE  Pids!Spec => []PidInv
<1>1. Pids!Init => PidInv
  BY PidsInit
<1>2. PidInv /\ [Pids!Next]_(Pids!vars) => PidInv'
  BY PidsKept
<1> QED BY <1>1, <1>2, PTL DEF Pids!Spec

\* Every pid, group, thread group and session has a number, however many tasks fork at once.
THEOREM PidTypeOK ==
  ASSUME Pids!PidAllocAssumption
  PROVE  Pids!Spec => []Pids!TypeOK
<1>1. PidInv => Pids!TypeOK
  BY UsedIs DEF PidInv, PidsTyped, Pids!TypeOK, Id
<1> QED BY <1>1, PidsInvariant, PTL

LEMMA FailsFull ==
  ASSUME Pids!PidAllocAssumption, PidInv, NEW i \in DOMAIN list, NEW thread \in BOOLEAN, Pids!ForkPid(i, thread)
  PROVE  /\ failed' => RESERVED .. PID_MAX - 1 \subseteq Pids!Used \cup {last_pid}
         /\ last_pid' < last_pid => last_pid' >= RESERVED
<1>1. PICK r : r = Pids!get_pid
  OBVIOUS
<1>2. last_pid' = r.last /\ failed' = ~ r.ok
  BY <1>1 DEF Pids!ForkPid
<1>3. /\ r.last \in Id /\ (r.last > last_pid \/ r.last >= RESERVED)
      /\ ~ r.ok => RESERVED .. PID_MAX - 1 \subseteq Pids!Used \cup {last_pid}
  BY <1>1, GetPidIs DEF PidInv
<1>4. last_pid \in Id
  BY DEF PidInv, PidsTyped
<1>5. r.last < last_pid => r.last >= RESERVED
  BY <1>3, <1>4 DEF Id, Pids!PidAllocAssumption
<1>6. failed' => RESERVED .. PID_MAX - 1 \subseteq Pids!Used \cup {last_pid}
  BY <1>2, <1>3
<1> QED BY <1>2, <1>5, <1>6

\* get_pid gives up only if all pids from RESERVED on are in use, and never starts again
\* below RESERVED: its loop ends, and has by then looked at them all.
THEOREM PidGivesUp ==
  ASSUME Pids!PidAllocAssumption
  PROVE  Pids!Spec => Pids!GivesUpOnlyIfFull
<1>1. PidInv /\ [Pids!Next]_(Pids!vars) =>
        [/\ failed' /\ ~ failed => RESERVED .. PID_MAX - 1 \subseteq Pids!Used \cup {last_pid}
         /\ last_pid' < last_pid => last_pid' >= RESERVED]_(Pids!vars)
  <2> SUFFICES ASSUME PidInv, Pids!Next
               PROVE  /\ failed' /\ ~ failed => RESERVED .. PID_MAX - 1 \subseteq Pids!Used \cup {last_pid}
                      /\ last_pid' < last_pid => last_pid' >= RESERVED
    OBVIOUS
  <2>1. CASE \E i \in DOMAIN list : \E thread \in BOOLEAN : Pids!ForkPid(i, thread)
    <3>1. PICK i \in DOMAIN list, thread \in BOOLEAN : Pids!ForkPid(i, thread)
      BY <2>1
    <3> QED BY <3>1, FailsFull
  <2>2. CASE UNCHANGED <<last_pid, failed>>
    <3>1. last_pid \in 1 .. PID_MAX - 1
      BY DEF PidInv, PidsTyped, Id
    <3> QED BY <2>2, <3>1 DEF Pids!PidAllocAssumption
  <2> QED BY <2>1, <2>2 DEF Pids!Next, Pids!Release, Pids!setpgid, Pids!setsid, Pids!SetIds,
                             Pids!ForkDone, Pids!ForkFails
<1> QED BY <1>1, PidsInvariant, PTL DEF Pids!Spec, Pids!GivesUpOnlyIfFull

-----------------------------------------------------------------------------
(* One call of do_fork at a time.                                          *)

\* The ids of all tasks are outside the window, and pids are different.
Fresh ==
  /\ AllClear /\ Len(made) <= 1
  /\ \A i, j \in 1 .. Len(list) : list[i].pid = list[j].pid => i = j
  /\ \A i \in 1 .. Len(made) : \A j \in 1 .. Len(list) : made[i].pid \notin Pids!Ids(list[j])

LEMMA FreshInit ==
  ASSUME Pids!PidAllocAssumption, Pids!Init
  PROVE  Fresh
<1>0. PID_MAX \in Nat
  BY DEF Pids!PidAllocAssumption
<1>1. PICK t : t = [pid |-> 1, pgrp |-> 1, tgid |-> 1, session |-> 1]
  OBVIOUS
<1>2. Pids!Ids(t) = {1}
  BY <1>1 DEF Pids!Ids
<1>3. list = <<t>> /\ made = <<>> /\ last_pid = 1
  BY <1>1 DEF Pids!Init
<1>4. Len(list) = 1 /\ list[1] = t /\ Len(made) = 0
  BY <1>3
<1>5. Clear(t)
  BY <1>2, <1>3 DEF Clear
<1>6. \A i \in 1 .. Len(list) : list[i] = t /\ i = 1
  BY <1>4
<1>7. ~ \E i \in 1 .. Len(made) : TRUE
  BY <1>4
<1> QED BY <1>4, <1>5, <1>6, <1>7 DEF Fresh, AllClear

LEMMA FreshIs ==
  ASSUME PidInv, Fresh
  PROVE  Pids!WindowFree /\ Pids!UniquePids
<1>1. /\ list \in Seq(IdTask) /\ Len(list) \in Nat /\ made \in Seq(IdTask) /\ Len(made) \in Nat
  BY LenProperties DEF PidInv, PidsTyped
<1>2. Pids!WindowFree
  BY UsedIs DEF PidInv, Fresh, AllClear, Clear, Pids!WindowFree
<1>3. \A i \in DOMAIN made : made[i].pid \notin Pids!Used
  <2>1. DOMAIN made = 1 .. Len(made)
    BY <1>1, LenProperties
  <2> QED BY <2>1, UsedIs DEF PidInv, Fresh
<1>4. PICK s : s = list \o made
  OBVIOUS
<1>5. /\ s \in Seq(IdTask) /\ Len(s) = Len(list) + Len(made)
      /\ \A i \in 1 .. Len(list) + Len(made) : s[i] = IF i <= Len(list) THEN list[i] ELSE made[i - Len(list)]
  BY <1>1, <1>4, ConcatProperties
<1>6. DOMAIN s = 1 .. Len(list) + Len(made)
  BY <1>5, LenProperties
<1>7. ASSUME NEW i \in DOMAIN s, NEW j \in DOMAIN s, s[i].pid = s[j].pid PROVE i = j
  <2>1. \A k \in 1 .. Len(list) : list[k].pid \in Pids!Ids(list[k])
    BY DEF Pids!Ids
  <2>2. /\ i \in 1 .. Len(list) + Len(made) /\ j \in 1 .. Len(list) + Len(made) /\ Len(made) <= 1
    BY <1>6 DEF Fresh
  <2>3. \A k \in DOMAIN s : (k \in 1 .. Len(list) /\ s[k] = list[k])
                            \/ (k = Len(list) + 1 /\ s[k] = made[1] /\ 1 \in 1 .. Len(made))
    <3> SUFFICES ASSUME NEW k \in DOMAIN s
                 PROVE (k \in 1 .. Len(list) /\ s[k] = list[k])
                       \/ (k = Len(list) + 1 /\ s[k] = made[1] /\ 1 \in 1 .. Len(made))
      OBVIOUS
    <3>1. k \in 1 .. Len(list) + Len(made) /\ s[k] = IF k <= Len(list) THEN list[k] ELSE made[k - Len(list)]
      BY <1>5, <1>6
    <3>2. CASE k <= Len(list)
      BY <1>1, <3>1, <3>2
    <3>3. CASE ~ (k <= Len(list))
      <4>1. k = Len(list) + 1 /\ k - Len(list) = 1 /\ 1 <= Len(made)
        BY <1>1, <2>2, <3>1, <3>3
      <4> QED BY <1>1, <3>1, <3>3, <4>1
    <3> QED BY <3>2, <3>3
  <2>4. CASE i \in 1 .. Len(list) /\ s[i] = list[i]
    BY <1>7, <2>1, <2>3, <2>4 DEF Fresh
  <2>5. CASE i = Len(list) + 1 /\ s[i] = made[1] /\ 1 \in 1 .. Len(made)
    BY <1>7, <2>1, <2>3, <2>5 DEF Fresh
  <2> QED BY <2>3, <2>4, <2>5
<1>8. Pids!IsInjective([i \in DOMAIN s |-> s[i].pid])
  BY <1>7 DEF Pids!IsInjective
<1>9. Pids!IsInjective([i \in DOMAIN (list \o made) |-> (list \o made)[i].pid])
  BY <1>4, <1>8
<1> QED BY <1>2, <1>3, <1>9 DEF Pids!UniquePids

\* A pid that get_pid hands out is nobody's, and the window above it is free.
LEMMA ForkPidFresh ==
  ASSUME Pids!PidAllocAssumption, MaxForks = 1, PidInv, Fresh, NEW i \in DOMAIN list, NEW thread \in BOOLEAN,
         Pids!ForkPid(i, thread), ~ failed'
  PROVE  Fresh'
<1>0. /\ list \in Seq(IdTask) /\ Len(list) \in Nat /\ made \in Seq(IdTask) /\ Len(made) \in Nat
      /\ i \in 1 .. Len(list)
  BY LenProperties DEF PidInv, PidsTyped
<1>1. PICK r : r = Pids!get_pid
  OBVIOUS
<1>2. PICK t : t = NewTask(i, thread, r)
  OBVIOUS
<1>3. /\ last_pid' = r.last /\ next_safe' = r.safe /\ failed' = ~ r.ok /\ list' = list
      /\ made' = (IF r.ok THEN Append(made, t) ELSE made) /\ Len(made) < 1
  BY <1>1, <1>2 DEF Pids!ForkPid, NewTask
<1>4. Len(made) = 0
  BY <1>0, <1>3
<1>5. r.last \in Id /\ r.last \notin Pids!Used /\ \A m \in Pids!Used : ~ (r.last < m /\ m < r.safe)
  BY <1>1, <1>3, GetPidIs, FreshIs DEF PidInv
<1>6. t \in IdTask /\ t.pid = r.last /\ Pids!Ids(t) \subseteq Pids!Ids(list[i]) \cup {r.last}
  BY <1>0, <1>2, <1>5, NewTaskIs DEF PidInv
<1>7. Len(made') = 1 /\ made'[1] = t
  <2>1. r.ok
    BY <1>3, Zenon
  <2>2. made' = Append(made, t)
    BY <1>3, <2>1
  <2>3. Len(Append(made, t)) = Len(made) + 1 /\ Append(made, t)[Len(made) + 1] = t
    BY <1>0, <1>6, AppendProperties
  <2> QED BY <1>4, <2>2, <2>3
<1>8. \A j \in 1 .. Len(list) : Pids!Ids(list[j]) \subseteq Pids!Used
  <2>1. \A j \in 1 .. Len(list) : j \in Nat \ {0} /\ j <= Len(list)
    BY <1>0
  <2> QED BY <2>1, UsedIs DEF PidInv
<1>9. ASSUME NEW m \in Pids!Used \cup {r.last} PROVE ~ (r.last < m /\ m < r.safe)
  BY <1>5, <1>9 DEF Id
<1>10. AllClear'
  <2>1. \A j \in 1 .. Len(list') : \A m \in Pids!Ids(list'[j]) : ~ (last_pid' < m /\ m < next_safe')
    BY <1>3, <1>8, <1>9
  <2>2. \A j \in 1 .. Len(made') : \A m \in Pids!Ids(made'[j]) : ~ (last_pid' < m /\ m < next_safe')
    <3>1. \A j \in 1 .. Len(made') : made'[j] = t
      BY <1>7
    <3>2. \A m \in Pids!Ids(t) : ~ (r.last < m /\ m < r.safe)
      BY <1>0, <1>6, <1>8, <1>9
    <3> QED BY <1>3, <3>1, <3>2
  <2> QED BY <2>1, <2>2 DEF AllClear, Clear
<1>11. \A k \in 1 .. Len(made') : \A j \in 1 .. Len(list) : made'[k].pid \notin Pids!Ids(list[j])
  <2>1. \A k \in 1 .. Len(made') : made'[k] = t
    BY <1>7
  <2> QED BY <1>5, <1>6, <1>8, <2>1
<1>12. Len(made') <= 1
  BY <1>7
<1> QED BY <1>3, <1>10, <1>11, <1>12 DEF Fresh

\* The steps after which no two tasks of the list have one pid that had not.
LEMMA OthersFresh ==
  ASSUME PidInv, Fresh, Others, Len(made') <= 1,
         \A i, j \in 1 .. Len(list') : list'[i].pid = list'[j].pid => i = j,
         \A i \in 1 .. Len(made') : \A j \in 1 .. Len(list') : made'[i].pid \notin Pids!Ids(list'[j])
  PROVE  Fresh'
BY OthersKeep DEF Fresh

LEMMA ForkDoneFresh ==
  ASSUME PidInv, Fresh, NEW i \in DOMAIN made, Pids!ForkDone(i)
  PROVE  Fresh'
<1>1. /\ Others /\ i \in 1 .. Len(made) /\ Len(list') = Len(list) + 1 /\ Len(made') = Len(made) - 1
      /\ \A j \in 1 .. Len(list') : list'[j] = IF j <= Len(list) THEN list[j] ELSE made[i]
  BY ForkDoneIs
<1>2. Len(list) \in Nat /\ Len(made) \in Nat /\ Len(made) <= 1
  BY LenProperties DEF PidInv, PidsTyped, Fresh
<1>3. i = 1 /\ Len(made') = 0
  BY <1>1, <1>2
<1>4. \A j \in 1 .. Len(list) : list[j].pid \in Pids!Ids(list[j])
  BY DEF Pids!Ids
<1>5. \A j \in 1 .. Len(list) : made[i].pid # list[j].pid
  BY <1>1, <1>4 DEF Fresh
<1>6. ASSUME NEW j \in 1 .. Len(list'), NEW k \in 1 .. Len(list'), list'[j].pid = list'[k].pid PROVE j = k
  <2>1. \A l \in 1 .. Len(list') :
          (l \in 1 .. Len(list) /\ list'[l] = list[l]) \/ (l = Len(list) + 1 /\ list'[l] = made[i])
    BY <1>1, <1>2
  <2>2. CASE j \in 1 .. Len(list) /\ list'[j] = list[j]
    BY <1>5, <1>6, <2>1, <2>2 DEF Fresh
  <2>3. CASE j = Len(list) + 1 /\ list'[j] = made[i]
    BY <1>5, <1>6, <2>1, <2>3 DEF Fresh
  <2> QED BY <2>1, <2>2, <2>3
<1>7. \A k \in 1 .. Len(made') : FALSE
  BY <1>3
<1>8. \A k \in 1 .. Len(made') : \A j \in 1 .. Len(list') : made'[k].pid \notin Pids!Ids(list'[j])
  BY <1>7
<1>9. Len(made') <= 1
  BY <1>3
<1> QED BY <1>1, <1>6, <1>8, <1>9, OthersFresh

LEMMA ForkFailsFresh ==
  ASSUME PidInv, Fresh, NEW i \in DOMAIN made, Pids!ForkFails(i)
  PROVE  Fresh'
<1>1. Others /\ list' = list /\ i \in 1 .. Len(made) /\ Len(made') = Len(made) - 1
  BY ForkFailsIs
<1>2. Len(made) \in Nat /\ Len(made) <= 1
  BY LenProperties DEF PidInv, PidsTyped, Fresh
<1>3. Len(made') = 0
  BY <1>1, <1>2
<1>4. ~ \E k \in 1 .. Len(made') : TRUE
  BY <1>3
<1>5. \A k, l \in 1 .. Len(list') : list'[k].pid = list'[l].pid => k = l
  BY <1>1 DEF Fresh
<1> QED BY <1>1, <1>3, <1>4, <1>5, OthersFresh

LEMMA ReleaseFresh ==
  ASSUME PidInv, Fresh, NEW i \in DOMAIN list, Pids!Release(i)
  PROVE  Fresh'
<1>1. /\ Others /\ made' = made /\ i \in 1 .. Len(list) /\ Len(list') = Len(list) - 1
      /\ \A j \in 1 .. Len(list') : list'[j] = list[IF j < i THEN j ELSE j + 1]
  BY ReleaseIs
<1>2. Len(list) \in Nat
  BY LenProperties DEF PidInv, PidsTyped
<1> DEFINE From(j) == IF j < i THEN j ELSE j + 1
<1>3. \A j \in 1 .. Len(list') : From(j) \in 1 .. Len(list) /\ list'[j] = list[From(j)]
  BY <1>1, <1>2
<1>4. \A j, k \in 1 .. Len(list') : From(j) = From(k) => j = k
  BY <1>1, <1>2
<1> HIDE DEF From
<1>5. \A j, k \in 1 .. Len(list') : list'[j].pid = list'[k].pid => j = k
  BY <1>3, <1>4 DEF Fresh
<1>6. \A k \in 1 .. Len(made') : \A j \in 1 .. Len(list') : made'[k].pid \notin Pids!Ids(list'[j])
  BY <1>1, <1>3 DEF Fresh
<1>7. Len(made') <= 1
  BY <1>1 DEF Fresh
<1> QED BY <1>1, <1>5, <1>6, <1>7, OthersFresh

LEMMA SetIdsFresh ==
  ASSUME PidInv, Fresh, NEW i \in DOMAIN list, NEW t \in IdTask, Pids!SetIds(i, t), Lives(t), t.pid = list[i].pid
  PROVE  Fresh'
<1>1. /\ Others /\ made' = made /\ i \in 1 .. Len(list) /\ Len(list') = Len(list)
      /\ \A j \in 1 .. Len(list) : list'[j] = IF j = i THEN t ELSE list[j]
  BY SetIdsIs
<1>2. \A j \in 1 .. Len(list) : list'[j].pid = list[j].pid
  BY <1>1
<1>3. \A j, k \in 1 .. Len(list') : list'[j].pid = list'[k].pid => j = k
  BY <1>1, <1>2 DEF Fresh
<1>4. \A k \in 1 .. Len(made) : made[k].pid \notin Pids!Ids(t)
  BY DEF Fresh, Lives
<1>5. \A k \in 1 .. Len(made') : \A j \in 1 .. Len(list') : made'[k].pid \notin Pids!Ids(list'[j])
  BY <1>1, <1>4 DEF Fresh
<1>6. Len(made') <= 1
  BY <1>1 DEF Fresh
<1> QED BY <1>1, <1>3, <1>5, <1>6, OthersFresh

LEMMA FreshKept ==
  ASSUME Pids!PidAllocAssumption, MaxForks = 1, PidInv, Fresh, [Pids!Next]_(Pids!vars), ~ failed'
  PROVE  Fresh'
<1>1. CASE UNCHANGED Pids!vars
  BY <1>1 DEF Fresh, AllClear, Clear, Pids!vars
<1>2. ASSUME NEW i \in DOMAIN list, NEW thread \in BOOLEAN, Pids!ForkPid(i, thread) PROVE Fresh'
  BY <1>2, ForkPidFresh
<1>3. ASSUME NEW i \in DOMAIN list, Pids!Release(i) PROVE Fresh'
  BY <1>3, ReleaseFresh
<1>4. ASSUME NEW i \in DOMAIN list, NEW t \in IdTask, Pids!SetIds(i, t), Lives(t), t.pid = list[i].pid
      PROVE Fresh'
  BY <1>4, SetIdsFresh
<1>5. ASSUME NEW i \in DOMAIN list, Pids!setpgid(i) PROVE Fresh'
  BY <1>4, <1>5, SetpgidIs
<1>6. ASSUME NEW i \in DOMAIN list, Pids!setsid(i) PROVE Fresh'
  BY <1>4, <1>6, SetsidIs
<1>7. ASSUME NEW i \in DOMAIN made, Pids!ForkDone(i) PROVE Fresh'
  BY <1>7, ForkDoneFresh
<1>8. ASSUME NEW i \in DOMAIN made, Pids!ForkFails(i) PROVE Fresh'
  BY <1>8, ForkFailsFresh
<1> QED BY <1>1, <1>2, <1>3, <1>5, <1>6, <1>7, <1>8 DEF Pids!Next

\* As long as pids last and one call of do_fork is under way at a time: no pid below
\* next_safe that get_pid would hand out without a look at the list is in use, as pid,
\* group, thread group or session, whatever outlived its leader, and no two tasks have one pid.
THEOREM PidsFresh ==
  ASSUME Pids!PidAllocAssumption, MaxForks = 1
  PROVE  Pids!Spec /\ [](~ failed) => [](Pids!WindowFree /\ Pids!UniquePids)
<1>1. Pids!Init => Fresh
  BY FreshInit
<1>2. PidInv /\ Fresh /\ [Pids!Next]_(Pids!vars) /\ ~ failed' => Fresh'
  BY FreshKept
<1>3. PidInv /\ Fresh => Pids!WindowFree /\ Pids!UniquePids
  BY FreshIs
<1> QED BY <1>1, <1>2, <1>3, PidsInvariant, PTL DEF Pids!Spec
=============================================================================
