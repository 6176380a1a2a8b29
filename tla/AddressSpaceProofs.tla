------------------------ MODULE AddressSpaceProofs -------------------------
(***************************************************************************)
(* What tasks share is counted once for each of them, for any number of    *)
(* tasks and structures.  The first part is about the two reference counts *)
(* of an address space: Fit says what a task holds at each point of the    *)
(* code, Counted what the counts are, to the last reference.  The second   *)
(* is about files, fs, signal handlers, users and threads, wherever        *)
(* do_fork fails: Ref says which structure a task holds a counted          *)
(* reference of, and every step changes the counts as it changes Ref.      *)
(***************************************************************************)
EXTENDS AddressSpace, Sequences, FiniteSetTheorems, TLAPS

One(b) == IF b THEN 1 ELSE 0

\* The references mm_count is made of: one for all users, the borrowers', and those of
\* tasks in exit_mmap, which is the users' until they are done.
Refs(m) == One(m = init_mm \/ Users(m) > 0) + Cardinality(Borrowers(m)) + Cardinality(Unmapping(m))

Mem == [users : [AllMM -> Int], count : [AllMM -> Int], allocated : SUBSET AllMM, mapped : SUBSET MM]
Typed ==
  /\ mem \in Mem
  /\ mm \in [Task -> MM \cup {None}] /\ active_mm \in [Task -> AllMM \cup {None}]
  /\ curr \in Task
  /\ pc \in [Task -> {"run", "dup", "late", "vwait", "lazy", "unmap", "dead", "copy", "free"}]
  /\ kid \in [Task -> Pid \cup {None}] /\ kid_mm \in [Task -> MM \cup {None}]
  /\ leaving \in [Task -> MM \cup {None}] /\ dies \in [Task -> BOOLEAN]
  /\ vfork_done \in [Task -> Task \cup {None}] /\ done \in [Task -> BOOLEAN]

\* What a task holds at each point.  Only the current one can hold a borrowed mm.
Forking(p) == pc[p] \in {"dup", "late"}
Fit ==
  /\ pc[curr] \notin {"free", "copy"}
  /\ \A p \in Task :
       /\ mm[p] # None => active_mm[p] = mm[p]
       /\ mm[p] = None => (active_mm[p] # None <=> p = curr)
       /\ pc[p] \in {"free", "dead", "lazy", "unmap"} => mm[p] = None
       /\ pc[p] \in {"lazy", "unmap"} => leaving[p] # None
       /\ kid_mm[p] # None <=> pc[p] = "dup"
       /\ Forking(p) => kid[p] \in Pid /\ pc[kid[p]] = "copy"
       /\ pc[p] = "dup" => mm[kid[p]] = None
  /\ \A p, q \in Task : Forking(p) /\ Forking(q) /\ kid[p] = kid[q] => p = q

\* What the counts of m are, and whether it is allocated and mapped.
Exact(m) ==
  /\ m \in mem.allocated <=> mem.count[m] > 0
  /\ mem.count[m] >= Refs(m)
  /\ "late" \notin Failures => mem.count[m] = Refs(m)
  /\ mem.users[m] = Users(m)
  /\ m \in MM => /\ Users(m) > 0 => m \in mem.mapped
                 /\ Unmapping(m) # {} => Users(m) = 0
Counted == \A m \in AllMM : Exact(m)

SpaceInv == Typed /\ Fit /\ Counted

-----------------------------------------------------------------------------
(* Counting.                                                               *)

LEMMA TasksFinite ==
  ASSUME AddressSpaceAssumption
  PROVE  IsFiniteSet(Task) /\ \A S \in SUBSET Task : IsFiniteSet(S) /\ Cardinality(S) \in Nat
<1>1. IsFiniteSet(Task)
  BY FS_AddElement DEF Task, AddressSpaceAssumption
<1> QED BY <1>1, FS_Subset, FS_CardinalityType

\* Where a set of tasks differs in one task, so does the number of its tasks.
LEMMA Recounted ==
  ASSUME AddressSpaceAssumption, NEW S \in SUBSET Task, NEW T \in SUBSET Task, NEW p \in Task,
         \A q \in Task \ {p} : q \in S <=> q \in T
  PROVE  Cardinality(T) = Cardinality(S) + One(p \in T) - One(p \in S)
<1>1. IsFiniteSet(S) /\ IsFiniteSet(T) /\ Cardinality(S) \in Nat /\ Cardinality(T) \in Nat
  BY TasksFinite
<1>2. CASE p \in S /\ p \notin T
  <2>1. T = S \ {p}
    BY <1>2
  <2>2. Cardinality(T) = Cardinality(S) - 1
    BY <1>1, <1>2, <2>1, FS_RemoveElement
  <2> QED BY <1>1, <1>2, <2>2 DEF One
<1>3. CASE p \notin S /\ p \in T
  <2>1. T = S \cup {p}
    BY <1>3
  <2>2. Cardinality(T) = Cardinality(S) + 1
    BY <1>1, <1>3, <2>1, FS_AddElement
  <2> QED BY <1>1, <1>3, <2>2 DEF One
<1>4. CASE p \in S <=> p \in T
  <2>1. T = S
    BY <1>4
  <2> QED BY <1>1, <1>4, <2>1 DEF One
<1> QED BY <1>2, <1>3, <1>4

\* The tasks that f takes to m.
Having(f, m) == {p \in Task : f[p] = m}
LEMMA HavingChanged ==
  ASSUME AddressSpaceAssumption, NEW f, NEW g, NEW m, NEW p \in Task, \A q \in Task \ {p} : g[q] = f[q]
  PROVE  Cardinality(Having(g, m)) = Cardinality(Having(f, m)) + One(g[p] = m) - One(f[p] = m)
<1>1. PICK S, T : S = Having(f, m) /\ T = Having(g, m)
  OBVIOUS
<1>2. S \in SUBSET Task /\ T \in SUBSET Task /\ \A q \in Task \ {p} : q \in S <=> q \in T
  BY <1>1 DEF Having
<1>3. Cardinality(T) = Cardinality(S) + One(p \in T) - One(p \in S)
  BY <1>2, Recounted
<1>4. (p \in T <=> g[p] = m) /\ (p \in S <=> f[p] = m)
  BY <1>1 DEF Having
<1> QED BY <1>1, <1>3, <1>4 DEF One

\* The mm a lazy task has left, the one a task unmaps, and the one it borrows.
Lazy == [p \in Task |-> IF pc[p] = "lazy" THEN leaving[p] ELSE None]
Unmaps == [p \in Task |-> IF pc[p] = "unmap" THEN leaving[p] ELSE None]
Borrowed == [p \in Task |-> IF mm[p] = None THEN active_mm[p] ELSE None]

LEMMA Tallies ==
  ASSUME AddressSpaceAssumption, NEW m \in AllMM
  PROVE  /\ Users(m) = Cardinality(Having(mm, m)) + Cardinality(Having(kid_mm, m))
                         + Cardinality(Having(Lazy, m))
         /\ Users(m)' = Cardinality(Having(mm', m)) + Cardinality(Having(kid_mm', m))
                          + Cardinality(Having(Lazy', m))
         /\ Borrowers(m) = Having(Borrowed, m) /\ Borrowers(m)' = Having(Borrowed', m)
         /\ Unmapping(m) = Having(Unmaps, m) /\ Unmapping(m)' = Having(Unmaps', m)
<1>1. m # None
  BY DEF AddressSpaceAssumption, AllMM
<1>2. /\ {p \in Task : pc[p] = "lazy" /\ leaving[p] = m} = Having(Lazy, m)
      /\ {p \in Task : pc'[p] = "lazy" /\ leaving'[p] = m} = Having(Lazy', m)
  BY <1>1 DEF Having, Lazy
<1>3. Borrowers(m) = Having(Borrowed, m) /\ Unmapping(m) = Having(Unmaps, m)
  BY <1>1 DEF Having, Borrowed, Unmaps, Borrowers, Unmapping
<1>4. Borrowers(m)' = Having(Borrowed', m) /\ Unmapping(m)' = Having(Unmaps', m)
  BY <1>1 DEF Having, Borrowed, Unmaps, Borrowers, Unmapping
<1> QED BY <1>2, <1>3, <1>4 DEF Users, Having

LEMMA TallyTypes ==
  ASSUME AddressSpaceAssumption, NEW m \in AllMM
  PROVE  /\ Users(m) \in Nat
         /\ Cardinality(Borrowers(m)) \in Nat /\ Cardinality(Unmapping(m)) \in Nat
         /\ \A p \in Task : mm[p] = m \/ kid_mm[p] = m \/ Lazy[p] = m => Users(m) > 0
         /\ \A p \in Task : Borrowed[p] = m => Cardinality(Borrowers(m)) > 0
         /\ \A p \in Task : Unmaps[p] = m => Cardinality(Unmapping(m)) > 0 /\ Unmapping(m) # {}
<1>1. \A f : IsFiniteSet(Having(f, m)) /\ Cardinality(Having(f, m)) \in Nat
  BY TasksFinite DEF Having
<1>2. ASSUME NEW f, NEW p \in Task, f[p] = m PROVE Cardinality(Having(f, m)) > 0 /\ Having(f, m) # {}
  <2>1. p \in Having(f, m)
    BY <1>2 DEF Having
  <2> QED BY <1>1, <2>1, FS_EmptySet
<1> QED BY <1>1, <1>2, Tallies

LEMMA MmMoved ==
  ASSUME AddressSpaceAssumption, NEW m, NEW a \in Task, \A q \in Task \ {a} : mm'[q] = mm[q]
  PROVE  Cardinality(Having(mm', m)) = Cardinality(Having(mm, m)) + One(mm'[a] = m) - One(mm[a] = m)
  BY HavingChanged

LEMMA KidMmMoved ==
  ASSUME AddressSpaceAssumption, NEW m, NEW a \in Task, \A q \in Task \ {a} : kid_mm'[q] = kid_mm[q]
  PROVE  Cardinality(Having(kid_mm', m)) = Cardinality(Having(kid_mm, m)) + One(kid_mm'[a] = m) - One(kid_mm[a] = m)
  BY HavingChanged

\* What a step does to the tallies of m, if mm changes in a, kid_mm in b and Lazy in c.
LEMMA UsersMoved ==
  ASSUME AddressSpaceAssumption, NEW m \in AllMM, NEW a \in Task, NEW b \in Task, NEW c \in Task,
         \A q \in Task \ {a} : mm'[q] = mm[q],
         \A q \in Task \ {b} : kid_mm'[q] = kid_mm[q],
         \A q \in Task \ {c} : Lazy'[q] = Lazy[q]
  PROVE  Users(m)' = Users(m) + One(mm'[a] = m) - One(mm[a] = m) + One(kid_mm'[b] = m)
                       - One(kid_mm[b] = m) + One(Lazy'[c] = m) - One(Lazy[c] = m)
<1>1. PICK u1, u2, u3 : /\ u1 = Cardinality(Having(mm, m)) /\ u2 = Cardinality(Having(kid_mm, m))
                        /\ u3 = Cardinality(Having(Lazy, m))
  OBVIOUS
<1>2. u1 \in Nat /\ u2 \in Nat /\ u3 \in Nat
  BY <1>1, TasksFinite DEF Having
<1>3. /\ Cardinality(Having(mm', m)) = u1 + One(mm'[a] = m) - One(mm[a] = m)
      /\ Cardinality(Having(kid_mm', m)) = u2 + One(kid_mm'[b] = m) - One(kid_mm[b] = m)
      /\ Cardinality(Having(Lazy', m)) = u3 + One(Lazy'[c] = m) - One(Lazy[c] = m)
  <2>1. Cardinality(Having(mm', m)) = Cardinality(Having(mm, m)) + One(mm'[a] = m) - One(mm[a] = m)
    BY MmMoved
  <2>2. Cardinality(Having(kid_mm', m)) = Cardinality(Having(kid_mm, m)) + One(kid_mm'[b] = m) - One(kid_mm[b] = m)
    BY KidMmMoved
  <2>3. Cardinality(Having(Lazy', m)) = Cardinality(Having(Lazy, m)) + One(Lazy'[c] = m) - One(Lazy[c] = m)
    BY HavingChanged
  <2> QED BY <1>1, <2>1, <2>2, <2>3
<1>4. Users(m) = u1 + u2 + u3
  BY <1>1, Tallies
<1>5. Users(m)' = Cardinality(Having(mm', m)) + Cardinality(Having(kid_mm', m)) + Cardinality(Having(Lazy', m))
  BY Tallies
<1>6. \A x : One(x) \in {0, 1}
  BY DEF One
<1> QED BY <1>2, <1>3, <1>4, <1>5, <1>6

LEMMA BorrowersMoved ==
  ASSUME AddressSpaceAssumption, NEW m \in AllMM, NEW a \in Task,
         \A q \in Task \ {a} : Borrowed'[q] = Borrowed[q]
  PROVE  Cardinality(Borrowers(m))' = Cardinality(Borrowers(m)) + One(Borrowed'[a] = m) - One(Borrowed[a] = m)
<1>1. Cardinality(Having(Borrowed', m)) = Cardinality(Having(Borrowed, m)) + One(Borrowed'[a] = m) - One(Borrowed[a] = m)
  BY HavingChanged
<1>2. Borrowers(m)' = Having(Borrowed', m) /\ Borrowers(m) = Having(Borrowed, m)
  BY Tallies
<1> QED BY <1>1, <1>2

LEMMA UnmappingMoved ==
  ASSUME AddressSpaceAssumption, NEW m \in AllMM, NEW a \in Task,
         \A q \in Task \ {a} : Unmaps'[q] = Unmaps[q]
  PROVE  Cardinality(Unmapping(m))' = Cardinality(Unmapping(m)) + One(Unmaps'[a] = m) - One(Unmaps[a] = m)
<1>1. Cardinality(Having(Unmaps', m)) = Cardinality(Having(Unmaps, m)) + One(Unmaps'[a] = m) - One(Unmaps[a] = m)
  BY HavingChanged
<1>2. Unmapping(m)' = Having(Unmaps', m) /\ Unmapping(m) = Having(Unmaps, m)
  BY Tallies
<1> QED BY <1>1, <1>2

\* The books of m balance after a step if the counts move as the tallies do, or keep one
\* more where a late failure may.
LEMMA Overpaid ==
  ASSUME AddressSpaceAssumption, NEW m \in AllMM, Typed, Typed', Exact(m),
         NEW du \in {-1, 0, 1}, NEW db \in {-1, 0, 1}, NEW dn \in {-1, 0, 1},
         NEW e \in {0, 1}, e = 1 => "late" \in Failures,
         Users(m)' = Users(m) + du,
         Cardinality(Borrowers(m))' = Cardinality(Borrowers(m)) + db,
         Cardinality(Unmapping(m))' = Cardinality(Unmapping(m)) + dn,
         mem'.users[m] = mem.users[m] + du,
         mem'.count[m] = mem.count[m] + One(m = init_mm \/ Users(m) + du > 0)
                           - One(m = init_mm \/ Users(m) > 0) + db + dn + e,
         m \in mem'.allocated <=> mem'.count[m] > 0,
         m \in MM /\ Users(m) + du > 0 => m \in mem'.mapped,
         m \in MM /\ Unmapping(m)' # {} => Users(m) + du = 0
  PROVE  Exact(m)'
<1>1. PICK u, b, n : u = Users(m) /\ b = Cardinality(Borrowers(m)) /\ n = Cardinality(Unmapping(m))
  OBVIOUS
<1>2. u \in Nat /\ b \in Nat /\ n \in Nat
  BY <1>1, TallyTypes
<1>3. Refs(m) = One(m = init_mm \/ u > 0) + b + n
  BY <1>1 DEF Refs
<1>4. Refs(m)' = One(m = init_mm \/ u + du > 0) + (b + db) + (n + dn)
  BY <1>1 DEF Refs
<1>5. mem.count[m] \in Int /\ mem'.count[m] \in Int
  BY DEF Typed, Mem
<1>6. PICK x, y : x = One(m = init_mm \/ u > 0) /\ y = One(m = init_mm \/ u + du > 0)
  OBVIOUS
<1>7. x \in Int /\ y \in Int
  BY <1>6 DEF One
<1>8. mem'.count[m] - Refs(m)' = mem.count[m] - Refs(m) + e /\ Refs(m) \in Int /\ Refs(m)' \in Int
  <2>1. mem'.count[m] = mem.count[m] + y - x + db + dn + e
    BY <1>1, <1>6
  <2>2. Refs(m) = x + b + n /\ Refs(m)' = y + (b + db) + (n + dn)
    BY <1>3, <1>4, <1>6
  <2> HIDE <1>1, <1>3, <1>4, <1>6
  <2> QED BY <1>2, <1>5, <1>7, <2>1, <2>2
<1>9. mem'.count[m] >= Refs(m)' /\ ("late" \notin Failures => mem'.count[m] = Refs(m)')
  BY <1>5, <1>8 DEF Exact
<1>10. mem'.users[m] = Users(m)'
  BY DEF Exact
<1> QED BY <1>9, <1>10 DEF Exact

LEMMA Balanced ==
  ASSUME AddressSpaceAssumption, NEW m \in AllMM, Typed, Typed', Exact(m),
         NEW du \in {-1, 0, 1}, NEW db \in {-1, 0, 1}, NEW dn \in {-1, 0, 1},
         Users(m)' = Users(m) + du,
         Cardinality(Borrowers(m))' = Cardinality(Borrowers(m)) + db,
         Cardinality(Unmapping(m))' = Cardinality(Unmapping(m)) + dn,
         mem'.users[m] = mem.users[m] + du,
         mem'.count[m] = mem.count[m] + One(m = init_mm \/ Users(m) + du > 0)
                           - One(m = init_mm \/ Users(m) > 0) + db + dn,
         m \in mem'.allocated <=> mem'.count[m] > 0,
         m \in MM /\ Users(m) + du > 0 => m \in mem'.mapped,
         m \in MM /\ Unmapping(m)' # {} => Users(m) + du = 0
  PROVE  Exact(m)'
<1>1. mem'.count[m] = mem.count[m] + One(m = init_mm \/ Users(m) + du > 0)
                        - One(m = init_mm \/ Users(m) > 0) + db + dn + 0
  <2>1. mem.count[m] \in Int /\ \A x : One(x) \in Int
    BY DEF Typed, Mem, One
  <2> QED BY <2>1
<1> QED BY <1>1, Overpaid

-----------------------------------------------------------------------------
(* What the operators on the counts do.                                    *)

LEMMA Held ==
  ASSUME NEW s \in Mem, NEW m \in AllMM, NEW t, t = Hold(s, m)
  PROVE  /\ t \in Mem /\ t.users = s.users /\ t.allocated = s.allocated /\ t.mapped = s.mapped
         /\ t.count = [s.count EXCEPT ![m] = @ + 1]
  BY DEF Hold, Mem

LEMMA Dropped ==
  ASSUME NEW s \in Mem, NEW m \in AllMM, NEW t, t = mmdrop(s, m)
  PROVE  /\ t \in Mem /\ t.users = s.users /\ t.mapped = s.mapped
         /\ t.count = [s.count EXCEPT ![m] = @ - 1]
         /\ t.allocated = IF s.count[m] = 1 THEN s.allocated \ {m} ELSE s.allocated
<1>1. /\ t.users = s.users /\ t.mapped = s.mapped /\ t.count = [s.count EXCEPT ![m] = @ - 1]
      /\ t.allocated = IF s.count[m] = 1 THEN s.allocated \ {m} ELSE s.allocated
  BY DEF mmdrop, Mem
<1>2. t = [users |-> t.users, count |-> t.count, allocated |-> t.allocated, mapped |-> t.mapped]
  BY DEF mmdrop, Mem
<1>3. t.users \in [AllMM -> Int] /\ t.count \in [AllMM -> Int] /\ t.allocated \in SUBSET AllMM /\ t.mapped \in SUBSET MM
  BY <1>1 DEF Mem
<1> QED BY <1>1, <1>2, <1>3 DEF Mem

LEMMA UserDropped ==
  ASSUME NEW s \in Mem, NEW m \in AllMM, NEW t, t = DropUser(s, m)
  PROVE  /\ t \in Mem /\ t.count = s.count /\ t.allocated = s.allocated /\ t.mapped = s.mapped
         /\ t.users = [s.users EXCEPT ![m] = @ - 1]
  BY DEF DropUser, Mem

LEMMA UserAdded ==
  ASSUME NEW s \in Mem, NEW m \in AllMM, NEW t, t = [s EXCEPT !.users[m] = @ + 1]
  PROVE  /\ t \in Mem /\ t.count = s.count /\ t.allocated = s.allocated /\ t.mapped = s.mapped
         /\ t.users = [s.users EXCEPT ![m] = @ + 1]
  BY DEF Mem

LEMMA MapGone ==
  ASSUME NEW s \in Mem, NEW m \in AllMM, NEW t, t = exit_mmap(s, m)
  PROVE  /\ t \in Mem /\ t.users = s.users /\ t.count = s.count /\ t.allocated = s.allocated
         /\ t.mapped = s.mapped \ {m}
  BY DEF exit_mmap, Mem

LEMMA Allocated ==
  ASSUME mem \in Mem, NEW m \in MM, NEW t, t = allocate_mm(m)
  PROVE  /\ t \in Mem /\ t.allocated = mem.allocated \cup {m} /\ t.mapped = mem.mapped \cup {m}
         /\ t.users = [mem.users EXCEPT ![m] = 1] /\ t.count = [mem.count EXCEPT ![m] = 1]
<1>1. /\ t.allocated = mem.allocated \cup {m} /\ t.mapped = mem.mapped \cup {m}
      /\ t.users = [mem.users EXCEPT ![m] = 1] /\ t.count = [mem.count EXCEPT ![m] = 1]
  BY DEF allocate_mm, Mem
<1>2. t = [users |-> t.users, count |-> t.count, allocated |-> t.allocated, mapped |-> t.mapped]
  BY DEF allocate_mm, Mem
<1>3. t.users \in [AllMM -> Int] /\ t.count \in [AllMM -> Int] /\ t.allocated \in SUBSET AllMM /\ t.mapped \in SUBSET MM
  BY <1>1 DEF Mem, AllMM
<1> QED BY <1>1, <1>2, <1>3 DEF Mem

\* The last user's mmput unmaps the memory and drops the users' reference.
LEMMA Put ==
  ASSUME NEW s \in Mem, NEW m \in AllMM, NEW t, t = mmput(s, m)
  PROVE  /\ t \in Mem
         /\ t.users = [s.users EXCEPT ![m] = @ - 1]
         /\ s.users[m] = 1 =>
              /\ t.count = [s.count EXCEPT ![m] = @ - 1] /\ t.mapped = s.mapped \ {m}
              /\ t.allocated = IF s.count[m] = 1 THEN s.allocated \ {m} ELSE s.allocated
         /\ s.users[m] # 1 => t.count = s.count /\ t.mapped = s.mapped /\ t.allocated = s.allocated
<1>1. PICK a, b, c : a = DropUser(s, m) /\ b = exit_mmap(a, m) /\ c = mmdrop(b, m)
  OBVIOUS
<1>2. /\ a \in Mem /\ a.count = s.count /\ a.allocated = s.allocated /\ a.mapped = s.mapped
      /\ a.users = [s.users EXCEPT ![m] = @ - 1]
  BY <1>1, UserDropped
<1>3. /\ b \in Mem /\ b.users = a.users /\ b.count = a.count /\ b.allocated = a.allocated
      /\ b.mapped = a.mapped \ {m}
  BY <1>1, <1>2, MapGone
<1>4. /\ c \in Mem /\ c.users = b.users /\ c.mapped = b.mapped
      /\ c.count = [b.count EXCEPT ![m] = @ - 1]
      /\ c.allocated = IF b.count[m] = 1 THEN b.allocated \ {m} ELSE b.allocated
  BY <1>1, <1>3, Dropped
<1>5. t = IF s.users[m] = 1 THEN c ELSE a
  BY <1>1 DEF mmput, LastUser
<1> QED BY <1>2, <1>3, <1>4, <1>5

-----------------------------------------------------------------------------
(* Every step keeps the types and what each task holds.                    *)

LEMMA ActiveTyped ==
  ASSUME AddressSpaceAssumption, Typed, Fit
  PROVE  active_mm[curr] \in AllMM /\ curr \in Task
  BY DEF AddressSpaceAssumption, Typed, Fit, AllMM

LEMMA SwitchTyped ==
  ASSUME AddressSpaceAssumption, Typed, Fit, NEW next \in Task, context_switch(next)
  PROVE  Typed'
<1>1. mem' \in Mem
  <2>1. mem \in Mem /\ active_mm[curr] \in AllMM
    BY ActiveTyped DEF Typed
  <2>2. PICK s : s = Borrow(mem, next, active_mm[curr])
    OBVIOUS
  <2>3. s \in Mem
    BY <2>1, <2>2, Held DEF Borrow
  <2>4. mem' = GiveBack(s, curr, active_mm[curr])
    BY <2>2 DEF context_switch
  <2> QED BY <2>1, <2>3, <2>4, Dropped DEF GiveBack
<1>2. active_mm' \in [Task -> AllMM \cup {None}]
  BY ActiveTyped DEF context_switch, Typed
<1> QED BY <1>1, <1>2 DEF context_switch, Typed

LEMMA ForkShareTyped ==
  ASSUME AddressSpaceAssumption, Typed, Fit, NEW p \in Pid, NEW c \in Pid, NEW vfork \in BOOLEAN,
         ForkShare(p, c, vfork)
  PROVE  Typed'
<1>1. p \in Task /\ c \in Task
  BY DEF Task
<1>2. mem' \in Mem
  <2>1. CASE mm[p] = None
    BY <2>1 DEF ForkShare, Typed
  <2>2. CASE mm[p] # None
    <3>1. mm[p] \in AllMM /\ mem \in Mem
      BY <1>1, <2>2 DEF Typed, AllMM
    <3>2. mem' = [mem EXCEPT !.users[mm[p]] = @ + 1]
      BY <2>2 DEF ForkShare
    <3> QED BY <3>1, <3>2, UserAdded
  <2> QED BY <2>1, <2>2
<1>3. active_mm' \in [Task -> AllMM \cup {None}] /\ mm' \in [Task -> MM \cup {None}]
  BY <1>1 DEF ForkShare, Typed, AllMM
<1> QED BY <1>1, <1>2, <1>3 DEF ForkShare, VforkDone, Typed

LEMMA ForkAllocTyped ==
  ASSUME AddressSpaceAssumption, Typed, Fit, NEW p \in Pid, NEW c \in Pid, NEW m \in MM,
         ForkAlloc(p, c, m)
  PROVE  Typed'
<1>1. mem' \in Mem
  BY Allocated DEF ForkAlloc, Typed
<1> QED BY <1>1 DEF ForkAlloc, Typed

LEMMA DupDoneTyped ==
  ASSUME AddressSpaceAssumption, Typed, Fit, NEW p \in Pid, DupDone(p)
  PROVE  Typed'
<1>1. p \in Task
  BY DEF Task
<1>2. active_mm' \in [Task -> AllMM \cup {None}] /\ mm' \in [Task -> MM \cup {None}]
  BY <1>1 DEF DupDone, Typed, AllMM
<1> QED BY <1>1, <1>2 DEF DupDone, Goto, Typed

LEMMA DupFailedTyped ==
  ASSUME AddressSpaceAssumption, Typed, Fit, NEW p \in Pid, DupFailed(p)
  PROVE  Typed'
<1>1. p \in Task
  BY DEF Task
<1>2. kid_mm[p] \in AllMM
  BY <1>1 DEF DupFailed, At, Fit, Typed, AllMM
<1>3. mem' \in Mem
  BY <1>2, Put DEF DupFailed, Typed
<1> QED BY <1>1, <1>3 DEF DupFailed, FreeCopy, Typed

LEMMA ReleaseTyped ==
  ASSUME Typed, NEW p \in Pid, NEW vfd \in [Task -> Task \cup {None}], mm_release(p, vfd)
  PROVE  vfork_done' \in [Task -> Task \cup {None}] /\ done' \in [Task -> BOOLEAN]
  BY DEF Typed, mm_release

LEMMA LateFailedTyped ==
  ASSUME AddressSpaceAssumption, Typed, Fit, NEW p \in Pid, LateFailed(p)
  PROVE  Typed'
<1>1. p \in Task /\ kid[p] \in Task
  BY DEF Task, LateFailed, At, Fit, Forking
<1>2. mem' \in Mem
  <2>1. CASE mm[kid[p]] = None
    BY <2>1 DEF LateFailed, Typed
  <2>2. CASE mm[kid[p]] # None
    <3>1. mm[kid[p]] \in AllMM /\ mem \in Mem
      BY <1>1, <2>2 DEF Typed, AllMM
    <3>2. mem' = mmput(Hold(mem, mm[kid[p]]), mm[kid[p]])
      BY <2>2 DEF LateFailed
    <3>3. Hold(mem, mm[kid[p]]) \in Mem
      BY <3>1, Held
    <3> QED BY <3>1, <3>2, <3>3, Put
  <2> QED BY <2>1, <2>2
<1>3. [vfork_done EXCEPT ![kid[p]] = None] \in [Task -> Task \cup {None}]
  BY DEF Typed
<1>4. vfork_done' \in [Task -> Task \cup {None}] /\ done' \in [Task -> BOOLEAN]
  BY <1>3, ReleaseTyped DEF LateFailed
<1> QED BY <1>1, <1>2, <1>4 DEF LateFailed, FreeCopy, Typed

LEMMA exit_mmTyped ==
  ASSUME AddressSpaceAssumption, Typed, Fit, NEW p \in Pid, NEW exit \in BOOLEAN, exit_mm(p, exit)
  PROVE  Typed'
<1>1. p \in Task
  BY DEF Task
<1>2. mem' \in Mem
  <2>1. CASE mm[p] = None
    BY <2>1 DEF exit_mm, Typed
  <2>2. CASE mm[p] # None
    <3>1. mm[p] \in AllMM /\ mem \in Mem
      BY <1>1, <2>2 DEF Typed, AllMM
    <3>2. mem' = DropUser(Hold(mem, mm[p]), mm[p])
      BY <2>2 DEF exit_mm, Unhook
    <3>3. Hold(mem, mm[p]) \in Mem
      BY <3>1, Held
    <3> QED BY <3>1, <3>2, <3>3, UserDropped
  <2> QED BY <2>1, <2>2
<1>3. vfork_done' \in [Task -> Task \cup {None}] /\ done' \in [Task -> BOOLEAN]
  BY ReleaseTyped DEF exit_mm, Typed
<1> QED BY <1>1, <1>2, <1>3 DEF exit_mm, Goto, Typed

LEMMA UnmappedTyped ==
  ASSUME AddressSpaceAssumption, Typed, Fit, NEW p \in Pid, Unmapped(p)
  PROVE  Typed'
<1>1. p \in Task
  BY DEF Task
<1>2. leaving[p] \in AllMM /\ mem \in Mem
  BY <1>1 DEF Unmapped, At, Fit, Typed, AllMM
<1>3. mem' \in Mem
  BY <1>2, MapGone, Dropped DEF Unmapped
<1> QED BY <1>1, <1>3 DEF Unmapped, Goto, Typed

LEMMA LazyTyped ==
  ASSUME AddressSpaceAssumption, Typed, Fit, NEW p \in Pid, start_lazy_tlb(p) \/ end_lazy_tlb(p)
  PROVE  Typed'
<1>1. p \in Task
  BY DEF Task
<1>2. CASE start_lazy_tlb(p)
  <2>1. mm[p] \in AllMM /\ mem \in Mem
    BY <1>1, <1>2 DEF start_lazy_tlb, Typed, AllMM
  <2>2. mem' \in Mem
    BY <1>2, <2>1, Held DEF start_lazy_tlb
  <2> QED BY <1>1, <1>2, <2>2 DEF start_lazy_tlb, Goto, Typed
<1>3. CASE end_lazy_tlb(p)
  <2>1. active_mm[p] \in AllMM /\ mem \in Mem
    BY <1>3, ActiveTyped DEF end_lazy_tlb, At, Typed
  <2>2. mem' \in Mem
    BY <1>3, <2>1, Dropped DEF end_lazy_tlb
  <2>3. active_mm' \in [Task -> AllMM \cup {None}] /\ mm' \in [Task -> MM \cup {None}]
    BY <1>1, <1>3 DEF end_lazy_tlb, Typed, AllMM
  <2> QED BY <1>1, <1>3, <2>2, <2>3 DEF end_lazy_tlb, Goto, Typed
<1> QED BY <1>2, <1>3

LEMMA OtherTyped ==
  ASSUME Typed, NEW p \in Pid, ForkDone(p) \/ VforkReturn(p) \/ Reap(p)
  PROVE  Typed'
  BY DEF ForkDone, VforkReturn, Reap, Goto, Typed

LEMMA SwitchFit ==
  ASSUME AddressSpaceAssumption, Typed, Fit, NEW next \in Task, context_switch(next)
  PROVE  Fit'
<1>1. /\ curr' = next /\ UNCHANGED <<mm, pc, kid, kid_mm, leaving>>
      /\ pc[next] \notin {"free", "copy"} /\ active_mm[curr] # None
  BY ActiveTyped DEF context_switch, AddressSpaceAssumption, AllMM
<1>2. \A p \in Task : /\ mm[p] # None => active_mm'[p] = mm[p]
                      /\ mm[p] = None => (active_mm'[p] # None <=> p = next)
  BY <1>1 DEF context_switch, Fit, Typed
<1> QED BY <1>1, <1>2 DEF Fit, Forking

LEMMA ForkShareFit ==
  ASSUME AddressSpaceAssumption, Typed, Fit, NEW p \in Pid, NEW c \in Pid, NEW vfork \in BOOLEAN,
         ForkShare(p, c, vfork)
  PROVE  Fit'
  BY DEF ForkShare, At, Fit, Typed, Task, Forking, AddressSpaceAssumption

LEMMA ForkAllocFit ==
  ASSUME AddressSpaceAssumption, Typed, Fit, NEW p \in Pid, NEW c \in Pid, NEW m \in MM,
         ForkAlloc(p, c, m)
  PROVE  Fit'
  BY DEF ForkAlloc, At, Fit, Typed, Task, Forking, AddressSpaceAssumption

LEMMA DupDoneFit ==
  ASSUME AddressSpaceAssumption, Typed, Fit, NEW p \in Pid, DupDone(p)
  PROVE  Fit'
  BY DEF DupDone, Goto, At, Fit, Typed, Task, Forking, AddressSpaceAssumption

LEMMA DupFailedFit ==
  ASSUME AddressSpaceAssumption, Typed, Fit, NEW p \in Pid, DupFailed(p)
  PROVE  Fit'
  BY DEF DupFailed, FreeCopy, At, Fit, Typed, Task, Forking, AddressSpaceAssumption

LEMMA LateFailedFit ==
  ASSUME AddressSpaceAssumption, Typed, Fit, NEW p \in Pid, LateFailed(p)
  PROVE  Fit'
  BY DEF LateFailed, FreeCopy, At, Fit, Typed, Task, Forking, AddressSpaceAssumption

LEMMA exit_mmFit ==
  ASSUME AddressSpaceAssumption, Typed, Fit, NEW p \in Pid, NEW exit \in BOOLEAN, exit_mm(p, exit)
  PROVE  Fit'
  BY DEF exit_mm, Goto, At, Fit, Typed, Task, Forking, AddressSpaceAssumption

LEMMA UnmappedFit ==
  ASSUME AddressSpaceAssumption, Typed, Fit, NEW p \in Pid, Unmapped(p)
  PROVE  Fit'
  BY DEF Unmapped, Goto, At, Fit, Typed, Task, Forking, AddressSpaceAssumption

LEMMA LazyFit ==
  ASSUME AddressSpaceAssumption, Typed, Fit, NEW p \in Pid, start_lazy_tlb(p) \/ end_lazy_tlb(p)
  PROVE  Fit'
  BY DEF start_lazy_tlb, end_lazy_tlb, Goto, At, Fit, Typed, Task, Forking, AddressSpaceAssumption

LEMMA OtherFit ==
  ASSUME AddressSpaceAssumption, Typed, Fit, NEW p \in Pid, ForkDone(p) \/ VforkReturn(p) \/ Reap(p)
  PROVE  Fit'
  BY DEF ForkDone, VforkReturn, Reap, Goto, At, Fit, Typed, Task, Forking, AddressSpaceAssumption

-----------------------------------------------------------------------------
(* The counts after every step.                                            *)

\* A step that touches none of the references.
LEMMA Untouched ==
  ASSUME AddressSpaceAssumption, Typed, Typed', Counted, UNCHANGED <<mem, mm, active_mm, kid_mm>>,
         \A q \in Task : Lazy'[q] = Lazy[q] /\ Unmaps'[q] = Unmaps[q]
  PROVE  Counted'
<1> SUFFICES ASSUME NEW m \in AllMM PROVE Exact(m)'
  BY DEF Counted, AllMM
<1>1. Exact(m) /\ curr \in Task
  BY DEF Counted, Typed
<1>2. Users(m)' = Users(m)
  <2>1. Users(m)' = Users(m) + One(mm'[curr] = m) - One(mm[curr] = m) + One(kid_mm'[curr] = m)
                      - One(kid_mm[curr] = m) + One(Lazy'[curr] = m) - One(Lazy[curr] = m)
    BY <1>1, UsersMoved
  <2>2. Users(m) \in Nat /\ \A x : One(x) \in {0, 1}
    BY TallyTypes DEF One
  <2>3. mm'[curr] = mm[curr] /\ kid_mm'[curr] = kid_mm[curr] /\ Lazy'[curr] = Lazy[curr]
    BY <1>1
  <2> QED BY <2>1, <2>2, <2>3
<1>3. Borrowers(m)' = Borrowers(m)
  BY DEF Borrowers
<1>4. Unmapping(m)' = Unmapping(m)
  <2>1. Unmapping(m)' = Having(Unmaps', m) /\ Unmapping(m) = Having(Unmaps, m)
    BY Tallies
  <2> QED BY <2>1 DEF Having
<1>5. Refs(m)' = Refs(m)
  BY <1>2, <1>3, <1>4 DEF Refs
<1> QED BY <1>1, <1>2, <1>4, <1>5 DEF Exact

LEMMA OtherCounted ==
  ASSUME AddressSpaceAssumption, Typed, Typed', Counted, NEW p \in Pid, ForkDone(p) \/ VforkReturn(p) \/ Reap(p), Fit
  PROVE  Counted'
<1>1. UNCHANGED <<mem, mm, active_mm, kid_mm>>
  BY DEF ForkDone, VforkReturn, Reap
<1>2. \A q \in Task : Lazy'[q] = Lazy[q] /\ Unmaps'[q] = Unmaps[q]
  BY DEF ForkDone, VforkReturn, Reap, Goto, At, Fit, Forking, Typed, Lazy, Unmaps
<1> QED BY <1>1, <1>2, Untouched

\* The next task takes the borrowed mm over, or gives it up.
LEMMA SwitchBorrowers ==
  ASSUME AddressSpaceAssumption, Typed, Fit, NEW next \in Task, context_switch(next), NEW m \in AllMM
  PROVE  Cardinality(Borrowers(m))' = Cardinality(Borrowers(m))
           + One(mm[next] = None /\ m = active_mm[curr]) - One(mm[curr] = None /\ m = active_mm[curr])
<1>1. PICK f : f = [Borrowed EXCEPT ![curr] = None]
  OBVIOUS
<1>2. curr \in Task /\ next # curr /\ m # None
  BY DEF Typed, context_switch, AddressSpaceAssumption, AllMM
<1>3. \A q \in Task \ {curr} : f[q] = Borrowed[q]
  BY <1>1 DEF Borrowed
<1>4. \A q \in Task \ {next} : Borrowed'[q] = f[q]
  BY <1>1, <1>2 DEF Borrowed, context_switch, Typed, Fit
<1>5. Cardinality(Having(f, m)) = Cardinality(Having(Borrowed, m)) + One(f[curr] = m) - One(Borrowed[curr] = m)
  BY <1>2, <1>3, HavingChanged
<1>6. Cardinality(Having(Borrowed', m)) = Cardinality(Having(f, m)) + One(Borrowed'[next] = m) - One(f[next] = m)
  BY <1>4, HavingChanged
<1>7. Borrowers(m) = Having(Borrowed, m) /\ Borrowers(m)' = Having(Borrowed', m)
  BY Tallies
<1>8. /\ f[curr] # m /\ f[next] # m
      /\ Borrowed[curr] = m <=> mm[curr] = None /\ m = active_mm[curr]
      /\ Borrowed'[next] = m <=> mm[next] = None /\ m = active_mm[curr]
  BY <1>1, <1>2 DEF Borrowed, context_switch, Typed, Fit
<1>9. /\ One(f[curr] = m) = 0 /\ One(f[next] = m) = 0
      /\ One(Borrowed[curr] = m) = One(mm[curr] = None /\ m = active_mm[curr])
      /\ One(Borrowed'[next] = m) = One(mm[next] = None /\ m = active_mm[curr])
  BY <1>8 DEF One
<1>10. PICK x, y, z : x = Cardinality(Borrowers(m)) /\ y = Cardinality(Borrowers(m))' /\ z = Cardinality(Having(f, m))
  OBVIOUS
<1>11. x \in Nat /\ z \in Nat
  BY <1>7, <1>10, TasksFinite DEF Having
<1>12. z = x + 0 - One(mm[curr] = None /\ m = active_mm[curr])
  BY <1>5, <1>7, <1>9, <1>10
<1>13. y = z + One(mm[next] = None /\ m = active_mm[curr]) - 0
  BY <1>6, <1>7, <1>9, <1>10
<1>14. \A v : One(v) \in {0, 1}
  BY DEF One
<1>15. y = x + One(mm[next] = None /\ m = active_mm[curr]) - One(mm[curr] = None /\ m = active_mm[curr])
  BY <1>11, <1>12, <1>13, <1>14
<1> QED BY <1>10, <1>15

\* Somebody holds a reference to m that the count knows of.
LEMMA Counts ==
  ASSUME AddressSpaceAssumption, Typed, NEW m \in AllMM, Exact(m)
  PROVE  /\ mem.count[m] \in Int /\ Refs(m) \in Nat
         /\ \A p \in Task : mm[p] = m \/ kid_mm[p] = m \/ Lazy[p] = m \/ Borrowed[p] = m \/ Unmaps[p] = m =>
              mem.count[m] >= 1
<1>1. mem.count[m] \in Int /\ \A x : One(x) \in {0, 1}
  BY DEF Typed, Mem, One
<1>2. Refs(m) \in Nat
  BY <1>1, TallyTypes DEF Refs
<1>3. ASSUME NEW p \in Task, mm[p] = m \/ kid_mm[p] = m \/ Lazy[p] = m \/ Borrowed[p] = m \/ Unmaps[p] = m
      PROVE  Refs(m) >= 1
  <2>1. PICK x, b, n : x = One(m = init_mm \/ Users(m) > 0) /\ b = Cardinality(Borrowers(m)) /\ n = Cardinality(Unmapping(m))
    OBVIOUS
  <2>2. x \in {0, 1} /\ b \in Nat /\ n \in Nat /\ Refs(m) = x + b + n
    BY <1>1, <2>1, TallyTypes DEF Refs
  <2>3. Users(m) > 0 \/ b > 0 \/ n > 0
    BY <1>3, <2>1, TallyTypes
  <2>4. x = 1 \/ b > 0 \/ n > 0
    BY <2>1, <2>3 DEF One
  <2> QED BY <2>2, <2>4
<1> QED BY <1>1, <1>2, <1>3 DEF Exact

LEMMA SwitchBooks ==
  ASSUME AddressSpaceAssumption, Typed, Fit, Counted, NEW next \in Task, context_switch(next), NEW m \in AllMM
  PROVE  /\ mem'.users = mem.users /\ mem'.mapped = mem.mapped
         /\ mem'.count[m] = mem.count[m] + One(mm[next] = None /\ m = active_mm[curr])
                              - One(mm[curr] = None /\ m = active_mm[curr])
         /\ m \in mem'.allocated <=> mem'.count[m] > 0
<1>1. PICK old, s, t : old = active_mm[curr] /\ s = Borrow(mem, next, old) /\ t = GiveBack(s, curr, old)
  OBVIOUS
<1>2. old \in AllMM /\ curr \in Task /\ mem \in Mem /\ mem' = t
  BY <1>1, ActiveTyped DEF context_switch, Typed
<1>3. /\ s \in Mem /\ s.users = mem.users /\ s.mapped = mem.mapped /\ s.allocated = mem.allocated
      /\ s.count[m] = mem.count[m] + One(mm[next] = None /\ m = old)
      /\ s.count[old] >= mem.count[old]
  <2>1. CASE mm[next] = None
    <3>1. s = Hold(mem, old)
      BY <1>1, <2>1 DEF Borrow
    <3>2. /\ s \in Mem /\ s.users = mem.users /\ s.mapped = mem.mapped /\ s.allocated = mem.allocated
          /\ s.count = [mem.count EXCEPT ![old] = @ + 1]
      BY <1>2, <3>1, Held
    <3> QED BY <1>2, <2>1, <3>2 DEF Mem, One
  <2>2. CASE mm[next] # None
    <3>1. s = mem
      BY <1>1, <2>2 DEF Borrow
    <3> QED BY <1>2, <2>2, <3>1 DEF Mem, One
  <2> QED BY <2>1, <2>2
<1>4. /\ \A n \in AllMM : mem.count[n] \in Int /\ (n \in mem.allocated <=> mem.count[n] > 0)
      /\ mm[curr] = None => mem.count[old] >= 1
  <2>1. Exact(old) /\ \A n \in AllMM : mem.count[n] \in Int /\ (n \in mem.allocated <=> mem.count[n] > 0)
    BY <1>2 DEF Counted, Exact, Mem
  <2>2. mm[curr] = None => Borrowed[curr] = old
    BY <1>1, <1>2 DEF Borrowed
  <2> QED BY <1>2, <2>1, <2>2, Counts
<1>5. CASE mm[curr] = None
  <2>1. t = mmdrop(s, old)
    BY <1>1, <1>5 DEF GiveBack
  <2>2. /\ t.users = s.users /\ t.mapped = s.mapped /\ t.count = [s.count EXCEPT ![old] = @ - 1]
        /\ t.allocated = IF s.count[old] = 1 THEN s.allocated \ {old} ELSE s.allocated
    BY <1>2, <1>3, <2>1, Dropped
  <2>3. s.count[m] \in Int /\ s.count[old] \in Int
    BY <1>2, <1>3 DEF Mem
  <2>4. t.count[m] = s.count[m] - One(mm[curr] = None /\ m = old)
    <3>1. s.count \in [AllMM -> Int]
      BY <1>3 DEF Mem
    <3>2. CASE m = old
      BY <1>5, <2>2, <2>3, <3>1, <3>2 DEF One
    <3>3. CASE m # old
      <4>1. t.count[m] = s.count[m] /\ One(mm[curr] = None /\ m = old) = 0
        BY <2>2, <3>1, <3>3 DEF One
      <4> QED BY <2>3, <4>1
    <3> QED BY <3>2, <3>3
  <2>5. m \in t.allocated <=> t.count[m] > 0
    <3>1. m = old => s.count[m] >= 1 /\ m \in s.allocated
      <4>1. s.count[old] \in Int /\ mem.count[old] \in Int /\ s.count[old] >= mem.count[old] /\ mem.count[old] >= 1
        BY <1>2, <1>3, <1>4, <1>5, <2>3
      <4>2. s.count[old] >= 1 /\ old \in mem.allocated
        BY <1>2, <1>4, <4>1
      <4> QED BY <1>3, <4>2
    <3>2. m # old => (m \in s.allocated <=> s.count[m] > 0) /\ One(mm[curr] = None /\ m = old) = 0
      <4>1. m # old => One(mm[next] = None /\ m = old) = 0 /\ One(mm[curr] = None /\ m = old) = 0
        BY DEF One
      <4> QED BY <1>3, <1>4, <4>1
    <3>3. m = old => One(mm[curr] = None /\ m = old) = 1
      BY <1>5 DEF One
    <3>4. CASE m = old
      BY <2>2, <2>3, <2>4, <3>1, <3>3, <3>4
    <3>5. CASE m # old
      <4>1. (m \in t.allocated <=> m \in s.allocated) /\ t.count[m] = s.count[m] - 0
        BY <2>2, <2>4, <3>2, <3>5
      <4> QED BY <2>3, <3>2, <3>5, <4>1
    <3> QED BY <3>4, <3>5
  <2> QED
    <3>1. t.count[m] = mem.count[m] + One(mm[next] = None /\ m = old) - One(mm[curr] = None /\ m = old)
      <4>1. s.count[m] = mem.count[m] + One(mm[next] = None /\ m = old)
        BY <1>3
      <4>2. mem.count[m] \in Int /\ \A v : One(v) \in {0, 1}
        BY <1>4 DEF One
      <4> QED BY <2>4, <4>1, <4>2
    <3> QED BY <1>1, <1>2, <1>3, <2>2, <2>5, <3>1
<1>6. CASE mm[curr] # None
  <2>1. t = s /\ One(mm[curr] = None /\ m = old) = 0 /\ mem.count[m] \in Int
    BY <1>1, <1>4, <1>6 DEF GiveBack, One
  <2>2. m \in s.allocated <=> s.count[m] > 0
    <3>1. m # old => One(mm[next] = None /\ m = old) = 0
      BY DEF One
    <3>2. m = old => mem.count[m] > 0
      <4>1. Exact(old) /\ mm[curr] = old
        BY <1>1, <1>2, <1>6 DEF Fit, Counted
      <4> QED BY <1>2, <1>4, <4>1, Counts
    <3>3. One(mm[next] = None /\ m = old) \in {0, 1}
      BY DEF One
    <3> QED BY <1>3, <1>4, <3>1, <3>2, <3>3
  <2>3. One(mm[next] = None /\ m = old) \in {0, 1}
    BY DEF One
  <2> QED BY <1>1, <1>2, <1>3, <2>1, <2>2, <2>3
<1> QED BY <1>5, <1>6

LEMMA SwitchCounted ==
  ASSUME AddressSpaceAssumption, Typed, Typed', Fit, Counted, NEW next \in Task, context_switch(next)
  PROVE  Counted'
<1> SUFFICES ASSUME NEW m \in AllMM PROVE Exact(m)'
  BY DEF Counted, AllMM
<1>1. /\ UNCHANGED <<mm, kid_mm, pc, leaving>> /\ curr \in Task
      /\ Exact(m)
  BY DEF context_switch, Typed, Counted
<1>2. Users(m)' = Users(m) /\ Unmapping(m)' = Unmapping(m)
  BY <1>1 DEF Users, Unmapping
<1>3. PICK db : db = One(mm[next] = None /\ m = active_mm[curr]) - One(mm[curr] = None /\ m = active_mm[curr])
  OBVIOUS
<1>4. db \in {-1, 0, 1} /\ One(mm[next] = None /\ m = active_mm[curr]) \in {0, 1}
      /\ One(mm[curr] = None /\ m = active_mm[curr]) \in {0, 1}
  BY <1>3 DEF One
<1>5. PICK u, b, n : u = Users(m) /\ b = Cardinality(Borrowers(m)) /\ n = Cardinality(Unmapping(m))
  OBVIOUS
<1>6. u \in Nat /\ b \in Nat /\ n \in Nat
  BY <1>5, TallyTypes
<1>7. Cardinality(Borrowers(m))' = Cardinality(Borrowers(m)) + db
  BY <1>3, <1>4, <1>5, <1>6, SwitchBorrowers
<1>8. Users(m)' = Users(m) + 0 /\ Cardinality(Unmapping(m))' = Cardinality(Unmapping(m)) + 0
  BY <1>2, <1>5, <1>6
<1>9. /\ mem'.users = mem.users /\ mem'.mapped = mem.mapped
      /\ m \in mem'.allocated <=> mem'.count[m] > 0
      /\ mem'.count[m] = mem.count[m] + db /\ mem.count[m] \in Int
  BY <1>1, <1>3, <1>4, SwitchBooks, Counts
<1>10. Users(m) + 0 = Users(m) /\ \A x : One(x) \in Int
  BY <1>5, <1>6 DEF One
<1>11. mem'.count[m] = mem.count[m] + One(m = init_mm \/ Users(m) + 0 > 0) - One(m = init_mm \/ Users(m) > 0) + db + 0
  BY <1>4, <1>9, <1>10
<1>12. mem'.users[m] = mem.users[m] + 0
  BY <1>9 DEF Typed, Mem, AllMM
<1>13. /\ m \in MM /\ Users(m) + 0 > 0 => m \in mem'.mapped
       /\ m \in MM /\ Unmapping(m)' # {} => Users(m) + 0 = 0
  BY <1>1, <1>2, <1>9, <1>10 DEF Exact
<1> HIDE <1>1, <1>2, <1>3, <1>5, <1>6
<1> QED BY <1>1, <1>4, <1>7, <1>8, <1>9, <1>11, <1>12, <1>13, Balanced

\* An mm whose tallies and books are left alone.
LEMMA Elsewhere ==
  ASSUME AddressSpaceAssumption, Typed, Typed', NEW m \in AllMM, Exact(m),
         \A q \in Task : mm'[q] = m <=> mm[q] = m,
         \A q \in Task : kid_mm'[q] = m <=> kid_mm[q] = m,
         \A q \in Task : Lazy'[q] = m <=> Lazy[q] = m,
         \A q \in Task : Borrowed'[q] = m <=> Borrowed[q] = m,
         \A q \in Task : Unmaps'[q] = m <=> Unmaps[q] = m,
         mem'.users[m] = mem.users[m],
         mem'.count[m] = mem.count[m],
         m \in mem'.allocated <=> m \in mem.allocated,
         m \in mem.mapped => m \in mem'.mapped
  PROVE  Exact(m)'
<1>1. Having(mm', m) = Having(mm, m)
  BY DEF Having
<1>2. Having(kid_mm', m) = Having(kid_mm, m)
  BY DEF Having
<1>3. Having(Lazy', m) = Having(Lazy, m)
  BY DEF Having
<1>4. Having(Borrowed', m) = Having(Borrowed, m)
  BY DEF Having
<1>5. Having(Unmaps', m) = Having(Unmaps, m)
  BY DEF Having
<1>6. Users(m)' = Users(m)
  BY <1>1, <1>2, <1>3, Tallies
<1>7. Borrowers(m)' = Borrowers(m) /\ Unmapping(m)' = Unmapping(m)
  BY <1>4, <1>5, Tallies
<1>8. Refs(m)' = Refs(m)
  BY <1>6, <1>7 DEF Refs
<1> QED BY <1>6, <1>7, <1>8 DEF Exact

LEMMA ForkShareCounted ==
  ASSUME AddressSpaceAssumption, Typed, Typed', Fit, Counted, NEW p \in Pid, NEW c \in Pid, NEW vfork \in BOOLEAN,
         ForkShare(p, c, vfork)
  PROVE  Counted'
<1>1. /\ p \in Task /\ c \in Task /\ p # c /\ mm[c] = None /\ active_mm[c] = None
      /\ \A q \in Task \ {c} : mm'[q] = mm[q] /\ active_mm'[q] = active_mm[q]
      /\ mm'[c] = mm[p] /\ active_mm'[c] = mm[p] /\ UNCHANGED kid_mm
  BY DEF Task, ForkShare, At, Fit, Typed
<1>2. \A q \in Task : Lazy'[q] = Lazy[q] /\ Unmaps'[q] = Unmaps[q]
  BY <1>1 DEF ForkShare, At, Typed, Lazy, Unmaps
<1>3. \A q \in Task : Borrowed'[q] = Borrowed[q]
  BY <1>1 DEF Borrowed
<1>4. CASE mm[p] = None
  <2>1. mem' = mem
    BY <1>4 DEF ForkShare
  <2>2. mm' = mm /\ active_mm' = active_mm
    BY <1>1, <1>4 DEF Typed
  <2> QED BY <1>1, <1>2, <2>1, <2>2, Untouched
<1>5. CASE mm[p] # None
  <2>1. PICK n : n = mm[p]
    OBVIOUS
  <2>2. n \in MM /\ n \in AllMM /\ mem \in Mem
    BY <1>1, <1>5, <2>1 DEF Typed, AllMM
  <2>3. /\ mem'.users = [mem.users EXCEPT ![n] = @ + 1] /\ mem'.count = mem.count
        /\ mem'.allocated = mem.allocated /\ mem'.mapped = mem.mapped
    <3>1. mem' = [mem EXCEPT !.users[n] = @ + 1]
      BY <1>5, <2>1 DEF ForkShare
    <3> QED BY <2>2, <3>1, UserAdded
  <2> SUFFICES ASSUME NEW m \in AllMM PROVE Exact(m)'
    BY DEF Counted, AllMM
  <2>4. Exact(m)
    BY DEF Counted
  <2>5. CASE m # n
    <3>1. m # None
      BY DEF AddressSpaceAssumption, AllMM
    <3>2. \A q \in Task : mm'[q] = m <=> mm[q] = m
      BY <1>1, <2>1, <2>5, <3>1
    <3>3. mem'.users[m] = mem.users[m]
      BY <2>2, <2>3, <2>5 DEF Mem
    <3> QED BY <1>1, <1>2, <1>3, <2>3, <2>4, <3>2, <3>3, Elsewhere
  <2>6. CASE m = n
    <3>1. PICK u, b, k : u = Users(m) /\ b = Cardinality(Borrowers(m)) /\ k = Cardinality(Unmapping(m))
      OBVIOUS
    <3>2. u \in Nat /\ b \in Nat /\ k \in Nat /\ u > 0
      BY <1>1, <2>1, <2>6, <3>1, TallyTypes
    <3>3. Users(m)' = Users(m) + 1
      <4>1. Users(m)' = Users(m) + One(mm'[c] = m) - One(mm[c] = m) + One(kid_mm'[c] = m)
                          - One(kid_mm[c] = m) + One(Lazy'[c] = m) - One(Lazy[c] = m)
        BY <1>1, <1>2, UsersMoved
      <4>2. One(mm'[c] = m) = 1 /\ One(mm[c] = m) = 0 /\ One(kid_mm'[c] = m) = One(kid_mm[c] = m)
            /\ One(Lazy'[c] = m) = One(Lazy[c] = m) /\ One(kid_mm[c] = m) \in {0, 1} /\ One(Lazy[c] = m) \in {0, 1}
        BY <1>1, <1>2, <1>5, <2>1, <2>6 DEF One
      <4> QED BY <3>1, <3>2, <4>1, <4>2
    <3>4. Borrowers(m)' = Borrowers(m) /\ Unmapping(m)' = Unmapping(m)
      <4>1. Having(Borrowed', m) = Having(Borrowed, m) /\ Having(Unmaps', m) = Having(Unmaps, m)
        BY <1>2, <1>3 DEF Having
      <4> QED BY <4>1, Tallies
    <3>5. Cardinality(Borrowers(m))' = Cardinality(Borrowers(m)) + 0 /\ Cardinality(Unmapping(m))' = Cardinality(Unmapping(m)) + 0
      BY <3>1, <3>2, <3>4
    <3>6. mem'.users[m] = mem.users[m] + 1
      BY <2>2, <2>3, <2>6 DEF Mem
    <3>7. mem'.count[m] = mem.count[m] + One(m = init_mm \/ Users(m) + 1 > 0) - One(m = init_mm \/ Users(m) > 0) + 0 + 0
      <4>1. Users(m) > 0 /\ Users(m) + 1 > 0
        BY <3>1, <3>2
      <4>2. One(m = init_mm \/ Users(m) + 1 > 0) = 1 /\ One(m = init_mm \/ Users(m) > 0) = 1
        BY <4>1 DEF One
      <4>3. mem.count[m] \in Int
        BY <2>2 DEF Mem
      <4> QED BY <2>3, <4>2, <4>3
    <3>8. m \in mem'.mapped /\ Unmapping(m)' = {}
      BY <2>2, <2>3, <2>4, <2>6, <3>1, <3>2, <3>4 DEF Exact
    <3>9. m \in mem'.allocated <=> mem'.count[m] > 0
      BY <2>3, <2>4 DEF Exact
    <3> HIDE <1>1, <1>2, <1>3, <1>4, <1>5, <2>1, <2>2, <2>3, <2>5, <2>6
    <3> QED BY <2>4, <3>3, <3>5, <3>6, <3>7, <3>8, <3>9, Balanced
  <2> QED BY <2>5, <2>6
<1> QED BY <1>4, <1>5

LEMMA SameBorrowers ==
  ASSUME AddressSpaceAssumption, NEW m \in AllMM, \A q \in Task : Borrowed'[q] = m <=> Borrowed[q] = m
  PROVE  Cardinality(Borrowers(m))' = Cardinality(Borrowers(m)) + 0
<1>1. Having(Borrowed', m) = Having(Borrowed, m)
  BY DEF Having
<1>2. Borrowers(m)' = Borrowers(m)
  BY <1>1, Tallies
<1>3. Cardinality(Borrowers(m)) \in Nat
  BY TallyTypes
<1> QED BY <1>2, <1>3

LEMMA SameUnmapping ==
  ASSUME AddressSpaceAssumption, NEW m \in AllMM, \A q \in Task : Unmaps'[q] = m <=> Unmaps[q] = m
  PROVE  Unmapping(m)' = Unmapping(m) /\ Cardinality(Unmapping(m))' = Cardinality(Unmapping(m)) + 0
<1>1. Having(Unmaps', m) = Having(Unmaps, m)
  BY DEF Having
<1>2. Unmapping(m)' = Unmapping(m)
  BY <1>1, Tallies
<1>3. Cardinality(Unmapping(m)) \in Nat
  BY TallyTypes
<1> QED BY <1>2, <1>3

LEMMA ForkAllocCounted ==
  ASSUME AddressSpaceAssumption, Typed, Typed', Fit, Counted, NEW p \in Pid, NEW c \in Pid, NEW n \in MM,
         ForkAlloc(p, c, n)
  PROVE  Counted'
<1>1. /\ p \in Task /\ n \in AllMM /\ kid_mm[p] = None /\ kid_mm'[p] = n /\ n \notin mem.allocated
      /\ \A q \in Task \ {p} : kid_mm'[q] = kid_mm[q]
      /\ UNCHANGED <<mm, active_mm>> /\ mem \in Mem
  BY DEF Task, AllMM, ForkAlloc, At, Fit, Typed
<1>2. \A q \in Task : Lazy'[q] = Lazy[q] /\ Unmaps'[q] = Unmaps[q]
  BY <1>1 DEF ForkAlloc, At, Typed, Lazy, Unmaps
<1>3. \A q \in Task : Borrowed'[q] = Borrowed[q]
  BY <1>1 DEF Borrowed
<1>4. /\ mem'.allocated = mem.allocated \cup {n} /\ mem'.mapped = mem.mapped \cup {n}
      /\ mem'.users = [mem.users EXCEPT ![n] = 1] /\ mem'.count = [mem.count EXCEPT ![n] = 1]
  BY <1>1, Allocated DEF ForkAlloc
<1> SUFFICES ASSUME NEW m \in AllMM PROVE Exact(m)'
  BY DEF Counted, AllMM
<1>5. Exact(m)
  BY DEF Counted
<1>6. CASE m # n
  <2>1. m # None
    BY DEF AddressSpaceAssumption, AllMM
  <2>2. \A q \in Task : kid_mm'[q] = m <=> kid_mm[q] = m
    BY <1>1, <1>6, <2>1
  <2>3. (mem'.users[m] = mem.users[m]) /\ mem'.count[m] = mem.count[m]
    BY <1>1, <1>4, <1>6 DEF Mem
  <2> QED BY <1>1, <1>2, <1>3, <1>4, <1>5, <1>6, <2>2, <2>3, Elsewhere
<1>7. CASE m = n
  <2>1. PICK u, b, k : u = Users(m) /\ b = Cardinality(Borrowers(m)) /\ k = Cardinality(Unmapping(m))
    OBVIOUS
  <2>2. u \in Nat /\ b \in Nat /\ k \in Nat /\ \A x : One(x) \in {0, 1}
    BY <2>1, TallyTypes DEF One
  <2>3. m # init_mm /\ m \in MM /\ mem.count[m] \in Int
    BY <1>1, <1>7, Counts, <1>5 DEF AddressSpaceAssumption
  <2>4. u = 0 /\ k = 0 /\ mem.count[m] = 0
    <3>1. mem.count[m] >= Refs(m) /\ ~ (mem.count[m] > 0)
      BY <1>1, <1>5, <1>7 DEF Exact
    <3>2. Refs(m) = One(m = init_mm \/ u > 0) + b + k
      BY <2>1 DEF Refs
    <3>3. One(m = init_mm \/ u > 0) = 0 /\ k = 0 /\ mem.count[m] = 0
      BY <2>2, <2>3, <3>1, <3>2
    <3>4. ~ (u > 0)
      BY <3>3 DEF One
    <3> QED BY <2>2, <3>3, <3>4
  <2>5. Users(m)' = Users(m) + 1
    <3>1. Users(m)' = Users(m) + One(mm'[p] = m) - One(mm[p] = m) + One(kid_mm'[p] = m)
                        - One(kid_mm[p] = m) + One(Lazy'[p] = m) - One(Lazy[p] = m)
      BY <1>1, <1>2, UsersMoved
    <3>2. /\ One(kid_mm'[p] = m) = 1 /\ One(kid_mm[p] = m) = 0 /\ One(mm'[p] = m) = One(mm[p] = m)
          /\ One(Lazy'[p] = m) = One(Lazy[p] = m)
      BY <1>1, <1>2, <1>7 DEF One, AddressSpaceAssumption
    <3> QED BY <2>1, <2>2, <3>1, <3>2
  <2>6. Unmapping(m)' = {}
    <3>1. Unmapping(m)' = Unmapping(m)
      BY <1>2, SameUnmapping
    <3>2. \A q \in Task : Unmaps[q] # m
      <4>1. \A q \in Task : Unmaps[q] = m => Cardinality(Unmapping(m)) > 0
        BY TallyTypes
      <4>2. Cardinality(Unmapping(m)) = 0
        BY <2>1, <2>4
      <4> QED BY <4>1, <4>2
    <3>3. Having(Unmaps, m) = {}
      BY <3>2 DEF Having
    <3> QED BY <3>1, <3>3, Tallies
  <2>7. /\ Cardinality(Borrowers(m))' = Cardinality(Borrowers(m)) + 0
        /\ Cardinality(Unmapping(m))' = Cardinality(Unmapping(m)) + 0
    BY <1>2, <1>3, SameBorrowers, SameUnmapping
  <2>8. mem'.users[m] = mem.users[m] + 1
    BY <1>1, <1>4, <1>5, <1>7, <2>1, <2>4 DEF Mem, Exact
  <2>9. mem'.count[m] = mem.count[m] + One(m = init_mm \/ Users(m) + 1 > 0) - One(m = init_mm \/ Users(m) > 0) + 0 + 0
    <3>1. One(m = init_mm \/ Users(m) + 1 > 0) = 1 /\ One(m = init_mm \/ Users(m) > 0) = 0
      BY <2>1, <2>3, <2>4 DEF One
    <3> QED BY <1>1, <1>4, <1>7, <2>4, <3>1 DEF Mem
  <2>10. m \in mem'.mapped /\ (m \in mem'.allocated <=> mem'.count[m] > 0)
    BY <1>1, <1>4, <1>7 DEF Mem
  <2> HIDE <1>1, <1>2, <1>3, <1>4, <1>6, <1>7, <2>1, <2>2, <2>3, <2>4
  <2> QED BY <1>5, <2>5, <2>6, <2>7, <2>8, <2>9, <2>10, Balanced
<1> QED BY <1>6, <1>7

LEMMA DupDoneCounted ==
  ASSUME AddressSpaceAssumption, Typed, Typed', Fit, Counted, NEW p \in Pid, DupDone(p)
  PROVE  Counted'
<1>1. PICK c, n : c = kid[p] /\ n = kid_mm[p]
  OBVIOUS
<1>2. /\ p \in Task /\ c \in Task /\ n \in AllMM /\ mm[c] = None /\ active_mm[c] = None
      /\ \A q \in Task \ {c} : mm'[q] = mm[q] /\ active_mm'[q] = active_mm[q]
      /\ \A q \in Task \ {p} : kid_mm'[q] = kid_mm[q]
      /\ mm'[c] = n /\ kid_mm'[p] = None /\ n # None /\ mem' = mem
  BY <1>1 DEF Task, AllMM, DupDone, At, Fit, Forking, Typed
<1>3. \A q \in Task : Lazy'[q] = Lazy[q] /\ Unmaps'[q] = Unmaps[q]
  BY <1>2 DEF DupDone, Goto, At, Typed, Lazy, Unmaps
<1>4. \A q \in Task : Borrowed'[q] = Borrowed[q]
  BY <1>2 DEF Borrowed
<1> SUFFICES ASSUME NEW m \in AllMM PROVE Exact(m)'
  BY DEF Counted, AllMM
<1>5. Exact(m) /\ m # None
  BY DEF Counted, AddressSpaceAssumption, AllMM
<1>6. Users(m)' = Users(m)
  <2>1. Users(m)' = Users(m) + One(mm'[c] = m) - One(mm[c] = m) + One(kid_mm'[p] = m)
                      - One(kid_mm[p] = m) + One(Lazy'[c] = m) - One(Lazy[c] = m)
    BY <1>2, <1>3, UsersMoved
  <2>2. /\ One(mm'[c] = m) = One(kid_mm[p] = m) /\ One(mm[c] = m) = 0 /\ One(kid_mm'[p] = m) = 0
        /\ One(Lazy'[c] = m) = One(Lazy[c] = m)
    BY <1>1, <1>2, <1>3, <1>5 DEF One
  <2>3. Users(m) \in Nat /\ \A x : One(x) \in {0, 1}
    BY TallyTypes DEF One
  <2> QED BY <2>1, <2>2, <2>3
<1>7. Borrowers(m)' = Borrowers(m) /\ Unmapping(m)' = Unmapping(m)
  <2>1. Having(Borrowed', m) = Having(Borrowed, m)
    BY <1>4 DEF Having
  <2> QED BY <1>3, <2>1, Tallies, SameUnmapping
<1>8. Refs(m)' = Refs(m)
  BY <1>6, <1>7 DEF Refs
<1> QED BY <1>2, <1>5, <1>6, <1>7, <1>8 DEF Exact

\* s is mem with h more in the count of n.
Raised(s, n, h) ==
  /\ s \in Mem /\ s.users = mem.users /\ s.mapped = mem.mapped /\ s.allocated = mem.allocated
  /\ s.count = [mem.count EXCEPT ![n] = @ + h]

\* What mmput does to the books of n, which has a user, when its count is h above mem's.
LEMMA PutBooks ==
  ASSUME AddressSpaceAssumption, Typed, Counted, NEW n \in MM, Users(n) > 0, NEW h \in {0, 1},
         NEW s, Raised(s, n, h), mem' = mmput(s, n)
  PROVE  /\ \A m \in AllMM : m # n =>
              /\ mem'.users[m] = mem.users[m] /\ mem'.count[m] = mem.count[m]
              /\ m \in mem'.allocated <=> m \in mem.allocated
              /\ m \in mem.mapped => m \in mem'.mapped
         /\ mem'.users[n] = mem.users[n] + -1
         /\ mem'.count[n] = mem.count[n] + One(Users(n) + -1 > 0) - One(Users(n) > 0) + h
         /\ n \in mem'.allocated <=> mem'.count[n] > 0
         /\ Users(n) + -1 > 0 => n \in mem'.mapped
<1>1. n \in AllMM /\ mem \in Mem
  BY DEF AllMM, Typed
<1>2. /\ mem'.users = [mem.users EXCEPT ![n] = @ - 1]
      /\ s.users[n] = 1 =>
           /\ mem'.count = [s.count EXCEPT ![n] = @ - 1] /\ mem'.mapped = s.mapped \ {n}
           /\ mem'.allocated = IF s.count[n] = 1 THEN s.allocated \ {n} ELSE s.allocated
      /\ s.users[n] # 1 => mem'.count = s.count /\ mem'.mapped = s.mapped /\ mem'.allocated = s.allocated
      /\ s.users = mem.users
  <2>1. s \in Mem /\ s.users = mem.users
    BY DEF Raised
  <2>2. PICK t : t = mem'
    OBVIOUS
  <2>3. t = mmput(s, n)
    BY <2>2
  <2>4. /\ t.users = [s.users EXCEPT ![n] = @ - 1]
        /\ s.users[n] = 1 =>
             /\ t.count = [s.count EXCEPT ![n] = @ - 1] /\ t.mapped = s.mapped \ {n}
             /\ t.allocated = IF s.count[n] = 1 THEN s.allocated \ {n} ELSE s.allocated
        /\ s.users[n] # 1 => t.count = s.count /\ t.mapped = s.mapped /\ t.allocated = s.allocated
    BY <1>1, <2>1, <2>3, Put
  <2>5. mem'.users = [mem.users EXCEPT ![n] = @ - 1]
    BY <2>1, <2>2, <2>4
  <2> HIDE <1>1, <2>1, <2>3
  <2> QED BY <2>1, <2>2, <2>4, <2>5
<1>3. PICK u, k : u = Users(n) /\ k = mem.count[n]
  OBVIOUS
<1>4. /\ mem.users[n] = u /\ u \in Nat /\ u > 0 /\ k \in Int /\ k >= 1 /\ n \in mem.mapped /\ n \in mem.allocated
  <2>1. Exact(n)
    BY <1>1 DEF Counted
  <2>2. u \in Nat /\ mem.users[n] = u /\ n \in mem.mapped
    BY <1>1, <1>3, <2>1, TallyTypes DEF Exact
  <2>3. k \in Int /\ k >= Refs(n)
    BY <1>1, <1>3, <2>1, Counts DEF Exact
  <2>4. Refs(n) >= 1
    <3>1. PICK b, c : b = Cardinality(Borrowers(n)) /\ c = Cardinality(Unmapping(n))
      OBVIOUS
    <3>2. b \in Nat /\ c \in Nat
      BY <1>1, <3>1, TallyTypes
    <3>3. One(n = init_mm \/ Users(n) > 0) = 1
      BY DEF One
    <3>4. Refs(n) = 1 + b + c
      BY <3>1, <3>3 DEF Refs
    <3> QED BY <3>2, <3>4
  <2>5. Refs(n) \in Nat
    BY <1>1, <2>1, Counts
  <2>6. k >= 1
    BY <2>3, <2>4, <2>5
  <2> QED BY <1>3, <2>1, <2>2, <2>3, <2>6 DEF Exact
<1>5. s.count[n] = k + h /\ s.users[n] = u
  BY <1>1, <1>3, <1>4 DEF Mem, Raised
<1>6. mem'.users[n] = mem.users[n] + -1
  BY <1>1, <1>2, <1>4 DEF Mem, Raised
<1>7. CASE u = 1
  <2>1. /\ mem'.count = [s.count EXCEPT ![n] = @ - 1] /\ mem'.mapped = s.mapped \ {n}
        /\ mem'.allocated = IF k + h = 1 THEN s.allocated \ {n} ELSE s.allocated
    BY <1>2, <1>5, <1>7
  <2>2. mem'.count[n] = k + h - 1
    BY <1>1, <1>5, <2>1 DEF Mem, Raised
  <2>3. ~ (Users(n) + -1 > 0) /\ One(Users(n) + -1 > 0) = 0 /\ One(Users(n) > 0) = 1
    BY <1>3, <1>7 DEF One
  <2>4. mem'.count[n] = mem.count[n] + One(Users(n) + -1 > 0) - One(Users(n) > 0) + h
    BY <1>3, <1>4, <2>2, <2>3
  <2>5. n \in mem'.allocated <=> mem'.count[n] > 0
    BY <1>4, <2>1, <2>2 DEF Raised
  <2>6. ASSUME NEW m \in AllMM, m # n
        PROVE  /\ mem'.users[m] = mem.users[m] /\ mem'.count[m] = mem.count[m]
               /\ m \in mem'.allocated <=> m \in mem.allocated
               /\ m \in mem.mapped => m \in mem'.mapped
    BY <1>1, <1>2, <2>1, <2>6 DEF Mem, Raised
  <2> QED BY <1>6, <2>3, <2>4, <2>5, <2>6
<1>8. CASE u # 1
  <2>1. mem'.count = s.count /\ mem'.mapped = mem.mapped /\ mem'.allocated = mem.allocated
    BY <1>2, <1>5, <1>8 DEF Raised
  <2>2. Users(n) + -1 > 0 /\ One(Users(n) + -1 > 0) = 1 /\ One(Users(n) > 0) = 1
    BY <1>3, <1>4, <1>8 DEF One
  <2>3. mem'.count[n] = mem.count[n] + One(Users(n) + -1 > 0) - One(Users(n) > 0) + h
    BY <1>3, <1>4, <1>5, <2>1, <2>2
  <2>4. n \in mem'.allocated <=> mem'.count[n] > 0
    BY <1>4, <1>5, <2>1
  <2>5. ASSUME NEW m \in AllMM, m # n
        PROVE  mem'.users[m] = mem.users[m] /\ mem'.count[m] = mem.count[m]
    BY <1>1, <1>2, <2>1, <2>5 DEF Mem, Raised
  <2> QED BY <1>4, <1>6, <2>1, <2>3, <2>4, <2>5
<1> QED BY <1>7, <1>8

\* After mmput, with one use of n gone from the tallies, the books balance.
LEMMA PutCounted ==
  ASSUME AddressSpaceAssumption, Typed, Typed', Counted, NEW n \in MM, Users(n) > 0, NEW h \in {0, 1},
         NEW s, Raised(s, n, h), mem' = mmput(s, n), h = 1 => "late" \in Failures,
         \A m \in AllMM : Users(m)' = Users(m) - One(m = n),
         \A q \in Task : Borrowed'[q] = Borrowed[q],
         \A q \in Task : Unmaps'[q] = Unmaps[q]
  PROVE  Counted'
<1> SUFFICES ASSUME NEW m \in AllMM PROVE Exact(m)'
  BY DEF Counted, AllMM
<1>1. n \in AllMM /\ Exact(m)
  BY DEF AllMM, Counted
<1>2. /\ \A x \in AllMM : x # n =>
              /\ mem'.users[x] = mem.users[x] /\ mem'.count[x] = mem.count[x]
              /\ x \in mem'.allocated <=> x \in mem.allocated
              /\ x \in mem.mapped => x \in mem'.mapped
      /\ mem'.users[n] = mem.users[n] + -1
      /\ mem'.count[n] = mem.count[n] + One(Users(n) + -1 > 0) - One(Users(n) > 0) + h
      /\ n \in mem'.allocated <=> mem'.count[n] > 0
      /\ Users(n) + -1 > 0 => n \in mem'.mapped
  BY PutBooks
<1>3. Cardinality(Borrowers(m))' = Cardinality(Borrowers(m)) + 0
  BY SameBorrowers
<1>4. Unmapping(m)' = Unmapping(m) /\ Cardinality(Unmapping(m))' = Cardinality(Unmapping(m)) + 0
  BY SameUnmapping
<1>5. Users(m) \in Nat /\ mem.count[m] \in Int /\ \A x : One(x) \in {0, 1}
  BY <1>1, TallyTypes, Counts DEF One
<1>6. CASE m # n
  <2>1. One(m = n) = 0
    BY <1>6 DEF One
  <2>2. Users(m)' = Users(m)
    BY <1>5, <2>1
  <2>3. Borrowers(m)' = Borrowers(m)
    <3>1. Having(Borrowed', m) = Having(Borrowed, m)
      BY DEF Having
    <3> QED BY <3>1, Tallies
  <2>4. Refs(m)' = Refs(m)
    BY <1>4, <2>2, <2>3 DEF Refs
  <2>5. /\ mem'.users[m] = mem.users[m]
        /\ mem'.count[m] = mem.count[m]
        /\ m \in mem'.allocated <=> m \in mem.allocated
        /\ m \in mem.mapped => m \in mem'.mapped
    BY <1>2, <1>6
  <2> HIDE <1>2, <1>6
  <2> QED BY <1>1, <1>4, <2>2, <2>4, <2>5 DEF Exact
<1>7. CASE m = n
  <2>1. One(m = n) = 1 /\ m # init_mm
    BY <1>7 DEF One, AddressSpaceAssumption
  <2>2. Users(m)' = Users(m) + -1
    BY <1>5, <2>1
  <2>3. One(m = init_mm \/ Users(m) + -1 > 0) = One(Users(n) + -1 > 0) /\ One(m = init_mm \/ Users(m) > 0) = One(Users(n) > 0)
    BY <1>7, <2>1 DEF One
  <2>4. mem'.count[m] = mem.count[m] + One(m = init_mm \/ Users(m) + -1 > 0) - One(m = init_mm \/ Users(m) > 0) + 0 + 0 + h
    BY <1>2, <1>5, <1>7, <2>3
  <2>5. Unmapping(m)' = {}
    BY <1>1, <1>4, <1>7 DEF Exact
  <2>6. /\ mem'.users[m] = mem.users[m] + -1
        /\ m \in mem'.allocated <=> mem'.count[m] > 0
        /\ Users(m) + -1 > 0 => m \in mem'.mapped
    BY <1>2, <1>7
  <2> HIDE <1>2, <1>7
  <2> QED BY <1>1, <1>3, <1>4, <2>2, <2>4, <2>5, <2>6, Overpaid
<1> QED BY <1>6, <1>7

LEMMA DupFailedCounted ==
  ASSUME AddressSpaceAssumption, Typed, Typed', Fit, Counted, NEW p \in Pid, DupFailed(p)
  PROVE  Counted'
<1>1. PICK n : n = kid_mm[p]
  OBVIOUS
<1>2. /\ p \in Task /\ n \in MM /\ n \in AllMM /\ n # None
      /\ \A q \in Task \ {p} : kid_mm'[q] = kid_mm[q]
      /\ kid_mm'[p] = None /\ mem' = mmput(mem, n) /\ UNCHANGED <<mm, active_mm>> /\ mem \in Mem
  BY <1>1 DEF Task, AllMM, DupFailed, At, Fit, Typed
<1>3. \A q \in Task : Lazy'[q] = Lazy[q] /\ Unmaps'[q] = Unmaps[q]
  BY <1>2 DEF DupFailed, FreeCopy, At, Fit, Forking, Typed, Lazy, Unmaps
<1>4. \A q \in Task : Borrowed'[q] = Borrowed[q]
  BY <1>2 DEF Borrowed
<1>5. Users(n) > 0
  BY <1>1, <1>2, TallyTypes
<1>6. ASSUME NEW m \in AllMM PROVE Users(m)' = Users(m) - One(m = n)
  <2>1. Users(m)' = Users(m) + One(mm'[p] = m) - One(mm[p] = m) + One(kid_mm'[p] = m)
                      - One(kid_mm[p] = m) + One(Lazy'[p] = m) - One(Lazy[p] = m)
    BY <1>2, <1>3, UsersMoved
  <2>2. m # None
    BY DEF AddressSpaceAssumption, AllMM
  <2>3. /\ One(mm'[p] = m) = One(mm[p] = m) /\ One(kid_mm'[p] = m) = 0 /\ One(kid_mm[p] = m) = One(m = n)
        /\ One(Lazy'[p] = m) = One(Lazy[p] = m)
    BY <1>1, <1>2, <1>3, <2>2 DEF One
  <2>4. Users(m) \in Nat /\ \A x : One(x) \in {0, 1}
    BY TallyTypes DEF One
  <2> QED BY <2>1, <2>3, <2>4
<1>7. Raised(mem, n, 0)
  BY <1>2 DEF Raised, Mem
<1> QED BY <1>2, <1>3, <1>4, <1>5, <1>6, <1>7, PutCounted

LEMMA LateFailedCounted ==
  ASSUME AddressSpaceAssumption, Typed, Typed', Fit, Counted, NEW p \in Pid, LateFailed(p)
  PROVE  Counted'
<1>1. PICK c, n : c = kid[p] /\ n = mm[c]
  OBVIOUS
<1>2. /\ p \in Task /\ c \in Task /\ c # curr /\ mem \in Mem /\ "late" \in Failures
      /\ \A q \in Task \ {c} : mm'[q] = mm[q] /\ active_mm'[q] = active_mm[q]
      /\ mm'[c] = None /\ active_mm'[c] = None /\ UNCHANGED kid_mm
  BY <1>1 DEF Task, LateFailed, At, Fit, Forking, Typed
<1>3. \A q \in Task : Lazy'[q] = Lazy[q] /\ Unmaps'[q] = Unmaps[q]
  BY DEF LateFailed, FreeCopy, At, Fit, Forking, Typed, Task, Lazy, Unmaps
<1>4. \A q \in Task : Borrowed'[q] = Borrowed[q]
  BY <1>1, <1>2 DEF Borrowed, Fit
<1>5. CASE n = None
  <2>1. mem' = mem
    BY <1>1, <1>5 DEF LateFailed
  <2>2. mm' = mm /\ active_mm' = active_mm
    <3>1. mm[c] = None /\ active_mm[c] = None
      BY <1>1, <1>2, <1>5 DEF Fit
    <3>2. mm' = [mm EXCEPT ![c] = None] /\ active_mm' = [active_mm EXCEPT ![c] = None]
      BY <1>1 DEF LateFailed
    <3> QED BY <3>1, <3>2 DEF Typed
  <2> QED BY <1>2, <1>3, <2>1, <2>2, Untouched
<1>6. CASE n # None
  <2>1. n \in MM /\ n \in AllMM /\ Users(n) > 0
    <3>1. n \in MM /\ n \in AllMM
      BY <1>1, <1>2, <1>6 DEF Typed, AllMM
    <3> QED BY <1>1, <1>2, <3>1, TallyTypes
  <2>2. PICK s : s = Hold(mem, n)
    OBVIOUS
  <2>3. Raised(s, n, 1)
    BY <1>2, <2>1, <2>2, Held DEF Raised
  <2>4. mem' = mmput(s, n)
    BY <1>1, <1>6, <2>2 DEF LateFailed
  <2>5. ASSUME NEW m \in AllMM PROVE Users(m)' = Users(m) - One(m = n)
    <3>1. Users(m)' = Users(m) + One(mm'[c] = m) - One(mm[c] = m) + One(kid_mm'[c] = m)
                        - One(kid_mm[c] = m) + One(Lazy'[c] = m) - One(Lazy[c] = m)
      BY <1>2, <1>3, UsersMoved
    <3>2. m # None
      BY DEF AddressSpaceAssumption, AllMM
    <3>3. /\ One(mm'[c] = m) = 0 /\ One(mm[c] = m) = One(m = n) /\ One(kid_mm'[c] = m) = One(kid_mm[c] = m)
          /\ One(Lazy'[c] = m) = One(Lazy[c] = m)
      BY <1>1, <1>2, <1>3, <3>2 DEF One
    <3>4. Users(m) \in Nat /\ \A x : One(x) \in {0, 1}
      BY TallyTypes DEF One
    <3> QED BY <3>1, <3>3, <3>4
  <2> QED BY <1>2, <1>3, <1>4, <2>1, <2>3, <2>4, <2>5, PutCounted
<1> QED BY <1>5, <1>6

\* exit_mm: one user less, one borrower more, and if it was the last user one more in exit_mmap.
LEMMA exit_mmCounted ==
  ASSUME AddressSpaceAssumption, Typed, Typed', Fit, Counted, NEW p \in Pid, NEW exit \in BOOLEAN, exit_mm(p, exit)
  PROVE  Counted'
<1>1. PICK n : n = mm[p]
  OBVIOUS
<1>2. /\ p \in Task /\ p = curr /\ pc[p] = "run" /\ mem \in Mem /\ UNCHANGED <<kid_mm, active_mm>>
      /\ \A q \in Task \ {p} : mm'[q] = mm[q]
      /\ mm'[p] = None
  BY <1>1 DEF Task, exit_mm, At, Typed
<1>3. CASE n = None
  <2>1. mem' = mem /\ mm' = mm
    BY <1>1, <1>3 DEF exit_mm, Typed
  <2>2. \A q \in Task : Lazy'[q] = Lazy[q] /\ Unmaps'[q] = Unmaps[q]
    BY <1>1, <1>2, <1>3 DEF exit_mm, Goto, Typed, Lazy, Unmaps
  <2> QED BY <1>2, <2>1, <2>2, Untouched
<1>4. CASE n # None
  <2>1. n \in MM /\ n \in AllMM /\ Users(n) > 0 /\ active_mm[p] = n
    <3>1. n \in MM /\ n \in AllMM /\ active_mm[p] = n
      BY <1>1, <1>2, <1>4 DEF Typed, AllMM, Fit
    <3> QED BY <1>1, <1>2, <3>1, TallyTypes
  <2>2. /\ mem'.users = [mem.users EXCEPT ![n] = @ - 1] /\ mem'.count = [mem.count EXCEPT ![n] = @ + 1]
        /\ mem'.allocated = mem.allocated /\ mem'.mapped = mem.mapped
    <3>1. PICK s, t : s = Hold(mem, n) /\ t = DropUser(s, n)
      OBVIOUS
    <3>2. mem' = t
      BY <1>1, <1>4, <3>1 DEF exit_mm, Unhook
    <3>3. /\ s \in Mem /\ s.users = mem.users /\ s.allocated = mem.allocated /\ s.mapped = mem.mapped
          /\ s.count = [mem.count EXCEPT ![n] = @ + 1]
      BY <1>2, <2>1, <3>1, Held
    <3>4. /\ t.count = s.count /\ t.allocated = s.allocated /\ t.mapped = s.mapped
          /\ t.users = [s.users EXCEPT ![n] = @ - 1]
      BY <2>1, <3>1, <3>3, UserDropped
    <3> HIDE <3>1
    <3> QED BY <3>2, <3>3, <3>4
  <2>3. /\ \A q \in Task : Lazy'[q] = Lazy[q]
        /\ \A q \in Task \ {p} : Unmaps'[q] = Unmaps[q]
        /\ Unmaps[p] = None /\ Unmaps'[p] = IF mem.users[n] = 1 THEN n ELSE None
    BY <1>1, <1>2, <1>4 DEF exit_mm, LastUser, Goto, Typed, Lazy, Unmaps
  <2>4. /\ \A q \in Task \ {p} : Borrowed'[q] = Borrowed[q]
        /\ Borrowed[p] = None /\ Borrowed'[p] = n
    BY <1>1, <1>2, <1>4, <2>1 DEF Borrowed
  <2> SUFFICES ASSUME NEW m \in AllMM PROVE Exact(m)'
    BY DEF Counted, AllMM
  <2>5. Exact(m) /\ m # None /\ Users(m) \in Nat /\ mem.count[m] \in Int /\ \A x : One(x) \in {0, 1}
    BY TallyTypes, Counts DEF Counted, AddressSpaceAssumption, AllMM, One
  <2>6. CASE m # n
    <3>1. \A q \in Task : mm'[q] = m <=> mm[q] = m
      BY <1>1, <1>2, <2>5, <2>6
    <3>2. \A q \in Task : Borrowed'[q] = m <=> Borrowed[q] = m
      BY <2>4, <2>5, <2>6
    <3>3. \A q \in Task : Unmaps'[q] = m <=> Unmaps[q] = m
      BY <2>3, <2>5, <2>6
    <3>4. (mem'.users[m] = mem.users[m]) /\ mem'.count[m] = mem.count[m]
      BY <1>2, <2>1, <2>2, <2>6 DEF Mem
    <3>5. /\ m \in mem'.allocated <=> m \in mem.allocated
          /\ m \in mem.mapped => m \in mem'.mapped
      BY <2>2
    <3>6. \A q \in Task : kid_mm'[q] = m <=> kid_mm[q] = m
      BY <1>2
    <3>7. \A q \in Task : Lazy'[q] = m <=> Lazy[q] = m
      BY <2>3
    <3> HIDE <1>1, <1>2, <1>4, <2>1, <2>2, <2>3, <2>4, <2>6
    <3> QED BY <2>5, <3>1, <3>2, <3>3, <3>4, <3>5, <3>6, <3>7, Elsewhere
  <2>7. CASE m = n
    <3>1. PICK dn : dn = One(mem.users[n] = 1)
      OBVIOUS
    <3>2. dn \in {0, 1} /\ mem.users[n] = Users(m) /\ Users(m) > 0 /\ m # init_mm /\ m \in MM
          /\ n \in mem.mapped /\ n \in mem.allocated /\ mem.count[m] >= 1 /\ Unmapping(m) = {}
      <4>1. mem.count[m] >= 1
        BY <1>1, <1>2, <2>5, <2>7, Counts
      <4> QED BY <2>1, <2>5, <2>7, <3>1, <4>1 DEF Exact, AddressSpaceAssumption
    <3>3. Users(m)' = Users(m) + -1
      <4>1. Users(m)' = Users(m) + One(mm'[p] = m) - One(mm[p] = m) + One(kid_mm'[p] = m)
                          - One(kid_mm[p] = m) + One(Lazy'[p] = m) - One(Lazy[p] = m)
        BY <1>2, <2>3, UsersMoved
      <4>2. /\ One(mm'[p] = m) = 0 /\ One(mm[p] = m) = 1 /\ One(kid_mm'[p] = m) = One(kid_mm[p] = m)
            /\ One(Lazy'[p] = m) = One(Lazy[p] = m)
        BY <1>1, <1>2, <2>3, <2>5, <2>7 DEF One
      <4> QED BY <2>5, <4>1, <4>2
    <3>4. Cardinality(Borrowers(m))' = Cardinality(Borrowers(m)) + 1
      <4>1. Cardinality(Borrowers(m))' = Cardinality(Borrowers(m)) + One(Borrowed'[p] = m) - One(Borrowed[p] = m)
        BY <1>2, <2>4, BorrowersMoved
      <4>2. One(Borrowed'[p] = m) = 1 /\ One(Borrowed[p] = m) = 0 /\ Cardinality(Borrowers(m)) \in Nat
        BY <2>4, <2>5, <2>7, TallyTypes DEF One
      <4> QED BY <4>1, <4>2
    <3>5. Cardinality(Unmapping(m))' = Cardinality(Unmapping(m)) + dn
      <4>1. Cardinality(Unmapping(m))' = Cardinality(Unmapping(m)) + One(Unmaps'[p] = m) - One(Unmaps[p] = m)
        BY <1>2, <2>3, UnmappingMoved
      <4>2. One(Unmaps'[p] = m) = dn /\ One(Unmaps[p] = m) = 0 /\ Cardinality(Unmapping(m)) \in Nat
        BY <2>3, <2>5, <2>7, <3>1, TallyTypes DEF One
      <4> QED BY <3>2, <4>1, <4>2
    <3>6. mem'.users[m] = mem.users[m] + -1 /\ mem'.count[m] = mem.count[m] + 1
      BY <1>2, <2>1, <2>2, <2>7 DEF Mem
    <3>7. (dn = 1 <=> Users(m) = 1) /\ (Users(m) + -1 > 0 <=> dn = 0)
      BY <2>5, <3>1, <3>2 DEF One
    <3>8. mem'.count[m] = mem.count[m] + One(m = init_mm \/ Users(m) + -1 > 0) - One(m = init_mm \/ Users(m) > 0) + 1 + dn
      <4>1. One(m = init_mm \/ Users(m) + -1 > 0) = 1 - dn /\ One(m = init_mm \/ Users(m) > 0) = 1
        BY <3>2, <3>7 DEF One
      <4> QED BY <2>5, <3>2, <3>6, <4>1
    <3>9. Unmapping(m)' # {} => Users(m) + -1 = 0
      <4>1. CASE dn = 1
        BY <3>7, <4>1
      <4>2. CASE dn = 0
        <5>1. \A q \in Task : Unmaps'[q] = m <=> Unmaps[q] = m
          BY <2>3, <2>5, <3>1, <4>2 DEF One
        <5> QED BY <3>2, <5>1, SameUnmapping
      <4> QED BY <3>2, <4>1, <4>2
    <3>10. m \in mem'.mapped /\ (m \in mem'.allocated <=> mem'.count[m] > 0)
      BY <2>2, <2>5, <2>7, <3>2, <3>6
    <3> HIDE <1>1, <1>2, <1>4, <2>1, <2>2, <2>3, <2>4, <2>7, <3>1, <3>7
    <3> QED BY <2>5, <3>2, <3>3, <3>4, <3>5, <3>6, <3>8, <3>9, <3>10, Balanced
  <2> QED BY <2>6, <2>7
<1> QED BY <1>3, <1>4

\* mmdrop of a reference the count knows of.
LEMMA DropBooks ==
  ASSUME NEW s \in Mem, NEW n \in AllMM, s.count[n] >= 1, \A x \in AllMM : x \in s.allocated <=> s.count[x] > 0,
         NEW m \in AllMM, NEW t, t = mmdrop(s, n)
  PROVE  /\ t.users = s.users /\ t.mapped = s.mapped
         /\ t.count[m] = s.count[m] - One(m = n)
         /\ m \in t.allocated <=> t.count[m] > 0
<1>1. /\ t.users = s.users /\ t.mapped = s.mapped /\ t.count = [s.count EXCEPT ![n] = @ - 1]
      /\ t.allocated = IF s.count[n] = 1 THEN s.allocated \ {n} ELSE s.allocated
  BY Dropped
<1>2. s.count \in [AllMM -> Int] /\ s.count[m] \in Int /\ s.count[n] \in Int
  BY DEF Mem
<1>3. CASE m = n
  <2>1. One(m = n) = 1 /\ t.count[n] = s.count[n] - 1
    BY <1>1, <1>2, <1>3 DEF One
  <2> QED BY <1>1, <1>2, <1>3, <2>1
<1>4. CASE m # n
  <2>1. One(m = n) = 0 /\ t.count[m] = s.count[m] /\ (m \in t.allocated <=> m \in s.allocated)
    BY <1>1, <1>2, <1>4 DEF One
  <2> QED BY <1>1, <1>2, <2>1
<1> QED BY <1>3, <1>4

LEMMA UnmappedCounted ==
  ASSUME AddressSpaceAssumption, Typed, Typed', Fit, Counted, NEW p \in Pid, Unmapped(p)
  PROVE  Counted'
<1>1. PICK n : n = leaving[p]
  OBVIOUS
<1>2. /\ p \in Task /\ n \in MM /\ n \in AllMM /\ n # None /\ n # init_mm /\ mem \in Mem
      /\ UNCHANGED <<mm, kid_mm, active_mm>>
  BY <1>1 DEF Task, AllMM, Unmapped, At, Fit, Typed, AddressSpaceAssumption
<1>3. /\ \A q \in Task : Lazy'[q] = Lazy[q]
      /\ \A q \in Task \ {p} : Unmaps'[q] = Unmaps[q]
      /\ Unmaps[p] = n /\ Unmaps'[p] = None
  BY <1>1, <1>2 DEF Unmapped, Goto, At, Typed, Lazy, Unmaps
<1>4. \A q \in Task : Borrowed'[q] = Borrowed[q]
  BY <1>2 DEF Borrowed
<1>5. Exact(n) /\ mem.count[n] >= 1
  <2>1. Exact(n)
    BY <1>2 DEF Counted
  <2> QED BY <1>2, <1>3, <2>1, Counts
<1>6. \A x \in AllMM : x \in mem.allocated <=> mem.count[x] > 0
  BY DEF Counted, Exact
<1> SUFFICES ASSUME NEW m \in AllMM PROVE Exact(m)'
  BY DEF Counted, AllMM
<1>7. Exact(m) /\ m # None /\ Users(m) \in Nat /\ mem.count[m] \in Int /\ \A x : One(x) \in {0, 1}
  BY TallyTypes, Counts DEF Counted, AddressSpaceAssumption, AllMM, One
<1>8. /\ mem'.users = mem.users /\ mem'.mapped = mem.mapped \ {n}
      /\ mem'.count[m] = mem.count[m] - One(m = n)
      /\ m \in mem'.allocated <=> mem'.count[m] > 0
  <2>1. PICK s, t : s = exit_mmap(mem, n) /\ t = mmdrop(s, n)
    OBVIOUS
  <2>2. s \in Mem /\ s.users = mem.users /\ s.count = mem.count /\ s.allocated = mem.allocated /\ s.mapped = mem.mapped \ {n}
    BY <1>2, <2>1, MapGone
  <2>3. s.count[n] >= 1 /\ \A x \in AllMM : x \in s.allocated <=> s.count[x] > 0
    BY <1>5, <1>6, <2>2
  <2>4. /\ t.users = s.users /\ t.mapped = s.mapped
        /\ t.count[m] = s.count[m] - One(m = n)
        /\ m \in t.allocated <=> t.count[m] > 0
    BY <1>2, <2>1, <2>2, <2>3, DropBooks
  <2>5. mem' = t
    BY <1>1, <2>1 DEF Unmapped
  <2> HIDE <2>1
  <2> QED BY <2>2, <2>4, <2>5
<1>9. Users(m)' = Users(m) + 0
  <2>1. Users(m)' = Users(m) + One(mm'[p] = m) - One(mm[p] = m) + One(kid_mm'[p] = m)
                      - One(kid_mm[p] = m) + One(Lazy'[p] = m) - One(Lazy[p] = m)
    BY <1>2, <1>3, UsersMoved
  <2>2. mm'[p] = mm[p] /\ kid_mm'[p] = kid_mm[p] /\ Lazy'[p] = Lazy[p]
    BY <1>2, <1>3
  <2> QED BY <1>7, <2>1, <2>2
<1>10. Cardinality(Borrowers(m))' = Cardinality(Borrowers(m)) + 0
  BY <1>4, SameBorrowers
<1>11. PICK dn : dn = 0 - One(m = n)
  OBVIOUS
<1>12. dn \in {-1, 0} /\ Cardinality(Unmapping(m))' = Cardinality(Unmapping(m)) + dn
  <2>1. Cardinality(Unmapping(m))' = Cardinality(Unmapping(m)) + One(Unmaps'[p] = m) - One(Unmaps[p] = m)
    BY <1>2, <1>3, UnmappingMoved
  <2>2. One(Unmaps'[p] = m) = 0 /\ One(Unmaps[p] = m) = One(m = n) /\ Cardinality(Unmapping(m)) \in Nat
    BY <1>3, <1>7, TallyTypes DEF One
  <2> QED BY <1>7, <1>11, <2>1, <2>2
<1>13. Unmapping(m)' \subseteq Unmapping(m)
  <2>1. Having(Unmaps', m) \subseteq Having(Unmaps, m)
    BY <1>2, <1>3, <1>7 DEF Having
  <2> QED BY <2>1, Tallies
<1>14. mem'.users[m] = mem.users[m] + 0
  BY <1>2, <1>8 DEF Mem, AllMM
<1>15. mem'.count[m] = mem.count[m] + One(m = init_mm \/ Users(m) + 0 > 0) - One(m = init_mm \/ Users(m) > 0) + 0 + dn
  <2>1. Users(m) + 0 = Users(m)
    BY <1>7
  <2> QED BY <1>7, <1>8, <1>11, <2>1
<1>16. m \in MM /\ Users(m) + 0 > 0 => m \in mem'.mapped
  <2>1. Unmapping(n) # {} /\ Users(n) = 0
    <3>1. Unmapping(n) # {}
      BY <1>2, <1>3, TallyTypes
    <3> QED BY <1>2, <1>5, <3>1 DEF Exact
  <2> QED BY <1>7, <1>8, <2>1 DEF Exact
<1>17. m \in MM /\ Unmapping(m)' # {} => Users(m) + 0 = 0
  <2>1. m \in MM /\ Unmapping(m)' # {} => Users(m) = 0
    BY <1>7, <1>13 DEF Exact
  <2> QED BY <1>7, <2>1
<1> HIDE <1>1, <1>2, <1>3, <1>4, <1>5, <1>6, <1>8, <1>11, <1>13
<1> QED
  <2>1. m \in mem'.allocated <=> mem'.count[m] > 0
    BY <1>8
  <2> QED BY <1>7, <1>9, <1>10, <1>12, <1>14, <1>15, <1>16, <1>17, <2>1, Balanced

LEMMA StartLazyCounted ==
  ASSUME AddressSpaceAssumption, Typed, Typed', Fit, Counted, NEW p \in Pid, start_lazy_tlb(p)
  PROVE  Counted'
<1>1. PICK n : n = mm[p]
  OBVIOUS
<1>2. /\ p \in Task /\ n \in MM /\ n \in AllMM /\ n # None /\ active_mm[p] = n /\ mem \in Mem
      /\ \A q \in Task \ {p} : mm'[q] = mm[q]
      /\ mm'[p] = None /\ UNCHANGED <<kid_mm, active_mm>>
  BY <1>1 DEF Task, AllMM, start_lazy_tlb, At, Fit, Typed, AddressSpaceAssumption
<1>3. /\ \A q \in Task \ {p} : Lazy'[q] = Lazy[q]
      /\ Lazy[p] = None /\ Lazy'[p] = n
      /\ \A q \in Task : Unmaps'[q] = Unmaps[q]
  BY <1>1, <1>2 DEF start_lazy_tlb, Goto, At, Typed, Lazy, Unmaps
<1>4. /\ \A q \in Task \ {p} : Borrowed'[q] = Borrowed[q]
      /\ Borrowed[p] = None /\ Borrowed'[p] = n
  BY <1>1, <1>2 DEF Borrowed
<1>5. /\ mem'.users = mem.users /\ mem'.allocated = mem.allocated /\ mem'.mapped = mem.mapped
      /\ mem'.count = [mem.count EXCEPT ![n] = @ + 1]
  BY <1>1, <1>2, Held DEF start_lazy_tlb
<1> SUFFICES ASSUME NEW m \in AllMM PROVE Exact(m)'
  BY DEF Counted, AllMM
<1>6. Exact(m) /\ m # None /\ Users(m) \in Nat /\ mem.count[m] \in Int /\ \A x : One(x) \in {0, 1}
  BY TallyTypes, Counts DEF Counted, AddressSpaceAssumption, AllMM, One
<1>7. PICK db : db = One(m = n)
  OBVIOUS
<1>8. db \in {0, 1} /\ (db = 1 <=> m = n)
  BY <1>7 DEF One
<1>9. Users(m)' = Users(m) + 0
  <2>1. Users(m)' = Users(m) + One(mm'[p] = m) - One(mm[p] = m) + One(kid_mm'[p] = m)
                      - One(kid_mm[p] = m) + One(Lazy'[p] = m) - One(Lazy[p] = m)
    BY <1>2, <1>3, UsersMoved
  <2>2. /\ One(mm'[p] = m) = 0 /\ One(mm[p] = m) = db /\ One(kid_mm'[p] = m) = One(kid_mm[p] = m)
        /\ One(Lazy'[p] = m) = db /\ One(Lazy[p] = m) = 0
    BY <1>1, <1>2, <1>3, <1>6, <1>7 DEF One
  <2> QED BY <1>6, <1>8, <2>1, <2>2
<1>10. Cardinality(Borrowers(m))' = Cardinality(Borrowers(m)) + db
  <2>1. Cardinality(Borrowers(m))' = Cardinality(Borrowers(m)) + One(Borrowed'[p] = m) - One(Borrowed[p] = m)
    BY <1>2, <1>4, BorrowersMoved
  <2>2. One(Borrowed'[p] = m) = db /\ One(Borrowed[p] = m) = 0 /\ Cardinality(Borrowers(m)) \in Nat
    BY <1>4, <1>6, <1>7, TallyTypes DEF One
  <2> QED BY <1>8, <2>1, <2>2
<1>11. Unmapping(m)' = Unmapping(m) /\ Cardinality(Unmapping(m))' = Cardinality(Unmapping(m)) + 0
  BY <1>3, SameUnmapping
<1>12. mem'.users[m] = mem.users[m] + 0
  BY <1>2, <1>5 DEF Mem, AllMM
<1>13. mem'.count[m] = mem.count[m] + db
  <2>1. CASE m = n
    BY <1>2, <1>5, <1>8, <2>1 DEF Mem
  <2>2. CASE m # n
    BY <1>2, <1>5, <1>6, <1>8, <2>2 DEF Mem
  <2> QED BY <2>1, <2>2
<1>14. mem'.count[m] = mem.count[m] + One(m = init_mm \/ Users(m) + 0 > 0) - One(m = init_mm \/ Users(m) > 0) + db + 0
  <2>1. Users(m) + 0 = Users(m)
    BY <1>6
  <2> QED BY <1>6, <1>8, <1>13, <2>1
<1>15. /\ m \in MM /\ Users(m) + 0 > 0 => m \in mem'.mapped
       /\ m \in MM /\ Unmapping(m)' # {} => Users(m) + 0 = 0
  <2>1. Users(m) + 0 = Users(m)
    BY <1>6
  <2> QED BY <1>5, <1>6, <1>11, <2>1 DEF Exact
<1>16. m \in mem'.allocated <=> mem'.count[m] > 0
  <2>1. m = n => mem.count[m] >= 1
    BY <1>1, <1>2, <1>6, Counts
  <2> QED BY <1>5, <1>6, <1>8, <1>13, <2>1 DEF Exact
<1> HIDE <1>1, <1>2, <1>3, <1>4, <1>5, <1>7, <1>13
<1> QED BY <1>6, <1>8, <1>9, <1>10, <1>11, <1>12, <1>14, <1>15, <1>16, Balanced

LEMMA EndLazyCounted ==
  ASSUME AddressSpaceAssumption, Typed, Typed', Fit, Counted, NEW p \in Pid, end_lazy_tlb(p)
  PROVE  Counted'
<1>1. PICK l, n : l = leaving[p] /\ n = active_mm[p]
  OBVIOUS
<1>2. /\ p \in Task /\ l \in MM /\ n \in AllMM /\ l # None /\ mm[p] = None /\ mem \in Mem
      /\ \A q \in Task \ {p} : mm'[q] = mm[q] /\ active_mm'[q] = active_mm[q]
      /\ mm'[p] = l /\ UNCHANGED kid_mm
  <2>1. n \in AllMM
    BY <1>1, ActiveTyped DEF end_lazy_tlb, At
  <2> QED BY <1>1, <2>1 DEF Task, AllMM, end_lazy_tlb, At, Fit, Typed, AddressSpaceAssumption
<1>3. /\ \A q \in Task \ {p} : Lazy'[q] = Lazy[q]
      /\ Lazy[p] = l /\ Lazy'[p] = None
      /\ \A q \in Task : Unmaps'[q] = Unmaps[q]
  BY <1>1, <1>2 DEF end_lazy_tlb, Goto, At, Typed, Lazy, Unmaps
<1>4. /\ \A q \in Task \ {p} : Borrowed'[q] = Borrowed[q]
      /\ Borrowed[p] = n /\ Borrowed'[p] = None
  BY <1>1, <1>2 DEF Borrowed
<1>5. mem.count[n] >= 1 /\ \A x \in AllMM : x \in mem.allocated <=> mem.count[x] > 0
  <2>1. Exact(n)
    BY <1>2 DEF Counted
  <2> QED BY <1>2, <1>4, <2>1, Counts DEF Counted, Exact
<1> SUFFICES ASSUME NEW m \in AllMM PROVE Exact(m)'
  BY DEF Counted, AllMM
<1>6. Exact(m) /\ m # None /\ Users(m) \in Nat /\ mem.count[m] \in Int /\ \A x : One(x) \in {0, 1}
  BY TallyTypes, Counts DEF Counted, AddressSpaceAssumption, AllMM, One
<1>7. /\ mem'.users = mem.users /\ mem'.mapped = mem.mapped
      /\ mem'.count[m] = mem.count[m] - One(m = n)
      /\ m \in mem'.allocated <=> mem'.count[m] > 0
  <2>1. PICK t : t = mmdrop(mem, n)
    OBVIOUS
  <2>2. mem' = t
    BY <1>1, <2>1 DEF end_lazy_tlb
  <2>3. /\ t.users = mem.users /\ t.mapped = mem.mapped
        /\ t.count[m] = mem.count[m] - One(m = n)
        /\ m \in t.allocated <=> t.count[m] > 0
    BY <1>2, <1>5, <2>1, DropBooks
  <2> HIDE <2>1
  <2> QED BY <2>2, <2>3
<1>8. PICK db : db = 0 - One(m = n)
  OBVIOUS
<1>9. db \in {-1, 0} /\ mem'.count[m] = mem.count[m] + db
  BY <1>6, <1>7, <1>8
<1>10. Users(m)' = Users(m) + 0
  <2>1. Users(m)' = Users(m) + One(mm'[p] = m) - One(mm[p] = m) + One(kid_mm'[p] = m)
                      - One(kid_mm[p] = m) + One(Lazy'[p] = m) - One(Lazy[p] = m)
    BY <1>2, <1>3, UsersMoved
  <2>2. /\ One(mm'[p] = m) = One(l = m) /\ One(mm[p] = m) = 0 /\ One(kid_mm'[p] = m) = One(kid_mm[p] = m)
        /\ One(Lazy'[p] = m) = 0 /\ One(Lazy[p] = m) = One(l = m)
    BY <1>2, <1>3, <1>6 DEF One
  <2> QED BY <1>6, <2>1, <2>2
<1>11. Cardinality(Borrowers(m))' = Cardinality(Borrowers(m)) + db
  <2>1. Cardinality(Borrowers(m))' = Cardinality(Borrowers(m)) + One(Borrowed'[p] = m) - One(Borrowed[p] = m)
    BY <1>2, <1>4, BorrowersMoved
  <2>2. One(Borrowed'[p] = m) = 0 /\ One(Borrowed[p] = m) = One(m = n) /\ Cardinality(Borrowers(m)) \in Nat
    BY <1>4, <1>6, TallyTypes DEF One
  <2> QED BY <1>6, <1>8, <2>1, <2>2
<1>12. Unmapping(m)' = Unmapping(m) /\ Cardinality(Unmapping(m))' = Cardinality(Unmapping(m)) + 0
  BY <1>3, SameUnmapping
<1>13. mem'.users[m] = mem.users[m] + 0
  BY <1>2, <1>7 DEF Mem, AllMM
<1>14. mem'.count[m] = mem.count[m] + One(m = init_mm \/ Users(m) + 0 > 0) - One(m = init_mm \/ Users(m) > 0) + db + 0
  <2>1. Users(m) + 0 = Users(m)
    BY <1>6
  <2> QED BY <1>6, <1>9, <2>1
<1>15. /\ m \in MM /\ Users(m) + 0 > 0 => m \in mem'.mapped
       /\ m \in MM /\ Unmapping(m)' # {} => Users(m) + 0 = 0
  <2>1. Users(m) + 0 = Users(m)
    BY <1>6
  <2> QED BY <1>6, <1>7, <1>12, <2>1 DEF Exact
<1>16. m \in mem'.allocated <=> mem'.count[m] > 0
  BY <1>7
<1> HIDE <1>1, <1>2, <1>3, <1>4, <1>5, <1>7, <1>8
<1> QED BY <1>6, <1>9, <1>10, <1>11, <1>12, <1>13, <1>14, <1>15, <1>16, Balanced

-----------------------------------------------------------------------------
(* The invariant.                                                          *)

LEMMA SpaceInit ==
  ASSUME AddressSpaceAssumption, Init
  PROVE  SpaceInv
<1>1. PICK n \in MM :
        /\ mem = [users |-> [m \in AllMM |-> IF m = n THEN 1 ELSE 0],
                  count |-> [m \in AllMM |-> IF m = n THEN 1 ELSE IF m = init_mm THEN 2 ELSE 0],
                  allocated |-> {n, init_mm}, mapped |-> {n}]
        /\ mm = [p \in Task |-> IF p = InitTask THEN n ELSE None]
        /\ active_mm = [mm EXCEPT ![Idle] = init_mm]
  BY DEF Init
<1>2. /\ n \in AllMM /\ init_mm \in AllMM /\ n # None /\ n # init_mm /\ init_mm # None
      /\ InitTask \in Task /\ Idle \in Task /\ InitTask # Idle
  BY DEF AddressSpaceAssumption, AllMM, Task
<1>3. Typed
  BY <1>1, <1>2 DEF Init, Typed, Mem, AllMM, Task
<1>4. Fit
  BY <1>1, <1>2 DEF Init, Fit, Forking
<1>5. ASSUME NEW m \in AllMM PROVE Exact(m)
  <2>1. m # None
    BY DEF AddressSpaceAssumption, AllMM
  <2>2. /\ Having(mm, m) = IF m = n THEN {InitTask} ELSE {}
        /\ Having(kid_mm, m) = {} /\ Having(Lazy, m) = {} /\ Having(Unmaps, m) = {}
        /\ Having(Borrowed, m) = IF m = init_mm THEN {Idle} ELSE {}
    BY <1>1, <1>2, <2>1 DEF Init, Having, Lazy, Unmaps, Borrowed
  <2>3. Cardinality({}) = 0 /\ \A x : Cardinality({x}) = 1
    BY FS_EmptySet, FS_Singleton
  <2>4. Users(m) = One(m = n) /\ Unmapping(m) = {} /\ Cardinality(Unmapping(m)) = 0
    <3>1. CASE m = n
      BY <2>2, <2>3, <3>1, Tallies DEF One
    <3>2. CASE m # n
      BY <2>2, <2>3, <3>2, Tallies DEF One
    <3> QED BY <3>1, <3>2
  <2>5. Cardinality(Borrowers(m)) = One(m = init_mm)
    <3>1. CASE m = init_mm
      BY <2>2, <2>3, <3>1, Tallies DEF One
    <3>2. CASE m # init_mm
      BY <2>2, <2>3, <3>2, Tallies DEF One
    <3> QED BY <3>1, <3>2
  <2>6. Refs(m) = One(m = init_mm \/ m = n) + One(m = init_mm) + 0
    <3>1. m = init_mm \/ Users(m) > 0 <=> m = init_mm \/ m = n
      BY <2>4 DEF One
    <3>2. One(m = init_mm \/ Users(m) > 0) = One(m = init_mm \/ m = n)
      BY <3>1 DEF One
    <3> QED BY <2>4, <2>5, <3>2 DEF Refs
  <2>7. mem.count[m] = Refs(m) /\ Refs(m) \in Nat /\ mem.users[m] = Users(m)
    BY <1>1, <1>2, <2>4, <2>6 DEF One
  <2>8. m \in mem.allocated <=> mem.count[m] > 0
    BY <1>1, <1>2
  <2>9. Users(m) > 0 => m \in mem.mapped
    BY <1>1, <2>4 DEF One
  <2> QED BY <2>4, <2>7, <2>8, <2>9 DEF Exact
<1> QED BY <1>3, <1>4, <1>5 DEF SpaceInv, Counted

LEMMA SpaceStep ==
  ASSUME AddressSpaceAssumption, SpaceInv, [Next]_vars
  PROVE  SpaceInv'
<1>1. Typed /\ Fit /\ Counted
  BY DEF SpaceInv
<1>2. ASSUME NEW p \in Task, context_switch(p) PROVE SpaceInv'
  BY <1>1, <1>2, SwitchTyped, SwitchFit, SwitchCounted DEF SpaceInv
<1>3. ASSUME NEW p \in Pid, NEW c \in Pid, NEW vfork \in BOOLEAN, ForkShare(p, c, vfork) PROVE SpaceInv'
  BY <1>1, <1>3, ForkShareTyped, ForkShareFit, ForkShareCounted DEF SpaceInv
<1>4. ASSUME NEW p \in Pid, NEW c \in Pid, NEW m \in MM, ForkAlloc(p, c, m) PROVE SpaceInv'
  BY <1>1, <1>4, ForkAllocTyped, ForkAllocFit, ForkAllocCounted DEF SpaceInv
<1>5. ASSUME NEW p \in Pid, DupDone(p) PROVE SpaceInv'
  BY <1>1, <1>5, DupDoneTyped, DupDoneFit, DupDoneCounted DEF SpaceInv
<1>6. ASSUME NEW p \in Pid, DupFailed(p) PROVE SpaceInv'
  BY <1>1, <1>6, DupFailedTyped, DupFailedFit, DupFailedCounted DEF SpaceInv
<1>7. ASSUME NEW p \in Pid, LateFailed(p) PROVE SpaceInv'
  BY <1>1, <1>7, LateFailedTyped, LateFailedFit, LateFailedCounted DEF SpaceInv
<1>8. ASSUME NEW p \in Pid, ForkDone(p) \/ VforkReturn(p) \/ Reap(p) PROVE SpaceInv'
  <2>1. Typed'
    BY <1>1, <1>8, OtherTyped
  <2>2. Fit'
    BY <1>1, <1>8, OtherFit
  <2> QED BY <1>1, <1>8, <2>1, <2>2, OtherCounted DEF SpaceInv
<1>9. ASSUME NEW p \in Pid, NEW exit \in BOOLEAN, exit_mm(p, exit) PROVE SpaceInv'
  BY <1>1, <1>9, exit_mmTyped, exit_mmFit, exit_mmCounted DEF SpaceInv
<1>10. ASSUME NEW p \in Pid, Unmapped(p) PROVE SpaceInv'
  BY <1>1, <1>10, UnmappedTyped, UnmappedFit, UnmappedCounted DEF SpaceInv
<1>11. ASSUME NEW p \in Pid, start_lazy_tlb(p) PROVE SpaceInv'
  BY <1>1, <1>11, LazyTyped, LazyFit, StartLazyCounted DEF SpaceInv
<1>12. ASSUME NEW p \in Pid, end_lazy_tlb(p) PROVE SpaceInv'
  BY <1>1, <1>12, LazyTyped, LazyFit, EndLazyCounted DEF SpaceInv
<1>13. CASE UNCHANGED vars
  <2>1. Typed'
    BY <1>1, <1>13 DEF vars, Typed, Mem
  <2>2. Fit'
    BY <1>1, <1>13 DEF vars, Fit, Forking
  <2>3. Counted'
    BY <1>1, <1>13 DEF vars, Counted, Exact, Refs, Users, Borrowers, Unmapping
  <2> QED BY <2>1, <2>2, <2>3 DEF SpaceInv
<1> QED BY <1>2, <1>3, <1>4, <1>5, <1>6, <1>7, <1>8, <1>9, <1>10, <1>11, <1>12, <1>13 DEF Next

LEMMA SpaceInductive ==
  ASSUME AddressSpaceAssumption
  PROVE  Spec => []SpaceInv
<1>1. Init => SpaceInv
  BY SpaceInit
<1>2. SpaceInv /\ [Next]_vars => SpaceInv'
  BY SpaceStep
<1> QED BY <1>1, <1>2, PTL DEF Spec

\* What SpaceInv means for the mms that somebody has.
LEMMA SpaceFacts ==
  ASSUME AddressSpaceAssumption, SpaceInv
  PROVE  TypeOK /\ ActiveAlive /\ UsersExact
<1>1. Typed /\ Fit /\ \A m \in AllMM : Exact(m)
  BY DEF SpaceInv, Counted
<1>2. \A m \in AllMM : Users(m) \in Nat /\ mem.users[m] = Users(m) /\ Refs(m) \in Nat
                       /\ mem.count[m] \in Int /\ mem.count[m] >= Refs(m)
  BY <1>1, TallyTypes, Counts DEF Exact
<1>3. TypeOK
  <2>1. mem.users \in [AllMM -> Nat] /\ mem.count \in [AllMM -> Nat]
    BY <1>1, <1>2 DEF Typed, Mem
  <2> QED BY <1>1, <2>1 DEF TypeOK, Typed, Mem
<1>4. UsersExact
  BY <1>2 DEF UsersExact, AllMM
<1>5. ActiveAlive
  <2>1. active_mm[curr] \in AllMM /\ curr \in Task
    BY <1>1, ActiveTyped
  <2>2. mem.count[active_mm[curr]] >= 1
    <3>1. mm[curr] = active_mm[curr] \/ Borrowed[curr] = active_mm[curr]
      BY <1>1, <2>1 DEF Borrowed, Fit
    <3> QED BY <1>1, <2>1, <3>1, Counts
  <2>3. active_mm[curr] \in mem.allocated
    BY <1>1, <1>2, <2>1, <2>2 DEF Exact
  <2>4. ASSUME NEW p \in Task, mm[p] # None PROVE mm[p] \in mem.mapped
    <3>1. mm[p] \in MM /\ mm[p] \in AllMM
      BY <1>1, <2>4 DEF Typed, AllMM
    <3>2. Users(mm[p]) > 0
      BY <3>1, TallyTypes
    <3> QED BY <1>1, <3>1, <3>2 DEF Exact
  <2> QED BY <2>3, <2>4 DEF ActiveAlive
<1> QED BY <1>3, <1>4, <1>5

\* mm_users and mm_count never go below 0, whatever order mmput, mmdrop and the failures
\* of do_fork come in, and each task is at a step of the code there is.
THEOREM SpaceTypeOK ==
  ASSUME AddressSpaceAssumption
  PROVE  Spec => []TypeOK
<1>1. SpaceInv => TypeOK
  BY SpaceFacts
<1> QED BY <1>1, SpaceInductive, PTL

\* mm_users is the number of tasks that have the mm or will have it again: copy_mm and
\* vfork add what exit_mm, mmput and the failures of do_fork take away.
THEOREM SpaceUsersExact ==
  ASSUME AddressSpaceAssumption
  PROVE  Spec => []UsersExact
<1>1. SpaceInv => UsersExact
  BY SpaceFacts
<1> QED BY <1>1, SpaceInductive, PTL

\* The page tables in the CPU are allocated, and a task in user mode finds its memory:
\* context_switch lends an mm to a task that has none and takes it back in time.
THEOREM SpaceActiveAlive ==
  ASSUME AddressSpaceAssumption
  PROVE  Spec => []ActiveAlive
<1>1. SpaceInv => ActiveAlive
  BY SpaceFacts
<1> QED BY <1>1, SpaceInductive, PTL

\* Unless do_fork fails after copy_mm, which leaves a reference nobody gives back, an mm
\* is freed as soon as nobody uses, borrows or unmaps it.
THEOREM SpaceNoLeak ==
  ASSUME AddressSpaceAssumption, "late" \notin Failures
  PROVE  Spec => []NoLeak
<1>1. SpaceInv => NoLeak
  <2> SUFFICES ASSUME SpaceInv, NEW m \in mem.allocated \ {init_mm}
               PROVE  Users(m) > 0 \/ Borrowers(m) \cup Unmapping(m) # {}
    BY DEF NoLeak
  <2>1. m \in AllMM /\ Exact(m)
    BY DEF SpaceInv, Typed, Mem, Counted
  <2>2. PICK x, b, k : x = One(Users(m) > 0) /\ b = Cardinality(Borrowers(m)) /\ k = Cardinality(Unmapping(m))
    OBVIOUS
  <2>3. x + b + k > 0 /\ x \in {0, 1} /\ b \in Nat /\ k \in Nat
    <3>1. Refs(m) = x + b + k
      BY <2>2 DEF Refs, One
    <3> QED BY <2>1, <2>2, <3>1, TallyTypes DEF Exact, One
  <2>4. CASE x > 0
    BY <2>2, <2>4 DEF One
  <2>5. CASE b > 0
    BY <2>2, <2>5, FS_EmptySet
  <2>6. CASE k > 0
    BY <2>2, <2>6, FS_EmptySet
  <2> QED BY <2>3, <2>4, <2>5, <2>6
<1> QED BY <1>1, SpaceInductive, PTL

-----------------------------------------------------------------------------
(* vfork.                                                                  *)

\* The task that waits for a vfork has its memory, and its child has not given it back;
\* there is one such child, which do_fork is filling or which is on its way to exit_mm.
Pending(q, c) ==
  /\ kid[q] = c /\ ~ done[q] /\ mm[q] # None
  /\ \/ pc[q] = "late" /\ pc[c] = "copy"
     \/ pc[q] = "vwait" /\ pc[c] \notin {"free", "copy", "unmap", "dead"}
VforkInv ==
  /\ \A c, q \in Task : vfork_done[c] = q => Pending(q, c)
  /\ \A q \in Task : done[q] => pc[q] = "vwait"

LEMMA VforkInit ==
  ASSUME AddressSpaceAssumption, Init
  PROVE  VforkInv
  BY DEF Init, VforkInv, Task, AddressSpaceAssumption

LEMMA VforkStep ==
  ASSUME AddressSpaceAssumption, "late" \notin Failures, SpaceInv, VforkInv, [Next]_vars
  PROVE  VforkInv'
<1>0. Typed /\ Fit /\ None \notin Task
  BY DEF SpaceInv, AddressSpaceAssumption, Task
<1>1. CASE UNCHANGED vars \/ \E p \in Task : context_switch(p)
  <2>1. UNCHANGED <<mm, pc, kid, vfork_done, done>>
    BY <1>1 DEF vars, context_switch
  <2> QED BY <2>1 DEF VforkInv, Pending
<1>2. ASSUME NEW p \in Pid, NEW c \in Pid, NEW v \in BOOLEAN, ForkShare(p, c, v) PROVE VforkInv'
  BY <1>0, <1>2 DEF ForkShare, VforkDone, At, VforkInv, Pending, Typed, Fit, Forking, Task
<1>3. ASSUME NEW p \in Pid, NEW c \in Pid, NEW m \in MM, ForkAlloc(p, c, m) PROVE VforkInv'
  BY <1>0, <1>3 DEF ForkAlloc, At, VforkInv, Pending, Typed, Fit, Forking, Task
<1>4. ASSUME NEW p \in Pid, DupDone(p) PROVE VforkInv'
  BY <1>0, <1>4 DEF DupDone, At, Goto, VforkInv, Pending, Typed, Fit, Forking, Task
<1>5. ASSUME NEW p \in Pid, DupFailed(p) PROVE VforkInv'
  BY <1>0, <1>5 DEF DupFailed, FreeCopy, At, VforkInv, Pending, Typed, Fit, Forking, Task
<1>6. ASSUME NEW p \in Pid, ForkDone(p) PROVE VforkInv'
  BY <1>0, <1>6 DEF ForkDone, At, VforkInv, Pending, Typed, Fit, Forking, Task
<1>7. ASSUME NEW p \in Pid, VforkReturn(p) PROVE VforkInv'
  BY <1>0, <1>7 DEF VforkReturn, At, Goto, VforkInv, Pending, Typed, Task
<1>8. ASSUME NEW p \in Pid, NEW e \in BOOLEAN, exit_mm(p, e) PROVE VforkInv'
  BY <1>0, <1>8 DEF exit_mm, mm_release, At, Goto, VforkInv, Pending, Typed, Task
<1>9. ASSUME NEW p \in Pid, Unmapped(p) \/ start_lazy_tlb(p) \/ end_lazy_tlb(p) \/ Reap(p) PROVE VforkInv'
  <2>1. CASE Unmapped(p) \/ start_lazy_tlb(p) \/ end_lazy_tlb(p)
    <3>1. /\ pc[p] \in {"unmap", "run", "lazy"} /\ kid' = kid /\ vfork_done' = vfork_done /\ done' = done
          /\ \E l \in {"dead", "run", "lazy"} : pc' = [pc EXCEPT ![p] = l] /\ (l = "dead" => pc[p] = "unmap")
          /\ \A q \in Task : q # p => mm'[q] = mm[q]
      BY <1>0, <2>1 DEF Unmapped, start_lazy_tlb, end_lazy_tlb, At, Goto, Typed
    <3> QED BY <1>0, <3>1 DEF VforkInv, Pending, Typed, Task
  <2>2. CASE Reap(p)
    BY <1>0, <2>2 DEF Reap, Goto, VforkInv, Pending, Typed, Task
  <2> QED BY <1>9, <2>1, <2>2
<1>10. ASSUME NEW p \in Pid PROVE ~ LateFailed(p)
  BY DEF LateFailed
<1> QED BY <1>1, <1>2, <1>3, <1>4, <1>5, <1>6, <1>7, <1>8, <1>9, <1>10 DEF Next

\* The parent of a vfork goes on only when the child has left the memory they share
\* (mm_release, called by exit_mm before it drops the mm), whatever the parent and the
\* child, its own forks and vforks included, do meanwhile.  A do_fork that fails late
\* calls mm_release for the wrong task, which is left out here.
THEOREM SpaceVforkGivesBack ==
  ASSUME AddressSpaceAssumption, "late" \notin Failures
  PROVE  Spec => VforkGivesBack
<1>1. Init => VforkInv
  BY VforkInit
<1>2. SpaceInv /\ VforkInv /\ [Next]_vars => VforkInv'
  BY VforkStep
<1>3. SpaceInv /\ VforkInv /\ [Next]_vars => [\A p \in Pid : ~ done[p] /\ done'[p] => mm'[kid[p]] # mm[p]]_vars
  <2> SUFFICES ASSUME SpaceInv, VforkInv, Next, NEW q \in Pid, ~ done[q], done'[q]
               PROVE  mm'[kid[q]] # mm[q]
    OBVIOUS
  <2>1. Typed /\ q \in Task
    BY DEF SpaceInv, Task
  <2>2. PICK p \in Pid, e \in BOOLEAN : exit_mm(p, e)
    <3>1. ASSUME NEW p \in Pid PROVE ~ LateFailed(p)
      BY DEF LateFailed
    <3>2. ASSUME NEW p \in Pid, VforkReturn(p) PROVE FALSE
      BY <2>1, <3>2 DEF VforkReturn, Typed
    <3>3. done' # done
      OBVIOUS
    <3> QED BY <3>1, <3>2, <3>3 DEF Next, context_switch, ForkShare, ForkAlloc, DupDone, DupFailed, ForkDone,
               Unmapped, start_lazy_tlb, end_lazy_tlb, Reap
  <2>3. q = vfork_done[p] /\ p \in Task
    BY <2>1, <2>2 DEF exit_mm, mm_release, Task
  <2>4. kid[q] = p /\ mm[q] # None
    BY <2>1, <2>3 DEF VforkInv, Pending
  <2>5. mm'[p] = None
    BY <2>1, <2>2, <2>3 DEF exit_mm, Typed
  <2> QED BY <2>4, <2>5
<1> QED BY <1>1, <1>2, <1>3, SpaceInductive, PTL DEF Spec, VforkGivesBack

-----------------------------------------------------------------------------
(* What else a task shares.                                                *)

CONSTANTS UserTask, Obj, InitObj, UserObj, NPROC, max_threads, Flags, Daemons
VARIABLES obj, count, user, processes, nr_threads, point, at, offspring, shares

\* Files, fs and signal structures, and the tasks of a user: module ForkResources, with
\* point for its pc and offspring for its kid.
Fork == INSTANCE ForkResources WITH pc <- point, kid <- offspring

\* The place of a kind in Order, and whether do_fork of p has made its child's.
Idx(k) == IF k = "files" THEN 1 ELSE IF k = "fs" THEN 2 ELSE 3
InDoFork(p) == point[p] \in {"copy", "unwind"}
Given(p, k) == IF point[p] = "copy" THEN Idx(k) < at[p] ELSE Idx(k) <= at[p]

Ref(k) == [p \in Pid |-> IF p \in Fork!Holds(k) THEN obj[k][p] ELSE None]
Owner == [p \in Pid |-> IF point[p] = "free" THEN "none" ELSE user[p]]
Listed == [p \in Pid |-> IF point[p] \in {"free", "child"} THEN "no" ELSE "yes"]

ForkTyped ==
  /\ obj \in [Fork!Kinds -> [Pid -> Obj \cup {None}]] /\ count \in [Fork!Kinds -> [Obj -> Int]]
  /\ user \in [Pid -> Fork!Users] /\ processes \in [Fork!Users -> Int] /\ nr_threads \in Int
  /\ point \in [Pid -> {"run", "copy", "unwind", "exit", "daemon", "zombie", "child", "free"}]
  /\ at \in [Pid -> 0 .. 4]
  /\ offspring \in [Pid -> Pid \cup {None}] /\ shares \in [Pid -> SUBSET Fork!Kinds]

\* What a task holds at each point of the code, and which steps of Order are left.
ForkFit ==
  /\ \A p \in Pid :
       /\ offspring[p] # None <=> InDoFork(p)
       /\ InDoFork(p) => point[offspring[p]] = "child"
       /\ point[p] = "copy" => at[p] >= 1
       /\ point[p] = "unwind" => at[p] <= 3
       /\ point[p] = "exit" => at[p] \in 1 .. 3
  /\ \A p, q \in Pid : InDoFork(p) /\ InDoFork(q) /\ offspring[p] = offspring[q] => p = q

HasAll ==
  \A p \in Pid, k \in Fork!Kinds :
    /\ point[p] \in {"run", "copy", "unwind", "daemon"} => obj[k][p] # None
    /\ point[p] \in {"free", "zombie"} => obj[k][p] = None
    /\ point[p] = "exit" => (obj[k][p] = None <=> Idx(k) < at[p])
    /\ point[p] = "copy" => /\ obj[k][offspring[p]] # None
                            /\ Idx(k) >= at[p] => obj[k][offspring[p]] = obj[k][p]

\* The counts.
PidsAt(f, m) == {p \in Pid : f[p] = m}
ObjExact(k) == \A o \in Obj : count[k][o] = Cardinality(PidsAt(Ref(k), o)) + One(o = InitObj)
ObjCounted == \A k \in Fork!Kinds : ObjExact(k)
PerUser == \A u \in Fork!Users : processes[u] = Cardinality(PidsAt(Owner, u))
Threads == nr_threads = Cardinality(PidsAt(Listed, "yes"))

ResInv == ForkTyped /\ ForkFit /\ HasAll /\ ObjCounted /\ Threads /\ (~ Daemons => PerUser)

-----------------------------------------------------------------------------
(* Counting.                                                               *)

\* Sets are finite there as they are here, and counted as they are here.
LEMMA SameFinite == \A S : Fork!IsFiniteSet(S) <=> IsFiniteSet(S)
  BY DEF Fork!IsFiniteSet, IsFiniteSet

LEMMA SameCount == \A S : Fork!Cardinality(S) = Cardinality(S)
  BY DEF Fork!Cardinality, Cardinality

LEMMA PidsFinite ==
  ASSUME Fork!ForkResourcesAssumption
  PROVE  \A S \in SUBSET Pid : IsFiniteSet(S) /\ Cardinality(S) \in Nat
  BY SameFinite, FS_Subset, FS_CardinalityType DEF Fork!ForkResourcesAssumption

\* Where two functions differ in one task, so do the numbers of tasks they take to m.
LEMMA PidsAtChanged ==
  ASSUME Fork!ForkResourcesAssumption, NEW f, NEW g, NEW m, NEW p \in Pid, \A q \in Pid \ {p} : g[q] = f[q]
  PROVE  /\ Cardinality(PidsAt(g, m)) = Cardinality(PidsAt(f, m)) + One(g[p] = m) - One(f[p] = m)
         /\ Cardinality(PidsAt(f, m)) \in Nat
<1>1. PICK S, T : S = PidsAt(f, m) /\ T = PidsAt(g, m)
  OBVIOUS
<1>2. IsFiniteSet(S) /\ IsFiniteSet(T) /\ Cardinality(S) \in Nat /\ Cardinality(T) \in Nat
  BY <1>1, PidsFinite DEF PidsAt
<1>3. CASE f[p] = m /\ g[p] # m
  <2>1. T = S \ {p} /\ p \in S
    BY <1>1, <1>3 DEF PidsAt
  <2>2. Cardinality(T) = Cardinality(S) - 1
    BY <1>2, <2>1, FS_RemoveElement
  <2> QED BY <1>1, <1>2, <1>3, <2>2 DEF One
<1>4. CASE f[p] # m /\ g[p] = m
  <2>1. T = S \cup {p} /\ p \notin S
    BY <1>1, <1>4 DEF PidsAt
  <2>2. Cardinality(T) = Cardinality(S) + 1
    BY <1>2, <2>1, FS_AddElement
  <2> QED BY <1>1, <1>2, <1>4, <2>2 DEF One
<1>5. CASE f[p] = m <=> g[p] = m
  <2>1. T = S
    BY <1>1, <1>5 DEF PidsAt
  <2> QED BY <1>1, <1>2, <1>5, <2>1 DEF One
<1> QED BY <1>3, <1>4, <1>5

LEMMA OrderFacts ==
  /\ Len(Fork!Order) = 3
  /\ \A i \in 1 .. 3 : Fork!Order[i] \in Fork!Kinds /\ Idx(Fork!Order[i]) = i
  /\ \A k \in Fork!Kinds : Idx(k) \in 1 .. 3 /\ Fork!Order[Idx(k)] = k
  BY DEF Fork!Order, Fork!Kinds, Idx

LEMMA AtInt ==
  ASSUME ForkTyped
  PROVE  \A p \in Pid : at[p] \in Int
  BY DEF ForkTyped

LEMMA MadeBy ==
  ASSUME ForkTyped, ForkFit, NEW p \in Pid, NEW k \in Fork!Kinds, InDoFork(p)
  PROVE  offspring[p] \in Pid /\ (Fork!Made(offspring[p], k) <=> Given(p, k))
<1>1. offspring[p] \in Pid
  BY DEF ForkTyped, ForkFit
<1>2. \A q \in Pid : offspring[q] = offspring[p] => q = p
  BY <1>1 DEF ForkFit, ForkTyped
<1>3. Fork!Made(offspring[p], k) <=> \E i \in 1 .. 3 : Fork!Order[i] = k /\ (IF point[p] = "copy" THEN i < at[p] ELSE i <= at[p])
  BY <1>2, OrderFacts DEF Fork!Made
<1>4. \A i \in 1 .. 3 : Fork!Order[i] = k <=> i = Idx(k)
  BY OrderFacts
<1> QED BY <1>1, <1>3, <1>4, OrderFacts DEF Given

LEMMA MadeByNext ==
  ASSUME ForkTyped', ForkFit', NEW p \in Pid, NEW k \in Fork!Kinds, InDoFork(p)'
  PROVE  offspring'[p] \in Pid /\ (Fork!Made(offspring[p], k)' <=> Given(p, k)')
<1>1. offspring'[p] \in Pid
  BY DEF ForkTyped, ForkFit
<1>2. \A q \in Pid : offspring'[q] = offspring'[p] => q = p
  BY <1>1 DEF ForkFit, ForkTyped
<1>3. Fork!Made(offspring[p], k)' <=> \E i \in 1 .. 3 : Fork!Order[i] = k /\ (IF point'[p] = "copy" THEN i < at'[p] ELSE i <= at'[p])
  BY <1>2, OrderFacts DEF Fork!Made
<1>4. \A i \in 1 .. 3 : Fork!Order[i] = k <=> i = Idx(k)
  BY OrderFacts
<1> QED BY <1>1, <1>3, <1>4, OrderFacts DEF Given

\* What a task refers to, if it is not a child, or the child of p.
LEMMA RefOf ==
  ASSUME ForkTyped, ForkFit, NEW k \in Fork!Kinds
  PROVE  /\ \A q \in Pid : point[q] # "child" => Ref(k)[q] = obj[k][q]
         /\ \A p \in Pid : InDoFork(p) => Ref(k)[offspring[p]] = IF Given(p, k) THEN obj[k][offspring[p]] ELSE None
<1>1. \A q \in Pid : point[q] # "child" => Ref(k)[q] = obj[k][q]
  BY DEF Ref, Fork!Holds
<1>2. ASSUME NEW p \in Pid, InDoFork(p)
      PROVE  Ref(k)[offspring[p]] = IF Given(p, k) THEN obj[k][offspring[p]] ELSE None
  <2>1. offspring[p] \in Pid /\ (Fork!Made(offspring[p], k) <=> Given(p, k)) /\ point[offspring[p]] = "child"
    BY <1>2, MadeBy DEF ForkFit
  <2> QED BY <2>1 DEF Ref, Fork!Holds
<1> QED BY <1>1, <1>2

LEMMA RefOfNext ==
  ASSUME ForkTyped', ForkFit', NEW k \in Fork!Kinds
  PROVE  /\ \A q \in Pid : point'[q] # "child" => Ref(k)'[q] = obj'[k][q]
         /\ \A p \in Pid : InDoFork(p)' => Ref(k)'[offspring'[p]] = IF Given(p, k)' THEN obj'[k][offspring'[p]] ELSE None
<1>1. \A q \in Pid : point'[q] # "child" => Ref(k)'[q] = obj'[k][q]
  BY DEF Ref, Fork!Holds
<1>2. ASSUME NEW p \in Pid, InDoFork(p)'
      PROVE  Ref(k)'[offspring'[p]] = IF Given(p, k)' THEN obj'[k][offspring'[p]] ELSE None
  <2>1. offspring'[p] \in Pid /\ (Fork!Made(offspring[p], k)' <=> Given(p, k)') /\ point'[offspring'[p]] = "child"
    BY <1>2, MadeByNext DEF ForkFit
  <2> QED BY <2>1 DEF Ref, Fork!Holds
<1> QED BY <1>1, <1>2

\* A task that is left alone, and whose parent is.
LEMMA RefKept ==
  ASSUME NEW k \in Fork!Kinds, NEW q \in Pid, point'[q] = "child" <=> point[q] = "child", obj'[k][q] = obj[k][q],
         \A r \in Pid : offspring'[r] = q <=> offspring[r] = q,
         \A r \in Pid : offspring[r] = q => point'[r] = point[r] /\ at'[r] = at[r]
  PROVE  Ref(k)'[q] = Ref(k)[q]
<1>1. Fork!Made(q, k)' <=> Fork!Made(q, k)
  BY DEF Fork!Made
<1> QED BY <1>1 DEF Ref, Fork!Holds

\* The counts of kind k are exact after a step that changes what one task refers to, as
\* the count says.
LEMMA CountMoved ==
  ASSUME Fork!ForkResourcesAssumption, ForkTyped, NEW k \in Fork!Kinds, ObjExact(k), NEW a \in Pid,
         \A q \in Pid \ {a} : Ref(k)'[q] = Ref(k)[q],
         \A o \in Obj : count'[k][o] = count[k][o] + One(Ref(k)'[a] = o) - One(Ref(k)[a] = o)
  PROVE  ObjExact(k)'
<1> SUFFICES ASSUME NEW o \in Obj PROVE count'[k][o] = Cardinality(PidsAt(Ref(k)', o)) + One(o = InitObj)
  BY DEF ObjExact
<1>1. /\ Cardinality(PidsAt(Ref(k)', o)) = Cardinality(PidsAt(Ref(k), o)) + One(Ref(k)'[a] = o) - One(Ref(k)[a] = o)
      /\ Cardinality(PidsAt(Ref(k), o)) \in Nat
  <2>1. PICK f, g : f = Ref(k) /\ g = Ref(k)'
    OBVIOUS
  <2>2. Fork!ForkResourcesAssumption /\ \A q \in Pid \ {a} : g[q] = f[q]
    BY <2>1
  <2>3. /\ Cardinality(PidsAt(g, o)) = Cardinality(PidsAt(f, o)) + One(g[a] = o) - One(f[a] = o)
        /\ Cardinality(PidsAt(f, o)) \in Nat
    BY ONLY <2>2, a \in Pid, PidsAtChanged
  <2> QED BY <2>1, <2>3
<1>2. PICK x, y : x = Cardinality(PidsAt(Ref(k), o)) /\ y = Cardinality(PidsAt(Ref(k)', o))
  OBVIOUS
<1>3. y = x + One(Ref(k)'[a] = o) - One(Ref(k)[a] = o) /\ x \in Nat /\ \A v : One(v) \in {0, 1}
  BY <1>1, <1>2 DEF One
<1>4. count[k][o] = x + One(o = InitObj)
  BY <1>2 DEF ObjExact
<1>5. count'[k][o] = count[k][o] + One(Ref(k)'[a] = o) - One(Ref(k)[a] = o)
  OBVIOUS
<1> QED BY <1>2, <1>3, <1>4, <1>5

LEMMA CountKept ==
  ASSUME Fork!ForkResourcesAssumption, ForkTyped, NEW k \in Fork!Kinds, ObjExact(k),
         \A q \in Pid : Ref(k)'[q] = Ref(k)[q], count'[k] = count[k]
  PROVE  ObjExact(k)'
<1>1. \A o : PidsAt(Ref(k)', o) = PidsAt(Ref(k), o)
  BY DEF PidsAt
<1> QED BY <1>1 DEF ObjExact

-----------------------------------------------------------------------------
(* Every step keeps the types and what each task holds.                    *)

LEMMA StartSound ==
  ASSUME Fork!ForkResourcesAssumption, ForkTyped, ForkFit, HasAll, NEW p \in Pid, NEW c \in Pid, NEW S \in Flags, Fork!ForkStart(p, c, S)
  PROVE  ForkTyped' /\ ForkFit' /\ HasAll'
<1>1. ForkTyped'
  BY DEF Fork!ForkStart, ForkTyped, Fork!ForkResourcesAssumption, Fork!Kinds
<1>2. ForkFit'
  BY DEF Fork!ForkStart, ForkTyped, ForkFit, InDoFork, Fork!ForkResourcesAssumption
<1>3. HasAll'
  BY OrderFacts DEF Fork!ForkStart, ForkTyped, ForkFit, InDoFork, HasAll, Fork!ForkResourcesAssumption
<1> QED BY <1>1, <1>2, <1>3

LEMMA CopySound ==
  ASSUME Fork!ForkResourcesAssumption, ForkTyped, ForkFit, HasAll, NEW p \in Pid, Fork!CopyStep(p)
  PROVE  ForkTyped' /\ ForkFit' /\ HasAll'
<1>1. PICK k : k = Fork!Order[at[p]]
  OBVIOUS
<1>2. /\ k \in Fork!Kinds /\ Idx(k) = at[p] /\ at[p] \in 1 .. 3 /\ point[p] = "copy" /\ offspring[p] \in Pid /\ offspring[p] # p
      /\ obj[k][p] \in Obj /\ point[offspring[p]] = "child"
  <2>1. at[p] \in 1 .. 3 /\ point[p] = "copy"
    BY OrderFacts DEF Fork!CopyStep, ForkTyped, ForkFit
  <2>2. k \in Fork!Kinds /\ Idx(k) = at[p]
    BY <1>1, <2>1, OrderFacts
  <2> QED BY <2>1, <2>2 DEF ForkTyped, ForkFit, InDoFork, HasAll
<1>3. PICK o \in Obj : /\ count' = Fork!Get(count, k, o)
                       /\ \/ obj' = obj
                          \/ obj' = [obj EXCEPT ![k][offspring[p]] = o]
  <2>1. CASE k \in shares[p]
    BY <1>1, <1>2, <2>1 DEF Fork!CopyStep, Fork!Share
  <2>2. CASE k \notin shares[p]
    <3>1. Fork!New(k) \in Obj
      BY <1>1, <2>2 DEF Fork!CopyStep, Fork!Fill, Fork!New, Fork!Free
    <3> QED BY <1>1, <2>2, <3>1 DEF Fork!CopyStep, Fork!Fill
  <2> QED BY <2>1, <2>2
<1>4. obj' \in [Fork!Kinds -> [Pid -> Obj \cup {None}]]
  <2>1. CASE obj' = obj
    BY <2>1 DEF ForkTyped
  <2>2. CASE obj' = [obj EXCEPT ![k][offspring[p]] = o]
    BY <1>2, <2>2 DEF ForkTyped
  <2> QED BY <1>3, <2>1, <2>2
<1>5. count' \in [Fork!Kinds -> [Obj -> Int]]
  BY <1>2, <1>3 DEF ForkTyped, Fork!Get
<1>6. at' = [at EXCEPT ![p] = @ + 1] /\ UNCHANGED <<user, processes, nr_threads, point, offspring, shares>>
  BY DEF Fork!CopyStep
<1>7. ForkTyped'
  BY <1>2, <1>4, <1>5, <1>6 DEF ForkTyped
<1>8. ForkFit'
  BY <1>2, <1>6 DEF ForkTyped, ForkFit, InDoFork
<1>9. HasAll'
  <2> SUFFICES ASSUME NEW q \in Pid, NEW j \in Fork!Kinds
               PROVE  /\ point[q] \in {"run", "copy", "unwind", "daemon"} => obj'[j][q] # None
                      /\ point[q] \in {"free", "zombie"} => obj'[j][q] = None
                      /\ point[q] = "exit" => (obj'[j][q] = None <=> Idx(j) < at'[q])
                      /\ point[q] = "copy" => /\ obj'[j][offspring[q]] # None
                                              /\ Idx(j) >= at'[q] => obj'[j][offspring[q]] = obj'[j][q]
    BY <1>6 DEF HasAll
  <2>1. \A r \in Pid : r # offspring[p] => obj'[j][r] = obj[j][r]
    BY <1>2, <1>3 DEF ForkTyped
  <2>2. obj'[j][offspring[p]] = obj[j][offspring[p]] \/ (j = k /\ obj'[j][offspring[p]] = o)
    BY <1>2, <1>3 DEF ForkTyped
  <2>3. o # None /\ point[offspring[p]] = "child"
    BY <1>2 DEF Fork!ForkResourcesAssumption
  <2>4. CASE q = p
    <3>1. at'[p] = at[p] + 1 /\ obj'[j][p] = obj[j][p] /\ at[p] \in Int /\ Idx(j) \in Int
      BY <1>2, <1>6, <2>1, OrderFacts DEF ForkTyped
    <3>2. obj[j][p] # None /\ obj[j][offspring[p]] # None /\ (Idx(j) >= at[p] => obj[j][offspring[p]] = obj[j][p])
      BY <1>2 DEF HasAll
    <3>3. Idx(j) >= at[p] + 1 => j # k
      BY <1>2, <3>1
    <3> QED BY <1>2, <2>2, <2>3, <2>4, <3>1, <3>2, <3>3
  <2>5. CASE q # p
    <3>1. at'[q] = at[q]
      BY <1>6, <2>5 DEF ForkTyped
    <3>2. point[q] = "copy" => offspring[q] \in Pid /\ offspring[q] # offspring[p] /\ point[offspring[q]] = "child"
      BY <1>2, <2>5 DEF ForkFit, InDoFork, ForkTyped
    <3>3. q # offspring[p] \/ point[q] = "child"
      BY <1>2
    <3> QED BY <2>1, <3>1, <3>2, <3>3 DEF HasAll
  <2> QED BY <2>4, <2>5
<1> QED BY <1>7, <1>8, <1>9

LEMMA CopyFailsSound ==
  ASSUME Fork!ForkResourcesAssumption, ForkTyped, ForkFit, HasAll, NEW p \in Pid, Fork!CopyFails(p)
  PROVE  ForkTyped' /\ ForkFit' /\ HasAll'
<1>1. ForkTyped'
  BY DEF Fork!CopyFails, Fork!FirstToUndo, ForkTyped, ForkFit
<1>2. ForkFit'
  <2>1. at[p] \in 1 .. 4 /\ point[p] = "copy" /\ offspring' = offspring
    BY DEF Fork!CopyFails, ForkTyped, ForkFit
  <2>2. at'[p] = at[p] - 1 /\ point'[p] = "unwind" /\ \A q \in Pid \ {p} : at'[q] = at[q] /\ point'[q] = point[q]
    BY <2>1 DEF Fork!CopyFails, Fork!FirstToUndo, ForkTyped
  <2>3. \A q \in Pid : (InDoFork(q)' <=> InDoFork(q)) /\ (point'[q] = "child" <=> point[q] = "child")
    BY <2>1, <2>2 DEF InDoFork
  <2>4. \A q \in Pid : InDoFork(q) => offspring[q] \in Pid /\ point'[offspring[q]] = "child"
    BY <2>3 DEF ForkFit, InDoFork, ForkTyped
  <2> QED BY <2>1, <2>2, <2>3, <2>4 DEF ForkFit
<1>3. HasAll'
  BY DEF Fork!CopyFails, ForkTyped, HasAll
<1> QED BY <1>1, <1>2, <1>3

LEMMA PutTyped ==
  ASSUME Fork!ForkResourcesAssumption, ForkTyped, NEW k \in Fork!Kinds, NEW o \in Obj \cup {None}, NEW c, c = Fork!Put(count, k, o)
  PROVE  c \in [Fork!Kinds -> [Obj -> Int]]
  BY DEF ForkTyped, Fork!Put

LEMMA UnwindSound ==
  ASSUME Fork!ForkResourcesAssumption, ForkTyped, ForkFit, HasAll, NEW p \in Pid, Fork!UnwindStep(p)
  PROVE  ForkTyped' /\ ForkFit' /\ HasAll'
<1>1. PICK k : k = Fork!Order[at[p]]
  OBVIOUS
<1>2. /\ k \in Fork!Kinds /\ at[p] \in 1 .. 3 /\ point[p] = "unwind" /\ offspring[p] \in Pid /\ offspring[p] # p
      /\ obj[k][offspring[p]] \in Obj \cup {None} /\ point[offspring[p]] = "child"
  <2>1. at[p] \in 1 .. 3 /\ point[p] = "unwind"
    BY DEF Fork!UnwindStep, ForkTyped, ForkFit
  <2>2. k \in Fork!Kinds
    BY <1>1, <2>1, OrderFacts
  <2> QED BY <2>1, <2>2 DEF ForkTyped, ForkFit, InDoFork
<1>3. /\ count' = Fork!Put(count, k, obj[k][offspring[p]]) /\ obj' = [obj EXCEPT ![k][offspring[p]] = None]
      /\ at' = [at EXCEPT ![p] = @ - 1] /\ UNCHANGED <<user, processes, nr_threads, point, offspring, shares>>
  BY <1>1 DEF Fork!UnwindStep
<1>4. ForkTyped'
  <2>1. count' \in [Fork!Kinds -> [Obj -> Int]]
    BY <1>2, <1>3, PutTyped
  <2> QED BY <1>2, <1>3, <2>1 DEF ForkTyped
<1>5. ForkFit'
  BY <1>2, <1>3 DEF ForkTyped, ForkFit, InDoFork
<1>6. HasAll'
  <2>1. \A r \in Pid, j \in Fork!Kinds : r # offspring[p] => obj'[j][r] = obj[j][r]
    BY <1>2, <1>3 DEF ForkTyped
  <2>2. \A q \in Pid : point[q] = "copy" => q # p /\ offspring[q] \in Pid /\ offspring[q] # offspring[p] /\ point[offspring[q]] = "child"
    BY <1>2 DEF ForkFit, InDoFork, ForkTyped
  <2>3. \A q \in Pid : q # p => at'[q] = at[q]
    BY <1>3 DEF ForkTyped
  <2> QED BY <1>2, <1>3, <2>1, <2>2, <2>3 DEF HasAll
<1> QED BY <1>4, <1>5, <1>6

LEMMA FailedSound ==
  ASSUME Fork!ForkResourcesAssumption, ForkTyped, ForkFit, HasAll, NEW p \in Pid, Fork!ForkFailed(p)
  PROVE  ForkTyped' /\ ForkFit' /\ HasAll'
<1>1. /\ point[p] = "unwind" /\ offspring[p] \in Pid /\ offspring[p] # p /\ point[offspring[p]] = "child"
      /\ \A q \in Pid : q # p /\ InDoFork(q) => offspring[q] # offspring[p]
  BY DEF Fork!ForkFailed, ForkFit, InDoFork, ForkTyped
<1>2. ForkTyped'
  BY <1>1 DEF Fork!ForkFailed, Fork!Freed, Fork!Leave, ForkTyped, Fork!Kinds
<1>3. ForkFit'
  BY <1>1 DEF Fork!ForkFailed, Fork!Leave, ForkTyped, ForkFit, InDoFork
<1>4. HasAll'
  BY <1>1 DEF Fork!ForkFailed, Fork!Freed, Fork!Leave, ForkTyped, ForkFit, InDoFork, HasAll
<1> QED BY <1>2, <1>3, <1>4

LEMMA DoneSound ==
  ASSUME Fork!ForkResourcesAssumption, ForkTyped, ForkFit, HasAll, NEW p \in Pid, Fork!ForkDone(p)
  PROVE  ForkTyped' /\ ForkFit' /\ HasAll'
<1>1. /\ point[p] = "copy" /\ offspring[p] \in Pid /\ offspring[p] # p /\ point[offspring[p]] = "child"
      /\ \A q \in Pid : q # p /\ InDoFork(q) => offspring[q] # offspring[p]
  BY DEF Fork!ForkDone, ForkFit, InDoFork, ForkTyped
<1>2. ForkTyped'
  BY <1>1 DEF Fork!ForkDone, Fork!Leave, ForkTyped
<1>3. ForkFit'
  BY <1>1 DEF Fork!ForkDone, Fork!Leave, ForkTyped, ForkFit, InDoFork
<1>4. HasAll'
  BY <1>1 DEF Fork!ForkDone, Fork!Leave, ForkTyped, ForkFit, InDoFork, HasAll
<1> QED BY <1>2, <1>3, <1>4

LEMMA do_exitSound ==
  ASSUME Fork!ForkResourcesAssumption, ForkTyped, ForkFit, HasAll, NEW p \in Pid, Fork!do_exit(p)
  PROVE  ForkTyped' /\ ForkFit' /\ HasAll'
<1>1. ForkTyped'
  BY DEF Fork!do_exit, ForkTyped
<1>2. ForkFit'
  BY DEF Fork!do_exit, ForkTyped, ForkFit, InDoFork
<1>3. HasAll'
  <2>1. /\ point[p] = "run" /\ point'[p] = "exit" /\ at'[p] = 1
        /\ \A q \in Pid \ {p} : at'[q] = at[q] /\ point'[q] = point[q]
        /\ obj' = obj /\ offspring' = offspring
    BY DEF Fork!do_exit, ForkTyped
  <2>2. \A k \in Fork!Kinds : obj[k][p] # None /\ ~ (Idx(k) < 1)
    BY <2>1, OrderFacts DEF HasAll
  <2> QED BY <2>1, <2>2 DEF HasAll
<1> QED BY <1>1, <1>2, <1>3

LEMMA ExitSound ==
  ASSUME Fork!ForkResourcesAssumption, ForkTyped, ForkFit, HasAll, NEW p \in Pid, Fork!ExitStep(p)
  PROVE  ForkTyped' /\ ForkFit' /\ HasAll'
<1>1. PICK k : k = Fork!Order[at[p]]
  OBVIOUS
<1>2. at[p] \in 1 .. 3 /\ point[p] = "exit" /\ k \in Fork!Kinds /\ Idx(k) = at[p] /\ obj[k][p] \in Obj \cup {None}
  <2>1. at[p] \in 1 .. 3 /\ point[p] = "exit"
    BY DEF Fork!ExitStep, ForkFit
  <2>2. k \in Fork!Kinds /\ Idx(k) = at[p]
    BY <1>1, <2>1, OrderFacts
  <2> QED BY <2>1, <2>2 DEF ForkTyped
<1>3. /\ count' = Fork!Put(count, k, obj[k][p]) /\ obj' = [obj EXCEPT ![k][p] = None]
      /\ UNCHANGED <<user, processes, nr_threads, offspring, shares>>
      /\ \/ at[p] < 3 /\ at' = [at EXCEPT ![p] = @ + 1] /\ point' = point
         \/ at[p] = 3 /\ point' = [point EXCEPT ![p] = "zombie"] /\ at' = [at EXCEPT ![p] = 1]
  BY <1>1, <1>2, OrderFacts DEF Fork!ExitStep
<1>4. ForkTyped'
  <2>1. count' \in [Fork!Kinds -> [Obj -> Int]]
    BY <1>2, <1>3, PutTyped
  <2>2. at' \in [Pid -> 0 .. 4] /\ point' \in [Pid -> {"run", "copy", "unwind", "exit", "daemon", "zombie", "child", "free"}]
    <3>1. CASE at' = [at EXCEPT ![p] = @ + 1] /\ point' = point /\ at[p] < 3
      BY <1>2, <3>1 DEF ForkTyped
    <3>2. CASE point' = [point EXCEPT ![p] = "zombie"] /\ at' = [at EXCEPT ![p] = 1]
      BY <3>2 DEF ForkTyped
    <3> QED BY <1>3, <3>1, <3>2
  <2> QED BY <1>2, <1>3, <2>1, <2>2 DEF ForkTyped
<1>5. ForkFit'
  <2>1. /\ point'[p] \in {"exit", "zombie"} /\ at'[p] \in 1 .. 3 /\ offspring' = offspring
        /\ \A q \in Pid \ {p} : point'[q] = point[q] /\ at'[q] = at[q]
    BY <1>2, <1>3 DEF ForkTyped
  <2> QED BY <1>2, <2>1 DEF ForkTyped, ForkFit, InDoFork
<1>6. HasAll'
  <2>1. \A r \in Pid, j \in Fork!Kinds : r # p => obj'[j][r] = obj[j][r]
    BY <1>2, <1>3 DEF ForkTyped
  <2>2. \A j \in Fork!Kinds : obj'[j][p] = IF j = k THEN None ELSE obj[j][p]
    BY <1>2, <1>3 DEF ForkTyped
  <2>3. \A q \in Pid : point[q] = "copy" => q # p /\ offspring[q] \in Pid /\ offspring[q] # p
    BY <1>2 DEF ForkFit, InDoFork, ForkTyped
  <2>4. \A q \in Pid : q # p => at'[q] = at[q] /\ point'[q] = point[q]
    BY <1>3 DEF ForkTyped
  <2>5. ASSUME NEW j \in Fork!Kinds
        PROVE  \/ point'[p] = "exit" /\ (obj'[j][p] = None <=> Idx(j) < at'[p])
               \/ point'[p] = "zombie" /\ obj'[j][p] = None
    <3>1. obj[j][p] = None <=> Idx(j) < at[p]
      BY <1>2 DEF HasAll
    <3>2. Idx(j) \in 1 .. 3 /\ (Idx(j) = at[p] <=> j = k)
      BY <1>1, <1>2, OrderFacts
    <3>3. CASE at[p] < 3 /\ at' = [at EXCEPT ![p] = @ + 1] /\ point' = point
      <4>1. at'[p] = at[p] + 1 /\ point'[p] = "exit"
        BY <1>2, <3>3 DEF ForkTyped
      <4> QED BY <1>2, <2>2, <3>1, <3>2, <4>1
    <3>4. CASE at[p] = 3 /\ point' = [point EXCEPT ![p] = "zombie"] /\ at' = [at EXCEPT ![p] = 1]
      <4>1. point'[p] = "zombie"
        BY <3>4 DEF ForkTyped
      <4> QED BY <1>2, <2>2, <3>1, <3>2, <3>4, <4>1
    <3> QED BY <1>3, <3>3, <3>4
  <2> QED BY <1>3, <2>1, <2>3, <2>4, <2>5 DEF HasAll
<1> QED BY <1>4, <1>5, <1>6

LEMMA release_taskSound ==
  ASSUME Fork!ForkResourcesAssumption, ForkTyped, ForkFit, HasAll, NEW p \in Pid, Fork!release_task(p)
  PROVE  ForkTyped' /\ ForkFit' /\ HasAll'
<1>1. ForkTyped'
  BY DEF Fork!release_task, ForkTyped
<1>2. ForkFit'
  BY DEF Fork!release_task, ForkTyped, ForkFit, InDoFork
<1>3. HasAll'
  BY DEF Fork!release_task, ForkTyped, HasAll
<1> QED BY <1>1, <1>2, <1>3

LEMMA BecomeSound ==
  ASSUME Fork!ForkResourcesAssumption, ForkTyped, ForkFit, HasAll, NEW p \in Pid, NEW k \in Fork!Kinds, Fork!Become(p, k),
         NEW l \in {"run", "daemon"}, point[p] \in {"run", "daemon"}, point' = [point EXCEPT ![p] = l]
  PROVE  ForkTyped' /\ ForkFit' /\ HasAll'
<1>1. InitObj \in Obj /\ InitObj # None
  BY DEF Fork!ForkResourcesAssumption
<1>2. PICK c : c = Fork!Put(count, k, obj[k][p])
  OBVIOUS
<1>3. c \in [Fork!Kinds -> [Obj -> Int]] /\ count' = Fork!Get(c, k, InitObj)
  BY <1>2, PutTyped DEF Fork!Become, Fork!NowInit, ForkTyped
<1>4. count' \in [Fork!Kinds -> [Obj -> Int]]
  BY <1>1, <1>3 DEF Fork!Get
<1>5. ForkTyped'
  BY <1>1, <1>4 DEF Fork!Become, ForkTyped
<1>6. ForkFit'
  BY DEF Fork!Become, ForkTyped, ForkFit, InDoFork
<1>7. HasAll'
  <2>1. \A r \in Pid, j \in Fork!Kinds : r # p => obj'[j][r] = obj[j][r] /\ point'[r] = point[r]
    BY DEF Fork!Become, ForkTyped
  <2>2. \A j \in Fork!Kinds : obj'[j][p] # None
    BY <1>1 DEF Fork!Become, ForkTyped, HasAll
  <2>3. \A q \in Pid : point[q] = "copy" => q # p /\ offspring[q] \in Pid /\ offspring[q] # p
    BY DEF ForkFit, InDoFork, ForkTyped
  <2>4. point'[p] \in {"run", "daemon"} /\ offspring' = offspring /\ at' = at
    BY DEF ForkTyped, Fork!Become
  <2> QED BY <2>1, <2>2, <2>3, <2>4 DEF HasAll
<1> QED BY <1>5, <1>6, <1>7

LEMMA daemonizeSound ==
  ASSUME Fork!ForkResourcesAssumption, ForkTyped, ForkFit, HasAll, NEW p \in Pid, Fork!daemonize(p) \/ Fork!reparent_to_init(p)
  PROVE  ForkTyped' /\ ForkFit' /\ HasAll'
<1>1. CASE Fork!daemonize(p)
  BY <1>1, BecomeSound DEF Fork!daemonize, Fork!Kinds
<1>2. CASE Fork!reparent_to_init(p)
  <2>1. ForkTyped' /\ UNCHANGED <<obj, point, at, offspring>>
    BY <1>2 DEF Fork!reparent_to_init, ForkTyped, Fork!Users
  <2> QED BY <2>1 DEF ForkFit, InDoFork, HasAll
<1> QED BY <1>1, <1>2

-----------------------------------------------------------------------------
(* The counts of shared structures after every step.                       *)

LEMMA StartFacts ==
  ASSUME Fork!ForkResourcesAssumption, ForkTyped, ForkFit, NEW p \in Pid, NEW c \in Pid, NEW S \in Flags,
         Fork!ForkStart(p, c, S), NEW k \in Fork!Kinds
  PROVE  /\ point[p] = "run" /\ point[c] = "free" /\ p # c /\ offspring[p] = None /\ offspring[c] = None /\ c # None
         /\ point'[p] = "copy" /\ point'[c] = "child" /\ at'[p] = 1 /\ offspring'[p] = c
         /\ \A q \in Pid \ {p} : offspring'[q] = offspring[q] /\ at'[q] = at[q]
         /\ \A q \in Pid \ {p, c} : point'[q] = point[q]
         /\ \A q \in Pid \ {c} : obj'[k][q] = obj[k][q]
         /\ count' = count
<1>1. point[p] = "run" /\ point[c] = "free" /\ p # c /\ offspring[p] = None /\ offspring[c] = None /\ c # None
  BY DEF Fork!ForkStart, ForkFit, InDoFork, Fork!ForkResourcesAssumption
<1>2. obj'[k] = [obj[k] EXCEPT ![c] = obj[k][p]] /\ obj[k] \in [Pid -> Obj \cup {None}]
  BY DEF Fork!ForkStart, ForkTyped
<1>3. \A q \in Pid \ {c} : obj'[k][q] = obj[k][q]
  BY <1>2
<1>4. /\ point' = [point EXCEPT ![p] = "copy", ![c] = "child"] /\ at' = [at EXCEPT ![p] = 1]
      /\ offspring' = [offspring EXCEPT ![p] = c] /\ count' = count
  BY DEF Fork!ForkStart
<1> QED BY <1>1, <1>3, <1>4 DEF ForkTyped

LEMMA StartExact ==
  ASSUME Fork!ForkResourcesAssumption, ForkTyped, ForkFit, HasAll, ForkTyped', ForkFit', NEW p \in Pid, NEW c \in Pid, NEW S \in Flags,
         Fork!ForkStart(p, c, S), NEW k \in Fork!Kinds, ObjExact(k)
  PROVE  ObjExact(k)'
<1>1. /\ point[p] = "run" /\ point[c] = "free" /\ p # c /\ offspring[p] = None /\ offspring[c] = None /\ c # None
      /\ point'[p] = "copy" /\ point'[c] = "child" /\ at'[p] = 1 /\ offspring'[p] = c
      /\ \A q \in Pid \ {p} : offspring'[q] = offspring[q] /\ at'[q] = at[q]
      /\ \A q \in Pid \ {p, c} : point'[q] = point[q]
      /\ \A q \in Pid \ {c} : obj'[k][q] = obj[k][q]
      /\ count' = count
  BY StartFacts
<1>2. Ref(k)'[c] = Ref(k)[c]
  <2>1. Ref(k)[c] = None
    BY <1>1, RefOf DEF HasAll
  <2>2. ~ Given(p, k)' /\ InDoFork(p)'
    BY <1>1, OrderFacts DEF Given, InDoFork
  <2> QED BY <1>1, <2>1, <2>2, RefOfNext
<1>3. Ref(k)'[p] = Ref(k)[p]
  BY <1>1, RefOf, RefOfNext
<1>4. ASSUME NEW q \in Pid \ {p, c} PROVE Ref(k)'[q] = Ref(k)[q]
  <2>1. \A r \in Pid : offspring'[r] = q <=> offspring[r] = q
    BY <1>1 DEF Fork!ForkResourcesAssumption
  <2>2. \A r \in Pid : offspring[r] = q => point'[r] = point[r] /\ at'[r] = at[r]
    BY <1>1 DEF Fork!ForkResourcesAssumption
  <2> QED BY <1>1, <2>1, <2>2, RefKept
<1> QED BY <1>1, <1>2, <1>3, <1>4, CountKept

\* The parent goes on from one structure to the next, or to giving them back, and only
\* what its child refers to can change.
LEMMA OnlyChild ==
  ASSUME Fork!ForkResourcesAssumption, ForkTyped, ForkFit, ForkTyped', ForkFit', NEW p \in Pid, InDoFork(p), NEW k \in Fork!Kinds,
         offspring' = offspring, \A q \in Pid \ {p} : point'[q] = point[q] /\ at'[q] = at[q], point'[p] \in {"copy", "unwind"},
         \A q \in Pid \ {offspring[p]} : obj'[k][q] = obj[k][q]
  PROVE  /\ offspring[p] \in Pid /\ \A q \in Pid \ {offspring[p]} : Ref(k)'[q] = Ref(k)[q]
         /\ Ref(k)[offspring[p]] = IF Given(p, k) THEN obj[k][offspring[p]] ELSE None
         /\ Ref(k)'[offspring[p]] = IF Given(p, k)' THEN obj'[k][offspring[p]] ELSE None
<1>1. offspring[p] \in Pid /\ offspring[p] # p /\ point[offspring[p]] = "child" /\ InDoFork(p)'
  BY DEF ForkTyped, ForkFit, InDoFork
<1>2. ASSUME NEW q \in Pid \ {offspring[p]} PROVE Ref(k)'[q] = Ref(k)[q]
  <2>1. point'[q] = "child" <=> point[q] = "child"
    BY DEF InDoFork
  <2>2. obj'[k][q] = obj[k][q] /\ \A r \in Pid : offspring'[r] = q <=> offspring[r] = q
    OBVIOUS
  <2>3. \A r \in Pid : offspring[r] = q => point'[r] = point[r] /\ at'[r] = at[r]
    OBVIOUS
  <2> QED BY <2>1, <2>2, <2>3, RefKept
<1>3. Ref(k)[offspring[p]] = IF Given(p, k) THEN obj[k][offspring[p]] ELSE None
  BY RefOf
<1>4. Ref(k)'[offspring[p]] = IF Given(p, k)' THEN obj'[k][offspring[p]] ELSE None
  BY <1>1, RefOfNext
<1> QED BY <1>1, <1>2, <1>3, <1>4

LEMMA CopyFacts ==
  ASSUME Fork!ForkResourcesAssumption, ForkTyped, ForkFit, HasAll, NEW p \in Pid, Fork!CopyStep(p), NEW k, k = Fork!Order[at[p]],
         NEW j \in Fork!Kinds
  PROVE  /\ k \in Fork!Kinds /\ Idx(k) = at[p] /\ at[p] \in 1 .. 3 /\ point[p] = "copy" /\ offspring[p] \in Pid
         /\ obj[k][p] # None /\ obj[k][offspring[p]] = obj[k][p] /\ (j # k => Idx(j) # at[p]) /\ Idx(j) \in 1 .. 3
<1>1. at[p] \in 1 .. 3 /\ point[p] = "copy"
  <2>1. at[p] <= 3 /\ point[p] = "copy"
    BY OrderFacts DEF Fork!CopyStep
  <2> QED BY <2>1 DEF ForkTyped, ForkFit
<1>2. k \in Fork!Kinds /\ Idx(k) = at[p] /\ (j # k => Idx(j) # at[p]) /\ Idx(j) \in 1 .. 3
  BY <1>1, OrderFacts
<1>3. offspring[p] \in Pid
  BY <1>1 DEF ForkTyped, ForkFit, InDoFork
<1> QED BY <1>1, <1>2, <1>3 DEF HasAll

LEMMA CopyExact ==
  ASSUME Fork!ForkResourcesAssumption, ForkTyped, ForkFit, HasAll, ForkTyped', ForkFit', NEW p \in Pid, Fork!CopyStep(p), NEW j \in Fork!Kinds, ObjExact(j)
  PROVE  ObjExact(j)'
<1>1. PICK k : k = Fork!Order[at[p]]
  OBVIOUS
<1>2. /\ k \in Fork!Kinds /\ Idx(k) = at[p] /\ at[p] \in 1 .. 3 /\ point[p] = "copy" /\ offspring[p] \in Pid
      /\ obj[k][p] # None /\ obj[k][offspring[p]] = obj[k][p] /\ (j # k => Idx(j) # at[p]) /\ Idx(j) \in 1 .. 3
  BY <1>1, CopyFacts
<1>3. PICK o : /\ count' = Fork!Get(count, k, o)
               /\ o \in Obj /\ obj'[k][offspring[p]] = o
               /\ \A i \in Fork!Kinds, q \in Pid : i # k \/ q # offspring[p] => obj'[i][q] = obj[i][q]
  <2>1. CASE k \in shares[p]
    BY <1>1, <1>2, <2>1 DEF Fork!CopyStep, Fork!Share, ForkTyped
  <2>2. CASE k \notin shares[p]
    <3>1. Fork!New(k) \in Obj
      BY <1>1, <2>2 DEF Fork!CopyStep, Fork!Fill, Fork!New, Fork!Free
    <3> QED BY <1>1, <1>2, <2>2, <3>1 DEF Fork!CopyStep, Fork!Fill, ForkTyped
  <2> QED BY <2>1, <2>2
<1>4. /\ at'[p] = at[p] + 1 /\ offspring' = offspring /\ InDoFork(p) /\ point'[p] = "copy"
      /\ \A q \in Pid \ {p} : point'[q] = point[q] /\ at'[q] = at[q]
  BY <1>2 DEF Fork!CopyStep, ForkTyped, InDoFork
<1>5. /\ \A q \in Pid \ {offspring[p]} : Ref(j)'[q] = Ref(j)[q]
      /\ Ref(j)[offspring[p]] = IF Given(p, j) THEN obj[j][offspring[p]] ELSE None
      /\ Ref(j)'[offspring[p]] = IF Given(p, j)' THEN obj'[j][offspring[p]] ELSE None
  <2>1. \A q \in Pid \ {offspring[p]} : obj'[j][q] = obj[j][q]
    BY <1>3
  <2> QED BY <1>4, <2>1, OnlyChild
<1>6. (Given(p, j) <=> Idx(j) < at[p]) /\ (Given(p, j)' <=> Idx(j) < at[p] + 1)
  BY <1>2, <1>4 DEF Given
<1>7. CASE j # k
  <2>1. Given(p, j)' <=> Given(p, j)
    BY <1>2, <1>6, <1>7
  <2>2. obj'[j][offspring[p]] = obj[j][offspring[p]] /\ count'[j] = count[j]
    BY <1>2, <1>3, <1>7 DEF Fork!Get, ForkTyped
  <2>3. \A q \in Pid : Ref(j)'[q] = Ref(j)[q]
    BY <1>5, <2>1, <2>2
  <2> QED BY <2>2, <2>3, CountKept
<1>8. CASE j = k
  <2>1. Ref(j)[offspring[p]] = None /\ Ref(j)'[offspring[p]] = o
    BY <1>2, <1>3, <1>5, <1>6, <1>8
  <2>2. ASSUME NEW x \in Obj
        PROVE  count'[j][x] = count[j][x] + One(Ref(j)'[offspring[p]] = x) - One(Ref(j)[offspring[p]] = x)
    <3>1. One(Ref(j)'[offspring[p]] = x) = One(o = x) /\ One(Ref(j)[offspring[p]] = x) = 0
      BY <2>1 DEF One, Fork!ForkResourcesAssumption
    <3>2. count'[j][x] = count[j][x] + One(o = x) /\ count[j][x] \in Int
      <4>1. CASE x = o
        BY <1>2, <1>3, <1>8, <4>1 DEF Fork!Get, ForkTyped, One
      <4>2. CASE x # o
        BY <1>2, <1>3, <1>8, <4>2 DEF Fork!Get, ForkTyped, One
      <4> QED BY <4>1, <4>2
    <3>3. One(o = x) \in {0, 1}
      BY DEF One
    <3> QED BY <3>1, <3>2, <3>3
  <2> QED BY <1>2, <1>5, <2>2, CountMoved
<1> QED BY <1>7, <1>8

LEMMA CopyFailsExact ==
  ASSUME Fork!ForkResourcesAssumption, ForkTyped, ForkFit, HasAll, ForkTyped', ForkFit', NEW p \in Pid, Fork!CopyFails(p), NEW k \in Fork!Kinds, ObjExact(k)
  PROVE  ObjExact(k)'
<1>1. /\ point[p] = "copy" /\ InDoFork(p) /\ at'[p] = at[p] - 1 /\ offspring' = offspring /\ point'[p] = "unwind" /\ at[p] \in Int
      /\ \A q \in Pid \ {p} : point'[q] = point[q] /\ at'[q] = at[q]
      /\ obj' = obj /\ count' = count
  BY DEF Fork!CopyFails, Fork!FirstToUndo, ForkTyped, InDoFork
<1>2. Given(p, k)' <=> Given(p, k)
  BY <1>1, OrderFacts DEF Given
<1>3. /\ \A q \in Pid \ {offspring[p]} : Ref(k)'[q] = Ref(k)[q]
      /\ Ref(k)[offspring[p]] = IF Given(p, k) THEN obj[k][offspring[p]] ELSE None
      /\ Ref(k)'[offspring[p]] = IF Given(p, k)' THEN obj'[k][offspring[p]] ELSE None
  BY <1>1, OnlyChild
<1>4. \A q \in Pid : Ref(k)'[q] = Ref(k)[q]
  BY <1>1, <1>2, <1>3
<1> QED BY <1>1, <1>4, CountKept

\* Put takes one from what is there, and nothing from None.
LEMMA PutCount ==
  ASSUME Fork!ForkResourcesAssumption, ForkTyped, NEW k \in Fork!Kinds, NEW x \in Obj \cup {None}, NEW c, c = Fork!Put(count, k, x)
  PROVE  /\ \A j \in Fork!Kinds : j # k => c[j] = count[j]
         /\ \A o \in Obj : c[k][o] = count[k][o] - One(x = o)
<1>1. \A o \in Obj : count[k][o] \in Int /\ o # None
  BY DEF ForkTyped, Fork!ForkResourcesAssumption
<1>2. CASE x = None
  <2>1. c = count
    BY <1>2 DEF Fork!Put
  <2>2. \A o \in Obj : One(x = o) = 0
    BY <1>1, <1>2 DEF One
  <2> QED BY <1>1, <2>1, <2>2
<1>3. CASE x # None
  <2>1. c = [count EXCEPT ![k][x] = @ - 1] /\ x \in Obj
    BY <1>3 DEF Fork!Put
  <2>2. \A j \in Fork!Kinds : j # k => c[j] = count[j]
    BY <2>1 DEF ForkTyped
  <2>3. ASSUME NEW o \in Obj PROVE c[k][o] = count[k][o] - One(x = o)
    <3>1. CASE o = x
      BY <1>1, <2>1, <3>1 DEF ForkTyped, One
    <3>2. CASE o # x
      <4>1. c[k][o] = count[k][o] /\ One(x = o) = 0
        BY <2>1, <3>2 DEF ForkTyped, One
      <4> QED BY <1>1, <4>1
    <3> QED BY <3>1, <3>2
  <2> QED BY <2>2, <2>3
<1> QED BY <1>2, <1>3

LEMMA UnwindFacts ==
  ASSUME Fork!ForkResourcesAssumption, ForkTyped, ForkFit, NEW p \in Pid, Fork!UnwindStep(p), NEW k, k = Fork!Order[at[p]], NEW j \in Fork!Kinds
  PROVE  /\ k \in Fork!Kinds /\ Idx(k) = at[p] /\ at[p] \in 1 .. 3 /\ point[p] = "unwind" /\ offspring[p] \in Pid /\ InDoFork(p)
         /\ obj[k][offspring[p]] \in Obj \cup {None} /\ (j # k => Idx(j) # at[p]) /\ Idx(j) \in 1 .. 3
         /\ count' = Fork!Put(count, k, obj[k][offspring[p]])
         /\ obj'[k][offspring[p]] = None /\ \A i \in Fork!Kinds, q \in Pid : i # k \/ q # offspring[p] => obj'[i][q] = obj[i][q]
         /\ at'[p] = at[p] - 1 /\ offspring' = offspring /\ point' = point
         /\ \A q \in Pid \ {p} : at'[q] = at[q]
<1>1. at[p] \in 1 .. 3 /\ point[p] = "unwind"
  BY DEF Fork!UnwindStep, ForkTyped, ForkFit
<1>2. k \in Fork!Kinds /\ Idx(k) = at[p] /\ (j # k => Idx(j) # at[p]) /\ Idx(j) \in 1 .. 3
  BY <1>1, OrderFacts
<1>3. offspring[p] \in Pid /\ InDoFork(p)
  BY <1>1 DEF ForkTyped, ForkFit, InDoFork
<1>4. /\ count' = Fork!Put(count, k, obj[k][offspring[p]]) /\ obj' = [obj EXCEPT ![k][offspring[p]] = None]
      /\ at' = [at EXCEPT ![p] = @ - 1] /\ offspring' = offspring /\ point' = point
  BY DEF Fork!UnwindStep
<1>5. obj[k][offspring[p]] \in Obj \cup {None}
  BY <1>2, <1>3 DEF ForkTyped
<1>6. obj'[k][offspring[p]] = None /\ \A i \in Fork!Kinds, q \in Pid : i # k \/ q # offspring[p] => obj'[i][q] = obj[i][q]
  BY <1>2, <1>3, <1>4 DEF ForkTyped
<1>7. at'[p] = at[p] - 1 /\ \A q \in Pid \ {p} : at'[q] = at[q]
  BY <1>4 DEF ForkTyped
<1> QED BY <1>1, <1>2, <1>3, <1>4, <1>5, <1>6, <1>7

LEMMA UnwindExact ==
  ASSUME Fork!ForkResourcesAssumption, ForkTyped, ForkFit, ForkTyped', ForkFit', NEW p \in Pid, Fork!UnwindStep(p), NEW j \in Fork!Kinds, ObjExact(j)
  PROVE  ObjExact(j)'
<1>1. PICK k : k = Fork!Order[at[p]]
  OBVIOUS
<1>2. /\ k \in Fork!Kinds /\ Idx(k) = at[p] /\ at[p] \in 1 .. 3 /\ point[p] = "unwind" /\ offspring[p] \in Pid /\ InDoFork(p)
      /\ obj[k][offspring[p]] \in Obj \cup {None} /\ (j # k => Idx(j) # at[p]) /\ Idx(j) \in 1 .. 3
      /\ count' = Fork!Put(count, k, obj[k][offspring[p]])
      /\ obj'[k][offspring[p]] = None /\ \A i \in Fork!Kinds, q \in Pid : i # k \/ q # offspring[p] => obj'[i][q] = obj[i][q]
      /\ at'[p] = at[p] - 1 /\ offspring' = offspring /\ point' = point
      /\ \A q \in Pid \ {p} : at'[q] = at[q]
  BY <1>1, UnwindFacts
<1>3. PICK c, x : c = Fork!Put(count, k, x) /\ x = obj[k][offspring[p]]
  OBVIOUS
<1>4. /\ \A i \in Fork!Kinds : i # k => c[i] = count[i]
      /\ \A o \in Obj : c[k][o] = count[k][o] - One(x = o)
  BY <1>2, <1>3, PutCount
<1>5. /\ \A q \in Pid \ {offspring[p]} : Ref(j)'[q] = Ref(j)[q]
      /\ Ref(j)[offspring[p]] = IF Given(p, j) THEN obj[j][offspring[p]] ELSE None
      /\ Ref(j)'[offspring[p]] = IF Given(p, j)' THEN obj'[j][offspring[p]] ELSE None
  <2>1. \A q \in Pid \ {offspring[p]} : obj'[j][q] = obj[j][q]
    BY <1>2
  <2>2. /\ point'[p] \in {"copy", "unwind"} /\ offspring' = offspring
        /\ \A q \in Pid \ {p} : point'[q] = point[q] /\ at'[q] = at[q]
    BY <1>2
  <2> QED BY <1>2, <2>1, <2>2, OnlyChild
<1>6. (Given(p, j) <=> Idx(j) <= at[p]) /\ (Given(p, j)' <=> Idx(j) <= at[p] - 1)
  BY <1>2 DEF Given
<1>7. CASE j # k
  <2>1. Given(p, j)' <=> Given(p, j)
    BY <1>2, <1>6, <1>7
  <2>2. obj'[j][offspring[p]] = obj[j][offspring[p]] /\ count'[j] = count[j]
    BY <1>2, <1>3, <1>4, <1>7
  <2>3. \A q \in Pid : Ref(j)'[q] = Ref(j)[q]
    BY <1>5, <2>1, <2>2
  <2> QED BY <2>2, <2>3, CountKept
<1>8. CASE j = k
  <2>1. Ref(j)[offspring[p]] = x /\ Ref(j)'[offspring[p]] = None
    BY <1>2, <1>3, <1>5, <1>6, <1>8
  <2>2. ASSUME NEW o \in Obj
        PROVE  count'[j][o] = count[j][o] + One(Ref(j)'[offspring[p]] = o) - One(Ref(j)[offspring[p]] = o)
    <3>1. One(Ref(j)'[offspring[p]] = o) = 0 /\ One(Ref(j)[offspring[p]] = o) = One(x = o)
      BY <2>1 DEF One, Fork!ForkResourcesAssumption
    <3>2. count'[j][o] = count[j][o] - One(x = o)
      BY <1>2, <1>3, <1>4, <1>8
    <3>3. One(x = o) \in {0, 1} /\ count[j][o] \in Int
      BY DEF One, ForkTyped
    <3> QED BY <3>1, <3>2, <3>3
  <2> QED BY <1>2, <1>5, <2>2, CountMoved
<1> QED BY <1>7, <1>8

LEMMA EndFacts ==
  ASSUME Fork!ForkResourcesAssumption, ForkTyped, ForkFit, NEW p \in Pid, Fork!ForkFailed(p) \/ Fork!ForkDone(p), NEW k \in Fork!Kinds
  PROVE  /\ InDoFork(p) /\ offspring[p] \in Pid /\ offspring[p] # p /\ point[offspring[p]] = "child" /\ offspring[offspring[p]] = None
         /\ point'[p] = "run" /\ offspring'[p] = None /\ count' = count
         /\ Fork!ForkFailed(p) => point'[offspring[p]] = "free" /\ obj'[k][offspring[p]] = None /\ point[p] = "unwind" /\ at[p] = 0
         /\ Fork!ForkDone(p) => point'[offspring[p]] = "run" /\ obj'[k][offspring[p]] = obj[k][offspring[p]] /\ point[p] = "copy" /\ at[p] > 3
         /\ \A q \in Pid \ {p} : offspring'[q] = offspring[q] /\ at'[q] = at[q]
         /\ \A q \in Pid \ {p, offspring[p]} : point'[q] = point[q]
         /\ \A q \in Pid \ {offspring[p]} : obj'[k][q] = obj[k][q]
<1>1. /\ InDoFork(p) /\ offspring[p] \in Pid /\ offspring[p] # p /\ point[offspring[p]] = "child" /\ offspring[offspring[p]] = None
      /\ Fork!ForkFailed(p) => point[p] = "unwind" /\ at[p] = 0
      /\ Fork!ForkDone(p) => point[p] = "copy" /\ at[p] > 3
  BY OrderFacts DEF Fork!ForkFailed, Fork!ForkDone, ForkFit, InDoFork, ForkTyped
<1>2. offspring' = [offspring EXCEPT ![p] = None] /\ at' = [at EXCEPT ![p] = 1] /\ count' = count
  BY DEF Fork!ForkFailed, Fork!ForkDone, Fork!Leave
<1>3. /\ point'[p] = "run" /\ \A q \in Pid \ {p, offspring[p]} : point'[q] = point[q]
      /\ Fork!ForkFailed(p) => point'[offspring[p]] = "free"
      /\ Fork!ForkDone(p) => point'[offspring[p]] = "run"
  BY <1>1 DEF Fork!ForkFailed, Fork!ForkDone, ForkTyped
<1>4. /\ \A q \in Pid \ {offspring[p]} : obj'[k][q] = obj[k][q]
      /\ Fork!ForkFailed(p) => obj'[k][offspring[p]] = None
      /\ Fork!ForkDone(p) => obj'[k][offspring[p]] = obj[k][offspring[p]]
  <2>1. obj[k] \in [Pid -> Obj \cup {None}]
    BY DEF ForkTyped
  <2>2. CASE Fork!ForkFailed(p)
    <3>1. obj'[k] = [obj[k] EXCEPT ![offspring[p]] = None] /\ point[p] # "copy"
      BY <1>1, <2>2 DEF Fork!ForkFailed, Fork!Freed
    <3>2. ~ Fork!ForkDone(p)
      BY <3>1 DEF Fork!ForkDone
    <3> QED BY <1>1, <2>1, <3>1, <3>2
  <2>3. CASE Fork!ForkDone(p)
    <3>1. obj' = obj /\ point[p] # "unwind"
      BY <2>3 DEF Fork!ForkDone
    <3>2. ~ Fork!ForkFailed(p)
      BY <3>1 DEF Fork!ForkFailed
    <3> QED BY <3>1, <3>2
  <2> QED BY <2>2, <2>3
<1>5. offspring'[p] = None /\ \A q \in Pid \ {p} : offspring'[q] = offspring[q] /\ at'[q] = at[q]
  BY <1>2 DEF ForkTyped
<1> QED BY <1>1, <1>2, <1>3, <1>4, <1>5

LEMMA EndExact ==
  ASSUME Fork!ForkResourcesAssumption, ForkTyped, ForkFit, ForkTyped', ForkFit', NEW p \in Pid, Fork!ForkFailed(p) \/ Fork!ForkDone(p),
         NEW k \in Fork!Kinds, ObjExact(k)
  PROVE  ObjExact(k)'
<1>1. /\ InDoFork(p) /\ offspring[p] \in Pid /\ offspring[p] # p /\ point[offspring[p]] = "child" /\ offspring[offspring[p]] = None
      /\ point'[p] = "run" /\ offspring'[p] = None /\ count' = count
      /\ Fork!ForkFailed(p) => point'[offspring[p]] = "free" /\ obj'[k][offspring[p]] = None /\ point[p] = "unwind" /\ at[p] = 0
      /\ Fork!ForkDone(p) => point'[offspring[p]] = "run" /\ obj'[k][offspring[p]] = obj[k][offspring[p]] /\ point[p] = "copy" /\ at[p] > 3
      /\ \A q \in Pid \ {p} : offspring'[q] = offspring[q] /\ at'[q] = at[q]
      /\ \A q \in Pid \ {p, offspring[p]} : point'[q] = point[q]
      /\ \A q \in Pid \ {offspring[p]} : obj'[k][q] = obj[k][q]
  BY EndFacts
<1>2. Ref(k)[offspring[p]] = IF Given(p, k) THEN obj[k][offspring[p]] ELSE None
  BY <1>1, RefOf
<1>3. Ref(k)'[offspring[p]] = obj'[k][offspring[p]]
  BY <1>1, RefOfNext
<1>4. Ref(k)'[offspring[p]] = Ref(k)[offspring[p]]
  <2>1. CASE Fork!ForkFailed(p)
    <3>1. ~ Given(p, k)
      <4>1. Idx(k) \in 1 .. 3 /\ at[p] = 0 /\ point[p] = "unwind"
        BY <1>1, <2>1, OrderFacts
      <4> QED BY <4>1 DEF Given
    <3> QED BY <1>1, <1>2, <1>3, <2>1, <3>1
  <2>2. CASE Fork!ForkDone(p)
    <3>1. Given(p, k)
      <4>1. Idx(k) \in 1 .. 3 /\ at[p] \in Int /\ at[p] > 3 /\ point[p] = "copy"
        BY <1>1, <2>2, OrderFacts, AtInt
      <4> QED BY <4>1 DEF Given
    <3> QED BY <1>1, <1>2, <1>3, <2>2, <3>1
  <2> QED BY <2>1, <2>2
<1>5. Ref(k)'[p] = Ref(k)[p]
  <2>1. point[p] # "child" /\ point'[p] # "child" /\ obj'[k][p] = obj[k][p]
    BY <1>1 DEF InDoFork
  <2> QED BY <2>1, RefOf, RefOfNext
<1>6. ASSUME NEW q \in Pid \ {p, offspring[p]} PROVE Ref(k)'[q] = Ref(k)[q]
  <2>1. \A r \in Pid : offspring'[r] = q <=> offspring[r] = q
    BY <1>1 DEF Fork!ForkResourcesAssumption
  <2>2. \A r \in Pid : offspring[r] = q => point'[r] = point[r] /\ at'[r] = at[r]
    BY <1>1 DEF Fork!ForkResourcesAssumption
  <2> QED BY <1>1, <2>1, <2>2, RefKept
<1> QED BY <1>1, <1>4, <1>5, <1>6, CountKept

\* What becomes of a task that is not in do_fork, and not a child.
LEMMA AloneRefs ==
  ASSUME Fork!ForkResourcesAssumption, ForkTyped, ForkFit, ForkTyped', ForkFit', NEW p \in Pid, ~ InDoFork(p), point[p] # "child",
         point'[p] # "child", offspring' = offspring, \A q \in Pid \ {p} : point'[q] = point[q] /\ at'[q] = at[q],
         NEW k \in Fork!Kinds, \A q \in Pid \ {p} : obj'[k][q] = obj[k][q]
  PROVE  Ref(k)[p] = obj[k][p] /\ Ref(k)'[p] = obj'[k][p] /\ \A q \in Pid \ {p} : Ref(k)'[q] = Ref(k)[q]
<1>1. ASSUME NEW q \in Pid \ {p} PROVE Ref(k)'[q] = Ref(k)[q]
  <2>1. \A r \in Pid : offspring'[r] = q <=> offspring[r] = q
    OBVIOUS
  <2>2. \A r \in Pid : offspring[r] = q => point'[r] = point[r] /\ at'[r] = at[r]
    <3>1. offspring[p] = None /\ q # None
      BY DEF ForkFit, Fork!ForkResourcesAssumption
    <3> QED BY <3>1
  <2> QED BY <2>1, <2>2, RefKept
<1> QED BY <1>1, RefOf, RefOfNext

LEMMA NotForkingExact ==
  ASSUME Fork!ForkResourcesAssumption, ForkTyped, ForkFit, ForkTyped', ForkFit', NEW p \in Pid,
         Fork!do_exit(p) \/ Fork!release_task(p) \/ Fork!reparent_to_init(p), NEW k \in Fork!Kinds, ObjExact(k)
  PROVE  ObjExact(k)'
<1>1. /\ ~ InDoFork(p) /\ point[p] # "child" /\ point'[p] # "child" /\ offspring' = offspring /\ obj' = obj /\ count' = count
      /\ \A q \in Pid \ {p} : point'[q] = point[q] /\ at'[q] = at[q]
  BY DEF Fork!do_exit, Fork!release_task, Fork!reparent_to_init, InDoFork, ForkTyped
<1>2. \A q \in Pid \ {p} : obj'[k][q] = obj[k][q]
  BY <1>1
<1>3. Ref(k)[p] = obj[k][p] /\ Ref(k)'[p] = obj'[k][p] /\ \A q \in Pid \ {p} : Ref(k)'[q] = Ref(k)[q]
  BY <1>1, <1>2, AloneRefs
<1>4. \A q \in Pid : Ref(k)'[q] = Ref(k)[q]
  BY <1>1, <1>3
<1> QED BY <1>1, <1>4, CountKept

LEMMA ExitFacts ==
  ASSUME Fork!ForkResourcesAssumption, ForkTyped, ForkFit, NEW p \in Pid, Fork!ExitStep(p), NEW k, k = Fork!Order[at[p]]
  PROVE  /\ k \in Fork!Kinds /\ ~ InDoFork(p) /\ point[p] # "child" /\ point'[p] # "child" /\ offspring' = offspring
         /\ obj[k][p] \in Obj \cup {None} /\ count' = Fork!Put(count, k, obj[k][p])
         /\ obj'[k][p] = None /\ \A i \in Fork!Kinds, q \in Pid : i # k \/ q # p => obj'[i][q] = obj[i][q]
         /\ \A q \in Pid \ {p} : point'[q] = point[q] /\ at'[q] = at[q]
<1>1. at[p] \in 1 .. 3 /\ point[p] = "exit"
  BY DEF Fork!ExitStep, ForkTyped, ForkFit
<1>2. k \in Fork!Kinds
  BY <1>1, OrderFacts
<1>3. count' = Fork!Put(count, k, obj[k][p]) /\ obj' = [obj EXCEPT ![k][p] = None] /\ offspring' = offspring
  BY DEF Fork!ExitStep
<1>4. point'[p] # "child" /\ \A q \in Pid \ {p} : point'[q] = point[q] /\ at'[q] = at[q]
  BY <1>1 DEF Fork!ExitStep, ForkTyped
<1>5. obj[k][p] \in Obj \cup {None}
  BY <1>2 DEF ForkTyped
<1>6. obj'[k][p] = None /\ \A i \in Fork!Kinds, q \in Pid : i # k \/ q # p => obj'[i][q] = obj[i][q]
  BY <1>2, <1>3 DEF ForkTyped
<1>7. ~ InDoFork(p)
  BY <1>1 DEF InDoFork
<1> QED BY <1>1, <1>2, <1>3, <1>4, <1>5, <1>6, <1>7

LEMMA ExitExact ==
  ASSUME Fork!ForkResourcesAssumption, ForkTyped, ForkFit, ForkTyped', ForkFit', NEW p \in Pid, Fork!ExitStep(p), NEW j \in Fork!Kinds, ObjExact(j)
  PROVE  ObjExact(j)'
<1>1. PICK k, x : k = Fork!Order[at[p]] /\ x = obj[k][p]
  OBVIOUS
<1>2. /\ k \in Fork!Kinds /\ ~ InDoFork(p) /\ point[p] # "child" /\ point'[p] # "child" /\ offspring' = offspring
      /\ x \in Obj \cup {None} /\ count' = Fork!Put(count, k, x)
      /\ obj'[k][p] = None /\ \A i \in Fork!Kinds, q \in Pid : i # k \/ q # p => obj'[i][q] = obj[i][q]
      /\ \A q \in Pid \ {p} : point'[q] = point[q] /\ at'[q] = at[q]
  BY <1>1, ExitFacts
<1>3. PICK c : c = Fork!Put(count, k, x)
  OBVIOUS
<1>4. /\ \A i \in Fork!Kinds : i # k => c[i] = count[i]
      /\ \A o \in Obj : c[k][o] = count[k][o] - One(x = o)
  BY <1>2, <1>3, PutCount
<1>5. Ref(j)[p] = obj[j][p] /\ Ref(j)'[p] = obj'[j][p] /\ \A q \in Pid \ {p} : Ref(j)'[q] = Ref(j)[q]
  <2>1. \A q \in Pid \ {p} : obj'[j][q] = obj[j][q]
    BY <1>2
  <2> QED BY <1>2, <2>1, AloneRefs
<1>6. CASE j # k
  <2>1. obj'[j][p] = obj[j][p] /\ count'[j] = count[j]
    BY <1>2, <1>3, <1>4, <1>6
  <2>2. \A q \in Pid : Ref(j)'[q] = Ref(j)[q]
    BY <1>5, <2>1
  <2> QED BY <2>1, <2>2, CountKept
<1>7. CASE j = k
  <2>1. Ref(j)[p] = x /\ Ref(j)'[p] = None
    BY <1>1, <1>2, <1>5, <1>7
  <2>2. ASSUME NEW o \in Obj
        PROVE  count'[j][o] = count[j][o] + One(Ref(j)'[p] = o) - One(Ref(j)[p] = o)
    <3>1. One(Ref(j)'[p] = o) = 0 /\ One(Ref(j)[p] = o) = One(x = o)
      BY <2>1 DEF One, Fork!ForkResourcesAssumption
    <3>2. count'[j][o] = count[j][o] - One(x = o)
      BY <1>2, <1>3, <1>4, <1>7
    <3>3. One(x = o) \in {0, 1} /\ count[j][o] \in Int
      BY DEF One, ForkTyped
    <3> QED BY <3>1, <3>2, <3>3
  <2> QED BY <1>5, <2>2, CountMoved
<1> QED BY <1>6, <1>7

\* A structure given back for another, which may be the same.
LEMMA SwapCount ==
  ASSUME Fork!ForkResourcesAssumption, ForkTyped, NEW k \in Fork!Kinds, NEW x \in Obj \cup {None}, NEW y \in Obj,
         NEW c, c = Fork!Get(Fork!Put(count, k, x), k, y)
  PROVE  /\ \A j \in Fork!Kinds : j # k => c[j] = count[j]
         /\ \A o \in Obj : c[k][o] = count[k][o] + One(y = o) - One(x = o)
<1>1. PICK d : d = Fork!Put(count, k, x)
  OBVIOUS
<1>2. /\ \A j \in Fork!Kinds : j # k => d[j] = count[j]
      /\ \A o \in Obj : d[k][o] = count[k][o] - One(x = o)
  BY <1>1, PutCount
<1>3. d \in [Fork!Kinds -> [Obj -> Int]]
  BY <1>1, PutTyped
<1>4. c = [d EXCEPT ![k][y] = @ + 1]
  BY <1>1 DEF Fork!Get
<1>5. \A j \in Fork!Kinds : j # k => c[j] = count[j]
  BY <1>2, <1>3, <1>4
<1>6. ASSUME NEW o \in Obj PROVE c[k][o] = count[k][o] + One(y = o) - One(x = o)
  <2>1. c[k][o] = d[k][o] + One(y = o)
    <3>1. CASE o = y
      BY <1>3, <1>4, <3>1 DEF One
    <3>2. CASE o # y
      BY <1>3, <1>4, <3>2 DEF One
    <3> QED BY <3>1, <3>2
  <2>2. count[k][o] \in Int /\ One(y = o) \in {0, 1} /\ One(x = o) \in {0, 1}
    BY DEF One, ForkTyped
  <2> QED BY <1>2, <2>1, <2>2
<1> QED BY <1>5, <1>6

LEMMA BecomeExact ==
  ASSUME Fork!ForkResourcesAssumption, ForkTyped, ForkFit, ForkTyped', ForkFit', NEW p \in Pid, NEW k \in Fork!Kinds, Fork!Become(p, k),
         NEW l \in {"run", "daemon"}, point[p] \in {"run", "daemon"}, point' = [point EXCEPT ![p] = l],
         NEW j \in Fork!Kinds, ObjExact(j)
  PROVE  ObjExact(j)'
<1>1. PICK x : x = obj[k][p]
  OBVIOUS
<1>2. /\ count' = Fork!Get(Fork!Put(count, k, x), k, InitObj) /\ obj' = [obj EXCEPT ![k][p] = InitObj]
      /\ offspring' = offspring /\ at' = at
  BY <1>1 DEF Fork!Become, Fork!NowInit
<1>3. InitObj \in Obj
  BY DEF Fork!ForkResourcesAssumption
<1>4. /\ x \in Obj \cup {None} /\ obj'[k][p] = InitObj
      /\ \A i \in Fork!Kinds, q \in Pid : i # k \/ q # p => obj'[i][q] = obj[i][q]
  BY <1>1, <1>2, <1>3 DEF ForkTyped
<1>5. /\ ~ InDoFork(p) /\ point[p] # "child" /\ point'[p] # "child"
      /\ \A q \in Pid \ {p} : point'[q] = point[q] /\ at'[q] = at[q]
  BY <1>2 DEF InDoFork, ForkTyped
<1>6. Ref(j)[p] = obj[j][p] /\ Ref(j)'[p] = obj'[j][p] /\ \A q \in Pid \ {p} : Ref(j)'[q] = Ref(j)[q]
  <2>1. \A q \in Pid \ {p} : obj'[j][q] = obj[j][q]
    BY <1>4
  <2> QED BY <1>2, <1>5, <2>1, AloneRefs
<1>7. PICK c : c = Fork!Get(Fork!Put(count, k, x), k, InitObj)
  OBVIOUS
<1>8. /\ \A i \in Fork!Kinds : i # k => c[i] = count[i]
      /\ \A o \in Obj : c[k][o] = count[k][o] + One(InitObj = o) - One(x = o)
  BY <1>3, <1>4, <1>7, SwapCount
<1>9. CASE j # k
  <2>1. obj'[j][p] = obj[j][p] /\ count'[j] = count[j]
    BY <1>2, <1>4, <1>7, <1>8, <1>9
  <2>2. \A q \in Pid : Ref(j)'[q] = Ref(j)[q]
    BY <1>6, <2>1
  <2> QED BY <2>1, <2>2, CountKept
<1>10. CASE j = k
  <2>1. Ref(j)[p] = x /\ Ref(j)'[p] = InitObj
    BY <1>1, <1>4, <1>6, <1>10
  <2>2. \A o \in Obj : count'[j][o] = count[j][o] + One(Ref(j)'[p] = o) - One(Ref(j)[p] = o)
    BY <1>2, <1>7, <1>8, <1>10, <2>1
  <2> QED BY <1>6, <2>2, CountMoved
<1> QED BY <1>9, <1>10

LEMMA daemonizeExact ==
  ASSUME Fork!ForkResourcesAssumption, ForkTyped, ForkFit, ForkTyped', ForkFit', NEW p \in Pid, Fork!daemonize(p), NEW k \in Fork!Kinds, ObjExact(k)
  PROVE  ObjExact(k)'
<1>1. PICK i \in Fork!Kinds, l \in {"run", "daemon"} :
        Fork!Become(p, i) /\ point[p] \in {"run", "daemon"} /\ point' = [point EXCEPT ![p] = l]
  BY DEF Fork!daemonize, Fork!Kinds
<1> QED BY <1>1, BecomeExact

-----------------------------------------------------------------------------
(* The counts of tasks.                                                    *)

LEMMA ListedMoved ==
  ASSUME Fork!ForkResourcesAssumption, Threads, NEW a \in Pid,
         \A q \in Pid \ {a} : point'[q] \in {"free", "child"} <=> point[q] \in {"free", "child"},
         nr_threads' = nr_threads + One(point'[a] \notin {"free", "child"}) - One(point[a] \notin {"free", "child"})
  PROVE  Threads'
<1>1. PICK f, g : f = Listed /\ g = Listed'
  OBVIOUS
<1>2. \A q \in Pid \ {a} : g[q] = f[q]
  BY <1>1 DEF Listed
<1>3. /\ Cardinality(PidsAt(g, "yes")) = Cardinality(PidsAt(f, "yes")) + One(g[a] = "yes") - One(f[a] = "yes")
      /\ Cardinality(PidsAt(f, "yes")) \in Nat
  <2>1. Fork!ForkResourcesAssumption
    OBVIOUS
  <2> QED BY ONLY <1>2, <2>1, a \in Pid, PidsAtChanged
<1>4. PICK x, y : x = Cardinality(PidsAt(f, "yes")) /\ y = Cardinality(PidsAt(g, "yes"))
  OBVIOUS
<1>5. (g[a] = "yes" <=> point'[a] \notin {"free", "child"}) /\ (f[a] = "yes" <=> point[a] \notin {"free", "child"})
  BY <1>1 DEF Listed
<1>6. One(g[a] = "yes") = One(point'[a] \notin {"free", "child"}) /\ One(f[a] = "yes") = One(point[a] \notin {"free", "child"})
  BY <1>5 DEF One
<1>7. nr_threads = x /\ (Threads' <=> nr_threads' = y)
  BY <1>1, <1>4 DEF Threads
<1>8. \A v : One(v) \in {0, 1}
  BY DEF One
<1>9. y = x + One(point'[a] \notin {"free", "child"}) - One(point[a] \notin {"free", "child"}) /\ x \in Nat
  BY <1>3, <1>4, <1>6
<1> QED BY <1>7, <1>8, <1>9

LEMMA ListedKept ==
  ASSUME Fork!ForkResourcesAssumption, Threads, nr_threads' = nr_threads,
         \A q \in Pid : point'[q] \in {"free", "child"} <=> point[q] \in {"free", "child"}
  PROVE  Threads'
<1>1. Listed' = Listed
  BY DEF Listed
<1> QED BY <1>1 DEF Threads

LEMMA OwnedMoved ==
  ASSUME Fork!ForkResourcesAssumption, ForkTyped, PerUser, NEW a \in Pid,
         \A q \in Pid \ {a} : Owner'[q] = Owner[q],
         \A u \in Fork!Users : processes'[u] = processes[u] + One(Owner'[a] = u) - One(Owner[a] = u)
  PROVE  PerUser'
<1> SUFFICES ASSUME NEW u \in Fork!Users PROVE processes'[u] = Cardinality(PidsAt(Owner', u))
  BY DEF PerUser
<1>1. PICK f, g : f = Owner /\ g = Owner'
  OBVIOUS
<1>2. \A q \in Pid \ {a} : g[q] = f[q]
  BY <1>1
<1>3. /\ Cardinality(PidsAt(g, u)) = Cardinality(PidsAt(f, u)) + One(g[a] = u) - One(f[a] = u)
      /\ Cardinality(PidsAt(f, u)) \in Nat
  <2>1. Fork!ForkResourcesAssumption
    OBVIOUS
  <2> QED BY ONLY <1>2, <2>1, a \in Pid, PidsAtChanged
<1>4. processes[u] = Cardinality(PidsAt(f, u)) /\ processes'[u] = processes[u] + One(g[a] = u) - One(f[a] = u)
  BY <1>1 DEF PerUser
<1>5. PICK x, y : x = Cardinality(PidsAt(f, u)) /\ y = Cardinality(PidsAt(g, u))
  OBVIOUS
<1>6. \A v : One(v) \in {0, 1}
  BY DEF One
<1>7. processes'[u] = y
  BY <1>3, <1>4, <1>5, <1>6
<1> QED BY <1>1, <1>5, <1>7

LEMMA OwnedKept ==
  ASSUME PerUser, processes' = processes, user' = user, \A q \in Pid : point'[q] = "free" <=> point[q] = "free"
  PROVE  PerUser'
<1>1. Owner' = Owner
  BY DEF Owner
<1> QED BY <1>1 DEF PerUser

\* nr_threads changes where a task enters the list and where it leaves it.
LEMMA ThreadsStep ==
  ASSUME Fork!ForkResourcesAssumption, ForkTyped, ForkFit, Threads, NEW p \in Pid,
         \/ \E c \in Pid, S \in Flags : Fork!ForkStart(p, c, S)
         \/ Fork!CopyStep(p) \/ Fork!CopyFails(p) \/ Fork!UnwindStep(p) \/ Fork!ForkFailed(p) \/ Fork!ForkDone(p)
         \/ Fork!do_exit(p) \/ Fork!ExitStep(p) \/ Fork!release_task(p)
         \/ Fork!daemonize(p) \/ Fork!reparent_to_init(p)
  PROVE  Threads'
<1>1. ASSUME NEW c \in Pid, NEW S \in Flags, Fork!ForkStart(p, c, S) PROVE Threads'
  <2>1. nr_threads' = nr_threads /\ point' = [point EXCEPT ![p] = "copy", ![c] = "child"] /\ point[p] = "run" /\ point[c] = "free"
    BY <1>1 DEF Fork!ForkStart
  <2>2. \A q \in Pid : point'[q] \in {"free", "child"} <=> point[q] \in {"free", "child"}
    BY <2>1 DEF ForkTyped
  <2> QED BY <2>1, <2>2, ListedKept
<1>2. CASE Fork!CopyStep(p) \/ Fork!UnwindStep(p) \/ Fork!reparent_to_init(p)
  <2>1. nr_threads' = nr_threads /\ point' = point
    BY <1>2 DEF Fork!CopyStep, Fork!UnwindStep, Fork!reparent_to_init
  <2> QED BY <2>1, ListedKept
<1>3. CASE Fork!CopyFails(p) \/ Fork!do_exit(p) \/ Fork!ExitStep(p) \/ Fork!daemonize(p)
  <2>1. /\ nr_threads' = nr_threads /\ point[p] \in {"copy", "run", "exit", "daemon"}
        /\ point' = point \/ \E l \in {"unwind", "exit", "zombie", "daemon", "run"} : point' = [point EXCEPT ![p] = l]
    BY <1>3 DEF Fork!CopyFails, Fork!do_exit, Fork!ExitStep, Fork!daemonize, Fork!Become
  <2>2. \A q \in Pid : point'[q] \in {"free", "child"} <=> point[q] \in {"free", "child"}
    BY <2>1 DEF ForkTyped
  <2> QED BY <2>1, <2>2, ListedKept
<1>4. CASE Fork!ForkFailed(p)
  <2>1. /\ point[p] = "unwind" /\ offspring[p] \in Pid /\ offspring[p] # p /\ point[offspring[p]] = "child"
        /\ point' = [point EXCEPT ![p] = "run", ![offspring[p]] = "free"] /\ nr_threads' = nr_threads
    BY <1>4 DEF Fork!ForkFailed, ForkFit, InDoFork, ForkTyped
  <2>2. \A q \in Pid : point'[q] \in {"free", "child"} <=> point[q] \in {"free", "child"}
    BY <2>1 DEF ForkTyped
  <2> QED BY <2>1, <2>2, ListedKept
<1>5. CASE Fork!ForkDone(p)
  <2>1. /\ point[p] = "copy" /\ offspring[p] \in Pid /\ offspring[p] # p /\ point[offspring[p]] = "child"
        /\ point' = [point EXCEPT ![p] = "run", ![offspring[p]] = "run"] /\ nr_threads' = nr_threads + 1 /\ nr_threads \in Int
    BY <1>5 DEF Fork!ForkDone, ForkFit, InDoFork, ForkTyped
  <2>2. \A q \in Pid \ {offspring[p]} : point'[q] \in {"free", "child"} <=> point[q] \in {"free", "child"}
    BY <2>1 DEF ForkTyped
  <2>3. One(point'[offspring[p]] \notin {"free", "child"}) = 1 /\ One(point[offspring[p]] \notin {"free", "child"}) = 0
    BY <2>1 DEF ForkTyped, One
  <2>4. nr_threads' = nr_threads + One(point'[offspring[p]] \notin {"free", "child"}) - One(point[offspring[p]] \notin {"free", "child"})
    BY <2>1, <2>3
  <2> QED BY <2>1, <2>2, <2>4, ListedMoved
<1>6. CASE Fork!release_task(p)
  <2>1. point[p] = "zombie" /\ point' = [point EXCEPT ![p] = "free"] /\ nr_threads' = nr_threads - 1 /\ nr_threads \in Int
    BY <1>6 DEF Fork!release_task, ForkTyped
  <2>2. \A q \in Pid \ {p} : point'[q] \in {"free", "child"} <=> point[q] \in {"free", "child"}
    BY <2>1 DEF ForkTyped
  <2>3. One(point'[p] \notin {"free", "child"}) = 0 /\ One(point[p] \notin {"free", "child"}) = 1
    BY <2>1 DEF ForkTyped, One
  <2>4. nr_threads' = nr_threads + One(point'[p] \notin {"free", "child"}) - One(point[p] \notin {"free", "child"})
    BY <2>1, <2>3
  <2> QED BY <2>2, <2>4, ListedMoved
<1> QED BY <1>1, <1>2, <1>3, <1>4, <1>5, <1>6

\* user->processes follows the task_structs, as long as none changes its user.
LEMMA PerUserStep ==
  ASSUME Fork!ForkResourcesAssumption, ForkTyped, ForkFit, PerUser, ~ Daemons, NEW p \in Pid,
         \/ \E c \in Pid, S \in Flags : Fork!ForkStart(p, c, S)
         \/ Fork!CopyStep(p) \/ Fork!CopyFails(p) \/ Fork!UnwindStep(p) \/ Fork!ForkFailed(p) \/ Fork!ForkDone(p)
         \/ Fork!do_exit(p) \/ Fork!ExitStep(p) \/ Fork!release_task(p)
         \/ Fork!daemonize(p) \/ Fork!reparent_to_init(p)
  PROVE  PerUser'
<1>a. \A u : u \in Fork!Users => u # "none"
  BY DEF Fork!Users
<1>b. \A q \in Pid : user[q] \in Fork!Users /\ \A u \in Fork!Users : processes[u] \in Int
  BY DEF ForkTyped
<1>1. ASSUME NEW c \in Pid, NEW S \in Flags, Fork!ForkStart(p, c, S) PROVE PerUser'
  <2>1. /\ point' = [point EXCEPT ![p] = "copy", ![c] = "child"] /\ point[p] = "run" /\ point[c] = "free"
        /\ user' = [user EXCEPT ![c] = user[p]] /\ processes' = [processes EXCEPT ![user[p]] = @ + 1]
    BY <1>1 DEF Fork!ForkStart
  <2>2. \A q \in Pid \ {c} : Owner'[q] = Owner[q]
    BY <2>1 DEF ForkTyped, Owner
  <2>3. Owner[c] = "none" /\ Owner'[c] = user[p]
    BY <2>1 DEF ForkTyped, Owner
  <2>4. ASSUME NEW u \in Fork!Users PROVE processes'[u] = processes[u] + One(Owner'[c] = u) - One(Owner[c] = u)
    <3>1. processes'[u] = processes[u] + One(user[p] = u)
      BY <1>b, <2>1 DEF ForkTyped, One
    <3>2. One(Owner[c] = u) = 0 /\ One(user[p] = u) \in {0, 1}
      BY <1>a, <2>3 DEF One
    <3> QED BY <1>b, <2>3, <3>1, <3>2
  <2> QED BY <2>2, <2>4, OwnedMoved
<1>2. CASE Fork!CopyStep(p) \/ Fork!UnwindStep(p)
  <2>1. processes' = processes /\ point' = point /\ user' = user
    BY <1>2 DEF Fork!CopyStep, Fork!UnwindStep
  <2> QED BY <2>1, OwnedKept
<1>3. CASE Fork!CopyFails(p) \/ Fork!do_exit(p) \/ Fork!ExitStep(p) \/ Fork!daemonize(p) \/ Fork!reparent_to_init(p)
  <2>1. /\ processes' = processes /\ user' = user /\ point[p] \in {"copy", "run", "exit", "daemon"}
        /\ point' = point \/ \E l \in {"unwind", "exit", "zombie", "daemon", "run"} : point' = [point EXCEPT ![p] = l]
    BY <1>3 DEF Fork!CopyFails, Fork!do_exit, Fork!ExitStep, Fork!daemonize, Fork!Become, Fork!reparent_to_init
  <2>2. \A q \in Pid : point'[q] = "free" <=> point[q] = "free"
    BY <2>1 DEF ForkTyped
  <2> QED BY <2>1, <2>2, OwnedKept
<1>4. CASE Fork!ForkFailed(p)
  <2>1. /\ point[p] = "unwind" /\ offspring[p] \in Pid /\ offspring[p] # p /\ point[offspring[p]] = "child"
        /\ point' = [point EXCEPT ![p] = "run", ![offspring[p]] = "free"]
        /\ user' = user /\ processes' = [processes EXCEPT ![user[offspring[p]]] = @ - 1]
    BY <1>4 DEF Fork!ForkFailed, ForkFit, InDoFork, ForkTyped
  <2>2. \A q \in Pid \ {offspring[p]} : Owner'[q] = Owner[q]
    BY <2>1 DEF ForkTyped, Owner
  <2>3. Owner[offspring[p]] = user[offspring[p]] /\ Owner'[offspring[p]] = "none"
    BY <2>1 DEF ForkTyped, Owner
  <2>4. ASSUME NEW u \in Fork!Users PROVE processes'[u] = processes[u] + One(Owner'[offspring[p]] = u) - One(Owner[offspring[p]] = u)
    <3>1. processes'[u] = processes[u] - One(user[offspring[p]] = u)
      BY <1>b, <2>1 DEF ForkTyped, One
    <3>2. One(Owner'[offspring[p]] = u) = 0 /\ One(user[offspring[p]] = u) \in {0, 1}
      BY <1>a, <2>3 DEF One
    <3> QED BY <1>b, <2>3, <3>1, <3>2
  <2> QED BY <2>1, <2>2, <2>4, OwnedMoved
<1>5. CASE Fork!ForkDone(p)
  <2>1. /\ point[p] = "copy" /\ offspring[p] \in Pid /\ offspring[p] # p /\ point[offspring[p]] = "child"
        /\ point' = [point EXCEPT ![p] = "run", ![offspring[p]] = "run"] /\ user' = user /\ processes' = processes
    BY <1>5 DEF Fork!ForkDone, ForkFit, InDoFork, ForkTyped
  <2>2. \A q \in Pid : point'[q] = "free" <=> point[q] = "free"
    BY <2>1 DEF ForkTyped
  <2> QED BY <2>1, <2>2, OwnedKept
<1>6. CASE Fork!release_task(p)
  <2>1. /\ point[p] = "zombie" /\ point' = [point EXCEPT ![p] = "free"]
        /\ user' = user /\ processes' = [processes EXCEPT ![user[p]] = @ - 1]
    BY <1>6 DEF Fork!release_task
  <2>2. \A q \in Pid \ {p} : Owner'[q] = Owner[q]
    BY <2>1 DEF ForkTyped, Owner
  <2>3. Owner[p] = user[p] /\ Owner'[p] = "none"
    BY <2>1 DEF ForkTyped, Owner
  <2>4. ASSUME NEW u \in Fork!Users PROVE processes'[u] = processes[u] + One(Owner'[p] = u) - One(Owner[p] = u)
    <3>1. processes'[u] = processes[u] - One(user[p] = u)
      BY <1>b, <2>1 DEF ForkTyped, One
    <3>2. One(Owner'[p] = u) = 0 /\ One(user[p] = u) \in {0, 1}
      BY <1>a, <2>3 DEF One
    <3> QED BY <1>b, <2>3, <3>1, <3>2
  <2> QED BY <2>2, <2>4, OwnedMoved
<1> QED BY <1>1, <1>2, <1>3, <1>4, <1>5, <1>6

-----------------------------------------------------------------------------
(* The initial state, and the theorems.                                    *)

LEMMA InitCounted ==
  ASSUME Fork!ForkResourcesAssumption, Fork!Init, NEW k \in Fork!Kinds
  PROVE  ObjExact(k)
<1>1. InitTask \in Pid /\ UserTask \in Pid /\ InitTask # UserTask /\ InitObj # UserObj
      /\ None # InitObj /\ None # UserObj /\ None \notin Obj
  BY DEF Fork!ForkResourcesAssumption
<1>2. \A p \in Pid : Ref(k)[p] = IF p = InitTask THEN InitObj ELSE IF p = UserTask THEN UserObj ELSE None
  BY DEF Fork!Init, Ref, Fork!Holds
<1>3. \A o \in Obj : count[k][o] = IF o = InitObj THEN 2 ELSE IF o = UserObj THEN 1 ELSE 0
  BY DEF Fork!Init
<1>4. ASSUME NEW o \in Obj PROVE count[k][o] = Cardinality(PidsAt(Ref(k), o)) + One(o = InitObj)
  <2>1. CASE o = InitObj
    <3>1. PidsAt(Ref(k), o) = {InitTask}
      BY <1>1, <1>2, <2>1 DEF PidsAt
    <3>2. Cardinality(PidsAt(Ref(k), o)) = 1
      BY <3>1, FS_Singleton
    <3> QED BY <1>3, <2>1, <3>2 DEF One
  <2>2. CASE o = UserObj
    <3>1. PidsAt(Ref(k), o) = {UserTask}
      BY <1>1, <1>2, <2>2 DEF PidsAt
    <3>2. Cardinality(PidsAt(Ref(k), o)) = 1
      BY <3>1, FS_Singleton
    <3> QED BY <1>1, <1>3, <2>2, <3>2 DEF One
  <2>3. CASE o \notin {InitObj, UserObj}
    <3>1. PidsAt(Ref(k), o) = {}
      BY <1>1, <1>2, <2>3 DEF PidsAt
    <3>2. Cardinality(PidsAt(Ref(k), o)) = 0
      BY <3>1, FS_EmptySet
    <3> QED BY <1>3, <2>3, <3>2 DEF One
  <2> QED BY <2>1, <2>2, <2>3
<1> QED BY <1>4 DEF ObjExact

LEMMA InitSound ==
  ASSUME Fork!ForkResourcesAssumption, Fork!Init
  PROVE  ResInv
<1>1. InitTask \in Pid /\ UserTask \in Pid /\ InitTask # UserTask /\ InitObj \in Obj /\ UserObj \in Obj
      /\ InitObj # None /\ UserObj # None
  BY DEF Fork!ForkResourcesAssumption
<1>2. ForkTyped
  BY <1>1 DEF Fork!Init, ForkTyped, Fork!Users
<1>3. ForkFit /\ HasAll
  BY <1>1 DEF Fork!Init, ForkFit, HasAll, InDoFork
<1>4. ObjCounted
  BY InitCounted DEF ObjCounted
<1>5. Threads
  <2>1. PidsAt(Listed, "yes") = {InitTask} \cup {UserTask}
    BY <1>1 DEF Fork!Init, PidsAt, Listed
  <2>2. IsFiniteSet({InitTask}) /\ Cardinality({InitTask}) = 1
    BY FS_Singleton
  <2>3. Cardinality({InitTask} \cup {UserTask}) = 1 + 1
    BY <1>1, <2>2, FS_AddElement
  <2>4. nr_threads = 2
    BY DEF Fork!Init
  <2> QED BY ONLY <2>1, <2>3, <2>4 DEF Threads
<1>6. PerUser
  <2>1. PidsAt(Owner, "root") = {InitTask} /\ PidsAt(Owner, "user") = {UserTask}
    BY <1>1 DEF Fork!Init, PidsAt, Owner
  <2>2. Cardinality(PidsAt(Owner, "root")) = 1 /\ Cardinality(PidsAt(Owner, "user")) = 1
    BY <2>1, FS_Singleton
  <2> QED BY <2>2 DEF Fork!Init, PerUser, Fork!Users
<1> QED BY <1>2, <1>3, <1>4, <1>5, <1>6 DEF ResInv

LEMMA StepSound ==
  ASSUME Fork!ForkResourcesAssumption, ResInv, [Fork!Next]_(Fork!vars)
  PROVE  ResInv'
<1>1. CASE UNCHANGED Fork!vars
  <2>1. UNCHANGED <<obj, count, user, processes, nr_threads, point, at, offspring, shares>>
    BY <1>1 DEF Fork!vars
  <2>2. ForkTyped' /\ ForkFit' /\ HasAll'
    BY <2>1 DEF ResInv, ForkTyped, ForkFit, HasAll, InDoFork
  <2>3. \A k : Ref(k)' = Ref(k)
    BY <2>1 DEF Ref, Fork!Holds, Fork!Made
  <2>4. ObjCounted'
    BY <2>1, <2>3 DEF ResInv, ObjCounted, ObjExact
  <2>5. Threads' /\ (~ Daemons => PerUser')
    BY <2>1 DEF ResInv, Threads, Listed, PerUser, Owner
  <2> QED BY <2>2, <2>4, <2>5 DEF ResInv
<1>2. CASE Fork!Next
  <2>1. PICK p \in Pid :
          \/ \E c \in Pid, S \in Flags : Fork!ForkStart(p, c, S)
          \/ Fork!CopyStep(p) \/ Fork!CopyFails(p) \/ Fork!UnwindStep(p) \/ Fork!ForkFailed(p) \/ Fork!ForkDone(p)
          \/ Fork!do_exit(p) \/ Fork!ExitStep(p) \/ Fork!release_task(p)
          \/ Fork!daemonize(p) \/ Fork!reparent_to_init(p)
    BY <1>2 DEF Fork!Next
  <2>2. ForkTyped /\ ForkFit /\ HasAll
    BY DEF ResInv
  <2>3. ForkTyped' /\ ForkFit' /\ HasAll'
    BY <2>1, <2>2, StartSound, CopySound, CopyFailsSound, UnwindSound, FailedSound, DoneSound, do_exitSound,
       ExitSound, release_taskSound, daemonizeSound
  <2>4. ASSUME NEW k \in Fork!Kinds PROVE ObjExact(k)'
    <3>1. ObjExact(k)
      BY DEF ResInv, ObjCounted
    <3> QED BY <2>1, <2>2, <2>3, <3>1, StartExact, CopyExact, CopyFailsExact, UnwindExact, EndExact, ExitExact,
               NotForkingExact, daemonizeExact
  <2>5. ObjCounted'
    BY <2>4 DEF ObjCounted
  <2>6. Threads'
    BY <2>1, ThreadsStep DEF ResInv
  <2>7. ~ Daemons => PerUser'
    BY <2>1, PerUserStep DEF ResInv
  <2> QED BY <2>3, <2>5, <2>6, <2>7 DEF ResInv
<1> QED BY <1>1, <1>2

LEMMA ResInductive ==
  ASSUME Fork!ForkResourcesAssumption
  PROVE  Fork!Spec => []ResInv
<1>1. Fork!Init => ResInv
  BY InitSound
<1>2. ResInv /\ [Fork!Next]_(Fork!vars) => ResInv'
  BY StepSound
<1> QED BY <1>1, <1>2, PTL DEF Fork!Spec

LEMMA CountsFromRefs ==
  ASSUME Fork!ForkResourcesAssumption, ObjCounted
  PROVE  Fork!CountsExact
<1>1. ASSUME NEW k \in Fork!Kinds, NEW o \in Obj
      PROVE  count[k][o] = Cardinality({p \in Fork!Holds(k) : obj[k][p] = o}) + (IF o = InitObj THEN 1 ELSE 0)
  <2>1. {p \in Fork!Holds(k) : obj[k][p] = o} = PidsAt(Ref(k), o)
    BY DEF PidsAt, Ref, Fork!Holds, Fork!ForkResourcesAssumption
  <2> QED BY <2>1 DEF ObjCounted, ObjExact, One
<1> QED BY <1>1, SameCount DEF Fork!CountsExact

\* Every files, fs and signal structure is counted once for each task that has it, and
\* once for the kernel if it is init_task's, whichever allocation of do_fork fails and
\* whatever the other tasks do while it sleeps (copy_files, copy_fs, copy_sighand, the
\* bad_fork labels of do_fork, do_exit, daemonize).
THEOREM ForkCountsExact ==
  ASSUME Fork!ForkResourcesAssumption
  PROVE  Fork!Spec => []Fork!CountsExact
<1>1. ResInv => Fork!CountsExact
  BY CountsFromRefs DEF ResInv
<1> QED BY <1>1, ResInductive, PTL

\* nr_threads is the number of tasks in the task list, zombies included, at every step
\* of do_fork, do_exit and release_task.
THEOREM ForkThreadsCounted ==
  ASSUME Fork!ForkResourcesAssumption
  PROVE  Fork!Spec => []Fork!ThreadsCounted
<1>1. ResInv => Fork!ThreadsCounted
  <2>1. PidsAt(Listed, "yes") = {p \in Pid : point[p] \notin {"free", "child"}}
    BY DEF PidsAt, Listed
  <2> QED BY <2>1, SameCount DEF ResInv, Threads, Fork!ThreadsCounted
<1> QED BY <1>1, ResInductive, PTL

\* user->processes is the number of task_structs of the user, the one do_fork is filling
\* and the zombies included, where no task becomes a kernel thread: reparent_to_init
\* changes the user of a task and no count.
THEOREM ForkProcessesExact ==
  ASSUME Fork!ForkResourcesAssumption, ~ Daemons
  PROVE  Fork!Spec => []Fork!ProcessesExact
<1>1. ResInv => Fork!ProcessesExact
  <2>1. ASSUME NEW u \in Fork!Users PROVE PidsAt(Owner, u) = {p \in Pid : point[p] # "free" /\ user[p] = u}
    <3>1. u # "none"
      BY DEF Fork!Users
    <3> QED BY <3>1 DEF PidsAt, Owner
  <2> QED BY <2>1, SameCount DEF ResInv, PerUser, Fork!ProcessesExact
<1> QED BY <1>1, ResInductive, PTL

\* No count goes below 0 (put_files_struct, __put_fs_struct, exit_sighand, free_uid's
\* processes, nr_threads), and a task is always at a step of the code there is.
THEOREM ForkTypeOK ==
  ASSUME Fork!ForkResourcesAssumption, ~ Daemons
  PROVE  Fork!Spec => []Fork!TypeOK
<1>1. ResInv => Fork!TypeOK
  <2> SUFFICES ASSUME ResInv PROVE Fork!TypeOK
    OBVIOUS
  <2>1. ForkTyped /\ ObjCounted /\ Threads /\ PerUser
    BY DEF ResInv
  <2>2. \A f, m : Cardinality(PidsAt(f, m)) \in Nat
    BY PidsFinite DEF PidsAt
  <2>3. \A k \in Fork!Kinds, o \in Obj : count[k][o] \in Nat
    <3>1. \A v : One(v) \in Nat
      BY DEF One
    <3> QED BY <2>1, <2>2, <3>1 DEF ObjCounted, ObjExact
  <2>4. nr_threads \in Nat /\ \A u \in Fork!Users : processes[u] \in Nat
    BY <2>1, <2>2 DEF Threads, PerUser
  <2>5. count \in [Fork!Kinds -> [Obj -> Nat]]
    <3>1. \A k \in Fork!Kinds : count[k] \in [Obj -> Nat]
      BY <2>1, <2>3 DEF ForkTyped
    <3> QED BY <2>1, <3>1 DEF ForkTyped
  <2>6. processes \in [Fork!Users -> Nat]
    BY <2>1, <2>4 DEF ForkTyped
  <2> QED BY <2>1, <2>4, <2>5, <2>6, OrderFacts DEF ForkTyped, Fork!TypeOK
<1> QED BY <1>1, ResInductive, PTL

\* A user other than root never has more task_structs than RLIMIT_NPROC lets it: do_fork
\* counts the child where it looks at the limit, before it sleeps.  The user's first
\* task is not forked, so the limit is at least 1.
THEOREM ForkLimitKept ==
  ASSUME Fork!ForkResourcesAssumption, NPROC >= 1
  PROVE  Fork!Spec => []Fork!LimitKept
<1>1. Fork!Init => Fork!LimitKept
  BY DEF Fork!Init, Fork!LimitKept, Fork!Users
<1>2. ASSUME ResInv, Fork!LimitKept, [Fork!Next]_(Fork!vars) PROVE Fork!LimitKept'
  <2>1. ForkTyped /\ ForkFit /\ NPROC \in Nat /\ processes["user"] \in Int /\ processes["user"] <= NPROC
    BY <1>2 DEF ResInv, ForkTyped, Fork!Users, Fork!LimitKept, Fork!ForkResourcesAssumption
  <2>2. CASE processes' = processes
    BY <2>1, <2>2 DEF Fork!LimitKept
  <2>3. CASE \E u \in Fork!Users : processes' = [processes EXCEPT ![u] = @ - 1]
    BY <2>1, <2>3 DEF Fork!LimitKept, ForkTyped
  <2>4. ASSUME NEW p \in Pid, NEW c \in Pid, NEW S \in Flags, Fork!ForkStart(p, c, S) PROVE Fork!LimitKept'
    <3>1. /\ processes' = [processes EXCEPT ![user[p]] = @ + 1] /\ user[p] \in Fork!Users
          /\ user[p] = "user" => processes["user"] < NPROC
      BY <2>1, <2>4 DEF Fork!ForkStart, Fork!OverLimit, ForkTyped, Fork!Users
    <3> QED BY <2>1, <3>1 DEF Fork!LimitKept, ForkTyped
  <2>5. UNCHANGED Fork!vars => processes' = processes
    BY DEF Fork!vars
  <2>6. CASE Fork!Next
    <3>1. PICK p \in Pid :
            \/ \E c \in Pid, S \in Flags : Fork!ForkStart(p, c, S)
            \/ Fork!CopyStep(p) \/ Fork!CopyFails(p) \/ Fork!UnwindStep(p) \/ Fork!ForkFailed(p) \/ Fork!ForkDone(p)
            \/ Fork!do_exit(p) \/ Fork!ExitStep(p) \/ Fork!release_task(p)
            \/ Fork!daemonize(p) \/ Fork!reparent_to_init(p)
      BY <2>6 DEF Fork!Next
    <3>2. CASE Fork!ForkFailed(p) \/ Fork!release_task(p)
      <4>1. offspring[p] \in Pid \/ Fork!release_task(p)
        BY <2>1, <3>2 DEF Fork!ForkFailed, ForkFit, InDoFork, ForkTyped
      <4>2. \E u \in Fork!Users : processes' = [processes EXCEPT ![u] = @ - 1]
        BY <2>1, <3>2, <4>1 DEF Fork!ForkFailed, Fork!release_task, ForkTyped
      <4> QED BY <2>3, <4>2
    <3>3. CASE Fork!CopyStep(p) \/ Fork!CopyFails(p) \/ Fork!UnwindStep(p) \/ Fork!ForkDone(p) \/ Fork!do_exit(p) \/ Fork!ExitStep(p)
               \/ Fork!daemonize(p) \/ Fork!reparent_to_init(p)
      BY <2>2, <3>3 DEF Fork!CopyStep, Fork!CopyFails, Fork!UnwindStep, Fork!ForkDone, Fork!do_exit, Fork!ExitStep, Fork!daemonize, Fork!Become,
         Fork!reparent_to_init
    <3> QED BY <2>4, <3>1, <3>2, <3>3
  <2> QED BY <1>2, <2>2, <2>5, <2>6
<1> QED BY <1>1, <1>2, ResInductive, PTL DEF Fork!Spec
=============================================================================
