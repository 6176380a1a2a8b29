---------------------------- MODULE LoggerProofs ----------------------------
(***************************************************************************)
(* The ring of the switch log is right for every LogSize and Window.       *)
(***************************************************************************)
EXTENDS Logger, TLAPS

\* The increment of next_index wraps at the end of the ring and nowhere else.
LEMMA WrapAround ==
  ASSUME NEW x \in Index
  PROVE  (x + 1) % LogSize = IF x + 1 = LogSize THEN 0 ELSE x + 1
  BY LoggerAssumption DEF Index

\* The types of the log are kept by every step of hw2_start_logging, hw2_log_switch
\* and sys_get_scheduling_statistic: next_index stays inside the array, logged never
\* passes its length, and the reader never leaves the array either.
THEOREM LoggerTypeOK == Spec => []TypeOK
<1>1. Init => TypeOK
  <2> SUFFICES ASSUME Init PROVE TypeOK OBVIOUS
  <2>1. reader \in [at : {"idle", "copy", "done"}, i : Index, counter : 0 .. LogSize,
                    info : Seq(Nat), result : 0 .. LogSize, since : Nat]
    BY LoggerAssumption DEF Init, NoCall, Index
  <2> QED BY <2>1, LoggerAssumption DEF Init, TypeOK, Index
<1>2. TypeOK /\ [Next]_vars => TypeOK'
  <2> SUFFICES ASSUME TypeOK, [Next]_vars PROVE TypeOK' OBVIOUS
  <2> USE LoggerAssumption
  <2>1. CASE hw2_start_logging
    BY <2>1 DEF hw2_start_logging, TypeOK
  <2>2. CASE hw2_log_switch
    <3>1. next_index' \in Index
      BY <2>2, WrapAround DEF hw2_log_switch, NextIndex, NextLogged, TypeOK, Index
    <3>2. arr' \in [Index -> Nat] /\ total' \in Nat
      BY <2>2 DEF hw2_log_switch, NextIndex, NextLogged, TypeOK
    <3>3. logged' \in 0 .. LogSize /\ remaining_switches' \in 0 .. Window
      BY <2>2 DEF hw2_log_switch, NextIndex, NextLogged, TypeOK
    <3> QED BY <2>2, <3>1, <3>2, <3>3 DEF hw2_log_switch, NextIndex, NextLogged, TypeOK
  <2>3. CASE ReadStart
    <3>1. FirstSlot \in Index
      BY DEF FirstSlot, TypeOK, Index
    <3>2. reader' = [at |-> "copy", i |-> FirstSlot, counter |-> 0, info |-> <<>>,
                     result |-> 0, since |-> total]
      BY <2>3 DEF ReadStart, NoCall
    <3>3. total \in Nat /\ <<>> \in Seq(Nat) /\ 0 \in 0 .. LogSize
      BY DEF TypeOK
    <3>4. reader' \in [at : {"idle", "copy", "done"}, i : Index, counter : 0 .. LogSize,
                       info : Seq(Nat), result : 0 .. LogSize, since : Nat]
      BY <3>1, <3>2, <3>3
    <3> QED BY <2>3, <3>4 DEF ReadStart, logVars, TypeOK
  <2>4. CASE ReadCopy
    <3>1. (reader.i + 1) % LogSize \in Index
      BY WrapAround DEF TypeOK, Index
    <3>2. Append(reader.info, arr[reader.i]) \in Seq(Nat)
      BY DEF TypeOK
    <3>3. reader.counter + 1 \in 0 .. LogSize
      BY <2>4 DEF ReadCopy, TypeOK
    <3> QED BY <2>4, <3>1, <3>2, <3>3 DEF ReadCopy, logVars, TypeOK
  <2>5. CASE ReadFault \/ ReadDone
    <3>1. 0 \in Index
      BY DEF Index
    <3>2. reader' = [at |-> "idle", i |-> 0, counter |-> 0, info |-> <<>>, result |-> 0,
                     since |-> 0]
      BY <2>5 DEF ReadFault, ReadDone, NoCall
    <3> QED BY <2>5, <3>1, <3>2 DEF ReadFault, ReadDone, logVars, TypeOK
  <2>6. CASE ReadReturn
    BY <2>6 DEF ReadReturn, logVars, TypeOK
  <2>7. CASE UNCHANGED vars
    BY <2>7 DEF vars, logVars, TypeOK
  <2> QED BY <2>1, <2>2, <2>3, <2>4, <2>5, <2>6, <2>7 DEF Next
<1> QED BY <1>1, <1>2, PTL DEF Spec

\* However many switches hw2_log_switch has logged, the ring holds the latest
\* LogSize of them in order, and all of them before it is full.
THEOREM LoggerRing == Spec => []RingInv
<1>1. Init => RingInv
  BY LoggerAssumption DEF Init, RingInv, Index
<1>2. TypeOK /\ RingInv /\ [Next]_vars => RingInv'
  <2> SUFFICES ASSUME TypeOK, RingInv, [Next]_vars PROVE RingInv' OBVIOUS
  <2> USE LoggerAssumption
  <2>1. CASE hw2_log_switch
    <3>1. next_index' = IF next_index + 1 = LogSize THEN 0 ELSE next_index + 1
      BY <2>1, WrapAround DEF hw2_log_switch, NextIndex, NextLogged, TypeOK
    <3>2. /\ total' = total + 1
          /\ logged' = IF logged < LogSize THEN logged + 1 ELSE logged
          /\ \A j \in Index : arr'[j] = IF j = next_index THEN total + 1 ELSE arr[j]
      BY <2>1 DEF hw2_log_switch, NextIndex, NextLogged, TypeOK
    <3>3. CASE next_index + 1 = LogSize
      <4>1. next_index' = 0 /\ logged' = LogSize
        BY <3>1, <3>2, <3>3 DEF TypeOK, RingInv
      <4>2. ASSUME NEW j \in Index
            PROVE  arr'[j] = total' + j + 1 - LogSize
        <5>1. j \in Int /\ total \in Int /\ j <= next_index
          BY <3>3 DEF TypeOK, Index
        <5>2. CASE j = next_index
          BY <3>2, <3>3, <5>1, <5>2
        <5>3. CASE j # next_index
          <6>1. j < next_index /\ next_index \in Int
            BY <5>1, <5>3 DEF TypeOK, Index
          <6>2. arr[j] = total - next_index + j + 1
            BY <6>1 DEF RingInv
          <6> QED BY <3>2, <3>3, <5>1, <5>3, <6>1, <6>2
        <5> QED BY <5>2, <5>3
      <4>3. /\ \A j \in Index : ~ (j < next_index')
            /\ total' - next_index' = total'
        BY <4>1, <3>2 DEF Index, TypeOK
      <4> QED BY <4>1, <4>2, <4>3, <3>2 DEF TypeOK, RingInv, Index
    <3>4. CASE next_index + 1 # LogSize
      <4>1. next_index' = next_index + 1 /\ next_index + 1 < LogSize
        BY <3>1, <3>4 DEF TypeOK, Index
      <4>0. total \in Int /\ next_index \in Int /\ total' - next_index' = total - next_index
        BY <3>2, <4>1 DEF TypeOK, Index
      <4>2. ASSUME NEW j \in Index, j < next_index'
            PROVE  arr'[j] = total' - next_index' + j + 1
        <5>1. j \in Int /\ (j = next_index \/ j < next_index)
          BY <4>0, <4>1, <4>2 DEF Index
        <5>2. CASE j = next_index
          BY <3>2, <4>0, <5>1, <5>2
        <5>3. CASE j < next_index
          BY <3>2, <4>0, <5>1, <5>3 DEF RingInv
        <5> QED BY <5>1, <5>2, <5>3
      <4>3. ASSUME NEW j \in Index, logged' = LogSize, j >= next_index'
            PROVE  arr'[j] = total' - next_index' + j + 1 - LogSize
        <5>1. j \in Int /\ j # next_index /\ j >= next_index
          BY <4>0, <4>1, <4>3 DEF Index
        <5>2. logged = LogSize
          BY <3>2, <4>1, <4>3 DEF TypeOK, RingInv
        <5>3. arr[j] = total - next_index + j + 1 - LogSize
          BY <5>1, <5>2 DEF RingInv
        <5> QED BY <3>2, <4>0, <5>1, <5>3
      <4>4. logged' < LogSize => next_index' = logged' /\ total' = logged'
        BY <3>2, <4>1 DEF TypeOK, RingInv, Index
      <4> QED BY <4>2, <4>3, <4>4 DEF RingInv
    <3> QED BY <3>3, <3>4
  <2>2. CASE hw2_start_logging
    BY <2>2 DEF hw2_start_logging, RingInv
  <2>3. CASE UNCHANGED logVars
    BY <2>3 DEF logVars, RingInv
  <2> QED BY <2>1, <2>2, <2>3
       DEF Next, vars, ReadStart, ReadCopy, ReadFault, ReadReturn, ReadDone
<1> QED BY <1>1, <1>2, LoggerTypeOK, PTL DEF Spec

-----------------------------------------------------------------------------
(* The reader.                                                             *)

\* The slot of the n-th entry of a call that starts at slot s.
SlotFrom(s, n) == IF s + n - 1 < LogSize THEN s + n - 1 ELSE s + n - 1 - LogSize

\* A call that started at slot s.  What it has copied from a slot is in no other slot, now
\* or later, for a switch is only ever in the slot it was written to; and as long as
\* nothing was logged since its start, it has copied the oldest entries in order.
ReadFrom(s) ==
  LET info == reader.info IN
  /\ reader.at = "copy" => reader.i = SlotFrom(s, reader.counter + 1)
  /\ reader.at = "copy" /\ logged < LogSize => s = 0
  /\ \A n \in 1 .. reader.counter :
       /\ info[n] \in 1 .. total
       /\ \A j \in Index : j # SlotFrom(s, n) => arr[j] # info[n]
  /\ reader.at # "idle" /\ reader.since = total =>
       s = FirstSlot /\ \A n \in 1 .. reader.counter : info[n] = total - logged + n

Progress ==
  /\ Len(reader.info) = reader.counter /\ reader.counter <= logged /\ logged <= total
  /\ reader.since <= total
  /\ reader.at = "idle" => reader.counter = 0
  /\ reader.at = "done" => /\ reader.result = reader.counter
                           /\ reader.since = total => reader.counter = logged

NotWritten == \A j \in Index : logged < LogSize /\ j >= next_index => arr[j] = 0

ReaderInv == NotWritten /\ Progress /\ (\E s \in Index : ReadFrom(s)) /\ EachSwitchOnce


\* What the ring holds in a slot that was written is a switch, and is in no other slot.
LEMMA WrittenSlots ==
  ASSUME TypeOK, RingInv, NotWritten, logged <= total,
         NEW i \in Index, i < next_index \/ logged = LogSize
  PROVE  arr[i] \in 1 .. total /\ \A j \in Index : j # i => arr[j] # arr[i]
<1> USE LoggerAssumption
<1>1. /\ next_index \in Int /\ logged \in Int /\ total \in Int /\ 0 <= next_index
      /\ next_index < LogSize /\ \A j \in Index : j \in Int /\ 0 <= j /\ j < LogSize
  BY DEF TypeOK, Index
<1>2. \A j \in Index : j < next_index => arr[j] = total - next_index + j + 1
  BY DEF RingInv
<1>3. CASE logged = LogSize
  <2>1. \A j \in Index : j >= next_index => arr[j] = total - next_index + j + 1 - LogSize
    BY <1>3 DEF RingInv
  <2>2. \A j \in Index : j < next_index \/ j >= next_index
    BY <1>1
  <2> QED BY <1>1, <1>2, <1>3, <2>1, <2>2
<1>4. CASE logged # LogSize
  <2>1. logged < LogSize
    BY <1>1, <1>4 DEF TypeOK
  <2>2. next_index = logged /\ total = logged
    BY <2>1 DEF RingInv
  <2>3. \A j \in Index : j >= next_index => arr[j] = 0
    BY <2>1 DEF NotWritten
  <2>4. \A j \in Index : j < next_index \/ j >= next_index
    BY <1>1
  <2> QED BY <1>1, <1>2, <1>4, <2>2, <2>3, <2>4
<1> QED BY <1>3, <1>4

\* Slots go around the ring, each entry of one call in a slot of its own.
LEMMA SlotsOfACall ==
  ASSUME NEW s \in Index
  PROVE  /\ \A n \in 1 .. LogSize + 1 : SlotFrom(s, n) \in Index
         /\ \A m, n \in 1 .. LogSize : m # n => SlotFrom(s, m) # SlotFrom(s, n)
         /\ \A n \in 1 .. LogSize : (SlotFrom(s, n) + 1) % LogSize = SlotFrom(s, n + 1)
<1> USE LoggerAssumption DEF SlotFrom, Index
<1>1. \A n \in 1 .. LogSize + 1 : SlotFrom(s, n) \in Index
  OBVIOUS
<1>2. \A m, n \in 1 .. LogSize : m # n => SlotFrom(s, m) # SlotFrom(s, n)
  OBVIOUS
<1>3. ASSUME NEW n \in 1 .. LogSize
      PROVE  (SlotFrom(s, n) + 1) % LogSize = SlotFrom(s, n + 1)
  <2>1. SlotFrom(s, n) \in Index
    BY <1>1
  <2>2. (SlotFrom(s, n) + 1) % LogSize
          = IF SlotFrom(s, n) + 1 = LogSize THEN 0 ELSE SlotFrom(s, n) + 1
    BY <2>1, WrapAround
  <2> QED BY <2>2
<1> QED BY <1>1, <1>2, <1>3

\* Where nothing was logged since the start of a call, the next entry it copies is the
\* next switch.
LEMMA QuietEntry ==
  ASSUME TypeOK, RingInv, NEW n \in 1 .. logged
  PROVE  arr[SlotFrom(FirstSlot, n)] = total - logged + n
<1> USE LoggerAssumption
<1>1. /\ next_index \in Int /\ logged \in Int /\ total \in Int /\ 0 <= next_index
      /\ next_index < LogSize /\ n \in Int /\ 1 <= n /\ n <= logged /\ logged <= LogSize
  BY DEF TypeOK, Index
<1>2. \A j \in Index : j < next_index => arr[j] = total - next_index + j + 1
  BY DEF RingInv
<1>3. CASE logged = LogSize
  <2>1. \A j \in Index : j >= next_index => arr[j] = total - next_index + j + 1 - LogSize
    BY <1>3 DEF RingInv
  <2>2. FirstSlot = next_index /\ next_index \in Index
    BY <1>3 DEF FirstSlot, TypeOK
  <2>3. CASE next_index + n - 1 < LogSize
    <3>1. next_index + n - 1 \in Index
      BY <1>1, <2>3 DEF Index
    <3> QED BY <1>1, <1>3, <2>1, <2>2, <2>3, <3>1 DEF SlotFrom
  <2>4. CASE ~ (next_index + n - 1 < LogSize)
    <3>1. next_index + n - 1 - LogSize \in Index /\ next_index + n - 1 - LogSize < next_index
      BY <1>1, <2>4 DEF Index
    <3> QED BY <1>1, <1>2, <1>3, <2>2, <2>4, <3>1 DEF SlotFrom
  <2> QED BY <2>3, <2>4
<1>4. CASE logged # LogSize
  <2>1. next_index = logged /\ total = logged /\ FirstSlot = 0
    BY <1>1, <1>4 DEF RingInv, FirstSlot
  <2>2. SlotFrom(FirstSlot, n) = n - 1 /\ n - 1 \in Index /\ n - 1 < next_index
    BY <1>1, <1>4, <2>1 DEF SlotFrom, Index
  <2> QED BY <1>1, <1>2, <2>1, <2>2
<1> QED BY <1>3, <1>4

-----------------------------------------------------------------------------
(* The steps.                                                              *)

\* Logging a switch while a call is under way: total changes, so that the call is not
\* quiet any more, and the new switch is in no entry copied before.
LEMMA LogStep ==
  ASSUME TypeOK, RingInv, ReaderInv, hw2_log_switch
  PROVE  ReaderInv'
<1> USE LoggerAssumption
<1>1. /\ next_index \in Index /\ total' = total + 1 /\ UNCHANGED reader
      /\ logged' = IF logged < LogSize THEN logged + 1 ELSE logged
      /\ next_index' = IF next_index + 1 = LogSize THEN 0 ELSE next_index + 1
      /\ \A j \in Index : arr'[j] = IF j = next_index THEN total + 1 ELSE arr[j]
  BY WrapAround DEF hw2_log_switch, NextIndex, NextLogged, TypeOK
<1>2. /\ total \in Nat /\ logged \in 0 .. LogSize /\ reader.since \in Nat
      /\ reader.counter \in 0 .. LogSize
  BY DEF TypeOK
<1>3. Progress'
  BY <1>1, <1>2 DEF ReaderInv, Progress
<1>4. NotWritten'
  <2> SUFFICES ASSUME NEW j \in Index, logged' < LogSize, j >= next_index'
               PROVE  arr'[j] = 0
    BY DEF NotWritten
  <2>1. logged < LogSize /\ next_index = logged
    BY <1>1, <1>2 DEF RingInv
  <2>2. j > next_index
    BY <1>1, <1>2, <2>1 DEF Index
  <2> QED BY <1>1, <2>1, <2>2 DEF ReaderInv, NotWritten, Index
<1>5. \E s \in Index : ReadFrom(s)'
  <2>1. PICK s \in Index : ReadFrom(s)
    BY DEF ReaderInv
  <2>2. reader.since # total'
    BY <1>1, <1>2 DEF ReaderInv, Progress
  <2>3. ASSUME NEW n \in 1 .. reader.counter
        PROVE  /\ reader.info[n] \in 1 .. total'
               /\ \A j \in Index : j # SlotFrom(s, n) => arr'[j] # reader.info[n]
    <3>1. /\ reader.info[n] \in 1 .. total
          /\ \A j \in Index : j # SlotFrom(s, n) => arr[j] # reader.info[n]
      BY <2>1 DEF ReadFrom
    <3> QED BY <1>1, <1>2, <3>1
  <2>4. reader.at = "copy" /\ logged' < LogSize => s = 0
    BY <1>1, <1>2, <2>1 DEF ReadFrom
  <2>5. reader.at = "copy" => reader.i = SlotFrom(s, reader.counter + 1)
    BY <2>1 DEF ReadFrom
  <2>6. ReadFrom(s)'
    BY <1>1, <2>2, <2>3, <2>4, <2>5 DEF ReadFrom, SlotFrom
  <2> QED BY <2>6
<1>6. EachSwitchOnce'
  BY <1>1, <1>2 DEF ReaderInv, EachSwitchOnce
<1> QED BY <1>3, <1>4, <1>5, <1>6 DEF ReaderInv

\* Copying one entry.
LEMMA CopyStep ==
  ASSUME TypeOK, RingInv, ReaderInv, ReadCopy
  PROVE  ReaderInv'
<1> USE LoggerAssumption
<1> DEFINE c == reader.counter
<1>1. /\ UNCHANGED logVars /\ reader.at = "copy" /\ c < logged
      /\ reader' = [reader EXCEPT !.info = Append(@, arr[reader.i]),
                                  !.i = (@ + 1) % LogSize, !.counter = @ + 1]
  BY DEF ReadCopy
<1>2. /\ total \in Nat /\ logged \in 0 .. LogSize /\ reader.since \in Nat
      /\ c \in 0 .. LogSize /\ reader.info \in Seq(Nat) /\ arr \in [Index -> Nat]
      /\ reader \in [at : {"idle", "copy", "done"}, i : Index, counter : 0 .. LogSize,
                 info : Seq(Nat), result : 0 .. LogSize, since : Nat]
  BY DEF TypeOK
<1>3. /\ Len(reader.info) = c /\ logged <= total /\ reader.since <= total
      /\ c + 1 \in 1 .. LogSize /\ c + 1 \in 1 .. logged
  BY <1>1, <1>2 DEF ReaderInv, Progress
<1>4. /\ reader'.at = "copy" /\ reader'.counter = c + 1 /\ reader'.since = reader.since
      /\ reader'.i = (reader.i + 1) % LogSize /\ Len(reader'.info) = c + 1
      /\ \A n \in 1 .. c + 1 :
           reader'.info[n] = IF n = c + 1 THEN arr[reader.i] ELSE reader.info[n]
  BY <1>1, <1>2, <1>3
<1>5. /\ arr' = arr /\ next_index' = next_index /\ logged' = logged /\ total' = total
  BY <1>1 DEF logVars
<1>6. PICK s \in Index : ReadFrom(s)
  BY DEF ReaderInv
<1>7. reader.i = SlotFrom(s, c + 1) /\ reader.i \in Index
  BY <1>1, <1>2, <1>6 DEF ReadFrom
<1>8. arr[reader.i] \in 1 .. total /\ \A j \in Index : j # reader.i => arr[j] # arr[reader.i]
  <2>1. reader.i < next_index \/ logged = LogSize
    <3>1. CASE logged < LogSize
      <4>1. s = 0 /\ next_index = logged
        BY <1>1, <1>6, <3>1 DEF ReadFrom, RingInv
      <4> QED BY <1>1, <1>2, <1>7, <3>1, <4>1 DEF SlotFrom
    <3> QED BY <1>2, <3>1
  <2> QED BY <1>3, <1>7, <2>1, WrittenSlots DEF ReaderInv
<1>9. \A n \in 1 .. c : reader.info[n] \in 1 .. total /\ reader.info[n] # arr[reader.i]
  <2>1. \A n \in 1 .. c : SlotFrom(s, n) # reader.i
    BY <1>2, <1>3, <1>7, SlotsOfACall
  <2> QED BY <1>6, <1>7, <2>1 DEF ReadFrom
<1>10. ReadFrom(s)'
  <2>1. reader'.i = SlotFrom(s, reader'.counter + 1)
    <3>1. (SlotFrom(s, c + 1) + 1) % LogSize = SlotFrom(s, c + 1 + 1)
      BY <1>3, SlotsOfACall
    <3> QED BY <1>4, <1>7, <3>1
  <2>2. logged' < LogSize => s = 0
    BY <1>1, <1>5, <1>6 DEF ReadFrom
  <2>3. ASSUME NEW n \in 1 .. reader'.counter
        PROVE  /\ reader'.info[n] \in 1 .. total'
               /\ \A j \in Index : j # SlotFrom(s, n) => arr'[j] # reader'.info[n]
    <3>1. CASE n = c + 1
      BY <1>4, <1>5, <1>7, <1>8, <3>1
    <3>2. CASE n # c + 1
      <4>1. n \in 1 .. c
        BY <1>2, <1>4, <3>2
      <4> QED BY <1>4, <1>5, <1>6, <3>2, <4>1 DEF ReadFrom
    <3> QED BY <3>1, <3>2
  <2>4. ASSUME reader'.since = total'
        PROVE  s = FirstSlot' /\ \A n \in 1 .. reader'.counter : reader'.info[n] = total' - logged' + n
    <3>1. s = FirstSlot /\ \A n \in 1 .. c : reader.info[n] = total - logged + n
      BY <1>1, <1>4, <1>5, <1>6, <2>4 DEF ReadFrom
    <3>2. arr[reader.i] = total - logged + (c + 1)
      BY <1>3, <1>7, <3>1, QuietEntry
    <3>3. \A n \in 1 .. c + 1 : n \in 1 .. c \/ n = c + 1
      BY <1>2
    <3> QED BY <1>4, <1>5, <3>1, <3>2, <3>3 DEF FirstSlot
  <2> QED BY <1>4, <2>1, <2>2, <2>3, <2>4 DEF ReadFrom, SlotFrom
<1>11. EachSwitchOnce'
  <2>1. \A n \in 1 .. c + 1 : n \in 1 .. c \/ n = c + 1
    BY <1>2
  <2>2. \A m, n \in 1 .. c : reader.info[m] = reader.info[n] => m = n
    BY <1>3 DEF ReaderInv, EachSwitchOnce
  <2>3. \A n \in 1 .. c : n # c + 1
    BY <1>2
  <2>4. \A m, n \in 1 .. c + 1 : reader'.info[m] = reader'.info[n] => m = n
    BY <1>4, <1>9, <2>1, <2>2, <2>3
  <2> QED BY <1>4, <1>5, <1>8, <1>9, <2>1, <2>4 DEF EachSwitchOnce
<1>12. Progress'
  BY <1>2, <1>3, <1>4, <1>5 DEF Progress
<1>13. NotWritten'
  BY <1>5 DEF ReaderInv, NotWritten
<1> QED BY <1>10, <1>11, <1>12, <1>13 DEF ReaderInv

\* The reader's invariant, from which the three properties of its result follow.
LEMMA LoggerReader == Spec => []ReaderInv
<1>1. Init => ReaderInv
  <2> SUFFICES ASSUME Init PROVE ReaderInv OBVIOUS
  <2>1. /\ reader.at = "idle" /\ reader.counter = 0 /\ reader.info = <<>> /\ reader.since = 0
        /\ total = 0 /\ logged = 0 /\ \A j \in Index : arr[j] = 0
    BY DEF Init, NoCall
  <2>2. 0 \in Index
    BY LoggerAssumption DEF Index
  <2>3. ReadFrom(0)
    BY <2>1 DEF ReadFrom
  <2> QED BY <2>1, <2>2, <2>3 DEF ReaderInv, NotWritten, Progress, EachSwitchOnce
<1>2. TypeOK /\ RingInv /\ ReaderInv /\ [Next]_vars => ReaderInv'
  <2> SUFFICES ASSUME TypeOK, RingInv, ReaderInv, [Next]_vars PROVE ReaderInv' OBVIOUS
  <2> USE LoggerAssumption
  <2>1. CASE hw2_log_switch
    BY <2>1, LogStep
  <2>2. CASE ReadCopy
    BY <2>2, CopyStep
  <2>3. CASE ReadStart
    <3>1. /\ reader' = [at |-> "copy", i |-> FirstSlot, counter |-> 0, info |-> <<>>,
                        result |-> 0, since |-> total]
          /\ UNCHANGED logVars
      BY <2>3 DEF ReadStart, NoCall
    <3>2. /\ reader'.at = "copy" /\ reader'.i = FirstSlot /\ reader'.counter = 0
          /\ reader'.info = <<>> /\ reader'.since = total
      BY <3>1
    <3>3. FirstSlot \in Index /\ total \in Nat /\ logged \in 0 .. LogSize
      BY DEF FirstSlot, TypeOK, Index
    <3>4. ReadFrom(FirstSlot)'
      BY <3>1, <3>2, <3>3 DEF ReadFrom, SlotFrom, FirstSlot, logVars, Index
    <3>5. \E s \in Index : ReadFrom(s)'
      <4>1. FirstSlot' = FirstSlot
        BY <3>1 DEF FirstSlot, logVars
      <4> QED BY <3>3, <3>4, <4>1
    <3> QED BY <3>1, <3>2, <3>3, <3>5
         DEF ReaderInv, NotWritten, Progress, EachSwitchOnce, logVars
  <2>4. CASE ReadFault \/ ReadDone
    <3>1. /\ reader' = [at |-> "idle", i |-> 0, counter |-> 0, info |-> <<>>, result |-> 0,
                        since |-> 0]
          /\ UNCHANGED logVars
      BY <2>4 DEF ReadFault, ReadDone, NoCall
    <3>2. /\ reader'.at = "idle" /\ reader'.counter = 0 /\ reader'.info = <<>>
          /\ reader'.since = 0
      BY <3>1
    <3>3. 0 \in Index /\ total \in Nat /\ logged \in 0 .. LogSize
      BY DEF TypeOK, Index
    <3>4. ReadFrom(0)'
      BY <3>2 DEF ReadFrom
    <3> QED BY <3>1, <3>2, <3>3, <3>4
         DEF ReaderInv, NotWritten, Progress, EachSwitchOnce, logVars
  <2>5. CASE ReadReturn
    <3>1. /\ reader.at = "copy" /\ reader.counter >= logged /\ UNCHANGED logVars
          /\ reader'.at = "done" /\ reader'.result = logged /\ reader'.counter = reader.counter
          /\ reader'.info = reader.info /\ reader'.since = reader.since
      BY <2>5 DEF ReadReturn, TypeOK
    <3>2. reader.counter = logged
      BY <3>1 DEF TypeOK, ReaderInv, Progress
    <3>3. Progress'
      BY <3>1, <3>2 DEF ReaderInv, Progress, logVars, TypeOK
    <3>4. \E s \in Index : ReadFrom(s)'
      <4>1. PICK s \in Index : ReadFrom(s)
        BY DEF ReaderInv
      <4>2. ReadFrom(s)'
        BY <3>1, <4>1 DEF ReadFrom, FirstSlot, SlotFrom, logVars
      <4> QED BY <4>2
    <3> QED BY <3>1, <3>3, <3>4 DEF ReaderInv, NotWritten, EachSwitchOnce, logVars
  <2>6. CASE hw2_start_logging
    <3>1. UNCHANGED <<arr, next_index, logged, total, reader>>
      BY <2>6 DEF hw2_start_logging
    <3>2. ASSUME NEW s \in Index PROVE ReadFrom(s)' <=> ReadFrom(s)
      BY <3>1 DEF ReadFrom, FirstSlot, SlotFrom
    <3> QED BY <3>1, <3>2 DEF ReaderInv, NotWritten, Progress, EachSwitchOnce
  <2>7. CASE UNCHANGED vars
    <3>1. ASSUME NEW s \in Index PROVE ReadFrom(s)' <=> ReadFrom(s)
      BY <2>7 DEF ReadFrom, FirstSlot, SlotFrom, vars, logVars
    <3> QED BY <2>7, <3>1 DEF ReaderInv, NotWritten, Progress, EachSwitchOnce, vars, logVars
  <2> QED BY <2>1, <2>2, <2>3, <2>4, <2>5, <2>6, <2>7 DEF Next
<1> QED BY <1>1, <1>2, LoggerTypeOK, LoggerRing, PTL DEF Spec

\* sys_get_scheduling_statistic returns the number of entries it has copied, also when
\* switches were logged, and logged changed, between two of its copy_to_user.
THEOREM LoggerReturns == Spec => []ReturnsWhatItCopied
<1>1. ReaderInv => ReturnsWhatItCopied
  BY DEF ReaderInv, Progress, ReturnsWhatItCopied
<1> QED BY <1>1, LoggerReader, PTL

\* A call of sys_get_scheduling_statistic during which nothing is logged copies the
\* latest switches, oldest first, wherever in the ring the oldest is.
THEOREM LoggerQuietRead == Spec => []QuietReadInOrder
<1>1. ReaderInv => QuietReadInOrder
  BY DEF ReaderInv, Progress, ReadFrom, QuietReadInOrder
<1> QED BY <1>1, LoggerReader, PTL

\* Whatever hw2_log_switch overwrites during a call, it copies no switch twice and no
\* slot that was never written.
THEOREM LoggerEachSwitchOnce == Spec => []EachSwitchOnce
<1>1. ReaderInv => EachSwitchOnce
  BY DEF ReaderInv
<1> QED BY <1>1, LoggerReader, PTL

-----------------------------------------------------------------------------
(* The ring as a history.                                                  *)

\* What History!recent stands for: the latest logged switches, in order.
LEMMA RecentInOrder ==
  TypeOK /\ RingInv => RecentSwitches = [n \in 1 .. logged |-> total - logged + n]
<1> SUFFICES ASSUME TypeOK, RingInv
             PROVE  RecentSwitches = [n \in 1 .. logged |-> total - logged + n]
  OBVIOUS
<1> USE LoggerAssumption
<1>1. ASSUME NEW n \in 1 .. logged
      PROVE  (Oldest + n - 1) % LogSize = SlotFrom(FirstSlot, n)
  <2>1. Oldest = FirstSlot /\ FirstSlot \in Index /\ n \in 1 .. LogSize
    BY DEF Oldest, FirstSlot, TypeOK, Index
  <2>2. CASE FirstSlot + n - 1 < LogSize
    BY <2>1, <2>2 DEF SlotFrom, Index
  <2>3. CASE ~ (FirstSlot + n - 1 < LogSize)
    <3>1. (FirstSlot + n - 1 - LogSize) % LogSize = FirstSlot + n - 1 - LogSize
      BY <2>1, <2>3 DEF Index
    <3>2. (FirstSlot + n - 1) % LogSize = (FirstSlot + n - 1 - LogSize) % LogSize
      BY <2>1, <2>3 DEF Index
    <3> QED BY <2>1, <2>3, <3>1, <3>2 DEF SlotFrom
  <2> QED BY <2>2, <2>3
<1> QED BY <1>1, QuietEntry DEF RecentSwitches

\* hw2_log_switch records one switch more in the history, and forgets the oldest when
\* there are more than LogSize.
LEMMA RecordStep ==
  ASSUME TypeOK, RingInv, TypeOK', RingInv', hw2_log_switch
  PROVE  History!Record
<1> USE LoggerAssumption
<1> DEFINE old == [n \in 1 .. logged |-> total - logged + n]
           more == [n \in 1 .. logged + 1 |-> total - logged + n]
<1>1. /\ total' = total + 1 /\ logged' = IF logged < LogSize THEN logged + 1 ELSE logged
      /\ remaining_switches > 0 /\ remaining_switches' = remaining_switches - 1
      /\ total \in Nat /\ logged \in 0 .. LogSize
  BY DEF hw2_log_switch, NextLogged, TypeOK
<1>2. RecentSwitches = old
  BY RecentInOrder
<1>3. RecentSwitches' = [n \in 1 .. logged' |-> total' - logged' + n]
  <2>1. (TypeOK /\ RingInv => RecentSwitches = [n \in 1 .. logged |-> total - logged + n])'
    BY RecentInOrder, PTL
  <2> QED BY <2>1
<1>4. old \in Seq(Int) /\ Len(old) = logged
  BY <1>1
<1>5. Append(old, total + 1) = more
  <2>1. more \in Seq(Int) /\ Len(more) = logged + 1
    BY <1>1
  <2> QED BY <1>1, <1>4, <2>1
<1>6. History!Latest(more) = [n \in 1 .. logged' |-> total' - logged' + n]
  <2>1. Len(more) = logged + 1 /\ more \in Seq(Int)
    BY <1>1
  <2>2. CASE logged < LogSize
    <3>1. History!Latest(more) = SubSeq(more, 1, logged + 1)
      BY <1>1, <2>1, <2>2 DEF History!Latest
    <3>2. SubSeq(more, 1, logged + 1) = more
      BY <1>1, <2>1
    <3>3. more = [n \in 1 .. logged' |-> total' - logged' + n]
      BY <1>1, <2>2
    <3> QED BY <3>1, <3>2, <3>3
  <2>3. CASE ~ (logged < LogSize)
    <3>1. logged = LogSize /\ logged' = LogSize
      BY <1>1, <2>3
    <3>2. History!Latest(more) = SubSeq(more, 2, LogSize + 1)
      BY <2>1, <3>1 DEF History!Latest
    <3>3. SubSeq(more, 2, LogSize + 1) = [n \in 1 .. LogSize |-> more[n + 1]]
      BY <2>1, <3>1
    <3>4. \A n \in 1 .. LogSize : more[n + 1] = total' - LogSize + n
      BY <1>1, <3>1
    <3> QED BY <1>1, <3>1, <3>2, <3>3, <3>4
  <2> QED BY <2>2, <2>3
<1> QED BY <1>1, <1>2, <1>3, <1>5, <1>6 DEF History!Record

\* The log implements SwitchHistory: of the switches that fell into a logging window it
\* remembers the latest LogSize, oldest first, however the ring is laid out, and reading
\* it changes nothing.
THEOREM LoggerIsHistory == Spec => HistorySpec
<1>1. Init => History!Init
  <2> SUFFICES ASSUME Init PROVE History!Init OBVIOUS
  <2>1. logged = 0 /\ total = 0 /\ remaining_switches = 0
    BY DEF Init
  <2>2. RecentSwitches = <<>>
    BY <2>1 DEF RecentSwitches
  <2> QED BY <2>1, <2>2 DEF History!Init
<1>2. /\ TypeOK /\ RingInv /\ TypeOK' /\ RingInv' /\ [Next]_vars
      => [History!Next]_(History!vars)
  <2> SUFFICES ASSUME TypeOK, RingInv, TypeOK', RingInv', [Next]_vars
               PROVE  [History!Next]_(History!vars)
    OBVIOUS
  <2>1. CASE hw2_log_switch
    BY <2>1, RecordStep DEF History!Next
  <2>2. CASE hw2_start_logging
    BY <2>2 DEF hw2_start_logging, History!Next, History!Open, RecentSwitches, Oldest
  <2>3. CASE UNCHANGED logVars
    BY <2>3 DEF logVars, History!vars, RecentSwitches, Oldest
  <2> QED BY <2>1, <2>2, <2>3
       DEF Next, vars, ReadStart, ReadCopy, ReadFault, ReadReturn, ReadDone
<1> QED BY <1>1, <1>2, LoggerTypeOK, LoggerRing, PTL DEF Spec, HistorySpec, History!Spec
=============================================================================
