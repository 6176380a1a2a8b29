------------------------------- MODULE Logger -------------------------------
(***************************************************************************)
(* hw2_logger: the ring of the latest LogSize logged switches, written by  *)
(* hw2_log_switch from schedule(), and sys_get_scheduling_statistic, which *)
(* copies it to its caller without a lock.  Each copy_to_user may fault    *)
(* and sleep, so switches are logged between two of them.                  *)
(*                                                                         *)
(* A switch_info is represented by the number of the switch it describes,  *)
(* 1 for the first one logged; total is the number of the latest.          *)
(***************************************************************************)
EXTENDS Integers, Sequences

CONSTANTS
  LogSize,     \* 150
  Window,      \* 30: how many switches hw2_start_logging asks for
  MaxSwitches  \* bound of the model: the number of switches logged

ASSUME LoggerAssumption ==
  /\ LogSize \in Nat /\ LogSize > 0
  /\ Window \in Nat /\ MaxSwitches \in Nat

Index == 0 .. LogSize - 1

VARIABLES
  arr, next_index, logged, remaining_switches,  \* hw2_switch_log
  total,
  reader  \* the call of sys_get_scheduling_statistic: where it is, its
          \* variables i and counter, the user's buffer, and total at its start

logVars == <<arr, next_index, logged, remaining_switches, total>>
vars == <<logVars, reader>>

NoCall == [at |-> "idle", i |-> 0, counter |-> 0, info |-> <<>>, result |-> 0, since |-> 0]

Init ==
  /\ arr = [j \in Index |-> 0]
  /\ next_index = 0 /\ logged = 0 /\ remaining_switches = 0
  /\ total = 0
  /\ reader = NoCall

\* A mistake: the window is one switch short.
hw2_start_logging_short ==
  /\ remaining_switches' = Window - 1
  /\ UNCHANGED <<arr, next_index, logged, total, reader>>

hw2_start_logging ==
  /\ remaining_switches' = Window
  /\ UNCHANGED <<arr, next_index, logged, total, reader>>

\* Where hw2_log_switch leaves next_index and logged.  A mistake: logged stops one short
\* of the length of the ring.
NextIndex == (next_index + 1) % LogSize
NextLogged_short == IF logged < LogSize - 1 THEN logged + 1 ELSE logged
NextLogged == IF logged < LogSize THEN logged + 1 ELSE logged

\* With remaining_switches = 0 the function returns at once.
hw2_log_switch ==
  /\ remaining_switches > 0 /\ total < MaxSwitches
  /\ arr' = [arr EXCEPT ![next_index] = total + 1]
  /\ remaining_switches' = remaining_switches - 1
  /\ next_index' = NextIndex /\ logged' = NextLogged
  /\ total' = total + 1
  /\ UNCHANGED reader

\* The slot the reader starts at.  Two mistakes: always 0, and always next_index.
FirstSlot_0 == 0
FirstSlot_next == next_index
FirstSlot == IF logged = LogSize THEN next_index ELSE 0

ReadStart ==
  /\ reader.at = "idle"
  /\ reader' = [NoCall EXCEPT !.at = "copy", !.since = total, !.i = FirstSlot]
  /\ UNCHANGED logVars

\* One round of the loop, up to and including its copy_to_user.
ReadCopy ==
  /\ reader.at = "copy" /\ reader.counter < logged
  /\ reader' = [reader EXCEPT !.info = Append(@, arr[reader.i]),
                              !.i = (@ + 1) % LogSize, !.counter = @ + 1]
  /\ UNCHANGED logVars

\* The user's buffer is not writable: -EFAULT.
ReadFault ==
  /\ reader.at = "copy" /\ reader.counter < logged
  /\ reader' = NoCall
  /\ UNCHANGED logVars

ReadReturn ==
  /\ reader.at = "copy" /\ reader.counter >= logged
  /\ reader' = [reader EXCEPT !.at = "done", !.result = logged]
  /\ UNCHANGED logVars

ReadDone ==
  /\ reader.at = "done"
  /\ reader' = NoCall
  /\ UNCHANGED logVars

Next ==
  \/ hw2_start_logging \/ hw2_log_switch
  \/ ReadStart \/ ReadCopy \/ ReadFault \/ ReadReturn \/ ReadDone

Spec == Init /\ [][Next]_vars

-----------------------------------------------------------------------------
TypeOK ==
  /\ arr \in [Index -> Nat]
  /\ next_index \in Index /\ logged \in 0 .. LogSize
  /\ remaining_switches \in 0 .. Window
  /\ total \in Nat
  /\ reader \in [at : {"idle", "copy", "done"}, i : Index, counter : 0 .. LogSize,
                 info : Seq(Nat), result : 0 .. LogSize, since : Nat]

\* The slots before next_index hold the switches logged since the ring last
\* wrapped, the slots from next_index on those logged just before, and until the
\* first wrap nothing: no switch is lost or overwritten early.
RingInv ==
  /\ \A j \in Index : j < next_index => arr[j] = total - next_index + j + 1
  /\ logged = LogSize =>
       \A j \in Index : j >= next_index => arr[j] = total - next_index + j + 1 - LogSize
  /\ logged < LogSize => next_index = logged /\ total = logged

\* What sys_get_scheduling_statistic returns is the number of entries it copied.
ReturnsWhatItCopied ==
  reader.at = "done" => reader.result = Len(reader.info)

\* A call during which nothing is logged copies the latest switches, each once, in
\* the order they happened.
QuietReadInOrder ==
  reader.at = "done" /\ reader.since = total =>
    \A n \in 1 .. Len(reader.info) : reader.info[n] = total - Len(reader.info) + n

\* Whatever is logged during the call, it reports no switch twice and no slot that
\* was never written; only the order may be lost, when the log overtakes the reader.
EachSwitchOnce ==
  LET info == reader.info
  IN /\ \A n \in 1 .. Len(info) : info[n] \in 1 .. total
     /\ \A m, n \in 1 .. Len(info) : info[m] = info[n] => m = n

\* The log seen as a history: the slots from the oldest on.  hw2_log_switch and
\* hw2_start_logging implement the actions of SwitchHistory, and reading changes
\* nothing.
Oldest == IF logged = LogSize THEN next_index ELSE 0
RecentSwitches == [n \in 1 .. logged |-> arr[(Oldest + n - 1) % LogSize]]
History == INSTANCE SwitchHistory WITH recent <- RecentSwitches, budget <- remaining_switches
HistorySpec == History!Spec
=============================================================================
