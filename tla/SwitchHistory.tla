--------------------------- MODULE SwitchHistory ----------------------------
(***************************************************************************)
(* What the context-switch log promises: of the switches that fell in a    *)
(* logging window (opened by a fork or an exit, and then Window switches   *)
(* long) it remembers the latest LogSize, oldest first.                    *)
(***************************************************************************)
EXTENDS Integers, Sequences

CONSTANTS LogSize, Window, MaxSwitches

VARIABLES recent,  \* the numbers of the switches remembered, oldest first
          total,   \* how many switches were recorded so far
          budget   \* how many more belong to the window

vars == <<recent, total, budget>>

Init == recent = <<>> /\ total = 0 /\ budget = 0

Open == budget' = Window /\ UNCHANGED <<recent, total>>

\* The last LogSize elements of s.
Latest(s) == SubSeq(s, IF Len(s) > LogSize THEN Len(s) - LogSize + 1 ELSE 1, Len(s))

Record ==
  /\ budget > 0
  /\ budget' = budget - 1
  /\ total' = total + 1
  /\ recent' = Latest(Append(recent, total + 1))

Next == Open \/ Record

Spec == Init /\ [][Next]_vars
=============================================================================
