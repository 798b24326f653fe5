---------------------------- MODULE SnapshotFeed ----------------------------
(***************************************************************************)
(* What the push to the BI centre promises to a reader of the dashboard:   *)
(* the receiver shows nothing, or exactly one of the snapshots the sender  *)
(* issued, never a mixture; it moves to later snapshots only, except when  *)
(* it is restored to one it showed before.                                 *)
(***************************************************************************)
EXTENDS Integers, Sequences

CONSTANTS Snapshots, NoSnapshot

VARIABLES issued,  \* issued[n]: the n-th snapshot
          at,      \* number of the snapshot shown, 0 for none
          shown    \* what is shown

vars == <<issued, at, shown>>

Init == issued = <<>> /\ at = 0 /\ shown = NoSnapshot

Issue ==
  /\ \E m \in Snapshots : issued' = Append(issued, m)
  /\ UNCHANGED <<at, shown>>

Show ==
  \E n \in 1..Len(issued) :
    n > at /\ at' = n /\ shown' = issued[n] /\ UNCHANGED issued

Restore ==
  /\ at' < at /\ UNCHANGED issued
  /\ \/ at' = 0 /\ shown' = NoSnapshot
     \/ at' \in 1..Len(issued) /\ shown' = issued[at']

Next == Issue \/ Show \/ Restore
Spec == Init /\ [][Next]_vars
=============================================================================
