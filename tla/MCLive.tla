------------------------------- MODULE MCLive -------------------------------
(***************************************************************************)
(* Convergence under fairness, of the outbox from changed partitions to    *)
(* the receiver, and of the projection from changed documents to           *)
(* partitions.  A behaviour is one of one of them, `which'; both are about *)
(* the publisher's database, lock and process.                             *)
(***************************************************************************)
EXTENDS Integers

CONSTANTS None, Folder, Deleted, Absent

VARIABLES which, db, lock, proc, edits, faults, ops,
          log, ever, net   \* of the outbox
allvars == <<which, db, lock, proc, edits, faults, ops, log, ever, net>>

O == INSTANCE BIOutbox WITH
  Publishers <- {"p"}, Keys <- {1, 2}, Versions <- {"v"}, MaxEdits <- 1, MaxFaults <- 2, MaxOps <- 0

(* Node 1 is in the baseline and 2 only in the live documents.             *)
Upload(ws, day) == [ws |-> ws, day |-> day]
P == INSTANCE Projection WITH
  Publishers <- {"p"}, Nodes <- {1, 2}, Spaces <- {"w"}, Months <- {1, 2}, Limit <- 1, Retained <- 1,
  Values <- {Upload("w", 1), Upload("w", None)},
  Baseline <- [n \in {1, 2} |-> IF n = 1 THEN Upload("w", 2) ELSE None],
  MaxEdits <- 1, MaxFaults <- 1, MaxOps <- 1

Outbox == which = "outbox"
Facts == which = "projection"

InOutbox(A) == Outbox /\ A /\ UNCHANGED which
InFacts(A) == Facts /\ A /\ UNCHANGED <<which, log, ever, net>>

Init == \/ Outbox /\ O!Init
        \/ Facts /\ P!Init /\ log = "off" /\ ever = "off" /\ net = "off"
Next == \/ Outbox /\ O!Next /\ UNCHANGED which
        \/ Facts /\ P!Next /\ UNCHANGED <<which, log, ever, net>>

(* BIOutbox's and Projection's Fairness; `which' never changes, so one     *)
(* fair action of each stands in one conjunct.                             *)
PTurn == P!Project("p") \/ P!Seed("p") \/ P!BeginPublish("p") \/ P!Publish("p") \/ P!Leave("p")
Fairness ==
  /\ WF_allvars(InOutbox(O!ExpireLease))
  /\ WF_allvars(InOutbox(O!BackoffElapses /\ ~db'.wait))
  /\ WF_allvars(InOutbox(\E m \in net : m.conn # None /\ O!Deliver(m)))
  /\ WF_allvars(InOutbox(O!Turn("p")) \/ InFacts(PTurn))
  /\ SF_allvars(InOutbox(O!Enter("p")) \/ InFacts(P!Enter("p")))
  /\ SF_allvars(InOutbox(O!At("p", "in") /\ O!GetStatus("p")) \/ InFacts(P!BeginProject("p")))
  /\ SF_allvars(InOutbox(O!Build("p")) \/ InFacts(P!BeginSeed("p")))
  /\ SF_allvars(InFacts(P!Plan("p")))
FairSpec == Init /\ [][Next]_allvars /\ Fairness

(* BIOutbox's Delivery: once changes stop, the receiver ends up with the   *)
(* sender's partitions, acknowledged, unless an administrator is needed.   *)
Delivery == <>[](Outbox => db.blocked # "" \/ O!Converged)

(* Projection's CatchesUp: once changes stop, the partitions end up with   *)
(* what documents, reviews and libraries say.                              *)
CatchesUp == <>[](Facts => P!UpToDate)
=============================================================================
