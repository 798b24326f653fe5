------------------------------ MODULE MCReview ------------------------------
(***************************************************************************)
(* Behaviours without notifications, whose bounds leave room for edits and *)
(* jobs, and behaviours with notifications, which span two days.           *)
(***************************************************************************)
EXTENDS ReviewPipeline

VARIABLE notify
N == INSTANCE ReviewPipeline WITH
       Contents <- {CHOOSE c \in Contents : TRUE}, NotifyEnabled <- TRUE, QueueLimit <- 1, JobsPerRound <- 1,
       Quiet <- 1, MaxBatch <- 1, MaxDays <- 1

MCInit == (notify = FALSE /\ Init) \/ (notify = TRUE /\ N!Init)
MCNext == \/ ~notify /\ Next /\ notify' = notify
          \/ notify /\ N!Next /\ notify' = notify

(* Fairness of ReviewPipeline, which the behaviours without notifications  *)
(* are asked for.                                                          *)
Quietly(A) == ~notify /\ A /\ notify' = notify
MCVars == <<vars, notify>>
MCFairness ==
  /\ WF_MCVars(Quietly(WorkerStep)) /\ WF_MCVars(Quietly(Boot))
  /\ WF_MCVars(Quietly(\E i \in DOMAIN jobs : LeaseLapse(i)))
  /\ \A d \in Docs : WF_MCVars(Quietly(WindowRuns(d))) /\ WF_MCVars(Quietly(WindowCaps(d)))
MCSpec == MCInit /\ [][MCNext]_MCVars /\ MCFairness

(* EditsReviewed for them: every routed edit is read in the end.           *)
EditsAreReviewed ==
  \A d \in Docs : ~notify /\ owed[d] ~> ~owed[d] \/ doc[d].excluded \/ Interrupted(d)
=============================================================================
