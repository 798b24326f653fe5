--------------------------- MODULE ReviewPipeline ---------------------------
(***************************************************************************)
(* Content reviews: who queues a review job, the merge window of edited    *)
(* documents, the one realtime worker that runs jobs and pushes their      *)
(* notifications, its crash and boot sweep, and the API and the watcher    *)
(* that touch the same rows meanwhile (app/service.py, app/worker.py,      *)
(* app/audit_bridge.py, app/notify.py, app/main.py).                       *)
(*                                                                         *)
(* The worker is one thread: bridge, harvest, at most three jobs, pump.    *)
(* Text is a value of Contents; a review reads it over HTTP between two    *)
(* transactions.  A job that has ended leaves the queue.                   *)
(***************************************************************************)
EXTENDS Naturals, Sequences, FiniteSets

CONSTANTS
  Docs, Contents, None,
  Clients,          \* administrators clicking "review again"
  NotifyEnabled, NotifyOnPass,   \* KG_NOTIFY_ENABLED, KG_NOTIFY_ON_PASS
  QueueLimit,       \* KG_REVIEW_QUEUE_LIMIT
  JobsPerRound,     \* jobs of one worker round (3 in the code)
  Quiet,            \* steps of the 30-minute window: each edit starts it again
  MaxBatch,         \* upload events of one document in one bridge transaction
  MaxCrashes, MaxDays   \* bounds of the model

ASSUME NoneFresh == None \notin Contents /\ None \notin 0..Quiet /\ None \notin {"sent", "failed"}
ASSUME Sizes == /\ IsFiniteSet(Docs) /\ JobsPerRound \in Nat \ {0} /\ Quiet \in Nat \ {0}
                /\ QueueLimit \in Nat \ {0} /\ MaxBatch \in Nat \ {0}
                /\ MaxCrashes \in Nat /\ MaxDays \in Nat
                /\ NotifyEnabled \in BOOLEAN /\ NotifyOnPass \in BOOLEAN

VARIABLES
  doc,      \* documents rows: mirror flags and the merge window
  text,     \* what a download of the body returns (None: nothing usable)
  jobs,     \* active review_jobs in creation order
  latest,   \* the last review instance of each document
  rows,     \* notifications pending, or sent and created today
  worker,   \* the realtime worker: where it is and what it holds
  click,    \* requests of the API between their first read and their lock
  owed,     \* ghost: a routed event whose body has not been read since
  calm,     \* ghost: deleted by an event and nothing has asked for it since
  echoes,   \* ghost: messages delivered for rows that are still pending
  crashes, day
vars == <<doc, text, jobs, latest, rows, worker, click, owed, calm, echoes, crashes, day>>

----------------------------------------------------------------------------
Verdict == {"pass", "low"}
Stage == {"down", "bridge", "harvest", "claim", "read", "score", "finish", "pump"}
Doc == [known : BOOLEAN, deleted : BOOLEAN, excluded : BOOLEAN,
        due : {None} \cup (0..Quiet), capped : BOOLEAN, print : Contents \cup {None}]
(* "mine" marks the job the live worker executes, "read" that its body was *)
(* downloaded since it was claimed; neither is a column.                   *)
Job == [doc : Docs, trigger : {"auto", "manual_rerun"}, status : {"pending"},
        lease : {"none"}, mine : {FALSE}, read : {FALSE}]
       \cup [doc : Docs, trigger : {"auto", "manual_rerun"}, status : {"running"},
             lease : {"held", "lapsed"}, mine : BOOLEAN, read : BOOLEAN]
Instance == [verdict : Verdict \cup {None}, print : Contents \cup {None}, newToday : BOOLEAN]
Note == [again : BOOLEAN, today : BOOLEAN, status : {"pending", "sent"}]
Idle == [pc |-> "bridge", text |-> None, done |-> 0, out |-> [d \in Docs |-> None]]

NewJob(d, trigger) == [doc |-> d, trigger |-> trigger, status |-> "pending",
                       lease |-> "none", mine |-> FALSE, read |-> FALSE]
Active(d) == {i \in DOMAIN jobs : jobs[i].doc = d}
Statuses(d) == {jobs[i].status : i \in Active(d)}
PendingJobs == {i \in DOMAIN jobs : jobs[i].status = "pending"}
Mine == CHOOSE i \in DOMAIN jobs : jobs[i].mine
PendingRows(d) == {i \in DOMAIN rows[d] : rows[d][i].status = "pending"}

(* The elements of s at the indices in I, in their order.                  *)
Only(s, I) ==
  LET upto[k \in 0..Len(s)] ==
        IF k = 0 THEN <<>> ELSE IF k \in I THEN Append(upto[k - 1], s[k]) ELSE upto[k - 1]
  IN  upto[Len(s)]

(* MySQL gives the first active row it meets: any status present.          *)
Looked(d) == IF Active(d) = {} THEN {None} ELSE Statuses(d)

Closed(r) == [r EXCEPT !.due = None, !.capped = FALSE]
Open(r, wait) == [r EXCEPT !.due = wait, !.capped = @ /\ r.due # None]
Present(r) == [r EXCEPT !.known = TRUE, !.deleted = FALSE]

----------------------------------------------------------------------------
(* Other writers.                                                          *)

(* The author saves the document, or it becomes undownloadable.            *)
Edit(d, c) ==
  /\ c # text[d]
  /\ text' = [text EXCEPT ![d] = c]
  /\ UNCHANGED <<doc, jobs, latest, rows, worker, click, owed, calm, echoes, crashes, day>>

(* A scan lists a node for the first time: a native document found after   *)
(* the seed is queued at once, an attachment or a seeded one is not.       *)
WatchNew(d, adoc) ==
  /\ ~doc[d].known
  /\ doc' = [doc EXCEPT ![d] = Present(@)]
  /\ jobs' = IF adoc /\ ~doc[d].excluded THEN Append(jobs, NewJob(d, "auto")) ELSE jobs
  /\ UNCHANGED <<text, latest, rows, worker, click, owed, calm, echoes, crashes, day>>

(* A scan sees a deleted node again.                                       *)
SeenAgain(d) ==
  /\ doc[d].known /\ doc[d].deleted
  /\ doc' = [doc EXCEPT ![d] = Present(@)]
  /\ UNCHANGED <<text, jobs, latest, rows, worker, click, owed, calm, echoes, crashes, day>>

(* The second complete scan that misses a document: only the row changes.  *)
Missed(d) ==
  /\ doc[d].known /\ ~doc[d].deleted
  /\ doc' = [doc EXCEPT ![d].deleted = TRUE]
  /\ owed' = [owed EXCEPT ![d] = FALSE]
  /\ UNCHANGED <<text, jobs, latest, rows, worker, click, calm, echoes, crashes, day>>

(* Its library becomes personal, or its uploader a known robot.            *)
Exclude(d) ==
  /\ ~doc[d].excluded
  /\ doc' = [doc EXCEPT ![d].excluded = TRUE]
  /\ UNCHANGED <<text, jobs, latest, rows, worker, click, owed, calm, echoes, crashes, day>>

(* enqueue_review: the first read fixes the snapshot of the transaction;   *)
(* the row lock comes after it, and the two queries about jobs answer from *)
(* that snapshot.                                                          *)
Asked(d) == [doc |-> d, busy |-> Active(d) # {}, full |-> Len(jobs) >= QueueLimit]

ClickRead(c, d) ==
  /\ click[c] = None /\ doc[d].known
  /\ click' = [click EXCEPT ![c] = Asked(d)]
  /\ UNCHANGED <<doc, text, jobs, latest, rows, worker, owed, calm, echoes, crashes, day>>

Queues(q) == ~q.busy /\ ~q.full

ClickCommit(c) ==
  /\ click[c] # None
  /\ click' = [click EXCEPT ![c] = None]
  /\ IF Queues(click[c])
     THEN /\ jobs' = Append(jobs, NewJob(click[c].doc, "manual_rerun"))
          /\ calm' = [calm EXCEPT ![click[c].doc] = FALSE]
     ELSE UNCHANGED <<jobs, calm>>
  /\ UNCHANGED <<doc, text, latest, rows, worker, owed, echoes, crashes, day>>

----------------------------------------------------------------------------
(* The bridge stage: events of the audit log, in any order.                *)

AtBridge == worker.pc = "bridge"
(* An event reaches a document by locating its node, which writes the row, *)
(* or through a node already confirmed, which needs the row.               *)
Reached(d, located) == located \/ doc[d].known
Written(d, located) == IF located THEN Present(doc[d]) ELSE doc[d]

(* The harvest drops the windows of deleted documents: nothing is owed.    *)
Routed(d) ==
  /\ owed' = [owed EXCEPT ![d] = ~doc'[d].deleted]
  /\ calm' = [calm EXCEPT ![d] = FALSE]

(* Upload, creation or overwrite.  The session does not flush, so n events *)
(* of one document finished in one transaction each find no job and each   *)
(* add one.                                                                *)
ReviewEvents(d, n, located, seen) ==
  /\ AtBridge /\ Reached(d, located) /\ (located => n = 1)
  /\ seen \in Looked(d)
  /\ IF doc[d].excluded
     THEN /\ doc' = [doc EXCEPT ![d] = Written(d, located)]
          /\ UNCHANGED <<jobs, owed, calm>>
     ELSE /\ doc' = [doc EXCEPT ![d] = IF seen = "running" THEN Open(Written(d, located), 0)
                                       ELSE Closed(Written(d, located))]
          /\ jobs' = IF seen = None THEN jobs \o [i \in 1..n |-> NewJob(d, "auto")] ELSE jobs
          /\ Routed(d)
  /\ UNCHANGED <<text, latest, rows, worker, click, echoes, crashes, day>>

ModifyEvent(d, located) ==
  /\ AtBridge /\ Reached(d, located)
  /\ IF doc[d].excluded
     THEN /\ doc' = [doc EXCEPT ![d] = Written(d, located)]
          /\ UNCHANGED <<owed, calm>>
     ELSE /\ doc' = [doc EXCEPT ![d] = Open(Written(d, located), Quiet)]
          /\ Routed(d)
  /\ UNCHANGED <<text, jobs, latest, rows, worker, click, echoes, crashes, day>>

\* Mutant: a delete leaves running jobs alone.
MutCancelled(d) == Only(jobs, DOMAIN jobs \ (Active(d) \cap PendingJobs))
Cancelled(d) == Only(jobs, DOMAIN jobs \ Active(d))

\* Mutant: a delete leaves unsent messages alone.
MutSilenced(d) == rows[d]
Silenced(d) == Only(rows[d], DOMAIN rows[d] \ PendingRows(d))

DeleteEvent(d) ==
  /\ AtBridge /\ doc[d].known
  /\ doc' = [doc EXCEPT ![d] = Closed([@ EXCEPT !.deleted = TRUE])]
  /\ jobs' = Cancelled(d)
  /\ rows' = [rows EXCEPT ![d] = Silenced(d)]
  /\ owed' = [owed EXCEPT ![d] = FALSE]
  /\ calm' = [calm EXCEPT ![d] = TRUE]
  /\ echoes' = [echoes EXCEPT ![d] = 0]
  /\ UNCHANGED <<text, latest, worker, click, crashes, day>>

RestoreEvent(d) ==
  /\ AtBridge /\ doc[d].known /\ doc[d].deleted
  /\ doc' = [doc EXCEPT ![d].deleted = FALSE]
  /\ UNCHANGED <<text, jobs, latest, rows, worker, click, owed, calm, echoes, crashes, day>>

Goto(pc) == worker' = [worker EXCEPT !.pc = pc]

BridgeDone ==
  /\ AtBridge /\ Goto("harvest")
  /\ UNCHANGED <<doc, text, jobs, latest, rows, click, owed, calm, echoes, crashes, day>>

----------------------------------------------------------------------------
(* harvest_due_reviews, one transaction over every window that is over.    *)

\* Mutant: no cap of six hours.
MutHarvestable(d) == doc[d].due = 0
Harvestable(d) == doc[d].due # None /\ (doc[d].due = 0 \/ doc[d].capped)
\* Mutant: a running job counts as a review of the edit.
MutKeeps(d, seen) == FALSE
Keeps(d, seen) == ~doc[d].deleted /\ seen = "running"
Wants(d, seen) == ~doc[d].deleted /\ seen = None

Harvest(seen) ==
  /\ worker.pc = "harvest"
  /\ \A d \in Docs : seen[d] \in Looked(d)
  /\ LET ready == {d \in Docs : Harvestable(d)}
         fresh == {d \in ready : Wants(d, seen[d])}
     IN /\ doc' = [d \in Docs |-> IF d \in ready /\ ~Keeps(d, seen[d])
                                  THEN Closed(doc[d]) ELSE doc[d]]
        /\ \E order \in [1..Cardinality(fresh) -> fresh] :
             /\ \A d \in fresh : \E i \in DOMAIN order : order[i] = d
             /\ jobs' = jobs \o [i \in DOMAIN order |-> NewJob(order[i], "auto")]
  /\ worker' = [worker EXCEPT !.pc = "claim", !.done = 0]
  /\ UNCHANGED <<text, latest, rows, click, owed, calm, echoes, crashes, day>>

----------------------------------------------------------------------------
(* process_next_job and run_review.                                        *)

(* The claim commits before the download.  Only this thread moves a job    *)
(* out of "pending", so the conditional update always finds it there.      *)
Claim ==
  /\ worker.pc = "claim" /\ PendingJobs # {}
  /\ LET first == CHOOSE i \in PendingJobs : \A j \in PendingJobs : i <= j
     IN jobs' = [jobs EXCEPT ![first].status = "running", ![first].lease = "held",
                             ![first].mine = TRUE]
  /\ Goto("read")
  /\ UNCHANGED <<doc, text, latest, rows, click, owed, calm, echoes, crashes, day>>

NothingPending ==
  /\ worker.pc = "claim" /\ PendingJobs = {}
  /\ Goto("pump")
  /\ UNCHANGED <<doc, text, jobs, latest, rows, click, owed, calm, echoes, crashes, day>>

Gated(j) == j.trigger # "manual_rerun" /\ doc[j.doc].excluded
Unchanged(j, c) == /\ j.trigger # "manual_rerun"
                   /\ c = doc[j.doc].print /\ c = latest[j.doc].print

(* The second gate for robots and personal libraries: no download.         *)
SkipGated ==
  /\ worker.pc = "read" /\ Gated(jobs[Mine])
  /\ Goto("finish")
  /\ UNCHANGED <<doc, text, jobs, latest, rows, click, owed, calm, echoes, crashes, day>>

(* The download: no usable body, the text already scored, or a new text.   *)
Read(c) ==
  /\ worker.pc = "read" /\ ~Gated(jobs[Mine])
  /\ c \in {text[jobs[Mine].doc], None}
  /\ worker' = [worker EXCEPT !.text = c,
                              !.pc = IF c = None \/ Unchanged(jobs[Mine], c)
                                     THEN "finish" ELSE "score"]
  /\ jobs' = [jobs EXCEPT ![Mine].read = TRUE]
  /\ owed' = [owed EXCEPT ![jobs[Mine].doc] = FALSE]
  /\ UNCHANGED <<doc, text, latest, rows, click, calm, echoes, crashes, day>>

(* _notify_decision: first reviews, flips and drops of ten points notify,  *)
(* re-reviews within the day's allowance.                                  *)
RowsToday(d) == Cardinality({i \in DOMAIN rows[d] : rows[d][i].today})
Allowance(d) == IF latest[d].newToday THEN 2 ELSE 1
Notifies(d, verdict, drop) ==
  LET prev == latest[d].verdict
  IN IF prev = None THEN verdict = "low" \/ NotifyOnPass
     ELSE (prev # verdict \/ drop) /\ RowsToday(d) < Allowance(d)

(* The instance, the fingerprint and the notification commit together; the *)
(* job's own status follows in a transaction of its own.                   *)
\* Mutant: the fingerprint is not saved with the instance.
MutScored(d) == doc
Scored(d) == [doc EXCEPT ![d].print = worker.text]

Score(verdict, drop, allowed) ==
  /\ worker.pc = "score"
  /\ LET d == jobs[Mine].doc
         first == latest[d].verdict = None
         row == [again |-> ~first /\ jobs[Mine].trigger = "auto", today |-> TRUE,
                 status |-> "pending"]
     IN /\ latest' = [latest EXCEPT ![d] = [verdict |-> verdict, print |-> worker.text,
                                            newToday |-> @.newToday \/ first]]
        /\ doc' = Scored(d)
        /\ rows' = IF NotifyEnabled /\ allowed /\ Notifies(d, verdict, drop)
                   THEN [rows EXCEPT ![d] = Append(@, row)] ELSE rows
  /\ worker' = [worker EXCEPT !.pc = "finish", !.text = None]
  /\ UNCHANGED <<text, jobs, click, owed, calm, echoes, crashes, day>>

(* A genre that is only registered, or an exception: no instance.          *)
NoScore ==
  /\ worker.pc = "score"
  /\ worker' = [worker EXCEPT !.pc = "finish", !.text = None]
  /\ UNCHANGED <<doc, text, jobs, latest, rows, click, owed, calm, echoes, crashes, day>>

Finish ==
  /\ worker.pc = "finish"
  /\ jobs' = Only(jobs, {i \in DOMAIN jobs : ~jobs[i].mine})
  /\ worker' = [worker EXCEPT !.text = None, !.done = @ + 1,
                              !.pc = IF worker.done + 1 < JobsPerRound THEN "claim" ELSE "pump"]
  /\ UNCHANGED <<doc, text, latest, rows, click, owed, calm, echoes, crashes, day>>

----------------------------------------------------------------------------
(* process_pending_notifications: each recipient whose burst is over gets  *)
(* one message; every outcome is committed at the end.                     *)

Push(d, outcome, delivered) ==
  /\ worker.pc = "pump" /\ PendingRows(d) # {} /\ worker.out[d] = None
  /\ outcome = "sent" => delivered
  /\ worker' = [worker EXCEPT !.out[d] = outcome]
  /\ echoes' = IF delivered THEN [echoes EXCEPT ![d] = @ + 1] ELSE echoes
  /\ UNCHANGED <<doc, text, jobs, latest, rows, click, owed, calm, crashes, day>>

(* A row of an older day no longer counts once it is sent, nor a failed    *)
(* one ever.                                                               *)
\* Mutant: only failures are written back.
MutSettled(d) ==
  IF worker.out[d] = "failed" THEN Silenced(d) ELSE rows[d]
Settled(d) ==
  LET done == [i \in DOMAIN rows[d] |-> [rows[d][i] EXCEPT !.status = "sent"]]
  IN CASE worker.out[d] = "sent"   -> Only(done, {i \in DOMAIN done : done[i].today})
       [] worker.out[d] = "failed" -> Silenced(d)
       [] OTHER                    -> rows[d]

PumpCommit ==
  /\ worker.pc = "pump"
  /\ rows' = [d \in Docs |-> Settled(d)]
  /\ echoes' = [d \in Docs |-> IF \E i \in DOMAIN rows'[d] : rows'[d][i].status = "pending"
                             THEN echoes[d] ELSE 0]
  /\ worker' = Idle
  /\ UNCHANGED <<doc, text, jobs, latest, click, owed, calm, crashes, day>>

----------------------------------------------------------------------------
(* The process ends anywhere; it comes back with the boot sweep, the only  *)
(* place that looks at the leases of running jobs.                         *)

Crash ==
  /\ worker.pc # "down" /\ crashes < MaxCrashes
  /\ crashes' = crashes + 1
  /\ worker' = [Idle EXCEPT !.pc = "down"]
  /\ jobs' = [i \in DOMAIN jobs |-> [jobs[i] EXCEPT !.mine = FALSE]]
  /\ UNCHANGED <<doc, text, latest, rows, click, owed, calm, echoes, day>>

Requeued(j) == IF j.status = "running" /\ j.lease = "lapsed" THEN NewJob(j.doc, j.trigger) ELSE j

Boot ==
  /\ worker.pc = "down"
  /\ worker' = Idle
  /\ jobs' = [i \in DOMAIN jobs |-> Requeued(jobs[i])]
  /\ UNCHANGED <<doc, text, latest, rows, click, owed, calm, echoes, crashes, day>>

(* The hour of a claim ends.  For a job in progress nothing looks at it.   *)
LeaseLapse(i) ==
  /\ i \in DOMAIN jobs /\ jobs[i].lease = "held" /\ ~jobs[i].mine
  /\ jobs' = [jobs EXCEPT ![i].lease = "lapsed"]
  /\ UNCHANGED <<doc, text, latest, rows, worker, click, owed, calm, echoes, crashes, day>>

(* A part of the thirty minutes passes; six hours of editing pass.         *)
WindowRuns(d) ==
  /\ doc[d].due \in 1..Quiet
  /\ doc' = [doc EXCEPT ![d].due = @ - 1]
  /\ UNCHANGED <<text, jobs, latest, rows, worker, click, owed, calm, echoes, crashes, day>>

WindowCaps(d) ==
  /\ doc[d].due # None /\ ~doc[d].capped
  /\ doc' = [doc EXCEPT ![d].capped = TRUE]
  /\ UNCHANGED <<text, jobs, latest, rows, worker, click, owed, calm, echoes, crashes, day>>

Midnight ==
  /\ day < MaxDays
  /\ day' = day + 1
  /\ latest' = [d \in Docs |-> [latest[d] EXCEPT !.newToday = FALSE]]
  /\ rows' = [d \in Docs |->
                LET open == Only(rows[d], PendingRows(d))
                IN [i \in DOMAIN open |-> [open[i] EXCEPT !.today = FALSE]]]
  /\ UNCHANGED <<doc, text, jobs, worker, click, owed, calm, echoes, crashes>>

----------------------------------------------------------------------------
Init ==
  /\ doc \in [Docs -> {[known |-> k, deleted |-> FALSE, excluded |-> FALSE, due |-> None,
                        capped |-> FALSE, print |-> None] : k \in BOOLEAN}]
  /\ text \in [Docs -> Contents]
  /\ jobs = <<>>
  /\ latest = [d \in Docs |-> [verdict |-> None, print |-> None, newToday |-> FALSE]]
  /\ rows = [d \in Docs |-> <<>>]
  /\ worker = Idle
  /\ click = [c \in Clients |-> None]
  /\ owed = [d \in Docs |-> FALSE] /\ calm = [d \in Docs |-> FALSE]
  /\ echoes = [d \in Docs |-> 0]
  /\ crashes = 0 /\ day = 0

WorkerStep ==
  \/ BridgeDone
  \/ \E seen \in [Docs -> {None, "pending", "running"}] : Harvest(seen)
  \/ Claim \/ NothingPending \/ SkipGated
  \/ \E c \in Contents \cup {None} : Read(c)
  \/ \E verdict \in Verdict, drop \in BOOLEAN, allowed \in BOOLEAN : Score(verdict, drop, allowed)
  \/ NoScore \/ Finish \/ PumpCommit

Next ==
  \/ WorkerStep \/ Crash \/ Boot \/ Midnight
  \/ \E i \in DOMAIN jobs : LeaseLapse(i)
  \/ \E c \in Clients : ClickCommit(c)
  \/ \E d \in Docs :
       \/ \E c \in Contents \cup {None} : Edit(d, c)
       \/ \E adoc \in BOOLEAN : WatchNew(d, adoc)
       \/ SeenAgain(d) \/ Missed(d) \/ Exclude(d)
       \/ \E c \in Clients : ClickRead(c, d)
       \/ \E n \in 1..MaxBatch, located \in BOOLEAN, seen \in {None, "pending", "running"} :
            ReviewEvents(d, n, located, seen)
       \/ \E located \in BOOLEAN : ModifyEvent(d, located)
       \/ DeleteEvent(d) \/ RestoreEvent(d)
       \/ \E outcome \in {"sent", "failed"}, delivered \in BOOLEAN : Push(d, outcome, delivered)
       \/ WindowRuns(d) \/ WindowCaps(d)

Spec == Init /\ [][Next]_vars

(* The loop ends each stage, the container restarts, clocks run.           *)
Fairness ==
  /\ WF_vars(WorkerStep) /\ WF_vars(Boot)
  /\ WF_vars(\E i \in DOMAIN jobs : LeaseLapse(i))
  /\ \A d \in Docs : WF_vars(WindowRuns(d)) /\ WF_vars(WindowCaps(d))
FairSpec == Spec /\ Fairness

----------------------------------------------------------------------------
TypeOK ==
  /\ doc \in [Docs -> Doc] /\ text \in [Docs -> Contents \cup {None}]
  /\ jobs \in Seq(Job) /\ latest \in [Docs -> Instance] /\ rows \in [Docs -> Seq(Note)]
  /\ worker \in [pc : Stage, text : Contents \cup {None}, done : 0..JobsPerRound,
                 out : [Docs -> {None, "sent", "failed"}]]
  /\ click \in [Clients -> [doc : Docs, busy : BOOLEAN, full : BOOLEAN] \cup {None}]
  /\ owed \in [Docs -> BOOLEAN] /\ calm \in [Docs -> BOOLEAN] /\ echoes \in [Docs -> Nat]
  /\ crashes \in 0..MaxCrashes /\ day \in 0..MaxDays

(* An edit the bridge has routed is never forgotten (the "修改永久丢失" of  *)
(* harvest_due_reviews): until some job downloads the body again, the      *)
(* merge window is open or a job that will still download it is active,    *)
(* through every crash, zombie job and duplicate.                          *)
NoLostEdit ==
  \A d \in Docs : owed[d] /\ ~doc[d].excluded =>
    doc[d].due # None \/ \E i \in Active(d) : ~jobs[i].read

(* After an event deleted a document, and until an event or a person asks  *)
(* for it again, nothing about it runs or is pushed: not a job the crash   *)
(* of a worker left running, not the window, not an unsent message.        *)
QuietAfterDelete ==
  \A d \in Docs : calm[d] => Active(d) = {} /\ doc[d].due = None /\ PendingRows(d) = {}

(* An automatic review never scores the text of the last instance again,   *)
(* also when a crash between the two commits makes the boot sweep queue    *)
(* the finished job anew (the claim in sweep_stale_runs).                  *)
NoRepeatScore ==
  worker.pc = "score" /\ jobs[Mine].trigger = "auto" =>
    worker.text # latest[jobs[Mine].doc].print

(* A message is delivered again for rows already told only because a crash *)
(* came between the send and the commit.                                   *)
RepeatNeedsCrash == \A d \in Docs : echoes[d] <= 1 + crashes

(* Every routed edit is eventually read, however long the author goes on   *)
(* editing, unless the document is excluded or deleted or sits behind a    *)
(* job that a crash interrupted.                                           *)
Interrupted(d) == \E i \in Active(d) : jobs[i].status = "running" /\ ~jobs[i].mine
EditsReviewed == \A d \in Docs : owed[d] ~> ~owed[d] \/ doc[d].excluded \/ Interrupted(d)

(* What sweep_stale_runs says it prevents: a job interrupted by a crash    *)
(* stays running for ever and its merge window with it.                    *)
InterruptedJobsReturn == \A d \in Docs : Interrupted(d) ~> ~Interrupted(d)

(* What enqueue_review says of its row lock: simultaneous clicks cannot    *)
(* queue the same node.                                                    *)
ClicksQueueOnce ==
  \A d \in Docs : Cardinality({i \in Active(d) : jobs[i].trigger = "manual_rerun"}) <= 1
=============================================================================
