----------------------------- MODULE MonthlyScan -----------------------------
(***************************************************************************)
(* The monthly calibration of all libraries (app/scan_scheduler.py): one   *)
(* durable cycle per month, one task per library, slices run by the        *)
(* watcher or by an administrator's request under a MySQL advisory lock,   *)
(* and the two administrator commands of app/scan_recovery.py.             *)
(*                                                                         *)
(* Within one month, in the metadata-only mode of production.  The walk of *)
(* a library is LibraryMirror; here it is the sync_runs row it leaves.     *)
(* A run belongs to a library and to the recovery it was made for, 0 for   *)
(* the month's first attempt.                                              *)
(***************************************************************************)
EXTENDS Naturals, FiniteSets

CONSTANTS
  Libs, Procs, Watcher, None,
  Scopes,           \* the sets of libraries the configuration may resolve to
  MaxAttempts,      \* KG_SCAN_MAX_ATTEMPTS
  SliceSize,        \* KG_WATCH_SLICE_SIZE
  MaxRecoveries, MaxResumes,   \* bounds: the administrator's commands
  MaxBreaks         \* bound: walks cut short by a slice's end, a crash or a lost lock

ASSUME Scope == Watcher \in Procs /\ IsFiniteSet(Libs) /\ Scopes \subseteq (SUBSET Libs) \ {{}}
ASSUME Sizes == /\ MaxAttempts \in Nat \ {0} /\ SliceSize \in Nat \ {0}
                /\ MaxRecoveries \in Nat /\ MaxResumes \in Nat /\ MaxBreaks \in Nat

VARIABLES
  cycle,    \* the scan_cycles row and the recovery it runs for
  task,     \* scan_tasks
  run,      \* sync_runs of each library and recovery
  dayFull,  \* today's calls have reached the scan's share of the daily limit
  lock,     \* who holds GET_LOCK('kg_monthly_scan')
  proc,     \* a slice in progress: its place, its tasks, the library it walks
  failures, \* ghost: failed runs of each library since its attempts were last reset
  cut,      \* ghost: "lock" was lost, a retry cut off before its "open", a run that "succeeded"
            \* cut off before its record, an error not recorded in the run ("raise")
  resumes, breaks
vars == <<cycle, task, run, dayFull, lock, proc, failures, cut, resumes, breaks>>

----------------------------------------------------------------------------
Ended == {"completed", "completed_with_errors", "budget_exhausted"}
Recoveries == 0..MaxRecoveries
(* rate: error_code is dingtalk_rate_limited, the one a slice looks at;    *)
(* wait: next_attempt_at lies in the future.                               *)
Task == [status : {"pending", "running", "succeeded", "dead_letter"}, attempts : Nat,
         run : Recoveries \cup {None}, recovery : Recoveries,
         rate : BOOLEAN, wait : {"none", "retry", "day"}]
(* began: the recovery during which the collection started.                *)
Run == [status : {"none", "running", "paused", "failed", "succeeded"}, began : Recoveries \cup {None}]
Results == {"succeeded", "running", "daily", "rate", "budget", "error"}
ASSUME NoneFresh == /\ None \notin Procs /\ None \notin Recoveries /\ None \notin Task
                    /\ None \notin Results
Idle == [pc |-> "idle", todo |-> {}, tasks |-> {}, lib |-> None, run |-> None, walked |-> 0,
         result |-> None]

NewTask(r) == [status |-> "pending", attempts |-> 0, run |-> None, recovery |-> r,
               rate |-> FALSE, wait |-> "none"]
Planned == {l \in Libs : task[l] # None}
(* The tasks of a slice: those of the recovery, if there is one.           *)
Current == {l \in Planned : cycle.recovery > 0 => task[l].recovery = cycle.recovery}
\* Mutant: a library that was given up keeps the cycle open.
MutSettled(l) == task[l].status = "succeeded"
Settled(l) == task[l].status \in {"succeeded", "dead_letter"}
Id(p) == <<proc[p].lib, proc[p].run>>
Go(p, pc) == proc' = [proc EXCEPT ![p].pc = pc]
Exit(p) == proc' = [proc EXCEPT ![p] = Idle] /\ lock' = IF lock = p THEN None ELSE lock

----------------------------------------------------------------------------
(* A slice.                                                                *)

(* resolve_watch_targets is asked for the month's libraries; a failure     *)
(* leaves no cycle.                                                        *)
Plan(p, targets) ==
  /\ proc[p].pc = "idle" /\ lock = None /\ cycle.status = "none" /\ ~dayFull
  /\ cycle' = [cycle EXCEPT !.status = "running", !.targets = targets]
  /\ task' = [l \in Libs |-> IF l \in targets THEN NewTask(0) ELSE None]
  /\ proc' = [proc EXCEPT ![p] = [Idle EXCEPT !.pc = "loop", !.todo = targets, !.tasks = targets]]
  /\ lock' = p
  /\ UNCHANGED <<run, dayFull, failures, cut, resumes, breaks>>

\* Mutant: a failed library has one attempt too many.
MutExhausted(t) == t.attempts > MaxAttempts
Exhausted(t) == t.attempts >= MaxAttempts

\* Mutant: an interrupted task that has used its attempts is given up.
MutInterrupted(t) ==
  IF t.status = "running" THEN [t EXCEPT !.status = IF Exhausted(t) THEN "dead_letter" ELSE "pending"] ELSE t
(* We own the lock: whoever left a task running was interrupted.           *)
Interrupted(t) ==
  IF t.status = "running"
  THEN [t EXCEPT !.rate = FALSE,
                 !.status = IF t.run = None /\ Exhausted(t) THEN "dead_letter" ELSE "pending",
                 !.wait = "none"]
  ELSE t

Begin(p) ==
  LET fixed == [l \in Libs |-> IF l \in Current THEN Interrupted(task[l]) ELSE task[l]]
      cooling == \E l \in Current : fixed[l].rate /\ fixed[l].wait = "retry"
      ready == {l \in Current : fixed[l].status = "pending" /\ fixed[l].wait = "none"}
  IN  /\ proc[p].pc = "idle" /\ lock = None /\ cycle.status = "running" /\ ~dayFull
      /\ task' = fixed
      /\ IF cooling
         THEN UNCHANGED <<proc, lock>>
         ELSE /\ proc' = [proc EXCEPT ![p] = [Idle EXCEPT !.pc = "loop", !.todo = ready, !.tasks = Current]]
              /\ lock' = p
      /\ UNCHANGED <<cycle, run, dayFull, failures, cut, resumes, breaks>>

(* A run that is still going on, or was never recorded, is continued and   *)
(* costs no attempt.                                                       *)
Continues(l) ==
  task[l].run # None /\ run[l, task[l].run].status \in {"none", "running", "paused"}
\* Mutant: the attempt is counted when the result is recorded, if it is.
MutReserved(l) == [task[l] EXCEPT !.status = "running", !.run = IF @ = None THEN cycle.recovery ELSE @]
Reserved(l) ==
  [task[l] EXCEPT !.status = "running",
                  !.attempts = IF Continues(l) THEN @ ELSE @ + 1,
                  !.run = IF @ = None THEN cycle.recovery ELSE @]

(* The attempt is committed before DingTalk is touched.                    *)
Reserve(p, l) ==
  /\ proc[p].pc = "loop" /\ l \in proc[p].todo
  /\ task[l].status = "pending" /\ task[l].wait = "none"
  /\ task' = [task EXCEPT ![l] = Reserved(l)]
  /\ proc' = [proc EXCEPT ![p].pc = "open", ![p].lib = l, ![p].run = task'[l].run,
                          ![p].todo = @ \ {l}]
  /\ UNCHANGED <<cycle, run, dayFull, lock, failures, cut, resumes, breaks>>

(* watch_paged commits its sync_runs row first; a run that had succeeded   *)
(* is returned as it is.                                                   *)
Open(p) ==
  /\ proc[p].pc = "open"
  /\ IF run[Id(p)].status = "succeeded"
     THEN /\ proc' = [proc EXCEPT ![p].pc = "record", ![p].result = "succeeded"]
          /\ UNCHANGED run
     ELSE /\ run' = [run EXCEPT ![Id(p)].status = "running"]
          /\ Go(p, "walk")
  /\ UNCHANGED <<cycle, task, dayFull, lock, failures, cut, resumes, breaks>>

(* The commit that starts the collection.                                  *)
SetUp(p) ==
  /\ proc[p].pc = "walk" /\ run[Id(p)].began = None
  /\ run' = [run EXCEPT ![Id(p)].began = cycle.recovery]
  /\ UNCHANGED <<cycle, task, dayFull, lock, proc, failures, cut, resumes, breaks>>

Result(p, status, result) ==
  /\ proc[p].pc = "walk"
  /\ run' = [run EXCEPT ![Id(p)].status = status]
  /\ proc' = [proc EXCEPT ![p].pc = "record", ![p].result = result]

Succeed(p) ==
  /\ Result(p, "succeeded", "succeeded") /\ run[Id(p)].began # None
  /\ UNCHANGED <<cycle, task, dayFull, lock, failures, cut, resumes, breaks>>

(* The pages of the slice are used up.                                     *)
Partial(p) ==
  /\ breaks < MaxBreaks /\ breaks' = breaks + 1
  /\ Result(p, "running", "running") /\ run[Id(p)].began # None
  /\ UNCHANGED <<cycle, task, dayFull, lock, failures, cut, resumes>>

(* reserve_call refuses: the rest of the day belongs to incremental work.  *)
Pause(p) ==
  /\ breaks < MaxBreaks /\ breaks' = breaks + 1
  /\ Result(p, "paused", "daily") /\ dayFull' = TRUE
  /\ UNCHANGED <<cycle, task, lock, failures, cut, resumes>>

FailWalk(p, code) ==
  /\ Result(p, "failed", code)
  /\ failures' = [failures EXCEPT ![proc[p].lib] = @ + 1]
  /\ UNCHANGED <<cycle, task, dayFull, lock, cut, resumes, breaks>>

(* An error that the run could not record, such as a lost database.        *)
Raise(p) ==
  /\ proc[p].pc \in {"open", "walk"} /\ breaks < MaxBreaks
  /\ breaks' = breaks + 1 /\ cut' = cut \cup {"raise"}
  /\ proc' = [proc EXCEPT ![p].pc = "record", ![p].result = "error"]
  /\ failures' = [failures EXCEPT ![proc[p].lib] = @ + 1]
  /\ UNCHANGED <<cycle, task, run, dayFull, lock, resumes>>

(* The task after a walk.                                                  *)
Outcome(t, id, result) ==
  CASE result = "succeeded" -> [t EXCEPT !.status = "succeeded", !.run = id, !.rate = FALSE, !.wait = "none"]
    [] result = "running"   -> [t EXCEPT !.status = "pending", !.run = id, !.rate = FALSE, !.wait = "none"]
    [] result = "daily"     -> [t EXCEPT !.status = "pending", !.run = id, !.rate = FALSE, !.wait = "day"]
    [] OTHER -> [t EXCEPT !.status = IF Exhausted(t) THEN "dead_letter" ELSE "pending",
                          !.run = id, !.rate = result = "rate", !.wait = "retry"]

\* Mutant: a rate limit concerns the library that met it.
MutStops(result, walked) == walked >= SliceSize
(* The provider's rate limit and the end of the cycle end the slice too.   *)
Stops(result, walked) == result \in {"rate", "budget"} \/ walked >= SliceSize

Record(p) ==
  LET l == proc[p].lib
      result == proc[p].result
      walked == proc[p].walked + 1
  IN  /\ proc[p].pc = "record"
      /\ task' = [task EXCEPT ![l] = Outcome(@, proc[p].run, result)]
      /\ cycle' = [cycle EXCEPT !.status = IF result = "budget" THEN "budget_exhausted" ELSE @]
      /\ proc' = [proc EXCEPT ![p].pc = IF Stops(result, walked) \/ cycle'.status # "running" THEN "finish" ELSE "loop",
                              ![p].walked = walked, ![p].lib = None, ![p].run = None, ![p].result = None]
      /\ UNCHANGED <<run, dayFull, lock, failures, cut, resumes, breaks>>

NothingLeft(p) ==
  /\ proc[p].pc = "loop"
  /\ \A l \in proc[p].todo : task[l].status # "pending" \/ task[l].wait # "none"
  /\ Go(p, "finish")
  /\ UNCHANGED <<cycle, task, run, dayFull, lock, failures, cut, resumes, breaks>>

(* complete_cycle: every target has a run of its own that succeeded and    *)
(* whose collection began after the request.                               *)
\* Mutant: it is enough that every task has succeeded.
MutComplete(tasks) == \A l \in tasks : task[l].status = "succeeded"
Complete(tasks) ==
  /\ tasks = cycle.targets
  /\ \A l \in tasks :
       /\ task[l].status = "succeeded" /\ task[l].run # None
       /\ LET r == run[l, task[l].run] IN r.status = "succeeded" /\ r.began # None /\ r.began >= cycle.recovery

Finish(p) ==
  /\ proc[p].pc = "finish"
  /\ cycle' = IF cycle.status = "running" /\ \A l \in proc[p].tasks : Settled(l)
              THEN [cycle EXCEPT !.status = IF Complete(proc[p].tasks) THEN "completed"
                                            ELSE "completed_with_errors"]
              ELSE cycle
  /\ Exit(p)
  /\ UNCHANGED <<task, run, dayFull, failures, cut, resumes, breaks>>

----------------------------------------------------------------------------
(* Commands of an administrator, under the same lock.                      *)

(* prepare_recovery for the libraries in scope today.                      *)
Prepare(targets) ==
  /\ lock = None /\ cycle.recovery < MaxRecoveries
  /\ ~(cycle.status = "running" /\ cycle.recovery > 0)
  /\ LET r == cycle.recovery + 1
     IN  /\ cycle' = [status |-> "running", recovery |-> r, targets |-> targets]
         /\ task' = [l \in Libs |-> IF l \in targets THEN NewTask(r) ELSE task[l]]
  /\ failures' = [l \in Libs |-> IF l \in targets THEN 0 ELSE failures[l]]
  /\ UNCHANGED <<run, dayFull, lock, proc, cut, resumes, breaks>>

\* Mutant: all tasks are opened again.
MutReopened(t) == [t EXCEPT !.status = "pending", !.attempts = 0]
Reopened(t) ==
  IF t.status = "dead_letter"
  THEN [t EXCEPT !.status = "pending", !.attempts = 0,
                 !.rate = @ /\ t.wait = "retry",
                 !.wait = IF t.rate THEN @ ELSE "none"]
  ELSE t

(* resume_failed, applied: only failed libraries, from their checkpoints.  *)
ResumeFailed ==
  /\ lock = None /\ cycle.status = "completed_with_errors" /\ cycle.recovery > 0
  /\ resumes < MaxResumes /\ resumes' = resumes + 1
  /\ Planned = cycle.targets
  /\ \A l \in Planned : /\ Settled(l) /\ task[l].recovery = cycle.recovery /\ task[l].run # None
                        /\ LET r == run[l, task[l].run]
                           IN  r.began # None /\ (task[l].status = "succeeded" <=> r.status = "succeeded")
  /\ task' = [l \in Libs |-> IF task[l] = None THEN None ELSE Reopened(task[l])]
  /\ cycle' = [cycle EXCEPT !.status = "running"]
  /\ failures' = [l \in Libs |-> IF task[l] # None /\ task[l].status = "dead_letter" THEN 0 ELSE failures[l]]
  /\ UNCHANGED <<run, dayFull, lock, proc, cut, breaks>>

----------------------------------------------------------------------------
(* Clocks and failures.                                                    *)

RetryDue(l) ==
  /\ task[l] # None /\ task[l].wait = "retry"
  /\ task' = [task EXCEPT ![l].wait = "none"]
  /\ UNCHANGED <<cycle, run, dayFull, lock, proc, failures, cut, resumes, breaks>>

NextDay ==
  /\ dayFull \/ \E l \in Planned : task[l].wait = "day"
  /\ dayFull' = FALSE
  /\ task' = [l \in Libs |-> IF task[l] # None /\ task[l].wait = "day" THEN [task[l] EXCEPT !.wait = "none"]
                             ELSE task[l]]
  /\ UNCHANGED <<cycle, run, lock, proc, failures, cut, resumes, breaks>>

(* A process dies; its database session and the lock go with it.  The      *)
(* watcher starts again with a sweep.                                      *)
Crash(p) ==
  /\ proc[p].pc \notin {"idle", "boot"} /\ breaks < MaxBreaks
  /\ breaks' = breaks + 1 /\ cut' = cut \cup ({"open", "succeeded"} \cap {proc[p].pc, proc[p].result})
  /\ proc' = [proc EXCEPT ![p] = [Idle EXCEPT !.pc = IF p = Watcher THEN "boot" ELSE "idle"]]
  /\ lock' = IF lock = p THEN None ELSE lock
  /\ UNCHANGED <<cycle, task, run, dayFull, failures, resumes>>

(* sweep_stale_runs: runs without a checkpoint have failed.                *)
Boot ==
  /\ proc[Watcher].pc = "boot"
  /\ Go(Watcher, "idle")
  /\ run' = [id \in DOMAIN run |-> IF lock = None /\ run[id].status = "running" /\ run[id].began = None
                                   THEN [run[id] EXCEPT !.status = "failed"] ELSE run[id]]
  /\ failures' = [l \in Libs |-> IF task[l] # None /\ task[l].run # None
                                    /\ run'[l, task[l].run] # run[l, task[l].run]
                                 THEN failures[l] + 1 ELSE failures[l]]
  /\ UNCHANGED <<cycle, task, dayFull, lock, cut, resumes, breaks>>

(* The connection that holds the lock breaks during a slice.               *)
LoseLock ==
  /\ lock # None /\ breaks < MaxBreaks
  /\ lock' = None /\ cut' = cut \cup {"lock"} /\ breaks' = breaks + 1
  /\ UNCHANGED <<cycle, task, run, dayFull, proc, failures, resumes>>

----------------------------------------------------------------------------
Init ==
  /\ cycle = [status |-> "none", recovery |-> 0, targets |-> {}]
  /\ task = [l \in Libs |-> None]
  /\ run = [id \in Libs \X Recoveries |-> [status |-> "none", began |-> None]]
  /\ dayFull = FALSE /\ lock = None
  /\ proc = [p \in Procs |-> Idle]
  /\ failures = [l \in Libs |-> 0]
  /\ cut = {} /\ resumes = 0 /\ breaks = 0

Work(p) ==
  \/ Begin(p) \/ Open(p) \/ SetUp(p) \/ Record(p) \/ NothingLeft(p) \/ Finish(p)
  \/ \E l \in Libs : Reserve(p, l)
Walk(p) ==
  \/ Succeed(p) \/ Partial(p) \/ Pause(p) \/ Raise(p)
  \/ \E code \in {"rate", "budget", "error"} : FailWalk(p, code)
Next ==
  \/ \E p \in Procs : Work(p) \/ Walk(p) \/ Crash(p)
  \/ \E p \in Procs, targets \in Scopes : Plan(p, targets)
  \/ \E targets \in Scopes : Prepare(targets)
  \/ ResumeFailed \/ Boot \/ LoseLock
  \/ NextDay \/ \E l \in Libs : RetryDue(l)

Spec == Init /\ [][Next]_vars
(* Slices end (every request has a time limit), the watcher loops for ever *)
(* and is restarted, and clocks run.                                       *)
FairSpec ==
  /\ Spec
  /\ WF_vars(\E p \in Procs : Work(p) \/ Walk(p)) /\ WF_vars(Boot)
  /\ WF_vars(NextDay) /\ WF_vars(\E l \in Libs : RetryDue(l))

----------------------------------------------------------------------------
(* Properties.                                                             *)

(* Types; while nobody lost the lock only its holder is inside a slice.    *)
TypeOK ==
  /\ cycle \in [status : Ended \cup {"none", "running"}, recovery : Recoveries, targets : SUBSET Libs]
  /\ task \in [Libs -> Task \cup {None}]
  /\ run \in [Libs \X Recoveries -> Run]
  /\ dayFull \in BOOLEAN /\ lock \in Procs \cup {None}
  /\ \A p \in Procs : "lock" \notin cut /\ proc[p].pc \notin {"idle", "boot"} => lock = p
  /\ failures \in [Libs -> Nat]

(* inventory_reconciled_at is set only when every library in scope was     *)
(* collected completely after the request - whatever an interrupted, late  *)
(* or lock-less slice of an earlier request wrote meanwhile.               *)
CompletedIsCollected ==
  cycle'.status = "completed" /\ cycle.status # "completed" =>
    \A l \in cycle.targets :
      \E r \in Recoveries : run[l, r].status = "succeeded" /\ run[l, r].began # None
                            /\ run[l, r].began >= cycle.recovery

(* A failed walk has been paid for with an attempt before it began, unless *)
(* an earlier one failed without a record in its run.                      *)
FailuresArePaid ==
  cut \cap {"lock", "raise"} = {} => \A l \in Planned : failures[l] <= task[l].attempts

(* Restarts do not use up a library: it is given up only when its runs     *)
(* have failed as often as the limit says.  The exceptions are a restart   *)
(* between the reservation of a retry and the opening of its run, and one  *)
(* between the success of a run and its record: it costs an attempt to     *)
(* find the run complete, and an error on the way gives the library up.    *)
GivenUpAfterFailures ==
  cut \cap {"lock", "open", "succeeded"} = {} =>
    \A l \in Planned : task[l].status = "dead_letter" => failures[l] >= MaxAttempts

(* Nor do they open it for ever: an interruption is worth at most one      *)
(* attempt more.                                                           *)
AttemptsBounded == \A l \in Planned : task[l].attempts <= MaxAttempts + breaks

(* Attempts are neither free nor lost nor unlimited.                       *)
AttemptsAreFair == FailuresArePaid /\ GivenUpAfterFailures /\ AttemptsBounded

(* A library that succeeded is not scanned again by retries, restarts or   *)
(* the resumption of failed ones; only a new recovery does that.           *)
SuccessIsKept ==
  "lock" \notin cut /\ cycle'.recovery = cycle.recovery =>
    \A l \in Planned : task[l].status = "succeeded" => task'[l] = task[l]

(* A completed cycle is a complete inventory, and no library of it is      *)
(* collected twice for one request.                                        *)
CollectedOnce == [][CompletedIsCollected /\ SuccessIsKept]_vars

(* The provider's rate limit is for the whole application: while a library *)
(* waits for it no other library of the cycle is walked.                   *)
RateLimitStopsAll ==
  [][\A p \in Procs : proc[p].pc = "loop" /\ proc'[p].pc = "open" /\ "lock" \notin cut =>
       \A l \in Current : ~(task[l].rate /\ task[l].wait = "retry")]_vars

(* A cycle that runs ends: its libraries succeed or use up their attempts, *)
(* or the budget is spent.                                                 *)
CycleEnds == cycle.status = "running" ~> cycle.status \in Ended
=============================================================================
