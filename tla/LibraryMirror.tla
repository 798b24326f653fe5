---------------------------- MODULE LibraryMirror ----------------------------
(***************************************************************************)
(* One library: the tree DingTalk keeps, the documents rows that mirror    *)
(* it, and the two writers of those rows - the paged calibration walk      *)
(* (app/scan_pages.py, app/service.py:_upsert_document) and the audit      *)
(* bridge (app/audit_bridge.py) - in the metadata-only mode of production. *)
(*                                                                         *)
(* Folders stay where they are; files are renamed, moved, deleted and      *)
(* restored while the walk lists one directory page after another.  Every  *)
(* commit of a row takes the next instant of one clock, as do remote       *)
(* changes, so that no two time stamps are equal.                          *)
(***************************************************************************)
EXTENDS Naturals, FiniteSets, FiniteSetsExt

CONSTANTS
  Files, Folders,   \* node ids, ordered as the database orders them
  Root, Gone, None,
  PageSize,         \* nodes of a directory page (30 in the code)
  Batch,            \* rows reconciled in one transaction (100 in the code)
  DeleteMisses,     \* KG_WATCH_DELETE_MISSES
  MaxRuns, MaxChanges, MaxFaults   \* bounds of the model

ASSUME Ids == /\ Files \subseteq Nat \ {0} /\ Folders \subseteq Nat \ {0} /\ Files \cap Folders = {}
              /\ IsFiniteSet(Files \cup Folders)
              /\ Gone # Root /\ Gone \notin Folders
ASSUME Sizes == /\ PageSize \in Nat \ {0} /\ Batch \in Nat \ {0} /\ DeleteMisses \in Nat \ {0}
                /\ MaxRuns \in Nat /\ MaxChanges \in Nat /\ MaxFaults \in Nat

VARIABLES
  remote,   \* DingTalk: place and last rename of each node, time of its last change
  docs,     \* documents rows
  run,      \* the sync_runs row and its scan_progress
  dirs,     \* scan_directories: what is listed of each directory met so far
  seen,     \* scan_seen
  page,     \* the walker: a fetched page that is not committed yet
  events,   \* audit events pulled and not finished
  bridge,   \* the bridge: a located node whose facts are not written yet
  now, changes, faults, runs,
  disturbed,  \* ghost: nodes absent or moved at some time since the run started
  excuse      \* ghost: runs in which a node was disturbed since it was last confirmed
vars == <<remote, docs, run, dirs, seen, page, events, bridge, now, changes, faults, runs,
          disturbed, excuse>>

----------------------------------------------------------------------------
Nodes == Files \cup Folders
Directories == {Root} \cup Folders
Change == {"meta", "delete", "restore"}
Event == [node : Files, kind : Change, at : Nat]
Item == [place : Directories \cup {Gone}, fact : Nat, ver : Nat]
Doc == [place : Directories, fact : Nat, deleted : BOOLEAN, misses : 0..DeleteMisses,
        applied : Nat, source : Nat, ver : Nat]
Unlisted == [token |-> 0, done |-> FALSE]
NoRun == [status |-> "none", phase |-> "walk", started |-> 0, cursor |-> 0]

(* The k smallest ids of S.                                                *)
First(S, k) == {n \in S : Cardinality({m \in S : m < n}) < k}
InTree(n) == remote[n].place # Gone

(* metadata_applied_at is later than collection_started_at.                *)
Newer(n) == docs[n].applied > run.started

----------------------------------------------------------------------------
(* Changes in DingTalk.  The audit feed may never deliver the event.       *)

Changed(n, place, fact, kind) ==
  /\ changes < MaxChanges
  /\ changes' = changes + 1 /\ now' = now + 1
  /\ remote' = [remote EXCEPT ![n] = [place |-> place, fact |-> fact, ver |-> now + 1]]
  /\ \/ events' = events \cup {[node |-> n, kind |-> kind, at |-> now + 1]}
     \/ UNCHANGED events
  /\ UNCHANGED <<docs, run, dirs, seen, page, bridge, faults, runs>>

(* What happens outside a run is seen, or missed, by the whole next run.   *)
Disturb(S) ==
  LET T == IF run.status \in {"running", "failed"} THEN S \ disturbed ELSE {}
  IN  /\ disturbed' = disturbed \cup T
      /\ excuse' = [n \in Nodes |-> excuse[n] + IF n \in T THEN 1 ELSE 0]

Rename(n) == /\ InTree(n) /\ Changed(n, remote[n].place, now + 1, "meta")
             /\ UNCHANGED <<disturbed, excuse>>
Move(n, p) == /\ InTree(n) /\ p # remote[n].place
              /\ Changed(n, p, remote[n].fact, "meta") /\ Disturb({n})
Delete(n) == /\ InTree(n) /\ Changed(n, Gone, remote[n].fact, "delete") /\ Disturb({n})
Restore(n, p) == /\ ~InTree(n) /\ Changed(n, p, remote[n].fact, "restore") /\ Disturb({n})

----------------------------------------------------------------------------
(* The walk.                                                               *)

(* The commit that opens a run: its directories, its start, its progress.  *)
(* A failed run may be resumed or, after a recovery, replaced.             *)
Start ==
  /\ run.status # "running" /\ page = None /\ runs < MaxRuns
  /\ runs' = runs + 1 /\ now' = now + 1
  /\ run' = [status |-> "running", phase |-> "walk", started |-> now + 1, cursor |-> 0]
  /\ dirs' = [q \in {Root} |-> Unlisted]
  /\ seen' = {}
  /\ LET S == {n \in Nodes : ~InTree(n)}
     IN  disturbed' = S /\ excuse' = [n \in Nodes |-> excuse[n] + IF n \in S THEN 1 ELSE 0]
  /\ UNCHANGED <<remote, docs, page, events, bridge, changes, faults>>

Resume ==
  /\ run.status = "failed"
  /\ run' = [run EXCEPT !.status = "running"]
  /\ UNCHANGED <<remote, docs, dirs, seen, page, events, bridge, now, changes, faults, runs,
                 disturbed, excuse>>

Undone == {p \in DOMAIN dirs : ~dirs[p].done}

(* list_nodes: the next page of p, as DingTalk has it at this moment.  The *)
(* token of the next page is the last node of this one, 0 at the end.      *)
Listing(p) ==
  LET rest == {n \in Nodes : remote[n].place = p /\ n > dirs[p].token}
      items == First(rest, PageSize)
  IN  [dir |-> p, items |-> [n \in items |-> remote[n]],
       next |-> IF rest = items THEN 0 ELSE Max(items)]

Fetch ==
  /\ run.status = "running" /\ run.phase = "walk" /\ page = None
  /\ \E p \in Undone : page' = Listing(p)
  /\ UNCHANGED <<remote, docs, run, dirs, seen, events, bridge, now, changes, faults, runs,
                 disturbed, excuse>>

(* _upsert_document for an item of the page of p.  A row that nothing      *)
(* changes keeps its time stamp.                                           *)
Written(n, item, p) ==
  LET row == [docs[n] EXCEPT !.place = p, !.fact = item.fact, !.deleted = FALSE, !.misses = 0]
  IN  [row EXCEPT !.ver = item.ver,
                  !.applied = IF row = docs[n] THEN @ ELSE run.started,
                  !.source = IF row = docs[n] THEN @ ELSE run.started]
\* Mutants: a known row keeps its facts; a row newer than the scan is overwritten.
MutUpsert(n, item, p) == IF Newer(n) THEN docs[n] ELSE [docs[n] EXCEPT !.deleted = FALSE, !.misses = 0]
MutOverwrite(n, item, p) == Written(n, item, p)
Upsert(n, item, p) == IF Newer(n) THEN docs[n] ELSE Written(n, item, p)

\* Mutant: after the last page the listing starts again.
MutListed(pg) == [token |-> pg.next, done |-> FALSE]
Listed(pg) == [token |-> pg.next, done |-> pg.next = 0]
Subdirectories(items) == (items \cap Folders) \ DOMAIN dirs

Confirm(S) == excuse' = [n \in Nodes |-> IF n \in S /\ ~Newer(n) THEN IF n \in disturbed THEN 1 ELSE 0
                                         ELSE excuse[n]]

(* One transaction: rows, seen ids, new directories and the next token.    *)
CommitPage ==
  /\ page # None /\ run.status = "running"
  /\ LET p == page.dir
         new == DOMAIN page.items \ seen
     IN  /\ docs' = [n \in Nodes |-> IF n \in new THEN Upsert(n, page.items[n], p) ELSE docs[n]]
         /\ seen' = seen \cup new
         /\ dirs' = [q \in DOMAIN dirs \cup Subdirectories(new) |->
                       IF q = p THEN Listed(page) ELSE IF q \in DOMAIN dirs THEN dirs[q] ELSE Unlisted]
         /\ Confirm(new)
  /\ page' = None
  /\ UNCHANGED <<remote, run, events, bridge, now, changes, faults, runs, disturbed>>

WalkEnds ==
  /\ run.status = "running" /\ run.phase = "walk" /\ page = None /\ Undone = {}
  /\ run' = [run EXCEPT !.phase = "reconcile"]
  /\ UNCHANGED <<remote, docs, dirs, seen, page, events, bridge, now, changes, faults, runs,
                 disturbed, excuse>>

Unsettled == {n \in Nodes : n > run.cursor /\ ~docs[n].deleted}
\* Mutant: the cursor is not saved with the misses.
MutSettled(batch) == run
Missing(n) ==
  LET misses == docs[n].misses + 1
  IN  IF misses >= DeleteMisses
      THEN [docs[n] EXCEPT !.misses = misses, !.deleted = TRUE, !.applied = now + 1, !.source = now + 1]
      ELSE [docs[n] EXCEPT !.misses = misses]
Settled(batch) == [run EXCEPT !.cursor = Max(batch)]

(* A batch of live rows in id order: those the walk has not seen.          *)
Reconcile ==
  /\ run.status = "running" /\ run.phase = "reconcile" /\ Unsettled # {}
  /\ LET batch == First(Unsettled, Batch)
     IN  /\ docs' = [n \in Nodes |-> IF n \in batch /\ n \notin seen /\ ~Newer(n) THEN Missing(n)
                                     ELSE docs[n]]
         /\ run' = Settled(batch)
  /\ now' = IF \A n \in Nodes : docs'[n].applied = docs[n].applied THEN now ELSE now + 1
  /\ UNCHANGED <<remote, dirs, seen, page, events, bridge, changes, faults, runs, disturbed, excuse>>

Complete ==
  /\ run.status = "running" /\ run.phase = "reconcile" /\ Unsettled = {}
  /\ run' = [run EXCEPT !.phase = "complete", !.status = "succeeded"]
  /\ UNCHANGED <<remote, docs, dirs, seen, page, events, bridge, now, changes, faults, runs,
                 disturbed, excuse>>

(* A request fails, its page is refused, or a commit is rolled back.       *)
Fail ==
  /\ run.status = "running" /\ faults < MaxFaults
  /\ run' = [run EXCEPT !.status = "failed"]
  /\ page' = None /\ faults' = faults + 1
  /\ UNCHANGED <<remote, docs, dirs, seen, events, bridge, now, changes, runs, disturbed, excuse>>

(* The watcher dies: only the page in memory is lost.                      *)
Crash ==
  /\ page # None /\ faults < MaxFaults
  /\ page' = None /\ faults' = faults + 1
  /\ UNCHANGED <<remote, docs, run, dirs, seen, events, bridge, now, changes, runs,
                 disturbed, excuse>>

----------------------------------------------------------------------------
(* The bridge.  Events arrive in any order: the pull looks back for late   *)
(* ones.                                                                   *)

(* _metadata_source_ms: the event the row reflects, or the time it was     *)
(* written by something else than an event.                                *)
Superseded(e) == docs[e.node].source > e.at

Locate ==
  /\ bridge = None
  /\ \E e \in events : /\ e.kind = "meta" /\ InTree(e.node)
                       /\ bridge' = [event |-> e, item |-> remote[e.node]]
  /\ UNCHANGED <<remote, docs, run, dirs, seen, page, events, now, changes, faults, runs,
                 disturbed, excuse>>

(* _upsert_audit_document: the located facts, but not the folder.          *)
Record ==
  /\ bridge # None
  /\ LET e == bridge.event
         n == e.node
     IN  IF docs[n].deleted /\ Superseded(e)
         THEN UNCHANGED <<docs, now, excuse>>
         ELSE /\ docs' = [docs EXCEPT ![n] = [@ EXCEPT !.fact = bridge.item.fact, !.deleted = FALSE,
                              !.misses = 0, !.applied = now + 1, !.source = now + 1,
                              !.ver = bridge.item.ver]]
              /\ now' = now + 1
              /\ excuse' = [excuse EXCEPT ![n] = IF n \in disturbed THEN 1 ELSE 0]
  /\ events' = events \ {bridge.event}
  /\ bridge' = None
  /\ UNCHANGED <<remote, run, dirs, seen, page, changes, faults, runs, disturbed>>

(* _handle_delete_restore: no request, the row's flag only.                *)
Flip(e) ==
  /\ e.kind # "meta"
  /\ IF Superseded(e)
     THEN UNCHANGED <<docs, now, excuse>>
     ELSE /\ docs' = [docs EXCEPT ![e.node] = [@ EXCEPT !.deleted = e.kind = "delete", !.misses = 0,
                          !.applied = now + 1, !.source = e.at, !.ver = e.at]]
          /\ now' = now + 1
          /\ excuse' = [excuse EXCEPT ![e.node] = IF e.node \in disturbed THEN 1 ELSE 0]
  /\ events' = events \ {e}
  /\ UNCHANGED <<remote, run, dirs, seen, page, bridge, changes, faults, runs, disturbed>>

(* The worker dies between the answer and the write.                       *)
BridgeCrash ==
  /\ bridge # None /\ faults < MaxFaults
  /\ bridge' = None /\ faults' = faults + 1
  /\ UNCHANGED <<remote, docs, run, dirs, seen, page, events, now, changes, runs,
                 disturbed, excuse>>

----------------------------------------------------------------------------
(* Every library was mirrored before; some files were missed last month.   *)
Init ==
  /\ remote \in [Nodes -> {[place |-> p, fact |-> 0, ver |-> 0] : p \in Directories}]
  /\ \A f \in Folders : remote[f].place = Root
  /\ \E missed \in [Nodes -> 0..(DeleteMisses - 1)] :
       /\ \A f \in Folders : missed[f] = 0
       /\ docs = [n \in Nodes |-> [place |-> remote[n].place, fact |-> 0, deleted |-> FALSE,
                                   misses |-> missed[n], applied |-> 0, source |-> 0, ver |-> 0]]
       /\ excuse = missed
  /\ run = NoRun /\ dirs = <<>> /\ seen = {} /\ page = None
  /\ events = {} /\ bridge = None
  /\ now = 0 /\ changes = 0 /\ faults = 0 /\ runs = 0 /\ disturbed = {}

Walk == Start \/ Resume \/ Fetch \/ CommitPage \/ WalkEnds \/ Reconcile \/ Complete
Bridge == Locate \/ Record \/ \E e \in events : Flip(e)
Next ==
  \/ \E n \in Files : Rename(n) \/ Delete(n)
  \/ \E n \in Files, p \in Directories : Move(n, p) \/ Restore(n, p)
  \/ Walk \/ Fail \/ Crash
  \/ Bridge \/ BridgeCrash

(* The watcher comes back for a running or failed library; it never has to *)
(* start one (that is the calendar's or an administrator's business).      *)
Spec == Init /\ [][Next]_vars
FairSpec == Spec /\ WF_vars(Resume) /\ WF_vars(Fetch) /\ WF_vars(CommitPage)
                 /\ WF_vars(WalkEnds \/ Reconcile \/ Complete)

----------------------------------------------------------------------------
(* Properties.                                                             *)

(* Types of the variables; a row missed as often as configured is deleted. *)
TypeOK ==
  /\ remote \in [Nodes -> Item]
  /\ docs \in [Nodes -> Doc]
  /\ \A n \in Nodes : docs[n].misses = DeleteMisses => docs[n].deleted
  /\ run \in [status : {"none", "running", "failed", "succeeded"},
              phase : {"walk", "reconcile", "complete"}, started : Nat, cursor : {0} \cup Nodes]
  /\ DOMAIN dirs \subseteq Directories
  /\ \A p \in DOMAIN dirs : dirs[p] \in [token : {0} \cup Nodes, done : BOOLEAN]
  /\ seen \subseteq Nodes /\ disturbed \subseteq Nodes
  /\ page # None => /\ page.dir \in DOMAIN dirs /\ page.next \in {0} \cup Nodes
                     /\ DOMAIN page.items \subseteq Nodes
                     /\ \A n \in DOMAIN page.items : page.items[n] \in Item
  /\ events \subseteq Event
  /\ bridge # None => bridge.event \in events /\ bridge.item \in Item
  /\ now \in Nat /\ excuse \in [Nodes -> Nat]

(* A document is counted absent at most once per run, and only in a run    *)
(* during which it really was absent or on the move: however pages, rows   *)
(* and cursor are interrupted and resumed, a document that stayed in its   *)
(* folder is never counted towards deletion.                               *)
MissesHaveCause == \A n \in Nodes : docs[n].misses <= excuse[n]

(* After a complete run the row of every document that stayed in place     *)
(* is live and equals the remote node, unless an audit event wrote it      *)
(* after the run began.                                                    *)
Calibrated ==
  run.status = "succeeded" =>
    \A n \in Nodes \ disturbed :
      InTree(n) /\ remote[n].ver < run.started =>
        \/ Newer(n)
        \/ ~docs[n].deleted /\ docs[n].fact = remote[n].fact /\ docs[n].place = remote[n].place

(* The walk never puts an older state of a node over a newer one that an   *)
(* audit event brought while its page was on the way.                      *)
WalkKeepsNewer ==
  [][bridge' = bridge /\ events \subseteq events' => \A n \in Nodes : docs'[n].ver >= docs[n].ver]_vars

(* A run that was opened completes, through failures and restarts.         *)
RunsComplete == run.status = "running" ~> run.status = "succeeded"

(* "audit writes below retain their source order"                          *)
(* (app/audit_bridge.py:628): an event that is finished, be it as          *)
(* superseded, leaves a row that reflects a state at least as new.         *)
SupersededIsNewer ==
  [][\A e \in events \ events' : docs'[e.node].ver >= e.at]_vars
=============================================================================
