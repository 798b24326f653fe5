---------------------------- MODULE AuditBridge ----------------------------
(***************************************************************************)
(* The life of an operation-log row in the metadata-only mode, from the    *)
(* pull to its terminal resolution (audit_bridge.py), with the re-opening  *)
(* of dead letters (metadata_compensation.py).  A cycle runs under a file  *)
(* lock; attempts are committed before a request and refunded when the     *)
(* call budget refused it; a crash between two commits keeps the first.    *)
(* What a row does to its document is in LibraryMirror.                    *)
(***************************************************************************)
EXTENDS Integers, Sequences, FiniteSets, FiniteSetsExt

CONSTANTS N,           \* rows, numbered in the order of ids and of their times
          Kinds,       \* subset of Kind
          Biz, Nodes,
          Batch, SweepBatch, LocateBudget, FinishBudget, MaxAttempts, CompBatch,
          MaxFaults, MaxRuns, None

Kind == {"remote", "local", "ignore", "unknown", "elsewhere", "excluded"}
ASSUME BridgeAssumption ==
  /\ N \in Nat /\ Kinds \subseteq Kind /\ None \notin Nodes
  /\ {Batch, SweepBatch, LocateBudget, FinishBudget, MaxAttempts, CompBatch} \subseteq Nat \ {0}
  /\ MaxFaults \in Nat /\ MaxRuns \in Nat

VARIABLES row,     \* file_audit_events, the first Len(row) ids
           proc,    \* the cycle: its place, rows it picked, rows it waits for
          comp,    \* the compensation run and the rows it has enrolled
          budget,  \* calls are left
          tries,   \* per row: requests that were answered or lost, since it was opened
          faults, runs
vars == <<row, proc, comp, budget, tries, faults, runs>>

Ids == 1..Len(row)
Idle(pc) == [pc |-> pc, batch |-> {}, held |-> {}, picked |-> {}, sent |-> {}, found |-> {}, unseen |-> {}]
NoRun == [status |-> "none", cursor |-> 0, max |-> 0, items |-> {}]
NewRow(kind, biz, retained) ==
  [kind |-> kind, biz |-> biz, retained |-> retained, old |-> FALSE, processed |-> FALSE,
   res |-> "", node |-> None, confirmed |-> FALSE, applied |-> FALSE,
   attempts |-> 0, wait |-> FALSE]

Init ==
  /\ row = <<>> /\ proc = Idle("out") /\ comp = NoRun /\ budget = TRUE
  /\ tries = [e \in 1..N |-> 0] /\ faults = 0 /\ runs = 0

-----------------------------------------------------------------------------
(* Rows. *)

(* In the window: a day old at most, or accepted by the pull in time.  A    *)
(* row gets old at the limit that ends its kind: a day, or two days for a   *)
(* delete or restore that was accepted.                                     *)
Eligible(r) == r.retained \/ ~r.old
\* Mutant: the two days are for what the pull did not accept.
MutOutOfTime(r) == ~r.retained /\ r.kind = "local" /\ r.old
OutOfTime(r) == r.retained /\ r.kind = "local" /\ r.old
Ages(r) == ~r.old /\ (~r.retained \/ r.kind = "local")
Live(f) == {e \in DOMAIN f : ~f[e].processed}
Oldest(S, n) == {e \in S : Cardinality({x \in S : x < e}) < n}
Newest(S, n) == {e \in S : Cardinality({x \in S : x > e}) < n}
AnyOf(S, n) == {T \in SUBSET S : Cardinality(T) = IF Cardinality(S) < n THEN Cardinality(S) ELSE n}

Finish(r, res) == [r EXCEPT !.processed = TRUE, !.res = res]
FinishAll(f, S, res) == [e \in DOMAIN f |-> IF e \in S THEN Finish(f[e], res) ELSE f[e]]

(* The one node that confirmed rows of the same business number agree on.  *)
Siblings(f, e) == {f[x].node : x \in {x \in DOMAIN f \ {e} :
                     f[x].biz = f[e].biz /\ f[x].confirmed /\ f[x].node # None}}
Lifecycle(f, e) ==
  LET S == Siblings(f, e) IN IF Cardinality(S) = 1 THEN CHOOSE n \in S : TRUE ELSE None

Confirm(r, n) == [r EXCEPT !.node = n, !.confirmed = TRUE]
(* Deletes and restores: by node or, once the mirror has it, by the download key;
   they wait for the document, and newer facts in it win. *)
Docs == {"missing", "older", "newer"}
Flip(f, e, n, doc) ==
  IF ~Eligible(f[e]) THEN Finish(f[e], "expired")
  ELSE IF n = None \/ doc = "missing" THEN f[e]
  ELSE IF doc = "newer" THEN Finish(f[e], "superseded")
  ELSE Finish([Confirm(f[e], n) EXCEPT !.applied = TRUE], "flipped")
LocalNode(f, e, key) ==
  IF f[e].confirmed THEN f[e].node
  ELSE IF Lifecycle(f, e) # None THEN Lifecycle(f, e) ELSE key

\* Mutant: a known node is taken for fresh metadata.
MutTryFinish(f, e, doc, key) ==
  CASE f[e].kind = "local" -> Flip(f, e, LocalNode(f, e, key), doc)
    [] ~Eligible(f[e])     -> Finish(f[e], "expired")
    [] f[e].confirmed      -> Finish(f[e], "applied")
    [] OTHER               -> f[e]
TryFinish(f, e, doc, key) ==
  CASE f[e].kind = "local" -> Flip(f, e, LocalNode(f, e, key), doc)
    [] ~Eligible(f[e])     -> Finish(f[e], "expired")
    [] f[e].confirmed /\ f[e].applied -> Finish(f[e], "applied")
    [] OTHER               -> f[e]

(* One row of the main pass. *)
Classified(f, e, doc, key) ==
  CASE f[e].kind = "elsewhere" -> [f EXCEPT ![e].processed = TRUE]
    [] f[e].kind = "excluded"  -> [f EXCEPT ![e] = Finish(@, "ignored_workspace_prefix")]
    [] f[e].kind = "ignore"    -> [f EXCEPT ![e] = Finish(@, "ignored_action")]
    [] f[e].kind = "unknown"   -> [f EXCEPT ![e] = Finish(@, "ignored_unknown_action")]
    [] f[e].kind = "local"     -> [f EXCEPT ![e] = TryFinish(f, e, doc, key)]
    [] f[e].kind = "remote"    ->
         LET n == Lifecycle(f, e)
             g == IF n = None THEN f ELSE [f EXCEPT ![e] = Confirm(@, n)]
         IN  [g EXCEPT ![e] = TryFinish(g, e, doc, key)]

(* A pass over rows in the order of their times: later ones see the nodes  *)
(* of earlier ones.                                                        *)
Pass(Op(_, _), f, S) ==
  LET step[k \in 0..Len(f)] ==
        IF k = 0 THEN f ELSE IF k \in S THEN Op(step[k - 1], k) ELSE step[k - 1]
  IN  step[Len(f)]

-----------------------------------------------------------------------------
(* The cycle. *)

At(pc) == proc.pc = pc
Unchanged == UNCHANGED <<budget, faults, runs>>

Limits == {"locator_limit", "interrupted_limit", "metadata_unavailable"}
\* Mutant: compensation takes up what it has enrolled before, and what was applied.
MutReopenable(e) ==
  ~row[e].processed \/ row[e].res \in Limits \cup {"expired", "unmatched", "no_doc", "superseded"}
Reopenable(e) ==
  /\ ~row[e].applied /\ ~row[e].retained /\ e \notin comp.items
  /\ ~row[e].processed \/ row[e].res \in Limits \cup {"expired", "unmatched", "no_doc"}
  /\ row[e].kind \in {"remote", "local"}
Reopened(r) == [r EXCEPT !.processed = FALSE, !.res = "", !.attempts = 0, !.retained = TRUE,
                         !.old = FALSE]

(* The lock is taken; a running compensation advances by one batch. *)
Enter ==
  /\ At("out") /\ proc' = Idle("sweep")
  /\ IF comp.status # "running" THEN UNCHANGED <<row, comp, tries>>
     ELSE LET rest == {e \in Ids : comp.cursor < e /\ e <= comp.max /\ Reopenable(e)}
              S == Oldest(rest, CompBatch)
              done == Cardinality(S) < CompBatch \/ Max(S) >= comp.max
          IN  /\ row' = [e \in Ids |-> IF e \in S THEN Reopened(row[e]) ELSE row[e]]
              /\ tries' = [e \in 1..N |-> IF e \in S THEN 0 ELSE tries[e]]
              /\ comp' = [comp EXCEPT !.items = @ \cup S,
                                      !.cursor = IF done THEN comp.max ELSE Max(S),
                                      !.status = IF done THEN "completed" ELSE @]
  /\ Unchanged

Interrupted == {e \in Live(row) : /\ Eligible(row[e]) /\ row[e].kind = "remote"
                                  /\ row[e].attempts >= MaxAttempts}
(* Two commits; what the second finds does not depend on the first.        *)
Sweep ==
  /\ At("sweep") /\ proc' = Idle("main")
  /\ LET f == FinishAll(row, Oldest(Interrupted, SweepBatch), "interrupted_limit")
     IN  row' = FinishAll(f, Oldest({e \in Live(f) : ~Eligible(f[e])}, Batch), "expired")
  /\ Unchanged /\ UNCHANGED <<comp, tries>>

MainPass ==
  /\ At("main")
  /\ LET batch == Oldest({e \in Live(row) : Eligible(row[e])}, Batch)
         wiki == {e \in batch : row[e].kind \in {"remote", "local"}}
     IN  /\ \E doc \in [batch -> Docs], key \in [batch -> Nodes \cup {None}] :
              row' = Pass(LAMBDA f, e : Classified(f, e, doc[e], key[e]), row, batch)
         /\ proc' = [Idle("finish") EXCEPT !.batch = wiki]
  /\ Unchanged /\ UNCHANGED <<comp, tries>>

(* Siblings of confirmed rows, then confirmed rows that only wait for the  *)
(* mirror, then the rows to locate; committed with the first attempt.      *)
Adoptable(f) ==
  Newest({e \in Live(f) : Eligible(f[e]) /\ ~f[e].confirmed /\ Lifecycle(f, e) # None}, FinishBudget)
Adopted(f, doc) ==
  LET adopt(g, e) ==
        [g EXCEPT ![e] = TryFinish([g EXCEPT ![e] = Confirm(@, Lifecycle(f, e))], e, doc[e], None)]
  IN  Pass(adopt, f, Adoptable(f))
Held(f) == {e \in Live(f) : /\ f[e].confirmed /\ Eligible(f[e])
                            /\ f[e].applied \/ f[e].kind # "remote"}
Settled(f, S, doc) == Pass(LAMBDA g, e : [g EXCEPT ![e] = TryFinish(g, e, doc[e], None)], f, S)
Locatable(f, unseen) == {e \in Live(f) : /\ f[e].kind = "remote" /\ Eligible(f[e])
                                         /\ ~f[e].confirmed \/ e \in unseen
                                         /\ f[e].attempts < MaxAttempts /\ ~f[e].wait}
Reserved(f, S) ==
  [e \in DOMAIN f |-> IF e \in S THEN [f[e] EXCEPT !.attempts = @ + 1, !.wait = TRUE] ELSE f[e]]
\* Mutant: a refused request keeps its attempt.
MutRefunded(f, S) == f
Refunded(f, S) == [e \in DOMAIN f |-> IF e \in S THEN [f[e] EXCEPT !.attempts = @ - 1] ELSE f[e]]

(* The session flushes nothing by itself: until a flush or a commit the    *)
(* queries do not see what was adopted in this cycle.                      *)
Locate ==
  /\ At("finish")
  /\ \E doc \in [Live(row) -> Docs], unflushed \in SUBSET Adoptable(row) :
     \E held \in AnyOf(Held(Adopted(row, doc)) \ unflushed, FinishBudget), unseen \in SUBSET unflushed :
       LET g == Settled(Adopted(row, doc), held, doc)
       IN  \E S \in IF budget THEN AnyOf(Locatable(g, unseen), LocateBudget) ELSE {{}} :
             /\ row' = Reserved(g, S)
             /\ proc' = [proc EXCEPT !.pc = "answer", !.held = held, !.picked = S, !.sent = S,
                                     !.unseen = IF S = {} THEN unseen ELSE {}]
  /\ Unchanged /\ UNCHANGED <<comp, tries>>

(* Every request ends: refused by the budget, answered with a proven node  *)
(* (remembered until it is applied), or in vain.                           *)
Tried(S) == tries' = [e \in 1..N |-> IF e \in S THEN tries[e] + 1 ELSE tries[e]]
Answer ==
  /\ At("answer")
  /\ \E refused \in SUBSET proc.sent :
       /\ refused # {} => ~budget
       /\ row' = Refunded(row, refused) /\ Tried(proc.sent \ refused)
       /\ \E found \in SUBSET (proc.sent \ refused) :
            proc' = [proc EXCEPT !.pc = "refresh", !.sent = {}, !.found = found]
  /\ Unchanged /\ UNCHANGED comp

(* What a located node does: _upsert_audit_document, then the resolution.  *)
Upserted(f, e, n, newer) ==
  LET g == Confirm(f[e], n)
  IN  IF ~Eligible(g) THEN Finish(g, "expired")
      ELSE IF newer THEN Finish(g, "superseded")
      ELSE Finish([g EXCEPT !.applied = TRUE], "applied")

(* Results are applied; confirmed rows without fresh metadata ask for it.  *)
Refreshable(f) == {e \in Live(f) : /\ f[e].kind = "remote" /\ Eligible(f[e]) /\ f[e].confirmed
                                   /\ ~f[e].applied /\ f[e].attempts < MaxAttempts /\ ~f[e].wait}
Refresh ==
  /\ At("refresh")
  /\ \E newer \in [proc.found -> BOOLEAN], node \in [proc.found -> Nodes] :
       LET f == [e \in Ids |-> IF e \in proc.found THEN Upserted(row, e, node[e], newer[e]) ELSE row[e]]
       IN  \E S \in IF budget THEN AnyOf(Refreshable(f) \ proc.unseen, LocateBudget) ELSE {{}} :
             /\ row' = Reserved(f, S)
             /\ proc' = [proc EXCEPT !.pc = "reread", !.found = {}, !.sent = S, !.unseen = {}]
  /\ Unchanged /\ UNCHANGED <<comp, tries>>

Reread ==
  /\ At("reread")
  /\ \/ /\ ~budget /\ proc.sent # {}
        /\ row' = Refunded(row, proc.sent) /\ UNCHANGED tries
     \/ \E got \in SUBSET proc.sent, newer \in [proc.sent -> BOOLEAN] :
          /\ row' = [e \in Ids |->
               IF e \in got THEN Upserted(row, e, row[e].node, newer[e])
               ELSE IF e \in proc.sent /\ row[e].attempts >= MaxAttempts
               THEN Finish(row[e], "metadata_unavailable") ELSE row[e]]
          /\ Tried(proc.sent)
  /\ proc' = [proc EXCEPT !.pc = "dead", !.sent = {}]
  /\ Unchanged /\ UNCHANGED comp

(* The end of the cycle: rows out of attempts or out of time. *)
DeadLetters ==
  /\ At("dead") /\ proc' = Idle("out")
  /\ LET spent == {e \in proc.picked \cap Live(row) : ~row[e].confirmed /\ row[e].attempts >= MaxAttempts}
         f == FinishAll(row, spent, "locator_limit")
     IN  row' = [e \in Ids |-> IF e \in (proc.batch \cup proc.held) \cap Live(f) /\ OutOfTime(f[e])
                               THEN Finish(f[e], IF f[e].confirmed THEN "no_doc" ELSE "unmatched")
                               ELSE f[e]]
  /\ Unchanged /\ UNCHANGED <<comp, tries>>

-----------------------------------------------------------------------------
(* Around it. *)

Ingest ==
  /\ Len(row) < N
  /\ \E kind \in Kinds, biz \in Biz, retained \in BOOLEAN : row' = Append(row, NewRow(kind, biz, retained))
  /\ UNCHANGED <<proc, comp, budget, tries, faults, runs>>

(* A row gets old; a retry time comes. *)
Age == /\ \E e \in Live(row) : Ages(row[e]) /\ row' = [row EXCEPT ![e].old = TRUE]
       /\ UNCHANGED <<proc, comp, budget, tries, faults, runs>>
Cool == /\ \E e \in Live(row) : row[e].wait /\ row' = [row EXCEPT ![e].wait = FALSE]
        /\ UNCHANGED <<proc, comp, budget, tries, faults, runs>>

(* The operator prepares one compensation, under the same lock. *)
Prepare ==
  /\ At("out") /\ comp.status # "running" /\ runs < MaxRuns /\ runs' = runs + 1
  /\ \E lo \in 0..Len(row), hi \in 0..Len(row) :
       /\ lo < hi /\ comp' = [comp EXCEPT !.status = "running", !.cursor = lo, !.max = hi]
  /\ UNCHANGED <<row, proc, budget, tries, faults>>

RunDry == /\ budget /\ faults < MaxFaults /\ faults' = faults + 1 /\ budget' = FALSE
          /\ UNCHANGED <<row, proc, comp, tries, runs>>
NewDay == /\ ~budget /\ budget' = TRUE /\ UNCHANGED <<row, proc, comp, tries, faults, runs>>

(* A restart, or an error nobody handles: the requests on their way are lost. *)
Crash == /\ ~At("out") /\ faults < MaxFaults /\ faults' = faults + 1
         /\ Tried(proc.sent) /\ proc' = Idle("out")
         /\ UNCHANGED <<row, comp, budget, runs>>

Cycle == Enter \/ Sweep \/ MainPass \/ Locate \/ Answer
         \/ Refresh \/ Reread \/ DeadLetters
Next == Cycle \/ Ingest \/ Age \/ Cool \/ Prepare \/ RunDry \/ NewDay \/ Crash

(* The worker comes back to the bridge; clocks run; the budget is refilled. *)
Spec == Init /\ [][Next]_vars
FairSpec == Spec /\ WF_vars(Cycle) /\ WF_vars(Age) /\ WF_vars(Cool) /\ WF_vars(NewDay)

-----------------------------------------------------------------------------
(* An attempt is a request that was answered or lost: what the budget      *)
(* refused costs none, a crash gives none back, and a row that was given   *)
(* up for its attempts has made all of them.                               *)
InFlight(e) == IF e \in proc.sent THEN 1 ELSE 0
AttemptsArePaid ==
  \A e \in Ids :
    /\ row[e].attempts = tries[e] + InFlight(e) /\ row[e].attempts <= MaxAttempts
    /\ row[e].res \in Limits => tries[e] = MaxAttempts

(* A row that ends as applied had its own metadata written: that a sibling *)
(* knows the node is no proof of it.                                       *)
AppliedIsFresh == \A e \in Ids : row[e].res \in {"applied", "flipped"} => row[e].applied

(* A row ends once: nothing changes its resolution but one compensation,   *)
(* and that only for a dead letter whose metadata was never written.       *)
EndsOnce ==
  [][\A e \in Ids : row[e].processed =>
       \/ row'[e].processed /\ row'[e].res = row[e].res
       \/ /\ e \notin comp.items /\ e \in comp'.items /\ ~row[e].applied
          /\ row[e].res \notin {"", "applied", "flipped", "superseded"}]_vars

(* Every row comes to an end, whatever it is, whenever the budget ran out  *)
(* and wherever a cycle was cut.                                           *)
EveryRowEnds == \A e \in 1..N : (e \in Ids) ~> (e \in Ids /\ row[e].processed)
=============================================================================
