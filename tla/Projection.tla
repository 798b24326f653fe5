----------------------------- MODULE Projection -----------------------------
(***************************************************************************)
(* From file metadata to aggregate partitions: the change hook, the queue  *)
(* of dirty nodes, the file facts and their counters (app/bi_projection.py)*)
(* and the partitions rebuilt from dirty scopes (app/bi_materialize.py),   *)
(* driven by the loop and the commands of app/bi_publisher.py.             *)
(*                                                                         *)
(* Collectors change documents, reviews and libraries at any moment.  A    *)
(* publisher transaction reads the snapshot taken by its first SELECT      *)
(* (repeatable read) and writes to the rows as they are at its end; what   *)
(* it read is kept in proc[p].view.  Queue entries carry a generation, and *)
(* are deleted only while the generation is the one that was read.         *)
(*                                                                         *)
(* A file counts in a few buckets: the files and the undated files of its  *)
(* library, the uploads of its month, the reviews of the month of its last *)
(* review.  Creators, scores and verdicts are left out, and so are the     *)
(* rd_month partitions; a partition lists the buckets it is computed from. *)
(***************************************************************************)
EXTENDS Integers, FiniteSets

CONSTANTS Publishers, \* processes that run the publisher or its command line
          Nodes,      \* file nodes, numbers in the order of their identifiers
          Spaces,     \* libraries
          Months,     \* months, numbers
          None,       \* no row, no fact, no month
          Folder, Deleted,
          Limit,      \* rows of one projection batch
          Retained,   \* months kept in the BI window
          Values,     \* values the collectors write into a document
          Baseline,   \* the primary baseline: node -> value, Folder or None
          MaxEdits,   \* bound: changes by collectors
          MaxFaults,  \* bound: crashes, failed identity requests, lost locks
          MaxOps      \* bound: rebuild commands

ASSUME ConstantsAssumption ==
  /\ Nodes \subseteq Nat /\ IsFiniteSet(Nodes) /\ Months \subseteq Nat \ {0}
  /\ Limit \in Nat \ {0} /\ Retained \in Nat \ {0}
  /\ MaxEdits \in Nat /\ MaxFaults \in Nat /\ MaxOps \in Nat
  /\ None \notin Publishers

VARIABLES db,     \* the database
          lock,   \* owner of the advisory lock 'kg_bi_snapshot_build'
          proc,   \* per process: what it is doing, what it read, which months
                  \* it has identities for
          edits, faults, ops

vars == <<db, lock, proc, edits, faults, ops>>
budgets == <<edits, faults, ops>>

-----------------------------------------------------------------------------
(* Facts and their buckets. *)

Value == [ws: Spaces, day: Months \cup {None}]
Fact == [ws: Spaces, day: Months \cup {None}, quality: Months \cup {None}] \cup {None}
ASSUME ValuesAssumption ==
  /\ Months # {} /\ Values \subseteq Value /\ Baseline \in [Nodes -> Value \cup {None, Folder}]
Buckets == ({"files", "undated"} \X Spaces \X {0}) \cup ({"uploads", "reviews"} \X Spaces \X Months)
ScopeKeys == ({"month"} \X Months) \cup ({"workspace", "registry"} \X Spaces)
             \cup ({"summary", "all"} \X {0})
PartKeys == ({"month"} \X Months) \cup ({"workspace"} \X Spaces) \cup ({"summary", "meta"} \X {0})

(* The baseline wins over the live document, a deleted document over both. *)
Projected(d, n) ==
  LET v == IF Baseline[n] # None THEN Baseline[n] ELSE d.doc[n]
  IN  IF d.doc[n] = Deleted \/ v \in {None, Folder} THEN None
      ELSE [ws |-> v.ws, day |-> v.day, quality |-> d.review[n]]

Counted(f) ==
  IF f = None THEN {}
  ELSE {<<"files", f.ws, 0>>} \cup (IF f.day = None THEN {<<"undated", f.ws, 0>>}
                                   ELSE {<<"uploads", f.ws, f.day>>})
       \cup (IF f.quality = None THEN {} ELSE {<<"reviews", f.ws, f.quality>>})
\* Mutant: a change of the review month leaves its old month alone.
MutTouched(f) ==
  IF f = None THEN {}
  ELSE {<<"workspace", f.ws>>, <<"summary", 0>>}
       \cup {<<"month", m>> : m \in {f.day} \ {None}}
Touched(f) ==
  IF f = None THEN {}
  ELSE {<<"workspace", f.ws>>, <<"summary", 0>>}
       \cup {<<"month", m>> : m \in {f.day, f.quality} \ {None}}

-----------------------------------------------------------------------------
(* Queues of keys with a generation. *)

Enqueue(queue, keys) ==
  [k \in DOMAIN queue \cup keys |->
     IF k \notin keys THEN queue[k] ELSE IF k \in DOMAIN queue THEN queue[k] + 1 ELSE 1]
\* Mutant: entries are deleted by key, whatever their generation is by now.
MutConsume(queue, read) == [k \in DOMAIN queue \ DOMAIN read |-> queue[k]]
Consume(queue, read) ==
  [k \in {k \in DOMAIN queue : k \in DOMAIN read => queue[k] # read[k]} |-> queue[k]]
Only(queue, keys) == [k \in DOMAIN queue \cap keys |-> queue[k]]
First(S, n) == {x \in S : Cardinality({y \in S : y < x}) < n}
Highest(S, n) == {x \in S : Cardinality({y \in S : y > x}) < n}

-----------------------------------------------------------------------------
(* Transactions: v is what was read, d what is written to. *)

Changed(v, new) == {n \in DOMAIN new : v.fact[n] # new[n]}
\* Mutant: the old fact is subtracted only when the file stays.
MutMoved(d, v, new) ==
  [b \in Buckets |->
     d.counts[b] + Cardinality({n \in Changed(v, new) : b \in Counted(new[n])})
                 - Cardinality({n \in Changed(v, new) : new[n] # None /\ b \in Counted(v.fact[n])})]
Moved(d, v, new) ==
  [b \in Buckets |->
     d.counts[b] + Cardinality({n \in Changed(v, new) : b \in Counted(new[n])})
                 - Cardinality({n \in Changed(v, new) : b \in Counted(v.fact[n])})]
Negative(d, v, new) == \E b \in Buckets : Moved(d, v, new)[b] < 0
ApplyProjections(d, v, new) ==
  [d EXCEPT !.fact = [n \in Nodes |-> IF n \in Changed(v, new) THEN new[n] ELSE @[n]],
            !.counts = Moved(d, v, new),
            !.scopes = Enqueue(@, UNION {Touched(v.fact[n]) \cup Touched(new[n]) : n \in Changed(v, new)})]
ProjectionRows(v, ids) == [n \in ids |-> Projected(v, n)]

(* The oldest entries; which ones those are is left open. *)
Batches(v) ==
  {B \in SUBSET DOMAIN v.dirty : Cardinality(B) = Limit \/ (B = DOMAIN v.dirty /\ Cardinality(B) < Limit)}
ProjectDirty(d, v, batch) ==
  [ApplyProjections(d, v, ProjectionRows(v, batch)) EXCEPT !.dirty = Consume(@, Only(v.dirty, batch))]

SeedIds(v) ==
  First(First({n \in Nodes : n > v.cursor /\ Baseline[n] # None}, Limit)
          \cup First({n \in Nodes : n > v.cursor /\ v.doc[n] # None}, Limit), Limit)
SeedSlice(d, v) ==
  LET ids == SeedIds(v)
      new == ProjectionRows(v, ids)
  IN  IF v.seeded \/ Negative(d, v, new) THEN d
      ELSE IF ids = {} THEN [d EXCEPT !.seeded = TRUE, !.scopes = Enqueue(@, {<<"all", 0>>})]
      ELSE [ApplyProjections(d, v, new) EXCEPT !.cursor = CHOOSE n \in ids : \A m \in ids : m <= n]

-----------------------------------------------------------------------------
(* Which partitions a publication rebuilds, and what it writes. *)

Keyed(v, kind) == {k[2] : k \in {k \in DOMAIN v.scopes : k[1] = kind}}
Headers(v, kind) == {k[2] : k \in {k \in DOMAIN v.parts : k[1] = kind}}
MonthsOf(v, spaces) ==
  {m \in Months : \E w \in spaces : v.counts[<<"uploads", w, m>>] > 0 \/ v.counts[<<"reviews", w, m>>] > 0}
AvailableMonths(v) == Highest(MonthsOf(v, v.visible), Retained)

Full(v) == DOMAIN v.parts = {} \/ <<"all", 0>> \in DOMAIN v.scopes
FactDirty(v) == DOMAIN v.scopes # {}
Calendar(v) == \/ <<"meta", 0>> \notin DOMAIN v.parts
               \/ v.parts[<<"meta", 0>>].current # v.current
Selected(v) == IF Full(v) \/ FactDirty(v) THEN AvailableMonths(v) ELSE Headers(v, "month")
\* Mutant: a month that enters the window without a dirty scope is not built.
MutDirtyMonths(v) ==
  IF Full(v) THEN Selected(v)
  ELSE Selected(v) \cap (Keyed(v, "month") \cup MonthsOf(v, Keyed(v, "registry")))
DirtyMonths(v) ==
  IF Full(v) THEN Selected(v)
  ELSE Selected(v) \cap (Keyed(v, "month") \cup MonthsOf(v, Keyed(v, "registry"))
                          \cup (Months \ Headers(v, "month")))
DirtySpaces(v) ==
  IF Full(v) \/ Calendar(v) THEN v.visible
  ELSE v.visible \cap (Keyed(v, "workspace") \cup Keyed(v, "registry"))

Rows(v, buckets) == {<<b, v.counts[b]>> : b \in {b \in buckets : v.counts[b] # 0}}
MonthPart(v, m) == Rows(v, {"uploads", "reviews"} \X v.visible \X {m})
SpacePart(v, w) == Rows(v, {<<"files", w, 0>>, <<"uploads", w, v.current>>} \cup ({"reviews"} \X {w} \X Months))
SpaceRows(parts) == {<<k[2], parts[k]>> : k \in {k \in DOMAIN parts : k[1] = "workspace"}}

Removed(v) == {k \in DOMAIN v.parts : \/ k[1] = "month" /\ k[2] \notin Selected(v)
                                      \/ k[1] = "workspace" /\ k[2] \notin v.visible}
Written(v) ==
  [k \in ({"month"} \X DirtyMonths(v)) \cup ({"workspace"} \X DirtySpaces(v)) |->
     IF k[1] = "month" THEN MonthPart(v, k[2]) ELSE SpacePart(v, k[2])]
Over(f, g) == [x \in DOMAIN f \cup DOMAIN g |-> IF x \in DOMAIN f THEN f[x] ELSE g[x]]
Without(f, S) == [x \in DOMAIN f \ S |-> f[x]]

(* The summary adds up the library partitions that are there after this    *)
(* publication, those it does not rebuild included.                        *)
Summary(v) ==
  [rows |-> SpaceRows(Without(Over(Written(v), v.parts), Removed(v))),
   extra |-> Rows(v, ({"undated"} \X v.visible \X {0}) \cup ({"reviews"} \X v.visible \X {v.current}))]
\* Mutant: the summary is rebuilt for dirty facts only, not for a new month.
MutSummaryDue(v) == FactDirty(v) \/ Full(v) \/ <<"summary", 0>> \notin DOMAIN v.parts
SummaryDue(v) == FactDirty(v) \/ Full(v) \/ Calendar(v) \/ <<"summary", 0>> \notin DOMAIN v.parts

NewParts(v) ==
  LET meta == [current |-> v.current, months |-> Selected(v)]
      tops == {"meta"} \cup (IF SummaryDue(v) THEN {"summary"} ELSE {})
  IN  Over([k \in tops \X {0} |-> IF k[1] = "meta" THEN meta ELSE Summary(v)], Written(v))

PublishPartitions(d, v, versions) ==
  IF ~(v.seeded /\ DirtyMonths(v) \subseteq versions) THEN d   \* rolled back
  ELSE [d EXCEPT !.parts = Without(Over(NewParts(v), @), Removed(v)),
                 !.scopes = Consume(@, v.scopes)]

-----------------------------------------------------------------------------
(* Publisher processes. *)

Idle(pc) == [pc |-> pc, view |-> None, versions |-> {}]
At(p, pc) == proc[p].pc = pc
Goto(p, pc) == proc' = [proc EXCEPT ![p] = Idle(pc)]
Unlock(p) == lock' = IF lock = p THEN None ELSE lock
Begin(p, pc) == proc' = [proc EXCEPT ![p].pc = pc, ![p].view = db]

Init ==
  /\ \E doc \in [Nodes -> Values \cup {None}], visible \in SUBSET Spaces :
       db = [doc |-> doc, review |-> [n \in Nodes |-> None], visible |-> visible,
             current |-> CHOOSE m \in Months : \A k \in Months : m <= k,
             dirty |-> <<>>, scopes |-> <<>>, fact |-> [n \in Nodes |-> None],
             counts |-> [b \in Buckets |-> 0], cursor |-> -1, seeded |-> FALSE, parts |-> <<>>]
  /\ lock = None
  /\ proc = [p \in Publishers |-> Idle("out")]
  /\ edits = 0 /\ faults = 0 /\ ops = 0

Enter(p) ==
  /\ At(p, "out") /\ lock = None
  /\ lock' = p /\ Goto(p, "in") /\ UNCHANGED <<db, budgets>>
Leave(p) ==
  /\ At(p, "done")
  /\ Unlock(p) /\ Goto(p, "out") /\ UNCHANGED <<db, budgets>>

BeginProject(p) == At(p, "in") /\ Begin(p, "project") /\ UNCHANGED <<db, lock, budgets>>
Project(p) ==
  /\ At(p, "project")
  /\ \E batch \in Batches(proc[p].view) :
       LET v == proc[p].view
           raises == ~v.seeded \/ Negative(db, v, ProjectionRows(v, batch))
       IN  /\ db' = IF raises THEN db ELSE ProjectDirty(db, v, batch)
           /\ Goto(p, IF raises THEN "done" ELSE "turn")
  /\ UNCHANGED <<lock, budgets>>

BeginSeed(p) == At(p, "in") /\ Begin(p, "seed") /\ UNCHANGED <<db, lock, budgets>>
Seed(p) ==
  /\ At(p, "seed")
  /\ db' = SeedSlice(db, proc[p].view)
  /\ Goto(p, IF proc[p].view.seeded \/ SeedIds(proc[p].view) = {} THEN "done" ELSE "in")
  /\ UNCHANGED <<lock, budgets>>

Rebuild(p) ==
  /\ At(p, "in") /\ ops < MaxOps /\ ops' = ops + 1
  /\ db' = [db EXCEPT !.scopes = Enqueue(@, {<<"all", 0>>})]
  /\ Goto(p, "turn") /\ UNCHANGED <<lock, edits, faults>>

(* build_cycle: a plan, the identities of its months over HTTP, and the    *)
(* publication, which plans again.                                         *)
Plan(p) ==
  /\ At(p, "turn") /\ db.seeded
  /\ proc' = [proc EXCEPT ![p] = [Idle("identity") EXCEPT !.versions = DirtyMonths(db)]]
  /\ UNCHANGED <<db, lock, budgets>>
BeginPublish(p) == At(p, "identity") /\ Begin(p, "publish") /\ UNCHANGED <<db, lock, budgets>>
Publish(p) ==
  /\ At(p, "publish")
  /\ db' = PublishPartitions(db, proc[p].view, proc[p].versions)
  /\ Goto(p, "done") /\ UNCHANGED <<lock, budgets>>

(* The build has an interval of its own; without the seed it is refused.   *)
Skip(p) == At(p, "turn") /\ Goto(p, "done") /\ UNCHANGED <<db, lock, budgets>>

-----------------------------------------------------------------------------
(* Collectors and faults. *)

Edit == edits < MaxEdits /\ edits' = edits + 1 /\ UNCHANGED <<lock, proc, faults, ops>>

(* before_flush: the change and its queue entry are one transaction.       *)
Hook(d, n) == [d EXCEPT !.dirty = Enqueue(@, {n})]
EditDocument ==
  /\ Edit
  /\ \E n \in Nodes : \E value \in (Values \cup {Folder, Deleted}) \ {db.doc[n]} :
       db' = Hook([db EXCEPT !.doc[n] = value], n)
AddReview ==
  /\ Edit
  /\ \E n \in Nodes : db.doc[n] \in Values /\ db' = Hook([db EXCEPT !.review[n] = db.current], n)
EditWorkspace ==
  /\ Edit
  /\ \E w \in Spaces :
       db' = [db EXCEPT !.visible = IF w \in @ THEN @ \ {w} ELSE @ \cup {w},
                        !.scopes = Enqueue(@, {<<"registry", w>>})]
(* refresh_versions: the employee directory changed for published months.  *)
NewDirectory ==
  /\ Edit
  /\ \E S \in (SUBSET Headers(db, "month")) \ {{}} :
       db' = [db EXCEPT !.scopes = Enqueue(@, {"month"} \X S)]
NewMonth ==
  /\ Edit /\ db.current + 1 \in Months
  /\ db' = [db EXCEPT !.current = @ + 1]

Fault == faults < MaxFaults /\ faults' = faults + 1 /\ UNCHANGED <<edits, ops>>
FailIdentity(p) == At(p, "identity") /\ Fault /\ Goto(p, "done") /\ UNCHANGED <<db, lock>>
Crash(p) == ~At(p, "out") /\ Fault /\ Goto(p, "out") /\ Unlock(p) /\ UNCHANGED db
LoseLock == lock # None /\ Fault /\ lock' = None /\ UNCHANGED <<db, proc>>

Next ==
  \/ \E p \in Publishers :
       \/ Enter(p) \/ Leave(p) \/ BeginProject(p) \/ Project(p) \/ BeginSeed(p) \/ Seed(p)
       \/ Rebuild(p) \/ Plan(p) \/ BeginPublish(p) \/ Publish(p) \/ Skip(p)
       \/ FailIdentity(p) \/ Crash(p)
  \/ EditDocument \/ AddReview \/ EditWorkspace \/ NewDirectory \/ NewMonth
  \/ LoseLock

(* The loop comes back for ever, builds on its interval and is not kept    *)
(* from it by failures for ever; the initial seed is run to its end.       *)
Fairness ==
  \A p \in Publishers :
    /\ SF_vars(Enter(p)) /\ SF_vars(BeginProject(p)) /\ SF_vars(BeginSeed(p)) /\ SF_vars(Plan(p))
    /\ WF_vars(Project(p) \/ Seed(p) \/ BeginPublish(p) \/ Publish(p) \/ Leave(p))

Spec == Init /\ [][Next]_vars
FairSpec == Spec /\ Fairness

-----------------------------------------------------------------------------
(* Properties. *)

IsQueue(queue, keys) == DOMAIN queue \subseteq keys /\ \A k \in DOMAIN queue : queue[k] \in Nat \ {0}
DbOK(d) ==
  /\ d.doc \in [Nodes -> Values \cup {None, Folder, Deleted}] /\ d.review \in [Nodes -> Months \cup {None}]
  /\ d.visible \subseteq Spaces /\ d.current \in Months
  /\ IsQueue(d.dirty, Nodes) /\ IsQueue(d.scopes, ScopeKeys)
  /\ d.fact \in [Nodes -> Fact] /\ d.counts \in [Buckets -> Nat]
  /\ d.cursor \in Nodes \cup {-1} /\ d.seeded \in BOOLEAN
  /\ DOMAIN d.parts \subseteq PartKeys

(* Types of the variables; no counter is ever negative. *)
TypeOK ==
  /\ DbOK(db) /\ lock \in Publishers \cup {None}
  /\ \A p \in Publishers :
       /\ proc[p].pc \in {"out", "in", "project", "seed", "turn", "identity", "publish", "done"}
       /\ proc[p].versions \subseteq Months
       /\ (proc[p].view # None) => DbOK(proc[p].view)
  /\ edits \in Nat /\ faults \in Nat /\ ops \in Nat

(* The counters, only ever moved by differences, are the sums of the facts. *)
CountersMatchFacts ==
  \A b \in Buckets : db.counts[b] = Cardinality({n \in Nodes : b \in Counted(db.fact[n])})

(* Nothing is forgotten: a file whose fact is not what its document, its    *)
(* baseline and its reviews say now is queued, or the seed has still to     *)
(* come to it.  So an idle publisher need not read source files.            *)
StaleIsQueued ==
  \A n \in Nodes : \/ db.fact[n] = Projected(db, n)
                   \/ n \in DOMAIN db.dirty
                   \/ ~db.seeded /\ n > db.cursor

(* In every reachable state rebuilding the dirty partitions only would give *)
(* what rebuilding all of them gives.                                       *)
All == [db EXCEPT !.scopes = Enqueue(@, {<<"all", 0>>})]
IncrementalIsFull ==
  db.seeded => PublishPartitions(db, db, Months).parts = PublishPartitions(All, All, Months).parts

(* Whatever is published passes the contract's cross checks: the summary    *)
(* adds up exactly the libraries, the identity versions name exactly the    *)
(* months.  A failure here would stop every further frame.                  *)
FramesValidate ==
  DOMAIN db.parts # {} =>
    /\ {<<"summary", 0>>, <<"meta", 0>>} \subseteq DOMAIN db.parts
    /\ db.parts[<<"summary", 0>>].rows = SpaceRows(db.parts)
    /\ db.parts[<<"meta", 0>>].months = Headers(db, "month")

(* Once the collectors are quiet the partitions become, and stay, what the  *)
(* documents, the reviews and the libraries say.                            *)
Sources(d) ==
  LET f == ProjectionRows(d, Nodes)
  IN  [d EXCEPT !.counts = [b \in Buckets |-> Cardinality({n \in Nodes : b \in Counted(f[n])})],
                !.scopes = Enqueue(@, {<<"all", 0>>})]
UpToDate == db.parts = PublishPartitions(Sources(db), Sources(db), Months).parts
CatchesUp == <>[]UpToDate
=============================================================================
