# TLA+ models of the knowledge-base governance service

The service mirrors the metadata of DingTalk knowledge bases ("libraries"),
reviews the content of new and edited documents, and pushes aggregate counts to
a BI centre. Four processes share one MySQL database: the HTTP API
(`app/main.py`), the realtime worker (`app/worker.py`), the watcher
(`app/watcher.py`) and the BI publisher (`app/bi_publisher.py`). They never call
each other: they meet in rows, under advisory locks, leases, generations and
conditional updates, and they hold no transaction across HTTP. That is where
the hard behaviour is, and what these modules are about.

## 1. Inventory

| component | state | operations | what makes it hard | what makes it correct |
|---|---|---|---|---|
| BI outbox (`bi_push.py`, `bi_publisher.py`) | `bi_push_state`, `bi_push_outbox`, payloads, partitions | publish partitions, queue a frame, claim, send, finish, reconcile with the remote head, cleanup, retry, rebuild | answers are lost or late, leases run out, the advisory lock breaks, the receiver is restored from a backup | a sequence number names one state everywhere, deltas fit their base, acknowledgements are real and only advance, the receiver shows whole snapshots and catches up |
| Projection and partition builder (`bi_projection.py`, `bi_materialize.py`, `bi_snapshot.py`) | dirty nodes and scopes with generations, file facts, counters, partitions | change hook, project a batch, seed, plan, fetch identities, publish | collectors write between a read and its commit; counters move by differences; identities come over HTTP in the middle | counters are sums, nothing stale is forgotten, an incremental build equals a full one |
| Content reviews (`service.py`, `worker.py`, `main.py`) | review jobs, merge windows, instances | route events, harvest due windows, claim, download, score, sweep after a crash, enqueue by click | edits arrive while the job runs, two commits per review, zombie jobs, clicks racing | no edit is lost, deleted documents stay quiet, nothing is scored twice |
| Notifications (`notify.py`) | notification rows | decide, pump, record | messages leave before the commit | silence after a delete; repeats only after a crash |
| Library mirror (`scan_pages.py`, `service.py`, `audit_bridge.py`) | documents, scan checkpoints, seen nodes | page walk, upsert, reconciliation of absent nodes, writes of located events, deletes and restores | the tree changes during the walk; walk and bridge write the same rows; restarts resume in the middle | nobody is counted absent without cause, newer facts survive, a complete walk calibrates |
| Monthly scan (`scan_scheduler.py`, `scan_recovery.py`, `watcher.py`) | cycle, tasks, runs, advisory lock | plan, reserve an attempt, walk, record, complete, recover, resume, boot sweep | crashes between reserve, walk and record; a slice that lost its lock; rate limits | attempts are neither free nor lost, success is kept, completion means collection, the cycle ends |
| Audit pull (`audit_pull.py`) | window, paired cursor, events | open a window, commit a page, close it, record a gap | a window half read expires, windows overlap | no event between two windows is skipped without a gap |
| Audit bridge (`audit_bridge.py`, `metadata_compensation.py`) | events and their resolution, attempts, walk queue | locate, confirm, defer, dead-letter, re-authorise | attempts are reserved before HTTP, budgets run out half-way | every event ends, at most three attempts, budget waits cost none |
| API budget and rate (`api_usage.py`, `integrations.py`, `dingtalk_rate.py`) | counters per period and interface, token, time of the last request in a locked file | reserve, send, poll an export, take a slot | several counters, several processes, a clock set back by a reboot | all or none is counted, the scan leaves its reserve, requests keep their distance |
| Page identities (`page_identity.py`, `org_month_cache.py`) | dirty months, identities, organisation months | mark, prepare, consume, postpone | HTTP between read and delete, the directory changes between two pages | a month made dirty meanwhile stays dirty, a stored month is of one version |
| Read cache (`read_cache.py`) | entries with leases, values and flights of a process | serve, refresh, publish, evict | several threads and processes refresh one key, a refresh outlives its lease | an entry never goes back, answers are as fresh as asked |
| Metrics and exports (`metrics.py`, `bi_export.py`) | none (reads baseline, documents, uploader rows) | drill, roll up, rank, export, dashboard | two arms of one view, bulk days, latest reviews of current files | the numbers of all views agree |
| BI contract and contents (`bi_push_contract.py`, `bi_snapshot.py`, `bi_materialize.py`) | partitions | build, validate, split, put together, delta | R&D months depend on libraries, owners and a directory that change at different times | what is rebuilt piecewise is the whole |
| Settings (`main.py`, `service.py`) | scoring rules, model configurations, histories | save, create, delete, roll back | two requests overlap; each logs what it read | departments stand alone, one model is enabled |
| Scoring, genre, file class, content (`scoring.py`, `genre.py`, `fileclass.py`, `content.py`) | none | pure functions of texts | lists of words, boundaries | - |
| Adapters, API, auth, stream, configuration, diagnostics, web pages, scripts | settings, sessions, stream rows | requests, login, display, one-off migrations | - | - |

`PROJECT.json` lists each with its status and every hazard with its line.

## 2. The modules and the code

**`BIOutbox`** models the outbox; **`SnapshotFeed`** is what it promises to a
reader of the receiver; `MCBIOutbox` instantiates it. `db` is the sender's
database (partitions, `bi_push_state`, outbox rows, payloads), `log` the
receiver's accepted frames, `net` the requests on the wire or delayed, `lock` the
`GET_LOCK` owner, `proc[p]` the place of a publisher in `run()` and what it
remembers between transactions. One action is one transaction or one request:
`GetStatus`, `Reconcile` (`reconcile_remote`), `Build` and `Queue`
(`build_cycle`, `queue_frame`), `Claim`, `Deliver`, `Finish`, `Cleanup`, and the
commands `Retry` and `Rebuild`. A manifest is a function from partition keys to
versions; a request's UUID is its sequence number. Deliveries can come late,
after a timeout, and twice. A lease that expires while its owner is still
waiting counts as a fault, because the HTTP limit (45 s) is below the lease
(120 s).

**`Projection`** (instantiated by `MCProjection`) models the change hook, the
queues with generations, the counters and the partitions. A publisher
transaction reads one snapshot (`proc[p].view`, repeatable read) and writes to
the rows as they are at its end. Collectors change documents, reviews,
libraries and the month between the two. A file counts in a few buckets; a
partition lists the buckets it is computed from.

**`ReviewPipeline`** models the review jobs, the merge window, the worker's
round (bridge, harvest, up to three jobs, pump), its crash and boot sweep, the
events of the bridge, the watcher's sightings, and the API's `enqueue_review`
split between its first read and its lock. `text` is what a download returns
now. The half-hour window is `Quiet` steps, started again by every edit, so that
only the six-hour cap forces a review of a document that is always edited.

**`LibraryMirror`** models one library: the tree in DingTalk, the rows, the
paged walk with its checkpoints (`Start`, `Fetch`, `CommitPage`, `WalkEnds`,
`Reconcile`, `Complete`) and the bridge's `Locate`, `Record` and `Flip`. All
time stamps come from one clock that ticks with each commit.

**`MonthlyScan`** models the cycle of a month: slices, tasks, attempts and the
runs they leave, with the walk of `LibraryMirror` reduced to its outcome. A run
is named by its library and the recovery it was made for. `Prepare` and
`ResumeFailed` are the administrator's commands; `Boot` the sweep of the watcher.

**`AuditPull`** models the operation log, which shows an operation some time
after it happened, and both ways of reading it: windows with a paired cursor,
committed page by page (`OpenWindow`, `FetchPage`, `CommitPage`,
`StalledCursor`), and the older pull that reads all pages before one commit. A
page is the set of its events, with a last one (`Pages`, `Last`): the log is
ordered by time and business number. Windows overlap by `Lookback` and never
begin more than a `Day` ago.

**`AuditBridge`** models the life of the rows the pull leaves, in the
metadata-only mode: one action per commit of a cycle (`Enter`, `Sweep`,
`MainPass`, `Locate` with the reserved attempts, `Answer`, `Refresh`, `Reread`,
`DeadLetters`), ageing, cool-downs, the budget, and the compensation that opens
dead letters again (`Prepare`, `Enter`). Its session flushes nothing by itself, so
the queries of a cycle may not see what the same cycle adopted (`unflushed` and
`unseen` in `Locate`). A delete or restore whose document is missing waits
(`Docs`). A row has a kind instead of an action
text; what it writes to documents is in `LibraryMirror`, what it asks of reviews
in `ReviewPipeline`.

**`ApiBudget`** models `reserve_call` with its counters (day and month, total and
interface, the scan's own) and the clients of the adapter: the token, a request,
an export with its polls. **`RateGate`** models `acquire` over the locked file,
with time, cancellation and a reboot that sets the clock back.

**`ReadCache`** models one key: the row with its lease, the entry in the memory of
each process, the flight that refreshes it for all its readers, requests with a
maximal age, maintenance and restarts. **`PageIdentity`** models dirty months:
the worker and the publisher get a month's organisation, by pages or copied from
a month of the same version (`Look`, `ReadPage`, `StoreMonth`), list once what has
to be resolved (`ListDue`) and resolve it by batches, between two looks at the
directory's version and under a lock of the session. A reply is compared with the
version read before (`Resolve`) and committed later, whatever happened in between
(`SaveBatch`). `stray` remembers which identities were last written by a process
that no longer held the lock.

**`Metrics`** has the aggregates of the pages as functions of baseline, documents,
libraries and staff; **`BIExport`** extends it by the exports and the dashboard.
**`BISnapshot`** has the contents of the partitions: the snapshot from scratch
(`BuildSnapshot`), its contract (`Valid`), its pieces and deltas, and the piecewise
rebuild from dirty scopes (`PublishedParts`). Counters are sets of files here;
the queues around them are in `Projection`. **`RuleConfig`** has the settings: a
request is what it read and what it writes at its commit; one that deletes rules
somebody else has deleted only adds its line to the history.

Some components share nothing with the others, and what can be asked of them at
once is bounded by time. `Support` puts eight of them side by side, with all their
sizes as parameters: a behaviour is one of one component (`which`: `pull`,
`budget`, `gate`, `cache`, `months`, `rules`, `numbers` for `BIExport` with
`Metrics`, `snapshot`), the variables of the others stay off, and each property is
about its own behaviours. `MCSupport` gives it to TLC, with small data for the last
two and pulls that may read one page a cycle only (`short`). `MCLive` does the same for the convergence
of `BIOutbox` and `Projection`, and `MCReview` for `ReviewPipeline` without and
with notifications. Nothing is shared between those instances in the code either,
except rows that each module has as its environment.

The proofs are in `BIOutboxProofs`, `ProjectionProofs`, `ReviewProofs`,
`MirrorProofs`, `MonthProofs`, `BridgeProofs` and `SupportProofs`, each of which
extends the module it is about, and in `Induction`, which they share.
`SupportInvariants` holds what `SupportProofs` proves about: of each component of
`Support` the assumption on its constants, the types of its variables and its
inductive invariant.

The modules meet in rows: `LibraryMirror` and `ReviewPipeline` write the
documents whose changes `Projection` takes from its queue; `Projection`'s
partitions are the `db.parts` that `BIOutbox` publishes; `MonthlyScan` starts the
walks. Each module keeps the other side of such a row as environment actions
with every value the other side can write.

## 3. The runs

| run | instance | shows |
|---|---|---|
| `outbox` | 2 publishers that can lose the lock, one partition in 2 versions, 2 changed builds, 1 fault, 1 command | `SequenceNamesState`, `DeltaFitsItsBase`, `AckedWasAccepted`, `SequenceFresh`, `AckedAdvances`, `WholeSnapshots` (it implements `SnapshotFeed`), `SendingIsProtected` (one live lease, payloads kept, a late publisher changes nothing) |
| `live` | outbox: 2 partitions, 2 faults; projection: 1 library, 1 edit, 1 crash or lost lock, 1 rebuild; fairness | `Delivery`, `CatchesUp` |
| `projection` | 1 publisher, 2 nodes, 2 libraries, 2 months, 2 edits, 1 crash, lost lock or failed request, 1 rebuild | `CountersMatchFacts`, `StaleIsQueued`, `IncrementalIsFull`, `FramesValidate` |
| `review` | 1 document, 2 texts, 1 client, queue of 2, 1 crash, fairness; with notifications 1 text, 2 days | `NoLostEdit`, `QuietAfterDelete`, `NoRepeatScore`, `RepeatNeedsCrash`, `EditsAreReviewed` |
| `review_stuck` | violation | the boot sweep does not return jobs whose lease still runs |
| `review_clicks` | violation, 2 clients | the row lock does not keep simultaneous clicks from queueing twice |
| `mirror` | files and a folder with one-item pages, 2 changes, 1 fault, 1 run, fairness | `MissesHaveCause`, `Calibrated`, `WalkKeepsNewer`, `RunsComplete` |
| `mirror_lost` | violation | an event is dropped as superseded though the row never showed it |
| `month` | 2 libraries, 2 attempts, slices of 2, 1 recovery, 1 resumption, 1 break, fairness | `AttemptsAreFair` (failures paid, given up only after failures, bounded), `CollectedOnce` (completed means collected, success is kept), `RateLimitStopsAll`, `CycleEnds` |
| `bridge` | 2 rows of one document, remote or local, batches of 1, 2 attempts, 1 fault or dry budget, 1 compensation, fairness | `AttemptsArePaid`, `AppliedIsFresh`, `EndsOnce`, `EveryRowEnds` |
| `support` | the eight components of `Support`, one a behaviour | `NothingSkipped`, `BudgetHolds`, `RequestsAreSpaced`, `PublishedAdvances`, `AnswersAreFresh`, `IdentitiesSettle`, `ViewsAgree`, `SnapshotIsWhole`, `DepartmentsStandAlone`, `OneModelEnabled` |
| `rules_lost` | violation, 2 administrators | a configuration saved between the read and the commit of another request is in no history |

*Why the bounds are enough.* Every bound is named `Max...` and stands in a
guard. The hazards need few actors: two frames to have a base and a delta on
it, a second build to supersede a pending one, one fault at an arbitrary place
(the interesting cases are which place, not how many), two libraries to move a
file between them or to see a rate limit spread, two texts to tell an edit
from a repetition, pages and reconciliation batches smaller than the tree so
that a walk is cut everywhere. The instance of `month` has the watcher only: the
API's manual slice takes the same lock, and a slice that lost it overlaps with
the administrator's commands. `MaxBreaks` counts crashes, lost locks, errors
nobody recorded and slices that end within a library. `outbox` has one partition,
which changes in place; partitions that come and go are in `live` and in the
proofs. `pull` reads two pages in a cycle, or one when it is `short`, so that
two operations exceed the cap; `bridge` needs two rows because the second proves the
node of the first; in `budget` the limits are 3 and 4 calls, so that each of them
is met first by some order of calls. `numbers` and `snapshot` are data rather than
control: 3 files (2 for `snapshot`) in 2 libraries, with two files of a person on
a day as the bulk limit, and the rows `MCSupport` lists, which differ in every
field the numbers depend on. `gate`, `cache` and `months` have two
processes, the least for a lock to matter. `months` has two months and no fault, so
that one month's organisation is copied from the other's, or one month with a
fault (`Bounded` in `MCSupport`).

*Fairness.* `live`: the loop of `run()` catches exceptions and comes back to its
status check and its build, requests have a time limit, leases and backoffs run
out; a publisher is not kept out of the lock for ever, and the seed command is
run to its end. `which` never changes, so one fair action of the outbox and one
of the projection may stand in one conjunct. `review`: the worker's loop ends
each stage, compose restarts the container (`restart: unless-stopped`), clocks
run; nothing is assumed of clicks, events or the pump. `mirror`: the watcher comes
back for a library whose run is running or failed, and every request has a 30 s
limit; starting a run is not assumed. `month`: the watcher loops for ever or is
restarted, its walks end, retry times and the next day come. `bridge`: the worker
comes back to the bridge, clocks run, the budget is refilled. Faults are bounded
in every liveness run: the code promises nothing under faults that never stop.
`support` has no liveness; the older pull has none to offer, for it asks for the
same pages for ever when one `Lookback` holds more than its page cap.

*Disagreements found.* The four violation runs are described in the `findings` of
`PROJECT.json`. Noted without a run of their own: a comment at
`bi_publisher.py:115` says a baseline is forced only by a restore or divergence
of the receiver; a lost confirmation, a superseding build and the hourly cleanup
do it too. `bi_publisher.py:140` says projections cannot advance while
identities are fetched; a second publisher does so when the advisory lock broke.
`docs/deployment-guide.md:168` says interruptions cost no attempt and real
failures are limited to three: a restart between the reservation of a retry and
the opening of its run costs one, and a failure committed in the run but not in
the task allows a fourth. The proof showed a third way: a restart between the
success of a run and its record costs an attempt to find the run complete, and an
error nobody records on that attempt gives up a library that was collected.
`FailuresArePaid`, `GivenUpAfterFailures` and `AttemptsBounded` state exactly what
does hold. The docstring at `metrics.py:624` says the totals of the
ranking count everybody; they are cut at 500 uploaders, and `RollupsAgree` has
that condition. The allowance of `notify.py:157` lets two messages of re-reviews
go out on the day of a first review that was silent. The sweep of `service.py:188`
repeats a manual review whose instance was committed. A recorded gap of the pull
is never cleared, and the first window gives up what is older than a `Lookback`.
A rule reference `...@vN` names two configurations after two concurrent saves, or
after a deletion and a new creation; two enabling requests that overlap can leave
no model enabled. With the advisory lock lost, two publishers can apply the same
differences of the projection (`bi_publisher.py:226`), and a reply that one of them
commits late leaves an older identity in a month the worker has settled for a newer
directory (`bi_push.py:163-176` compares the reply, not the stored row); nothing
queues the month again, and the next builder that rebuilds it resolves what is not
of the current version. `NoIdentityForgotten` excuses just those identities
(`stray`). A row the audit wrote after a
scan began is skipped as a whole, its parent too (`service.py:375`).

## 4. The proofs

A run checks a small instance; the theorems below hold for every value of the
constants: any number of processes, rows, texts, pages or requests, and any number
of crashes and faults. All are machine-checked, and every safety property and
action property of a passing run is stated by one of them. `PROJECT.json` lists
them.

| module | theorems | of the runs' properties |
|---|---|---|
| `BIOutboxProofs` | `Types`, `Invariance`, `NamesState`, `DeltasFit`, `OnlyAccepted`, `Fresh`, `Advances`, `Implements`, `Protects` | all of `outbox`, the refinement of `SnapshotFeed` included |
| `ProjectionProofs` | `Types`, `LockExcludes`, `CountersAreSums`, `NothingIsForgotten`, `CountersStayNatural`, `IncrementalSuffices`, `FramesAlwaysValidate`; `Locked...` and `Alone...` | all of `projection` |
| `ReviewProofs` | `Types`, `EditsAreNotLost`, `DeletedIsQuiet`, `TextsAreScoredOnce`, `RepeatsArePaid` | all of `review` but its liveness |
| `MirrorProofs` | `Types`, `AbsenceHasCause`, `RunsCalibrate`, `RowsOnlyAdvance` | all of `mirror` but its liveness |
| `MonthProofs` | `Types`, `LockExcludes`, `AttemptsArePaid`, `AttemptsStayFair`, `AloneIsFair`, `InventoryIsComplete`, `LimitIsShared` | all of `month` but its liveness |
| `BridgeProofs` | `Types`, `AttemptsPaid`, `AppliedFresh`, `RowsEndOnce` | all of `bridge` but its liveness |
| `SupportProofs` | `NothingIsSkipped`, `BudgetKept`, `RequestsSpaced`, `AnswersFresh`, `RowsAdvance`, `IdentitiesSettled`, `IdentitiesAreCurrent`, `DepartmentsKept`, `OneEnabled`, `NumbersAgree`, `SnapshotsWhole` | all of `support` |

### What each rests on

*Assumptions on constants.* The modules name them. `None` is never a value: of the
outbox's versions and publishers, of `Projection`'s publishers and values
(`ConstantsAssumption`, `ValuesAssumption`), of what reviews and tasks hold
(`NoneFresh`). Documents and the tree are finite (`Sizes`, `Ids`). In
`SupportProofs` the assumption is the hypothesis of each theorem:
`GateAssumption` and `BudgetAssumption` say that limits are natural numbers, which
the bounds in `config.py` enforce, and that the clients are finitely many.
`PullAssumption` has `Lag <= Lookback <= Day`: the feed shows an operation within
the 20 minutes `audit_pull.py` counts on, `LOOKBACK_MS` is 40 minutes, a window
never reaches back more than a day. `CacheAssumption` has `TTL <= MaxAge`: the
defaults of `config.py` satisfy it (600 and 900), its ranges (30..600 and 60..900)
do not enforce it, and with a greater `TTL` `_refresh` takes a row for fresh that
is too old to answer with. `IdentityAssumption` has one worker that consumes
dirty months, which the lock `kg_page_identities` of `run_slice` keeps; with two,
TLC shows a month settled for an older generation: a scope that was deleted and
marked again has its generation back. No worker is a publisher, and nobody is no
process. `NumbersAssumption` and `SnapshotAssumption`
have what the tables have: finitely many files, libraries, people, days and months,
documents and facts with one of each, scores and limits that are natural numbers,
and markers for "none", "folder" and "deleted" that are no document. There is a
month, the current one. Nothing is
assumed of who is a robot, official, ignored or excluded.

*Hypotheses on behaviours.* Three theorems about processes under an advisory lock
need more than `Spec`, because MySQL can drop the connection that holds it. For
`Projection` the hypothesis is `[]Exclusive`: no two publishers are in a
cycle at once. `LockExcludes` derives it from
`[][~LoseLock]_vars`, with any crashes, and a single publisher has it whatever its
lock does; `LockedIsExact`, `LockedPartitions`, `AloneIsExact` and
`AlonePartitions` put these together. Without it the counters are wrong, as
section 3 says. For `MonthlyScan` only the bound on attempts needs `[]Exclusive`;
`AttemptsArePaid`, `InventoryIsComplete` and `LimitIsShared` are theorems of `Spec`
alone, with the interruptions that excuse a library named in the property (`cut`).
For `PageIdentity`, `IdentitiesSettled` is a theorem of `Spec`, with the late commits
excused that the property names; `IdentitiesAreCurrent` says that under
`[][~LoseLock]_vars` there are none, so that every identity of a settled month is
as new as the version seen last.
All other theorems are of `Spec` alone.

### The inductive invariants

None of the properties is inductive as it stands. What strengthens them, and why:

*Outbox.* That the acknowledged base is the state its number names depends on
what the receiver may still accept from the wire, which depends on the frames
ever issued. `OutboxInv` says, in named parts, what issued frames look like
(`FramesOK`: a delta has an older base and is the difference to it), that the
sender's base is one of them (`DbInv`), that the receiver's log holds issued
frames in ascending order (`RemoteOK`, `Ascending`), that the network carries only
issued frames and a request with a waiting sender is the one it waits for
(`NetOK`), and that what a process remembers of the head or of an answer was true
(`ProcOK`). Without `ProcOK` a head read before a restore could be adopted as
anything; without `NetOK` a late request could be of a frame with a reused
number. The refinement needs it to know that what is shown after an accepted
delta is the snapshot issued under its number. `Protects` adds `OneLiveLease` and
`OpenHavePayload`: no transaction but a claim gives a lease and none opens a row
whose payload is gone; only an answer or a crash ends a wait, and a publisher
that finishes with the only live lease changes its own row.

*Projection.* `FactInv` adds to types what a publisher's snapshot is worth at its
commit: it differs from the database only by what collectors did since
(`Fresh`, `Collected`), which leave facts and counters alone and only raise the
generations of queues. So a difference taken from the snapshot is one of the
counters as they are, and an entry is deleted only with the generation that was
read. `Unseeded` says that files the seed has still to reach have no fact.
`PartInv` adds that the incremental publication of the database, and of every
snapshot somebody holds, is the full one (`Settled`).

*Reviews.* `IInv` says that one job is executed exactly while the worker is at it
(`Placed`) and that its body was read before it is scored (`Downloaded`), that the
fingerprint of a document is that of its latest score (`PrintsAgree`), that a
review is owed to live documents only (`OwedIsLive`), that a delete is calm only
for documents the service knows (`CalmIsKnown`), and counts messages with the crashes that
repeat them (`EchoesBounded`, `DownIsIdle`).

*Mirror.* `Covered` says what a cut walk has met: of every directory, the nodes
before the token of its next page, unless they were moved or changed since the
run began. `Counted` gives every miss a cause, those the reconciliation may still
count included; `Fresh` and `Exact` compare rows and the page in flight with the
tree.

*Month.* `Kept`: the holder of a lock that was never lost has run and task in
step, and no library waits for the provider's limit while it works. `Paid` and `Given` are the books of one library: an attempt is without its
failure only while its run goes on, is about to, or has succeeded. The proof failed
first at the last case, which is the third way above; the model's `Crash` records
it since, and the property excuses it.

*Bridge.* A pass rewrites rows one after the other, each from what the ones
before have left; `Walked` follows it row by row. `Spent` says that a row has as
many attempts as requests that were answered or lost, and the one under way.

*Support.* `GateInv`: who is at the file has looked at the clock after the last
request. `CacheInv`: who still holds the lease has read after what the row has
was read, and what lands is young. `SaveInv`: identities of rules are
not used twice, nor at two departments; a row that a request has read and that is
still there, and every entry of its history, hold what was given to its department.
`IdentityInv`: while
a month has the generation the worker read, it wants what the worker prepares
(`WorkOK`). Whoever holds the lock has nothing left to resolve but what it has
listed, except for what others without the lock wrote since (`Fetched`), and what
it may still write of an old version belongs to a month that is queued for more
than the worker is about to settle (`Owed`); without `Owed` a builder's late
identities could land in a month that was just settled.
`BudgetInv`: requests that left and those paid for and about to leave are no more
than the calls counted. `PullInv`: what happened a `Lookback` before a window is
stored or behind a gap (`Settled`), what its cursor has passed is stored, and a
page has all there is after the cursor or is full (`Covered`, `Behind`, `Ahead`).

*Numbers.* The properties hold in every state whose rows are documents
(`NumbersInv`): views are functions of the rows, and no order in which these came
about matters. What has to be shown is that each view cuts the same set of files
into disjoint groups. A file is seen through one of the two arms and in one
library only (`LiveArm` leaves out what `BaseArm` has); the spots of a person on a
day, one of each library, add up to what decides whether the day was bulk; pages of
a list cut it, departments and months cut the people and the days. The case of
the dashboard that resisted was a review of a file that no listed library counts: it
is a file the baseline has in another library, or, what TLC had never been given, as a
folder. `DashboardAddsUp` says so now and `MCSupport` has such a node.

*Snapshots.* `SnapshotInv`: a partition that no scope marks is the one a full
rebuild would write. Libraries, months and R&D months are compared key by key,
each with the marks that cause its rebuild. The summary is compared once only
R&D months are marked, because every other mark rewrites it, and before the first
publication there is nothing to compare. A file that changes marks what it was and
what it is; a library that changes owner, or comes or goes, marks all its months;
a directory or an organisation marks its month. With no mark left the
partitions are those of one full rebuild, and what is put together from them is
`BuildSnapshot` and satisfies the contract `Valid`.

### The form of the proofs

One lemma per action and, below it, one step per part the action disturbs.
Induction over data (a cursor through a sequence, sums day by day, the rows of a
pass, the walk of a sorted set) is done over sets of numbers: `Induction` derives from
the least element of a set of naturals that a set with 0 and all successors is all
of them, that a finite set has a greatest number, and that a function given by
its next value exists. From that it derives what a sum over a finite set is:
`SumFunctionOnSet` of the community modules chooses a recursive function over
subsets; `SumsExist` shows that there is one, `SumStep` that any element may be
taken first, `SumGroups` that a sum can be taken group by group, `SumSplit` in two
parts, `SumRename` under other names, and `CountGroups` the same for cardinalities.

*Only model-checked.* Liveness under fairness and `ENABLED` are outside the
prover, so `Delivery`, `CatchesUp`, `EditsAreReviewed`, `RunsComplete`, `CycleEnds`
and `EveryRowEnds` stay with TLC. The runs leave the inductive
invariants and most type invariants out: they are proved.

## 5. What is not modelled

- Outbox: a restore of the sender's own database, exhaustion of the sequence,
  the size of a backoff, creation of the state row, the readiness assertion of
  partitions.
- Projection: creators, scores and verdicts (in `BISnapshot`); identity
  versions beyond which months have them; a change of the configured scope;
  `page_month` scopes; the inventory version.
- Reviews: `HARVEST_BATCH`; the score and the model call (any verdict); message
  texts and allowlists (one Boolean); configuration changes; a second worker.
  A stale snapshot in bridge or harvest only adds duplicates, which
  `Looked` allows. An edit counts as read when its body is downloaded, also
  when scoring then fails; the window of a deleted document is dropped.
- Mirror: folders do not change; seeding of new libraries; the walk outside the
  metadata-only mode; events that expire (they may never be delivered instead);
  more than one located event in flight. One run is walked; a row may begin
  with one miss, which stands for the run before. A lost acknowledgement of a
  commit is the commit.
- Month: `Finish` reads and ends the cycle in one step; with a lost lock the code's
  reading of the tasks and its commit (`scan_scheduler.py:161-165`) can have a
  `Prepare` between them. The due day, the change of the month, the estimate of
  `budget_preflight`, cleanup of old checkpoints, the other mode. A library that
  became ignored ends its run as `skipped`, which the task treats as a failure.
- Pull: read operations, which only count in a daily sum, and the alarm about
  silence.
- Bridge: the classification of action texts and the evidence that proves a
  node; the matching by names and the walk queue of the demo mode. A crash
  right after a reservation costs an attempt without a request, as in the code.
  What a document says may differ from row to row within a pass, which only adds
  outcomes.
- Cache: the warm-up at start, 512 keys and 32 flights at most. The patience of a
  refresh counts from its launch, in the code from the start of its thread
  (`read_cache.py:108`), which a full pool may delay; a source that refreshes
  itself inside another refresh (`read_cache.py:232`) competes for the lease like
  one more process. Neither changes who may publish.
- Metrics: the in-process refresh of the collected view (`metrics.py:192-212`;
  its lock stays held if the thread cannot be started), `page_metrics.py`, which
  shows the published partitions when the service keeps metadata only, and the
  reuse of inventory lists. Dashboard rows of a library miss reviews of files
  that moved into it, or were folders in the baseline, when it counts no file;
  `DashboardAddsUp` has that condition.
- Snapshot: the current month does not change (it does in `Projection`); field
  formats, hashes, chunks. A new directory changes the identities of a month and
  marks it in one step; in the code `_prepare_identities` writes the rows and
  `refresh_versions` of a later build marks the month (`bi_publisher.py:127-136`),
  so that a build between the two can publish the old sums of a month once more.
  The check that the identity versions of `meta` are those of the months
  (`bi_push_contract.py:291`) is left out with the versions.
- Settings: who may edit what; validation of the values.
- Pure functions (scoring, genre, file class, content, organisation map): what
  they compute is their lists of words and numbers, and a model of them would
  only copy those. `ReviewPipeline` allows every verdict.
- The components that `PROJECT.json` marks `not_modelled`, for the reasons given
  there.

## 6. Plan

Done, in the order of importance: `SnapshotFeed`, `BIOutbox`, `BIOutboxProofs`,
`Projection`, `ReviewPipeline`, `LibraryMirror`, `MonthlyScan`, `AuditPull`,
`AuditBridge`, `ApiBudget`, `RateGate`, `ReadCache`, `PageIdentity`, `Metrics`,
`BIExport`, `BISnapshot`, `RuleConfig`; then the proofs about each component that
section 4 names.

Left: refinements for other components, first of a month's cycle by the runs of
its libraries. For the models: the in-process refresh of the collected metrics, and
liveness of the pull in metadata mode.
