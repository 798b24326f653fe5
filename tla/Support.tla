------------------------------- MODULE Support ------------------------------
(***************************************************************************)
(* Components that share nothing, side by side: the pull of the audit log, *)
(* the counters and the rate of calls, the cache, page identities, the     *)
(* settings, the numbers of pages and exports, and the snapshots for the   *)
(* BI centre.  A behaviour is one of one component, `which'; the variables *)
(* of the others stay off.                                                 *)
(***************************************************************************)
EXTENDS Integers, Sequences

CONSTANTS None, MaxTime, MaxFaults,
  Biz, Modes, Lag, Lookback, Day, PageSize, MaxPages, MaxEvents,         \* AuditPull
  Clients, Scanners, DaysPerMonth, DailyLimit, MonthlyLimit, NodesLimit, \* ApiBudget
  DailyReserve, MonthlyReserve, ScanMax, MaxDays, MaxCalls,
  Senders, Interval, MaxReboots,                                         \* RateGate
  Processes, TTL, MaxAge, Lease, Patience, MaxReads, CacheTime,          \* ReadCache
  PageMonths, Keys, Workers, Builders, DirectoryPages,                   \* PageIdentity
  MaxVersion, MaxUploads,
  Admins, Scopes, Configs, Models, MaxSaves,                             \* RuleConfig
  Spaces, Robots,                                                        \* both below
  Nodes, Users, Days, Rows, Baselines, Staffings, BulkMin, TopRows,      \* BIExport
  Folder, Deleted, KeyOf, Official, Ignored, Excluded, Reviews,
  WindowMonths,
  FactFiles, FactMonths, Facts, Resolutions, BulkDay, Retained, MaxEdits \* BISnapshot

VARIABLES
  which,
  now, hidden, shown, ev, st, proc, mode, from, unread, faults,          \* AuditPull
  today, calls, client, spent, sent,                                     \* ApiBudget
  clock, file, holder, sender, granted, early, reboots,                  \* RateGate
  cacheNow, row, mem, flight, reader, late, reads, cacheFaults,          \* ReadCache
  dir, wanted, queue, delayed, hash, ident, monthOrg, monthLock, worker, \* PageIdentity
  status, stray, uploads, idFaults,
  rule, ruleLog, model, modelLog, txn, lock, given, held, saves,         \* RuleConfig
  base, docs, inactive, staff,                                           \* BIExport
  fact, owner, known, identity, org, scopes, parts, acked, edits         \* BISnapshot

pull   == <<now, hidden, shown, ev, st, proc, mode, from, unread, faults>>
budget == <<today, calls, client, spent, sent>>
gate   == <<clock, file, holder, sender, granted, early, reboots>>
cache  == <<cacheNow, row, mem, flight, reader, late, reads, cacheFaults>>
months == <<dir, wanted, queue, delayed, hash, ident, monthOrg, monthLock, worker, status, stray,
            uploads, idFaults>>
rules  == <<rule, ruleLog, model, modelLog, txn, lock, given, held, saves>>
numbers  == <<base, docs, inactive, staff>>
snapshot == <<fact, owner, known, identity, org, scopes, parts, acked, edits>>
all    == <<which, pull, budget, gate, cache, months, rules, numbers, snapshot>>

Log == INSTANCE AuditPull
B == INSTANCE ApiBudget
G == INSTANCE RateGate
C == INSTANCE ReadCache WITH
  now <- cacheNow, faults <- cacheFaults, Procs <- Processes, MaxTime <- CacheTime
I == INSTANCE PageIdentity WITH
  org <- monthOrg, lock <- monthLock, proc <- worker, faults <- idFaults,
  Months <- PageMonths, Pages <- DirectoryPages
R == INSTANCE RuleConfig
Num == INSTANCE BIExport
Snap == INSTANCE BISnapshot WITH Files <- FactFiles, Months <- FactMonths

-----------------------------------------------------------------------------
PullOff ==
  now = "off" /\ hidden = "off" /\ shown = "off" /\ ev = "off" /\ st = "off" /\ proc =
  "off" /\ mode = "off" /\ from = "off" /\ unread = "off" /\ faults = "off"
BudgetOff ==
  today = "off" /\ calls = "off" /\ client = "off" /\ spent = "off" /\ sent = "off"
GateOff ==
  clock = "off" /\ file = "off" /\ holder = "off" /\ sender = "off" /\ granted = "off" /\
  early = "off" /\ reboots = "off"
CacheOff ==
  cacheNow = "off" /\ row = None /\ mem = "off" /\ flight = "off" /\ reader = "off" /\
  late = "off" /\ reads = "off" /\ cacheFaults = "off"
MonthsOff ==
  dir = "off" /\ wanted = "off" /\ queue = "off" /\ delayed = "off" /\ hash = "off" /\
  ident = "off" /\ monthOrg = "off" /\ monthLock = "off" /\ worker = "off" /\ status =
  "off" /\ stray = "off" /\ uploads = "off" /\ idFaults = "off"
RulesOff ==
  rule = "off" /\ ruleLog = "off" /\ model = "off" /\ modelLog = "off" /\ txn = "off" /\
  lock = "off" /\ given = "off" /\ held = "off" /\ saves = "off"

NumbersOff ==
  base = "off" /\ docs = "off" /\ inactive = "off" /\ staff = "off"
SnapshotOff ==
  fact = "off" /\ owner = "off" /\ known = "off" /\ identity = "off" /\ org = "off" /\
  scopes = "off" /\ parts = "off" /\ acked = "off" /\ edits = "off"

Init ==
  \/ which = "pull" /\ Log!Init /\ BudgetOff /\ GateOff /\ CacheOff /\ MonthsOff /\ RulesOff
       /\ NumbersOff /\ SnapshotOff
  \/ which = "budget" /\ B!Init /\ PullOff /\ GateOff /\ CacheOff /\ MonthsOff /\ RulesOff
       /\ NumbersOff /\ SnapshotOff
  \/ which = "gate" /\ G!Init /\ PullOff /\ BudgetOff /\ CacheOff /\ MonthsOff /\ RulesOff
       /\ NumbersOff /\ SnapshotOff
  \/ which = "cache" /\ C!Init /\ PullOff /\ BudgetOff /\ GateOff /\ MonthsOff /\ RulesOff
       /\ NumbersOff /\ SnapshotOff
  \/ which = "months" /\ I!Init /\ PullOff /\ BudgetOff /\ GateOff /\ CacheOff /\ RulesOff
       /\ NumbersOff /\ SnapshotOff
  \/ which = "rules" /\ R!Init /\ PullOff /\ BudgetOff /\ GateOff /\ CacheOff /\ MonthsOff
       /\ NumbersOff /\ SnapshotOff
  \/ which = "numbers" /\ Num!Init /\ PullOff /\ BudgetOff /\ GateOff /\ CacheOff /\ MonthsOff
       /\ RulesOff /\ SnapshotOff
  \/ which = "snapshot" /\ Snap!Init /\ PullOff /\ BudgetOff /\ GateOff /\ CacheOff /\ MonthsOff
       /\ RulesOff /\ NumbersOff
Next ==
  \/ /\ which = "pull" /\ Log!Next
     /\ UNCHANGED <<which, budget, gate, cache, months, rules, numbers, snapshot>>
  \/ /\ which = "budget" /\ B!Next
     /\ UNCHANGED <<which, pull, gate, cache, months, rules, numbers, snapshot>>
  \/ /\ which = "gate" /\ G!Next
     /\ UNCHANGED <<which, pull, budget, cache, months, rules, numbers, snapshot>>
  \/ /\ which = "cache" /\ C!Next
     /\ UNCHANGED <<which, pull, budget, gate, months, rules, numbers, snapshot>>
  \/ /\ which = "months" /\ I!Next
     /\ UNCHANGED <<which, pull, budget, gate, cache, rules, numbers, snapshot>>
  \/ /\ which = "rules" /\ R!Next
     /\ UNCHANGED <<which, pull, budget, gate, cache, months, numbers, snapshot>>
  \/ /\ which = "numbers" /\ Num!Next
     /\ UNCHANGED <<which, pull, budget, gate, cache, months, rules, snapshot>>
  \/ /\ which = "snapshot" /\ Snap!Next
     /\ UNCHANGED <<which, pull, budget, gate, cache, months, rules, numbers>>
Spec == Init /\ [][Next]_all

-----------------------------------------------------------------------------
(* The properties, each stated in the module of its component.             *)

(* The pull skips no operation it could still have read.                   *)
NothingSkipped == which = "pull" => Log!NothingSkipped
(* Counters of calls agree, cover what was sent, and scans leave to the    *)
(* others what is reserved for them.                                       *)
BudgetHolds == which = "budget" => B!BudgetHolds
(* Requests of two processes keep their distance.                          *)
RequestsAreSpaced == which = "gate" => G!RequestsAreSpaced
(* A cached response is never replaced by an older one.                    *)
PublishedAdvances == C!PublishedAdvances
(* No answer is older than the age it may have.                            *)
AnswersAreFresh == which = "cache" => C!AnswersAreFresh
(* No upload and no directory is forgotten by the identities of a month,   *)
(* and its organisation is of one version.                                 *)
IdentitiesSettle == which = "months" => I!IdentitiesSettle
(* A department's own rules move only when they are saved.                 *)
DepartmentsStandAlone == which = "rules" => R!DepartmentsStandAlone
(* One model is enabled at most.                                           *)
OneModelEnabled == which = "rules" => R!OneModelEnabled
(* Drill-downs, tables by uploader, exports and the dashboard tell the     *)
(* same of the same files.                                                 *)
ViewsAgree ==
  which = "numbers" => Num!DrillAgrees /\ Num!RollupsAgree /\ Num!ExportsAgree /\ Num!DashboardAddsUp
(* Partitions rebuilt one by one are the snapshot of all facts, its bulk   *)
(* is told by person and day, and the R&D months are current.              *)
SnapshotIsWhole ==
  which = "snapshot" => Snap!ComposedIsWhole /\ Snap!BulkIsByPerson /\ Snap!RdIsCurrent
=============================================================================
