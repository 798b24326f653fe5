-------------------------- MODULE SupportInvariants --------------------------
(***************************************************************************)
(* What holds of the components of Support between their steps: of each,   *)
(* what is assumed of its constants, the values its variables take, and    *)
(* the inductive invariant SupportProofs rests its theorems on.            *)
(***************************************************************************)
EXTENDS Support, FiniteSets, Functions

-----------------------------------------------------------------------------
(* RateGate. *)

(* A sender is a process, not nobody.                                      *)
GateAssumption == None \notin Senders /\ {Interval, MaxTime} \subseteq Nat

(* Since the boot, the file has the time of the last request; who is at    *)
(* the file has the lock, and looked at the clock after that request.      *)
GateInv ==
  /\ clock \in Nat /\ file \in Nat /\ early = FALSE
  /\ sender \in [Senders -> [pc : {"out", "loop", "locked"}, look : Nat]]
  /\ granted # None => granted = file /\ granted <= clock
  /\ \A s \in Senders : sender[s].pc = "locked" =>
       holder = s /\ sender[s].look <= clock /\ (granted # None => granted <= sender[s].look)

-----------------------------------------------------------------------------
(* ReadCache. *)

(* An entry, one whose generation is not known yet, and a row.             *)
Entry == [read : Nat, gen : Nat]
Draft == [read : Nat, gen : Nat \cup {None}]
Row == [entry : Entry \cup {None}, owner : (Processes \X Nat) \cup {None}, until : Nat \cup {None}]
Flight == [pc : {"none", "check", "lease", "compute", "computing", "publish", "failed", "landed"},
           life : Nat, deadline : Nat, entry : Draft \cup {None}]
Reader == [pc : {"none", "load", "read", "wait"}, entry : Entry \cup {None}, start : Nat]

(* The defaults of config.py have TTL <= MaxAge, its bounds do not: with a *)
(* greater TTL, _refresh takes a row for fresh that is too old to answer   *)
(* with.  None is no value the cache holds.                                *)
CacheAssumption ==
  /\ TTL \in Nat /\ MaxAge \in Nat \ {0} /\ TTL <= MaxAge /\ Lease \in Nat /\ Patience \in Nat
  /\ None \notin Draft \cup Row \cup (Processes \X Nat)

RowOK(r, t) == r = None \/ (r \in Row /\ (r.entry # None => r.entry.read <= t))
ReaderOK(x, t) == x \in Reader /\ x.start <= t
(* Data was read before its flight lands, and what lands is young.         *)
FlightOK(f, t) ==
  /\ f \in Flight
  /\ f.pc \in {"none", "check", "lease", "compute"} => f.entry = None
  /\ f.pc = "computing" => f.entry # None /\ f.entry.read <= t
  /\ f.pc = "publish" => f.entry \in Entry /\ f.entry.read <= t /\ f.entry.gen = t
  /\ f.pc = "landed" /\ f.entry # None => f.entry \in Entry /\ t - f.entry.gen < MaxAge
(* Who still holds the lease has read after what the row has was read.     *)
Newest(r, p, f) ==
  r # None /\ r.entry # None /\ r.owner = <<p, f.life>> /\ f.pc \in {"computing", "publish"}
    => r.entry.read <= f.entry.read

CacheInv ==
  /\ cacheNow \in Nat /\ cacheFaults \in Nat /\ late = FALSE /\ RowOK(row, cacheNow)
  /\ mem \in [Processes -> Entry \cup {None}]
  /\ reader \in [Processes -> Reader] /\ \A p \in Processes : ReaderOK(reader[p], cacheNow)
  /\ flight \in [Processes -> Flight] /\ \A p \in Processes : FlightOK(flight[p], cacheNow)
  /\ \A p \in Processes : Newest(row, p, flight[p])

(* The fields of a flight. *)
Places == {"none", "check", "lease", "compute", "computing", "publish", "failed", "landed"}

-----------------------------------------------------------------------------
(* RuleConfig. *)

Params == Configs \cup {"V1.1"}
RuleRow == [id : Nat, config : Params, editors : {0, 1}, version : Nat]
ModelRow == [config : Configs, enabled : BOOLEAN]
RuleEntry == [scope : Scopes, id : Nat, config : Params, version : Nat]
ModelEntry == [id : Models, row : ModelRow]
RuleTxn == [op : {"save", "create", "editors", "delete", "rollback"}, key : Scopes,
            arg : Params \cup {None}, row : RuleRow \cup {None}]
ModelTxn == [op : {"newModel", "model", "modelRollback"}, key : Models,
             arg : ModelRow, row : ModelRow \cup {None}]

RulesAssumption == "global" \in Scopes /\ None \notin RuleRow \cup ModelRow \cup RuleTxn \cup ModelTxn

(* The history counts the identities given out: a new row has a greater    *)
(* one than every row there was.                                           *)
Used == Cardinality(ruleLog)
RulesOK(rl, log, giv) ==
  /\ rl \in [Scopes -> RuleRow \cup {None}] /\ giv \in [Scopes -> SUBSET Params]
  /\ log \in SUBSET RuleEntry /\ IsFiniteSet(log)
  /\ \A h \in log : h.id <= Cardinality(log)
  /\ \A s \in Scopes : rl[s] # None =>
       /\ rl[s].id <= Cardinality(log) /\ rl[s].config \in giv[s]
       /\ \A h \in log : h.id = rl[s].id => h.config \in giv[s]
       /\ \A t \in Scopes : rl[t] # None /\ rl[t].id = rl[s].id => t = s
(* What a request has read of a row that is still there was given to it;   *)
(* no other scope has a row of that identity.                              *)
RuleTxnOK(x, rl, giv, n) ==
  /\ x \in RuleTxn
  /\ x.op \in {"rollback", "editors", "delete"} => x.row # None
  /\ x.op = "save" => x.arg \in Params
  /\ x.op = "create" => x.row = None /\ x.arg \in Params
  /\ x.op = "rollback" => x.arg \in Params
  /\ x.row # None =>
       /\ x.row.id <= n
       /\ \A t \in Scopes : rl[t] # None /\ rl[t].id = x.row.id => t = x.key
       /\ rl[x.key] # None /\ rl[x.key].id = x.row.id =>
            x.row.config \in giv[x.key] /\ (x.op = "rollback" => x.arg \in giv[x.key])
ModelTxnOK(x, md) ==
  /\ x \in ModelTxn
  /\ x.op \in {"model", "modelRollback"} => x.row # None /\ md[x.key] # None
TxnOK(x, rl, giv, n, md) == x = None \/ RuleTxnOK(x, rl, giv, n) \/ ModelTxnOK(x, md)
ModelsOK(md) ==
  /\ md \in [Models -> ModelRow \cup {None}]
  /\ \A m, n \in Models : md[m] # None /\ md[n] # None /\ md[m].enabled /\ md[n].enabled => m = n

SaveInv ==
  /\ RulesOK(rule, ruleLog, given) /\ ModelsOK(model) /\ modelLog \in SUBSET ModelEntry
  /\ txn \in [Admins -> {None} \cup RuleTxn \cup ModelTxn]
  /\ \A a \in Admins : TxnOK(txn[a], rule, given, Used, model)

-----------------------------------------------------------------------------
(* PageIdentity. *)

(* One worker at a time: run_slice in page_identity.py holds the lock      *)
(* 'kg_page_identities'.  With two, a generation could come back: one      *)
(* deletes the scope and a new upload starts it from one again.            *)
IdentityAssumption ==
  /\ \A v, w \in Workers : v = w
  /\ Workers \cap Builders = {} /\ None \notin I!Procs

(* A process that knows the version of its month. *)
Seen == {"look", "pages", "store", "due", "resolve", "save"}
Slot == [pc : Seen \cup {"out", "lock", "version", "done", "failed"},
         month : PageMonths \cup {None}, gen : Nat, keys : SUBSET Keys, before : Nat, version : Nat,
         pages : SUBSET Nat, read : Nat, due : SUBSET Keys]
OrgMonth == [version : Nat, pages : SUBSET Nat]

(* What a process has read of the directory is of one version.             *)
SlotOK(x, d) ==
  /\ x \in Slot /\ x.before <= d /\ x.version <= d
  /\ x.pc # "out" => x.month \in PageMonths
  /\ x.pc \in Seen => x.before <= x.version /\ 1 <= x.version
  /\ x.pc \in {"out", "lock", "version", "look"} => x.pages = {}
  /\ x.pc \in {"pages", "store"} => x.pages \subseteq {x.version}
Known(id, s, m, keys, h) == \A k \in keys : id[m][k] > 0 /\ (id[m][k] >= h \/ <<m, k>> \in s)
(* While the scope has the generation the worker read, it still wants what *)
(* the worker prepares.                                                    *)
WorkOK(x, q, wa, id, s, h) ==
  x.pc # "out" =>
    /\ 1 <= x.gen /\ x.gen <= q[x.month]
    /\ q[x.month] = x.gen => x.keys = wa[x.month] /\ (x.pc = "done" => Known(id, s, x.month, x.keys, h))
(* The process with the lock: what it does not resolve any more has its    *)
(* version, but for what others wrote since.                               *)
Fetched(x, id, s) ==
  x.pc \in {"resolve", "save"} =>
    \A k \in x.keys \ x.due : id[x.month][k] > 0 /\ (id[x.month][k] = x.version \/ <<x.month, k>> \in s)
(* What it writes of a version that is not the last one seen, somebody     *)
(* will resolve again.                                                     *)
Owed(x, q, wa, wo, h) ==
  x.pc \in Seen /\ x.version < h =>
    \/ wa[x.month] = {}
    \/ q[x.month] > 0 /\ \A w \in Workers : wo[w].pc = "done" /\ wo[w].month = x.month => wo[w].gen # q[x.month]

IdentityInv ==
  /\ dir \in Nat /\ 1 <= dir /\ hash \in Nat /\ hash <= dir /\ status \in Nat /\ status <= dir
  /\ wanted \in [PageMonths -> SUBSET Keys] /\ queue \in [PageMonths -> Nat]
  /\ ident \in [PageMonths -> [Keys -> Nat]] /\ monthOrg \in [PageMonths -> OrgMonth]
  /\ worker \in [I!Procs -> Slot] /\ \A p \in I!Procs : SlotOK(worker[p], dir)
  /\ \A w \in Workers : WorkOK(worker[w], queue, wanted, ident, stray, hash)
  /\ \A p \in I!Procs : monthLock = p => Fetched(worker[p], ident, stray)
                                         /\ Owed(worker[p], queue, wanted, worker, hash)
  /\ \A m \in PageMonths : queue[m] = 0 => Known(ident, stray, m, wanted[m], hash)
  /\ \A m \in PageMonths : monthOrg[m].pages \subseteq {monthOrg[m].version}

(* While no session with the lock breaks, who works on a month has it, and *)
(* nothing is a stray.                                                     *)
Working == Seen \cup {"version"}
Undisturbed == stray = {} /\ \A p \in I!Procs : worker[p].pc \in Working => monthLock = p
Current == \A m \in PageMonths : queue[m] = 0 => \A k \in wanted[m] : ident[m][k] > 0 /\ ident[m][k] >= hash

-----------------------------------------------------------------------------
(* ApiBudget. *)

BudgetAssumption ==
  /\ IsFiniteSet(Clients) /\ MaxDays \in Nat /\ ScanMax \in Nat
  /\ {DailyLimit, MonthlyLimit, NodesLimit, DailyReserve, MonthlyReserve} \subseteq Nat

(* What B!Upto adds up, day by day. *)
Sums(g, f, n) == g[0] = f[0] /\ \A k \in 1..n : g[k] = g[k - 1] + f[k]

Request ==
  [pc : {"idle", "call", "token", "send", "poll"}, next : B!Interfaces \cup {None},
   then : {"token", "call", "send", None}, token : 0..MaxDays \cup {None},
   month : {B!Month(d) : d \in 0..MaxDays} \cup {None}]
(* Where a request goes next; what is sent has been reserved.              *)
RequestOK(x) ==
  /\ x \in Request
  /\ x.pc = "call" => x.next \in B!Interfaces /\ x.then \in {"token", "send"}
  /\ x.pc = "token" => x.next \in B!Interfaces /\ x.then \in {"call", "send"}
  /\ x.pc = "send" => x.next \in B!Interfaces /\ x.then = "send"
Pays(x, i) == x.pc \in {"send", "token"} /\ x.next = i /\ x.then = "send"

InAll(f, p) == f[<<p, "oauth.accessToken">>] + f[<<p, "wiki.nodes">>]
                 + f[<<p, "doc.exportSubmit">>] + f[<<p, "doc.exportQuery">>]

BudgetInv ==
  /\ today \in 0..MaxDays /\ calls \in [B!Counters -> Nat] /\ spent \in [B!Dated -> Nat]
  /\ sent \in [B!Interfaces -> Nat] /\ client \in [Clients -> Request]
  /\ \A c \in Clients : RequestOK(client[c])
  /\ \A p \in B!Dated : spent[p] <= calls[<<p, "total">>]
  /\ \A p \in B!Dated : calls[<<p, "total">>] = InAll(calls, p)
  /\ \A i \in B!Interfaces : sent[i] + Cardinality({c \in Clients : Pays(client[c], i)}) <= B!Made(i)
  /\ B!ReserveIsKept

(* The counters of an interface by day. *)
Daily(f, i) == [d \in 0..MaxDays |-> f[<<<<"day", d>>, i>>]]

(* The counters an attempt is reserved in. *)
Raised(i, scan) == {l[1] : l \in B!Limits(i, scan)}

(* What a step counts of the requests of an interface: a left, r were      *)
(* reserved.                                                               *)
Counted(j, x, y, a, r) ==
  /\ a \in {0, 1} /\ r \in {0, 1}
  /\ \/ (Pays(y, j) => Pays(x, j)) /\ a <= r
     \/ a = 0 /\ r = 1
     \/ Pays(x, j) /\ ~Pays(y, j)

-----------------------------------------------------------------------------
(* AuditPull. *)

(* The feed is no later than the windows overlap: it lags up to 20 minutes *)
(* (the docstring of audit_pull.py), LOOKBACK_MS is 40 of them, and a      *)
(* window asks for a day.  Numbers are bounded, so a page has a last one.  *)
PullAssumption ==
  /\ Lag \in Nat /\ Lookback \in Nat /\ Day \in Nat /\ Lag <= Lookback /\ Lookback <= Day
  /\ PageSize \in Nat \ {0} /\ Modes \subseteq {"metadata", "legacy"}
  /\ Biz \subseteq Nat /\ \E n \in Nat : \A b \in Biz : b <= n
  /\ None \notin Int /\ None \notin Nat \X Biz

Event == Nat \X Biz
Instant == Int \cup {None}
PullState ==
  [start : Instant, end : Instant, cur : Event \cup {None}, done : Instant, last : Instant, ran : Instant,
   gap : Instant, reason : {"", "expired_window", "migration_gap", "lookback_exceeded"}]
Cycle ==
  [pc : {"out", "fetch", "page", "read", "pulled"}, pages : Nat, rows : SUBSET Event,
   cur : Event \cup {None}, start : Instant, end : Instant]

Live == hidden \cup shown
Reached(cur, e) == cur # None /\ ~Log!Before(cur, e)
Accounted(e) == e \in ev \/ e[1] \in unread
(* What lies before a window needs no more reading, nor what was read of   *)
(* it; but for operations the feed may have shown after it was opened.     *)
Settled(end) == \A e \in Live : from <= e[1] /\ e[1] + Lookback < end => Accounted(e)
Covered(start, end) ==
  \A e \in Live : from <= e[1] /\ e[1] < start /\ e[1] + Lookback < end => Accounted(e)
Behind(start, end, cur, got) ==
  \A e \in Live : start <= e[1] /\ e[1] + Lookback < end /\ Reached(cur, e) => e \in got
(* A page that is asked for behind a cursor has all there is, or is full.  *)
Ahead(start, end, cur, rows) ==
  \A e \in Live : start <= e[1] /\ e[1] + Lookback < end /\ ~Reached(cur, e)
    => e \in rows \/ (Cardinality(rows) >= PageSize /\ \A a \in rows : Log!Before(a, e))

PullTypes ==
  /\ now \in Nat /\ hidden \in SUBSET Event /\ shown \in SUBSET Event /\ ev \in SUBSET Event
  /\ IsFiniteSet(shown) /\ st \in PullState /\ proc \in Cycle /\ from \in Instant
  /\ \A e \in hidden : e[1] <= now /\ now <= e[1] + Lag
  /\ \A e \in shown : e[1] <= now
  /\ mode \in {"metadata", "legacy"}
  /\ IsFiniteSet(proc.rows) /\ \A a \in proc.rows : a[1] <= now

MetadataInv ==
  /\ proc.pc \in {"out", "fetch", "page"}
  /\ st.done # None => st.done <= now /\ from # None /\ Settled(st.done)
  /\ from # None => st.gap # None /\ st.gap <= from /\ st.reason # ""
  /\ st.start # None => /\ st.end # None /\ st.end <= now /\ from # None
                        /\ Covered(st.start, st.end) /\ Behind(st.start, st.end, st.cur, ev)
  /\ proc.pc # "out" => st.start # None
  /\ proc.pc = "page" => Ahead(st.start, st.end, st.cur, proc.rows)

LegacyInv ==
  /\ proc.pc \in {"out", "read", "pulled"}
  /\ st.last # None => st.last <= now /\ from # None /\ Settled(st.last)
  /\ proc.pc # "out" =>
       /\ proc.start # None /\ proc.end # None /\ proc.end <= now /\ from # None
       /\ Covered(proc.start, proc.end) /\ Behind(proc.start, proc.end, proc.cur, proc.rows)
       /\ \A a \in proc.rows : a[1] <= proc.end /\ proc.cur # None /\ (a = proc.cur \/ Log!Before(a, proc.cur))

PullInv ==
  /\ PullTypes
  /\ mode = "metadata" => MetadataInv
  /\ mode = "legacy" => LegacyInv

Gapped(s) == s.gap # None /\ s.reason # ""

-----------------------------------------------------------------------------
(* BISnapshot. *)

(* Finitely many files, libraries and months; what is known of a file is   *)
(* of these libraries and months.                                          *)
SnapshotAssumption ==
  /\ IsFiniteSet(FactFiles) /\ IsFiniteSet(Spaces)
  /\ IsFiniteSet(FactMonths) /\ FactMonths # {} /\ FactMonths \subseteq Nat
  /\ Facts \subseteq Snap!Fact /\ Retained \in Nat

(* The partitions of one full rebuild. *)
MonthPart(m) == <<Snap!MonthlyRow(known, m), Snap!Employees(known, m), Snap!Diagnostics(known, m)>>
SummaryPart == Snap!Summary([w \in known |-> Snap!WorkspaceRow(w)])
WholeKeys ==
  {<<"summary", 0>>} \cup ({"workspace"} \X known) \cup ({"month"} \X Snap!AvailableMonths)
  \cup ({"rd-month"} \X {m \in FactMonths : ~Snap!Missing(m)})
IsWhole(p) ==
  /\ p = [k \in WholeKeys |-> p[k]] /\ p[<<"summary", 0>>] = SummaryPart
  /\ \A w \in known : p[<<"workspace", w>>] = Snap!WorkspaceRow(w)
  /\ \A m \in Snap!AvailableMonths : p[<<"month", m>>] = MonthPart(m)
  /\ \A m \in FactMonths : ~Snap!Missing(m) => p[<<"rd-month", m>>] = Snap!RdRow(m)

(* What no scope marks is what a full rebuild would write: by key where    *)
(* marks are by key, and the whole summary once only R&D months are left.  *)
(* Before the first publication there is nothing to compare.               *)
SnapshotKeys ==
  {<<"summary", 0>>} \cup ({"workspace"} \X Spaces) \cup ({"month"} \X FactMonths) \cup ({"rd-month"} \X FactMonths)
CleanSpace(w) == w \notin Snap!Dirty("workspace") \cup Snap!Dirty("registry")
CleanMonth(m) == m \notin Snap!Dirty("month") \cup Snap!WorkspaceMonths
CleanRd(m) == CleanMonth(m) /\ m \notin Snap!Dirty("rd-month")
SnapshotTypes ==
  /\ fact \in [FactFiles -> Facts \cup {None}] /\ known \subseteq Spaces
  /\ owner \in [Spaces -> Snap!Departments] /\ DOMAIN identity = FactMonths /\ org \in [FactMonths -> SUBSET Snap!Departments]
  /\ scopes \subseteq SnapshotKeys \cup ({"registry"} \X Spaces)
PartsInv ==
  /\ parts = [k \in DOMAIN parts |-> parts[k]] /\ DOMAIN parts \subseteq SnapshotKeys
  /\ <<"summary", 0>> \in DOMAIN parts
  /\ \A w \in Spaces : CleanSpace(w) =>
       /\ <<"workspace", w>> \in DOMAIN parts <=> w \in known
       /\ w \in known => parts[<<"workspace", w>>] = Snap!WorkspaceRow(w)
  /\ \A m \in FactMonths : CleanMonth(m) /\ <<"month", m>> \in DOMAIN parts =>
       parts[<<"month", m>>] = MonthPart(m)
  /\ \A m \in FactMonths : CleanRd(m) /\ <<"rd-month", m>> \in DOMAIN parts =>
       ~Snap!Missing(m) /\ parts[<<"rd-month", m>>] = Snap!RdRow(m)
  /\ (\A s \in scopes : s[1] = "rd-month") => parts[<<"summary", 0>>] = SummaryPart
  /\ scopes = {} => DOMAIN parts = WholeKeys
SnapshotInv == SnapshotTypes /\ (~Snap!Full => PartsInv)

(* What a step leaves alone: a library, a month. *)
SameSpace(w) ==
  /\ w \in known' <=> w \in known
  /\ Snap!In(w)' = Snap!In(w) /\ \A f \in Snap!In(w) : fact'[f] = fact[f]
About(v, m) ==
  v # None /\ ((v.day # None /\ v.day[1] = m) \/ (v.review # None /\ v.review.month = m))
SameMonth(m) ==
  \A f \in FactFiles : About(fact[f], m) \/ About(fact'[f], m) =>
    /\ fact'[f] = fact[f]
    /\ fact[f].ws \in known' <=> fact[f].ws \in known
    /\ owner'[fact[f].ws] = owner[fact[f].ws]

(* A step that writes no partition, and marks what it changes. *)
Marked ==
  /\ parts' = parts /\ SnapshotTypes'
  /\ \A w \in Spaces : CleanSpace(w)' => CleanSpace(w) /\ SameSpace(w)
  /\ \A m \in FactMonths : CleanMonth(m)' => CleanMonth(m) /\ SameMonth(m) /\ identity'[m] = identity[m]
  /\ \A m \in FactMonths : CleanRd(m)' => CleanRd(m) /\ SameMonth(m) /\ org'[m] = org[m]
  /\ (\A s \in scopes' : s[1] = "rd-month") =>
       (\A s \in scopes : s[1] = "rd-month") /\ fact' = fact /\ known' = known
  /\ scopes' = {} => scopes = {} /\ UNCHANGED <<fact, owner, known, identity, org>>

-----------------------------------------------------------------------------
(* Metrics and BIExport. *)

(* Finitely many nodes, libraries, people and days; a document has one of  *)
(* each, and maybe no day; what stands for no document is none.            *)
Documents == [ws : Spaces, who : Users, day : Days \cup {None}]
NumbersAssumption ==
  /\ IsFiniteSet(Nodes) /\ IsFiniteSet(Spaces) /\ IsFiniteSet(Users) /\ IsFiniteSet(Days)
  /\ Days \subseteq Nat \X Nat \X Nat /\ None \notin Spaces
  /\ {None, Folder, Deleted} \cap Documents = {} /\ Rows \subseteq Documents \cup {Folder, Deleted}
  /\ Baselines \subseteq [Nodes -> Documents \cup {Folder, None}]
  /\ Staffings \subseteq [Users -> Num!Departments \cup {None}]
  /\ Reviews \in [Nodes -> Seq([day : Days, verdict : Num!Verdicts, score : Nat])]
  /\ TopRows \in Nat

(* Rows are documents: no view depends on how they came about, so that the *)
(* properties are about every such state.                                  *)
NumbersInv ==
  /\ base \in [Nodes -> Documents \cup {Folder, None}] /\ docs \in [Nodes -> Documents \cup {Folder, Deleted, None}]
  /\ inactive \subseteq Spaces /\ staff \in [Users -> Num!Departments \cup {None}]

(* The counts by library, person and day; those by person and day have no  *)
(* library.                                                                *)
Spots == Spaces \X Users \X Days
Counts == [s \in Spots \cup Num!PersonDays |-> Num!CountOf(Num!Collected, s)]
At(c) == {f \in Num!Files : <<f[2].ws, f[2].who, f[2].day>> = c}

(* What a selection of them adds up to, in all or of bulk days only.       *)
Everything == Spots \cup Num!PersonDays
Bulky == {s \in Spots \cup Num!PersonDays : Num!Bulk(Num!Collected, s)}
Amount(Z, S) == SumFunctionOnSet(Counts, S \cap Z)

(* The rows of a tree, and all of a period in libraries and at large.      *)
Below(period, people, spaces) ==
  {s \in spaces \X Users \X Days : s[2] \in people /\ Num!Within(s[3], period) /\ Num!CountOf(Num!Collected, s) > 0}
Spread(period) == {s \in Spots : Num!Within(s[3], period)}
Whole(period) == {s \in Num!PersonDays : Num!Within(s[3], period)}

Branch(period, people, spaces, k) == {s \in Below(period, people, spaces) : Num!Key(s[3], Len(period) + 1) = k}

(* The rows by uploader: their files, in any selection, in groups, split.  *)
FileCounts == [s \in Num!Stats |-> Num!FileCount(s)]
Tally(rows) == SumFunctionOnSet(FileCounts, rows)

(* Files of some people, of one and by month.                              *)
RowsOf(m, people) == {t \in Num!StatsIn(m) : t[2] \in people}

=============================================================================
