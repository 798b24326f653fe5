------------------------------ MODULE Metrics -------------------------------
(***************************************************************************)
(* The aggregates of the pages (metrics.py): a merged view over the frozen *)
(* baseline and the live mirror, counted by library, by person and day,    *)
(* and drilled by year, month and day; and the tables by uploader, which   *)
(* read pre-aggregated rows of the last uploader scan.  A day is a tuple   *)
(* <<year, month, day>>; a period is a prefix of one, <<>> for always.     *)
(***************************************************************************)
EXTENDS Integers, Sequences, FiniteSets, Functions, SequencesExt

CONSTANTS Nodes, Spaces, Users, Days,
          Rows,       \* what the collectors write: a row, Folder or Deleted
          Baselines,  \* primary baselines: node -> row, Folder or None
          Staffings,  \* employee_map: user -> department, None if unmatched
          Robots,     \* robot_user_ids: users and employee keys
          BulkMin,    \* PERSON_DAY_BULK_MIN
          TopRows,    \* uploaders ranked at most
          Folder, Deleted, None

VARIABLES base,      \* the primary baseline, fixed
          docs,      \* node -> live document, Folder, Deleted or None
          inactive,  \* libraries no longer visible
          staff      \* the identities, fixed
vars == <<base, docs, inactive, staff>>

Departments == {"rd", "other"}
Init ==
  /\ base \in Baselines /\ docs = [n \in Nodes |-> None] /\ inactive = {} /\ staff \in Staffings

-----------------------------------------------------------------------------
(* Collect. *)

Visible(r) == r \notin {None, Folder, Deleted} /\ r.ws \notin inactive
BaseArm == {n \in Nodes : Visible(base[n]) /\ docs[n] # Deleted}
\* Mutant: a live row counts although the baseline has its node.
MutLiveArm == {n \in Nodes : Visible(docs[n])}
LiveArm == {n \in Nodes : Visible(docs[n]) /\ base[n] = None}

Files == {<<n, base[n]>> : n \in BaseArm} \cup {<<n, docs[n]>> : n \in LiveArm}
CreatorDay(cells, u, d) == SumFunction([w \in Spaces |-> cells[<<w, u, d>>]])
Within(d, period) == IsPrefix(period, d)
Key(d, level) == SubSeq(d, 1, level)
Months == {Key(d, 2) : d \in Days}

\* rows: counts by person and day, or by library, person and day
CountOf(data, s) == IF s[1] = None THEN data.creatorDay[<<s[2], s[3]>>] ELSE data.cells[s]
\* Mutant: the count of one library decides whether a day was bulk.
MutBulk(data, s) == s[2] \in Robots \/ CountOf(data, s) >= BulkMin
Bulk(data, s) == s[2] \in Robots \/ data.creatorDay[<<s[2], s[3]>>] >= BulkMin

Counted(data, rows) ==
  LET total == SumFunction([s \in rows |-> CountOf(data, s)])
      bulk == SumFunction([s \in {r \in rows : Bulk(data, r)} |-> CountOf(data, s)])
  IN  [total |-> total, bulk |-> bulk, routine |-> total - bulk]
PersonDays == {None} \X Users \X Days

Collected ==
  LET cells == [c \in Spaces \X Users \X Days |-> Cardinality({f \in Files : <<f[2].ws, f[2].who, f[2].day>> = c})]
      spaces == [w \in Spaces |-> Cardinality({f \in Files : f[2].ws = w})]
  IN  [cells |-> cells, spaceTotals |-> spaces,
       creatorDay |-> [p \in Users \X Days |-> CreatorDay(cells, p[1], p[2])],
       totalFiles |-> SumFunction(spaces)]
SpaceMonth(data, w, m) ==
  SumFunctionOnSet(data.cells, {c \in DOMAIN data.cells : c[1] = w /\ Within(c[3], m)})
Increment(data, m) == Counted(data, {s \in PersonDays : Within(s[3], m)})
Yearly(data, y) ==
  LET in == {m \in Months : Within(m, y)}
  IN  [total |-> SumFunction([m \in in |-> Increment(data, m).total]),
       bulk |-> SumFunction([m \in in |-> Increment(data, m).bulk]),
       routine |-> SumFunction([m \in in |-> Increment(data, m).routine])]

-----------------------------------------------------------------------------
(* The tree below a period: rows one level down, of some people, and of    *)
(* all libraries (None) or of some, as the R&D scope takes them.           *)

Tree(data, period, people, spaces) ==
  LET rows == {s \in (spaces \X Users \X Days) :
                 s[2] \in people /\ Within(s[3], period) /\ CountOf(data, s) > 0}
      level == Len(period) + 1
  IN  [k \in {Key(s[3], level) : s \in rows} |->
         Counted(data, {s \in rows : Key(s[3], level) = k})]
RdPeople == {u \in Users : staff[u] = "rd"}

-----------------------------------------------------------------------------
(* Tables by uploader, from uploader_month_stats. *)

FilesAt(s) == {n \in Nodes : base[n] \notin {None, Folder} /\ base[n].ws = s[1] /\ base[n].who = s[2]
                              /\ base[n].day # None /\ Within(base[n].day, s[3])}
FileCount(s) == Cardinality(FilesAt(s))
Stats == {s \in Spaces \X Users \X Months : FilesAt(s) # {}}
StatsIn(m) == {s \in Stats : Within(s[3], m)}
Uploaded(u, m) == SumFunction([s \in {t \in StatsIn(m) : t[2] = u} |-> FileCount(s)])
Uploaders(m) == {s[2] : s \in StatsIn(m)}

Person(u) == IF u \in Robots THEN "robot" ELSE IF staff[u] # None THEN staff[u] ELSE "unmatched"
Ranked(m) == {u \in Uploaders(m) :
                Cardinality({v \in Uploaders(m) : Uploaded(v, m) > Uploaded(u, m)}) < TopRows}
FilesOf(m, people) == SumFunction([u \in people |-> Uploaded(u, m)])
Ranking(m) ==
  LET top == Ranked(m)
  IN  [total |-> FilesOf(m, top),
       robot |-> FilesOf(m, {u \in top : Person(u) = "robot"}),
       unmatched |-> FilesOf(m, {u \in top : Person(u) = "unmatched"}),
       human |-> FilesOf(m, {u \in top : Person(u) \in Departments})]
\* Mutant: people without a mapping are left out of the departments.
MutDepartmentRollup(m) ==
  [d \in {Person(u) : u \in Uploaders(m)} \ {"unmatched"} |-> FilesOf(m, {u \in Uploaders(m) : Person(u) = d})]
DepartmentRollup(m) ==
  [d \in {Person(u) : u \in Uploaders(m)} |-> FilesOf(m, {u \in Uploaders(m) : Person(u) = d})]
OrgRollup(m) ==
  [d \in {Person(u) : u \in Uploaders(<<>>)} |->
     [stock |-> FilesOf(<<>>, {u \in Uploaders(<<>>) : Person(u) = d}),
      delta |-> FilesOf(m, {u \in Uploaders(<<>>) : Person(u) = d})]]
UploaderMonths == [m \in {s[3] : s \in Stats} |-> SumFunction([s \in StatsIn(m) |-> FileCount(s)])]
Breakdown(u, m) == [months |-> [k \in {s[3] : s \in {t \in Stats : t[2] = u}} |-> Uploaded(u, k)], period |-> Uploaded(u, m)]

-----------------------------------------------------------------------------
(* What changes under the aggregates: a collector's write, a library that  *)
(* disappears or comes back, an identity.                                  *)
Collect(n) == /\ \E r \in Rows : docs' = [docs EXCEPT ![n] = r]
              /\ UNCHANGED <<base, inactive, staff>>
Toggle(w) == /\ inactive' = IF w \in inactive THEN inactive \ {w} ELSE inactive \cup {w}
             /\ UNCHANGED <<base, docs, staff>>
Next == (\E n \in Nodes : Collect(n)) \/ (\E w \in Spaces : Toggle(w))
Spec == Init /\ [][Next]_vars

-----------------------------------------------------------------------------
Sum(f) == SumFunction([k \in DOMAIN f |-> f[k].total])
SumBulk(f) == SumFunction([k \in DOMAIN f |-> f[k].bulk])

(* A file counts once.  The pages that show it agree: drilling into a year *)
(* or a month gives rows that sum up to the row above, in total and bulk,  *)
(* for everybody and for some people; the same numbers come out when the   *)
(* scope is every single library, and in the monthly increments.           *)
DrillAgrees ==
  LET data == Collected
      T(period, people, spaces) == Tree(data, period, people, spaces)
      All == {None}
  IN
  /\ data.totalFiles = Cardinality({n \in Nodes :
       /\ docs[n] # Deleted
       /\ IF base[n] # None THEN Visible(base[n]) ELSE Visible(docs[n])})
  /\ \A people \in {Users, RdPeople}, period \in {<<>>} \cup {Key(d, 1) : d \in Days} :
       LET up == T(period, people, All)
       IN  \A k \in DOMAIN up : LET down == T(k, people, All)
                                IN  Sum(down) = up[k].total /\ SumBulk(down) = up[k].bulk
  /\ \A period \in {<<>>} \cup Months :
       /\ Sum(T(period, Users, Spaces)) = Sum(T(period, Users, All))
       /\ SumBulk(T(period, Users, Spaces)) = SumBulk(T(period, Users, All))
  /\ \A m \in Months :
       /\ Increment(data, m).total = Sum(T(m, Users, All))
       /\ Increment(data, m).bulk = SumBulk(T(m, Users, All))
       /\ SumFunction([w \in Spaces |-> SpaceMonth(data, w, m)]) = Increment(data, m).total
  /\ \A y \in {Key(d, 1) : d \in Days} : Yearly(data, y).total = Sum(T(y, Users, All))

(* The tables by uploader split the same files: departments, the tree of   *)
(* the organisation and the months of the ranking, as long as there are no *)
(* more uploaders than the ranking reads.                                  *)
RollupsAgree ==
  \A m \in {<<>>} \cup Months :
    LET d == DepartmentRollup(m)
    IN  /\ SumFunction(d) = SumFunctionOnSet(UploaderMonths, {k \in DOMAIN UploaderMonths : Within(k, m)})
        /\ \A k \in DOMAIN d : OrgRollup(m)[k].delta = d[k]
        /\ Cardinality(Uploaders(m)) <= TopRows =>
             /\ Ranking(m).total = SumFunction(d)
             /\ Ranking(m).total = Ranking(m).robot + Ranking(m).unmatched + Ranking(m).human
        /\ \A u \in Users : LET b == Breakdown(u, m) IN
             b.period = SumFunctionOnSet(b.months, {k \in DOMAIN b.months : Within(k, m)})
=============================================================================
