------------------------------ MODULE BIExport ------------------------------
(***************************************************************************)
(* The read-only facts the BI centre pulls (bi_export.py): uploads of one  *)
(* month from the uploader rows, and the dashboard, which joins the merged *)
(* view of Metrics, the latest review of every current file and the rows   *)
(* by uploader.  An average is kept as the sum of its scores.              *)
(***************************************************************************)
EXTENDS Metrics

CONSTANTS KeyOf,     \* user -> employee key, "" for none
          Official,  \* users with include_official
          Ignored,   \* libraries with an ignored prefix
          Excluded,  \* libraries of a level that is not exported
          Reviews,   \* node -> its reviews, oldest first
          WindowMonths

Verdicts == {"pass", "manual_review", "return"}
MonthOf(d) == Key(d, 2)

-----------------------------------------------------------------------------
(* Uploads of one month. *)

\* SourceRows: uploader_month_stats of the month, joined with employee_map
SourceRows(m) == {s \in StatsIn(m) : s[1] \notin Ignored}
\* Mutant: a robot is recognised by its user only, not by its employee key.
MutIsOfficial(u) == KeyOf[u] # "" /\ staff[u] # None /\ u \in Official /\ u \notin Robots
IsOfficial(u) == KeyOf[u] # "" /\ staff[u] # None /\ u \in Official /\ u \notin Robots /\ KeyOf[u] \notin Robots
OfficialRows(m) == {s \in SourceRows(m) : IsOfficial(s[2])}
FilesIn(rows) == SumFunction([s \in rows |-> FileCount(s)])

MonthlySummary(m) ==
  [observed |-> FilesIn(SourceRows(m)), official |-> FilesIn(OfficialRows(m)),
   employees |-> Cardinality({KeyOf[s[2]] : s \in OfficialRows(m)}),
   spaces |-> Cardinality({s[1] : s \in OfficialRows(m)}),
   excluded |-> FilesIn(SourceRows(m)) - FilesIn(OfficialRows(m)),
   outsiders |-> Cardinality({s[2] : s \in {t \in SourceRows(m) : ~IsOfficial(t[2])}})]
MonthlyEmployees(m) ==
  [k \in {KeyOf[s[2]] : s \in OfficialRows(m)} |->
     LET mine == {s \in OfficialRows(m) : KeyOf[s[2]] = k}
     IN  [files |-> FilesIn(mine), spaces |-> Cardinality({s[1] : s \in mine})]]
MonthlyEmployeeWorkspaces(m) ==
  [f \in {<<KeyOf[s[2]], s[1]>> : s \in OfficialRows(m)} |->
     FilesIn({s \in OfficialRows(m) : <<KeyOf[s[2]], s[1]>> = f})]

\* The rows of all pages of an answer with so many rows, read one by one.
Page(total, page, size) == {i \in 1..total : (page - 1) * size < i /\ i <= page * size}
Pages(total, size) == (total + size - 1) \div size

-----------------------------------------------------------------------------
(* The dashboard. *)

Eligible == (Spaces \ inactive) \ Excluded
\* Reviews are of live rows only, whatever the baseline knows.
Live == {n \in Nodes : docs[n] \notin {None, Folder, Deleted} /\ docs[n].ws \in Eligible /\ Reviews[n] # <<>>}
\* Mutant: every review of a file counts, not only the latest.
MutLatestReviews == UNION {{<<n, Reviews[n][i]>> : i \in 1..Len(Reviews[n])} : n \in Live}
LatestReviews == {<<n, Reviews[n][Len(Reviews[n])]>> : n \in Live}
Quality(reviews) ==
  [reviewed |-> Cardinality(reviews), scores |-> SumFunction([r \in reviews |-> r[2].score]),
   verdicts |-> [v \in Verdicts |-> Cardinality({r \in reviews : r[2].verdict = v})]]
ReviewedIn(m) == {r \in LatestReviews : MonthOf(r[2].day) = m}
EmployeeReviews(m, k) ==
  {r \in ReviewedIn(m) : KeyOf[docs[r[1]].who] = k /\ IsOfficial(docs[r[1]].who)}

AllUploads(data, m) == SumFunction([w \in Eligible |-> SpaceMonth(data, w, m)])
BulkUploads(data, m) ==
  IF AllUploads(data, m) < Increment(data, m).bulk THEN AllUploads(data, m) ELSE Increment(data, m).bulk
Available(data) == {m \in Months : (\E w \in Eligible : SpaceMonth(data, w, m) > 0) \/ ReviewedIn(m) # {}}
Later(a, b) == a[1] > b[1] \/ (a[1] = b[1] /\ a[2] > b[2])
Selected(data) == {m \in Available(data) : Cardinality({n \in Available(data) : Later(n, m)}) < WindowMonths}
DashboardMonth(data, m) ==
  [uploaded |-> AllUploads(data, m), bulk |-> BulkUploads(data, m),
   routine |-> AllUploads(data, m) - BulkUploads(data, m), quality |-> Quality(ReviewedIn(m))]
\* Only libraries with a counted file have a row.
Listed(data) == {w \in Eligible : data.spaceTotals[w] > 0}
DashboardSpace(data, w, current) ==
  [files |-> data.spaceTotals[w], new |-> IF current = None THEN 0 ELSE SpaceMonth(data, w, current),
   quality |-> Quality({r \in LatestReviews : docs[r[1]].ws = w})]
\* Rows by employee: uploads of eligible libraries, and reviews, also of
\* people who uploaded nothing in the month.
EmployeeRows(m) == {s \in OfficialRows(m) : s[1] \in Eligible}
DashboardEmployees(m) ==
  [k \in {KeyOf[s[2]] : s \in EmployeeRows(m)} \cup {KeyOf[docs[r[1]].who] : r \in {t \in ReviewedIn(m) : IsOfficial(docs[t[1]].who)}} |->
     LET mine == {s \in EmployeeRows(m) : KeyOf[s[2]] = k}
     IN  [files |-> FilesIn(mine), spaces |-> Cardinality({s[1] : s \in mine}),
          quality |-> Quality(EmployeeReviews(m, k))]]
DashboardSummary(data, current) ==
  [spaces |-> Cardinality(Eligible), files |-> SumFunctionOnSet(data.spaceTotals, Eligible),
   new |-> IF current = None THEN 0 ELSE AllUploads(data, current),
   quality |-> Quality(LatestReviews)]

-----------------------------------------------------------------------------
(* Every way to read a month tells the same: the official uploads of the   *)
(* summary are those of the employees and of their libraries, none of them *)
(* a robot's, and pages hold every row once.                               *)
ExportsAgree ==
  /\ \A m \in Months :
       LET sum == MonthlySummary(m)
           people == MonthlyEmployees(m)
           cells == MonthlyEmployeeWorkspaces(m)
       IN  /\ sum.official = SumFunction([k \in DOMAIN people |-> people[k].files])
           /\ sum.official = SumFunction(cells)
           /\ sum.employees = Cardinality(DOMAIN people)
           /\ \A k \in DOMAIN people : people[k].spaces = Cardinality({f \in DOMAIN cells : f[1] = k}) /\ k \notin Robots
           /\ sum.excluded >= 0
           /\ \A size \in 1..3 :
                LET total == Cardinality(DOMAIN cells)
                IN  /\ UNION {Page(total, p, size) : p \in 1..Pages(total, size)} = 1..total
                    /\ \A p \in 1..Pages(total, size) : Page(total, p, size) # {}

(* The parts of the dashboard add up to its summary: uploads of months,    *)
(* files, new files and reviewed documents of libraries.  A document is    *)
(* reviewed once, however often it was reviewed, and employees never have  *)
(* more reviews of a month than there were.  Reviews miss in the rows of   *)
(* libraries only for a file that moved since the baseline (or was a       *)
(* folder there), into a library where nothing else is counted.            *)
DashboardAddsUp ==
  LET data == Collected
      selected == Selected(data)
      current == IF selected = {} THEN None
                 ELSE CHOOSE m \in selected : \A n \in selected : ~Later(n, m)
      all == DashboardSummary(data, current)
      spaces == [w \in Listed(data) |-> DashboardSpace(data, w, current)]
      strays == {r \in LatestReviews : docs[r[1]].ws \notin Listed(data)}
  IN  /\ all.files = SumFunction([w \in DOMAIN spaces |-> spaces[w].files])
      /\ all.new = SumFunction([w \in DOMAIN spaces |-> spaces[w].new])
      /\ all.quality.reviewed = SumFunction([w \in DOMAIN spaces |-> spaces[w].quality.reviewed])
                                  + Cardinality(strays)
      /\ \A r \in strays : base[r[1]] # None /\ (base[r[1]] = Folder \/ base[r[1]].ws # docs[r[1]].ws)
      /\ all.quality.reviewed <= Cardinality({n \in Nodes : docs[n] \notin {None, Folder, Deleted}})
      /\ all.quality.reviewed = SumFunction([m \in Months |-> Quality(ReviewedIn(m)).reviewed])
      /\ all.quality.reviewed = SumFunction(all.quality.verdicts)
      /\ \A m \in selected :
           LET row == DashboardMonth(data, m)
               people == DashboardEmployees(m)
           IN  /\ row.routine >= 0 /\ row.bulk <= row.uploaded
               /\ SumFunction([k \in DOMAIN people |-> people[k].quality.reviewed]) <= row.quality.reviewed
=============================================================================
