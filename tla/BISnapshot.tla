----------------------------- MODULE BISnapshot -----------------------------
(***************************************************************************)
(* What the frames to the BI centre contain: one snapshot built from the   *)
(* counters (bi_snapshot.py), the contract both services validate, the     *)
(* partitions a snapshot splits into and is put together from, and deltas  *)
(* between two sets of partitions (bi_push_contract.py); and the contents  *)
(* of the partitions that are rebuilt from dirty scopes, with those of the *)
(* R&D system by month (bi_materialize.py).  Projection has the queues and *)
(* transactions around them, this module has the numbers: a counter row is *)
(* a set of files, a list of rows a function from their key, and a score   *)
(* is 0, 1 or missing.                                                     *)
(***************************************************************************)
EXTENDS Integers, FiniteSets, Functions

CONSTANTS Files, Spaces, Months,
          Facts,       \* facts a file can have, see Fact
          Resolutions, \* what a directory says of a source key
          Robots,      \* robot_user_ids: source keys and employee keys
          BulkDay,     \* files of one source in a day that make it bulk
          Retained,    \* months kept
          MaxEdits, None

VARIABLES fact,    \* per file: its fact or None
          owner,   \* per library: its department, "" for none
          known,   \* libraries that are confirmed, active and not excluded
          identity,\* per month: source key -> resolution
          org,     \* per month: departments of the R&D system, {} if not ready
          scopes,  \* dirty scopes
          parts,   \* partitions
          acked,   \* partitions the receiver has
          edits
vars == <<fact, owner, known, identity, org, scopes, parts, acked, edits>>

Current == CHOOSE m \in Months : \A n \in Months : n <= m
Departments == {"rd", "sales"}
\* kind: unknown for a source without a typed identity; day: <<month, number>>
Fact == [ws : Spaces, kind : {"user_id", "unknown"}, source : STRING, day : (Months \X Nat) \cup {None},
         review : {None} \cup [month : Months, verdict : {"passCount", "returnCount", "none"}, score : {None, 0, 1}]]
Buckets == {"official", "robot", "unknownIdentity", "unmatched", "policy"}

-----------------------------------------------------------------------------
(* Counters. *)

Present == {f \in Files : fact[f] # None}
Uploaded(in, m) == {f \in Present : fact[f].ws \in in /\ fact[f].day # None /\ fact[f].day[1] = m}
Reviewed(in, m) == {f \in Present : fact[f].ws \in in /\ fact[f].review # None /\ fact[f].review.month = m}
In(w) == {f \in Present : fact[f].ws = w}
Quality(S) ==
  LET scored == {f \in S : fact[f].review.score # None}
  IN  [reviewed |-> Cardinality(S), scored |-> Cardinality(scored),
       passed |-> Cardinality({f \in S : fact[f].review.verdict = "passCount"}),
       returned |-> Cardinality({f \in S : fact[f].review.verdict = "returnCount"}),
       score |-> SumFunction([f \in scored |-> fact[f].review.score])]
QualitySum(f) ==
  [reviewed |-> SumFunction([x \in DOMAIN f |-> f[x].reviewed]),
   scored |-> SumFunction([x \in DOMAIN f |-> f[x].scored]),
   passed |-> SumFunction([x \in DOMAIN f |-> f[x].passed]),
   returned |-> SumFunction([x \in DOMAIN f |-> f[x].returned]),
   score |-> SumFunction([x \in DOMAIN f |-> f[x].score])]
OfReviews(S) == {f \in S : fact[f].review # None}

-----------------------------------------------------------------------------
(* One snapshot of the libraries "names", for some months.                 *)

Resolved(m, f) == identity[m][fact[f].source]
IsRobot(m, f) == fact[f].source \in Robots \/ Resolved(m, f).employee \in Robots
Bucket(m, f) ==
  IF IsRobot(m, f) THEN "robot"
  ELSE IF Resolved(m, f).status = "matched" /\ Resolved(m, f).official /\ Resolved(m, f).employee # "" THEN "official"
  ELSE IF Resolved(m, f).status \in {"inactive", "ignored", "unassigned", "conflict"} THEN "policy"
  ELSE IF fact[f].source = "" \/ fact[f].kind = "unknown" THEN "unknownIdentity"
  ELSE "unmatched"
\* Mutant: a day is bulk by the files of one library.
MutPersonDay(names, f) == Cardinality({g \in Uploaded({fact[f].ws}, fact[f].day[1]) : fact[g].source = fact[f].source /\ fact[g].day = fact[f].day})
PersonDay(names, f) ==
  Cardinality({g \in Uploaded(names, fact[f].day[1]) : fact[g].source = fact[f].source /\ fact[g].day = fact[f].day})
Bulk(names, m, f) == Bucket(m, f) = "robot" \/ (fact[f].source # "" /\ PersonDay(names, f) >= BulkDay)

MonthlyRow(names, m) ==
  LET files == Uploaded(names, m)
      bulk == {f \in files : Bulk(names, m, f)}
  IN  [uploaded |-> Cardinality(files), bulk |-> Cardinality(bulk), routine |-> Cardinality(files \ bulk),
       quality |-> Quality(Reviewed(names, m))]
Diagnostics(names, m) == [b \in Buckets |-> Cardinality({f \in Uploaded(names, m) : Bucket(m, f) = b})]
EmployeeOf(m, f) == Resolved(m, f).employee
Employees(names, m) ==
  LET official(S) == {f \in S : Bucket(m, f) = "official"}
      files == official(Uploaded(names, m))
      reviews == official(Reviewed(names, m))
  IN  [k \in {EmployeeOf(m, f) : f \in files \cup reviews} |->
         LET mine == {f \in files : EmployeeOf(m, f) = k}
         IN  [uploaded |-> Cardinality(mine), spaces |-> Cardinality({fact[f].ws : f \in mine}),
              quality |-> Quality({f \in reviews : EmployeeOf(m, f) = k})]]
BuildSnapshot(names, months) ==
  LET files == UNION {In(w) : w \in names}
      dated == {f \in files : fact[f].day # None}
  IN  [summary |-> [spaces |-> Cardinality(names), files |-> Cardinality(files),
                    new |-> Cardinality(Uploaded(names, Current)), undated |-> Cardinality(files \ dated),
                    quality |-> Quality(OfReviews(files)), current |-> Quality(Reviewed(names, Current))],
       monthly |-> [m \in months |-> MonthlyRow(names, m)],
       workspaces |-> [w \in names |-> [files |-> Cardinality(In(w)), new |-> Cardinality(Uploaded({w}, Current)),
                                        quality |-> Quality(OfReviews(In(w)))]],
       employees |-> [m \in months |-> Employees(names, m)],
       diagnostics |-> [m \in months |-> Diagnostics(names, m)],
       rd |-> <<>>]

-----------------------------------------------------------------------------
(* The contract. *)

ValidQuality(q) ==
  /\ q.scored <= q.reviewed /\ q.passed + q.returned <= q.reviewed /\ q.score \in 0..q.scored
Valid(v) ==
  LET s == v.summary
  IN  /\ ValidQuality(s.quality) /\ ValidQuality(s.current)
      /\ Cardinality(DOMAIN v.monthly) <= Retained
      /\ \A m \in DOMAIN v.monthly : /\ ValidQuality(v.monthly[m].quality)
                                     /\ v.monthly[m].routine + v.monthly[m].bulk = v.monthly[m].uploaded
      /\ \A w \in DOMAIN v.workspaces : ValidQuality(v.workspaces[w].quality)
      /\ Cardinality(DOMAIN v.workspaces) = s.spaces
      /\ SumFunction([w \in DOMAIN v.workspaces |-> v.workspaces[w].files]) = s.files
      /\ SumFunction([w \in DOMAIN v.workspaces |-> v.workspaces[w].new]) = s.new
      /\ QualitySum([w \in DOMAIN v.workspaces |-> v.workspaces[w].quality]) = s.quality
      /\ DOMAIN v.employees = DOMAIN v.monthly /\ DOMAIN v.diagnostics = DOMAIN v.monthly
      /\ \A m \in DOMAIN v.monthly :
           /\ SumFunction(v.diagnostics[m]) = v.monthly[m].uploaded
           /\ SumFunction([k \in DOMAIN v.employees[m] |-> v.employees[m][k].uploaded]) = v.diagnostics[m]["official"]
           /\ \A k \in DOMAIN v.employees[m] : ValidQuality(v.employees[m][k].quality)
      /\ \A m \in DOMAIN v.rd : v.rd[m].score \in 0..v.rd[m].scored

SplitSnapshot(v) ==
  [k \in {<<"summary", 0>>} \cup ({"workspace"} \X DOMAIN v.workspaces) \cup ({"month"} \X DOMAIN v.monthly)
         \cup ({"rd-month"} \X DOMAIN v.rd) |->
     CASE k[1] = "summary" -> v.summary
       [] k[1] = "workspace" -> v.workspaces[k[2]]
       [] k[1] = "month" -> <<v.monthly[k[2]], v.employees[k[2]], v.diagnostics[k[2]]>>
       [] k[1] = "rd-month" -> v.rd[k[2]]]
KeysOf(p, kind) == {k[2] : k \in {k \in DOMAIN p : k[1] = kind}}
MaterializeParts(p) ==
  [summary |-> p[<<"summary", 0>>],
   workspaces |-> [w \in KeysOf(p, "workspace") |-> p[<<"workspace", w>>]],
   monthly |-> [m \in KeysOf(p, "month") |-> p[<<"month", m>>][1]],
   employees |-> [m \in KeysOf(p, "month") |-> p[<<"month", m>>][2]],
   diagnostics |-> [m \in KeysOf(p, "month") |-> p[<<"month", m>>][3]],
   rd |-> [m \in KeysOf(p, "rd-month") |-> p[<<"rd-month", m>>]]]

Delta(old, new) ==
  [upserts |-> Restrict(new, {k \in DOMAIN new : k \notin DOMAIN old \/ old[k] # new[k]}),
   deletes |-> DOMAIN old \ DOMAIN new]
ValidDelta(d) == DOMAIN d.upserts \cap d.deletes = {} /\ <<"summary", 0>> \notin d.deletes
Applied(old, d) ==
  [k \in (DOMAIN old \cup DOMAIN d.upserts) \ d.deletes |-> IF k \in DOMAIN d.upserts THEN d.upserts[k] ELSE old[k]]

-----------------------------------------------------------------------------
(* Partitions from dirty scopes. *)

AvailableMonths ==
  LET all == {m \in Months : Uploaded(known, m) \cup Reviewed(known, m) # {}}
  IN  {m \in all : Cardinality({n \in all : n > m}) < Retained}
Full == parts = <<>>
Dirty(kind) == {s[2] : s \in {s \in scopes : s[1] = kind}}
\* The hook marks the library a file left as well, so all its months count.
WorkspaceMonths == {m \in Months : Uploaded(Dirty("registry"), m) \cup Reviewed(Dirty("registry"), m) # {}}
\* Mutant: the directory of a month marks nothing for its R&D partition.
MutRdDirty == WorkspaceMonths \cup Dirty("month") \cup (Months \ KeysOf(parts, "rd-month"))
RdDirty == WorkspaceMonths \cup Dirty("month") \cup Dirty("rd-month") \cup (Months \ KeysOf(parts, "rd-month"))
RdMonths == IF Full THEN Months ELSE RdDirty
RdRow(m) ==
  LET in == {w \in known : owner[w] \in org[m]}
      q == Quality(Reviewed(in, m))
  IN  [uploaded |-> Cardinality(Uploaded(in, m)), scored |-> q.scored, score |-> q.score]
Missing(m) == org[m] = {} /\ \/ Uploaded(known, m) # {}
                             \/ \E f \in Reviewed(known, m) : fact[f].review.score # None

\* Mutant: a library that appears or disappears marks no months.
MutDirtyMonths ==
  IF Full THEN AvailableMonths
  ELSE (Dirty("month") \cap AvailableMonths) \cup (AvailableMonths \ KeysOf(parts, "month"))
DirtyMonths ==
  IF Full THEN AvailableMonths
  ELSE (Dirty("month") \cap AvailableMonths) \cup (AvailableMonths \ KeysOf(parts, "month"))
       \cup (WorkspaceMonths \cap AvailableMonths)
DirtySpaces == IF Full THEN known ELSE (Dirty("workspace") \cup Dirty("registry")) \cap known
WorkspaceRow(w) ==
  [files |-> Cardinality(In(w)), new |-> Cardinality(Uploaded({w}, Current)),
   quality |-> QualitySum([m \in Months |-> Quality(Reviewed({w}, m))])]
Removed ==
  ({"month"} \X (KeysOf(parts, "month") \ AvailableMonths)) \cup ({"workspace"} \X (KeysOf(parts, "workspace") \ known))
  \cup ({"rd-month"} \X {m \in RdMonths \cap KeysOf(parts, "rd-month") : Missing(m)})
Rebuilt ==
  LET months == BuildSnapshot(known, DirtyMonths)
      keys == ({"month"} \X DirtyMonths) \cup ({"workspace"} \X DirtySpaces)
              \cup ({"rd-month"} \X {m \in RdMonths : ~Missing(m)})
  IN  [k \in keys |->
         CASE k[1] = "month" -> SplitSnapshot(months)[k]
           [] k[1] = "workspace" -> WorkspaceRow(k[2])
           [] k[1] = "rd-month" -> RdRow(k[2])]
\* The summary adds up the rows of libraries, and reads the rest.
Summary(rows) ==
  [spaces |-> Cardinality(DOMAIN rows), files |-> SumFunction([w \in DOMAIN rows |-> rows[w].files]),
   new |-> SumFunction([w \in DOMAIN rows |-> rows[w].new]),
   undated |-> Cardinality({f \in UNION {In(w) : w \in known} : fact[f].day = None}),
   quality |-> QualitySum([w \in DOMAIN rows |-> rows[w].quality]),
   current |-> Quality(Reviewed(known, Current))]
PublishedParts ==
  LET kept == Applied(parts, [upserts |-> Rebuilt, deletes |-> Removed])
      rows == [w \in KeysOf(kept, "workspace") |-> kept[<<"workspace", w>>]]
      due == Full \/ \E s \in scopes : s[1] # "rd-month"
  IN  IF due THEN Applied(kept, [upserts |-> [k \in {<<"summary", 0>>} |-> Summary(rows)], deletes |-> {}]) ELSE kept

-----------------------------------------------------------------------------
Edit == edits < MaxEdits /\ edits' = edits + 1
Touched(f) ==
  IF f = None THEN {}
  ELSE {<<"workspace", f.ws>>, <<"summary", 0>>} \cup (IF f.day = None THEN {} ELSE {<<"month", f.day[1]>>})
       \cup (IF f.review = None THEN {} ELSE {<<"month", f.review.month>>})
Collect(f) ==
  /\ Edit /\ \E v \in Facts \cup {None} :
       /\ v # fact[f] /\ fact' = [fact EXCEPT ![f] = v]
       /\ scopes' = scopes \cup Touched(fact[f]) \cup Touched(v)
  /\ UNCHANGED <<owner, known, identity, org, parts, acked>>
EditWorkspace(w) ==
  /\ Edit /\ scopes' = scopes \cup {<<"registry", w>>}
  /\ \/ owner' = [owner EXCEPT ![w] = IF @ = "rd" THEN "sales" ELSE "rd"] /\ UNCHANGED known
     \/ known' = (IF w \in known THEN known \ {w} ELSE known \cup {w}) /\ UNCHANGED owner
  /\ UNCHANGED <<fact, identity, org, parts, acked>>
NewDirectory(m) ==
  /\ Edit /\ \E r \in Resolutions : identity' = [identity EXCEPT ![m] = r]
  /\ \E d \in (SUBSET Departments) \ {{}} : org' = [org EXCEPT ![m] = d]
  /\ scopes' = scopes \cup {<<"month", m>>, <<"rd-month", m>>}
  /\ UNCHANGED <<fact, owner, known, parts, acked>>
NewOrganisation(m) ==
  /\ Edit /\ \E d \in (SUBSET Departments) \ {{}} : org' = [org EXCEPT ![m] = d]
  /\ scopes' = scopes \cup {<<"rd-month", m>>}
  /\ UNCHANGED <<fact, owner, known, identity, parts, acked>>
PublishPartitions ==
  /\ (Full \/ scopes # {}) /\ parts' = PublishedParts /\ scopes' = {}
  /\ UNCHANGED <<fact, owner, known, identity, org, acked, edits>>
Push == acked # parts /\ acked' = Applied(acked, Delta(acked, parts))
        /\ UNCHANGED <<fact, owner, known, identity, org, scopes, parts, edits>>

Init ==
  /\ fact = [f \in Files |-> None] /\ owner = [w \in Spaces |-> "rd"] /\ known = Spaces
  /\ identity \in [Months -> Resolutions] /\ org = [m \in Months |-> {}]
  /\ scopes = {} /\ parts = <<>> /\ acked = <<>> /\ edits = 0
Next == \/ \E f \in Files : Collect(f)
        \/ \E w \in Spaces : EditWorkspace(w)
        \/ \E m \in Months : NewDirectory(m) \/ NewOrganisation(m)
        \/ PublishPartitions \/ Push
Spec == Init /\ [][Next]_vars

-----------------------------------------------------------------------------
(* Once nothing is dirty, the partitions put together are the snapshot     *)
(* that one pass over all counters would build, and the receiver's         *)
(* contract accepts it: sums of libraries, buckets and employees agree     *)
(* although they were rebuilt at different times.  The delta from what the *)
(* receiver has is one the contract accepts and leads to the same.         *)
ComposedIsWhole ==
  scopes = {} /\ ~Full =>
    LET delta == Delta(acked, parts)
        v == MaterializeParts(IF acked = <<>> THEN parts ELSE Applied(acked, delta))
    IN  /\ acked # <<>> => ValidDelta(delta)
        /\ Valid(v) /\ [v EXCEPT !.rd = <<>>] = BuildSnapshot(known, AvailableMonths)

(* No employee of a snapshot is a robot, and what makes a day bulk does    *)
(* not depend on how its files are spread over libraries: two months with  *)
(* the same uploads have the same split, wherever the files are.           *)
BulkIsByPerson ==
  scopes = {} /\ ~Full => \A m \in KeysOf(parts, "month") :
    LET row == parts[<<"month", m>>]
        spread == {f \in Uploaded(known, m) : fact[f].source # "" /\ Cardinality({g \in Uploaded(known, m) :
                     fact[g].source = fact[f].source /\ fact[g].day = fact[f].day}) >= BulkDay}
    IN  /\ DOMAIN row[2] \cap Robots = {}
        /\ row[1].bulk >= Cardinality(spread)

(* The partitions of the R&D system are those a full rebuild would write:  *)
(* there when the month's directory is, gone while it is not and there is  *)
(* something to count, and never of the owner a library had before.        *)
RdIsCurrent ==
  scopes = {} /\ ~Full => \A m \in Months :
    IF Missing(m) THEN <<"rd-month", m>> \notin DOMAIN parts
    ELSE <<"rd-month", m>> \in DOMAIN parts /\ parts[<<"rd-month", m>>] = RdRow(m)
=============================================================================
