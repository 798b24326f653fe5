---------------------------- MODULE BridgeProofs ----------------------------
(***************************************************************************)
(* Safety of the audit bridge, for any number of rows, nodes and business  *)
(* numbers and any size of its batches: what an attempt costs, what a row  *)
(* may end as, and that it ends once.                                      *)
(*                                                                         *)
(* A pass rewrites rows one after the other, each from what the ones       *)
(* before have left; Walked follows it row by row.                         *)
(***************************************************************************)
EXTENDS AuditBridge, FiniteSetTheorems, Induction

Resolutions ==
  {"", "expired", "superseded", "flipped", "applied", "ignored_workspace_prefix",
   "ignored_action", "ignored_unknown_action", "interrupted_limit", "locator_limit",
   "metadata_unavailable", "no_doc", "unmatched"}
Row == [kind : Kind, biz : Biz, retained : BOOLEAN, old : BOOLEAN, processed : BOOLEAN,
        res : Resolutions, node : Nodes \cup {None}, confirmed : BOOLEAN,
        applied : BOOLEAN, attempts : 0..MaxAttempts, wait : BOOLEAN]
Places == {"out", "sweep", "main", "finish", "answer", "refresh", "reread", "dead"}

(* A row without a resolution is open; one that ended as applied has had   *)
(* its metadata written.                                                   *)
Sound(r) == /\ r \in Row
            /\ ~r.processed => r.res = ""
            /\ r.res \in {"applied", "flipped"} => r.applied = TRUE
Rows(n) == {f \in [1..n -> Row] : \A e \in 1..n : Sound(f[e])}

ProcType == [pc : Places, batch : SUBSET Nat, held : SUBSET Nat, picked : SUBSET Nat,
             sent : SUBSET Nat, found : SUBSET Nat, unseen : SUBSET Nat]
CompType == [status : {"none", "running", "completed"}, cursor : Nat, max : Nat,
             items : SUBSET Nat]

TypeOK ==
  /\ Len(row) \in 0..N /\ row \in [1..Len(row) -> Row]
  /\ proc \in ProcType /\ comp \in CompType
  /\ budget \in BOOLEAN /\ tries \in [1..N -> Nat] /\ faults \in Nat /\ runs \in Nat

(* The rows a cycle waits for are open, and it waits nowhere else.         *)
Waiting ==
  /\ proc.sent \subseteq Live(row) /\ proc.found \subseteq Live(row)
  /\ proc.sent # {} => proc.pc \in {"answer", "reread"}
  /\ proc.found # {} => proc.pc = "refresh"

(* What AttemptsArePaid needs of a row before it is closed, and of rows    *)
(* that have not come yet.                                                 *)
Spent(n, f, t, sent) ==
  \A e \in 1..n : /\ f[e].attempts = t[e] + (IF e \in sent THEN 1 ELSE 0)
                  /\ f[e].res \in Limits => f[e].attempts = MaxAttempts
Paid == /\ Spent(Len(row), row, tries, proc.sent)
        /\ \A e \in 1..N : Len(row) < e => tries[e] = 0

IInv == TypeOK /\ row \in Rows(Len(row)) /\ Waiting /\ Paid

-----------------------------------------------------------------------------
(* What is done to one row. *)

(* A row that was worked on: it has no attempt more, and ends for its      *)
(* attempts only where that was found before.                              *)
Moved(a, b) == /\ Sound(b) /\ b.attempts = a.attempts
               /\ b.res \in Limits => b.res = a.res

LEMMA SoundIs ==
  ASSUME NEW r, Sound(r)
  PROVE  /\ r \in Row /\ Moved(r, r)
         /\ r.processed \in BOOLEAN /\ r.res \in Resolutions /\ r.attempts \in 0..MaxAttempts
         /\ r.node \in Nodes \cup {None} /\ r.confirmed \in BOOLEAN /\ r.applied \in BOOLEAN
BY DEF Sound, Row, Moved

LEMMA FinishIs ==
  ASSUME NEW r, Sound(r), NEW res \in Resolutions,
         res \in {"applied", "flipped"} => r.applied = TRUE
  PROVE  /\ Sound(Finish(r, res))
         /\ Finish(r, res).attempts = r.attempts /\ Finish(r, res).res = res
         /\ Finish(r, res).processed = TRUE
         /\ res \notin Limits => Moved(r, Finish(r, res))
<1>1. Finish(r, res) \in Row
  BY DEF Sound, Row, Finish
<1>2. /\ Finish(r, res).attempts = r.attempts /\ Finish(r, res).res = res
      /\ Finish(r, res).processed = TRUE /\ Finish(r, res).applied = r.applied
  BY DEF Sound, Row, Finish
<1> HIDE DEF Finish
<1> QED
  BY <1>1, <1>2 DEF Sound, Moved

LEMMA ConfirmIs ==
  ASSUME NEW r, Sound(r), NEW n \in Nodes \cup {None}
  PROVE  /\ Moved(r, Confirm(r, n))
         /\ Confirm(r, n).processed = r.processed /\ Confirm(r, n).res = r.res
<1>1. Confirm(r, n) \in Row
  BY DEF Sound, Row, Confirm
<1>2. /\ Confirm(r, n).attempts = r.attempts /\ Confirm(r, n).res = r.res
      /\ Confirm(r, n).processed = r.processed /\ Confirm(r, n).applied = r.applied
  BY DEF Sound, Row, Confirm
<1> QED
  BY <1>1, <1>2 DEF Sound, Moved

(* A node is applied and the row ends as such.                             *)
LEMMA AppliedIs ==
  ASSUME NEW r, Sound(r), NEW n \in Nodes \cup {None}, NEW res \in {"applied", "flipped"}
  PROVE  Moved(r, Finish([Confirm(r, n) EXCEPT !.applied = TRUE], res))
<1> DEFINE c == Confirm(r, n)
           a == [c EXCEPT !.applied = TRUE]
<1>1. Moved(r, c) /\ c.processed = r.processed /\ c.res = r.res
  BY ConfirmIs
<1>2. Sound(c)
  BY <1>1 DEF Moved
<1> HIDE DEF c
<1>3. a \in Row
  BY <1>2 DEF Sound, Row
<1>4. a.attempts = c.attempts /\ a.res = c.res /\ a.processed = c.processed /\ a.applied = TRUE
  BY <1>2 DEF Sound, Row
<1> HIDE DEF a
<1>5. Sound(a)
  BY <1>2, <1>3, <1>4 DEF Sound
<1>6. res \in Resolutions /\ res \notin Limits
  BY DEF Resolutions, Limits
<1>7. Moved(a, Finish(a, res)) /\ Finish(a, res).res = res
  BY <1>4, <1>5, <1>6, FinishIs
<1>8. Moved(r, Finish(a, res))
  BY <1>1, <1>4, <1>6, <1>7 DEF Moved
<1> QED
  BY <1>8 DEF a, c

LEMMA MovedOn ==
  ASSUME NEW a, NEW b, NEW c, Moved(a, b), Moved(b, c)
  PROVE  Moved(a, c)
BY DEF Moved

(* The node of the siblings is one of the nodes there are, or none.        *)
LEMMA LifecycleIs ==
  ASSUME NEW n \in Nat, NEW f \in Rows(n), NEW e \in 1..n
  PROVE  Lifecycle(f, e) \in Nodes \cup {None}
<1> DEFINE S == Siblings(f, e)
<1>1. S \subseteq Nodes \cup {None}
  <2>1. DOMAIN f = 1..n /\ \A x \in 1..n : f[x].node \in Nodes \cup {None}
    BY SoundIs DEF Rows
  <2> QED BY <2>1 DEF Siblings
<1>2. Cardinality(S) = 1 => S # {}
  BY FS_EmptySet
<1> HIDE DEF S
<1>3. Cardinality(S) = 1 => (CHOOSE m \in S : TRUE) \in S
  BY <1>2
<1>4. Lifecycle(f, e) = IF Cardinality(S) = 1 THEN CHOOSE m \in S : TRUE ELSE None
  BY DEF Lifecycle, S
<1> QED
  BY <1>1, <1>3, <1>4

LEMMA LocalNodeIs ==
  ASSUME NEW n \in Nat, NEW f \in Rows(n), NEW e \in 1..n, NEW key \in Nodes \cup {None}
  PROVE  LocalNode(f, e, key) \in Nodes \cup {None}
<1>1. Sound(f[e])
  BY DEF Rows
<1> QED
  BY <1>1, SoundIs, LifecycleIs DEF LocalNode

LEMMA FlipIs ==
  ASSUME NEW n \in Nat, NEW f \in Rows(n), NEW e \in 1..n,
         NEW m \in Nodes \cup {None}, NEW doc \in Docs
  PROVE  Moved(f[e], Flip(f, e, m, doc))
<1>1. Sound(f[e])
  BY DEF Rows
<1>2. "expired" \in Resolutions \ Limits /\ "superseded" \in Resolutions \ Limits
  BY DEF Resolutions, Limits
<1>3. Moved(f[e], Finish(f[e], "expired")) /\ Moved(f[e], Finish(f[e], "superseded"))
  BY <1>1, <1>2, FinishIs
<1>4. Moved(f[e], Finish([Confirm(f[e], m) EXCEPT !.applied = TRUE], "flipped"))
  BY <1>1, AppliedIs
<1>5. Moved(f[e], f[e])
  BY <1>1, SoundIs
<1> QED
  BY <1>3, <1>4, <1>5 DEF Flip

LEMMA TryFinishIs ==
  ASSUME NEW n \in Nat, NEW f \in Rows(n), NEW e \in 1..n,
         NEW doc \in Docs, NEW key \in Nodes \cup {None}
  PROVE  Moved(f[e], TryFinish(f, e, doc, key))
<1>1. Sound(f[e])
  BY DEF Rows
<1>2. Moved(f[e], Flip(f, e, LocalNode(f, e, key), doc))
  BY LocalNodeIs, FlipIs
<1>3. "expired" \in Resolutions \ Limits /\ "applied" \in Resolutions \ Limits
  BY DEF Resolutions, Limits
<1>4. Moved(f[e], Finish(f[e], "expired"))
  BY <1>1, <1>3, FinishIs
<1>5. f[e].applied => Moved(f[e], Finish(f[e], "applied"))
  <2>1. f[e].applied => f[e].applied = TRUE
    BY <1>1, SoundIs
  <2> QED BY <2>1, <1>1, <1>3, FinishIs
<1>6. Moved(f[e], f[e])
  BY <1>1, SoundIs
<1> QED
  BY <1>2, <1>4, <1>5, <1>6 DEF TryFinish

LEMMA UpsertedIs ==
  ASSUME NEW n \in Nat, NEW f \in Rows(n), NEW e \in 1..n,
         NEW m \in Nodes \cup {None}, NEW newer \in BOOLEAN
  PROVE  Moved(f[e], Upserted(f, e, m, newer))
<1> DEFINE g == Confirm(f[e], m)
<1>1. Sound(f[e])
  BY DEF Rows
<1>2. Moved(f[e], g) /\ Sound(g)
  BY <1>1, ConfirmIs DEF Moved
<1>3. Moved(f[e], Finish([g EXCEPT !.applied = TRUE], "applied"))
  BY <1>1, AppliedIs
<1> HIDE DEF g
<1>4. "expired" \in Resolutions \ Limits /\ "superseded" \in Resolutions \ Limits
  BY DEF Resolutions, Limits
<1>5. Moved(f[e], Finish(g, "expired")) /\ Moved(f[e], Finish(g, "superseded"))
  BY <1>2, <1>4, FinishIs, MovedOn
<1> QED
  BY <1>3, <1>5 DEF Upserted, g

-----------------------------------------------------------------------------
(* What is done to the rows of a set. *)

(* g is f after work on the rows of S alone.                               *)
Worked(n, S, f, g) ==
  g \in Rows(n) /\ \A x \in 1..n : IF x \in S THEN Moved(f[x], g[x]) ELSE g[x] = f[x]

LEMMA RowsAre ==
  ASSUME NEW n \in Nat, NEW f, f \in [1..n -> Row]
  PROVE  f \in Seq(Row) /\ Len(f) = n /\ DOMAIN f = 1..n
OBVIOUS

LEMMA RowsLen ==
  ASSUME NEW n \in Nat, NEW f \in Rows(n)
  PROVE  Len(f) = n /\ DOMAIN f = 1..n
BY RowsAre DEF Rows

LEMMA WorkedOn ==
  ASSUME NEW n \in Nat, NEW S, NEW f, NEW g, NEW h, Worked(n, S, f, g), Worked(n, S, g, h)
  PROVE  Worked(n, S, f, h)
BY MovedOn DEF Worked

LEMMA Unworked ==
  ASSUME NEW n \in Nat, NEW S, NEW f \in Rows(n)
  PROVE  Worked(n, S, f, f)
BY SoundIs DEF Worked, Rows

LEMMA WorkedMore ==
  ASSUME NEW n \in Nat, NEW S, NEW T, S \subseteq T, NEW f \in Rows(n), NEW g, Worked(n, S, f, g)
  PROVE  Worked(n, T, f, g)
BY SoundIs DEF Worked, Rows

LEMMA UpdateIs ==
  ASSUME NEW n \in Nat, NEW f \in Rows(n), NEW e \in 1..n, NEW r, Moved(f[e], r)
  PROVE  Worked(n, {e}, f, [f EXCEPT ![e] = r])
<1> DEFINE g == [f EXCEPT ![e] = r]
<1>1. Sound(r) /\ r \in Row
  BY DEF Moved, Sound
<1>2. g \in [1..n -> Row]
  BY <1>1 DEF Rows
<1>3. \A x \in 1..n : g[x] = IF x = e THEN r ELSE f[x]
  BY DEF Rows
<1> HIDE DEF g
<1> QED
  BY <1>1, <1>2, <1>3 DEF Worked, Rows

(* A pass: its k-th step works on row k, if that row is of the set.        *)
LEMMA Walked ==
  ASSUME NEW n \in Nat, NEW S, NEW f \in Rows(n), NEW g, g[0] = f,
         \A k \in 1..n : g[k - 1] \in Rows(n) => Worked(n, S \cap {k}, g[k - 1], g[k])
  PROVE  Worked(n, S, f, g[n])
<1> DEFINE Done == {k \in Nat : k <= n => Worked(n, S, f, g[k])}
<1>1. 0 \in Done
  BY Unworked
<1>2. ASSUME NEW k \in Nat, k \in Done PROVE k + 1 \in Done
  <2> SUFFICES ASSUME k + 1 <= n PROVE Worked(n, S, f, g[k + 1])
    OBVIOUS
  <2>1. k + 1 \in 1..n /\ (k + 1) - 1 = k /\ k <= n
    OBVIOUS
  <2>2. Worked(n, S, f, g[k])
    BY <1>2, <2>1
  <2>3. g[k] \in Rows(n)
    BY <2>2 DEF Worked
  <2>4. Worked(n, S \cap {k + 1}, g[k], g[k + 1])
    BY <2>1, <2>3
  <2>5. Worked(n, S, g[k], g[k + 1])
    BY <2>3, <2>4, WorkedMore
  <2> QED
    BY <2>2, <2>5, WorkedOn
<1>3. \A k \in Nat : k \in Done
  <2> HIDE DEF Done
  <2> QED BY <1>1, <1>2, Induct
<1> QED
  BY <1>3

LEMMA ClassifiedIs ==
  ASSUME NEW n \in Nat, NEW f \in Rows(n), NEW e \in 1..n,
         NEW doc \in Docs, NEW key \in Nodes \cup {None}
  PROVE  Worked(n, {e}, f, Classified(f, e, doc, key))
<1>1. Sound(f[e]) /\ f[e].kind \in Kind
  BY DEF Rows, Row
<1>2. Worked(n, {e}, f, [f EXCEPT ![e].processed = TRUE])
  <2> DEFINE r == [f[e] EXCEPT !.processed = TRUE]
  <2>1. r \in Row /\ r.attempts = f[e].attempts /\ r.res = f[e].res /\ r.processed = TRUE
        /\ r.applied = f[e].applied
    BY <1>1 DEF Sound, Row
  <2> HIDE DEF r
  <2>2. Moved(f[e], r)
    BY <1>1, <2>1 DEF Moved, Sound
  <2>3. Worked(n, {e}, f, [f EXCEPT ![e] = r])
    BY <2>2, UpdateIs
  <2> QED BY <2>3 DEF r
<1>3. \A res \in {"ignored_workspace_prefix", "ignored_action", "ignored_unknown_action"} :
        Worked(n, {e}, f, [f EXCEPT ![e] = Finish(f[e], res)])
  <2> SUFFICES ASSUME NEW res \in {"ignored_workspace_prefix", "ignored_action",
                                   "ignored_unknown_action"}
               PROVE  Worked(n, {e}, f, [f EXCEPT ![e] = Finish(f[e], res)])
    OBVIOUS
  <2>1. res \in Resolutions /\ res \notin Limits /\ res \notin {"applied", "flipped"}
    BY DEF Resolutions, Limits
  <2>2. Moved(f[e], Finish(f[e], res))
    BY <1>1, <2>1, FinishIs
  <2> QED BY <2>2, UpdateIs
<1>4. Worked(n, {e}, f, [f EXCEPT ![e] = TryFinish(f, e, doc, key)])
  BY TryFinishIs, UpdateIs
<1> DEFINE m == Lifecycle(f, e)
           g == IF m = None THEN f ELSE [f EXCEPT ![e] = Confirm(f[e], m)]
<1>5. Worked(n, {e}, f, [g EXCEPT ![e] = TryFinish(g, e, doc, key)])
  <2>1. m \in Nodes \cup {None}
    BY LifecycleIs
  <2> HIDE DEF m
  <2>2. Moved(f[e], Confirm(f[e], m))
    BY <1>1, <2>1, ConfirmIs
  <2>3. Worked(n, {e}, f, g)
    BY <2>2, UpdateIs, Unworked
  <2>4. g \in Rows(n)
    BY <2>3 DEF Worked
  <2> HIDE DEF g
  <2>5. Worked(n, {e}, g, [g EXCEPT ![e] = TryFinish(g, e, doc, key)])
    BY <2>4, TryFinishIs, UpdateIs
  <2> QED BY <2>3, <2>5, WorkedOn
<1>6. Classified(f, e, doc, key) =
        CASE f[e].kind = "elsewhere" -> [f EXCEPT ![e].processed = TRUE]
          [] f[e].kind = "excluded"  -> [f EXCEPT ![e] = Finish(f[e], "ignored_workspace_prefix")]
          [] f[e].kind = "ignore"    -> [f EXCEPT ![e] = Finish(f[e], "ignored_action")]
          [] f[e].kind = "unknown"   -> [f EXCEPT ![e] = Finish(f[e], "ignored_unknown_action")]
          [] f[e].kind = "local"     -> [f EXCEPT ![e] = TryFinish(f, e, doc, key)]
          [] f[e].kind = "remote"    -> [g EXCEPT ![e] = TryFinish(g, e, doc, key)]
  BY Zenon DEF Classified
<1> HIDE DEF g
<1> QED
  BY <1>1, <1>2, <1>3, <1>4, <1>5, <1>6 DEF Kind

-----------------------------------------------------------------------------
(* The passes of the cycle. *)

(* The main pass over the rows of S. *)
MainPassed(f, S, doc, key) == Pass(LAMBDA h, e : Classified(h, e, doc[e], key[e]), f, S)

LEMMA MainPassIs ==
  ASSUME NEW n \in Nat, NEW f \in Rows(n), NEW S \in SUBSET (1..n),
         NEW doc \in [S -> Docs], NEW key \in [S -> Nodes \cup {None}]
  PROVE  Worked(n, S, f, MainPassed(f, S, doc, key))
<1> DEFINE Step(h, k) == IF k \in S THEN Classified(h, k, doc[k], key[k]) ELSE h
           next == [k \in 1..n |-> [h \in Rows(n) |-> Step(h, k)]]
           Eq(g) == g = [k \in 0..n |-> IF k = 0 THEN f
                           ELSE IF k \in S THEN Classified(g[k - 1], k, doc[k], key[k]) ELSE g[k - 1]]
           step == CHOOSE g : Eq(g)
<1>1. \A k \in 1..n, h \in Rows(n) : Worked(n, S \cap {k}, h, Step(h, k))
  <2> SUFFICES ASSUME NEW k \in 1..n, NEW h \in Rows(n)
               PROVE  Worked(n, S \cap {k}, h, Step(h, k))
    OBVIOUS
  <2>1. CASE k \in S
    <3>1. doc[k] \in Docs /\ key[k] \in Nodes \cup {None} /\ S \cap {k} = {k}
      BY <2>1
    <3> QED BY <2>1, <3>1, ClassifiedIs
  <2>2. CASE k \notin S
    BY <2>2, Unworked
  <2> QED BY <2>1, <2>2
<1> HIDE DEF Step
<1>2. next \in [1..n -> [Rows(n) -> Rows(n)]]
  BY <1>1 DEF Worked
<1>3. PICK g \in [0..n -> Rows(n)] : Follows(g, n, f, next)
  <2> HIDE DEF next
  <2> QED BY <1>2, Recursion
<1>4. g[0] = f /\ \A k \in 1..n : g[k] = Step(g[k - 1], k)
  <2>1. \A k \in 1..n, h \in Rows(n) : next[k][h] = Step(h, k)
    OBVIOUS
  <2> HIDE DEF next
  <2>2. \A k \in 1..n : g[k - 1] \in Rows(n)
    OBVIOUS
  <2> QED BY <1>3, <2>1, <2>2 DEF Follows
<1> HIDE DEF next
<1>5. g = [k \in 0..n |-> IF k = 0 THEN f ELSE Step(g[k - 1], k)]
  BY <1>4
<1>6. Eq(g)
  BY <1>5 DEF Step
<1> HIDE DEF Eq
<1>7. Eq(step)
  BY <1>6
<1>8. MainPassed(f, S, doc, key) = step[n]
  BY RowsLen DEF MainPassed, Pass, Eq
<1> HIDE DEF step
<1>9. step[0] = f /\ \A k \in 1..n : step[k] = Step(step[k - 1], k)
  <2>1. step = [k \in 0..n |-> IF k = 0 THEN f ELSE Step(step[k - 1], k)]
    BY <1>7 DEF Eq, Step
  <2> QED BY <2>1
<1>10. Worked(n, S, f, step[n])
  BY <1>1, <1>9, Walked
<1> QED
  BY <1>8, <1>10

LEMMA SettledIs ==
  ASSUME NEW n \in Nat, NEW f \in Rows(n), NEW S \in SUBSET (1..n), NEW doc, \A e \in S : doc[e] \in Docs
  PROVE  Worked(n, S, f, Settled(f, S, doc))
<1> DEFINE Step(h, k) == IF k \in S THEN [h EXCEPT ![k] = TryFinish(h, k, doc[k], None)] ELSE h
           next == [k \in 1..n |-> [h \in Rows(n) |-> Step(h, k)]]
           Eq(g) == g = [k \in 0..n |-> IF k = 0 THEN f
                           ELSE IF k \in S
                           THEN [g[k - 1] EXCEPT ![k] = TryFinish(g[k - 1], k, doc[k], None)]
                           ELSE g[k - 1]]
           step == CHOOSE g : Eq(g)
<1>1. \A k \in 1..n, h \in Rows(n) : Worked(n, S \cap {k}, h, Step(h, k))
  <2> SUFFICES ASSUME NEW k \in 1..n, NEW h \in Rows(n)
               PROVE  Worked(n, S \cap {k}, h, Step(h, k))
    OBVIOUS
  <2>1. CASE k \in S
    <3>1. S \cap {k} = {k} /\ doc[k] \in Docs /\ None \in Nodes \cup {None}
      BY <2>1
    <3>2. Moved(h[k], TryFinish(h, k, doc[k], None))
      BY <3>1, TryFinishIs
    <3> QED BY <2>1, <3>1, <3>2, UpdateIs
  <2>2. CASE k \notin S
    BY <2>2, Unworked
  <2> QED BY <2>1, <2>2
<1> HIDE DEF Step
<1>2. next \in [1..n -> [Rows(n) -> Rows(n)]]
  BY <1>1 DEF Worked
<1>3. PICK g \in [0..n -> Rows(n)] : Follows(g, n, f, next)
  <2> HIDE DEF next
  <2> QED BY <1>2, Recursion
<1>4. g[0] = f /\ \A k \in 1..n : g[k] = Step(g[k - 1], k)
  <2>1. \A k \in 1..n, h \in Rows(n) : next[k][h] = Step(h, k)
    OBVIOUS
  <2> HIDE DEF next
  <2>2. \A k \in 1..n : g[k - 1] \in Rows(n)
    OBVIOUS
  <2> QED BY <1>3, <2>1, <2>2 DEF Follows
<1> HIDE DEF next
<1>5. g = [k \in 0..n |-> IF k = 0 THEN f ELSE Step(g[k - 1], k)]
  BY <1>4
<1>6. Eq(g)
  BY <1>5 DEF Step
<1> HIDE DEF Eq
<1>7. Eq(step)
  BY <1>6
<1>8. Settled(f, S, doc) = step[n]
  BY RowsLen DEF Settled, Pass, Eq
<1> HIDE DEF step
<1>9. step[0] = f /\ \A k \in 1..n : step[k] = Step(step[k - 1], k)
  <2>1. step = [k \in 0..n |-> IF k = 0 THEN f ELSE Step(step[k - 1], k)]
    BY <1>7 DEF Eq, Step
  <2> QED BY <2>1
<1>10. Worked(n, S, f, step[n])
  BY <1>1, <1>9, Walked
<1> QED
  BY <1>8, <1>10

(* Only open rows are adopted. *)
LEMMA AdoptedIs ==
  ASSUME NEW n \in Nat, NEW f \in Rows(n), NEW doc \in [Live(f) -> Docs]
  PROVE  Worked(n, Live(f), f, Adopted(f, doc))
<1> DEFINE S == Adoptable(f)
           Op(h, k) == [h EXCEPT ![k] =
                          TryFinish([h EXCEPT ![k] = Confirm(@, Lifecycle(f, k))], k, doc[k], None)]
           Step(h, k) == IF k \in S THEN Op(h, k) ELSE h
           next == [k \in 1..n |-> [h \in Rows(n) |-> Step(h, k)]]
           Eq(g) == g = [k \in 0..n |-> IF k = 0 THEN f
                           ELSE IF k \in S THEN Op(g[k - 1], k) ELSE g[k - 1]]
           step == CHOOSE g : Eq(g)
<1>0. S \subseteq Live(f) /\ S \subseteq 1..n /\ Len(f) = n
  BY RowsLen DEF Adoptable, Newest, Live
<1>a. Adopted(f, doc) = Pass(Op, f, S)
  BY DEF Adopted
<1> HIDE DEF S
<1>b. Pass(Op, f, S) = step[n]
  BY <1>0 DEF Pass
<1>1. \A k \in 1..n, h \in Rows(n) : Worked(n, S \cap {k}, h, Step(h, k))
  <2> SUFFICES ASSUME NEW k \in 1..n, NEW h \in Rows(n)
               PROVE  Worked(n, S \cap {k}, h, Step(h, k))
    OBVIOUS
  <2>1. CASE k \in S
    <3> DEFINE c == Confirm(h[k], Lifecycle(f, k))
               g == [h EXCEPT ![k] = c]
    <3>1. S \cap {k} = {k} /\ doc[k] \in Docs /\ None \in Nodes \cup {None}
      BY <1>0, <2>1
    <3>2. Moved(h[k], c)
      <4>1. Sound(h[k])
        BY DEF Rows
      <4> QED BY <4>1, LifecycleIs, ConfirmIs
    <3> HIDE DEF c
    <3>3. Worked(n, {k}, h, g)
      BY <3>2, UpdateIs
    <3>4. g \in Rows(n) /\ g[k] = c
      BY <3>3 DEF Worked, Rows
    <3>5. Op(h, k) = [h EXCEPT ![k] = TryFinish(g, k, doc[k], None)]
      BY DEF c
    <3> HIDE DEF g
    <3>6. Moved(c, TryFinish(g, k, doc[k], None))
      BY <3>1, <3>4, TryFinishIs
    <3>7. Moved(h[k], TryFinish(g, k, doc[k], None))
      BY <3>2, <3>6, MovedOn
    <3>8. Worked(n, {k}, h, [h EXCEPT ![k] = TryFinish(g, k, doc[k], None)])
      BY <3>7, UpdateIs
    <3> HIDE DEF Op
    <3> QED BY <2>1, <3>1, <3>5, <3>8
  <2>2. CASE k \notin S
    BY <2>2, Unworked
  <2> QED BY <2>1, <2>2
<1> HIDE DEF Op
<1> HIDE DEF Step
<1>2. next \in [1..n -> [Rows(n) -> Rows(n)]]
  BY <1>1 DEF Worked
<1>3. PICK g \in [0..n -> Rows(n)] : Follows(g, n, f, next)
  <2> HIDE DEF next
  <2> QED BY <1>2, Recursion
<1>4. g[0] = f /\ \A k \in 1..n : g[k] = Step(g[k - 1], k)
  <2>1. \A k \in 1..n, h \in Rows(n) : next[k][h] = Step(h, k)
    OBVIOUS
  <2> HIDE DEF next
  <2>2. \A k \in 1..n : g[k - 1] \in Rows(n)
    OBVIOUS
  <2> QED BY <1>3, <2>1, <2>2 DEF Follows
<1> HIDE DEF next
<1>5. g = [k \in 0..n |-> IF k = 0 THEN f ELSE Step(g[k - 1], k)]
  BY <1>4
<1>6. Eq(g)
  BY <1>5 DEF Step
<1> HIDE DEF Eq
<1>7. Eq(step)
  BY <1>6
<1> HIDE DEF step
<1>9. step[0] = f /\ \A k \in 1..n : step[k] = Step(step[k - 1], k)
  <2>1. step = [k \in 0..n |-> IF k = 0 THEN f ELSE Step(step[k - 1], k)]
    BY <1>7 DEF Eq, Step
  <2> QED BY <2>1
<1>10. /\ step[0] = f
       /\ \A k \in 1..n : step[k - 1] \in Rows(n) => Worked(n, S \cap {k}, step[k - 1], step[k])
  <2> SUFFICES ASSUME NEW k \in 1..n, step[k - 1] \in Rows(n)
               PROVE  Worked(n, S \cap {k}, step[k - 1], step[k])
    BY <1>9
  <2>1. step[k] = Step(step[k - 1], k)
    BY <1>9
  <2> QED BY <1>1, <2>1
<1>11. Worked(n, S, f, step[n])
  BY <1>0, <1>10, Walked
<1> QED
  BY <1>0, <1>a, <1>b, <1>11, WorkedMore

-----------------------------------------------------------------------------
(* Attempts. *)

LEMMA WorkedSpent ==
  ASSUME NEW n \in Nat, NEW S, NEW f \in Rows(n), NEW g, NEW t, NEW sent,
         Worked(n, S, f, g), Spent(n, f, t, sent)
  PROVE  Spent(n, g, t, sent)
BY DEF Worked, Moved, Spent

LEMMA FinishAllIs ==
  ASSUME NEW n \in Nat, NEW f \in Rows(n), NEW S \in SUBSET (1..n),
         NEW res \in Resolutions \ {"applied", "flipped"}
  PROVE  /\ FinishAll(f, S, res) \in Rows(n)
         /\ \A e \in 1..n :
              /\ FinishAll(f, S, res)[e].attempts = f[e].attempts
              /\ e \notin S => FinishAll(f, S, res)[e] = f[e]
              /\ e \in S => FinishAll(f, S, res)[e].res = res
<1> DEFINE g == FinishAll(f, S, res)
<1>1. DOMAIN f = 1..n
  BY RowsLen
<1>2. g = [e \in 1..n |-> IF e \in S THEN Finish(f[e], res) ELSE f[e]]
  BY <1>1 DEF FinishAll
<1>3. \A e \in 1..n : Sound(f[e])
  BY DEF Rows
<1>4. \A e \in 1..n : /\ Sound(Finish(f[e], res)) /\ Finish(f[e], res).attempts = f[e].attempts
                      /\ Finish(f[e], res).res = res
  BY <1>3, FinishIs
<1> HIDE DEF g
<1>5. \A e \in 1..n : g[e] = IF e \in S THEN Finish(f[e], res) ELSE f[e]
  BY <1>2
<1>6. \A e \in 1..n : Sound(g[e])
  BY <1>3, <1>4, <1>5
<1>7. g \in [1..n -> Row]
  BY <1>2, <1>3, <1>4 DEF Sound
<1>8. g \in Rows(n)
  BY <1>6, <1>7 DEF Rows
<1>9. \A e \in 1..n : /\ g[e].attempts = f[e].attempts /\ (e \notin S => g[e] = f[e])
                      /\ (e \in S => g[e].res = res)
  BY <1>4, <1>5
<1> QED
  BY <1>8, <1>9 DEF g

LEMMA ReservedIs ==
  ASSUME NEW n \in Nat, NEW f \in Rows(n), NEW S \in SUBSET (1..n),
         \A e \in S : f[e].attempts < MaxAttempts
  PROVE  /\ Reserved(f, S) \in Rows(n)
         /\ \A e \in 1..n :
              /\ Reserved(f, S)[e].attempts = f[e].attempts + (IF e \in S THEN 1 ELSE 0)
              /\ Reserved(f, S)[e].res = f[e].res
              /\ Reserved(f, S)[e].processed = f[e].processed
              /\ e \notin S => Reserved(f, S)[e] = f[e]
<1> DEFINE g == Reserved(f, S)
           up(e) == [f[e] EXCEPT !.attempts = @ + 1, !.wait = TRUE]
<1>0. MaxAttempts \in Nat
  BY BridgeAssumption
<1>1. DOMAIN f = 1..n
  BY RowsLen
<1>2. g = [e \in 1..n |-> IF e \in S THEN up(e) ELSE f[e]]
  BY <1>1 DEF Reserved
<1>3. \A e \in 1..n : Sound(f[e])
  BY DEF Rows
<1>4. ASSUME NEW e \in S
      PROVE  /\ up(e).attempts = f[e].attempts + 1 /\ up(e).res = f[e].res
             /\ up(e).processed = f[e].processed /\ up(e).applied = f[e].applied
             /\ up(e) \in Row
  <2>1. f[e] \in Row /\ f[e].attempts < MaxAttempts
    BY <1>3 DEF Sound
  <2>2. f[e].attempts + 1 \in 0..MaxAttempts
    BY <2>1, <1>0 DEF Row
  <2> DEFINE a == f[e].attempts + 1
  <2>3. up(e) = [f[e] EXCEPT !.attempts = a, !.wait = TRUE]
    OBVIOUS
  <2> HIDE DEF a
  <2>4. a \in 0..MaxAttempts
    BY <2>2 DEF a
  <2> HIDE DEF up
  <2>5. up(e) \in Row
    BY <2>1, <2>3, <2>4 DEF Row
  <2>6. /\ up(e).attempts = a /\ up(e).res = f[e].res
        /\ up(e).processed = f[e].processed /\ up(e).applied = f[e].applied
    BY <2>1, <2>3 DEF Row
  <2> QED BY <2>5, <2>6 DEF a
<1> HIDE DEF g, up
<1>5. \A e \in 1..n : g[e] = IF e \in S THEN up(e) ELSE f[e]
  BY <1>2
<1>6. \A e \in 1..n : f[e].attempts \in Nat
  BY <1>3, SoundIs
<1>7. \A e \in 1..n : /\ g[e].attempts = f[e].attempts + (IF e \in S THEN 1 ELSE 0)
                      /\ g[e].res = f[e].res /\ g[e].processed = f[e].processed
                      /\ (e \notin S => g[e] = f[e])
  BY <1>4, <1>5, <1>6
<1>8. \A e \in 1..n : g[e] \in Row /\ g[e].applied = f[e].applied
  BY <1>3, <1>4, <1>5 DEF Sound
<1>9. g \in Rows(n)
  <2>1. g \in [1..n -> Row]
    BY <1>2, <1>5, <1>8
  <2>2. \A e \in 1..n : Sound(g[e])
    BY <1>3, <1>7, <1>8 DEF Sound
  <2> QED BY <2>1, <2>2 DEF Rows
<1> QED
  BY <1>7, <1>9 DEF g

LEMMA RefundedIs ==
  ASSUME NEW n \in Nat, NEW f \in Rows(n), NEW S \in SUBSET (1..n),
         \A e \in S : f[e].attempts > 0
  PROVE  /\ Refunded(f, S) \in Rows(n)
         /\ \A e \in 1..n :
              /\ Refunded(f, S)[e].attempts = f[e].attempts - (IF e \in S THEN 1 ELSE 0)
              /\ Refunded(f, S)[e].res = f[e].res
              /\ Refunded(f, S)[e].processed = f[e].processed
              /\ e \notin S => Refunded(f, S)[e] = f[e]
<1> DEFINE g == Refunded(f, S)
           up(e) == [f[e] EXCEPT !.attempts = @ - 1]
<1>0. MaxAttempts \in Nat
  BY BridgeAssumption
<1>1. DOMAIN f = 1..n
  BY RowsLen
<1>2. g = [e \in 1..n |-> IF e \in S THEN up(e) ELSE f[e]]
  BY <1>1 DEF Refunded
<1>3. \A e \in 1..n : Sound(f[e])
  BY DEF Rows
<1>4. ASSUME NEW e \in S
      PROVE  /\ up(e).attempts = f[e].attempts - 1 /\ up(e).res = f[e].res
             /\ up(e).processed = f[e].processed /\ up(e).applied = f[e].applied
             /\ up(e) \in Row
  <2>1. f[e] \in Row /\ f[e].attempts > 0
    BY <1>3 DEF Sound
  <2>2. f[e].attempts - 1 \in 0..MaxAttempts
    BY <2>1, <1>0 DEF Row
  <2> DEFINE a == f[e].attempts - 1
  <2>3. up(e) = [f[e] EXCEPT !.attempts = a]
    OBVIOUS
  <2> HIDE DEF a
  <2>4. a \in 0..MaxAttempts
    BY <2>2 DEF a
  <2> HIDE DEF up
  <2>5. up(e) \in Row
    BY <2>1, <2>3, <2>4 DEF Row
  <2>6. /\ up(e).attempts = a /\ up(e).res = f[e].res
        /\ up(e).processed = f[e].processed /\ up(e).applied = f[e].applied
    BY <2>1, <2>3 DEF Row
  <2> QED BY <2>5, <2>6 DEF a
<1> HIDE DEF g, up
<1>5. \A e \in 1..n : g[e] = IF e \in S THEN up(e) ELSE f[e]
  BY <1>2
<1>6. \A e \in 1..n : f[e].attempts \in Nat
  BY <1>3, SoundIs
<1>7. \A e \in 1..n : /\ g[e].attempts = f[e].attempts - (IF e \in S THEN 1 ELSE 0)
                      /\ g[e].res = f[e].res /\ g[e].processed = f[e].processed
                      /\ (e \notin S => g[e] = f[e])
  BY <1>4, <1>5, <1>6
<1>8. \A e \in 1..n : g[e] \in Row /\ g[e].applied = f[e].applied
  BY <1>3, <1>4, <1>5 DEF Sound
<1>9. g \in Rows(n)
  <2>1. g \in [1..n -> Row]
    BY <1>2, <1>5, <1>8
  <2>2. \A e \in 1..n : Sound(g[e])
    BY <1>3, <1>7, <1>8 DEF Sound
  <2> QED BY <2>1, <2>2 DEF Rows
<1> QED
  BY <1>7, <1>9 DEF g

-----------------------------------------------------------------------------
(* The steps of a cycle. *)

(* Rows stay, and those that have ended stay as they are.                  *)
Kept == /\ Len(row) <= Len(row')
        /\ \A e \in Ids : row[e].processed => row'[e] = row[e]

LEMMA Basics ==
  ASSUME IInv
  PROVE  /\ Len(row) \in Nat /\ Len(row) <= N /\ Ids = 1..Len(row) /\ DOMAIN row = 1..Len(row)
         /\ row \in Rows(Len(row)) /\ Spent(Len(row), row, tries, proc.sent)
         /\ Live(row) = {e \in 1..Len(row) : ~row[e].processed}
         /\ proc \in ProcType /\ proc.sent \subseteq Live(row) /\ proc.found \subseteq Live(row)
         /\ comp \in CompType /\ tries \in [1..N -> Nat]
         /\ budget \in BOOLEAN /\ faults \in Nat /\ runs \in Nat
         /\ N \in Nat /\ MaxAttempts \in Nat
<1>1. N \in Nat /\ MaxAttempts \in Nat
  BY BridgeAssumption
<1>2. Len(row) \in Nat /\ Len(row) <= N /\ row \in Rows(Len(row))
  BY <1>1 DEF IInv, TypeOK
<1>3. DOMAIN row = 1..Len(row)
  BY <1>2, RowsLen
<1> QED
  BY <1>1, <1>2, <1>3 DEF IInv, TypeOK, Waiting, Paid, Ids, Live

LEMMA Assemble ==
  ASSUME IInv, row' \in Rows(Len(row)), proc' \in ProcType, comp' \in CompType,
         budget' \in BOOLEAN, faults' \in Nat, runs' \in Nat, tries' \in [1..N -> Nat],
         \A e \in proc'.sent \cup proc'.found : e \in 1..Len(row) /\ ~row'[e].processed,
         proc'.sent # {} => proc'.pc \in {"answer", "reread"},
         proc'.found # {} => proc'.pc = "refresh",
         Spent(Len(row), row', tries', proc'.sent),
         \A e \in 1..N : Len(row) < e => tries'[e] = tries[e]
  PROVE  IInv'
<1>1. Len(row') = Len(row) /\ DOMAIN row' = 1..Len(row)
  BY Basics, RowsLen
<1>2. row' \in [1..Len(row') -> Row]
  BY <1>1 DEF Rows
<1>3. TypeOK'
  BY <1>1, <1>2 DEF IInv, TypeOK
<1>4. Waiting'
  BY <1>1 DEF Waiting, Live
<1>5. Paid'
  BY <1>1, Basics DEF IInv, Paid
<1> QED
  BY <1>1, <1>3, <1>4, <1>5 DEF IInv

LEMMA IdleIs ==
  ASSUME NEW pc \in Places
  PROVE  /\ Idle(pc) \in ProcType
         /\ Idle(pc).sent = {} /\ Idle(pc).found = {} /\ Idle(pc).pc = pc
BY DEF Idle, ProcType

(* Where a cycle waits for nothing. *)
LEMMA NoneSent ==
  ASSUME IInv, proc.pc \notin {"answer", "reread"}
  PROVE  proc.sent = {}
BY DEF IInv, Waiting

LEMMA SweepKeeps ==
  ASSUME IInv, Sweep
  PROVE  IInv' /\ Kept
<1> DEFINE n == Len(row)
           I == Oldest(Interrupted, SweepBatch)
           f == FinishAll(row, I, "interrupted_limit")
           T == Oldest({e \in Live(f) : ~Eligible(f[e])}, Batch)
           g == FinishAll(f, T, "expired")
<1>0. /\ n \in Nat /\ row \in Rows(n) /\ proc.sent = {} /\ Ids = 1..n
      /\ Spent(n, row, tries, {}) /\ Live(row) = {e \in 1..n : ~row[e].processed}
      /\ MaxAttempts \in Nat
  BY Basics, NoneSent DEF Sweep, At
<1>1. "interrupted_limit" \in Resolutions \ {"applied", "flipped"}
      /\ "expired" \in Resolutions \ {"applied", "flipped"} /\ "expired" \notin Limits
  BY DEF Resolutions, Limits
<1>2. I \in SUBSET (1..n) /\ I \subseteq Live(row) /\ \A e \in I : row[e].attempts >= MaxAttempts
  BY <1>0 DEF Interrupted, Oldest
<1>i. row' = FinishAll(f, T, "expired")
  BY DEF Sweep
<1> HIDE DEF I
<1>3. /\ f \in Rows(n)
      /\ \A e \in 1..n : /\ f[e].attempts = row[e].attempts
                         /\ (e \notin I => f[e] = row[e])
  BY <1>0, <1>1, <1>2, FinishAllIs
<1>4. Spent(n, f, tries, {})
  <2>1. \A e \in 1..n : row[e].attempts \in 0..MaxAttempts
    BY <1>0, SoundIs DEF Rows
  <2>2. \A e \in I : f[e].attempts = MaxAttempts
    BY <2>1, <1>0, <1>2, <1>3
  <2> HIDE DEF f
  <2> QED BY <2>2, <1>0, <1>3 DEF Spent
<1> HIDE DEF f
<1>5. T \in SUBSET (1..n) /\ T \subseteq Live(f) /\ Live(f) = {e \in 1..n : ~f[e].processed}
  BY <1>0, <1>3, RowsLen DEF Oldest, Live
<1> HIDE DEF T
<1>6. /\ g \in Rows(n)
      /\ \A e \in 1..n : /\ g[e].attempts = f[e].attempts
                         /\ (e \notin T => g[e] = f[e])
                         /\ (e \in T => g[e].res = "expired")
  BY <1>0, <1>1, <1>3, <1>5, FinishAllIs
<1>7. row' = g /\ proc' = Idle("main") /\ UNCHANGED <<comp, tries, budget, faults, runs>>
  BY <1>i DEF Sweep, Unchanged
<1> HIDE DEF g
<1>8. Spent(n, g, tries, {})
  BY <1>1, <1>4, <1>6 DEF Spent
<1>9. IInv'
  <2>1. "main" \in Places
    BY DEF Places
  <2>2. proc' \in ProcType /\ proc'.sent = {} /\ proc'.found = {}
    BY <1>7, <2>1, IdleIs
  <2> QED BY <1>6, <1>7, <1>8, <2>2, Basics, Assemble
<1>10. \A e \in 1..n : row[e].processed => g[e] = row[e]
  BY <1>0, <1>2, <1>3, <1>5, <1>6
<1>11. Len(g) = n
  BY <1>0, <1>6, RowsLen
<1> QED
  BY <1>0, <1>7, <1>9, <1>10, <1>11 DEF Kept

LEMMA MainPassKeeps ==
  ASSUME IInv, MainPass
  PROVE  IInv' /\ Kept
<1> DEFINE n == Len(row)
           batch == Oldest({e \in Live(row) : Eligible(row[e])}, Batch)
           wiki == {e \in batch : row[e].kind \in {"remote", "local"}}
<1>0. /\ n \in Nat /\ row \in Rows(n) /\ proc.sent = {} /\ Ids = 1..n
      /\ Spent(n, row, tries, {}) /\ Live(row) = {e \in 1..n : ~row[e].processed}
  BY Basics, NoneSent DEF MainPass, At
<1>1. batch \subseteq Live(row) /\ batch \in SUBSET (1..n)
  BY <1>0 DEF Oldest
<1>2. PICK doc \in [batch -> Docs], key \in [batch -> Nodes \cup {None}] :
        row' = MainPassed(row, batch, doc, key)
  BY DEF MainPass, MainPassed
<1>3. proc' = [Idle("finish") EXCEPT !.batch = wiki] /\ UNCHANGED <<comp, tries, budget, faults, runs>>
  BY DEF MainPass, Unchanged
<1>w. wiki \in SUBSET Nat
  BY <1>0, <1>1
<1> HIDE DEF batch, wiki
<1>4. Worked(n, batch, row, row')
  BY <1>0, <1>1, <1>2, MainPassIs
<1>5. row' \in Rows(n) /\ \A e \in 1..n : row[e].processed => row'[e] = row[e]
  BY <1>0, <1>1, <1>4 DEF Worked
<1>6. Spent(n, row', tries, {})
  BY <1>0, <1>4, WorkedSpent
<1>7. IInv'
  <2>1. proc' \in ProcType /\ proc'.sent = {} /\ proc'.found = {}
    BY <1>3, <1>w DEF ProcType, Idle, Places
  <2> QED BY <1>3, <1>5, <1>6, <2>1, Basics, Assemble
<1>8. Len(row') = n
  BY <1>0, <1>5, RowsLen
<1> QED
  BY <1>0, <1>5, <1>7, <1>8 DEF Kept

(* What is chosen among rows is among them. *)
LEMMA ChosenIs ==
  ASSUME NEW S, NEW k, NEW T \in AnyOf(S, k)
  PROVE  T \subseteq S
BY DEF AnyOf

LEMMA AskedIs ==
  ASSUME NEW S, NEW k, NEW T \in IF budget THEN AnyOf(S, k) ELSE {{}}
  PROVE  T \subseteq S
BY ChosenIs

(* Requests for open rows with attempts left, after work on open rows.     *)
LEMMA AskKeeps ==
  ASSUME IInv, NEW f, NEW S,
         Worked(Len(row), Live(row), row, f),
         Spent(Len(row), row, tries, {}),
         S \subseteq Live(f), \A e \in S : f[e].attempts < MaxAttempts
  PROVE  /\ Reserved(f, S) \in Rows(Len(row))
         /\ Spent(Len(row), Reserved(f, S), tries, S)
         /\ \A e \in Ids : row[e].processed => Reserved(f, S)[e] = row[e]
         /\ \A e \in S : e \in 1..Len(row) /\ ~Reserved(f, S)[e].processed
<1> DEFINE n == Len(row)
           g == Reserved(f, S)
<1>0. n \in Nat /\ row \in Rows(n) /\ Ids = 1..n /\ Live(row) = {e \in 1..n : ~row[e].processed}
      /\ n <= N /\ N \in Nat /\ MaxAttempts \in Nat /\ tries \in [1..N -> Nat]
  BY Basics
<1>1. f \in Rows(n)
  BY DEF Worked
<1>2. Live(f) = {e \in 1..n : ~f[e].processed}
  BY <1>0, <1>1, RowsLen DEF Live
<1>3. S \in SUBSET (1..n) /\ \A e \in S : ~f[e].processed
  BY <1>2
<1>4. /\ g \in Rows(n)
      /\ \A e \in 1..n : /\ g[e].attempts = f[e].attempts + (IF e \in S THEN 1 ELSE 0)
                         /\ g[e].res = f[e].res /\ g[e].processed = f[e].processed
                         /\ (e \notin S => g[e] = f[e])
  BY <1>0, <1>1, <1>3, ReservedIs
<1> HIDE DEF g
<1>5. Spent(n, f, tries, {})
  BY <1>0, WorkedSpent
<1>6. Spent(n, g, tries, S)
  <2>1. \A e \in 1..n : f[e].attempts \in Nat /\ tries[e] \in Nat
    <3>1. \A e \in 1..n : Sound(f[e])
      BY <1>1 DEF Rows
    <3>2. \A e \in 1..n : f[e].attempts \in Nat
      BY <3>1, <1>0, SoundIs
    <3>3. \A e \in 1..n : tries[e] \in Nat
      BY <1>0
    <3> QED BY <3>2, <3>3
  <2>2. \A e \in S : f[e].res \notin Limits
    <3>1. \A e \in S : Sound(f[e]) /\ ~f[e].processed
      BY <1>1, <1>3 DEF Rows
    <3> QED BY <3>1 DEF Sound, Limits
  <2> QED BY <2>1, <2>2, <1>3, <1>4, <1>5 DEF Spent
<1>7. \A e \in 1..n : row[e].processed => f[e] = row[e]
  BY <1>0 DEF Worked
<1>8. \A e \in 1..n : row[e].processed => g[e] = row[e]
  BY <1>3, <1>4, <1>7
<1> QED
  BY <1>0, <1>3, <1>4, <1>6, <1>8 DEF g

LEMMA LocateKeeps ==
  ASSUME IInv, Locate
  PROVE  IInv' /\ Kept
<1> DEFINE n == Len(row)
<1>0. /\ n \in Nat /\ row \in Rows(n) /\ proc.sent = {} /\ Ids = 1..n /\ proc \in ProcType
      /\ Spent(n, row, tries, {}) /\ Live(row) = {e \in 1..n : ~row[e].processed}
      /\ tries \in [1..N -> Nat] /\ proc.found = {}
  BY Basics, NoneSent DEF Locate, At, IInv, Waiting
<1>3. PICK doc \in [Live(row) -> Docs], unflushed \in SUBSET Adoptable(row) :
        \E held \in AnyOf(Held(Adopted(row, doc)) \ unflushed, FinishBudget), unseen \in SUBSET unflushed :
          \E S \in IF budget THEN AnyOf(Locatable(Settled(Adopted(row, doc), held, doc), unseen), LocateBudget)
                   ELSE {{}} :
            /\ row' = Reserved(Settled(Adopted(row, doc), held, doc), S)
            /\ proc' = [proc EXCEPT !.pc = "answer", !.held = held, !.picked = S, !.sent = S,
                                    !.unseen = IF S = {} THEN unseen ELSE {}]
  BY Zenon DEF Locate
<1> DEFINE a == Adopted(row, doc)
<1>4. PICK held \in AnyOf(Held(a) \ unflushed, FinishBudget), unseen \in SUBSET unflushed :
        \E S \in IF budget THEN AnyOf(Locatable(Settled(a, held, doc), unseen), LocateBudget) ELSE {{}} :
          /\ row' = Reserved(Settled(a, held, doc), S)
          /\ proc' = [proc EXCEPT !.pc = "answer", !.held = held, !.picked = S, !.sent = S,
                                  !.unseen = IF S = {} THEN unseen ELSE {}]
  BY <1>3
<1> DEFINE g == Settled(a, held, doc)
<1>5. PICK S \in IF budget THEN AnyOf(Locatable(g, unseen), LocateBudget) ELSE {{}} :
        /\ row' = Reserved(g, S)
        /\ proc' = [proc EXCEPT !.pc = "answer", !.held = held, !.picked = S, !.sent = S,
                                !.unseen = IF S = {} THEN unseen ELSE {}]
  BY <1>4
<1>1. Worked(n, Live(row), row, a) /\ a \in Rows(n)
  BY <1>0, AdoptedIs DEF Worked
<1>6. held \subseteq Live(a)
  <2>1. held \subseteq Held(a) \ unflushed
    BY ChosenIs
  <2> QED BY <2>1 DEF Held
<1> HIDE DEF a
<1>2. Live(a) = {e \in 1..n : ~a[e].processed} /\ Live(a) \subseteq Live(row)
  BY <1>0, <1>1, RowsLen DEF Worked, Live
<1>7. Worked(n, held, a, g)
  <2>1. held \in SUBSET (1..n) /\ \A e \in held : doc[e] \in Docs
    BY <1>2, <1>6
  <2> QED BY <1>0, <1>1, <2>1, SettledIs
<1> HIDE DEF g
<1>8. Worked(n, Live(row), row, g)
  <2>1. Worked(n, Live(row), a, g)
    BY <1>0, <1>1, <1>2, <1>6, <1>7, WorkedMore
  <2> QED BY <1>0, <1>1, <2>1, WorkedOn
<1>9. S \subseteq Live(g) /\ \A e \in S : g[e].attempts < MaxAttempts
  <2>1. S \subseteq Locatable(g, unseen)
    BY AskedIs
  <2> QED BY <2>1 DEF Locatable
<1>10. /\ row' \in Rows(n) /\ Spent(n, row', tries, S)
       /\ \A e \in Ids : row[e].processed => row'[e] = row[e]
       /\ \A e \in S : e \in 1..n /\ ~row'[e].processed
  BY <1>0, <1>5, <1>8, <1>9, AskKeeps
<1>11. UNCHANGED <<comp, tries, budget, faults, runs>>
  BY DEF Locate, Unchanged
<1>12. held \in SUBSET Nat /\ S \in SUBSET Nat /\ unseen \in SUBSET Nat
  <2>1. Adoptable(row) \subseteq Live(row)
    BY DEF Adoptable, Newest
  <2> QED BY <1>0, <1>2, <1>6, <1>10, <2>1
<1> DEFINE late == IF S = {} THEN unseen ELSE {}
<1>13. late \in SUBSET Nat /\ proc' = [proc EXCEPT !.pc = "answer", !.held = held, !.picked = S, !.sent = S,
                                                   !.unseen = late]
  BY <1>5, <1>12
<1> HIDE DEF late
<1>14. /\ proc' \in ProcType /\ proc'.sent = S /\ proc'.found = {} /\ proc'.pc = "answer"
  BY <1>0, <1>12, <1>13 DEF ProcType, Places
<1>15. IInv'
  BY <1>10, <1>11, <1>14, Basics, Assemble
<1>16. Len(row') = n
  BY <1>0, <1>10, RowsLen
<1> QED
  BY <1>0, <1>10, <1>15, <1>16 DEF Kept

(* A count of tried requests. *)
LEMMA TriedIs ==
  ASSUME IInv, NEW S, S \subseteq 1..Len(row), Tried(S)
  PROVE  /\ tries' \in [1..N -> Nat]
         /\ \A e \in 1..N : tries'[e] = tries[e] + (IF e \in S THEN 1 ELSE 0)
         /\ \A e \in 1..N : Len(row) < e => tries'[e] = tries[e]
<1>1. tries \in [1..N -> Nat] /\ Len(row) \in Nat
  BY Basics
<1>2. tries' = [e \in 1..N |-> IF e \in S THEN tries[e] + 1 ELSE tries[e]]
  BY DEF Tried
<1>3. tries' \in [1..N -> Nat]
  BY <1>1, <1>2
<1>4. \A e \in 1..N : tries'[e] = tries[e] + (IF e \in S THEN 1 ELSE 0)
  BY <1>1, <1>2
<1> QED
  BY <1>1, <1>3, <1>4

(* What was sent was paid for. *)
LEMMA SentIs ==
  ASSUME IInv
  PROVE  \A e \in proc.sent : /\ e \in 1..Len(row) /\ ~row[e].processed
                              /\ row[e].attempts = tries[e] + 1 /\ row[e].attempts > 0
                              /\ row[e].res \notin Limits
<1> SUFFICES ASSUME NEW e \in proc.sent
             PROVE  /\ e \in 1..Len(row) /\ ~row[e].processed
                    /\ row[e].attempts = tries[e] + 1 /\ row[e].attempts > 0
                    /\ row[e].res \notin Limits
  OBVIOUS
<1>1. /\ e \in 1..Len(row) /\ ~row[e].processed /\ tries \in [1..N -> Nat]
      /\ Spent(Len(row), row, tries, proc.sent) /\ Len(row) <= N /\ Len(row) \in Nat
  BY Basics
<1>2. row[e].attempts = tries[e] + 1
  BY <1>1 DEF Spent
<1>3. tries[e] \in Nat
  BY <1>1, Basics
<1>4. Sound(row[e])
  BY <1>1, Basics DEF Rows
<1>5. row[e].attempts > 0
  BY <1>2, <1>3
<1>6. row[e].res = ""
  BY <1>1, <1>4 DEF Sound
<1> QED
  BY <1>1, <1>2, <1>5, <1>6 DEF Limits

LEMMA AnswerKeeps ==
  ASSUME IInv, Answer
  PROVE  IInv' /\ Kept
<1> DEFINE n == Len(row)
<1>0. /\ n \in Nat /\ row \in Rows(n) /\ Ids = 1..n /\ proc \in ProcType /\ n <= N
      /\ Spent(n, row, tries, proc.sent) /\ Live(row) = {e \in 1..n : ~row[e].processed}
      /\ tries \in [1..N -> Nat] /\ proc.sent \subseteq Live(row) /\ N \in Nat
  BY Basics
<1>1. PICK refused \in SUBSET proc.sent :
        /\ row' = Refunded(row, refused) /\ Tried(proc.sent \ refused)
        /\ \E found \in SUBSET (proc.sent \ refused) :
             proc' = [proc EXCEPT !.pc = "refresh", !.sent = {}, !.found = found]
  BY DEF Answer
<1>2. PICK found \in SUBSET (proc.sent \ refused) :
        proc' = [proc EXCEPT !.pc = "refresh", !.sent = {}, !.found = found]
  BY <1>1
<1>3. /\ row' \in Rows(n)
      /\ \A e \in 1..n : /\ row'[e].attempts = row[e].attempts - (IF e \in refused THEN 1 ELSE 0)
                         /\ row'[e].res = row[e].res /\ row'[e].processed = row[e].processed
                         /\ (e \notin refused => row'[e] = row[e])
  BY <1>0, <1>1, SentIs, RefundedIs
<1>4. /\ tries' \in [1..N -> Nat]
      /\ \A e \in 1..N : tries'[e] = tries[e] + (IF e \in proc.sent \ refused THEN 1 ELSE 0)
      /\ \A e \in 1..N : n < e => tries'[e] = tries[e]
  BY <1>0, <1>1, TriedIs
<1>5. Spent(n, row', tries', {})
  <2>1. \A e \in 1..n : /\ row[e].attempts \in Nat /\ tries[e] \in Nat
                        /\ row[e].attempts = tries[e] + (IF e \in proc.sent THEN 1 ELSE 0)
    BY <1>0, SoundIs DEF Rows, Spent
  <2>2. \A e \in 1..n : tries'[e] = tries[e] + (IF e \in proc.sent \ refused THEN 1 ELSE 0)
    BY <1>0, <1>4
  <2>3. \A e \in 1..n : row'[e].attempts = tries'[e]
    BY <2>1, <2>2, <1>1, <1>3
  <2>4. \A e \in 1..n : row'[e].res \in Limits => row'[e].attempts = MaxAttempts
    <3>1. \A e \in 1..n : row'[e].res \in Limits => e \notin refused
      BY <1>3, SentIs
    <3> QED BY <3>1, <1>0, <1>3 DEF Spent
  <2> QED BY <2>3, <2>4, <2>1, <2>2 DEF Spent
<1>6. UNCHANGED <<comp, budget, faults, runs>>
  BY DEF Answer, Unchanged
<1>7. found \in SUBSET Nat /\ \A e \in found : e \in 1..n /\ ~row'[e].processed
  BY <1>0, <1>3
<1>8. proc' \in ProcType /\ proc'.sent = {} /\ proc'.found = found /\ proc'.pc = "refresh"
  BY <1>0, <1>2, <1>7 DEF ProcType, Places
<1>9. IInv'
  BY <1>3, <1>4, <1>5, <1>6, <1>7, <1>8, Basics, Assemble
<1>10. Len(row') = n
  BY <1>0, <1>3, RowsLen
<1>11. \A e \in 1..n : row[e].processed => row'[e] = row[e]
  BY <1>0, <1>3
<1> QED
  BY <1>0, <1>9, <1>10, <1>11 DEF Kept

LEMMA RefreshKeeps ==
  ASSUME IInv, Refresh
  PROVE  IInv' /\ Kept
<1> DEFINE n == Len(row)
<1>0. /\ n \in Nat /\ row \in Rows(n) /\ proc.sent = {} /\ Ids = 1..n /\ proc \in ProcType
      /\ Spent(n, row, tries, {}) /\ Live(row) = {e \in 1..n : ~row[e].processed}
      /\ tries \in [1..N -> Nat] /\ proc.found \subseteq Live(row)
  BY Basics, NoneSent DEF Refresh, At
<1>1. PICK newer \in [proc.found -> BOOLEAN], node \in [proc.found -> Nodes] :
        LET f == [e \in Ids |-> IF e \in proc.found THEN Upserted(row, e, node[e], newer[e]) ELSE row[e]]
        IN  \E S \in IF budget THEN AnyOf(Refreshable(f) \ proc.unseen, LocateBudget) ELSE {{}} :
              /\ row' = Reserved(f, S)
              /\ proc' = [proc EXCEPT !.pc = "reread", !.found = {}, !.sent = S, !.unseen = {}]
  BY DEF Refresh
<1> DEFINE f == [e \in Ids |-> IF e \in proc.found THEN Upserted(row, e, node[e], newer[e]) ELSE row[e]]
<1>2. PICK S \in IF budget THEN AnyOf(Refreshable(f) \ proc.unseen, LocateBudget) ELSE {{}} :
        /\ row' = Reserved(f, S)
        /\ proc' = [proc EXCEPT !.pc = "reread", !.found = {}, !.sent = S, !.unseen = {}]
  BY <1>1
<1>3. Worked(n, proc.found, row, f)
  <2>1. ASSUME NEW e \in proc.found PROVE Moved(row[e], Upserted(row, e, node[e], newer[e]))
    <3>1. e \in 1..n /\ node[e] \in Nodes \cup {None} /\ newer[e] \in BOOLEAN
      BY <1>0
    <3> QED BY <1>0, <3>1, UpsertedIs
  <2>2. \A e \in 1..n : f[e] = IF e \in proc.found THEN Upserted(row, e, node[e], newer[e]) ELSE row[e]
    BY <1>0
  <2>3. \A e \in 1..n : Sound(f[e])
    BY <1>0, <2>1, <2>2 DEF Moved, Rows
  <2>4. f \in [1..n -> Row]
    <3>1. f = [e \in 1..n |-> f[e]]
      BY <1>0
    <3> HIDE DEF f
    <3> QED BY <3>1, <2>3 DEF Sound
  <2> HIDE DEF f
  <2> QED BY <2>1, <2>2, <2>3, <2>4 DEF Worked, Rows
<1> HIDE DEF f
<1>4. S \subseteq Live(f) /\ \A e \in S : f[e].attempts < MaxAttempts
  <2>1. S \subseteq Refreshable(f) \ proc.unseen
    BY AskedIs
  <2> QED BY <2>1 DEF Refreshable
<1>5. /\ row' \in Rows(n) /\ Spent(n, row', tries, S)
      /\ \A e \in Ids : row[e].processed => row'[e] = row[e]
      /\ \A e \in S : e \in 1..n /\ ~row'[e].processed
  <2>0. Worked(n, Live(row), row, f)
    BY <1>0, <1>3, WorkedMore
  <2>1. tries \in [1..N -> Nat] /\ Spent(Len(row), row, tries, {})
    BY <1>0
  <2>2. /\ Reserved(f, S) \in Rows(Len(row)) /\ Spent(Len(row), Reserved(f, S), tries, S)
        /\ \A e \in Ids : row[e].processed => Reserved(f, S)[e] = row[e]
        /\ \A e \in S : e \in 1..Len(row) /\ ~Reserved(f, S)[e].processed
    BY <2>0, <2>1, <1>4, AskKeeps
  <2>3. row' = Reserved(f, S)
    BY <1>2
  <2> QED BY <2>2, <2>3, Zenon
<1>6. UNCHANGED <<comp, tries, budget, faults, runs>>
  BY DEF Refresh, Unchanged
<1>7. S \in SUBSET Nat
  BY <1>0, <1>5
<1>8. /\ proc' \in ProcType /\ proc'.sent = S /\ proc'.found = {} /\ proc'.pc = "reread"
  BY <1>0, <1>2, <1>7 DEF ProcType, Places
<1>9. IInv'
  BY <1>5, <1>6, <1>8, Basics, Assemble
<1>10. Len(row') = n
  BY <1>0, <1>5, RowsLen
<1> QED
  BY <1>0, <1>5, <1>9, <1>10 DEF Kept

(* Two ends of a second reading: nothing was asked, or all of it was.      *)
LEMMA RereadKeeps ==
  ASSUME IInv, Reread
  PROVE  IInv' /\ Kept
<1> DEFINE n == Len(row)
<1>0. /\ n \in Nat /\ row \in Rows(n) /\ Ids = 1..n /\ proc \in ProcType /\ n <= N /\ N \in Nat
      /\ Spent(n, row, tries, proc.sent) /\ Live(row) = {e \in 1..n : ~row[e].processed}
      /\ tries \in [1..N -> Nat] /\ proc.sent \subseteq Live(row) /\ MaxAttempts \in Nat
      /\ proc.found = {}
  BY Basics DEF Reread, At, IInv, Waiting
<1>1. /\ proc' = [proc EXCEPT !.pc = "dead", !.sent = {}]
      /\ UNCHANGED <<comp, budget, faults, runs>>
  BY DEF Reread, Unchanged
<1>2. proc' \in ProcType /\ proc'.sent = {} /\ proc'.found = {}
  BY <1>0, <1>1 DEF ProcType, Places
<1>3. \A e \in 1..n : /\ row[e].attempts \in 0..MaxAttempts /\ tries[e] \in Nat
                      /\ row[e].attempts = tries[e] + (IF e \in proc.sent THEN 1 ELSE 0)
                      /\ Sound(row[e])
                      /\ row[e].res \in Limits => row[e].attempts = MaxAttempts
  <2>1. \A e \in 1..n : Sound(row[e])
    BY <1>0 DEF Rows
  <2>2. \A e \in 1..n : row[e].attempts \in 0..MaxAttempts
    BY <2>1, SoundIs
  <2>3. \A e \in 1..n : tries[e] \in Nat
    BY <1>0
  <2> QED BY <1>0, <2>1, <2>2, <2>3 DEF Spent
<1>4. ASSUME row' \in Rows(n), Spent(n, row', tries', {}), tries' \in [1..N -> Nat],
             \A e \in 1..N : n < e => tries'[e] = tries[e],
             \A e \in 1..n : e \notin proc.sent => row'[e] = row[e]
      PROVE  IInv' /\ Kept
  <2>1. IInv'
    BY <1>1, <1>2, <1>4, Basics, Assemble
  <2>2. Len(row') = n
    BY <1>0, <1>4, RowsLen
  <2>3. \A e \in 1..n : row[e].processed => row'[e] = row[e]
    BY <1>0, <1>4
  <2> QED BY <1>0, <2>1, <2>2, <2>3 DEF Kept
<1>5. CASE row' = Refunded(row, proc.sent) /\ UNCHANGED tries
  <2>1. /\ row' \in Rows(n)
        /\ \A e \in 1..n : /\ row'[e].attempts = row[e].attempts - (IF e \in proc.sent THEN 1 ELSE 0)
                           /\ row'[e].res = row[e].res
                           /\ (e \notin proc.sent => row'[e] = row[e])
    BY <1>0, <1>5, SentIs, RefundedIs
  <2>2. \A e \in 1..n : row'[e].res \in Limits => e \notin proc.sent
    BY <2>1, SentIs
  <2>3. Spent(n, row', tries', {})
    BY <1>3, <1>5, <2>1, <2>2 DEF Spent
  <2> QED BY <1>0, <1>4, <1>5, <2>1, <2>3
<1>6. ASSUME NEW got \in SUBSET proc.sent, NEW newer \in [proc.sent -> BOOLEAN], Tried(proc.sent),
             row' = [e \in Ids |->
               IF e \in got THEN Upserted(row, e, row[e].node, newer[e])
               ELSE IF e \in proc.sent /\ row[e].attempts >= MaxAttempts
               THEN Finish(row[e], "metadata_unavailable") ELSE row[e]]
      PROVE  IInv' /\ Kept
  <2>1. /\ tries' \in [1..N -> Nat]
        /\ \A e \in 1..N : tries'[e] = tries[e] + (IF e \in proc.sent THEN 1 ELSE 0)
        /\ \A e \in 1..N : n < e => tries'[e] = tries[e]
    BY <1>0, <1>6, TriedIs
  <2>2. \A e \in got : Moved(row[e], Upserted(row, e, row[e].node, newer[e]))
    <3> SUFFICES ASSUME NEW e \in got PROVE Moved(row[e], Upserted(row, e, row[e].node, newer[e]))
      OBVIOUS
    <3>1. e \in 1..n /\ newer[e] \in BOOLEAN
      BY <1>0, <1>6
    <3>2. row[e].node \in Nodes \cup {None}
      BY <3>1, <1>3, SoundIs
    <3> QED BY <1>0, <3>1, <3>2, UpsertedIs
  <2>3. "metadata_unavailable" \in Resolutions \ {"applied", "flipped"}
    BY DEF Resolutions
  <2>4. \A e \in 1..n : /\ Sound(Finish(row[e], "metadata_unavailable"))
                        /\ Finish(row[e], "metadata_unavailable").attempts = row[e].attempts
    BY <2>3, <1>3, FinishIs
  <2>5. \A e \in 1..n : row'[e] = IF e \in got THEN Upserted(row, e, row[e].node, newer[e])
               ELSE IF e \in proc.sent /\ row[e].attempts >= MaxAttempts
               THEN Finish(row[e], "metadata_unavailable") ELSE row[e]
    BY <1>0, <1>6
  <2>6. \A e \in 1..n : Sound(row'[e]) /\ row'[e].attempts = row[e].attempts
    BY <2>2, <2>4, <2>5, <1>3 DEF Moved
  <2>7. row' \in Rows(n)
    <3>1. row' = [e \in 1..n |-> row'[e]]
      BY <1>0, <1>6
    <3>2. row' \in [1..n -> Row]
      BY <3>1, <2>6 DEF Sound
    <3> QED BY <3>2, <2>6 DEF Rows
  <2>8. \A e \in 1..n : row'[e].res \in Limits => row'[e].attempts = MaxAttempts
    <3> SUFFICES ASSUME NEW e \in 1..n, row'[e].res \in Limits PROVE row'[e].attempts = MaxAttempts
      OBVIOUS
    <3>1. CASE e \in got
      <4>1. row[e].res \in Limits
        BY <3>1, <2>2, <2>5 DEF Moved
      <4> QED BY <4>1, <1>3, <2>6
    <3>2. CASE e \notin got /\ e \in proc.sent /\ row[e].attempts >= MaxAttempts
      BY <3>2, <1>0, <1>3, <2>6
    <3>3. CASE e \notin got /\ ~(e \in proc.sent /\ row[e].attempts >= MaxAttempts)
      BY <3>3, <1>3, <2>5
    <3> QED BY <3>1, <3>2, <3>3
  <2>9. Spent(n, row', tries', {})
    <3>1. \A e \in 1..n : e \in 1..N
      BY <1>0
    <3> QED BY <3>1, <1>3, <2>1, <2>6, <2>8 DEF Spent
  <2>10. \A e \in 1..n : e \notin proc.sent => row'[e] = row[e]
    BY <1>6, <2>5
  <2> QED BY <1>4, <2>1, <2>7, <2>9, <2>10
<1> QED
  BY <1>5, <1>6 DEF Reread

LEMMA DeadLettersKeeps ==
  ASSUME IInv, DeadLetters
  PROVE  IInv' /\ Kept
<1> DEFINE n == Len(row)
           spent == {e \in proc.picked \cap Live(row) : ~row[e].confirmed /\ row[e].attempts >= MaxAttempts}
           f == FinishAll(row, spent, "locator_limit")
           D == {e \in (proc.batch \cup proc.held) \cap Live(f) : OutOfTime(f[e])}
           end(e) == IF f[e].confirmed THEN "no_doc" ELSE "unmatched"
<1>0. /\ n \in Nat /\ row \in Rows(n) /\ proc.sent = {} /\ Ids = 1..n
      /\ Spent(n, row, tries, {}) /\ Live(row) = {e \in 1..n : ~row[e].processed}
      /\ MaxAttempts \in Nat
  BY Basics, NoneSent DEF DeadLetters, At
<1>1. "locator_limit" \in Resolutions \ {"applied", "flipped"}
  BY DEF Resolutions
<1>2. spent \in SUBSET (1..n) /\ \A e \in spent : ~row[e].processed /\ row[e].attempts >= MaxAttempts
  BY <1>0
<1>3. row' = [e \in Ids |-> IF e \in D THEN Finish(f[e], end(e)) ELSE f[e]]
  BY DEF DeadLetters
<1> HIDE DEF spent
<1>4. /\ f \in Rows(n)
      /\ \A e \in 1..n : f[e].attempts = row[e].attempts /\ (e \notin spent => f[e] = row[e])
  BY <1>0, <1>1, <1>2, FinishAllIs
<1> HIDE DEF f
<1>5. D \subseteq 1..n /\ \A e \in D : ~f[e].processed
  BY <1>0, <1>4, RowsLen DEF Live
<1>6. \A e \in 1..n : end(e) \in Resolutions /\ end(e) \notin Limits /\ end(e) \notin {"applied", "flipped"}
  BY DEF Resolutions, Limits
<1> HIDE DEF D, end
<1>7. \A e \in 1..n : Moved(f[e], Finish(f[e], end(e))) /\ Sound(f[e])
  BY <1>4, <1>6, FinishIs DEF Rows
<1>8. Worked(n, D, f, row')
  <2>1. \A e \in 1..n : row'[e] = IF e \in D THEN Finish(f[e], end(e)) ELSE f[e]
    BY <1>0, <1>3
  <2>2. \A e \in 1..n : Sound(row'[e])
    BY <2>1, <1>7 DEF Moved
  <2>3. row' \in [1..n -> Row]
    <3>1. row' = [e \in 1..n |-> row'[e]]
      BY <1>0, <1>3
    <3> QED BY <3>1, <2>2 DEF Sound
  <2> QED BY <1>7, <2>1, <2>2, <2>3 DEF Worked, Rows
<1>9. Spent(n, f, tries, {})
  <2>1. \A e \in 1..n : row[e].attempts \in 0..MaxAttempts
    BY <1>0, SoundIs DEF Rows
  <2>2. \A e \in spent : f[e].attempts = MaxAttempts
    BY <2>1, <1>0, <1>2, <1>4
  <2> QED BY <2>2, <1>0, <1>4 DEF Spent
<1>10. row' \in Rows(n) /\ Spent(n, row', tries, {})
  BY ZenonT(30), <1>0, <1>4, <1>8, <1>9, WorkedSpent DEF Worked
<1>11. \A e \in 1..n : row[e].processed => row'[e] = row[e]
  BY <1>2, <1>4, <1>5, <1>8 DEF Worked
<1>12. proc' = Idle("out") /\ UNCHANGED <<comp, tries, budget, faults, runs>>
  BY DEF DeadLetters, Unchanged
<1>13. IInv'
  <2>1. proc' \in ProcType /\ proc'.sent = {} /\ proc'.found = {}
    BY <1>12, IdleIs DEF Places
  <2> QED BY <1>10, <1>12, <2>1, Basics, Assemble
<1>14. Len(row') = n
  BY <1>0, <1>10, RowsLen
<1> QED
  BY <1>0, <1>11, <1>13, <1>14 DEF Kept

-----------------------------------------------------------------------------
(* Around the cycle. *)

LEMMA MaxIsIn ==
  ASSUME NEW S \in SUBSET Nat, IsFiniteSet(S), S # {}
  PROVE  Max(S) \in S
BY GreatestNat DEF Max

(* Reopened rows start anew; only a row that was closed without metadata   *)
(* is one.                                                                 *)
LEMMA EnterKeeps ==
  ASSUME IInv, Enter
  PROVE  /\ IInv' /\ Len(row') = Len(row)
         /\ \A e \in Ids : row[e].processed =>
              \/ row'[e] = row[e]
              \/ /\ e \notin comp.items /\ e \in comp'.items /\ ~row[e].applied
                 /\ row[e].res \in Limits \cup {"expired", "unmatched", "no_doc"}
<1> DEFINE n == Len(row)
           rest == {e \in Ids : comp.cursor < e /\ e <= comp.max /\ Reopenable(e)}
           S == Oldest(rest, CompBatch)
           done == Cardinality(S) < CompBatch \/ Max(S) >= comp.max
<1>0. /\ n \in Nat /\ row \in Rows(n) /\ proc.sent = {} /\ Ids = 1..n /\ n <= N /\ N \in Nat
      /\ Spent(n, row, tries, {}) /\ comp \in CompType /\ MaxAttempts \in Nat
      /\ tries \in [1..N -> Nat]
  BY Basics, NoneSent DEF Enter, At
<1>1. proc' = Idle("sweep") /\ UNCHANGED <<budget, faults, runs>>
  BY DEF Enter, Unchanged
<1>2. proc' \in ProcType /\ proc'.sent = {} /\ proc'.found = {}
  BY <1>1, IdleIs DEF Places
<1>3. CASE comp.status # "running"
  <2>1. UNCHANGED <<row, comp, tries>>
    BY <1>3 DEF Enter
  <2>2. IInv'
    BY <1>0, <1>1, <1>2, <2>1, Basics, Assemble
  <2> QED BY <2>1, <2>2
<1>4. CASE comp.status = "running"
  <2>1. /\ row' = [e \in Ids |-> IF e \in S THEN Reopened(row[e]) ELSE row[e]]
        /\ tries' = [e \in 1..N |-> IF e \in S THEN 0 ELSE tries[e]]
        /\ comp' = [comp EXCEPT !.items = @ \cup S,
                                !.cursor = IF done THEN comp.max ELSE Max(S),
                                !.status = IF done THEN "completed" ELSE @]
    BY <1>4 DEF Enter
  <2>2. S \subseteq 1..n /\ \A e \in S : Reopenable(e)
    BY <1>0 DEF Oldest
  <2>3. ~done => Max(S) \in Nat
    <3>1. IsFiniteSet(S) /\ S \in SUBSET Nat
      <4>1. IsFiniteSet(1..n)
        BY <1>0, FS_Interval
      <4> QED BY <4>1, <2>2, <1>0, FS_Subset
    <3>2. ~done => S # {}
      <4>1. S = {} => Cardinality(S) = 0
        BY FS_EmptySet
      <4> QED BY <4>1, BridgeAssumption
    <3> HIDE DEF S
    <3> QED BY <3>1, <3>2, MaxIsIn
  <2> HIDE DEF S
  <2> DEFINE c == IF done THEN comp.max ELSE Max(S)
             s == IF done THEN "completed" ELSE comp.status
  <2>4. c \in Nat /\ s \in {"none", "running", "completed"}
    BY <1>0, <2>3 DEF CompType
  <2> DEFINE i == comp.items \cup S
  <2>5. comp' = [comp EXCEPT !.items = i, !.cursor = c, !.status = s]
    BY <2>1
  <2>i. i \in SUBSET Nat
    <3>1. comp.items \subseteq Nat
      BY <1>0 DEF CompType
    <3>2. S \subseteq Nat
      BY <1>0, <2>2
    <3> QED BY <3>1, <3>2
  <2> HIDE DEF c, s, i
  <2>j. comp' \in CompType /\ comp'.items = i
    BY <1>0, <2>4, <2>5, <2>i DEF CompType
  <2>6. comp' \in CompType /\ comp'.items = comp.items \cup S
    BY <2>j DEF i
  <2>7. \A e \in 1..n : Sound(row[e])
    BY <1>0 DEF Rows
  <2>8. \A e \in 1..n : /\ Sound(Reopened(row[e])) /\ Reopened(row[e]).attempts = 0
                        /\ Reopened(row[e]).res = ""
    <3> SUFFICES ASSUME NEW e \in 1..n
                 PROVE  /\ Sound(Reopened(row[e])) /\ Reopened(row[e]).attempts = 0
                        /\ Reopened(row[e]).res = ""
      OBVIOUS
    <3> DEFINE z == 0
               r == [row[e] EXCEPT !.processed = FALSE, !.res = "", !.attempts = z,
                                   !.retained = TRUE, !.old = FALSE]
    <3>1. Reopened(row[e]) = r
      BY DEF Reopened
    <3>2. z \in 0..MaxAttempts /\ row[e] \in Row /\ "" \in Resolutions
      <4>1. z \in 0..MaxAttempts
        BY <1>0
      <4>2. row[e] \in Row
        BY <2>7 DEF Sound
      <4>3. "" \in Resolutions
        BY DEF Resolutions
      <4> QED BY <4>1, <4>2, <4>3
    <3> HIDE DEF z
    <3>3. r \in Row
      BY <3>2 DEF Row
    <3>4. r.attempts = z /\ r.res = "" /\ r.processed = FALSE
      BY <3>2 DEF Row
    <3> HIDE DEF r
    <3> QED BY <3>1, <3>3, <3>4 DEF Sound, z
  <2>9. \A e \in 1..n : row'[e] = IF e \in S THEN Reopened(row[e]) ELSE row[e]
    BY <1>0, <2>1
  <2>10. row' \in Rows(n)
    <3>1. \A e \in 1..n : Sound(row'[e])
      BY <2>7, <2>8, <2>9
    <3>2. row' = [e \in 1..n |-> row'[e]]
      BY <1>0, <2>1
    <3>3. row' \in [1..n -> Row]
      BY <3>1, <3>2 DEF Sound
    <3> QED BY <3>1, <3>3 DEF Rows
  <2>11. /\ tries' \in [1..N -> Nat]
         /\ \A e \in 1..N : tries'[e] = IF e \in S THEN 0 ELSE tries[e]
    BY <1>0, <2>1
  <2>12. \A e \in 1..N : n < e => tries'[e] = tries[e]
    BY <1>0, <2>2, <2>11
  <2>13. Spent(n, row', tries', {})
    <3>1. \A e \in 1..n : e \in 1..N
      BY <1>0
    <3>2. "" \notin Limits
      BY DEF Limits
    <3>3. ASSUME NEW e \in 1..n
          PROVE  row'[e].attempts = tries'[e] /\ (row'[e].res \in Limits => row'[e].attempts = MaxAttempts)
      <4>1. row[e].attempts = tries[e] /\ (row[e].res \in Limits => row[e].attempts = MaxAttempts)
        <5>1. tries[e] \in Nat
          BY <1>0, <3>1
        <5> QED BY <5>1, <1>0 DEF Spent
      <4>2. CASE e \in S
        BY <4>2, <3>1, <3>2, <2>8, <2>9, <2>11
      <4>3. CASE e \notin S
        BY <4>1, <4>3, <3>1, <2>9, <2>11
      <4> QED BY <4>2, <4>3
    <3>4. \A e \in 1..n : tries'[e] \in Nat
      BY <2>11, <3>1
    <3> QED BY <3>3, <3>4 DEF Spent
  <2>14. IInv'
    BY <1>1, <1>2, <2>6, <2>10, <2>11, <2>12, <2>13, Basics, Assemble
  <2>15. Len(row') = n
    BY <1>0, <2>10, RowsLen
  <2>16. \A e \in 1..n : row[e].processed =>
              \/ row'[e] = row[e]
              \/ /\ e \notin comp.items /\ e \in comp'.items /\ ~row[e].applied
                 /\ row[e].res \in Limits \cup {"expired", "unmatched", "no_doc"}
    BY <2>2, <2>6, <2>9 DEF Reopenable
  <2> QED BY <1>0, <2>14, <2>15, <2>16
<1> QED
  BY <1>3, <1>4

LEMMA IngestKeeps ==
  ASSUME IInv, Ingest
  PROVE  IInv' /\ Kept
<1> DEFINE n == Len(row)
<1>0. /\ n \in Nat /\ n < N /\ row \in Rows(n) /\ Ids = 1..n /\ proc \in ProcType /\ N \in Nat
      /\ Spent(n, row, tries, proc.sent) /\ tries \in [1..N -> Nat] /\ MaxAttempts \in Nat
      /\ Live(row) = {e \in 1..n : ~row[e].processed}
      /\ proc.sent \subseteq Live(row) /\ proc.found \subseteq Live(row)
  BY Basics DEF Ingest
<1>1. PICK kind \in Kinds, biz \in Biz, retained \in BOOLEAN :
        row' = Append(row, NewRow(kind, biz, retained))
  BY DEF Ingest
<1> DEFINE r == NewRow(kind, biz, retained)
<1>2. Sound(r) /\ r.attempts = 0 /\ r.res = ""
  <2> DEFINE z == 0
             v == [kind |-> kind, biz |-> biz, retained |-> retained, old |-> FALSE, processed |-> FALSE,
                   res |-> "", node |-> None, confirmed |-> FALSE, applied |-> FALSE,
                   attempts |-> z, wait |-> FALSE]
  <2>1. r = v
    BY DEF NewRow
  <2>2. z \in 0..MaxAttempts /\ "" \in Resolutions /\ kind \in Kind
    BY <1>0, BridgeAssumption DEF Resolutions
  <2> HIDE DEF z
  <2>3. v \in Row
    BY <2>2 DEF Row
  <2>4. v.attempts = z /\ v.res = "" /\ v.processed = FALSE
    OBVIOUS
  <2> HIDE DEF v, r
  <2> QED BY <2>1, <2>3, <2>4 DEF Sound, z
<1>3. row' = Append(row, r)
  BY <1>1
<1> HIDE DEF r
<1>4. /\ Len(row') = n + 1 /\ row' \in [1..(n + 1) -> Row]
      /\ row'[n + 1] = r /\ \A e \in 1..n : row'[e] = row[e]
  <2>1. row \in Seq(Row) /\ Len(row) = n
    BY <1>0, RowsAre DEF Rows
  <2>2. r \in Row
    BY <1>2 DEF Sound
  <2>a. Append(row, r) \in Seq(Row)
    BY <2>1, <2>2
  <2>b. Len(Append(row, r)) = n + 1
    BY <2>1, <2>2
  <2>c. Append(row, r)[n + 1] = r
    BY <1>0, <2>1, <2>2
  <2>d. \A e \in 1..n : Append(row, r)[e] = row[e]
    BY <1>0, <2>1, <2>2
  <2>3. /\ Len(Append(row, r)) = n + 1 /\ Append(row, r) \in Seq(Row)
        /\ Append(row, r)[n + 1] = r /\ \A e \in 1..n : Append(row, r)[e] = row[e]
    BY <2>a, <2>b, <2>c, <2>d
  <2>4. Append(row, r) \in [1..(n + 1) -> Row]
    <3> DEFINE a == Append(row, r)
    <3>1. a \in Seq(Row) /\ Len(a) = n + 1
      BY <2>3
    <3> HIDE DEF a
    <3>2. a \in [1..Len(a) -> Row]
      BY <3>1
    <3> QED BY <3>1, <3>2 DEF a
  <2> QED BY <1>3, <2>3, <2>4
<1>5. UNCHANGED <<proc, comp, budget, tries, faults, runs>>
  BY DEF Ingest
<1>6. row' \in Rows(n + 1)
  <2>1. \A e \in 1..(n + 1) : e \in 1..n \/ e = n + 1
    BY <1>0
  <2>2. \A e \in 1..(n + 1) : Sound(row'[e])
    BY <2>1, <1>0, <1>2, <1>4 DEF Rows
  <2> QED BY <2>2, <1>4 DEF Rows
<1>7. Waiting'
  <2>1. DOMAIN row' = 1..(n + 1)
    BY <1>4
  <2>2. Live(row) \subseteq Live(row')
    BY <1>0, <1>4, <2>1 DEF Live
  <2> QED BY <2>2, <1>5 DEF IInv, Waiting
<1>8. Paid'
  <2>1. tries[n + 1] = 0 /\ n + 1 \notin proc.sent
    BY <1>0 DEF IInv, Paid
  <2>2. \A e \in 1..(n + 1) : e \in 1..n \/ e = n + 1
    BY <1>0
  <2>3. "" \notin Limits
    BY DEF Limits
  <2>4. Spent(n + 1, row', tries, proc.sent)
    <3>1. ASSUME NEW e \in 1..(n + 1)
          PROVE  /\ row'[e].attempts = tries[e] + (IF e \in proc.sent THEN 1 ELSE 0)
                 /\ row'[e].res \in Limits => row'[e].attempts = MaxAttempts
      <4>1. CASE e \in 1..n
        BY <4>1, <1>0, <1>4 DEF Spent
      <4>a. row'[n + 1].attempts = 0 /\ row'[n + 1].res = ""
        BY <1>2, <1>4
      <4>b. /\ row'[n + 1].attempts = tries[n + 1] + (IF n + 1 \in proc.sent THEN 1 ELSE 0)
            /\ row'[n + 1].res \notin Limits
        <5>1. tries[n + 1] + (IF n + 1 \in proc.sent THEN 1 ELSE 0) = 0
          BY <2>1
        <5>2. row'[n + 1].res \notin Limits
          BY <4>a, <2>3
        <5> QED BY <5>1, <5>2, <4>a
      <4>2. CASE e = n + 1
        BY ONLY <4>2, <4>b
      <4> QED BY <2>2, <4>1, <4>2
    <3> QED BY <3>1 DEF Spent
  <2>5. \A e \in 1..N : n + 1 < e => tries[e] = 0
    BY <1>0 DEF IInv, Paid
  <2> QED BY <1>4, <1>5, <2>4, <2>5 DEF Paid
<1>9. TypeOK'
  <2>1. Len(row') \in 0..N
    BY <1>0, <1>4
  <2> QED BY <1>4, <1>5, <2>1, Basics DEF TypeOK
<1>10. IInv'
  BY <1>4, <1>6, <1>7, <1>8, <1>9 DEF IInv
<1> QED
  BY <1>0, <1>4, <1>10 DEF Kept

(* Clocks change the times of open rows. *)
LEMMA OpenRowKeeps ==
  ASSUME IInv, NEW e \in Live(row), NEW r, row' = [row EXCEPT ![e] = r], Moved(row[e], r),
         r.processed = row[e].processed, UNCHANGED <<proc, comp, budget, tries, faults, runs>>
  PROVE  IInv' /\ Kept
<1> DEFINE n == Len(row)
<1>0. /\ n \in Nat /\ row \in Rows(n) /\ Ids = 1..n /\ DOMAIN row = 1..n
      /\ Spent(n, row, tries, proc.sent)
      /\ Live(row) = {x \in 1..n : ~row[x].processed}
      /\ proc.sent \subseteq Live(row) /\ proc.found \subseteq Live(row)
  BY Basics
<1>1. e \in 1..n /\ ~row[e].processed
  BY <1>0
<1>2. Worked(n, {e}, row, row')
  BY <1>0, <1>1, UpdateIs
<1>3. row' \in Rows(n) /\ Spent(n, row', tries, proc.sent)
  BY <1>0, <1>2, WorkedSpent DEF Worked
<1>4. row'[e] = r /\ \A x \in 1..n : x # e => row'[x] = row[x]
  BY <1>0, <1>1
<1>5. \A x \in proc.sent \cup proc.found : x \in 1..n /\ ~row'[x].processed
  BY <1>0, <1>1, <1>4
<1>6. /\ proc.sent # {} => proc.pc \in {"answer", "reread"}
      /\ proc.found # {} => proc.pc = "refresh"
  BY DEF IInv, Waiting
<1>7. IInv'
  BY <1>3, <1>5, <1>6, Basics, Assemble
<1>8. Len(row') = n
  BY <1>0, <1>3, RowsLen
<1> QED
  BY <1>0, <1>1, <1>4, <1>7, <1>8 DEF Kept

LEMMA AgeKeeps ==
  ASSUME IInv, Age
  PROVE  IInv' /\ Kept
<1>1. PICK e \in Live(row) : row' = [row EXCEPT ![e].old = TRUE]
  BY DEF Age
<1> DEFINE r == [row[e] EXCEPT !.old = TRUE]
<1>2. row' = [row EXCEPT ![e] = r]
  BY <1>1
<1>3. Sound(row[e])
  BY Basics DEF Rows
<1>4. /\ r \in Row /\ r.attempts = row[e].attempts /\ r.res = row[e].res
      /\ r.processed = row[e].processed /\ r.applied = row[e].applied
  BY <1>3 DEF Sound, Row
<1> HIDE DEF r
<1>5. Moved(row[e], r)
  BY <1>3, <1>4 DEF Sound, Moved
<1> QED
  BY <1>2, <1>4, <1>5, OpenRowKeeps DEF Age

LEMMA CoolKeeps ==
  ASSUME IInv, Cool
  PROVE  IInv' /\ Kept
<1>1. PICK e \in Live(row) : row' = [row EXCEPT ![e].wait = FALSE]
  BY DEF Cool
<1> DEFINE r == [row[e] EXCEPT !.wait = FALSE]
<1>2. row' = [row EXCEPT ![e] = r]
  BY <1>1
<1>3. Sound(row[e])
  BY Basics DEF Rows
<1>4. /\ r \in Row /\ r.attempts = row[e].attempts /\ r.res = row[e].res
      /\ r.processed = row[e].processed /\ r.applied = row[e].applied
  BY <1>3 DEF Sound, Row
<1> HIDE DEF r
<1>5. Moved(row[e], r)
  BY <1>3, <1>4 DEF Sound, Moved
<1> QED
  BY <1>2, <1>4, <1>5, OpenRowKeeps DEF Cool

LEMMA CrashKeeps ==
  ASSUME IInv, Crash
  PROVE  IInv' /\ Kept
<1> DEFINE n == Len(row)
<1>0. /\ n \in Nat /\ row \in Rows(n) /\ Ids = 1..n /\ n <= N /\ N \in Nat
      /\ Spent(n, row, tries, proc.sent) /\ tries \in [1..N -> Nat]
      /\ proc.sent \subseteq 1..n
  BY Basics
<1>1. /\ tries' \in [1..N -> Nat]
      /\ \A e \in 1..N : tries'[e] = tries[e] + (IF e \in proc.sent THEN 1 ELSE 0)
      /\ \A e \in 1..N : n < e => tries'[e] = tries[e]
  BY <1>0, TriedIs DEF Crash
<1>2. proc' = Idle("out") /\ UNCHANGED <<row, comp, budget, runs>> /\ faults' = faults + 1
  BY DEF Crash
<1>3. proc' \in ProcType /\ proc'.sent = {} /\ proc'.found = {}
  BY <1>2, IdleIs DEF Places
<1>4. Spent(n, row', tries', {})
  <2>1. \A e \in 1..n : e \in 1..N /\ tries[e] \in Nat
    BY <1>0
  <2>2. \A e \in 1..n : /\ row[e].attempts = tries[e] + (IF e \in proc.sent THEN 1 ELSE 0)
                        /\ row[e].res \in Limits => row[e].attempts = MaxAttempts
    BY <1>0 DEF Spent
  <2>3. \A e \in 1..n : row[e].attempts = tries'[e] + 0
    BY <2>1, <2>2, <1>1
  <2> QED BY <2>2, <2>3, <1>2 DEF Spent
<1>5. IInv'
  <2>1. comp' \in CompType /\ budget' \in BOOLEAN /\ faults' \in Nat /\ runs' \in Nat
    <3>1. comp \in CompType /\ budget \in BOOLEAN /\ faults \in Nat /\ runs \in Nat
      BY Basics
    <3> QED BY <3>1, <1>2
  <2>2. row' \in Rows(n)
    BY <1>0, <1>2
  <2> QED BY <1>1, <1>3, <1>4, <2>1, <2>2, Assemble
<1> QED
  BY <1>0, <1>2, <1>5 DEF Kept

(* The operator's commands and the call budget touch no row.               *)
LEMMA OthersKeep ==
  ASSUME IInv, Prepare \/ RunDry \/ NewDay \/ UNCHANGED vars
  PROVE  IInv' /\ Kept
<1>0. Len(row) \in Nat /\ comp \in CompType /\ faults \in Nat /\ runs \in Nat /\ budget \in BOOLEAN
  BY Basics
<1>1. UNCHANGED <<row, proc, tries>>
  BY DEF Prepare, RunDry, NewDay, vars
<1>2. comp' \in CompType
  <2>1. CASE Prepare
    <3>1. PICK lo \in 0..Len(row), hi \in 0..Len(row) :
            comp' = [comp EXCEPT !.status = "running", !.cursor = lo, !.max = hi]
      BY <2>1 DEF Prepare
    <3>2. lo \in Nat /\ hi \in Nat
      BY <1>0
    <3> QED BY <1>0, <3>1, <3>2 DEF CompType
  <2>2. CASE ~Prepare
    BY <1>0, <2>2 DEF RunDry, NewDay, vars
  <2> QED BY <2>1, <2>2
<1>3. budget' \in BOOLEAN /\ faults' \in Nat /\ runs' \in Nat
  <2>1. Prepare => UNCHANGED <<budget, faults>> /\ runs' = runs + 1
    BY DEF Prepare
  <2>2. RunDry => runs' = runs /\ faults' = faults + 1 /\ budget' = FALSE
    BY DEF RunDry
  <2>3. NewDay => UNCHANGED <<faults, runs>> /\ budget' = TRUE
    BY DEF NewDay
  <2>4. UNCHANGED vars => UNCHANGED <<budget, faults, runs>>
    BY DEF vars
  <2>5. CASE Prepare
    BY <1>0, <2>1, <2>5
  <2>6. CASE RunDry
    <3>1. budget' \in BOOLEAN /\ runs' \in Nat
      BY <1>0, <2>2, <2>6
    <3>2. faults' \in Nat
      BY <1>0, <2>2, <2>6
    <3> QED BY <3>1, <3>2
  <2>7. CASE NewDay
    BY <1>0, <2>3, <2>7
  <2>8. CASE UNCHANGED vars
    BY <1>0, <2>4, <2>8
  <2> QED BY <2>5, <2>6, <2>7, <2>8
<1>4. IInv'
  BY <1>1, <1>2, <1>3 DEF IInv, TypeOK, Waiting, Paid, Live
<1> QED
  BY <1>0, <1>1, <1>4 DEF Kept

-----------------------------------------------------------------------------
LEMMA InitKeeps ==
  ASSUME Init
  PROVE  IInv
<1>0. N \in Nat /\ MaxAttempts \in Nat
  BY BridgeAssumption
<1>1. /\ row = <<>> /\ proc = Idle("out") /\ comp = NoRun /\ budget = TRUE
      /\ tries = [e \in 1..N |-> 0] /\ faults = 0 /\ runs = 0
  BY DEF Init
<1>2. Len(row) = 0 /\ row \in [1..0 -> Row] /\ DOMAIN row = {}
  BY <1>1
<1>3. proc \in ProcType /\ proc.sent = {} /\ proc.found = {}
  BY <1>1, IdleIs DEF Places
<1>4. comp \in CompType
  <2> DEFINE z == 0
  <2>1. z \in Nat /\ comp = [status |-> "none", cursor |-> z, max |-> z, items |-> {}]
    BY <1>1 DEF NoRun
  <2> HIDE DEF z
  <2> QED BY <2>1 DEF CompType
<1>5. TypeOK
  <2>1. tries \in [1..N -> Nat]
    BY <1>1
  <2> QED BY <1>0, <1>1, <1>2, <1>3, <1>4, <2>1 DEF TypeOK
<1>6. row \in Rows(Len(row))
  BY <1>2 DEF Rows
<1>7. Waiting
  BY <1>3 DEF Waiting
<1>8. Paid
  BY <1>0, <1>1, <1>2 DEF Paid, Spent
<1> QED
  BY <1>5, <1>6, <1>7, <1>8 DEF IInv

(* What no step does to a row that has ended. *)
Ended == \A e \in Ids : row[e].processed =>
           \/ row'[e] = row[e]
           \/ /\ e \notin comp.items /\ e \in comp'.items /\ ~row[e].applied
              /\ row[e].res \in Limits \cup {"expired", "unmatched", "no_doc"}

LEMMA StepKeeps ==
  ASSUME IInv, [Next]_vars
  PROVE  IInv' /\ Ended
<1>1. CASE Enter
  BY <1>1, EnterKeeps DEF Ended
<1>2. ASSUME IInv' /\ Kept PROVE IInv' /\ Ended
  BY <1>2 DEF Kept, Ended
<1>3. CASE Sweep
  BY <1>2, <1>3, SweepKeeps
<1>4. CASE MainPass
  BY <1>2, <1>4, MainPassKeeps
<1>5. CASE Locate
  BY <1>2, <1>5, LocateKeeps
<1>6. CASE Answer
  BY <1>2, <1>6, AnswerKeeps
<1>7. CASE Refresh
  BY <1>2, <1>7, RefreshKeeps
<1>8. CASE Reread
  BY <1>2, <1>8, RereadKeeps
<1>9. CASE DeadLetters
  BY <1>2, <1>9, DeadLettersKeeps
<1>10. CASE Ingest
  BY <1>2, <1>10, IngestKeeps
<1>11. CASE Age
  BY <1>2, <1>11, AgeKeeps
<1>12. CASE Cool
  BY <1>2, <1>12, CoolKeeps
<1>13. CASE Crash
  BY <1>2, <1>13, CrashKeeps
<1>14. CASE Prepare \/ RunDry \/ NewDay \/ UNCHANGED vars
  BY <1>2, <1>14, OthersKeep
<1> QED
  BY <1>1, <1>3, <1>4, <1>5, <1>6, <1>7, <1>8, <1>9, <1>10, <1>11, <1>12, <1>13, <1>14
     DEF Next, Cycle

LEMMA Always == Spec => []IInv
<1>1. Init => IInv
  BY InitKeeps
<1>2. IInv /\ [Next]_vars => IInv'
  BY StepKeeps
<1> QED
  BY <1>1, <1>2, PTL DEF Spec

(* Every row, the cycle's memory and the compensation run keep their       *)
(* types: attempts never leave their range (_claim_attempts and its        *)
(* refund in audit_bridge.py), whatever is cut or refused.                 *)
THEOREM Types == Spec => []TypeOK
<1>1. IInv => TypeOK
  BY DEF IInv
<1> QED
  BY <1>1, Always, PTL

(* An attempt is a request that was answered or lost: what the budget      *)
(* refuses is refunded, what a crash cuts off is not, and a row given up   *)
(* for its attempts has made all of them.                                  *)
THEOREM AttemptsPaid == Spec => []AttemptsArePaid
<1>1. IInv => AttemptsArePaid
  <2> SUFFICES ASSUME IInv, NEW e \in Ids
               PROVE  /\ row[e].attempts = tries[e] + InFlight(e) /\ row[e].attempts <= MaxAttempts
                      /\ row[e].res \in Limits => tries[e] = MaxAttempts
    BY DEF AttemptsArePaid
  <2>1. /\ e \in 1..Len(row) /\ Spent(Len(row), row, tries, proc.sent) /\ Sound(row[e])
        /\ MaxAttempts \in Nat /\ e \in 1..N /\ tries[e] \in Nat
    <3>1. e \in 1..Len(row) /\ row \in Rows(Len(row)) /\ MaxAttempts \in Nat /\ N \in Nat
          /\ Len(row) \in Nat /\ Len(row) <= N
      BY Basics
    <3>2. e \in 1..N
      BY <3>1
    <3> QED BY <3>1, <3>2, Basics DEF Rows
  <2>2. row[e].attempts = tries[e] + InFlight(e)
    BY <2>1 DEF Spent, InFlight
  <2>3. row[e].attempts <= MaxAttempts
    BY <2>1, SoundIs
  <2>4. row[e].res \in Limits => tries[e] = MaxAttempts
    <3>1. row[e].res \in Limits => e \notin proc.sent
      BY SentIs
    <3> QED BY <3>1, <2>1 DEF Spent
  <2> QED BY <2>2, <2>3, <2>4
<1> QED
  BY <1>1, Always, PTL

(* No row ends as applied, through any of the ways that end one, but with  *)
(* its own metadata written: a sibling's node is never enough.             *)
THEOREM AppliedFresh == Spec => []AppliedIsFresh
<1>1. IInv => AppliedIsFresh
  BY Basics DEF Rows, Sound, AppliedIsFresh
<1> QED
  BY <1>1, Always, PTL

(* A row ends once: the sweeps, the passes and late answers leave an ended *)
(* row alone, and only a compensation that had not enrolled it reopens it, *)
(* if it was given up without metadata.                                    *)
THEOREM RowsEndOnce == Spec => EndsOnce
<1> DEFINE Step == \A e \in Ids : row[e].processed =>
       \/ row'[e].processed /\ row'[e].res = row[e].res
       \/ /\ e \notin comp.items /\ e \in comp'.items /\ ~row[e].applied
          /\ row[e].res \notin {"", "applied", "flipped", "superseded"}
<1>1. IInv /\ [Next]_vars => [Step]_vars
  <2>1. ASSUME IInv, [Next]_vars PROVE Step
    <3>1. Ended
      BY <2>1, StepKeeps
    <3>2. \A r \in Limits \cup {"expired", "unmatched", "no_doc"} :
            r \notin {"", "applied", "flipped", "superseded"}
      BY DEF Limits
    <3> QED BY <3>1, <3>2 DEF Ended
  <2> QED BY <2>1
<1> HIDE DEF Step
<1>2. Spec => [][Step]_vars
  BY <1>1, Always, PTL DEF Spec
<1> QED
  BY <1>2 DEF EndsOnce, Step
=============================================================================
