-------------------------- MODULE ProjectionProofs --------------------------
(***************************************************************************)
(* Proofs about the projection for every set of publishers, files,         *)
(* libraries and months, and for every number of changes and faults.       *)
(***************************************************************************)
EXTENDS Projection, FiniteSetTheorems, Induction

(* A database state is a record of these fields and no others, so that a   *)
(* transaction that writes some of them leaves the others as they are.     *)
Fields == {"doc", "review", "visible", "current", "dirty", "scopes", "fact", "counts", "cursor",
           "seeded", "parts"}
Row(d) == d = [f \in Fields |-> d[f]]
DbGood(d) == DbOK(d) /\ Row(d)
Reading == {"project", "seed", "publish"}
Base ==
  /\ TypeOK /\ Row(db)
  /\ proc = [p \in Publishers |->
               [pc |-> proc[p].pc, view |-> proc[p].view, versions |-> proc[p].versions]]
  /\ \A p \in Publishers : proc[p].pc \in Reading => DbGood(proc[p].view)

-----------------------------------------------------------------------------
(* Queues.                                                                 *)

LEMMA EnqueueIs ==
  ASSUME NEW K, NEW q, IsQueue(q, K), NEW keys \in SUBSET K
  PROVE  /\ IsQueue(Enqueue(q, keys), K) /\ DOMAIN Enqueue(q, keys) = DOMAIN q \cup keys
         /\ \A k \in DOMAIN q : Enqueue(q, keys)[k] = IF k \in keys THEN q[k] + 1 ELSE q[k]
BY DEF IsQueue, Enqueue

LEMMA ConsumeIs ==
  ASSUME NEW K, NEW q, IsQueue(q, K), NEW read
  PROVE  IsQueue(Consume(q, read), K)
BY DEF IsQueue, Consume

-----------------------------------------------------------------------------
(* Least, greatest and lowest elements of sets of node numbers.            *)

LEMMA NodesFinite ==
  ASSUME NEW S \in SUBSET Nodes
  PROVE  IsFiniteSet(S) /\ Cardinality(S) \in Nat /\ S \subseteq Nat
BY ConstantsAssumption, FS_Subset, FS_CardinalityType

LEMMA GreatestNode ==
  ASSUME NEW S \in SUBSET Nodes, S # {}
  PROVE  \E x \in S : \A y \in S : y <= x
<1> DEFINE Above(x) == {y \in S : y > x}
           Ranks == {Cardinality(Above(x)) : x \in S}
<1>1. \A x \in S : Above(x) \in SUBSET Nodes
  OBVIOUS
<1>2. Ranks \subseteq Nat /\ Ranks # {}
  BY <1>1, NodesFinite
<1>3. PICK x \in S : \A y \in S : Cardinality(Above(x)) <= Cardinality(Above(y))
  <2>1. PICK m \in Ranks : \A n \in Ranks : m <= n
    BY <1>2, LeastNat
  <2> QED BY <2>1
<1>4. ASSUME NEW y \in S, y > x PROVE FALSE
  <2>0. S \subseteq Nat
    BY NodesFinite
  <2>1. Above(y) \in SUBSET Above(x) /\ Above(y) # Above(x)
    <3>1. y \in Above(x) /\ y \notin Above(y)
      BY <1>4, <2>0
    <3>2. \A z \in Above(y) : z \in Above(x)
      BY <1>4, <2>0
    <3> QED BY <3>1, <3>2
  <2>2. IsFiniteSet(Above(x)) /\ Cardinality(Above(x)) \in Nat /\ Cardinality(Above(y)) \in Nat
    BY <1>1, NodesFinite
  <2> HIDE DEF Above
  <2>3. Cardinality(Above(y)) <= Cardinality(Above(x)) /\ Cardinality(Above(y)) # Cardinality(Above(x))
    BY <2>1, <2>2, FS_Subset
  <2> QED BY <1>3, <2>2, <2>3
<1> QED
  BY <1>4, NodesFinite

(* First(S, k) is closed downwards, and short of k only if it is all of S. *)
LEMMA FirstIs ==
  ASSUME NEW S \in SUBSET Nodes, NEW k \in Nat
  PROVE  /\ First(S, k) \in SUBSET S
         /\ \A x \in First(S, k), y \in S : y < x => y \in First(S, k)
         /\ S # {} /\ k # 0 => First(S, k) # {}
<1>1. First(S, k) \in SUBSET S
  BY DEF First
<1>2. ASSUME NEW x \in First(S, k), NEW y \in S, y < x PROVE y \in First(S, k)
  <2> DEFINE below(z) == {u \in S : u < z}
  <2>1. below(y) \in SUBSET below(x) /\ below(x) \in SUBSET Nodes /\ below(y) \in SUBSET Nodes
    BY <1>1, <1>2, NodesFinite
  <2> HIDE DEF below
  <2>2. Cardinality(below(y)) <= Cardinality(below(x)) /\ Cardinality(below(y)) \in Nat
        /\ Cardinality(below(x)) \in Nat
    BY <2>1, NodesFinite, FS_Subset
  <2>3. Cardinality(below(x)) < k
    BY DEF First, below
  <2>4. Cardinality(below(y)) < k
    BY <2>2, <2>3
  <2> QED BY <2>4 DEF First, below
<1>3. ASSUME S # {}, k # 0 PROVE First(S, k) # {}
  <2>1. PICK x \in S : \A y \in S : x <= y
    BY <1>3, NodesFinite, LeastNat
  <2>2. {y \in S : y < x} = {}
    BY <2>1, NodesFinite
  <2>3. Cardinality({y \in S : y < x}) < k
    BY <1>3, <2>2, FS_EmptySet
  <2> QED BY <2>3 DEF First
<1> QED
  BY <1>1, <1>2, <1>3

LEMMA FirstCounts ==
  ASSUME NEW S \in SUBSET Nodes, NEW k \in Nat
  PROVE  k <= Cardinality(S) => Cardinality(First(S, k)) = k
<1> DEFINE Good == {j \in Nat : j <= Cardinality(S) => Cardinality(First(S, j)) = j}
<1>1. 0 \in Good
  <2>1. First(S, 0) = {}
    <3>1. \A x \in S : Cardinality({y \in S : y < x}) \in Nat
      BY NodesFinite
    <3> QED BY <3>1 DEF First
  <2> QED BY <2>1, FS_EmptySet
<1>2. ASSUME NEW j \in Nat, j \in Good PROVE j + 1 \in Good
  <2> SUFFICES ASSUME j + 1 <= Cardinality(S) PROVE Cardinality(First(S, j + 1)) = j + 1
    OBVIOUS
  <2>1. Cardinality(S) \in Nat /\ S \subseteq Nat /\ IsFiniteSet(S)
    BY NodesFinite
  <2>2. Cardinality(First(S, j)) = j /\ First(S, j) \in SUBSET S /\ IsFiniteSet(First(S, j))
    <3>1. First(S, j) \in SUBSET S
      BY FirstIs
    <3>2. First(S, j) \in SUBSET Nodes
      BY <3>1
    <3>3. j <= Cardinality(S)
      BY <2>1
    <3> QED BY <1>2, <3>1, <3>2, <3>3, NodesFinite
  <2>3. S \ First(S, j) # {}
    <3> SUFFICES ASSUME S \ First(S, j) = {} PROVE FALSE
      OBVIOUS
    <3>1. S = First(S, j)
      BY <2>2
    <3> QED BY <2>1, <2>2, <3>1
  <2>4. PICK x \in S \ First(S, j) : \A y \in S \ First(S, j) : x <= y
    BY <2>1, <2>3, LeastNat
  <2>5. {y \in S : y < x} = First(S, j)
    <3>1. \A y \in S : y < x => y \in First(S, j)
      BY <2>1, <2>4
    <3>2. \A y \in First(S, j) : y < x
      <4> SUFFICES ASSUME NEW y \in First(S, j), ~(y < x) PROVE FALSE
        OBVIOUS
      <4>1. y \in S /\ y # x /\ y \in Nat /\ x \in Nat /\ x \in S
        BY <2>1, <2>2, <2>4
      <4>2. x < y
        BY <4>1
      <4> QED BY <2>4, <4>1, <4>2, FirstIs
    <3> QED BY <2>2, <3>1, <3>2
  <2>6. First(S, j + 1) = First(S, j) \cup {x}
    <3>1. x \in First(S, j + 1)
      <4>1. Cardinality({y \in S : y < x}) < j + 1
        BY <2>2, <2>5
      <4> QED BY <2>4, <4>1 DEF First
    <3>2. \A y \in First(S, j) : y \in First(S, j + 1)
      <4>1. \A y \in S : Cardinality({z \in S : z < y}) \in Nat
        BY NodesFinite
      <4> QED BY <4>1 DEF First
    <3>3. ASSUME NEW y \in First(S, j + 1), y \notin First(S, j), y # x PROVE FALSE
      <4>1. y \in S /\ x < y
        BY <2>1, <2>4, <3>3 DEF First
      <4> DEFINE B == {z \in S : z < y}
      <4>2. First(S, j) \cup {x} \in SUBSET B
        <5>1. \A z \in First(S, j) : z \in S /\ z < x
          BY <2>5
        <5>2. \A z \in First(S, j) : z \in B
          BY <2>1, <2>4, <4>1, <5>1
        <5>3. x \in B
          BY <2>4, <4>1
        <5> QED BY <5>2, <5>3
      <4>3. IsFiniteSet(B) /\ Cardinality(B) \in Nat /\ Cardinality(B) < j + 1
        <5>1. B \in SUBSET Nodes
          OBVIOUS
        <5> QED BY <5>1, NodesFinite DEF First
      <4> HIDE DEF B
      <4>4. Cardinality(First(S, j) \cup {x}) = j + 1
        <5>1. x \notin First(S, j)
          BY <2>4
        <5> QED BY <2>2, <5>1, FS_AddElement
      <4>5. Cardinality(First(S, j) \cup {x}) <= Cardinality(B)
        BY <4>2, <4>3, FS_Subset
      <4> QED BY <4>3, <4>4, <4>5
    <3>4. First(S, j + 1) \in SUBSET S
      BY FirstIs
    <3> QED BY <3>1, <3>2, <3>3, <3>4
  <2> QED
    BY SMTT(20), ZenonT(30), <2>2, <2>4, <2>6, FS_AddElement
<1> HIDE DEF Good
<1>3. k \in Good
  BY <1>1, <1>2, Induct
<1> QED
  BY <1>3 DEF Good

-----------------------------------------------------------------------------
(* Transactions make database states of database states.                   *)

LEMMA ProjectedIs ==
  ASSUME NEW v, DbOK(v), NEW n \in Nodes
  PROVE  Projected(v, n) \in Fact
BY ValuesAssumption DEF DbOK, Projected, Fact, Value

LEMMA TouchedIs ==
  ASSUME NEW f \in Fact
  PROVE  Touched(f) \in SUBSET ScopeKeys
BY DEF Fact, Touched, ScopeKeys

(* What a transaction that read v makes of the facts and counters of the   *)
(* nodes ids.                                                              *)
Moving(v, ids) == Changed(v, ProjectionRows(v, ids))
NewFact(d, v, ids) == [n \in Nodes |-> IF n \in Moving(v, ids) THEN Projected(v, n) ELSE d.fact[n]]
NewKeys(v, ids) == UNION {Touched(v.fact[n]) \cup Touched(Projected(v, n)) : n \in Moving(v, ids)}

LEMMA ApplyIs ==
  ASSUME NEW d, NEW v, DbGood(d), DbGood(v), NEW ids \in SUBSET Nodes,
         ~Negative(d, v, ProjectionRows(v, ids))
  PROVE  LET e == ApplyProjections(d, v, ProjectionRows(v, ids))
         IN  /\ DbGood(e)
             /\ e.doc = d.doc /\ e.review = d.review /\ e.visible = d.visible /\ e.current = d.current
             /\ e.dirty = d.dirty /\ e.cursor = d.cursor /\ e.seeded = d.seeded /\ e.parts = d.parts
             /\ e.counts = Moved(d, v, ProjectionRows(v, ids))
             /\ e.fact = NewFact(d, v, ids) /\ e.scopes = Enqueue(d.scopes, NewKeys(v, ids))
<1> DEFINE new == ProjectionRows(v, ids)
           C == Changed(v, new)
           fact == NewFact(d, v, ids)
           keys == NewKeys(v, ids)
           e == ApplyProjections(d, v, new)
<1>1. C \in SUBSET Nodes /\ \A n \in C : n \in ids /\ new[n] = Projected(v, n)
  BY DEF Changed, ProjectionRows
<1>0. C = Moving(v, ids)
  BY DEF Moving
<1>2. DbOK(d) /\ DbOK(v) /\ Row(d)
  BY DEF DbGood
<1>3. fact \in [Nodes -> Fact]
  BY <1>0, <1>1, <1>2, ProjectedIs DEF DbOK, NewFact
<1>4. keys \in SUBSET ScopeKeys
  BY <1>0, <1>1, <1>2, ProjectedIs, TouchedIs DEF DbOK, NewKeys
<1>5. Moved(d, v, new) \in [Buckets -> Nat]
  <2>1. \A b \in Buckets : Moved(d, v, new)[b] \in Int
    <3> SUFFICES ASSUME NEW b \in Buckets PROVE Moved(d, v, new)[b] \in Int
      OBVIOUS
    <3>1. Cardinality({n \in C : b \in Counted(new[n])}) \in Nat
      BY <1>1, NodesFinite
    <3>2. Cardinality({n \in C : b \in Counted(v.fact[n])}) \in Nat
      BY <1>1, NodesFinite
    <3>3. d.counts[b] \in Nat
      BY <1>2 DEF DbOK
    <3> HIDE DEF C
    <3>4. Moved(d, v, new)[b] = d.counts[b] + Cardinality({n \in C : b \in Counted(new[n])})
                                           - Cardinality({n \in C : b \in Counted(v.fact[n])})
      BY DEF Moved, C
    <3> QED BY <3>1, <3>2, <3>3, <3>4
  <2>2. \A b \in Buckets : ~(Moved(d, v, new)[b] < 0)
    BY DEF Negative
  <2>3. \A b \in Buckets : Moved(d, v, new)[b] \in Nat
    BY <2>1, <2>2
  <2>4. Moved(d, v, new) = [b \in Buckets |-> Moved(d, v, new)[b]]
    BY DEF Moved
  <2> HIDE DEF new
  <2> QED BY <2>3, <2>4
<1>6. e = [d EXCEPT !.fact = fact, !.counts = Moved(d, v, new), !.scopes = Enqueue(d.scopes, keys)]
  <2>1. e = [d EXCEPT !.fact = [n \in Nodes |-> IF n \in C THEN new[n] ELSE d.fact[n]],
                      !.counts = Moved(d, v, new),
                      !.scopes = Enqueue(d.scopes, UNION {Touched(v.fact[n]) \cup Touched(new[n]) : n \in C})]
    BY DEF ApplyProjections
  <2>2. [n \in Nodes |-> IF n \in C THEN new[n] ELSE d.fact[n]] = fact
    BY <1>0, <1>1 DEF NewFact
  <2>3. UNION {Touched(v.fact[n]) \cup Touched(new[n]) : n \in C} = keys
    BY <1>0, <1>1 DEF NewKeys
  <2> QED BY <2>1, <2>2, <2>3
<1> HIDE DEF fact, keys, e, C
<1>7. /\ Row(e) /\ e.fact = fact /\ e.counts = Moved(d, v, new) /\ e.scopes = Enqueue(d.scopes, keys)
      /\ e.doc = d.doc /\ e.review = d.review /\ e.visible = d.visible /\ e.current = d.current
      /\ e.dirty = d.dirty /\ e.cursor = d.cursor /\ e.seeded = d.seeded /\ e.parts = d.parts
  <2> HIDE DEF new
  <2> QED BY <1>2, <1>6 DEF Row, Fields
<1>8. IsQueue(e.scopes, ScopeKeys)
  <2>1. IsQueue(d.scopes, ScopeKeys)
    BY <1>2 DEF DbOK
  <2>2. IsQueue(Enqueue(d.scopes, keys), ScopeKeys)
    BY <1>4, <2>1, EnqueueIs
  <2>3. e.scopes = Enqueue(d.scopes, keys)
    BY <1>7
  <2> QED BY <2>2, <2>3
<1>9. DbGood(e)
  <2> HIDE DEF new
  <2> QED BY <1>2, <1>3, <1>5, <1>7, <1>8 DEF DbGood, DbOK
<1> QED
  BY <1>7, <1>9 DEF fact, keys, e, C

LEMMA ProjectDirtyIs ==
  ASSUME NEW d, NEW v, DbGood(d), DbGood(v), NEW batch \in SUBSET Nodes,
         ~Negative(d, v, ProjectionRows(v, batch))
  PROVE  LET e == ProjectDirty(d, v, batch)
             a == ApplyProjections(d, v, ProjectionRows(v, batch))
         IN  /\ DbGood(e)
             /\ e.doc = d.doc /\ e.review = d.review /\ e.visible = d.visible /\ e.current = d.current
             /\ e.cursor = d.cursor /\ e.seeded = d.seeded /\ e.parts = d.parts
             /\ e.dirty = Consume(d.dirty, Only(v.dirty, batch))
             /\ e.fact = a.fact /\ e.counts = a.counts /\ e.scopes = a.scopes
<1> DEFINE e == ProjectDirty(d, v, batch)
           a == ApplyProjections(d, v, ProjectionRows(v, batch))
<1>1. /\ DbGood(a) /\ a.dirty = d.dirty
      /\ a.doc = d.doc /\ a.review = d.review /\ a.visible = d.visible /\ a.current = d.current
      /\ a.cursor = d.cursor /\ a.seeded = d.seeded /\ a.parts = d.parts
  BY ApplyIs
<1>2. e = [a EXCEPT !.dirty = Consume(a.dirty, Only(v.dirty, batch))]
  BY DEF ProjectDirty
<1> HIDE DEF e, a
<1>3. Row(a) /\ DbOK(a)
  BY <1>1 DEF DbGood
<1>4. /\ Row(e) /\ e.dirty = Consume(d.dirty, Only(v.dirty, batch))
      /\ e.doc = d.doc /\ e.review = d.review /\ e.visible = d.visible /\ e.current = d.current
      /\ e.cursor = d.cursor /\ e.seeded = d.seeded /\ e.parts = d.parts
      /\ e.fact = a.fact /\ e.counts = a.counts /\ e.scopes = a.scopes
  BY <1>1, <1>2, <1>3 DEF Row, Fields
<1>5. IsQueue(e.dirty, Nodes)
  BY <1>1, <1>3, <1>4, ConsumeIs DEF DbOK
<1>6. DbGood(e)
  BY <1>1, <1>3, <1>4, <1>5 DEF DbGood, DbOK
<1> QED
  BY <1>4, <1>6 DEF e, a

LEMMA SeedIdsIs ==
  ASSUME NEW v
  PROVE  SeedIds(v) \in SUBSET {n \in Nodes : n > v.cursor}
<1> DEFINE A == {n \in Nodes : n > v.cursor /\ Baseline[n] # None}
           C == {n \in Nodes : n > v.cursor /\ v.doc[n] # None}
<1>1. First(A, Limit) \in SUBSET A /\ First(C, Limit) \in SUBSET C
  BY DEF First
<1>2. SeedIds(v) \in SUBSET (First(A, Limit) \cup First(C, Limit))
  BY DEF SeedIds, First
<1> QED BY <1>1, <1>2

LEMMA SeedSliceIs ==
  ASSUME NEW d, NEW v, DbGood(d), DbGood(v)
  PROVE  DbGood(SeedSlice(d, v))
<1> DEFINE ids == SeedIds(v)
           new == ProjectionRows(v, ids)
<1>1. ids \in SUBSET Nodes
  BY SeedIdsIs
<1> HIDE DEF ids
<1>2. CASE v.seeded \/ Negative(d, v, new)
  BY <1>2 DEF SeedSlice, ids
<1>3. CASE ~(v.seeded \/ Negative(d, v, new)) /\ ids = {}
  <2> DEFINE scopes == Enqueue(d.scopes, {<<"all", 0>>})
             e == [d EXCEPT !.seeded = TRUE, !.scopes = scopes]
  <2>1. SeedSlice(d, v) = e
    BY <1>3 DEF SeedSlice, ids
  <2>2. IsQueue(scopes, ScopeKeys)
    <3>1. {<<"all", 0>>} \in SUBSET ScopeKeys
      BY DEF ScopeKeys
    <3>2. IsQueue(d.scopes, ScopeKeys)
      BY DEF DbGood, DbOK
    <3> QED BY <3>1, <3>2, EnqueueIs
  <2> HIDE DEF scopes, e
  <2>3. /\ Row(e) /\ e.seeded = TRUE /\ e.scopes = scopes
        /\ e.doc = d.doc /\ e.review = d.review /\ e.visible = d.visible /\ e.current = d.current
        /\ e.dirty = d.dirty /\ e.fact = d.fact /\ e.counts = d.counts
        /\ e.cursor = d.cursor /\ e.parts = d.parts
    BY DEF DbGood, Row, Fields, e
  <2> QED BY <2>1, <2>2, <2>3 DEF DbGood, DbOK
<1>4. CASE ~(v.seeded \/ Negative(d, v, new)) /\ ids # {}
  <2> DEFINE a == ApplyProjections(d, v, new)
             c == CHOOSE n \in ids : \A m \in ids : m <= n
             e == [a EXCEPT !.cursor = c]
  <2>1. SeedSlice(d, v) = e
    BY <1>4 DEF SeedSlice, ids
  <2>2. c \in Nodes
    BY <1>1, <1>4, GreatestNode
  <2>3. DbGood(a)
    BY <1>1, <1>4, ApplyIs
  <2> HIDE DEF a, c, e
  <2>4. /\ Row(e) /\ e.cursor = c
        /\ e.doc = a.doc /\ e.review = a.review /\ e.visible = a.visible /\ e.current = a.current
        /\ e.dirty = a.dirty /\ e.scopes = a.scopes /\ e.fact = a.fact /\ e.counts = a.counts
        /\ e.seeded = a.seeded /\ e.parts = a.parts
    BY <2>3 DEF DbGood, Row, Fields, e
  <2> QED BY <2>1, <2>2, <2>3, <2>4 DEF DbGood, DbOK
<1> QED BY <1>2, <1>3, <1>4

LEMMA SelectedIs ==
  ASSUME NEW v, DbOK(v)
  PROVE  /\ Headers(v, "month") \in SUBSET Months /\ Headers(v, "workspace") \in SUBSET Spaces
         /\ Selected(v) \in SUBSET Months /\ DirtyMonths(v) \in SUBSET Selected(v)
         /\ DirtySpaces(v) \in SUBSET v.visible
<1>1. Headers(v, "month") \in SUBSET Months /\ Headers(v, "workspace") \in SUBSET Spaces
  <2>1. \A k \in DOMAIN v.parts : k \in PartKeys
    BY DEF DbOK
  <2>2. \A k \in PartKeys : (k[1] = "month" => k[2] \in Months) /\ (k[1] = "workspace" => k[2] \in Spaces)
    BY DEF PartKeys
  <2> QED BY <2>1, <2>2 DEF Headers
<1>2. AvailableMonths(v) \in SUBSET Months
  BY DEF AvailableMonths, Highest, MonthsOf
<1> QED
  BY <1>1, <1>2 DEF Selected, DirtyMonths, DirtySpaces

LEMMA NewPartsIs ==
  ASSUME NEW v, DbOK(v)
  PROVE  DOMAIN NewParts(v) = ((IF SummaryDue(v) THEN {"meta", "summary"} ELSE {"meta"}) \X {0})
                                \cup ({"month"} \X DirtyMonths(v)) \cup ({"workspace"} \X DirtySpaces(v))
BY DEF NewParts, Over, Written

LEMMA PublishIs ==
  ASSUME NEW d, NEW v, DbGood(d), DbGood(v), NEW versions
  PROVE  DbGood(PublishPartitions(d, v, versions))
<1> DEFINE parts == Without(Over(NewParts(v), d.parts), Removed(v))
           scopes == Consume(d.scopes, v.scopes)
           e == [d EXCEPT !.parts = parts, !.scopes = scopes]
<1>1. PublishPartitions(d, v, versions) = d \/ PublishPartitions(d, v, versions) = e
  BY DEF PublishPartitions
<1>2. DOMAIN parts \subseteq PartKeys
  <2>1. DOMAIN NewParts(v) \subseteq PartKeys
    <3>1. v.visible \subseteq Spaces /\ DbOK(v)
      BY DEF DbGood, DbOK
    <3>2. DirtyMonths(v) \subseteq Months /\ DirtySpaces(v) \subseteq Spaces
      BY <3>1, SelectedIs
    <3>3. {"meta", "summary"} \X {0} \subseteq PartKeys /\ {"meta"} \X {0} \subseteq PartKeys
          /\ {"month"} \X DirtyMonths(v) \subseteq PartKeys /\ {"workspace"} \X DirtySpaces(v) \subseteq PartKeys
      BY <3>2 DEF PartKeys
    <3> QED BY <3>1, <3>3, NewPartsIs
  <2> QED BY <2>1 DEF Without, Over, DbGood, DbOK
<1>3. IsQueue(scopes, ScopeKeys)
  BY ConsumeIs DEF DbGood, DbOK
<1> HIDE DEF parts, scopes, e
<1>4. /\ Row(e) /\ e.parts = parts /\ e.scopes = scopes
      /\ e.doc = d.doc /\ e.review = d.review /\ e.visible = d.visible /\ e.current = d.current
      /\ e.dirty = d.dirty /\ e.fact = d.fact /\ e.counts = d.counts
      /\ e.cursor = d.cursor /\ e.seeded = d.seeded
  BY DEF DbGood, Row, Fields, e
<1>5. DbGood(e)
  BY <1>2, <1>3, <1>4 DEF DbGood, DbOK
<1> QED BY <1>1, <1>5

-----------------------------------------------------------------------------
(* Types.                                                                  *)

LEMMA BaseInit == Init => Base
<1> SUFFICES ASSUME Init PROVE Base
  OBVIOUS
<1>1. PICK doc \in [Nodes -> Values \cup {None}], visible \in SUBSET Spaces :
       db = [doc |-> doc, review |-> [n \in Nodes |-> None], visible |-> visible,
             current |-> CHOOSE m \in Months : \A k \in Months : m <= k,
             dirty |-> <<>>, scopes |-> <<>>, fact |-> [n \in Nodes |-> None],
             counts |-> [b \in Buckets |-> 0], cursor |-> -1, seeded |-> FALSE, parts |-> <<>>]
  BY DEF Init
<1>2. db.current \in Months
  <2>1. \E m \in Months : \A k \in Months : m <= k
    BY ConstantsAssumption, ValuesAssumption, LeastNat
  <2>2. db.current = CHOOSE m \in Months : \A k \in Months : m <= k
    BY <1>1
  <2> QED BY <2>1, <2>2
<1> DEFINE current == CHOOSE m \in Months : \A k \in Months : m <= k
<1>21. db = [doc |-> doc, review |-> [n \in Nodes |-> None], visible |-> visible, current |-> current,
             dirty |-> <<>>, scopes |-> <<>>, fact |-> [n \in Nodes |-> None],
             counts |-> [b \in Buckets |-> 0], cursor |-> -1, seeded |-> FALSE, parts |-> <<>>]
  BY <1>1
<1> HIDE DEF current
<1>3. Row(db)
  BY <1>21 DEF Row, Fields
<1>4. /\ db.doc \in [Nodes -> Values \cup {None, Folder, Deleted}]
      /\ db.review \in [Nodes -> Months \cup {None}] /\ db.visible \subseteq Spaces
      /\ db.fact \in [Nodes -> Fact] /\ db.counts \in [Buckets -> Nat]
      /\ db.cursor \in Nodes \cup {-1} /\ db.seeded \in BOOLEAN
  BY <1>1 DEF Fact
<1>5. db.dirty = <<>> /\ db.scopes = <<>> /\ db.parts = <<>>
  BY <1>1
<1>6. DbOK(db)
  BY <1>2, <1>4, <1>5 DEF DbOK, IsQueue
<1>7. /\ proc = [p \in Publishers |-> [pc |-> "out", view |-> None, versions |-> {}]]
      /\ lock = None /\ edits = 0 /\ faults = 0 /\ ops = 0
  BY DEF Init, Idle
<1> QED
  BY <1>3, <1>6, <1>7 DEF Base, TypeOK, Reading

LEMMA BaseProcess ==
  ASSUME Base, NEW p \in Publishers, DbGood(db'), lock' \in Publishers \cup {None},
         edits' \in Nat, faults' \in Nat, ops' \in Nat,
         \/ \E pc \in {"out", "in", "turn", "done"} : Goto(p, pc)
         \/ \E pc \in Reading : Begin(p, pc) 
         \/ \E s \in SUBSET Months : proc' = [proc EXCEPT ![p] = [Idle("identity") EXCEPT !.versions = s]]
  PROVE  Base'
<1>1. DbGood(db) /\ TypeOK
  BY DEF Base, TypeOK, DbGood
<1>0. proc = [q \in Publishers |-> [pc |-> proc[q].pc, view |-> proc[q].view, versions |-> proc[q].versions]]
  BY DEF Base
<1>2. /\ \A q \in Publishers \ {p} : proc'[q] = proc[q]
      /\ proc' = [q \in Publishers |->
                    [pc |-> proc'[q].pc, view |-> proc'[q].view, versions |-> proc'[q].versions]]
      /\ proc'[p].versions \subseteq Months
      /\ \/ proc'[p].pc \in Reading /\ proc'[p].view = db
         \/ proc'[p].pc \in {"out", "in", "turn", "done", "identity"} /\ proc'[p].view = None
  <2>1. proc[p].versions \subseteq Months
    BY <1>1 DEF TypeOK
  <2>2. CASE \E pc \in {"out", "in", "turn", "done"} : Goto(p, pc)
    <3>1. PICK pc \in {"out", "in", "turn", "done"} : proc' = [proc EXCEPT ![p] = Idle(pc)]
      BY <2>2 DEF Goto
    <3>2. proc'[p] = [pc |-> pc, view |-> None, versions |-> {}]
      BY <1>0, <3>1 DEF Idle
    <3>3. proc'[p].pc = pc /\ proc'[p].view = None /\ proc'[p].versions = {}
      BY <3>2
    <3>4. /\ \A q \in Publishers \ {p} : proc'[q] = proc[q]
          /\ proc' = [q \in Publishers |->
                        [pc |-> proc'[q].pc, view |-> proc'[q].view, versions |-> proc'[q].versions]]
      BY <1>0, <3>1 DEF Idle
    <3> QED BY <3>3, <3>4
  <2>3. CASE \E pc \in Reading : Begin(p, pc)
    <3>1. PICK pc \in Reading : proc' = [proc EXCEPT ![p].pc = pc, ![p].view = db]
      BY <2>3 DEF Begin
    <3>0. proc[p] = [pc |-> proc[p].pc, view |-> proc[p].view, versions |-> proc[p].versions]
      BY <1>0
    <3>11. /\ proc'[p] = [proc[p] EXCEPT !.pc = pc, !.view = db] /\ DOMAIN proc' = Publishers
           /\ \A q \in Publishers \ {p} : proc'[q] = proc[q]
      BY <1>0, <3>1
    <3>12. proc'[p] = [pc |-> pc, view |-> db, versions |-> proc[p].versions]
      BY <3>0, <3>11
    <3>2. /\ proc'[p].pc = pc /\ proc'[p].view = db /\ proc'[p].versions = proc[p].versions
          /\ \A q \in Publishers \ {p} : proc'[q] = proc[q]
      BY <3>11, <3>12
    <3>3. proc' = [q \in Publishers |->
                     [pc |-> proc'[q].pc, view |-> proc'[q].view, versions |-> proc'[q].versions]]
      <4>1. \A q \in Publishers : proc'[q] = [pc |-> proc'[q].pc, view |-> proc'[q].view,
                                              versions |-> proc'[q].versions]
        <5>1. \A q \in Publishers \ {p} : proc'[q] = [pc |-> proc'[q].pc, view |-> proc'[q].view,
                                                      versions |-> proc'[q].versions]
          BY <1>0, <3>11
        <5>2. proc'[p] = [pc |-> proc'[p].pc, view |-> proc'[p].view, versions |-> proc'[p].versions]
          BY <3>12
        <5> QED BY <5>1, <5>2
      <4>2. proc' = [q \in Publishers |-> proc'[q]]
        BY <1>0, <3>1
      <4> QED BY <4>1, <4>2
    <3> QED BY <2>1, <3>2, <3>3
  <2>4. CASE \E s \in SUBSET Months : proc' = [proc EXCEPT ![p] = [Idle("identity") EXCEPT !.versions = s]]
    <3>1. PICK s \in SUBSET Months : proc' = [proc EXCEPT ![p] = [Idle("identity") EXCEPT !.versions = s]]
      BY <2>4
    <3>2. proc'[p] = [pc |-> "identity", view |-> None, versions |-> s]
      BY <1>0, <3>1 DEF Idle
    <3>3. proc'[p].pc = "identity" /\ proc'[p].view = None /\ proc'[p].versions = s
      BY <3>2
    <3>4. /\ \A q \in Publishers \ {p} : proc'[q] = proc[q]
          /\ proc' = [q \in Publishers |->
                        [pc |-> proc'[q].pc, view |-> proc'[q].view, versions |-> proc'[q].versions]]
      BY <1>0, <3>1 DEF Idle
    <3> QED BY <3>3, <3>4
  <2> QED BY <2>2, <2>3, <2>4
<1>3. \A q \in Publishers :
        /\ proc'[q].pc \in {"out", "in", "project", "seed", "turn", "identity", "publish", "done"}
        /\ proc'[q].versions \subseteq Months
        /\ proc'[q].view # None => DbOK(proc'[q].view)
        /\ proc'[q].pc \in Reading => DbGood(proc'[q].view)
  <2> SUFFICES ASSUME NEW q \in Publishers
               PROVE  /\ proc'[q].pc \in {"out", "in", "project", "seed", "turn", "identity", "publish", "done"}
                      /\ proc'[q].versions \subseteq Months
                      /\ proc'[q].view # None => DbOK(proc'[q].view)
                      /\ proc'[q].pc \in Reading => DbGood(proc'[q].view)
    OBVIOUS
  <2>1. CASE q = p
    BY <1>1, <1>2, <2>1 DEF Reading, DbGood
  <2>2. CASE q # p
    BY <1>1, <1>2, <2>2 DEF TypeOK, Base
  <2> QED BY <2>1, <2>2
<1>4. DbOK(db')
  BY DEF DbGood
<1>5. TypeOK'
  BY <1>3, <1>4 DEF TypeOK
<1> QED
  BY <1>2, <1>3, <1>5 DEF Base, DbGood

(* Every step of a publisher makes a database state.                       *)
LEMMA DbSteps ==
  ASSUME Base, NEW p \in Publishers,
         \/ Project(p) \/ Seed(p) \/ Rebuild(p) \/ Publish(p)
  PROVE  DbGood(db')
<1>1. DbGood(db)
  BY DEF Base, TypeOK, DbGood
<1>2. CASE Project(p)
  <2> DEFINE v == proc[p].view
  <2>1. DbGood(v)
    BY <1>2 DEF Project, At, Base, Reading
  <2>2. PICK batch \in Batches(v) :
          db' = IF ~v.seeded \/ Negative(db, v, ProjectionRows(v, batch))
                THEN db ELSE ProjectDirty(db, v, batch)
    BY <1>2 DEF Project
  <2>3. batch \in SUBSET Nodes
    BY <2>1 DEF Batches, DbGood, DbOK, IsQueue
  <2> HIDE DEF v
  <2> QED BY <1>1, <2>1, <2>2, <2>3, ProjectDirtyIs
<1>3. CASE Seed(p)
  <2>1. DbGood(proc[p].view)
    BY <1>3 DEF Seed, At, Base, Reading
  <2> QED BY <1>1, <1>3, <2>1, SeedSliceIs DEF Seed
<1>4. CASE Publish(p)
  <2>1. DbGood(proc[p].view)
    BY <1>4 DEF Publish, At, Base, Reading
  <2> QED BY <1>1, <1>4, <2>1, PublishIs DEF Publish
<1>5. CASE Rebuild(p)
  <2> DEFINE scopes == Enqueue(db.scopes, {<<"all", 0>>})
  <2>1. IsQueue(db.scopes, ScopeKeys) /\ {<<"all", 0>>} \in SUBSET ScopeKeys
    <3>1. {<<"all", 0>>} \in SUBSET ScopeKeys
      BY DEF ScopeKeys
    <3> QED BY <1>1, <3>1 DEF DbGood, DbOK
  <2>2. IsQueue(scopes, ScopeKeys)
    BY <2>1 DEF IsQueue, Enqueue
  <2>3. db' = [db EXCEPT !.scopes = scopes]
    BY <1>5 DEF Rebuild
  <2> HIDE DEF scopes
  <2>4. Row(db') /\ db'.scopes = scopes /\ \A f \in Fields \ {"scopes"} : db'[f] = db[f]
    BY <1>1, <2>3 DEF DbGood, Row, Fields
  <2> QED BY <1>1, <2>2, <2>4 DEF DbGood, DbOK, Fields
<1> QED BY <1>2, <1>3, <1>4, <1>5

(* What collectors change: each keeps the facts, the counters, the seed    *)
(* and the partitions, and queues the node or the library it touches.      *)
Collected(d, e) ==
  /\ \A f \in {"fact", "counts", "cursor", "seeded", "parts"} : e[f] = d[f]
  /\ \A n \in Nodes : e.doc[n] # d.doc[n] \/ e.review[n] # d.review[n] =>
       n \in DOMAIN e.dirty /\ (n \in DOMAIN d.dirty => e.dirty[n] > d.dirty[n])
  /\ \A n \in DOMAIN d.dirty : n \in DOMAIN e.dirty /\ e.dirty[n] >= d.dirty[n]
  /\ \A w \in Spaces : (w \in e.visible) # (w \in d.visible) =>
       <<"registry", w>> \in DOMAIN e.scopes
       /\ (<<"registry", w>> \in DOMAIN d.scopes => e.scopes[<<"registry", w>>] > d.scopes[<<"registry", w>>])
  /\ \A k \in DOMAIN d.scopes : k \in DOMAIN e.scopes /\ e.scopes[k] >= d.scopes[k]
Collector == EditDocument \/ AddReview \/ EditWorkspace \/ NewDirectory \/ NewMonth

LEMMA EnqueueGrows ==
  ASSUME NEW K, NEW q, IsQueue(q, K), NEW k \in K, NEW r, r = Enqueue(q, {k})
  PROVE  /\ k \in DOMAIN r /\ (k \in DOMAIN q => r[k] > q[k])
         /\ \A j \in DOMAIN q : j \in DOMAIN r /\ r[j] >= q[j]
<1>1. /\ DOMAIN r = DOMAIN q \cup {k}
      /\ \A j \in DOMAIN q : q[j] \in Nat /\ r[j] = IF j = k THEN q[j] + 1 ELSE q[j]
  BY DEF IsQueue, Enqueue
<1>2. ASSUME NEW j \in DOMAIN q PROVE r[j] >= q[j] /\ (j = k => r[j] > q[j])
  <2>1. q[j] \in Nat /\ r[j] = IF j = k THEN q[j] + 1 ELSE q[j]
    BY <1>1
  <2> QED BY <2>1
<1> QED BY <1>1, <1>2

LEMMA HookIs ==
  ASSUME NEW d, DbGood(d), NEW n \in Nodes,
         NEW e, Row(e), e.dirty = Enqueue(d.dirty, {n}),
         e.doc \in [Nodes -> Values \cup {None, Folder, Deleted}], e.review \in [Nodes -> Months \cup {None}],
         \A f \in Fields \ {"doc", "review", "dirty"} : e[f] = d[f],
         \A m \in Nodes \ {n} : e.doc[m] = d.doc[m] /\ e.review[m] = d.review[m]
  PROVE  DbGood(e) /\ Collected(d, e)
<1>2. IsQueue(d.dirty, Nodes) /\ IsQueue(d.scopes, ScopeKeys)
  BY DEF DbGood, DbOK
<1>3. /\ IsQueue(e.dirty, Nodes) /\ DOMAIN e.dirty = DOMAIN d.dirty \cup {n}
      /\ \A k \in DOMAIN d.dirty : e.dirty[k] = IF k = n THEN d.dirty[k] + 1 ELSE d.dirty[k]
  BY <1>2 DEF IsQueue, Enqueue
<1>4. DbGood(e)
  BY <1>3 DEF DbGood, DbOK, Fields
<1>5. \A k \in DOMAIN d.dirty : d.dirty[k] \in Nat
  BY <1>2 DEF IsQueue
<1>6. \A k \in DOMAIN d.scopes : d.scopes[k] \in Nat
  BY <1>2 DEF IsQueue
<1> QED
  <2>1. \A m \in Nodes : e.doc[m] # d.doc[m] \/ e.review[m] # d.review[m] => m = n
    OBVIOUS
  <2>2. n \in DOMAIN e.dirty /\ (n \in DOMAIN d.dirty => e.dirty[n] > d.dirty[n])
        /\ \A k \in DOMAIN d.dirty : k \in DOMAIN e.dirty /\ e.dirty[k] >= d.dirty[k]
    BY <1>2, EnqueueGrows
  <2>4. \A k \in DOMAIN d.scopes : k \in DOMAIN e.scopes /\ e.scopes[k] >= d.scopes[k]
    BY <1>6 DEF Fields
  <2>5. \A f \in {"fact", "counts", "cursor", "seeded", "parts"} : e[f] = d[f]
    BY DEF Fields
  <2>6. e.visible = d.visible
    BY DEF Fields
  <2> QED
    BY <1>4, <2>1, <2>2, <2>4, <2>5, <2>6 DEF Collected

LEMMA CollectorIs ==
  ASSUME Base, Collector
  PROVE  DbGood(db') /\ Collected(db, db') /\ UNCHANGED <<lock, proc, faults, ops>> /\ edits' \in Nat
<1>1. DbGood(db)
  BY DEF Base, TypeOK, DbGood
<1>2. UNCHANGED <<lock, proc, faults, ops>> /\ edits' \in Nat
  <2>1. Edit
    BY DEF Collector, EditDocument, AddReview, EditWorkspace, NewDirectory, NewMonth
  <2>2. edits \in Nat
    BY DEF Base, TypeOK
  <2> QED BY <2>1, <2>2 DEF Edit
<1>3. /\ db.doc \in [Nodes -> Values \cup {None, Folder, Deleted}]
      /\ db.review \in [Nodes -> Months \cup {None}] /\ db.current \in Months
      /\ IsQueue(db.dirty, Nodes) /\ IsQueue(db.scopes, ScopeKeys) /\ Row(db)
  BY <1>1 DEF DbGood, DbOK
<1>4. ASSUME EditDocument PROVE DbGood(db') /\ Collected(db, db')
  <2>1. PICK n \in Nodes, value \in Values \cup {Folder, Deleted} :
          db' = Hook([db EXCEPT !.doc[n] = value], n)
    BY <1>4 DEF EditDocument
  <2> DEFINE doc == [db.doc EXCEPT ![n] = value]
             queue == Enqueue(db.dirty, {n})
  <2>2. db' = [f \in Fields |-> IF f = "dirty" THEN queue
                                ELSE IF f = "doc" THEN doc ELSE IF f = "review" THEN db.review ELSE db[f]]
    <3>1. [db EXCEPT !.doc[n] = value] = [f \in Fields |-> IF f = "doc" THEN doc ELSE db[f]]
      BY <1>3 DEF Row, Fields
    <3> HIDE DEF doc
    <3>2. db' = [f \in Fields |-> IF f = "dirty" THEN queue ELSE IF f = "doc" THEN doc ELSE db[f]]
      BY <2>1, <3>1 DEF Hook, Fields
    <3> QED BY <3>2
  <2>3. doc \in [Nodes -> Values \cup {None, Folder, Deleted}] /\ \A m \in Nodes \ {n} : doc[m] = db.doc[m]
    BY <1>3
  <2> HIDE DEF doc
  <2>4. /\ Row(db') /\ db'.dirty = Enqueue(db.dirty, {n}) /\ db'.doc = doc /\ db'.review = db.review
        /\ \A f \in Fields \ {"doc", "review", "dirty"} : db'[f] = db[f]
    BY <2>2 DEF Row, Fields
  <2> QED BY <1>1, <1>3, <2>3, <2>4, HookIs
<1>5. ASSUME AddReview PROVE DbGood(db') /\ Collected(db, db')
  <2>1. PICK n \in Nodes : db' = Hook([db EXCEPT !.review[n] = db.current], n)
    BY <1>5 DEF AddReview
  <2> DEFINE review == [db.review EXCEPT ![n] = db.current]
             queue == Enqueue(db.dirty, {n})
  <2>2. db' = [f \in Fields |-> IF f = "dirty" THEN queue
                                ELSE IF f = "doc" THEN db.doc ELSE IF f = "review" THEN review ELSE db[f]]
    <3>1. [db EXCEPT !.review[n] = db.current] = [f \in Fields |-> IF f = "review" THEN review ELSE db[f]]
      BY <1>3 DEF Row, Fields
    <3> HIDE DEF review
    <3>2. db' = [f \in Fields |-> IF f = "dirty" THEN queue ELSE IF f = "review" THEN review ELSE db[f]]
      BY <2>1, <3>1 DEF Hook, Fields
    <3> QED BY <3>2
  <2>3. review \in [Nodes -> Months \cup {None}] /\ \A m \in Nodes \ {n} : review[m] = db.review[m]
    BY <1>3
  <2> HIDE DEF review
  <2>4. /\ Row(db') /\ db'.dirty = Enqueue(db.dirty, {n}) /\ db'.review = review /\ db'.doc = db.doc
        /\ \A f \in Fields \ {"doc", "review", "dirty"} : db'[f] = db[f]
    BY <2>2 DEF Row, Fields
  <2> QED BY <1>1, <1>3, <2>3, <2>4, HookIs
<1>6. /\ \A k \in DOMAIN db.dirty : db.dirty[k] \in Nat
      /\ \A k \in DOMAIN db.scopes : db.scopes[k] \in Nat
  BY <1>3 DEF IsQueue
<1>7. ASSUME EditWorkspace PROVE DbGood(db') /\ Collected(db, db')
  <2>1. PICK w \in Spaces :
       db' = [db EXCEPT !.visible = IF w \in @ THEN @ \ {w} ELSE @ \cup {w},
                        !.scopes = Enqueue(@, {<<"registry", w>>})]
    BY <1>7 DEF EditWorkspace
  <2> DEFINE seen == IF w \in db.visible THEN db.visible \ {w} ELSE db.visible \cup {w}
             queue == Enqueue(db.scopes, {<<"registry", w>>})
  <2>2. db' = [f \in Fields |-> IF f = "scopes" THEN queue ELSE IF f = "visible" THEN seen ELSE db[f]]
    BY <1>3, <2>1 DEF Row, Fields
  <2>3. /\ IsQueue(queue, ScopeKeys) /\ DOMAIN queue = DOMAIN db.scopes \cup {<<"registry", w>>}
        /\ \A k \in DOMAIN db.scopes : queue[k] = IF k \in {<<"registry", w>>} THEN db.scopes[k] + 1 ELSE db.scopes[k]
    <3>1. {<<"registry", w>>} \in SUBSET ScopeKeys
      BY DEF ScopeKeys
    <3> QED BY <1>3, <3>1 DEF IsQueue, Enqueue
  <2>4. seen \subseteq Spaces /\ \A u \in Spaces \ {w} : u \in seen <=> u \in db.visible
    BY <1>1 DEF DbGood, DbOK
  <2> HIDE DEF queue, seen
  <2>5. db'.scopes = queue /\ db'.visible = seen /\ \A f \in Fields \ {"scopes", "visible"} : db'[f] = db[f]
    BY <2>2 DEF Fields
  <2>6. DbGood(db')
    BY <1>1, <2>2, <2>3, <2>4, <2>5 DEF DbGood, DbOK, Row, Fields
  <2>7. Collected(db, db')
    BY <1>6, <2>3, <2>4, <2>5 DEF Collected, Fields
  <2> QED BY <2>6, <2>7
<1>8. ASSUME NewDirectory PROVE DbGood(db') /\ Collected(db, db')
  <2>1. PICK S \in SUBSET Headers(db, "month") : db' = [db EXCEPT !.scopes = Enqueue(@, {"month"} \X S)]
    BY <1>8 DEF NewDirectory
  <2> DEFINE queue == Enqueue(db.scopes, {"month"} \X S)
  <2>2. db' = [f \in Fields |-> IF f = "scopes" THEN queue ELSE db[f]]
    BY <1>3, <2>1 DEF Row, Fields
  <2>3. /\ IsQueue(queue, ScopeKeys) /\ DOMAIN db.scopes \subseteq DOMAIN queue
        /\ \A k \in DOMAIN db.scopes : queue[k] \in {db.scopes[k], db.scopes[k] + 1}
    <3>1. {"month"} \X S \in SUBSET ScopeKeys
      <4>1. S \subseteq Months
        BY <1>1, SelectedIs DEF DbGood
      <4> QED BY <4>1 DEF ScopeKeys
    <3> QED BY <1>3, <3>1 DEF IsQueue, Enqueue
  <2> HIDE DEF queue
  <2>5. db'.scopes = queue /\ \A f \in Fields \ {"scopes"} : db'[f] = db[f]
    BY <2>2 DEF Fields
  <2>6. DbGood(db')
    BY <1>1, <2>2, <2>3, <2>5 DEF DbGood, DbOK, Row, Fields
  <2>7. Collected(db, db')
    BY <1>6, <2>3, <2>5 DEF Collected, Fields
  <2> QED BY <2>6, <2>7
<1>9. ASSUME NewMonth PROVE DbGood(db') /\ Collected(db, db')
  <2>1. db' = [db EXCEPT !.current = db.current + 1] /\ db.current + 1 \in Months
    BY <1>9 DEF NewMonth
  <2>5. Row(db') /\ db'.current \in Months /\ \A f \in Fields \ {"current"} : db'[f] = db[f]
    BY <1>3, <2>1 DEF Row, Fields
  <2>6. DbGood(db')
    BY <1>1, <2>5 DEF DbGood, DbOK, Row, Fields
  <2>7. Collected(db, db')
    BY <1>6, <2>5 DEF Collected, Fields
  <2> QED BY <2>6, <2>7
<1> QED
  BY <1>2, <1>4, <1>5, <1>7, <1>8, <1>9 DEF Collector

LEMMA BaseStep == Base /\ [Next]_vars => Base'
<1> SUFFICES ASSUME Base, [Next]_vars PROVE Base'
  OBVIOUS
<1>1. /\ DbGood(db) /\ lock \in Publishers \cup {None} /\ edits \in Nat /\ faults \in Nat /\ ops \in Nat
      /\ DbOK(db)
  BY DEF Base, TypeOK, DbGood
<1>2. ASSUME NEW p \in Publishers,
             \/ Enter(p) \/ Leave(p) \/ Skip(p) \/ FailIdentity(p) \/ Crash(p)
             \/ BeginProject(p) \/ BeginSeed(p) \/ BeginPublish(p)
      PROVE  Base'
  <2>1. /\ db' = db /\ edits' \in Nat /\ faults' \in Nat /\ ops' \in Nat /\ lock' \in Publishers \cup {None}
    BY <1>1, <1>2 DEF Enter, Leave, Skip, FailIdentity, Crash, BeginProject, BeginSeed, BeginPublish,
       Unlock, Fault, budgets
  <2>2. (\E pc \in {"out", "in", "turn", "done"} : Goto(p, pc)) \/ \E pc \in Reading : Begin(p, pc)
    BY <1>2 DEF Enter, Leave, Skip, FailIdentity, Crash, BeginProject, BeginSeed, BeginPublish, Reading
  <2> QED BY <1>1, <2>1, <2>2, BaseProcess
<1>3. ASSUME NEW p \in Publishers, Project(p) \/ Seed(p) \/ Rebuild(p) \/ Publish(p)
      PROVE  Base'
  <2>1. edits' \in Nat /\ faults' \in Nat /\ ops' \in Nat /\ lock' = lock
    BY <1>1, <1>3 DEF Project, Seed, Rebuild, Publish, budgets
  <2>2. \E pc \in {"out", "in", "turn", "done"} : Goto(p, pc)
    BY <1>3 DEF Project, Seed, Rebuild, Publish
  <2>3. DbGood(db')
    BY <1>3, DbSteps
  <2> QED BY <1>1, <2>1, <2>2, <2>3, BaseProcess
<1>4. ASSUME NEW p \in Publishers, Plan(p) PROVE Base'
  <2>1. db' = db /\ edits' = edits /\ faults' = faults /\ ops' = ops /\ lock' = lock
    BY <1>4 DEF Plan, budgets
  <2>2. DirtyMonths(db) \in SUBSET Months
    BY <1>1, SelectedIs
  <2>3. \E s \in SUBSET Months : proc' = [proc EXCEPT ![p] = [Idle("identity") EXCEPT !.versions = s]]
    BY <1>4, <2>2 DEF Plan
  <2> QED BY <1>1, <2>1, <2>3, BaseProcess
<1>5. CASE Collector
  <2>1. DbGood(db') /\ UNCHANGED <<lock, proc, faults, ops>> /\ edits' \in Nat
    BY <1>5, CollectorIs
  <2> QED BY <2>1 DEF Base, TypeOK, DbGood
<1>6. CASE LoseLock
  BY <1>6 DEF LoseLock, Fault, Base, TypeOK
<1>7. CASE UNCHANGED vars
  BY <1>7 DEF vars, budgets, Base, TypeOK
<1> QED
  BY <1>2, <1>3, <1>4, <1>5, <1>6, <1>7 DEF Next, Collector

(* Every state is of its type; in particular no counter is ever negative,  *)
(* whoever publishes and whatever happens to the lock.                     *)
THEOREM Types == Spec => []TypeOK
<1>1. Base => TypeOK
  BY DEF Base
<1> QED
  BY <1>1, BaseInit, BaseStep, PTL DEF Spec

LEMMA BaseAlways == Spec => []Base
  BY BaseInit, BaseStep, PTL DEF Spec

-----------------------------------------------------------------------------
(* Files, facts and counters.                                              *)

(* The advisory lock keeps publishers apart as long as MySQL keeps it.     *)
Exclusive == \A p, q \in Publishers : proc[p].pc # "out" /\ proc[q].pc # "out" => p = q
Held == \A p \in Publishers : proc[p].pc # "out" => lock = p

(* What a publisher has read differs from what is there by what collectors *)
(* did since; files the seed has still to reach have no fact.              *)
Fresh == \A p \in Publishers : proc[p].pc \in Reading => Collected(proc[p].view, db)
Unseeded == ~db.seeded => \A n \in Nodes : n > db.cursor => db.fact[n] = None
FactInv == Base /\ Fresh /\ Unseeded /\ CountersMatchFacts /\ StaleIsQueued

LEMMA CollectedTwice ==
  ASSUME NEW a, NEW b, NEW c, DbGood(a), DbGood(b), DbGood(c), Collected(a, b), Collected(b, c)
  PROVE  Collected(a, c)
<1>1. /\ \A k \in DOMAIN a.dirty : a.dirty[k] \in Nat /\ k \in DOMAIN b.dirty /\ b.dirty[k] >= a.dirty[k]
      /\ \A k \in DOMAIN b.dirty : b.dirty[k] \in Nat /\ k \in DOMAIN c.dirty /\ c.dirty[k] >= b.dirty[k]
      /\ \A k \in DOMAIN c.dirty : c.dirty[k] \in Nat
  BY DEF DbGood, DbOK, IsQueue, Collected
<1>2. /\ \A k \in DOMAIN a.scopes : a.scopes[k] \in Nat /\ k \in DOMAIN b.scopes /\ b.scopes[k] >= a.scopes[k]
      /\ \A k \in DOMAIN b.scopes : b.scopes[k] \in Nat /\ k \in DOMAIN c.scopes /\ c.scopes[k] >= b.scopes[k]
      /\ \A k \in DOMAIN c.scopes : c.scopes[k] \in Nat
  BY DEF DbGood, DbOK, IsQueue, Collected
<1>3. ASSUME NEW n \in Nodes, c.doc[n] # a.doc[n] \/ c.review[n] # a.review[n]
      PROVE  n \in DOMAIN c.dirty /\ (n \in DOMAIN a.dirty => c.dirty[n] > a.dirty[n])
  <2>1. CASE b.doc[n] # a.doc[n] \/ b.review[n] # a.review[n]
    <3>1. n \in DOMAIN b.dirty /\ (n \in DOMAIN a.dirty => b.dirty[n] > a.dirty[n])
      BY <2>1 DEF Collected
    <3> QED BY <1>1, <3>1
  <2>2. CASE c.doc[n] # b.doc[n] \/ c.review[n] # b.review[n]
    <3>1. n \in DOMAIN c.dirty /\ (n \in DOMAIN b.dirty => c.dirty[n] > b.dirty[n])
      BY <2>2 DEF Collected
    <3> QED BY <1>1, <3>1
  <2> QED BY <1>3, <2>1, <2>2
<1>4. ASSUME NEW w \in Spaces, (w \in c.visible) # (w \in a.visible)
      PROVE  /\ <<"registry", w>> \in DOMAIN c.scopes
             /\ <<"registry", w>> \in DOMAIN a.scopes =>
                  c.scopes[<<"registry", w>>] > a.scopes[<<"registry", w>>]
  <2> DEFINE k == <<"registry", w>>
  <2>1. CASE (w \in b.visible) # (w \in a.visible)
    <3>1. k \in DOMAIN b.scopes /\ (k \in DOMAIN a.scopes => b.scopes[k] > a.scopes[k])
      BY <2>1 DEF Collected
    <3> HIDE DEF k
    <3>2. k \in DOMAIN c.scopes /\ (k \in DOMAIN a.scopes => c.scopes[k] > a.scopes[k])
      BY <1>2, <3>1
    <3> QED BY <3>2 DEF k
  <2>2. CASE (w \in c.visible) # (w \in b.visible)
    <3>1. k \in DOMAIN c.scopes /\ (k \in DOMAIN b.scopes => c.scopes[k] > b.scopes[k])
      BY <2>2 DEF Collected
    <3> HIDE DEF k
    <3>2. k \in DOMAIN c.scopes /\ (k \in DOMAIN a.scopes => c.scopes[k] > a.scopes[k])
      BY <1>2, <3>1
    <3> QED BY <3>2 DEF k
  <2> QED BY <1>4, <2>1, <2>2
<1>5. \A k \in DOMAIN a.dirty : k \in DOMAIN c.dirty /\ c.dirty[k] >= a.dirty[k]
  BY <1>1
<1>6. \A k \in DOMAIN a.scopes : k \in DOMAIN c.scopes /\ c.scopes[k] >= a.scopes[k]
  BY <1>2
<1>7. \A f \in {"fact", "counts", "cursor", "seeded", "parts"} : c[f] = a[f]
  BY DEF Collected
<1> QED
  BY <1>3, <1>4, <1>5, <1>6, <1>7 DEF Collected

LEMMA CollectedNone ==
  ASSUME NEW d, DbGood(d)
  PROVE  Collected(d, d)
BY DEF DbGood, DbOK, IsQueue, Collected

(* The counters move by what changed.                                      *)
Having(f, C, b) == {n \in C : b \in Counted(f[n])}

LEMMA SumsMove ==
  ASSUME NEW f, NEW g, NEW C \in SUBSET Nodes, \A n \in Nodes \ C : g[n] = f[n], NEW b
  PROVE  Cardinality(Having(g, Nodes, b)) =
           Cardinality(Having(f, Nodes, b)) + Cardinality(Having(g, C, b)) - Cardinality(Having(f, C, b))
<1> DEFINE F == Having(f, Nodes, b)
           G == Having(g, Nodes, b)
           FC == Having(f, C, b)
           GC == Having(g, C, b)
           R == Having(f, Nodes \ C, b)
<1>1. F = FC \cup R /\ FC \cap R = {}
  BY DEF Having
<1>2. G = GC \cup R /\ GC \cap R = {}
  BY DEF Having
<1>3. FC \in SUBSET Nodes /\ GC \in SUBSET Nodes /\ R \in SUBSET Nodes
  BY DEF Having
<1> HIDE DEF F, G, FC, GC, R
<1>4. /\ IsFiniteSet(FC) /\ IsFiniteSet(GC) /\ IsFiniteSet(R)
      /\ Cardinality(FC) \in Nat /\ Cardinality(GC) \in Nat /\ Cardinality(R) \in Nat
  BY <1>3, NodesFinite
<1>5. Cardinality(F) = Cardinality(FC) + Cardinality(R)
  <2>1. Cardinality(FC \cup R) = Cardinality(FC) + Cardinality(R) - Cardinality(FC \cap R)
    BY <1>4, FS_Union
  <2>2. Cardinality(FC \cap R) = 0
    BY <1>1, FS_EmptySet
  <2> QED BY <1>1, <1>4, <2>1, <2>2
<1>6. Cardinality(G) = Cardinality(GC) + Cardinality(R)
  <2>1. Cardinality(GC \cup R) = Cardinality(GC) + Cardinality(R) - Cardinality(GC \cap R)
    BY <1>4, FS_Union
  <2>2. Cardinality(GC \cap R) = 0
    BY <1>2, FS_EmptySet
  <2> QED BY <1>2, <1>4, <2>1, <2>2
<1>7. Cardinality(G) = Cardinality(F) + Cardinality(GC) - Cardinality(FC)
  BY <1>4, <1>5, <1>6
<1> QED
  BY <1>7 DEF F, G, FC, GC

LEMMA SameProjected ==
  ASSUME NEW v, NEW d, NEW n, v.doc[n] = d.doc[n], v.review[n] = d.review[n]
  PROVE  Projected(v, n) = Projected(d, n)
BY DEF Projected

(* A projection transaction: sums stay sums.                               *)
LEMMA MovedSums ==
  ASSUME NEW d, NEW v, v.fact = d.fact, NEW ids \in SUBSET Nodes,
         \A b \in Buckets : d.counts[b] = Cardinality({n \in Nodes : b \in Counted(d.fact[n])})
  PROVE  /\ \A b \in Buckets : Moved(d, v, ProjectionRows(v, ids))[b]
                                = Cardinality({n \in Nodes : b \in Counted(NewFact(d, v, ids)[n])})
         /\ \A n \in Nodes : NewFact(d, v, ids)[n] = IF n \in ids THEN Projected(v, n) ELSE d.fact[n]
         /\ ~Negative(d, v, ProjectionRows(v, ids))
<1> DEFINE new == ProjectionRows(v, ids)
           C == Moving(v, ids)
           g == NewFact(d, v, ids)
<1>2. /\ C \in SUBSET Nodes /\ C \in SUBSET ids
      /\ \A n \in C : new[n] = Projected(v, n)
      /\ \A n \in ids \ C : Projected(v, n) = v.fact[n]
  BY DEF Moving, Changed, ProjectionRows
<1>3. \A n \in Nodes : g[n] = IF n \in C THEN Projected(v, n) ELSE d.fact[n]
  BY DEF NewFact
<1>4. \A n \in Nodes : g[n] = IF n \in ids THEN Projected(v, n) ELSE d.fact[n]
  BY <1>2, <1>3
<1>5. ASSUME NEW b \in Buckets
      PROVE  Moved(d, v, new)[b] = Cardinality({n \in Nodes : b \in Counted(g[n])})
  <2>1. Moved(d, v, new)[b] = d.counts[b] + Cardinality({n \in C : b \in Counted(new[n])})
                                         - Cardinality({n \in C : b \in Counted(v.fact[n])})
    BY DEF Moved, Moving
  <2>2. \A n \in C : new[n] = g[n] /\ v.fact[n] = d.fact[n]
    BY <1>2, <1>3
  <2>3. /\ {n \in C : b \in Counted(new[n])} = {n \in C : b \in Counted(g[n])}
        /\ {n \in C : b \in Counted(v.fact[n])} = {n \in C : b \in Counted(d.fact[n])}
    BY <2>2
  <2>4. \A n \in Nodes \ C : g[n] = d.fact[n]
    BY <1>3
  <2> DEFINE f == d.fact
  <2> HIDE DEF C, g, new
  <2>5. Cardinality(Having(g, Nodes, b)) =
           Cardinality(Having(f, Nodes, b)) + Cardinality(Having(g, C, b)) - Cardinality(Having(f, C, b))
    <3>1. C \in SUBSET Nodes
      BY <1>2
    <3>2. \A n \in Nodes \ C : g[n] = f[n]
      BY <2>4
    <3> HIDE DEF f
    <3> QED BY <3>1, <3>2, SumsMove
  <2>6. d.counts[b] = Cardinality(Having(f, Nodes, b))
    BY DEF Having, f
  <2>7. Moved(d, v, new)[b] = Cardinality(Having(f, Nodes, b)) + Cardinality(Having(g, C, b))
                                - Cardinality(Having(f, C, b))
    BY <2>1, <2>3, <2>6 DEF Having, f
  <2>8. Moved(d, v, new)[b] = Cardinality(Having(g, Nodes, b))
    BY <2>5, <2>7
  <2> QED BY <2>8 DEF Having
<1>6. ~Negative(d, v, new)
  <2> SUFFICES ASSUME NEW b \in Buckets PROVE ~(Moved(d, v, new)[b] < 0)
    BY DEF Negative
  <2> DEFINE H == {n \in Nodes : b \in Counted(g[n])}
  <2>1. H \in SUBSET Nodes
    OBVIOUS
  <2>2. Moved(d, v, new)[b] = Cardinality(H)
    BY <1>5
  <2> HIDE DEF H, new
  <2>3. Cardinality(H) \in Nat
    BY <2>1, NodesFinite
  <2> QED BY <2>2, <2>3
<1> QED
  BY <1>4, <1>5, <1>6

LEMMA ApplySums ==
  ASSUME NEW d, NEW v, DbGood(d), DbGood(v), v.fact = d.fact, NEW ids \in SUBSET Nodes,
         \A b \in Buckets : d.counts[b] = Cardinality({n \in Nodes : b \in Counted(d.fact[n])})
  PROVE  LET e == ApplyProjections(d, v, ProjectionRows(v, ids))
         IN  /\ \A b \in Buckets : e.counts[b] = Cardinality({n \in Nodes : b \in Counted(e.fact[n])})
             /\ \A n \in Nodes : e.fact[n] = IF n \in ids THEN Projected(v, n) ELSE d.fact[n]
<1> DEFINE new == ProjectionRows(v, ids)
           g == NewFact(d, v, ids)
           e == ApplyProjections(d, v, new)
<1>1. /\ \A b \in Buckets : Moved(d, v, new)[b] = Cardinality({n \in Nodes : b \in Counted(g[n])})
      /\ \A n \in Nodes : g[n] = IF n \in ids THEN Projected(v, n) ELSE d.fact[n]
      /\ ~Negative(d, v, new)
  BY MovedSums
<1> HIDE DEF g, new
<1>2. e.counts = Moved(d, v, new) /\ e.fact = g
  BY <1>1, ApplyIs DEF g, new
<1> HIDE DEF e
<1>3. (\A b \in Buckets : e.counts[b] = Cardinality({n \in Nodes : b \in Counted(e.fact[n])}))
      /\ (\A n \in Nodes : e.fact[n] = IF n \in ids THEN Projected(v, n) ELSE d.fact[n])
  BY <1>1, <1>2
<1> QED
  BY <1>3 DEF e, new

LEMMA InvInit == Init => FactInv
<1> SUFFICES ASSUME Init PROVE FactInv
  OBVIOUS
<1>1. Base
  BY BaseInit
<1>2. PICK doc \in [Nodes -> Values \cup {None}], visible \in SUBSET Spaces :
       db = [doc |-> doc, review |-> [n \in Nodes |-> None], visible |-> visible,
             current |-> CHOOSE m \in Months : \A k \in Months : m <= k,
             dirty |-> <<>>, scopes |-> <<>>, fact |-> [n \in Nodes |-> None],
             counts |-> [b \in Buckets |-> 0], cursor |-> -1, seeded |-> FALSE, parts |-> <<>>]
  BY DEF Init
<1>3. /\ db.fact = [n \in Nodes |-> None] /\ db.counts = [b \in Buckets |-> 0]
      /\ db.cursor = -1 /\ ~db.seeded
  BY <1>2
<1>4. CountersMatchFacts
  <2> SUFFICES ASSUME NEW b \in Buckets PROVE 0 = Cardinality({n \in Nodes : b \in Counted(db.fact[n])})
    BY <1>3 DEF CountersMatchFacts
  <2>1. {n \in Nodes : b \in Counted(db.fact[n])} = {}
    BY <1>3 DEF Counted
  <2> QED BY <2>1, FS_EmptySet
<1>5. StaleIsQueued /\ Unseeded
  BY <1>3, ConstantsAssumption DEF StaleIsQueued, Unseeded
<1>6. Fresh
  BY DEF Init, Idle, Fresh, Reading
<1> QED
  BY <1>1, <1>4, <1>5, <1>6 DEF FactInv

(* A transaction that leaves files, facts and the queue alone.             *)
LEMMA InvAside ==
  ASSUME FactInv, Base', Fresh',
         \A f \in {"doc", "review", "dirty", "fact", "counts", "cursor", "seeded"} : db'[f] = db[f]
  PROVE  FactInv'
BY DEF FactInv, Unseeded, CountersMatchFacts, StaleIsQueued, Projected

LEMMA InvCollector ==
  ASSUME FactInv, Collector
  PROVE  FactInv'
<1>1. Base' /\ DbGood(db) /\ DbGood(db') /\ Collected(db, db') /\ UNCHANGED proc
  <2>1. DbGood(db') /\ Collected(db, db') /\ UNCHANGED proc
    BY CollectorIs DEF FactInv
  <2>2. Base'
    BY BaseStep DEF FactInv, Next, Collector
  <2> QED BY <2>1, <2>2 DEF FactInv, Base, TypeOK, DbGood
<1>2. /\ db'.fact = db.fact /\ db'.counts = db.counts /\ db'.cursor = db.cursor /\ db'.seeded = db.seeded
      /\ \A n \in Nodes : db'.doc[n] # db.doc[n] \/ db'.review[n] # db.review[n] => n \in DOMAIN db'.dirty
      /\ \A n \in DOMAIN db.dirty : n \in DOMAIN db'.dirty
  BY <1>1 DEF Collected
<1>3. CountersMatchFacts' /\ Unseeded'
  BY <1>2 DEF FactInv, CountersMatchFacts, Unseeded
<1>4. StaleIsQueued'
  <2> SUFFICES ASSUME NEW n \in Nodes, n \notin DOMAIN db'.dirty, db'.seeded \/ ~(n > db'.cursor)
               PROVE  db'.fact[n] = Projected(db', n)
    BY DEF StaleIsQueued
  <2>1. db'.doc[n] = db.doc[n] /\ db'.review[n] = db.review[n] /\ n \notin DOMAIN db.dirty
    BY <1>2
  <2>2. Projected(db', n) = Projected(db, n)
    BY <2>1, SameProjected
  <2> QED BY <1>2, <2>1, <2>2 DEF FactInv, StaleIsQueued
<1>5. Fresh'
  <2> SUFFICES ASSUME NEW p \in Publishers, proc[p].pc \in Reading PROVE Collected(proc[p].view, db')
    BY <1>1 DEF Fresh
  <2>1. DbGood(proc[p].view) /\ Collected(proc[p].view, db)
    BY DEF FactInv, Base, Fresh
  <2> QED BY <1>1, <2>1, CollectedTwice
<1> QED
  BY <1>1, <1>3, <1>4, <1>5 DEF FactInv

(* The end of a transaction of the only publisher.                         *)
LEMMA FreshAfter ==
  ASSUME Exclusive, NEW p \in Publishers, proc[p].pc # "out",
         \A q \in Publishers \ {p} : proc'[q] = proc[q], proc'[p].pc \notin Reading
  PROVE  Fresh'
BY DEF Exclusive, Fresh, Reading

LEMMA GotoIs ==
  ASSUME Base, NEW p \in Publishers, NEW pc, Goto(p, pc)
  PROVE  /\ \A q \in Publishers \ {p} : proc'[q] = proc[q]
         /\ proc'[p].pc = pc
<1>1. proc = [q \in Publishers |-> [pc |-> proc[q].pc, view |-> proc[q].view, versions |-> proc[q].versions]]
  BY DEF Base
<1> QED BY <1>1 DEF Goto, Idle

LEMMA InvProject ==
  ASSUME FactInv, Base', Exclusive, NEW p \in Publishers, Project(p)
  PROVE  FactInv'
<1> DEFINE v == proc[p].view
<1>1. Base /\ DbGood(v) /\ DbGood(db) /\ Collected(v, db) /\ proc[p].pc = "project"
  BY DEF FactInv, Base, TypeOK, DbGood, Fresh, Project, At, Reading
<1>2. PICK batch \in Batches(v) :
        LET raises == ~v.seeded \/ Negative(db, v, ProjectionRows(v, batch))
        IN  /\ db' = IF raises THEN db ELSE ProjectDirty(db, v, batch)
            /\ Goto(p, IF raises THEN "done" ELSE "turn")
  BY DEF Project
<1>3. batch \in SUBSET DOMAIN v.dirty /\ batch \in SUBSET Nodes
  BY <1>1 DEF Batches, DbGood, DbOK, IsQueue
<1> HIDE DEF v
<1>4. Fresh'
  BY <1>1, <1>2, GotoIs, FreshAfter DEF Reading
<1>5. CASE ~v.seeded \/ Negative(db, v, ProjectionRows(v, batch))
  BY <1>2, <1>4, <1>5, InvAside
<1>6. CASE v.seeded /\ ~Negative(db, v, ProjectionRows(v, batch))
  <2> DEFINE a == ApplyProjections(db, v, ProjectionRows(v, batch))
  <2>1. db' = ProjectDirty(db, v, batch)
    BY <1>2, <1>6
  <2>2. /\ v.fact = db.fact /\ v.seeded = db.seeded
        /\ \A n \in Nodes : db.doc[n] # v.doc[n] \/ db.review[n] # v.review[n] =>
             n \in DOMAIN db.dirty /\ (n \in DOMAIN v.dirty => db.dirty[n] > v.dirty[n])
        /\ \A n \in DOMAIN v.dirty : n \in DOMAIN db.dirty
    BY <1>1 DEF Collected
  <2>3. /\ db'.doc = db.doc /\ db'.review = db.review /\ db'.cursor = db.cursor /\ db'.seeded = db.seeded
        /\ db'.dirty = Consume(db.dirty, Only(v.dirty, batch))
        /\ db'.fact = a.fact /\ db'.counts = a.counts
    BY <1>1, <1>3, <1>6, <2>1, ProjectDirtyIs
  <2>4. /\ \A b \in Buckets : a.counts[b] = Cardinality({n \in Nodes : b \in Counted(a.fact[n])})
        /\ \A n \in Nodes : a.fact[n] = IF n \in batch THEN Projected(v, n) ELSE db.fact[n]
    BY <1>1, <1>3, <1>6, <2>2, ApplySums DEF FactInv, CountersMatchFacts
  <2> HIDE DEF a
  <2>5. CountersMatchFacts'
    BY <2>3, <2>4 DEF CountersMatchFacts
  <2>6. Unseeded'
    BY <1>6, <2>2, <2>3 DEF Unseeded
  <2>7. StaleIsQueued'
    <3> SUFFICES ASSUME NEW n \in Nodes, n \notin DOMAIN db'.dirty
                 PROVE  db'.fact[n] = Projected(db', n)
      BY DEF StaleIsQueued
    <3>1. Projected(db', n) = Projected(db, n)
      BY <2>3, SameProjected
    <3>2. CASE n \in batch
      <4>1. n \in DOMAIN db.dirty /\ n \in DOMAIN v.dirty
        BY <1>3, <2>2, <3>2
      <4>2. db.dirty[n] = v.dirty[n]
        BY <2>3, <3>2, <4>1 DEF Consume, Only
      <4>3. db.dirty[n] \in Nat
        BY <1>1, <4>1 DEF DbGood, DbOK, IsQueue
      <4>4. db.doc[n] = v.doc[n] /\ db.review[n] = v.review[n]
        BY <2>2, <4>1, <4>2, <4>3
      <4>5. Projected(v, n) = Projected(db, n)
        BY <4>4, SameProjected
      <4> QED BY <2>3, <2>4, <3>1, <3>2, <4>5
    <3>3. CASE n \notin batch
      <4>1. n \notin DOMAIN db.dirty
        BY <2>3, <3>3 DEF Consume, Only
      <4>2. db.fact[n] = Projected(db, n)
        BY <1>6, <2>2, <4>1 DEF FactInv, StaleIsQueued
      <4> QED BY <2>3, <2>4, <3>1, <3>3, <4>2
    <3> QED BY <3>2, <3>3
  <2> QED BY <1>4, <2>5, <2>6, <2>7 DEF FactInv
<1> QED BY <1>5, <1>6

(* A slice of the seed passes over no file that has a document or a        *)
(* baseline.                                                               *)
LEMMA SeedReaches ==
  ASSUME NEW v, DbGood(v), NEW c \in SeedIds(v), \A m \in SeedIds(v) : m <= c,
         NEW n \in Nodes, n > v.cursor, n <= c, Baseline[n] # None \/ v.doc[n] # None
  PROVE  n \in SeedIds(v)
<1> DEFINE A == {m \in Nodes : m > v.cursor /\ Baseline[m] # None}
           D == {m \in Nodes : m > v.cursor /\ v.doc[m] # None}
           FA == First(A, Limit)
           FD == First(D, Limit)
           U == FA \cup FD
<1>1. Limit \in Nat /\ Limit # 0 /\ A \in SUBSET Nodes /\ D \in SUBSET Nodes /\ Nodes \subseteq Nat
  BY ConstantsAssumption
<1>2. SeedIds(v) = First(U, Limit)
  BY DEF SeedIds
<1>3. n \in A \/ n \in D
  OBVIOUS
<1> HIDE DEF A, D
<1>4. FA \in SUBSET A /\ FD \in SUBSET D
  BY <1>1, FirstIs
<1> HIDE DEF FA, FD
<1>5. U \in SUBSET Nodes
  BY <1>1, <1>4
<1>6. First(U, Limit) \in SUBSET U /\ \A x \in First(U, Limit), y \in U : y < x => y \in First(U, Limit)
  BY <1>1, <1>5, FirstIs
<1>7. c \in U /\ c \in Nodes /\ c \in Nat /\ n \in Nat
  BY <1>1, <1>2, <1>5, <1>6
<1>8. ASSUME NEW S \in SUBSET Nodes, n \in S, First(S, Limit) \in SUBSET U PROVE n \in U
  <2> SUFFICES ASSUME n \notin First(S, Limit) PROVE FALSE
    BY <1>8
  <2> DEFINE B == First(S, Limit)
             L == {y \in U : y < c}
  <2>1. B \in SUBSET S /\ \A x \in B, y \in S : y < x => y \in B
    BY <1>1, FirstIs
  <2>2. S \subseteq Nat /\ IsFiniteSet(S) /\ Cardinality(S) \in Nat
    BY NodesFinite
  <2>3. \A y \in B : y < n
    <3> SUFFICES ASSUME NEW y \in B, ~(y < n) PROVE FALSE
      OBVIOUS
    <3>1. y \in Nat /\ y # n
      BY <2>1, <2>2
    <3>2. n < y
      BY <1>7, <3>1
    <3> QED BY <1>8, <2>1, <3>2
  <2>4. Limit <= Cardinality({y \in S : y < n})
    <3>1. Cardinality({y \in S : y < n}) \in Nat
      BY NodesFinite
    <3>2. ~(Cardinality({y \in S : y < n}) < Limit)
      BY <1>8 DEF First
    <3> QED BY <1>1, <3>1, <3>2
  <2>5. Limit <= Cardinality(S)
    <3> DEFINE T == {y \in S : y < n}
    <3>1. T \in SUBSET S
      OBVIOUS
    <3>2. T \in SUBSET Nodes
      OBVIOUS
    <3> HIDE DEF T
    <3>3. Cardinality(T) <= Cardinality(S) /\ Cardinality(T) \in Nat
      BY <2>2, <3>1, <3>2, FS_Subset, NodesFinite
    <3>4. Limit <= Cardinality(T)
      BY <2>4 DEF T
    <3> QED BY <1>1, <2>2, <3>3, <3>4
  <2>6. Cardinality(B) = Limit
    BY <1>1, <2>5, FirstCounts
  <2>7. B \in SUBSET L
    <3>1. \A y \in B : y \in U /\ y < n /\ y \in Nat
      BY <1>8, <2>1, <2>2, <2>3
    <3>2. \A y \in B : y < c
      BY <1>7, <3>1
    <3> QED BY <3>1, <3>2
  <2>8. Cardinality(L) < Limit
    BY <1>2, <1>7 DEF First
  <2>9. IsFiniteSet(L) /\ Cardinality(L) \in Nat
    <3>1. L \in SUBSET Nodes
      BY <1>5
    <3> HIDE DEF L
    <3> QED BY <3>1, NodesFinite
  <2> HIDE DEF B, L
  <2>10. Cardinality(B) <= Cardinality(L)
    BY <2>7, <2>9, FS_Subset
  <2> QED BY <1>1, <2>6, <2>8, <2>9, <2>10
<1>9. n \in U
  <2>1. First(A, Limit) \in SUBSET U /\ First(D, Limit) \in SUBSET U
    BY DEF FA, FD
  <2> HIDE DEF U
  <2> QED BY <1>1, <1>3, <1>8, <2>1
<1>10. CASE n = c
  BY <1>10
<1>11. CASE n < c
  BY <1>2, <1>6, <1>9, <1>11
<1> QED
  BY <1>7, <1>10, <1>11

LEMMA SeedNone ==
  ASSUME NEW v, SeedIds(v) = {}, NEW n \in Nodes, n > v.cursor
  PROVE  Projected(v, n) = None
<1> DEFINE A == {m \in Nodes : m > v.cursor /\ Baseline[m] # None}
           D == {m \in Nodes : m > v.cursor /\ v.doc[m] # None}
           U == First(A, Limit) \cup First(D, Limit)
<1>1. Limit \in Nat /\ Limit # 0
  BY ConstantsAssumption
<1>2. First(U, Limit) = {} /\ A \in SUBSET Nodes /\ D \in SUBSET Nodes
  BY DEF SeedIds
<1>3. Baseline[n] = None /\ v.doc[n] = None
  <2> SUFFICES ASSUME n \in A \/ n \in D PROVE FALSE
    OBVIOUS
  <2> HIDE DEF A, D
  <2>1. U \in SUBSET Nodes
    BY <1>1, <1>2, FirstIs
  <2>2. U # {}
    BY <1>1, <1>2, FirstIs
  <2> HIDE DEF U
  <2> QED BY <1>1, <1>2, <2>1, <2>2, FirstIs
<1> QED
  BY <1>3 DEF Projected

LEMMA InvSeed ==
  ASSUME FactInv, Base', Exclusive, NEW p \in Publishers, Seed(p)
  PROVE  FactInv'
<1> DEFINE v == proc[p].view
           ids == SeedIds(v)
<1>1. /\ Base /\ DbGood(v) /\ DbGood(db) /\ Collected(v, db) /\ proc[p].pc = "seed"
      /\ db' = SeedSlice(db, v) /\ \E pc \in {"done", "in"} : Goto(p, pc)
  BY DEF FactInv, Base, TypeOK, DbGood, Fresh, Seed, At, Reading
<1>2. ids \in SUBSET Nodes /\ \A n \in ids : n > v.cursor
  BY SeedIdsIs
<1>3. /\ v.fact = db.fact /\ v.seeded = db.seeded /\ v.cursor = db.cursor
      /\ \A n \in Nodes : db.doc[n] # v.doc[n] \/ db.review[n] # v.review[n] => n \in DOMAIN db.dirty
  BY <1>1 DEF Collected
<1>4. Fresh'
  BY <1>1, GotoIs, FreshAfter DEF Reading
<1>5. \A n \in Nodes : n \notin DOMAIN db.dirty => Projected(v, n) = Projected(db, n)
  BY <1>3, SameProjected
<1> HIDE DEF v
<1>6. CASE v.seeded \/ Negative(db, v, ProjectionRows(v, ids))
  <2>1. db' = db
    BY <1>1, <1>6 DEF SeedSlice
  <2> QED BY <1>4, <2>1, InvAside
<1>7. CASE ~(v.seeded \/ Negative(db, v, ProjectionRows(v, ids))) /\ ids = {}
  <2>1. db' = [db EXCEPT !.seeded = TRUE, !.scopes = Enqueue(db.scopes, {<<"all", 0>>})]
    BY <1>1, <1>7 DEF SeedSlice
  <2>2. /\ db'.seeded /\ db'.doc = db.doc /\ db'.review = db.review /\ db'.dirty = db.dirty
        /\ db'.fact = db.fact /\ db'.counts = db.counts
    BY <1>1, <2>1 DEF DbGood, Row, Fields
  <2>3. CountersMatchFacts' /\ Unseeded'
    BY <2>2 DEF FactInv, CountersMatchFacts, Unseeded
  <2>4. StaleIsQueued'
    <3> SUFFICES ASSUME NEW n \in Nodes, n \notin DOMAIN db.dirty
                 PROVE  db.fact[n] = Projected(db, n)
      BY <2>2, SameProjected DEF StaleIsQueued
    <3>1. CASE n > db.cursor
      <4>1. db.fact[n] = None
        BY <1>3, <1>7, <3>1 DEF FactInv, Unseeded
      <4>2. Projected(v, n) = None
        BY <1>3, <1>7, <3>1, SeedNone
      <4> QED BY <1>5, <4>1, <4>2
    <3>2. CASE ~(n > db.cursor)
      BY <3>2 DEF FactInv, StaleIsQueued
    <3> QED BY <3>1, <3>2
  <2> QED BY <1>4, <2>3, <2>4 DEF FactInv
<1>8. CASE ~(v.seeded \/ Negative(db, v, ProjectionRows(v, ids))) /\ ids # {}
  <2> DEFINE a == ApplyProjections(db, v, ProjectionRows(v, ids))
             c == CHOOSE n \in ids : \A m \in ids : m <= n
  <2>1. db' = [a EXCEPT !.cursor = c]
    BY <1>1, <1>8 DEF SeedSlice
  <2>2. c \in ids /\ \A m \in ids : m <= c
    BY <1>2, <1>8, GreatestNode
  <2>3. /\ DbGood(a) /\ a.doc = db.doc /\ a.review = db.review /\ a.dirty = db.dirty /\ a.seeded = db.seeded
    BY <1>1, <1>2, <1>8, ApplyIs
  <2>4. /\ \A b \in Buckets : a.counts[b] = Cardinality({n \in Nodes : b \in Counted(a.fact[n])})
        /\ \A n \in Nodes : a.fact[n] = IF n \in ids THEN Projected(v, n) ELSE db.fact[n]
    BY <1>1, <1>2, <1>3, <1>8, ApplySums DEF FactInv, CountersMatchFacts
  <2> HIDE DEF a, c, ids
  <2>5. /\ db'.doc = db.doc /\ db'.review = db.review /\ db'.dirty = db.dirty /\ db'.seeded = db.seeded
        /\ db'.fact = a.fact /\ db'.counts = a.counts /\ db'.cursor = c
    BY <2>1, <2>3 DEF DbGood, Row, Fields
  <2>6. CountersMatchFacts'
    BY <2>4, <2>5 DEF CountersMatchFacts
  <2>0. Nodes \subseteq Nat /\ c \in Nat /\ v.cursor \in Int
    <3>0. DbGood(v)
      BY <1>1
    <3>4. DbOK(v)
      BY <3>0 DEF DbGood
    <3>5. v.cursor \in Nodes \cup {-1}
      BY <3>4 DEF DbOK
    <3>1. Nodes \subseteq Nat
      BY ConstantsAssumption
    <3>2. c \in Nodes
      BY <1>2, <2>2
    <3>3. c \in Nat
      BY <3>1, <3>2
    <3> DEFINE u == v.cursor
    <3> HIDE DEF u
    <3>6. u \in Nodes \/ u = -1
      BY <3>5 DEF u
    <3>7. u \in Int
      <4>1. ASSUME u \in Nodes PROVE u \in Int
        <5>1. u \in Nat
          BY <3>1, <4>1
        <5> QED BY <5>1
      <4>2. ASSUME u = -1 PROVE u \in Int
        BY <4>2
      <4> QED BY <3>6, <4>1, <4>2
    <3> QED BY <3>1, <3>3, <3>7 DEF u
  <2>7. ~db.seeded /\ \A n \in Nodes : n > db.cursor => db.fact[n] = None
    BY <1>3, <1>8 DEF FactInv, Unseeded
  <2>8. Unseeded'
    <3> SUFFICES ASSUME NEW n \in Nodes, n > c PROVE a.fact[n] = None
      BY <2>5 DEF Unseeded
    <3>1. n \notin ids /\ n > db.cursor
      <4>1. n \in Nat /\ c > v.cursor
        BY <1>2, <2>0, <2>2
      <4>2. n > v.cursor
        BY <2>0, <4>1
      <4>3. n \notin ids
        BY <2>0, <2>2, <4>1
      <4> QED BY <1>3, <4>2, <4>3
    <3> QED BY <2>4, <2>7, <3>1
  <2>9. StaleIsQueued'
    <3> SUFFICES ASSUME NEW n \in Nodes, n \notin DOMAIN db.dirty, ~(n > c)
                 PROVE  a.fact[n] = Projected(db, n)
      BY <2>5, <2>7, SameProjected DEF StaleIsQueued
    <3>1. CASE n \in ids
      BY <1>5, <2>4, <3>1
    <3>2. CASE n \notin ids /\ n > db.cursor
      <4>1. n <= c
        BY <2>0
      <4>2. Baseline[n] = None /\ v.doc[n] = None
        BY <1>1, <1>3, <2>2, <3>2, <4>1, SeedReaches DEF ids
      <4>3. Projected(v, n) = None
        BY <4>2 DEF Projected
      <4> QED BY <1>5, <2>4, <2>7, <3>2, <4>3
    <3>3. CASE n \notin ids /\ ~(n > db.cursor)
      BY <2>4, <3>3 DEF FactInv, StaleIsQueued
    <3> QED BY <3>1, <3>2, <3>3
  <2> QED BY <1>4, <2>6, <2>8, <2>9 DEF FactInv
<1> QED BY <1>6, <1>7, <1>8

LEMMA InvQuiet ==
  ASSUME FactInv, Base', Exclusive, db' = db, NEW p \in Publishers,
         proc[p].pc # "out" \/ lock = None,
         \/ Enter(p) \/ Leave(p) \/ Skip(p) \/ Plan(p) \/ FailIdentity(p) \/ Crash(p)
         \/ BeginProject(p) \/ BeginSeed(p) \/ BeginPublish(p)
  PROVE  FactInv'
<1>1. Base /\ DbGood(db)
  BY DEF FactInv, Base, TypeOK, DbGood
<1>2. CASE BeginProject(p) \/ BeginSeed(p) \/ BeginPublish(p)
  <2>1. PICK pc \in Reading : Begin(p, pc)
    BY SMTT(20), ZenonT(30), <1>2 DEF BeginProject, BeginSeed, BeginPublish, Reading
  <2>2. \A q \in Publishers : q # p => proc'[q] = proc[q]
    BY SMTT(20), ZenonT(30), <1>1, <2>1 DEF Begin, Base
  <2>3. proc'[p].view = db
    BY SMTT(20), ZenonT(30), <1>1, <2>1 DEF Begin, Base
  <2>4. Collected(db, db)
    BY <1>1, CollectedNone
  <2>5. Fresh'
    BY <2>2, <2>3, <2>4 DEF FactInv, Fresh
  <2> QED BY <2>5, InvAside
<1>3. CASE Plan(p) \/ Enter(p) \/ Leave(p) \/ Skip(p) \/ FailIdentity(p) \/ Crash(p)
  <2>1. \E pc \in {"out", "in", "done", "identity"} :
          \E s : proc' = [proc EXCEPT ![p] = [pc |-> pc, view |-> None, versions |-> s]]
    BY <1>3 DEF Plan, Enter, Leave, Skip, FailIdentity, Crash, Goto, Idle
  <2>2. /\ \A q \in Publishers : q # p => proc'[q] = proc[q]
        /\ proc'[p].pc \notin Reading
    BY <1>1, <2>1 DEF Base, Reading
  <2>3. Fresh'
    BY <2>2 DEF FactInv, Fresh
  <2> QED BY <2>3, InvAside
<1> QED
  BY <1>2, <1>3

LEMMA InvStep == FactInv /\ Exclusive /\ [Next]_vars => FactInv'
<1> SUFFICES ASSUME FactInv, Exclusive, [Next]_vars PROVE FactInv'
  OBVIOUS
<1>1. Base' /\ Base /\ DbGood(db)
  BY BaseStep DEF FactInv, Base, TypeOK, DbGood
<1>2. ASSUME NEW p \in Publishers,
             \/ Enter(p) \/ Leave(p) \/ Skip(p) \/ Plan(p) \/ FailIdentity(p) \/ Crash(p)
             \/ BeginProject(p) \/ BeginSeed(p) \/ BeginPublish(p)
      PROVE  FactInv'
  <2>1. db' = db /\ (proc[p].pc # "out" \/ lock = None)
    BY <1>2 DEF Enter, Leave, Skip, Plan, FailIdentity, Crash, BeginProject, BeginSeed, BeginPublish, At
  <2> QED BY <1>1, <1>2, <2>1, InvQuiet
<1>3. ASSUME NEW p \in Publishers, Rebuild(p) \/ Publish(p) PROVE FactInv'
  <2>1. proc[p].pc # "out" /\ \E pc \in {"turn", "done"} : Goto(p, pc)
    BY <1>3 DEF Rebuild, Publish, At
  <2>2. Fresh'
    BY <1>1, <2>1, GotoIs, FreshAfter DEF Reading
  <2>3. \A f \in {"doc", "review", "dirty", "fact", "counts", "cursor", "seeded"} : db'[f] = db[f]
    <3>1. CASE Rebuild(p)
      BY <1>1, <3>1 DEF Rebuild, DbGood, Row, Fields
    <3>2. CASE Publish(p)
      BY <1>1, <3>2 DEF Publish, PublishPartitions, DbGood, Row, Fields
    <3> QED BY <1>3, <3>1, <3>2
  <2> QED BY <1>1, <2>2, <2>3, InvAside
<1>4. CASE Collector
  BY <1>1, <1>4, InvCollector
<1>5. CASE LoseLock
  BY <1>1, <1>5, InvAside DEF LoseLock, FactInv, Fresh
<1>6. CASE UNCHANGED vars
  BY <1>1, <1>6, InvAside DEF vars, FactInv, Fresh
<1> QED
  BY <1>1, <1>2, <1>3, <1>4, <1>5, <1>6, InvProject, InvSeed DEF Next, Collector

-----------------------------------------------------------------------------
(* The lock.                                                               *)

LEMMA HeldInit == Init => Held
BY DEF Init, Idle, Held

LEMMA HeldStep == Base /\ Held /\ [Next]_vars /\ ~LoseLock => Held'
<1> SUFFICES ASSUME Base, Held, [Next]_vars, ~LoseLock PROVE Held'
  OBVIOUS
<1>1. ASSUME NEW p \in Publishers, Enter(p) PROVE Held'
  <2>1. lock = None /\ lock' = p /\ Goto(p, "in")
    BY <1>1 DEF Enter
  <2>2. \A q \in Publishers : proc[q].pc = "out"
    BY <2>1, ConstantsAssumption DEF Held
  <2> QED BY <2>1, <2>2, GotoIs DEF Held
<1>2. ASSUME NEW p \in Publishers, Leave(p) \/ Crash(p) PROVE Held'
  <2>1. Unlock(p) /\ Goto(p, "out")
    BY <1>2 DEF Leave, Crash
  <2>2. proc'[p].pc = "out" /\ \A q \in Publishers \ {p} : proc'[q] = proc[q]
    BY <2>1, GotoIs
  <2>3. \A q \in Publishers \ {p} : lock = q => lock' = q
    BY <2>1 DEF Unlock
  <2> QED BY <2>2, <2>3 DEF Held
<1>3. ASSUME NEW p \in Publishers,
             \/ BeginProject(p) \/ Project(p) \/ BeginSeed(p) \/ Seed(p) \/ Rebuild(p) \/ Plan(p)
             \/ BeginPublish(p) \/ Publish(p) \/ Skip(p) \/ FailIdentity(p)
      PROVE  Held'
  <2>1. lock' = lock /\ proc[p].pc # "out"
    BY <1>3 DEF BeginProject, Project, BeginSeed, Seed, Rebuild, Plan, BeginPublish, Publish, Skip,
                FailIdentity, At
  <2>2. \A q \in Publishers \ {p} : proc'[q] = proc[q]
    <3>1. CASE Plan(p)
      BY <3>1 DEF Plan, Base
    <3>2. CASE BeginProject(p) \/ BeginSeed(p) \/ BeginPublish(p)
      BY <3>2 DEF BeginProject, BeginSeed, BeginPublish, Begin, Base
    <3>3. CASE \E pc : Goto(p, pc)
      BY <3>3, GotoIs
    <3>4. (\E pc : Goto(p, pc)) \/ Plan(p) \/ BeginProject(p) \/ BeginSeed(p) \/ BeginPublish(p)
      BY <1>3 DEF Project, Seed, Rebuild, Publish, Skip, FailIdentity
    <3> QED BY <3>1, <3>2, <3>3, <3>4
  <2> QED BY <2>1, <2>2 DEF Held
<1>4. CASE Collector
  BY <1>4, CollectorIs DEF Held
<1>5. CASE UNCHANGED vars
  BY <1>5 DEF vars, Held
<1> QED
  BY <1>1, <1>2, <1>3, <1>4, <1>5 DEF Next, Collector

LEMMA HeldExcludes == Held => Exclusive
BY DEF Held, Exclusive

(* While MySQL does not drop the connection that holds the advisory lock,  *)
(* at most one publisher is at work, whatever crashes.                     *)
THEOREM LockExcludes == Spec /\ [][~LoseLock]_vars => []Exclusive
<1>1. Base /\ Held /\ [Next]_vars /\ [~LoseLock]_vars => Held'
  BY HeldStep DEF LoseLock, Held, vars
<1>2. Held => Exclusive
  BY HeldExcludes
<1> QED
  BY BaseAlways, HeldInit, <1>1, <1>2, PTL DEF Spec

-----------------------------------------------------------------------------
(* The facts and the counters while publishers take turns.                 *)
LEMMA InvAlways == Spec /\ []Exclusive => []FactInv
<1> QED
  BY InvInit, InvStep, PTL DEF Spec

(* Counters are sums, whatever is left open by crashes and by changes      *)
(* committed in the middle of a transaction, as long as publishers take    *)
(* turns: two at a time may both take the same difference.                 *)
THEOREM CountersAreSums == Spec /\ []Exclusive => []CountersMatchFacts
<1>1. FactInv => CountersMatchFacts
  BY DEF FactInv
<1> QED
  BY <1>1, InvAlways, PTL

(* No change is forgotten: a file is as its sources say, or queued, or     *)
(* still to be seeded.                                                     *)
THEOREM NothingIsForgotten == Spec /\ []Exclusive => []StaleIsQueued
<1>1. FactInv => StaleIsQueued
  BY DEF FactInv
<1> QED
  BY <1>1, InvAlways, PTL

(* What apply_projections would write on the next batch, whatever it is.   *)
NeverNegative ==
  \A p \in Publishers : proc[p].pc \in Reading =>
    \A ids \in SUBSET Nodes : ~Negative(db, proc[p].view, ProjectionRows(proc[p].view, ids))

(* No counter would become negative: the refusal in apply_projections is   *)
(* unreachable while publishers take turns.                                *)
THEOREM CountersStayNatural == Spec /\ []Exclusive => []NeverNegative
<1>1. FactInv => NeverNegative
  <2> SUFFICES ASSUME FactInv, NEW p \in Publishers, proc[p].pc \in Reading, NEW ids \in SUBSET Nodes
               PROVE  ~Negative(db, proc[p].view, ProjectionRows(proc[p].view, ids))
    BY DEF NeverNegative
  <2> DEFINE v == proc[p].view
  <2>1. v.fact = db.fact
    BY DEF FactInv, Fresh, Collected
  <2>2. \A b \in Buckets : db.counts[b] = Cardinality({n \in Nodes : b \in Counted(db.fact[n])})
    BY DEF FactInv, CountersMatchFacts
  <2> HIDE DEF v
  <2>3. ~Negative(db, v, ProjectionRows(v, ids))
    BY <2>1, <2>2, MovedSums
  <2> QED BY <2>3 DEF v
<1> QED
  BY <1>1, InvAlways, PTL

(* With the lock kept, counters are exact and no change is forgotten.      *)
THEOREM LockedIsExact ==
  Spec /\ [][~LoseLock]_vars => [](CountersMatchFacts /\ StaleIsQueued)
BY LockExcludes, CountersAreSums, NothingIsForgotten, PTL

(* With one publisher both hold even when its lock is lost.                *)
THEOREM AloneIsExact ==
  ASSUME NEW p, Publishers = {p}
  PROVE  Spec => [](CountersMatchFacts /\ StaleIsQueued)
<1>1. Exclusive
  BY DEF Exclusive
<1> QED
  BY <1>1, CountersAreSums, NothingIsForgotten, PTL

-----------------------------------------------------------------------------
(* Partitions.                                                             *)

(* The partitions as the counters, the libraries and the month say.        *)
Extra(v, month) == Rows(v, ({"undated"} \X v.visible \X {0}) \cup ({"reviews"} \X v.visible \X {month}))
SpaceAt(v, w, month) ==
  Rows(v, {<<"files", w, 0>>, <<"uploads", w, month>>} \cup ({"reviews"} \X {w} \X Months))
SpacesOf(v) == {<<w, SpacePart(v, w)>> : w \in v.visible}
ImageKeys(v) == ({"meta", "summary"} \X {0}) \cup ({"month"} \X AvailableMonths(v)) \cup ({"workspace"} \X v.visible)
Image(v) ==
  [k \in ImageKeys(v) |->
     CASE k[1] = "meta" -> [current |-> v.current, months |-> AvailableMonths(v)]
       [] k[1] = "summary" -> [rows |-> SpacesOf(v), extra |-> Extra(v, v.current)]
       [] k[1] = "month" -> MonthPart(v, k[2])
       [] k[1] = "workspace" -> SpacePart(v, k[2])]

(* A database whose partitions are as its counters and libraries say but   *)
(* for what its dirty scopes name.                                         *)
MetaOf(d) == d.parts[<<"meta", 0>>].current
MonthSettled(d, m) ==
  \/ <<"month", m>> \in DOMAIN d.scopes \/ m \in MonthsOf(d, Keyed(d, "registry"))
  \/ d.parts[<<"month", m>>] = MonthPart(d, m)
SpaceSettled(d, w) ==
  \/ <<"workspace", w>> \in DOMAIN d.scopes \/ <<"registry", w>> \in DOMAIN d.scopes
  \/ /\ w \in d.visible <=> <<"workspace", w>> \in DOMAIN d.parts
     /\ w \in d.visible => d.parts[<<"workspace", w>>] = SpaceAt(d, w, MetaOf(d))
RestSettled(d) ==
  /\ Headers(d, "month") = AvailableMonths(d)
  /\ d.parts[<<"summary", 0>>] = [rows |-> SpaceRows(d.parts), extra |-> Extra(d, MetaOf(d))]
Settled(d) ==
  \/ Full(d)
  \/ /\ <<"meta", 0>> \in DOMAIN d.parts /\ MetaOf(d) \in Months
     /\ DOMAIN d.scopes = {} => RestSettled(d)
     /\ \A m \in Headers(d, "month") : MonthSettled(d, m)
     /\ \A w \in Spaces : SpaceSettled(d, w)

NextParts(v) == Without(Over(NewParts(v), v.parts), Removed(v))

LEMMA SpaceRowsAre ==
  ASSUME NEW v, NEW f,
         \A k \in DOMAIN f : k[1] = "workspace" => \E w \in v.visible : k = <<"workspace", w>>,
         \A w \in v.visible : <<"workspace", w>> \in DOMAIN f /\ f[<<"workspace", w>>] = SpacePart(v, w)
  PROVE  SpaceRows(f) = SpacesOf(v)
<1>1. ASSUME NEW r \in SpaceRows(f) PROVE r \in SpacesOf(v)
  <2>1. PICK k \in DOMAIN f : k[1] = "workspace" /\ r = <<k[2], f[k]>>
    BY <1>1 DEF SpaceRows
  <2>2. PICK w \in v.visible : k = <<"workspace", w>>
    BY <2>1
  <2>3. r = <<w, SpacePart(v, w)>>
    BY <2>1, <2>2
  <2> QED BY <2>2, <2>3 DEF SpacesOf
<1>2. ASSUME NEW r \in SpacesOf(v) PROVE r \in SpaceRows(f)
  <2>1. PICK w \in v.visible : r = <<w, SpacePart(v, w)>>
    BY <1>2 DEF SpacesOf
  <2> DEFINE k == <<"workspace", w>>
  <2>2. k \in DOMAIN f /\ k[1] = "workspace" /\ r = <<k[2], f[k]>>
    BY <2>1
  <2> QED BY <2>2 DEF SpaceRows
<1> QED
  BY <1>1, <1>2

LEMMA SpacePartAt ==
  ASSUME NEW v, NEW w
  PROVE  SpacePart(v, w) = SpaceAt(v, w, v.current)
BY DEF SpacePart, SpaceAt

LEMMA KeysAre ==
  ASSUME NEW v, DbOK(v), NEW k \in DOMAIN v.parts
  PROVE  \/ k = <<"meta", 0>> \/ k = <<"summary", 0>>
         \/ k[2] \in Months /\ k = <<"month", k[2]>>
         \/ k[2] \in Spaces /\ k = <<"workspace", k[2]>>
BY DEF DbOK, PartKeys

(* A publication makes of settled partitions, whichever of them it         *)
(* rebuilds, the partitions as the counters and libraries say.             *)
LEMMA NextPartsAre ==
  ASSUME NEW v, DbOK(v), Settled(v)
  PROVE  NextParts(v) = Image(v)
<1> DEFINE L == NextParts(v)
<1>1. Selected(v) = AvailableMonths(v)
  BY DEF Selected, Settled, FactDirty, RestSettled
<1>2. Selected(v) \in SUBSET Months /\ DirtyMonths(v) \in SUBSET Selected(v)
      /\ DirtySpaces(v) \in SUBSET v.visible /\ v.visible \subseteq Spaces
  BY SelectedIs DEF DbOK
<1>3. ASSUME NEW m \in Selected(v), m \notin DirtyMonths(v)
      PROVE  <<"month", m>> \in DOMAIN v.parts /\ v.parts[<<"month", m>>] = MonthPart(v, m)
  <2>1. /\ ~Full(v) /\ m \in Headers(v, "month")
        /\ m \notin Keyed(v, "month") /\ m \notin MonthsOf(v, Keyed(v, "registry"))
    BY <1>2, <1>3 DEF DirtyMonths
  <2>2. <<"month", m>> \notin DOMAIN v.scopes
    BY <2>1 DEF Keyed
  <2>3. <<"month", m>> \in DOMAIN v.parts
    <3>1. PICK k \in DOMAIN v.parts : k[1] = "month" /\ k[2] = m
      BY <2>1 DEF Headers
    <3>2. k = <<"month", m>>
      BY <3>1, KeysAre
    <3> QED BY <3>2
  <2>4. MonthSettled(v, m)
    BY <2>1 DEF Settled
  <2> QED BY <2>1, <2>2, <2>3, <2>4 DEF MonthSettled
<1>4. ASSUME NEW w \in v.visible, w \notin DirtySpaces(v)
      PROVE  <<"workspace", w>> \in DOMAIN v.parts /\ v.parts[<<"workspace", w>>] = SpacePart(v, w)
  <2>1. ~Full(v) /\ ~Calendar(v) /\ w \notin Keyed(v, "workspace") /\ w \notin Keyed(v, "registry")
    BY <1>4 DEF DirtySpaces
  <2>2. <<"workspace", w>> \notin DOMAIN v.scopes /\ <<"registry", w>> \notin DOMAIN v.scopes
    BY <2>1 DEF Keyed
  <2>3. MetaOf(v) = v.current
    BY <2>1 DEF Calendar, MetaOf
  <2>4. SpaceSettled(v, w)
    BY <1>2, <2>1 DEF Settled
  <2> QED BY <2>2, <2>3, <2>4, SpacePartAt DEF SpaceSettled
<1>5. DOMAIN NewParts(v) = ((IF SummaryDue(v) THEN {"meta", "summary"} ELSE {"meta"}) \X {0})
                             \cup ({"month"} \X DirtyMonths(v)) \cup ({"workspace"} \X DirtySpaces(v))
  BY NewPartsIs
<1>6. /\ NewParts(v)[<<"meta", 0>>] = [current |-> v.current, months |-> Selected(v)]
      /\ SummaryDue(v) => NewParts(v)[<<"summary", 0>>] = Summary(v)
      /\ \A m \in DirtyMonths(v) : NewParts(v)[<<"month", m>>] = MonthPart(v, m)
      /\ \A w \in DirtySpaces(v) : NewParts(v)[<<"workspace", w>>] = SpacePart(v, w)
  BY DEF NewParts, Over, Written
<1>7. SummaryDue(v) \/ <<"summary", 0>> \in DOMAIN v.parts
  BY DEF SummaryDue
<1>8. DOMAIN L = (DOMAIN NewParts(v) \cup DOMAIN v.parts) \ Removed(v)
      /\ \A k \in DOMAIN L : L[k] = IF k \in DOMAIN NewParts(v) THEN NewParts(v)[k] ELSE v.parts[k]
  <2> DEFINE N == NewParts(v)
             P == v.parts
             S == Removed(v)
  <2>1. L = Without(Over(N, P), S)
    BY DEF NextParts
  <2> HIDE DEF L, N, P, S
  <2>3. /\ DOMAIN Without(Over(N, P), S) = (DOMAIN N \cup DOMAIN P) \ S
        /\ \A k \in DOMAIN Without(Over(N, P), S) :
             Without(Over(N, P), S)[k] = IF k \in DOMAIN N THEN N[k] ELSE P[k]
    BY DEF Without, Over
  <2>2. /\ DOMAIN L = (DOMAIN N \cup DOMAIN P) \ S
        /\ \A k \in DOMAIN L : L[k] = IF k \in DOMAIN N THEN N[k] ELSE P[k]
    BY <2>1, <2>3, Zenon
  <2> QED BY <2>2 DEF N, P, S
<1>9. \A k \in Removed(v) : \/ k[1] = "month" /\ k[2] \notin Selected(v)
                            \/ k[1] = "workspace" /\ k[2] \notin v.visible
  BY DEF Removed
<1>10. \A m \in Selected(v) : <<"month", m>> \in DOMAIN L /\ L[<<"month", m>>] = MonthPart(v, m)
  <2> SUFFICES ASSUME NEW m \in Selected(v)
               PROVE  <<"month", m>> \in DOMAIN L /\ L[<<"month", m>>] = MonthPart(v, m)
    OBVIOUS
  <2>1. <<"month", m>> \notin Removed(v)
    BY <1>9
  <2> HIDE DEF L
  <2>2. CASE m \in DirtyMonths(v)
    <3>1. <<"month", m>> \in DOMAIN NewParts(v)
      BY <1>5, <2>2
    <3> QED BY <1>6, <1>8, <2>1, <2>2, <3>1
  <2>3. CASE m \notin DirtyMonths(v)
    <3>1. <<"month", m>> \notin DOMAIN NewParts(v)
      BY <1>5, <2>3
    <3> QED BY <1>3, <1>8, <2>1, <2>3, <3>1
  <2> QED BY <2>2, <2>3
<1>11. \A w \in v.visible : <<"workspace", w>> \in DOMAIN L /\ L[<<"workspace", w>>] = SpacePart(v, w)
  <2> SUFFICES ASSUME NEW w \in v.visible
               PROVE  <<"workspace", w>> \in DOMAIN L /\ L[<<"workspace", w>>] = SpacePart(v, w)
    OBVIOUS
  <2>1. <<"workspace", w>> \notin Removed(v)
    BY <1>9
  <2> HIDE DEF L
  <2>2. CASE w \in DirtySpaces(v)
    <3>1. <<"workspace", w>> \in DOMAIN NewParts(v)
      BY <1>5, <2>2
    <3> QED BY <1>6, <1>8, <2>1, <2>2, <3>1
  <2>3. CASE w \notin DirtySpaces(v)
    <3>1. <<"workspace", w>> \notin DOMAIN NewParts(v)
      BY <1>5, <2>3
    <3> QED BY <1>4, <1>8, <2>1, <2>3, <3>1
  <2> QED BY <2>2, <2>3
<1>12. <<"meta", 0>> \in DOMAIN L /\ L[<<"meta", 0>>] = [current |-> v.current, months |-> Selected(v)]
  <2>1. <<"meta", 0>> \notin Removed(v) /\ <<"meta", 0>> \in DOMAIN NewParts(v)
    BY <1>5, <1>9
  <2> HIDE DEF L
  <2> QED BY <1>6, <1>8, <2>1
<1>13. \A k \in DOMAIN L : \/ k = <<"meta", 0>> \/ k = <<"summary", 0>>
                           \/ k[2] \in Selected(v) /\ k = <<"month", k[2]>>
                           \/ k[2] \in v.visible /\ k = <<"workspace", k[2]>>
  <2> HIDE DEF L
  <2> SUFFICES ASSUME NEW k \in DOMAIN L
               PROVE  \/ k = <<"meta", 0>> \/ k = <<"summary", 0>>
                      \/ k[2] \in Selected(v) /\ k = <<"month", k[2]>>
                      \/ k[2] \in v.visible /\ k = <<"workspace", k[2]>>
    OBVIOUS
  <2>1. CASE k \in DOMAIN NewParts(v)
    BY <1>2, <1>5, <2>1
  <2>2. CASE k \in DOMAIN v.parts
    <3>1. k \notin Removed(v)
      BY <1>8
    <3>2. (k[1] = "month" => k[2] \in Selected(v)) /\ (k[1] = "workspace" => k[2] \in v.visible)
      BY <2>2, <3>1 DEF Removed
    <3>3. \/ k = <<"meta", 0>> \/ k = <<"summary", 0>>
          \/ k[2] \in Months /\ k = <<"month", k[2]>>
          \/ k[2] \in Spaces /\ k = <<"workspace", k[2]>>
      BY <2>2, KeysAre
    <3> QED BY <3>2, <3>3
  <2> QED BY <1>8, <2>1, <2>2
<1>14. <<"summary", 0>> \in DOMAIN L
  <2>1. <<"summary", 0>> \notin Removed(v) /\ (SummaryDue(v) => <<"summary", 0>> \in DOMAIN NewParts(v))
    BY <1>5, <1>9
  <2> HIDE DEF L
  <2> QED BY <1>7, <1>8, <2>1
<1>15. L[<<"summary", 0>>] = [rows |-> SpacesOf(v), extra |-> Extra(v, v.current)]
  <2>1. CASE SummaryDue(v)
    <3> DEFINE W == Without(Over(Written(v), v.parts), Removed(v))
    <3>1. L[<<"summary", 0>>] = Summary(v)
      <4>1. <<"summary", 0>> \in DOMAIN NewParts(v)
        BY <1>5, <2>1
      <4> HIDE DEF L
      <4> QED BY <1>6, <1>8, <1>14, <2>1, <4>1
    <3>2. Summary(v) = [rows |-> SpaceRows(W), extra |-> Extra(v, v.current)]
      BY DEF Summary, Extra
    <3>3. DOMAIN Written(v) = ({"month"} \X DirtyMonths(v)) \cup ({"workspace"} \X DirtySpaces(v))
          /\ \A w \in DirtySpaces(v) : Written(v)[<<"workspace", w>>] = SpacePart(v, w)
      BY DEF Written
    <3>4. DOMAIN W = (DOMAIN Written(v) \cup DOMAIN v.parts) \ Removed(v)
          /\ \A k \in DOMAIN W : W[k] = IF k \in DOMAIN Written(v) THEN Written(v)[k] ELSE v.parts[k]
      BY DEF Without, Over
    <3> HIDE DEF W
    <3>5. \A k \in DOMAIN W : k[1] = "workspace" => \E w \in v.visible : k = <<"workspace", w>>
      <4> SUFFICES ASSUME NEW k \in DOMAIN W, k[1] = "workspace"
                   PROVE  k[2] \in v.visible /\ k = <<"workspace", k[2]>>
        OBVIOUS
      <4>1. CASE k \in DOMAIN Written(v)
        BY <1>2, <3>3, <4>1
      <4>2. CASE k \in DOMAIN v.parts
        <5>1. k \notin Removed(v)
          BY <3>4
        <5>2. k[2] \in v.visible
          BY <4>2, <5>1 DEF Removed
        <5>3. k = <<"workspace", k[2]>>
          BY <4>2, KeysAre
        <5> QED BY <5>2, <5>3
      <4> QED BY <3>4, <4>1, <4>2
    <3>6. ASSUME NEW w \in v.visible
          PROVE  <<"workspace", w>> \in DOMAIN W /\ W[<<"workspace", w>>] = SpacePart(v, w)
      <4>1. <<"workspace", w>> \notin Removed(v)
        BY <1>9
      <4>2. CASE w \in DirtySpaces(v)
        <5>1. <<"workspace", w>> \in DOMAIN Written(v)
          BY <3>3, <4>2
        <5> QED BY <3>3, <3>4, <4>1, <4>2, <5>1
      <4>3. CASE w \notin DirtySpaces(v)
        <5>1. <<"workspace", w>> \notin DOMAIN Written(v)
          BY <3>3, <4>3
        <5> QED BY <1>4, <3>4, <4>1, <4>3, <5>1
      <4> QED BY <4>2, <4>3
    <3>7. SpaceRows(W) = SpacesOf(v)
      BY <3>5, <3>6, SpaceRowsAre
    <3> QED BY <3>1, <3>2, <3>7
  <2>2. CASE ~SummaryDue(v)
    <3>1. ~Full(v) /\ DOMAIN v.scopes = {} /\ ~Calendar(v)
      BY <2>2 DEF SummaryDue, FactDirty
    <3>2. RestSettled(v) /\ MetaOf(v) = v.current /\ \A w \in Spaces : SpaceSettled(v, w)
      BY <3>1 DEF Settled, Calendar, MetaOf
    <3>3. \A w \in Spaces : /\ w \in v.visible <=> <<"workspace", w>> \in DOMAIN v.parts
                            /\ w \in v.visible => v.parts[<<"workspace", w>>] = SpacePart(v, w)
      BY <3>1, <3>2, SpacePartAt DEF SpaceSettled
    <3>4. \A k \in DOMAIN v.parts : k[1] = "workspace" => k[2] \in v.visible /\ k = <<"workspace", k[2]>>
      <4> SUFFICES ASSUME NEW k \in DOMAIN v.parts, k[1] = "workspace"
                   PROVE  k[2] \in v.visible /\ k = <<"workspace", k[2]>>
        OBVIOUS
      <4>1. k[2] \in Spaces /\ k = <<"workspace", k[2]>>
        BY KeysAre
      <4> QED BY <3>3, <4>1
    <3>5. SpaceRows(v.parts) = SpacesOf(v)
      <4> DEFINE f == v.parts
      <4>1. \A k \in DOMAIN f : k[1] = "workspace" => \E w \in v.visible : k = <<"workspace", w>>
        BY <3>4
      <4>2. \A w \in v.visible : <<"workspace", w>> \in DOMAIN f /\ f[<<"workspace", w>>] = SpacePart(v, w)
        BY <1>2, <3>3
      <4> HIDE DEF f
      <4>3. SpaceRows(f) = SpacesOf(v)
        BY <4>1, <4>2, SpaceRowsAre
      <4> QED BY <4>3 DEF f
    <3>6. L[<<"summary", 0>>] = v.parts[<<"summary", 0>>]
      <4>1. <<"summary", 0>> \notin DOMAIN NewParts(v)
        BY <1>5, <2>2
      <4> HIDE DEF L
      <4> QED BY <1>8, <1>14, <4>1
    <3> QED BY <3>2, <3>5, <3>6 DEF RestSettled
  <2> QED BY <2>1, <2>2
<1>16. L = [k \in DOMAIN L |-> L[k]]
  BY DEF NextParts, Without
<1> HIDE DEF L
<1>17. DOMAIN L = ImageKeys(v)
  <2>1. ASSUME NEW k \in DOMAIN L PROVE k \in ImageKeys(v)
    BY <1>1, <1>13, <2>1 DEF ImageKeys
  <2>2. ASSUME NEW k \in ImageKeys(v) PROVE k \in DOMAIN L
    BY <1>1, <1>10, <1>11, <1>12, <1>14, <2>2 DEF ImageKeys
  <2> QED BY <2>1, <2>2
<1>18. \A k \in ImageKeys(v) : L[k] = Image(v)[k]
  <2> SUFFICES ASSUME NEW k \in ImageKeys(v) PROVE L[k] = Image(v)[k]
    OBVIOUS
  <2>1. CASE k = <<"meta", 0>>
    BY <1>1, <1>12, <2>1 DEF Image
  <2>2. CASE k = <<"summary", 0>>
    BY <1>15, <2>2 DEF Image
  <2>3. CASE k[2] \in Selected(v) /\ k = <<"month", k[2]>>
    <3>1. k[1] = "month" /\ Image(v)[k] = MonthPart(v, k[2])
      BY <2>3 DEF Image
    <3>2. L[<<"month", k[2]>>] = MonthPart(v, k[2])
      BY <1>10, <2>3
    <3> QED BY <2>3, <3>1, <3>2
  <2>4. CASE k[2] \in v.visible /\ k = <<"workspace", k[2]>>
    <3>1. k[1] = "workspace" /\ Image(v)[k] = SpacePart(v, k[2])
      BY <2>4 DEF Image
    <3>2. L[<<"workspace", k[2]>>] = SpacePart(v, k[2])
      BY <1>11, <2>4
    <3> QED BY <2>4, <3>1, <3>2
  <2> QED BY <1>13, <1>17, <2>1, <2>2, <2>3, <2>4
<1> QED
  BY <1>16, <1>17, <1>18 DEF Image, L

Shape(d) == /\ d.counts \in [Buckets -> Nat] /\ d.visible \subseteq Spaces /\ DOMAIN d.parts \subseteq PartKeys
            /\ DOMAIN d.scopes \subseteq ScopeKeys

LEMMA ImageIs ==
  ASSUME NEW v, v.visible \subseteq Spaces, NEW e, e.parts = Image(v)
  PROVE  /\ {<<"summary", 0>>, <<"meta", 0>>} \subseteq DOMAIN e.parts
         /\ e.parts[<<"meta", 0>>] = [current |-> v.current, months |-> AvailableMonths(v)]
         /\ e.parts[<<"summary", 0>>] = [rows |-> SpaceRows(e.parts), extra |-> Extra(v, v.current)]
         /\ Headers(e, "month") = AvailableMonths(v)
         /\ \A m \in AvailableMonths(v) : e.parts[<<"month", m>>] = MonthPart(v, m)
         /\ \A w : w \in v.visible <=> <<"workspace", w>> \in DOMAIN e.parts
         /\ \A w \in v.visible : e.parts[<<"workspace", w>>] = SpacePart(v, w)
         /\ DOMAIN e.parts \subseteq PartKeys
<1> DEFINE f == Image(v)
<1>1. /\ DOMAIN f = ({"meta", "summary"} \X {0}) \cup ({"month"} \X AvailableMonths(v))
                      \cup ({"workspace"} \X v.visible)
      /\ f[<<"meta", 0>>] = [current |-> v.current, months |-> AvailableMonths(v)]
      /\ f[<<"summary", 0>>] = [rows |-> SpacesOf(v), extra |-> Extra(v, v.current)]
  BY DEF Image, ImageKeys
<1>2. ASSUME NEW m \in AvailableMonths(v) PROVE f[<<"month", m>>] = MonthPart(v, m)
  BY DEF Image, ImageKeys
<1>3. ASSUME NEW w \in v.visible PROVE f[<<"workspace", w>>] = SpacePart(v, w)
  BY DEF Image, ImageKeys
<1>4. AvailableMonths(v) \in SUBSET Months
  BY DEF AvailableMonths, Highest, MonthsOf
<1> HIDE DEF f
<1>5. SpaceRows(f) = SpacesOf(v)
  <2>1. \A k \in DOMAIN f : k[1] = "workspace" => \E w \in v.visible : k = <<"workspace", w>>
    BY <1>1
  <2>2. \A w \in v.visible : <<"workspace", w>> \in DOMAIN f /\ f[<<"workspace", w>>] = SpacePart(v, w)
    BY <1>1, <1>3
  <2> QED BY <2>1, <2>2, SpaceRowsAre
<1>6. {k[2] : k \in {k \in DOMAIN f : k[1] = "month"}} = AvailableMonths(v)
  <2>1. ASSUME NEW m \in AvailableMonths(v) PROVE m \in {k[2] : k \in {k \in DOMAIN f : k[1] = "month"}}
    <3> DEFINE k == <<"month", m>>
    <3>1. k \in DOMAIN f /\ k[1] = "month" /\ k[2] = m
      BY <1>1
    <3> QED BY <3>1
  <2>2. \A k \in DOMAIN f : k[1] = "month" => k[2] \in AvailableMonths(v)
    BY <1>1
  <2> QED BY <2>1, <2>2
<1>7. Headers(e, "month") = AvailableMonths(v)
  BY <1>6 DEF Headers, f
<1>8. DOMAIN f \subseteq PartKeys
  BY <1>1, <1>4 DEF PartKeys
<1>9. \A w : w \in v.visible <=> <<"workspace", w>> \in DOMAIN f
  BY <1>1
<1>10. e.parts = f
  BY DEF f
<1>11. {<<"summary", 0>>, <<"meta", 0>>} \subseteq DOMAIN f
  BY <1>1
<1> QED
  BY <1>1, <1>2, <1>3, <1>5, <1>7, <1>8, <1>9, <1>10, <1>11

(* What is settled stays so while every change of a counter or of the      *)
(* visible libraries is named by a dirty scope.                            *)
Covered(d, e) ==
  /\ e.parts = d.parts /\ DOMAIN d.scopes \subseteq DOMAIN e.scopes
  /\ \A b \in Buckets : e.counts[b] # d.counts[b] =>
       /\ <<"workspace", b[2]>> \in DOMAIN e.scopes /\ <<"summary", 0>> \in DOMAIN e.scopes
       /\ b[1] \in {"uploads", "reviews"} => <<"month", b[3]>> \in DOMAIN e.scopes
  /\ \A w \in Spaces : (w \in e.visible) # (w \in d.visible) => <<"registry", w>> \in DOMAIN e.scopes

LEMMA MonthCounts ==
  ASSUME NEW w \in Spaces, NEW m \in Months, NEW t \in {"uploads", "reviews"}
  PROVE  <<t, w, m>> \in Buckets
BY DEF Buckets

LEMMA SameMonthPart ==
  ASSUME NEW d, NEW e, Shape(d), Shape(e), Covered(d, e), NEW m \in Months,
         <<"month", m>> \notin DOMAIN e.scopes, m \notin MonthsOf(e, Keyed(e, "registry"))
  PROVE  MonthPart(e, m) = MonthPart(d, m)
<1>1. ASSUME NEW w \in Spaces, NEW t \in {"uploads", "reviews"}
      PROVE  /\ e.counts[<<t, w, m>>] = d.counts[<<t, w, m>>]
             /\ (w \in e.visible) # (w \in d.visible) => d.counts[<<t, w, m>>] = 0
  <2> DEFINE b == <<t, w, m>>
  <2>1. b \in Buckets /\ b[1] \in {"uploads", "reviews"} /\ b[3] = m
    BY MonthCounts
  <2>2. e.counts[b] = d.counts[b]
    BY <2>1 DEF Covered
  <2>3. ASSUME (w \in e.visible) # (w \in d.visible), d.counts[b] # 0 PROVE FALSE
    <3>1. <<"registry", w>> \in DOMAIN e.scopes
      BY <2>3 DEF Covered
    <3>2. w \in Keyed(e, "registry")
      BY <3>1 DEF Keyed
    <3>3. e.counts[b] \in Nat
      BY <2>1 DEF Shape
    <3>4. e.counts[b] > 0
      BY <2>2, <2>3, <3>3
    <3> QED BY <3>2, <3>4 DEF MonthsOf
  <2> QED BY <2>2, <2>3
<1>2. Shape(d) /\ Shape(e)
  OBVIOUS
<1>3. d.visible \subseteq Spaces /\ e.visible \subseteq Spaces
  BY DEF Shape
<1>4. ASSUME NEW t \in {"uploads", "reviews"}, NEW w \in Spaces
      PROVE  w \in e.visible /\ e.counts[<<t, w, m>>] # 0 <=> w \in d.visible /\ d.counts[<<t, w, m>>] # 0
  BY <1>1
<1> DEFINE T == {"uploads", "reviews"}
           BE == {b \in T \X e.visible \X {m} : e.counts[b] # 0}
           BD == {b \in T \X d.visible \X {m} : d.counts[b] # 0}
<1>5. ASSUME NEW b PROVE b \in BE <=> b \in BD
  <2>1. ASSUME b \in BE PROVE b \in BD
    <3>1. PICK t \in T, w \in e.visible : b = <<t, w, m>>
      BY <2>1
    <3>2. w \in Spaces
      BY <1>3
    <3> QED BY <1>4, <2>1, <3>1, <3>2
  <2>2. ASSUME b \in BD PROVE b \in BE
    <3>1. PICK t \in T, w \in d.visible : b = <<t, w, m>>
      BY <2>2
    <3>2. w \in Spaces
      BY <1>3
    <3> QED BY <1>4, <2>2, <3>1, <3>2
  <2> QED BY <2>1, <2>2
<1>6. \A b \in BD : e.counts[b] = d.counts[b]
  <2> SUFFICES ASSUME NEW b \in BD PROVE e.counts[b] = d.counts[b]
    OBVIOUS
  <2>1. PICK t \in T, w \in d.visible : b = <<t, w, m>>
    OBVIOUS
  <2> QED BY <1>1, <1>3, <2>1
<1>7. MonthPart(e, m) = {<<b, e.counts[b]>> : b \in BE} /\ MonthPart(d, m) = {<<b, d.counts[b]>> : b \in BD}
  BY DEF MonthPart, Rows
<1> HIDE DEF BE, BD
<1>8. BE = BD
  BY <1>5
<1> QED
  BY <1>6, <1>7, <1>8

LEMMA SettledGrows ==
  ASSUME NEW d, NEW e, Shape(d), Shape(e), Covered(d, e), Settled(d), ~Full(e)
  PROVE  Settled(e)
<1>1. e.parts = d.parts /\ DOMAIN d.scopes \subseteq DOMAIN e.scopes
  BY DEF Covered
<1>2. ~Full(d)
  BY <1>1 DEF Full
<1>3. /\ <<"meta", 0>> \in DOMAIN d.parts /\ MetaOf(d) \in Months /\ MetaOf(e) = MetaOf(d)
      /\ DOMAIN d.scopes = {} => RestSettled(d)
      /\ \A m \in Headers(d, "month") : MonthSettled(d, m)
      /\ \A w \in Spaces : SpaceSettled(d, w)
      /\ Headers(e, "month") = Headers(d, "month")
  BY <1>1, <1>2 DEF Settled, MetaOf, Headers
<1>4. ASSUME DOMAIN e.scopes = {} PROVE RestSettled(e)
  <2>1. \A b \in Buckets : e.counts[b] = d.counts[b]
    BY <1>4 DEF Covered
  <2>2. e.counts = d.counts
    BY <2>1 DEF Shape
  <2>3. e.visible = d.visible
    BY <1>4 DEF Covered, Shape
  <2>4. RestSettled(d)
    BY <1>1, <1>3, <1>4
  <2>5. AvailableMonths(e) = AvailableMonths(d)
    BY <2>2, <2>3 DEF AvailableMonths, MonthsOf
  <2>6. Extra(e, MetaOf(e)) = Extra(d, MetaOf(d))
    BY <1>3, <2>2, <2>3 DEF Extra, Rows
  <2> QED BY <1>1, <1>3, <2>4, <2>5, <2>6 DEF RestSettled
<1>5. ASSUME NEW m \in Headers(d, "month") PROVE MonthSettled(e, m)
  <2> SUFFICES ASSUME <<"month", m>> \notin DOMAIN e.scopes, m \notin MonthsOf(e, Keyed(e, "registry"))
               PROVE  d.parts[<<"month", m>>] = MonthPart(e, m)
    BY <1>1 DEF MonthSettled
  <2>0. m \in Months
    <3>1. PICK k \in DOMAIN d.parts : k[1] = "month" /\ k[2] = m
      BY DEF Headers
    <3> QED BY <3>1 DEF Shape, PartKeys
  <2>1. MonthPart(e, m) = MonthPart(d, m)
    BY <2>0, SameMonthPart
  <2>2. m \notin MonthsOf(d, Keyed(d, "registry"))
    <3> SUFFICES ASSUME NEW w \in Keyed(d, "registry"), NEW t \in {"uploads", "reviews"},
                        d.counts[<<t, w, m>>] > 0
                 PROVE  FALSE
      BY DEF MonthsOf
    <3>1. w \in Keyed(e, "registry")
      BY <1>1 DEF Keyed
    <3>2. w \in Spaces
      <4>1. PICK k \in DOMAIN d.scopes : k[1] = "registry" /\ k[2] = w
        BY DEF Keyed
      <4>2. k \in ScopeKeys
        BY <4>1 DEF Shape
      <4> QED BY <4>1, <4>2 DEF ScopeKeys
    <3> DEFINE b == <<t, w, m>>
    <3>3. b \in Buckets /\ b[1] \in {"uploads", "reviews"} /\ b[3] = m
      BY <2>0, <3>2, MonthCounts
    <3>4. e.counts[b] = d.counts[b]
      BY <3>3 DEF Covered
    <3> QED BY <2>0, <3>1, <3>4 DEF MonthsOf
  <2> QED BY <1>1, <1>3, <2>1, <2>2 DEF MonthSettled
<1>6. ASSUME NEW w \in Spaces PROVE SpaceSettled(e, w)
  <2> SUFFICES ASSUME <<"workspace", w>> \notin DOMAIN e.scopes, <<"registry", w>> \notin DOMAIN e.scopes
               PROVE  SpaceSettled(e, w)
    BY DEF SpaceSettled
  <2>1. /\ w \in d.visible <=> <<"workspace", w>> \in DOMAIN d.parts
        /\ w \in d.visible => d.parts[<<"workspace", w>>] = SpaceAt(d, w, MetaOf(d))
    BY <1>1, <1>3 DEF SpaceSettled
  <2>2. w \in e.visible <=> w \in d.visible
    BY DEF Covered
  <2> DEFINE B == {<<"files", w, 0>>, <<"uploads", w, MetaOf(d)>>} \cup ({"reviews"} \X {w} \X Months)
  <2>3. \A b \in B : b \in Buckets /\ b[2] = w
    BY <1>3 DEF Buckets
  <2>4. \A b \in B : e.counts[b] = d.counts[b]
    BY <2>3 DEF Covered
  <2>5. SpaceAt(e, w, MetaOf(e)) = Rows(e, B) /\ SpaceAt(d, w, MetaOf(d)) = Rows(d, B)
    BY <1>3 DEF SpaceAt
  <2> HIDE DEF B
  <2>6. Rows(e, B) = Rows(d, B)
    BY <2>4 DEF Rows
  <2> QED BY <1>1, <1>3, <2>1, <2>2, <2>5, <2>6 DEF SpaceSettled
<1> QED
  BY <1>1, <1>3, <1>4, <1>5, <1>6 DEF Settled

LEMMA CountedTouched ==
  ASSUME NEW f \in Fact, NEW b \in Counted(f)
  PROVE  /\ <<"workspace", b[2]>> \in Touched(f) /\ <<"summary", 0>> \in Touched(f)
         /\ b[1] \in {"uploads", "reviews"} => <<"month", b[3]>> \in Touched(f)
<1>1. f # None
  BY DEF Counted
<1>2. CASE b = <<"files", f.ws, 0>> \/ b = <<"undated", f.ws, 0>>
  BY <1>1, <1>2 DEF Touched
<1>3. CASE f.day # None /\ b = <<"uploads", f.ws, f.day>>
  BY <1>1, <1>3 DEF Touched
<1>4. CASE f.quality # None /\ b = <<"reviews", f.ws, f.quality>>
  BY <1>1, <1>4 DEF Touched
<1> QED
  BY <1>1, <1>2, <1>3, <1>4 DEF Counted

(* The counters that a projection moves are named by the scopes it queues. *)
LEMMA ApplyCovers ==
  ASSUME NEW d, NEW v, DbGood(d), DbGood(v), NEW ids \in SUBSET Nodes,
         ~Negative(d, v, ProjectionRows(v, ids)), NEW e, DbGood(e),
         LET a == ApplyProjections(d, v, ProjectionRows(v, ids))
         IN  e.counts = a.counts /\ e.scopes = a.scopes /\ e.parts = a.parts /\ e.visible = a.visible
  PROVE  Covered(d, e)
<1> DEFINE new == ProjectionRows(v, ids)
           C == Moving(v, ids)
<1>1. /\ e.counts = Moved(d, v, new) /\ e.scopes = Enqueue(d.scopes, NewKeys(v, ids))
      /\ e.parts = d.parts /\ e.visible = d.visible
  BY ApplyIs
<1>2. DOMAIN e.scopes = DOMAIN d.scopes \cup NewKeys(v, ids)
  BY <1>1 DEF Enqueue
<1>3. ASSUME NEW b \in Buckets, e.counts[b] # d.counts[b]
      PROVE  \E n \in C : b \in Counted(Projected(v, n)) \/ b \in Counted(v.fact[n])
  <2> SUFFICES ASSUME \A n \in C : b \notin Counted(Projected(v, n)) /\ b \notin Counted(v.fact[n])
               PROVE  e.counts[b] = d.counts[b]
    BY <1>3
  <2>1. Moved(d, v, new)[b] = d.counts[b] + Cardinality({n \in C : b \in Counted(new[n])})
                                         - Cardinality({n \in C : b \in Counted(v.fact[n])})
    BY DEF Moved, Moving
  <2>2. \A n \in C : new[n] = Projected(v, n)
    BY DEF Moving, Changed, ProjectionRows
  <2>3. {n \in C : b \in Counted(new[n])} = {} /\ {n \in C : b \in Counted(v.fact[n])} = {}
    BY <2>2
  <2>4. d.counts[b] \in Nat
    BY DEF DbGood, DbOK
  <2>5. Moved(d, v, new)[b] = d.counts[b] + 0 - 0
    BY <2>1, <2>3, FS_EmptySet
  <2> QED BY <1>1, <2>4, <2>5
<1>4. ASSUME NEW b \in Buckets, e.counts[b] # d.counts[b]
      PROVE  /\ <<"workspace", b[2]>> \in DOMAIN e.scopes /\ <<"summary", 0>> \in DOMAIN e.scopes
             /\ b[1] \in {"uploads", "reviews"} => <<"month", b[3]>> \in DOMAIN e.scopes
  <2>1. PICK n \in C : b \in Counted(Projected(v, n)) \/ b \in Counted(v.fact[n])
    BY <1>3, <1>4
  <2>2. n \in Nodes
    BY DEF Moving, Changed, ProjectionRows
  <2>3. Projected(v, n) \in Fact /\ v.fact[n] \in Fact
    BY <2>2, ProjectedIs DEF DbGood, DbOK
  <2>4. Touched(Projected(v, n)) \subseteq NewKeys(v, ids) /\ Touched(v.fact[n]) \subseteq NewKeys(v, ids)
    BY <2>1 DEF NewKeys
  <2> HIDE DEF C
  <2>5. PICK f \in Fact : b \in Counted(f) /\ Touched(f) \subseteq NewKeys(v, ids)
    BY <2>1, <2>3, <2>4
  <2>6. /\ <<"workspace", b[2]>> \in Touched(f) /\ <<"summary", 0>> \in Touched(f)
        /\ b[1] \in {"uploads", "reviews"} => <<"month", b[3]>> \in Touched(f)
    BY <2>5, CountedTouched
  <2> QED BY <1>2, <2>5, <2>6
<1> QED
  BY <1>1, <1>2, <1>4 DEF Covered

(* What a publication that read v leaves is settled: what changed since is *)
(* named by scopes that it does not consume.                               *)
LEMMA ImageSettles ==
  ASSUME NEW v, DbOK(v), NEW e, Shape(e), e.parts = Image(v), e.counts = v.counts,
         \A w \in Spaces : (w \in e.visible) # (w \in v.visible) => <<"registry", w>> \in DOMAIN e.scopes
  PROVE  Settled(e)
<1> SUFFICES ASSUME ~Full(e) PROVE Settled(e)
  BY DEF Settled
<1> DEFINE u == [parts |-> Image(v), scopes |-> <<>>, counts |-> v.counts, visible |-> v.visible]
<1>1. u.parts = Image(v) /\ DOMAIN u.scopes = {} /\ u.counts = v.counts /\ u.visible = v.visible
  OBVIOUS
<1> HIDE DEF u
<1>2. v.visible \subseteq Spaces /\ v.counts \in [Buckets -> Nat] /\ v.current \in Months
  BY DEF DbOK
<1>3. /\ {<<"summary", 0>>, <<"meta", 0>>} \subseteq DOMAIN u.parts
      /\ u.parts[<<"meta", 0>>] = [current |-> v.current, months |-> AvailableMonths(v)]
      /\ u.parts[<<"summary", 0>>] = [rows |-> SpaceRows(u.parts), extra |-> Extra(v, v.current)]
      /\ Headers(u, "month") = AvailableMonths(v)
      /\ \A m \in AvailableMonths(v) : u.parts[<<"month", m>>] = MonthPart(v, m)
      /\ \A w : w \in v.visible <=> <<"workspace", w>> \in DOMAIN u.parts
      /\ \A w \in v.visible : u.parts[<<"workspace", w>>] = SpacePart(v, w)
      /\ DOMAIN u.parts \subseteq PartKeys
  BY <1>1, <1>2, ImageIs
<1>4. MetaOf(u) = v.current
  BY <1>3 DEF MetaOf
<1>5. AvailableMonths(u) = AvailableMonths(v)
  BY <1>1 DEF AvailableMonths, MonthsOf
<1>6. Extra(u, v.current) = Extra(v, v.current)
  BY <1>1 DEF Extra, Rows
<1>7. RestSettled(u)
  BY <1>3, <1>4, <1>5, <1>6 DEF RestSettled
<1>8. \A m \in Headers(u, "month") : MonthSettled(u, m)
  <2>1. \A m : MonthPart(u, m) = MonthPart(v, m)
    BY <1>1 DEF MonthPart, Rows
  <2> QED BY <1>3, <2>1 DEF MonthSettled
<1>9. \A w \in Spaces : SpaceSettled(u, w)
  <2>1. \A w : SpacePart(v, w) = SpaceAt(u, w, v.current)
    BY <1>1 DEF SpacePart, SpaceAt, Rows
  <2> QED BY <1>1, <1>3, <1>4, <2>1 DEF SpaceSettled
<1>10. Settled(u)
  BY <1>2, <1>3, <1>4, <1>7, <1>8, <1>9 DEF Settled
<1>11. Covered(u, e)
  BY <1>1 DEF Covered
<1>12. Shape(u)
  BY <1>1, <1>2, <1>3 DEF Shape
<1> QED
  BY <1>10, <1>11, <1>12, SettledGrows

(* Partitions: in every state the incremental publication is the full one. *)
PartInv ==
  /\ FactInv /\ FramesValidate /\ Settled(db)
  /\ \A p \in Publishers : proc[p].pc \in Reading => Settled(proc[p].view)

LEMMA ShapeOf ==
  ASSUME NEW d, DbGood(d)
  PROVE  Shape(d) /\ DbOK(d)
BY DEF DbGood, DbOK, IsQueue, Shape

LEMMA CoveredStep ==
  ASSUME DbGood(db), DbGood(db'), FramesValidate, Settled(db), Covered(db, db')
  PROVE  FramesValidate' /\ Settled(db')
<1>1. Settled(db')
  <2>1. CASE Full(db')
    BY <2>1 DEF Settled
  <2>2. CASE ~Full(db')
    BY <2>2, ShapeOf, SettledGrows
  <2> QED BY <2>1, <2>2
<1>2. db'.parts = db.parts
  BY DEF Covered
<1> QED
  BY <1>1, <1>2 DEF FramesValidate, Headers

LEMMA ViewsAre ==
  ASSUME Base, [Next]_vars
  PROVE  \A q \in Publishers : proc'[q].pc \in Reading =>
           \/ proc[q].pc \in Reading /\ proc'[q].view = proc[q].view
           \/ proc'[q].view = db
<1>1. ASSUME NEW p \in Publishers,
             \/ Enter(p) \/ Leave(p) \/ Skip(p) \/ Plan(p) \/ FailIdentity(p) \/ Crash(p)
             \/ Project(p) \/ Seed(p) \/ Rebuild(p) \/ Publish(p)
      PROVE  \A q \in Publishers : proc'[q].pc \in Reading => proc'[q] = proc[q]
  <2>1. \E pc \in {"out", "in", "done", "identity", "turn"} :
          \E s : proc' = [proc EXCEPT ![p] = [pc |-> pc, view |-> None, versions |-> s]]
    BY <1>1 DEF Plan, Enter, Leave, Skip, FailIdentity, Crash, Project, Seed, Rebuild, Publish, Goto, Idle
  <2> QED BY <2>1 DEF Base, Reading
<1>2. ASSUME NEW p \in Publishers, BeginProject(p) \/ BeginSeed(p) \/ BeginPublish(p)
      PROVE  \A q \in Publishers : proc'[q] = proc[q] \/ proc'[q].view = db
  <2>1. \E pc : proc' = [proc EXCEPT ![p].pc = pc, ![p].view = db]
    BY <1>2 DEF BeginProject, BeginSeed, BeginPublish, Begin
  <2> QED BY <2>1 DEF Base
<1>3. CASE Collector \/ LoseLock \/ UNCHANGED vars
  BY <1>3, CollectorIs DEF LoseLock, vars
<1> QED
  BY <1>1, <1>2, <1>3 DEF Next, Collector

LEMMA PublishSettles ==
  ASSUME PartInv, Base', NEW p \in Publishers, Publish(p)
  PROVE  FramesValidate' /\ Settled(db')
<1> DEFINE v == proc[p].view
<1>1. /\ DbGood(v) /\ DbGood(db) /\ DbGood(db') /\ Collected(v, db) /\ Settled(v)
      /\ db' = PublishPartitions(db, v, proc[p].versions)
  BY DEF PartInv, FactInv, Base, TypeOK, DbGood, Fresh, Publish, At, Reading
<1>2. v.parts = db.parts /\ v.counts = db.counts
  BY <1>1 DEF Collected
<1> HIDE DEF v
<1>3. CASE db' = db
  BY <1>3 DEF PartInv, FramesValidate, Headers
<1>4. CASE db' = [db EXCEPT !.parts = Without(Over(NewParts(v), @), Removed(v)),
                            !.scopes = Consume(@, v.scopes)]
  <2> DEFINE parts == NextParts(v)
             scopes == Consume(db.scopes, v.scopes)
  <2>1. db' = [db EXCEPT !.parts = parts, !.scopes = scopes]
    BY <1>2, <1>4 DEF NextParts
  <2>2. parts = Image(v)
    BY <1>1, NextPartsAre DEF DbGood
  <2> HIDE DEF parts, scopes
  <2>3. /\ db'.parts = parts /\ db'.scopes = scopes /\ db'.visible = db.visible /\ db'.counts = db.counts
    BY <1>1, <2>1 DEF DbGood, Row, Fields
  <2>4. ASSUME NEW w \in Spaces, (w \in db'.visible) # (w \in v.visible)
        PROVE  <<"registry", w>> \in DOMAIN db'.scopes
    <3> DEFINE k == <<"registry", w>>
    <3>1. k \in DOMAIN db.scopes /\ (k \in DOMAIN v.scopes => db.scopes[k] > v.scopes[k])
      BY <1>1, <2>3, <2>4 DEF Collected
    <3> HIDE DEF k
    <3>2. k \in DOMAIN v.scopes => v.scopes[k] \in Nat
      BY <1>1 DEF DbGood, DbOK, IsQueue
    <3>3. k \in DOMAIN v.scopes => db.scopes[k] # v.scopes[k]
      BY <3>1, <3>2
    <3>4. k \in DOMAIN scopes
      BY <3>1, <3>3 DEF scopes, Consume
    <3> QED BY <2>3, <3>4 DEF k
  <2>5. Settled(db')
    BY <1>1, <1>2, <2>2, <2>3, <2>4, ImageSettles, ShapeOf
  <2>6. FramesValidate'
    <3>1. v.visible \subseteq Spaces
      BY <1>1 DEF DbGood, DbOK
    <3> DEFINE e == db'
    <3>0. e.parts = Image(v)
      BY <2>2, <2>3
    <3> HIDE DEF e
    <3>3. /\ {<<"summary", 0>>, <<"meta", 0>>} \subseteq DOMAIN e.parts
          /\ e.parts[<<"meta", 0>>] = [current |-> v.current, months |-> AvailableMonths(v)]
          /\ e.parts[<<"summary", 0>>] = [rows |-> SpaceRows(e.parts), extra |-> Extra(v, v.current)]
          /\ Headers(e, "month") = AvailableMonths(v)
      BY <3>0, <3>1, ImageIs
    <3>2. /\ {<<"summary", 0>>, <<"meta", 0>>} \subseteq DOMAIN db'.parts
          /\ db'.parts[<<"meta", 0>>].months = AvailableMonths(v)
          /\ db'.parts[<<"summary", 0>>].rows = SpaceRows(db'.parts)
          /\ Headers(db', "month") = AvailableMonths(v)
      BY <3>3 DEF e
    <3> QED BY <3>2 DEF FramesValidate
  <2> QED BY <2>5, <2>6
<1> QED
  BY <1>1, <1>3, <1>4 DEF PublishPartitions

LEMMA PartInit == Init => PartInv
<1> SUFFICES ASSUME Init PROVE PartInv
  OBVIOUS
<1>1. db.parts = <<>>
  BY DEF Init
<1>2. Settled(db) /\ FramesValidate
  BY <1>1 DEF Settled, Full, FramesValidate
<1>3. \A p \in Publishers : proc[p].pc \notin Reading
  BY DEF Init, Idle, Reading
<1> QED
  BY <1>2, <1>3, InvInit DEF PartInv

LEMMA PartStep == PartInv /\ Exclusive /\ [Next]_vars => PartInv'
<1> SUFFICES ASSUME PartInv, Exclusive, [Next]_vars PROVE PartInv'
  OBVIOUS
<1>1. /\ FactInv' /\ Base /\ Base' /\ DbGood(db) /\ DbGood(db') /\ Settled(db) /\ FramesValidate
  BY InvStep DEF PartInv, FactInv, Base, TypeOK, DbGood
<1>2. \A q \in Publishers : proc'[q].pc \in Reading => Settled(proc'[q].view)
  <2> SUFFICES ASSUME NEW q \in Publishers, proc'[q].pc \in Reading PROVE Settled(proc'[q].view)
    OBVIOUS
  <2>1. \/ proc[q].pc \in Reading /\ proc'[q].view = proc[q].view
        \/ proc'[q].view = db
    BY <1>1, ViewsAre
  <2> QED BY <2>1 DEF PartInv
<1>3. FramesValidate' /\ Settled(db')
  <2>1. ASSUME NEW p \in Publishers, Publish(p) PROVE FramesValidate' /\ Settled(db')
    BY <1>1, <2>1, PublishSettles
  <2>2. ASSUME NEW p \in Publishers, Project(p) PROVE FramesValidate' /\ Settled(db')
    <3> DEFINE v == proc[p].view
    <3>1. DbGood(v)
      BY <1>1, <2>2 DEF Base, Project, At, Reading
    <3>2. PICK batch \in Batches(v) :
            db' = IF ~v.seeded \/ Negative(db, v, ProjectionRows(v, batch))
                  THEN db ELSE ProjectDirty(db, v, batch)
      BY <2>2 DEF Project
    <3>3. batch \in SUBSET Nodes
      BY <3>1 DEF Batches, DbGood, DbOK, IsQueue
    <3> HIDE DEF v
    <3>4. CASE db' = db
      BY <1>1, <3>4 DEF FramesValidate, Headers
    <3>5. CASE ~Negative(db, v, ProjectionRows(v, batch)) /\ db' = ProjectDirty(db, v, batch)
      <4> DEFINE a == ApplyProjections(db, v, ProjectionRows(v, batch))
      <4>1. db'.counts = a.counts /\ db'.scopes = a.scopes /\ db'.parts = db.parts /\ db'.visible = db.visible
        BY <1>1, <3>1, <3>3, <3>5, ProjectDirtyIs
      <4>2. a.parts = db.parts /\ a.visible = db.visible
        BY <1>1, <3>1, <3>3, <3>5, ApplyIs
      <4> HIDE DEF a
      <4>3. db'.counts = a.counts /\ db'.scopes = a.scopes /\ db'.parts = a.parts /\ db'.visible = a.visible
        BY <4>1, <4>2
      <4>4. Covered(db, db')
        BY <1>1, <3>1, <3>3, <3>5, <4>3, ApplyCovers DEF a
      <4> QED BY <1>1, <4>4, CoveredStep
    <3> QED BY <3>2, <3>4, <3>5
  <2>3. ASSUME NEW p \in Publishers, Seed(p) PROVE FramesValidate' /\ Settled(db')
    <3> DEFINE v == proc[p].view
               ids == SeedIds(v)
    <3>1. DbGood(v) /\ db' = SeedSlice(db, v)
      BY <1>1, <2>3 DEF Base, Seed, At, Reading
    <3>3. ids \in SUBSET Nodes
      BY SeedIdsIs
    <3> HIDE DEF v
    <3>4. CASE v.seeded \/ Negative(db, v, ProjectionRows(v, ids))
      BY <1>1, <3>1, <3>4 DEF FramesValidate, Headers, SeedSlice
    <3>5. CASE ~Negative(db, v, ProjectionRows(v, ids)) /\ ~v.seeded /\ ids = {}
      <4> DEFINE scopes == Enqueue(db.scopes, {<<"all", 0>>})
      <4>1. db' = [db EXCEPT !.seeded = TRUE, !.scopes = scopes]
        BY <3>1, <3>5 DEF SeedSlice
      <4>2. DOMAIN db.scopes \subseteq DOMAIN scopes
        BY DEF Enqueue
      <4> HIDE DEF scopes
      <4>3. db'.scopes = scopes /\ db'.parts = db.parts /\ db'.counts = db.counts /\ db'.visible = db.visible
        BY <1>1, <4>1 DEF DbGood, Row, Fields
      <4>4. Covered(db, db')
        BY <4>2, <4>3 DEF Covered
      <4> QED BY <1>1, <4>4, CoveredStep
    <3>6. CASE ~Negative(db, v, ProjectionRows(v, ids)) /\ ~v.seeded /\ ids # {}
      <4> DEFINE a == ApplyProjections(db, v, ProjectionRows(v, ids))
                 c == CHOOSE n \in ids : \A m \in ids : m <= n
      <4>1. db' = [a EXCEPT !.cursor = c]
        BY <3>1, <3>6 DEF SeedSlice
      <4>2. DbGood(a)
        BY <1>1, <3>1, <3>3, <3>6, ApplyIs
      <4> HIDE DEF a, c, ids
      <4>3. db'.counts = a.counts /\ db'.scopes = a.scopes /\ db'.parts = a.parts /\ db'.visible = a.visible
        BY <4>1, <4>2 DEF DbGood, Row, Fields
      <4>4. Covered(db, db')
        BY <1>1, <3>1, <3>3, <3>6, <4>3, ApplyCovers DEF a
      <4> QED BY <1>1, <4>4, CoveredStep
    <3> QED BY <3>4, <3>5, <3>6
  <2>4. ASSUME NEW p \in Publishers, Rebuild(p) PROVE FramesValidate' /\ Settled(db')
    <3> DEFINE scopes == Enqueue(db.scopes, {<<"all", 0>>})
    <3>1. db' = [db EXCEPT !.scopes = scopes]
      BY <2>4 DEF Rebuild
    <3>2. DOMAIN db.scopes \subseteq DOMAIN scopes
      BY DEF Enqueue
    <3> HIDE DEF scopes
    <3>3. db'.scopes = scopes /\ db'.parts = db.parts /\ db'.counts = db.counts /\ db'.visible = db.visible
      BY <1>1, <3>1 DEF DbGood, Row, Fields
    <3>4. Covered(db, db')
      BY <3>2, <3>3 DEF Covered
    <3> QED BY <1>1, <3>4, CoveredStep
  <2>5. CASE Collector
    <3>1. Collected(db, db')
      BY <1>1, <2>5, CollectorIs
    <3>2. db'.parts = db.parts /\ db'.counts = db.counts
      BY <3>1 DEF Collected
    <3>3. Covered(db, db')
      BY <3>1, <3>2 DEF Collected, Covered
    <3> QED BY <1>1, <3>3, CoveredStep
  <2>6. CASE db' = db
    BY <1>1, <2>6 DEF FramesValidate, Headers
  <2>7. ASSUME NEW p \in Publishers,
               \/ Enter(p) \/ Leave(p) \/ Skip(p) \/ Plan(p) \/ FailIdentity(p) \/ Crash(p)
               \/ BeginProject(p) \/ BeginSeed(p) \/ BeginPublish(p)
        PROVE  db' = db
    BY <2>7 DEF Enter, Leave, Skip, Plan, FailIdentity, Crash, BeginProject, BeginSeed, BeginPublish
  <2>8. CASE LoseLock \/ UNCHANGED vars
    BY <2>6, <2>8 DEF LoseLock, vars
  <2> QED BY <2>1, <2>2, <2>3, <2>4, <2>5, <2>6, <2>7, <2>8 DEF Next, Collector
<1> QED
  BY <1>1, <1>2, <1>3 DEF PartInv

LEMMA PartIncremental == PartInv => IncrementalIsFull
<1> SUFFICES ASSUME PartInv, db.seeded
             PROVE  PublishPartitions(db, db, Months).parts = PublishPartitions(All, All, Months).parts
  BY DEF IncrementalIsFull
<1>1. DbGood(db) /\ Settled(db)
  BY DEF PartInv, FactInv, Base, TypeOK, DbGood
<1>2. PublishPartitions(db, db, Months).parts = NextParts(db)
  <2> DEFINE parts == NextParts(db)
             scopes == Consume(db.scopes, db.scopes)
  <2>1. DirtyMonths(db) \subseteq Months
    BY <1>1, SelectedIs DEF DbGood
  <2>2. PublishPartitions(db, db, Months) = [db EXCEPT !.parts = parts, !.scopes = scopes]
    BY <2>1 DEF PublishPartitions, NextParts
  <2> HIDE DEF parts, scopes
  <2> QED BY <1>1, <2>2 DEF DbGood, Row, Fields, parts
<1>3. DbGood(All) /\ Full(All) /\ \A f \in Fields \ {"scopes"} : All[f] = db[f]
  <2> DEFINE scopes == Enqueue(db.scopes, {<<"all", 0>>})
  <2>1. All = [db EXCEPT !.scopes = scopes]
    BY DEF All
  <2>2. {<<"all", 0>>} \in SUBSET ScopeKeys /\ IsQueue(db.scopes, ScopeKeys)
    BY <1>1 DEF ScopeKeys, DbGood, DbOK
  <2>3. IsQueue(scopes, ScopeKeys) /\ <<"all", 0>> \in DOMAIN scopes
    BY <2>2 DEF IsQueue, Enqueue
  <2> HIDE DEF scopes
  <2>4. Row(All) /\ All.scopes = scopes /\ \A f \in Fields \ {"scopes"} : All[f] = db[f]
    BY <1>1, <2>1 DEF DbGood, Row, Fields
  <2>5. DbGood(All)
    BY <1>1, <2>3, <2>4 DEF DbGood, DbOK, Fields
  <2> QED BY <2>3, <2>4, <2>5 DEF Full
<1>4. PublishPartitions(All, All, Months).parts = NextParts(All)
  <2> DEFINE parts == NextParts(All)
             scopes == Consume(All.scopes, All.scopes)
             A == All
  <2>1. DirtyMonths(A) \subseteq Months
    BY <1>3, SelectedIs DEF DbGood
  <2>2. A.seeded
    BY <1>3 DEF Fields
  <2>3. PublishPartitions(A, A, Months) = [A EXCEPT !.parts = parts, !.scopes = scopes]
    BY <2>1, <2>2 DEF PublishPartitions, NextParts
  <2>4. DbGood(A)
    BY <1>3
  <2> HIDE DEF parts, scopes, A
  <2>5. PublishPartitions(A, A, Months).parts = parts
    BY <2>3, <2>4 DEF DbGood, Row, Fields
  <2> QED BY <2>5 DEF A, parts
<1>5. NextParts(db) = Image(db)
  BY <1>1, NextPartsAre DEF DbGood
<1>6. NextParts(All) = Image(All)
  BY <1>3, NextPartsAre DEF DbGood, Settled
<1>7. Image(All) = Image(db)
  <2> DEFINE A == All
  <2>1. A.counts = db.counts /\ A.visible = db.visible /\ A.current = db.current
    BY <1>3 DEF Fields
  <2> HIDE DEF A
  <2>2. AvailableMonths(A) = AvailableMonths(db)
    BY <2>1 DEF AvailableMonths, MonthsOf
  <2>3. /\ \A k : MonthPart(A, k) = MonthPart(db, k) /\ SpacePart(A, k) = SpacePart(db, k)
        /\ Extra(A, A.current) = Extra(db, db.current)
    BY <2>1 DEF MonthPart, SpacePart, Extra, Rows
  <2>4. SpacesOf(A) = SpacesOf(db) /\ ImageKeys(A) = ImageKeys(db)
    BY <2>1, <2>2, <2>3 DEF SpacesOf, ImageKeys
  <2>5. Image(A) = Image(db)
    BY <2>1, <2>2, <2>3, <2>4 DEF Image
  <2> QED BY <2>5 DEF A
<1> QED
  BY <1>2, <1>4, <1>5, <1>6, <1>7

LEMMA PartAlways == Spec /\ []Exclusive => []PartInv
BY PartInit, PartStep, PTL DEF Spec

(* Rebuilding only the partitions that dirty scopes name always gives what *)
(* rebuilding all of them would, whatever was changed in the middle of a   *)
(* publication, as long as publishers take turns.                          *)
THEOREM IncrementalSuffices == Spec /\ []Exclusive => []IncrementalIsFull
BY PartAlways, PartIncremental, PTL

(* What is published always passes the cross checks of the contract.       *)
THEOREM FramesAlwaysValidate == Spec /\ []Exclusive => []FramesValidate
<1>1. PartInv => FramesValidate
  BY DEF PartInv
<1> QED
  BY <1>1, PartAlways, PTL

(* While the lock is kept partitions are exact and frames validate.        *)
THEOREM LockedPartitions == Spec /\ [][~LoseLock]_vars => [](IncrementalIsFull /\ FramesValidate)
BY LockExcludes, IncrementalSuffices, FramesAlwaysValidate, PTL

(* For a single publisher they are even when its lock is lost.             *)
THEOREM AlonePartitions ==
  ASSUME NEW p, Publishers = {p}
  PROVE  Spec => [](IncrementalIsFull /\ FramesValidate)
<1>1. Exclusive
  BY DEF Exclusive
<1> QED
  BY <1>1, IncrementalSuffices, FramesAlwaysValidate, PTL
=============================================================================
