----------------------------- MODULE MirrorProofs -----------------------------
(***************************************************************************)
(* Proofs about the mirror of a library for every tree, every page and     *)
(* batch size, and any number of runs, changes and interruptions.          *)
(***************************************************************************)
EXTENDS LibraryMirror, FiniteSetTheorems, Induction

-----------------------------------------------------------------------------
(* The first ids of a set, and the last one.                               *)

LEMMA MaxIs ==
  ASSUME NEW S \in SUBSET Nat, IsFiniteSet(S), S # {}
  PROVE  Max(S) \in S /\ \A n \in S : n <= Max(S)
BY GreatestNat DEF Max

LEMMA FirstIs ==
  ASSUME NEW S \in SUBSET Nat, IsFiniteSet(S), NEW k \in Nat \ {0}
  PROVE  /\ First(S, k) \subseteq S
         /\ S # {} => First(S, k) # {}
         /\ \A n \in First(S, k), m \in S : m < n => m \in First(S, k)
<1> DEFINE Below(n) == {m \in S : m < n}
<1>1. \A n \in S : Below(n) \in SUBSET S /\ IsFiniteSet(Below(n)) /\ Cardinality(Below(n)) \in Nat
  BY FS_Subset, FS_CardinalityType
<1>2. ASSUME S # {} PROVE First(S, k) # {}
  <2>1. PICK m \in S : \A n \in S : m <= n
    BY <1>2, LeastNat
  <2>2. \A n \in S : n \in Nat /\ m \in Nat /\ ~(n < m)
    BY <2>1
  <2>4. Below(m) = {}
    BY <2>2
  <2>3. Cardinality(Below(m)) = 0
    BY <2>4, FS_EmptySet
  <2> QED
    BY <2>3 DEF First
<1>3. ASSUME NEW n \in First(S, k), NEW m \in S, m < n PROVE m \in First(S, k)
  <2>1. n \in S /\ Cardinality(Below(n)) < k
    BY DEF First
  <2>2. \A j \in S : j < m => j < n
    BY <1>3, <2>1
  <2>4. Below(m) \in SUBSET Below(n)
    BY <2>2
  <2>3. Cardinality(Below(m)) <= Cardinality(Below(n))
    BY <2>1, <2>4, <1>1, FS_Subset
  <2> QED
    BY <2>1, <2>3, <1>1 DEF First
<1> QED
  BY <1>2, <1>3 DEF First

LEMMA NodesAre == /\ Nodes \subseteq Nat \ {0} /\ IsFiniteSet(Nodes)
                  /\ Files \subseteq Nodes /\ Folders \subseteq Nodes /\ Files \cap Folders = {}
                  /\ Nodes = Files \cup Folders
                  /\ Directories = {Root} \cup Folders /\ Gone \notin Directories
BY Ids DEF Nodes, Directories

LEMMA SomeNodes ==
  ASSUME NEW S \in SUBSET Nodes
  PROVE  /\ S \in SUBSET Nat /\ IsFiniteSet(S)
         /\ S # {} => Max(S) \in S /\ \A n \in S : n <= Max(S)
         /\ \A k \in Nat \ {0} : /\ First(S, k) \subseteq S
                                 /\ S # {} => First(S, k) # {}
                                 /\ \A n \in First(S, k), m \in S : m < n => m \in First(S, k)
<1>1. S \in SUBSET Nat /\ IsFiniteSet(S)
  BY NodesAre, FS_Subset
<1> QED
  BY <1>1, MaxIs, FirstIs

-----------------------------------------------------------------------------
(* Types; the clock; and what the walker and the bridge hold in memory.    *)

Active == run.status \in {"running", "failed"}
Still == Nodes \ disturbed
Status == {"none", "running", "failed", "succeeded"}
RowOK(d) == d \in Doc /\ (d.misses = DeleteMisses => d.deleted)

Base ==
  /\ TypeOK
  /\ run.started <= now
  /\ \A n \in Nodes : remote[n].ver <= now
  /\ \A n \in Folders : remote[n].place = Root
  /\ \A e \in events : e.at <= remote[e.node].ver
  /\ page # None => run.status = "running" /\ run.phase = "walk"
  /\ page # None => \A n \in DOMAIN page.items : page.items[n].ver <= remote[n].ver
  /\ bridge # None => bridge.event.kind = "meta" /\ bridge.item.ver <= remote[bridge.event.node].ver

(* A change of the tree: what it does to the node and to the ghosts.       *)
TreeStep(n, place, fact, kind) ==
  /\ Changed(n, place, fact, kind)
  /\ disturbed \subseteq disturbed' /\ disturbed' \subseteq disturbed \cup {n}
  /\ excuse' \in [Nodes -> Nat] /\ \A m \in Nodes : excuse[m] <= excuse'[m]
  /\ n \in disturbed' \ disturbed => excuse[n] < excuse'[n]
  /\ Active /\ n \notin disturbed' => place = remote[n].place /\ InTree(n)
  /\ ~Active => disturbed' = disturbed

LEMMA DisturbIs ==
  ASSUME TypeOK, NEW n \in Nodes, Disturb({n})
  PROVE  /\ disturbed \subseteq disturbed' /\ disturbed' \subseteq disturbed \cup {n}
         /\ excuse' \in [Nodes -> Nat] /\ \A m \in Nodes : excuse[m] <= excuse'[m]
         /\ n \in disturbed' \ disturbed => excuse[n] < excuse'[n]
         /\ Active => n \in disturbed'
         /\ ~Active => disturbed' = disturbed
<1> DEFINE T == IF run.status \in {"running", "failed"} THEN {n} \ disturbed ELSE {}
<1>1. disturbed' = disturbed \cup T /\ excuse' = [m \in Nodes |-> excuse[m] + IF m \in T THEN 1 ELSE 0]
  BY DEF Disturb
<1>2. \A m \in Nodes : excuse[m] \in Nat
  BY DEF TypeOK
<1>3. T \subseteq {n} /\ (n \in T <=> Active /\ n \notin disturbed)
  BY DEF Active
<1> HIDE DEF T
<1>4. \A m \in Nodes : excuse'[m] = excuse[m] + IF m \in T THEN 1 ELSE 0
  BY <1>1
<1>5. excuse' \in [Nodes -> Nat] /\ \A m \in Nodes : excuse[m] <= excuse'[m] /\ (m \in T => excuse[m] < excuse'[m])
  BY <1>1, <1>2, <1>4
<1> QED
  BY <1>1, <1>3, <1>5

LEMMA TreeSteps ==
  ASSUME Base,
         \/ \E n \in Files : Rename(n) \/ Delete(n)
         \/ \E n \in Files, p \in Directories : Move(n, p) \/ Restore(n, p)
  PROVE  \E n \in Files, place \in Directories \cup {Gone}, fact \in Nat, kind \in Change :
           TreeStep(n, place, fact, kind)
<1>1. \A n \in Nodes : remote[n] \in Item /\ excuse[n] \in Nat
  BY DEF Base, TypeOK
<1>2. \A n \in Files : n \in Nodes /\ remote[n].fact \in Nat /\ remote[n].place \in Directories \cup {Gone}
  BY <1>1, NodesAre DEF Item
<1>3. now \in Nat /\ excuse \in [Nodes -> Nat] /\ TypeOK
  BY DEF Base, TypeOK
<1>4. ASSUME NEW n \in Files, Rename(n) PROVE TreeStep(n, remote[n].place, now + 1, "meta")
  BY <1>1, <1>3, <1>4 DEF Rename, TreeStep, Change
<1>5. ASSUME NEW n \in Files, Delete(n) PROVE TreeStep(n, Gone, remote[n].fact, "delete")
  BY <1>2, <1>3, <1>5, DisturbIs DEF Delete, TreeStep
<1>6. ASSUME NEW n \in Files, NEW p \in Directories, Move(n, p)
      PROVE  TreeStep(n, p, remote[n].fact, "meta")
  BY <1>2, <1>3, <1>6, DisturbIs DEF Move, TreeStep
<1>7. ASSUME NEW n \in Files, NEW p \in Directories, Restore(n, p)
      PROVE  TreeStep(n, p, remote[n].fact, "restore")
  BY <1>2, <1>3, <1>7, DisturbIs DEF Restore, TreeStep
<1>8. now + 1 \in Nat /\ {"meta", "delete", "restore"} \subseteq Change
  BY <1>3 DEF Change
<1> QED
  BY <1>2, <1>4, <1>5, <1>6, <1>7, <1>8, Zenon

LEMMA ChangedIs ==
  ASSUME Base, NEW n \in Files, NEW place \in Directories \cup {Gone}, NEW fact \in Nat, NEW kind \in Change,
         Changed(n, place, fact, kind)
  PROVE  /\ now \in Nat /\ now' = now + 1
         /\ remote' \in [Nodes -> Item]
         /\ remote'[n] = [place |-> place, fact |-> fact, ver |-> now + 1]
         /\ \A m \in Nodes \ {n} : remote'[m] = remote[m]
         /\ \A m \in Nodes : remote[m].ver <= remote'[m].ver /\ remote'[m].ver <= now'
         /\ events \subseteq events' /\ \A e \in events' : e \in events \/ (e.node = n /\ e.at = now + 1)
         /\ events' \subseteq Event
         /\ UNCHANGED <<docs, run, dirs, seen, page, bridge>>
<1>1. now \in Nat /\ remote \in [Nodes -> Item] /\ events \subseteq Event /\ n \in Nodes
  BY NodesAre DEF Base, TypeOK
<1>2. /\ now' = now + 1 /\ remote' = [remote EXCEPT ![n] = [place |-> place, fact |-> fact, ver |-> now + 1]]
      /\ UNCHANGED <<docs, run, dirs, seen, page, bridge>>
  BY DEF Changed
<1>3. [place |-> place, fact |-> fact, ver |-> now + 1] \in Item
  BY <1>1 DEF Item
<1>4. \A m \in Nodes : remote[m].ver \in Nat /\ remote[m].ver <= now
  BY <1>1 DEF Item, Base
<1>5. remote' \in [Nodes -> Item] /\ remote'[n] = [place |-> place, fact |-> fact, ver |-> now + 1]
      /\ \A m \in Nodes \ {n} : remote'[m] = remote[m]
  BY <1>1, <1>2, <1>3
<1>6. \A m \in Nodes : remote[m].ver <= remote'[m].ver /\ remote'[m].ver <= now'
  BY <1>1, <1>2, <1>4, <1>5
<1> DEFINE e == [node |-> n, kind |-> kind, at |-> now + 1]
<1>7. e \in Event /\ e.node = n /\ e.at = now + 1
  BY <1>1 DEF Event
<1>8. events' = events \cup {e} \/ events' = events
  BY DEF Changed
<1>9. \A d \in events' : d \in events \/ d = e
  BY <1>8
<1> HIDE DEF e
<1>10. \A d \in events' : d \in events \/ (d.node = n /\ d.at = now + 1)
  BY <1>7, <1>9, Zenon
<1>11. events \subseteq events' /\ events' \subseteq Event
  BY <1>1, <1>7, <1>8
<1> QED
  BY <1>1, <1>2, <1>5, <1>6, <1>10, <1>11

LEMMA TreeBase ==
  ASSUME Base, NEW n \in Files, NEW place \in Directories \cup {Gone}, NEW fact \in Nat, NEW kind \in Change,
         TreeStep(n, place, fact, kind)
  PROVE  Base'
<1>1. Changed(n, place, fact, kind) /\ disturbed' \subseteq disturbed \cup {n} /\ excuse' \in [Nodes -> Nat]
  BY DEF TreeStep
<1>2. /\ now \in Nat /\ now' = now + 1 /\ remote' \in [Nodes -> Item]
      /\ remote'[n] = [place |-> place, fact |-> fact, ver |-> now + 1]
      /\ \A m \in Nodes \ {n} : remote'[m] = remote[m]
      /\ \A m \in Nodes : remote[m].ver <= remote'[m].ver /\ remote'[m].ver <= now'
      /\ events \subseteq events' /\ \A e \in events' : e \in events \/ (e.node = n /\ e.at = now + 1)
      /\ events' \subseteq Event
      /\ UNCHANGED <<docs, run, dirs, seen, page, bridge>>
  BY <1>1, ChangedIs
<1>3. disturbed' \subseteq Nodes
  BY <1>1, NodesAre DEF Base, TypeOK
<1>4. TypeOK'
  BY <1>1, <1>2, <1>3 DEF Base, TypeOK
<1>5. \A m \in Nodes : remote[m].ver \in Nat /\ remote'[m].ver \in Nat
  BY <1>2 DEF Base, TypeOK, Item
<1>6. run'.started <= now'
  BY <1>2 DEF Base, TypeOK
<1>7. \A m \in Folders : remote'[m].place = Root
  BY <1>2, NodesAre DEF Base
<1>8. ASSUME NEW e \in events' PROVE e.at <= remote'[e.node].ver
  <2>1. e.node \in Nodes /\ e.at \in Nat
    BY <1>2, NodesAre DEF Event
  <2>2. CASE e \in events
    BY <2>1, <2>2, <1>2, <1>5 DEF Base
  <2>3. CASE e.node = n /\ e.at = now + 1
    BY <2>3, <1>2
  <2> QED
    BY <2>2, <2>3, <1>2
<1>9. page' # None => run'.status = "running" /\ run'.phase = "walk"
  BY <1>2 DEF Base
<1>10. ASSUME page' # None, NEW m \in DOMAIN page'.items PROVE page'.items[m].ver <= remote'[m].ver
  <2>1. m \in Nodes /\ page.items[m] \in Item /\ page.items[m].ver <= remote[m].ver
    BY <1>2, <1>10 DEF Base, TypeOK
  <2>2. page.items[m].ver \in Nat
    BY <2>1 DEF Item
  <2> QED
    BY <2>1, <2>2, <1>2, <1>5
<1>11. ASSUME bridge' # None PROVE bridge'.event.kind = "meta" /\ bridge'.item.ver <= remote'[bridge'.event.node].ver
  <2>1. bridge.event \in events /\ bridge.item \in Item
    BY <1>2, <1>11 DEF Base, TypeOK
  <2>2. bridge.event.node \in Nodes /\ bridge.item.ver \in Nat
    BY <2>1, NodesAre DEF Base, TypeOK, Event, Item
  <2> QED
    BY <2>2, <1>2, <1>5, <1>11 DEF Base
<1> QED
  BY <1>2, <1>4, <1>6, <1>7, <1>8, <1>9, <1>10, <1>11 DEF Base

LEMMA StartBase ==
  ASSUME Base, Start
  PROVE  Base'
<1> DEFINE S == {n \in Nodes : ~InTree(n)}
<1>1. /\ page = None /\ now' = now + 1
      /\ run' = [status |-> "running", phase |-> "walk", started |-> now + 1, cursor |-> 0]
      /\ dirs' = [q \in {Root} |-> Unlisted] /\ seen' = {} /\ disturbed' = S
      /\ excuse' = [n \in Nodes |-> excuse[n] + IF n \in S THEN 1 ELSE 0]
      /\ UNCHANGED <<remote, docs, page, events, bridge>>
  BY DEF Start
<1>2. S \subseteq Nodes
  OBVIOUS
<1> HIDE DEF S
<1>3. now \in Nat /\ \A n \in Nodes : excuse[n] \in Nat
  BY DEF Base, TypeOK
<1>4. now' \in Nat /\ excuse' \in [Nodes -> Nat]
  BY <1>1, <1>3
<1>5. run' \in [status : Status, phase : {"walk", "reconcile", "complete"}, started : Nat, cursor : {0} \cup Nodes]
  BY <1>1, <1>3 DEF Status
<1>6. DOMAIN dirs' \subseteq Directories /\ \A q \in DOMAIN dirs' : dirs'[q] \in [token : {0} \cup Nodes, done : BOOLEAN]
  BY <1>1 DEF Unlisted, Directories
<1>7. TypeOK'
  BY <1>1, <1>2, <1>4, <1>5, <1>6 DEF Base, TypeOK, Status
<1>8. \A m \in Nodes : remote[m].ver \in Nat
  BY DEF Base, TypeOK, Item
<1>9. run'.started <= now' /\ \A m \in Nodes : remote'[m].ver <= now'
  BY <1>1, <1>3, <1>8 DEF Base
<1> QED
  BY <1>1, <1>7, <1>9 DEF Base

(* The page that the walker fetches.                                       *)
Rest(p) == {n \in Nodes : remote[n].place = p /\ n > dirs[p].token}

LEMMA ListingIs ==
  ASSUME Base, NEW p \in DOMAIN dirs
  PROVE  LET items == First(Rest(p), PageSize)
             pg == Listing(p)
         IN  /\ pg.dir = p /\ DOMAIN pg.items = items /\ items \subseteq Rest(p)
             /\ \A n \in items : pg.items[n] = remote[n]
             /\ pg.next \in {0} \cup Nodes
             /\ \A n \in Rest(p) : pg.next = 0 \/ n <= pg.next => n \in items
<1> DEFINE items == First(Rest(p), PageSize)
           pg == Listing(p)
<1>1. Rest(p) \in SUBSET Nodes /\ PageSize \in Nat \ {0}
  BY Sizes DEF Rest
<1>2. /\ items \subseteq Rest(p) /\ (Rest(p) # {} => items # {})
      /\ \A n \in items, m \in Rest(p) : m < n => m \in items
  BY <1>1, SomeNodes
<1>3. items # {} => Max(items) \in items
  BY <1>1, <1>2, SomeNodes
<1>4. pg = [dir |-> p, items |-> [n \in items |-> remote[n]], next |-> IF Rest(p) = items THEN 0 ELSE Max(items)]
  BY DEF Listing, Rest
<1> HIDE DEF items, pg
<1>5. pg.dir = p /\ pg.items = [n \in items |-> remote[n]] /\ pg.next = IF Rest(p) = items THEN 0 ELSE Max(items)
  BY <1>4
<1>6. DOMAIN pg.items = items /\ \A n \in items : pg.items[n] = remote[n]
  BY <1>5
<1>7. CASE Rest(p) = items
  <2>1. pg.next = 0
    BY <1>5, <1>7
  <2> QED
    BY <2>1, <1>2, <1>5, <1>6, <1>7 DEF items, pg
<1>8. CASE Rest(p) # items
  <2>1. items # {} /\ pg.next = Max(items)
    BY <1>2, <1>5, <1>8
  <2>2. pg.next \in items /\ pg.next \in Nodes /\ pg.next # 0
    BY <2>1, <1>1, <1>2, <1>3, NodesAre
  <2>3. ASSUME NEW n \in Rest(p), n <= pg.next PROVE n \in items
    <3>1. n \in Nat /\ pg.next \in Nat
      BY <1>1, <2>2, NodesAre
    <3> QED
      BY <3>1, <2>2, <2>3, <1>2
  <2> QED
    BY <2>2, <2>3, <1>2, <1>5, <1>6 DEF items, pg
<1> QED
  BY <1>7, <1>8

LEMMA FetchBase ==
  ASSUME Base, Fetch
  PROVE  Base'
<1>1. PICK p \in Undone : page' = Listing(p)
  BY DEF Fetch
<1>2. /\ run.status = "running" /\ run.phase = "walk"
      /\ UNCHANGED <<remote, docs, run, dirs, seen, events, bridge, now, disturbed, excuse>>
  BY DEF Fetch
<1>3. p \in DOMAIN dirs
  BY DEF Undone
<1>4. /\ page'.dir = p /\ page'.next \in {0} \cup Nodes /\ DOMAIN page'.items \subseteq Nodes
      /\ \A n \in DOMAIN page'.items : page'.items[n] = remote[n]
  <2> DEFINE pg == Listing(p)
             items == First(Rest(p), PageSize)
  <2>1. /\ pg.dir = p /\ DOMAIN pg.items = items /\ items \subseteq Rest(p)
        /\ \A n \in items : pg.items[n] = remote[n]
        /\ pg.next \in {0} \cup Nodes
    BY <1>3, ListingIs
  <2>2. Rest(p) \subseteq Nodes
    BY DEF Rest
  <2>3. page' = pg
    BY <1>1
  <2> HIDE DEF pg, items
  <2> QED
    BY <2>1, <2>2, <2>3
<1>5. \A n \in Nodes : remote[n] \in Item /\ remote[n].ver \in Nat
  BY DEF Base, TypeOK, Item
<1>6. TypeOK'
  BY <1>2, <1>3, <1>4, <1>5 DEF Base, TypeOK
<1>7. \A n \in DOMAIN page'.items : page'.items[n].ver <= remote'[n].ver
  BY <1>2, <1>4, <1>5
<1> QED
  BY <1>2, <1>6, <1>7 DEF Base

(* What the writers make of a row.                                         *)
LEMMA RowIs ==
  ASSUME TypeOK, NEW n \in Nodes
  PROVE  /\ RowOK(docs[n]) /\ docs[n].ver \in Nat /\ docs[n].applied \in Nat /\ docs[n].misses \in Nat
         /\ docs[n].misses <= DeleteMisses /\ docs[n].place \in Directories /\ docs[n].deleted \in BOOLEAN
         /\ run.started \in Nat /\ now \in Nat /\ excuse[n] \in Nat
BY Sizes DEF TypeOK, RowOK, Doc

LEMMA UpsertIs ==
  ASSUME Base, NEW n \in Nodes, NEW item \in Item, NEW p \in Directories
  PROVE  LET d == Upsert(n, item, p)
         IN  /\ RowOK(d)
             /\ Newer(n) => d = docs[n]
             /\ ~Newer(n) => /\ d.ver = item.ver /\ d.misses = 0 /\ ~d.deleted
                             /\ d.fact = item.fact /\ d.place = p
<1>1. RowOK(docs[n]) /\ run.started \in Nat
  BY RowIs DEF Base
<1>2. CASE Newer(n)
  BY <1>1, <1>2 DEF Upsert
<1>3. CASE ~Newer(n)
  <2> DEFINE row == [docs[n] EXCEPT !.place = p, !.fact = item.fact, !.deleted = FALSE, !.misses = 0]
             applied == IF row = docs[n] THEN docs[n].applied ELSE run.started
             source == IF row = docs[n] THEN docs[n].source ELSE run.started
             d == [row EXCEPT !.ver = item.ver, !.applied = applied, !.source = source]
  <2>1. item.fact \in Nat /\ item.ver \in Nat
    BY DEF Item
  <2>2. docs[n] \in Doc /\ 0 \in 0..DeleteMisses /\ DeleteMisses # 0
    BY <1>1, Sizes DEF RowOK
  <2>3. row \in Doc /\ row.misses = 0 /\ row.deleted = FALSE /\ row.fact = item.fact /\ row.place = p
        /\ row.applied = docs[n].applied /\ row.source = docs[n].source
    BY <2>1, <2>2 DEF Doc
  <2>4. Written(n, item, p) = d
    BY <2>3 DEF Written
  <2>5. applied \in Nat /\ source \in Nat
    BY <1>1, <2>2 DEF Doc
  <2> HIDE DEF row, applied, source
  <2>6. d \in Doc /\ d.ver = item.ver /\ d.misses = 0 /\ d.deleted = FALSE /\ d.fact = item.fact /\ d.place = p
    BY <2>1, <2>3, <2>5 DEF Doc
  <2> HIDE DEF d
  <2> QED
    BY <1>3, <2>2, <2>4, <2>6 DEF Upsert, RowOK
<1> QED
  BY <1>2, <1>3

LEMMA MissingIs ==
  ASSUME Base, NEW n \in Nodes, ~docs[n].deleted
  PROVE  LET d == Missing(n)
         IN  /\ RowOK(d) /\ d.misses = docs[n].misses + 1 /\ d.ver = docs[n].ver
             /\ d.applied = docs[n].applied \/ d.applied = now + 1
<1>1. docs[n] \in Doc /\ docs[n].misses \in 0..DeleteMisses /\ docs[n].misses # DeleteMisses /\ now \in Nat
  BY RowIs DEF Base, RowOK, Doc
<1>2. docs[n].misses + 1 \in 0..DeleteMisses /\ DeleteMisses \in Nat
  BY <1>1, Sizes
<1> DEFINE flag == TRUE
           t == now + 1
           m == docs[n].misses + 1
           d1 == [docs[n] EXCEPT !.misses = m, !.deleted = flag, !.applied = t, !.source = t]
           d2 == [docs[n] EXCEPT !.misses = m]
<1>8. flag \in BOOLEAN /\ t \in Nat /\ m \in 0..DeleteMisses
  BY <1>1, <1>2
<1>9. Missing(n) = IF m >= DeleteMisses THEN d1 ELSE d2
  BY DEF Missing
<1> HIDE DEF flag, t, m
<1>3. d1 \in Doc /\ d1.deleted = flag /\ d1.misses = m /\ d1.ver = docs[n].ver /\ d1.applied = t
  BY <1>1, <1>8 DEF Doc
<1>4. d2 \in Doc /\ d2.misses = m /\ d2.ver = docs[n].ver /\ d2.applied = docs[n].applied
  BY <1>1, <1>8 DEF Doc
<1> HIDE DEF d1, d2
<1>6. CASE m >= DeleteMisses
  BY <1>3, <1>9, <1>6 DEF RowOK, flag, t, m
<1>7. CASE ~(m >= DeleteMisses)
  <2>1. m # DeleteMisses
    BY <1>2, <1>7
  <2>2. RowOK(d2)
    BY <1>4, <2>1 DEF RowOK
  <2> QED
    BY <1>4, <1>9, <1>7, <2>2 DEF m
<1> QED
  BY <1>6, <1>7

(* What the commit of a page does to the rows and the ghosts.              *)
LEMMA CommitIs ==
  ASSUME Base, CommitPage
  PROVE  LET new == DOMAIN page.items \ seen
         IN  /\ page # None /\ run.status = "running" /\ run.phase = "walk" /\ page.dir \in DOMAIN dirs
             /\ page.dir \in Directories /\ new \subseteq Nodes
             /\ \A n \in new : page.items[n] \in Item /\ page.items[n].ver <= remote[n].ver
             /\ docs' = [n \in Nodes |-> docs'[n]] /\ \A n \in Nodes : RowOK(docs'[n])
             /\ \A n \in new : docs'[n] = Upsert(n, page.items[n], page.dir)
             /\ \A n \in Nodes \ new : docs'[n] = docs[n] /\ excuse'[n] = excuse[n]
             /\ \A n \in new : Newer(n) => docs'[n] = docs[n] /\ excuse'[n] = excuse[n]
             /\ \A n \in new : ~Newer(n) => docs'[n].misses = 0
             /\ excuse' \in [Nodes -> Nat] /\ seen' = seen \cup new /\ page' = None
             /\ dirs' = [q \in DOMAIN dirs \cup Subdirectories(new) |->
                           IF q = page.dir THEN Listed(page) ELSE IF q \in DOMAIN dirs THEN dirs[q] ELSE Unlisted]
             /\ UNCHANGED <<remote, run, events, bridge, now, disturbed>>
<1> DEFINE new == DOMAIN page.items \ seen
<1>1. /\ page # None /\ run.status = "running" /\ page' = None /\ seen' = seen \cup new
      /\ docs' = [n \in Nodes |-> IF n \in new THEN Upsert(n, page.items[n], page.dir) ELSE docs[n]]
      /\ dirs' = [q \in DOMAIN dirs \cup Subdirectories(new) |->
                   IF q = page.dir THEN Listed(page) ELSE IF q \in DOMAIN dirs THEN dirs[q] ELSE Unlisted]
      /\ Confirm(new)
      /\ UNCHANGED <<remote, run, events, bridge, now, disturbed>>
  BY DEF CommitPage
<1>2. /\ run.phase = "walk" /\ page.dir \in DOMAIN dirs /\ page.dir \in Directories /\ new \subseteq Nodes
      /\ \A n \in new : page.items[n] \in Item /\ page.items[n].ver <= remote[n].ver
  BY <1>1 DEF Base, TypeOK
<1> HIDE DEF new
<1>3. \A n \in Nodes : docs'[n] = IF n \in new THEN Upsert(n, page.items[n], page.dir) ELSE docs[n]
  BY <1>1
<1>4. \A n \in new : /\ RowOK(docs'[n])
                     /\ Newer(n) => docs'[n] = docs[n]
                     /\ ~Newer(n) => docs'[n].misses = 0
  BY <1>2, <1>3, UpsertIs
<1>5. \A n \in Nodes : RowOK(docs[n]) /\ excuse[n] \in Nat
  BY RowIs DEF Base
<1>6. docs' = [n \in Nodes |-> docs'[n]] /\ \A n \in Nodes : RowOK(docs'[n])
  BY <1>1, <1>3, <1>4, <1>5
<1>7. excuse' = [n \in Nodes |-> IF n \in new /\ ~Newer(n) THEN IF n \in disturbed THEN 1 ELSE 0 ELSE excuse[n]]
  BY <1>1 DEF Confirm
<1>8. excuse' \in [Nodes -> Nat]
  BY <1>5, <1>7
<1>9. \A n \in Nodes : ~(n \in new /\ ~Newer(n)) => excuse'[n] = excuse[n]
  BY <1>7
<1> QED
  BY <1>1, <1>2, <1>3, <1>4, <1>6, <1>8, <1>9 DEF new

LEMMA ReconcileIs ==
  ASSUME Base, Reconcile
  PROVE  LET batch == First(Unsettled, Batch)
         IN  /\ run.status = "running" /\ run.phase = "reconcile" /\ batch \subseteq Unsettled
             /\ run' = [run EXCEPT !.cursor = Max(batch)]
             /\ Max(batch) \in Nodes /\ run.cursor < Max(batch) /\ \A n \in batch : n <= Max(batch)
             /\ docs' = [n \in Nodes |-> docs'[n]] /\ \A n \in Nodes : RowOK(docs'[n])
             /\ \A n \in Nodes : \/ docs'[n] = docs[n]
                                 \/ /\ n \in batch /\ n \notin seen /\ ~Newer(n)
                                    /\ docs'[n].misses = docs[n].misses + 1
             /\ \A n \in Nodes : docs'[n].ver = docs[n].ver /\ docs[n].applied <= docs'[n].applied
             /\ now' \in Nat /\ now <= now'
             /\ UNCHANGED <<remote, dirs, seen, page, events, bridge, disturbed, excuse>>
<1> DEFINE batch == First(Unsettled, Batch)
<1>1. /\ run.status = "running" /\ run.phase = "reconcile" /\ Unsettled # {}
      /\ docs' = [n \in Nodes |-> IF n \in batch /\ n \notin seen /\ ~Newer(n) THEN Missing(n) ELSE docs[n]]
      /\ run' = [run EXCEPT !.cursor = Max(batch)]
      /\ now' = now \/ now' = now + 1
      /\ UNCHANGED <<remote, dirs, seen, page, events, bridge, disturbed, excuse>>
  BY DEF Reconcile, Settled
<1>2. Unsettled \in SUBSET Nodes /\ Batch \in Nat \ {0}
  BY Sizes DEF Unsettled
<1>3. batch \subseteq Unsettled /\ batch # {}
  BY <1>1, <1>2, SomeNodes
<1>4. Max(batch) \in batch /\ \A n \in batch : n <= Max(batch)
  BY <1>2, <1>3, SomeNodes
<1>5. Max(batch) \in Nodes /\ run.cursor < Max(batch)
  BY <1>3, <1>4, NodesAre DEF Unsettled
<1>6. now \in Nat /\ now' \in Nat /\ now <= now'
  BY <1>1 DEF Base, TypeOK
<1>7. \A n \in batch : n \in Nodes /\ ~docs[n].deleted
  BY <1>3 DEF Unsettled
<1> HIDE DEF batch
<1>8. \A n \in Nodes : docs'[n] = IF n \in batch /\ n \notin seen /\ ~Newer(n) THEN Missing(n) ELSE docs[n]
  BY <1>1
<1>9. ASSUME NEW n \in Nodes
      PROVE  /\ RowOK(docs'[n]) /\ docs'[n].ver = docs[n].ver /\ docs[n].applied <= docs'[n].applied
             /\ \/ docs'[n] = docs[n]
                \/ /\ n \in batch /\ n \notin seen /\ ~Newer(n)
                   /\ docs'[n].misses = docs[n].misses + 1
  <2>1. RowOK(docs[n]) /\ docs[n].applied \in Nat /\ run.started \in Nat /\ run.started <= now
    BY RowIs DEF Base
  <2>2. CASE n \in batch /\ n \notin seen /\ ~Newer(n)
    <3>1. /\ RowOK(Missing(n)) /\ Missing(n).misses = docs[n].misses + 1 /\ Missing(n).ver = docs[n].ver
          /\ Missing(n).applied = docs[n].applied \/ Missing(n).applied = now + 1
      BY <2>2, <1>7, MissingIs
    <3>2. docs[n].applied <= run.started
      BY <2>1, <2>2 DEF Newer
    <3>3. docs'[n] = Missing(n)
      BY <1>8, <2>2
    <3> QED
      BY <3>1, <3>2, <3>3, <2>1, <2>2, <1>6
  <2>3. CASE ~(n \in batch /\ n \notin seen /\ ~Newer(n))
    BY <1>8, <2>1, <2>3
  <2> QED
    BY <2>2, <2>3
<1>10. docs' = [n \in Nodes |-> docs'[n]]
  BY <1>1
<1>11. \A n \in Nodes : RowOK(docs'[n]) /\ docs'[n].ver = docs[n].ver /\ docs[n].applied <= docs'[n].applied
  BY <1>9
<1>12. \A n \in Nodes : \/ docs'[n] = docs[n]
                        \/ /\ n \in batch /\ n \notin seen /\ ~Newer(n)
                           /\ docs'[n].misses = docs[n].misses + 1
  BY <1>9
<1> QED
  BY <1>1, <1>3, <1>4, <1>5, <1>6, <1>10, <1>11, <1>12 DEF batch

(* A write of the bridge: the row of one node, confirmed now; or nothing.  *)
Confirmed(n, d) ==
  /\ RowOK(d) /\ d.applied = now + 1 /\ d.misses = 0 /\ d.ver <= remote[n].ver
  /\ docs' = [docs EXCEPT ![n] = d] /\ now' = now + 1
  /\ excuse' = [excuse EXCEPT ![n] = IF n \in disturbed THEN 1 ELSE 0]
BridgeStep ==
  /\ events' \in SUBSET events /\ ~(events \subseteq events')
  /\ UNCHANGED <<remote, run, dirs, seen, page, disturbed>>
  /\ \/ UNCHANGED <<docs, now, excuse>>
     \/ \E n \in Nodes, d \in Doc : Confirmed(n, d)

LEMMA RecordIs ==
  ASSUME Base, Record
  PROVE  BridgeStep /\ bridge' = None
<1> DEFINE e == bridge.event
           n == e.node
           d == [docs[n] EXCEPT !.fact = bridge.item.fact, !.deleted = FALSE, !.misses = 0,
                                !.applied = now + 1, !.source = now + 1, !.ver = bridge.item.ver]
<1>1. /\ bridge # None /\ events' = events \ {e} /\ bridge' = None
      /\ UNCHANGED <<remote, run, dirs, seen, page, disturbed>>
  BY DEF Record
<1>2. e \in events /\ e \in Event /\ n \in Nodes /\ bridge.item \in Item /\ bridge.item.ver <= remote[n].ver
  BY <1>1, NodesAre DEF Base, TypeOK, Event
<1>3. docs[n] \in Doc /\ now \in Nat /\ docs \in [Nodes -> Doc]
  BY <1>2, RowIs DEF Base, RowOK, TypeOK
<1>4. bridge.item.fact \in Nat /\ bridge.item.ver \in Nat /\ 0 \in 0..DeleteMisses /\ DeleteMisses # 0
  BY <1>2, Sizes DEF Item
<1>5. d \in Doc /\ d.applied = now + 1 /\ d.misses = 0 /\ d.ver = bridge.item.ver
  <2> DEFINE flag == FALSE
             m == 0
             t == now + 1
             x == [docs[n] EXCEPT !.fact = bridge.item.fact, !.deleted = flag, !.misses = m,
                                  !.applied = t, !.source = t, !.ver = bridge.item.ver]
  <2>1. flag \in BOOLEAN /\ m \in 0..DeleteMisses /\ t \in Nat
    BY <1>3, <1>4
  <2>2. d = x
    OBVIOUS
  <2> HIDE DEF flag, m, t, d, n
  <2>3. x \in Doc
    BY <1>3, <1>4, <2>1 DEF Doc
  <2>4. x.applied = t /\ x.misses = m /\ x.ver = bridge.item.ver
    BY <1>3, <1>4, <2>1 DEF Doc
  <2> QED
    BY <2>2, <2>3, <2>4 DEF m, t
<1>6. RowOK(d) /\ d.ver <= remote[n].ver
  BY <1>2, <1>4, <1>5 DEF RowOK
<1>7. \/ UNCHANGED <<docs, now, excuse>>
      \/ /\ docs' = [docs EXCEPT ![n] = d] /\ now' = now + 1
         /\ excuse' = [excuse EXCEPT ![n] = IF n \in disturbed THEN 1 ELSE 0]
  BY DEF Record
<1>8. events' \in SUBSET events /\ ~(events \subseteq events')
  BY <1>1, <1>2
<1> HIDE DEF d, n
<1> QED
  BY <1>1, <1>2, <1>5, <1>6, <1>7, <1>8 DEF BridgeStep, Confirmed

LEMMA FlipIs ==
  ASSUME Base, NEW e \in events, Flip(e)
  PROVE  BridgeStep /\ UNCHANGED bridge /\ e.kind # "meta" /\ events' = events \ {e}
<1> DEFINE n == e.node
           d == [docs[n] EXCEPT !.deleted = e.kind = "delete", !.misses = 0,
                                !.applied = now + 1, !.source = e.at, !.ver = e.at]
<1>1. /\ events' = events \ {e} /\ e.kind # "meta"
      /\ UNCHANGED <<remote, run, dirs, seen, page, bridge, disturbed>>
  BY DEF Flip
<1>2. e \in Event /\ n \in Nodes /\ e.at \in Nat /\ e.at <= remote[n].ver
  BY NodesAre DEF Base, TypeOK, Event
<1>3. docs[n] \in Doc /\ now \in Nat
  BY <1>2, RowIs DEF Base, RowOK
<1>4. 0 \in 0..DeleteMisses /\ DeleteMisses # 0
  BY Sizes
<1>5. d \in Doc /\ d.applied = now + 1 /\ d.misses = 0 /\ d.ver = e.at
  <2> DEFINE flag == e.kind = "delete"
             m == 0
             t == now + 1
             at == e.at
             x == [docs[n] EXCEPT !.deleted = flag, !.misses = m, !.applied = t, !.source = at, !.ver = at]
  <2>1. flag \in BOOLEAN /\ m \in 0..DeleteMisses /\ t \in Nat /\ at \in Nat
    BY <1>2, <1>3, <1>4
  <2>2. d = x
    OBVIOUS
  <2> HIDE DEF flag, m, t, at, d, n
  <2>3. x \in Doc
    BY <1>3, <2>1 DEF Doc
  <2>4. x.applied = t /\ x.misses = m /\ x.ver = at
    BY <1>3, <2>1 DEF Doc
  <2> QED
    BY <2>2, <2>3, <2>4 DEF m, t, at
<1>6. RowOK(d) /\ d.ver <= remote[n].ver
  BY <1>2, <1>4, <1>5 DEF RowOK
<1>7. \/ UNCHANGED <<docs, now, excuse>>
      \/ /\ docs' = [docs EXCEPT ![n] = d] /\ now' = now + 1
         /\ excuse' = [excuse EXCEPT ![n] = IF n \in disturbed THEN 1 ELSE 0]
  BY DEF Flip
<1>8. events' \in SUBSET events /\ ~(events \subseteq events')
  BY <1>1
<1> HIDE DEF d, n
<1> QED
  BY <1>1, <1>2, <1>5, <1>6, <1>7, <1>8 DEF BridgeStep, Confirmed

LEMMA CommitBase ==
  ASSUME Base, CommitPage
  PROVE  Base'
<1> DEFINE new == DOMAIN page.items \ seen
           dom == DOMAIN dirs \cup Subdirectories(new)
<1>1. /\ page # None /\ page.dir \in DOMAIN dirs /\ new \subseteq Nodes
      /\ docs' = [n \in Nodes |-> docs'[n]] /\ \A n \in Nodes : RowOK(docs'[n])
      /\ excuse' \in [Nodes -> Nat] /\ seen' = seen \cup new /\ page' = None
      /\ dirs' = [q \in dom |-> IF q = page.dir THEN Listed(page) ELSE IF q \in DOMAIN dirs THEN dirs[q] ELSE Unlisted]
      /\ UNCHANGED <<remote, run, events, bridge, now, disturbed>>
  BY CommitIs, Zenon
<1>2. dom \subseteq Directories
  BY DEF Base, TypeOK, Subdirectories, Directories
<1>3. page.next \in {0} \cup Nodes
  BY <1>1 DEF Base, TypeOK
<1>4. Listed(page) \in [token : {0} \cup Nodes, done : BOOLEAN] /\ Unlisted \in [token : {0} \cup Nodes, done : BOOLEAN]
  BY <1>3 DEF Listed, Unlisted
<1> HIDE DEF dom, new
<1>5. DOMAIN dirs' = dom /\ \A q \in dom : dirs'[q] \in [token : {0} \cup Nodes, done : BOOLEAN]
  BY <1>1, <1>4 DEF Base, TypeOK
<1>6. docs' \in [Nodes -> Doc] /\ \A n \in Nodes : docs'[n].misses = DeleteMisses => docs'[n].deleted
  BY <1>1 DEF RowOK
<1>7. seen' \subseteq Nodes
  BY <1>1 DEF Base, TypeOK
<1>8. TypeOK'
  BY <1>1, <1>2, <1>5, <1>6, <1>7 DEF Base, TypeOK
<1> QED
  BY <1>1, <1>8 DEF Base

LEMMA ReconcileBase ==
  ASSUME Base, Reconcile
  PROVE  Base'
<1>1. /\ run' = [run EXCEPT !.cursor = Max(First(Unsettled, Batch))] /\ Max(First(Unsettled, Batch)) \in Nodes
      /\ run.phase = "reconcile"
      /\ docs' = [n \in Nodes |-> docs'[n]] /\ \A n \in Nodes : RowOK(docs'[n])
      /\ now' \in Nat /\ now <= now'
      /\ UNCHANGED <<remote, dirs, seen, page, events, bridge, disturbed, excuse>>
  BY ReconcileIs
<1>2. docs' \in [Nodes -> Doc] /\ \A n \in Nodes : docs'[n].misses = DeleteMisses => docs'[n].deleted
  BY <1>1 DEF RowOK
<1> DEFINE c == Max(First(Unsettled, Batch))
<1> HIDE DEF c
<1>3. run' = [run EXCEPT !.cursor = c] /\ c \in Nodes
  BY <1>1 DEF c
<1>4. /\ run' \in [status : Status, phase : {"walk", "reconcile", "complete"}, started : Nat, cursor : {0} \cup Nodes]
      /\ run'.started = run.started /\ run'.status = run.status /\ run'.phase = run.phase
  BY <1>3 DEF Base, TypeOK, Status
<1>5. TypeOK'
  BY <1>1, <1>2, <1>4 DEF Base, TypeOK, Status
<1>6. page = None /\ page' = None
  BY <1>1 DEF Base
<1>7. run'.started <= now' /\ \A n \in Nodes : remote'[n].ver <= now'
  <2>1. now \in Nat /\ run.started \in Nat /\ \A n \in Nodes : remote[n].ver \in Nat
    BY DEF Base, TypeOK, Item
  <2> QED
    BY <2>1, <1>1, <1>4 DEF Base
<1> QED
  BY <1>1, <1>5, <1>6, <1>7 DEF Base

LEMMA BridgeBase ==
  ASSUME Base, BridgeStep, bridge' # None => bridge'.event \in events' /\ bridge' = bridge
  PROVE  Base'
<1>1. /\ events' \subseteq events /\ UNCHANGED <<remote, run, dirs, seen, page, disturbed>>
      /\ \/ UNCHANGED <<docs, now, excuse>>
         \/ \E n \in Nodes, d \in Doc : Confirmed(n, d)
  BY DEF BridgeStep
<1>2. now \in Nat /\ docs \in [Nodes -> Doc] /\ excuse \in [Nodes -> Nat]
      /\ \A m \in Nodes : docs[m].misses = DeleteMisses => docs[m].deleted
  BY DEF Base, TypeOK
<1>3. /\ now' \in Nat /\ now <= now' /\ docs' \in [Nodes -> Doc] /\ excuse' \in [Nodes -> Nat]
      /\ \A m \in Nodes : docs'[m].misses = DeleteMisses => docs'[m].deleted
  <2>1. CASE UNCHANGED <<docs, now, excuse>>
    BY <2>1, <1>2
  <2>2. ASSUME NEW n \in Nodes, NEW d \in Doc, Confirmed(n, d)
        PROVE  /\ now' \in Nat /\ now <= now' /\ docs' \in [Nodes -> Doc] /\ excuse' \in [Nodes -> Nat]
               /\ \A m \in Nodes : docs'[m].misses = DeleteMisses => docs'[m].deleted
    <3> DEFINE x == IF n \in disturbed THEN 1 ELSE 0
    <3>1. x \in Nat
      OBVIOUS
    <3> HIDE DEF x
    <3>2. RowOK(d) /\ docs' = [docs EXCEPT ![n] = d] /\ now' = now + 1 /\ excuse' = [excuse EXCEPT ![n] = x]
      BY <2>2 DEF Confirmed, x
    <3> QED
      BY <3>1, <3>2, <1>2 DEF RowOK
  <2> QED
    BY <2>1, <2>2, <1>1
<1>4. TypeOK'
  BY <1>1, <1>3 DEF Base, TypeOK
<1>5. run'.started <= now' /\ \A n \in Nodes : remote'[n].ver <= now'
  <2>1. now \in Nat /\ run.started \in Nat /\ \A n \in Nodes : remote[n].ver \in Nat
    BY DEF Base, TypeOK, Item
  <2> QED
    BY <2>1, <1>1, <1>3 DEF Base
<1> QED
  BY <1>1, <1>4, <1>5 DEF Base

(* The steps that write neither rows nor the tree.                         *)
LEMMA PlainBase ==
  ASSUME Base, Resume \/ WalkEnds \/ Complete \/ Fail \/ Crash \/ Locate \/ BridgeCrash \/ UNCHANGED vars
  PROVE  Base'
<1>1. CASE Resume
  BY <1>1 DEF Resume, Base, TypeOK
<1>2. CASE WalkEnds
  BY <1>2 DEF WalkEnds, Base, TypeOK
<1>3. CASE Complete
  BY <1>3 DEF Complete, Base, TypeOK
<1>4. CASE Fail
  BY <1>4 DEF Fail, Base, TypeOK
<1>5. CASE Crash
  BY <1>5 DEF Crash, Base, TypeOK
<1>6. CASE Locate
  <2>1. PICK e \in events : e.kind = "meta" /\ bridge' = [event |-> e, item |-> remote[e.node]]
    BY <1>6 DEF Locate
  <2>2. e.node \in Nodes /\ remote[e.node] \in Item /\ remote[e.node].ver \in Nat
    BY NodesAre DEF Base, TypeOK, Event, Item
  <2>3. bridge'.event = e /\ bridge'.item = remote[e.node]
    BY <2>1
  <2> QED
    BY <2>1, <2>2, <2>3, <1>6 DEF Locate, Base, TypeOK
<1>7. CASE BridgeCrash
  BY <1>7 DEF BridgeCrash, Base, TypeOK
<1>8. CASE UNCHANGED vars
  BY <1>8 DEF vars, Base, TypeOK
<1> QED
  BY <1>1, <1>2, <1>3, <1>4, <1>5, <1>6, <1>7, <1>8

LEMMA InitBase ==
  ASSUME Init
  PROVE  Base
<1>1. remote \in [Nodes -> {[place |-> p, fact |-> 0, ver |-> 0] : p \in Directories}]
      /\ \A f \in Folders : remote[f].place = Root
  BY DEF Init
<1>2. \A p \in Directories : [place |-> p, fact |-> 0, ver |-> 0] \in Item
  BY DEF Item
<1>3. \A n \in Nodes : remote[n] \in Item /\ remote[n].ver = 0 /\ remote[n].place \in Directories
  BY <1>1, <1>2
<1>4. remote \in [Nodes -> Item]
  BY <1>1, <1>3
<1>5. PICK missed \in [Nodes -> 0..(DeleteMisses - 1)] :
        /\ docs = [n \in Nodes |-> [place |-> remote[n].place, fact |-> 0, deleted |-> FALSE,
                                    misses |-> missed[n], applied |-> 0, source |-> 0, ver |-> 0]]
        /\ excuse = missed
  BY DEF Init
<1>6. \A n \in Nodes : missed[n] \in Nat /\ missed[n] \in 0..DeleteMisses /\ missed[n] # DeleteMisses
  BY Sizes
<1>7. \A n \in Nodes : RowOK(docs[n])
  BY <1>3, <1>5, <1>6 DEF RowOK, Doc
<1>8. docs \in [Nodes -> Doc] /\ excuse \in [Nodes -> Nat]
      /\ \A n \in Nodes : docs[n].misses = DeleteMisses => docs[n].deleted
  BY <1>5, <1>6, <1>7 DEF RowOK
<1>9. /\ run = NoRun /\ dirs = <<>> /\ seen = {} /\ page = None /\ events = {} /\ bridge = None
      /\ now = 0 /\ disturbed = {}
  BY DEF Init
<1>10. TypeOK
  BY <1>4, <1>8, <1>9 DEF TypeOK, NoRun
<1> QED
  BY <1>1, <1>3, <1>9, <1>10 DEF Base, NoRun

LEMMA BaseStep ==
  ASSUME Base, [Next]_vars
  PROVE  Base'
<1>1. CASE \/ \E n \in Files : Rename(n) \/ Delete(n)
           \/ \E n \in Files, p \in Directories : Move(n, p) \/ Restore(n, p)
  BY <1>1, TreeSteps, TreeBase
<1>2. CASE Start
  BY <1>2, StartBase
<1>3. CASE Fetch
  BY <1>3, FetchBase
<1>4. CASE CommitPage
  BY <1>4, CommitBase
<1>5. CASE Reconcile
  BY <1>5, ReconcileBase
<1>6. CASE Record
  BY <1>6, RecordIs, BridgeBase
<1>7. ASSUME NEW e \in events, Flip(e) PROVE Base'
  <2>1. BridgeStep /\ bridge' = bridge /\ e.kind # "meta" /\ events' = events \ {e}
    BY <1>7, FlipIs
  <2>2. bridge # None => bridge.event \in events /\ bridge.event.kind = "meta"
    BY DEF Base, TypeOK
  <2> QED
    BY <2>1, <2>2, BridgeBase
<1>8. CASE Resume \/ WalkEnds \/ Complete \/ Fail \/ Crash \/ Locate \/ BridgeCrash \/ UNCHANGED vars
  BY <1>8, PlainBase
<1> QED
  BY <1>1, <1>2, <1>3, <1>4, <1>5, <1>6, <1>7, <1>8 DEF Next, Walk, Bridge

(* Every variable has its type, and a row that was missed as often as      *)
(* configured is marked deleted.                                           *)
THEOREM Types == Spec => []TypeOK
<1>1. Init => Base
  BY InitBase
<1>2. Base /\ [Next]_vars => Base'
  BY BaseStep
<1>3. Base => TypeOK
  BY DEF Base
<1> QED
  BY <1>1, <1>2, <1>3, PTL DEF Spec

-----------------------------------------------------------------------------
(* Rows only move forward in time.                                         *)

(* Until the page is committed its items are no older than the rows, and   *)
(* no row is newer than its node.                                          *)
Fresh ==
  /\ \A n \in Nodes : docs[n].ver <= remote[n].ver
  /\ page # None => \A n \in DOMAIN page.items : Newer(n) \/ docs[n].ver <= page.items[n].ver

(* What a write of the bridge leaves of a row.                             *)
LEMMA BridgeRows ==
  ASSUME Base, BridgeStep
  PROVE  /\ UNCHANGED <<remote, run, dirs, seen, page, disturbed>>
         /\ \A n \in Nodes : \/ docs'[n] = docs[n] /\ excuse'[n] = excuse[n]
                             \/ Newer(n)' /\ docs'[n].misses = 0 /\ docs'[n].ver <= remote[n].ver
<1>1. /\ UNCHANGED <<remote, run, dirs, seen, page, disturbed>>
      /\ \/ UNCHANGED <<docs, now, excuse>>
         \/ \E n \in Nodes, d \in Doc : Confirmed(n, d)
  BY DEF BridgeStep
<1>2. docs \in [Nodes -> Doc] /\ excuse \in [Nodes -> Nat] /\ now \in Nat /\ run.started \in Nat /\ run.started <= now
  BY DEF Base, TypeOK
<1>3. ASSUME NEW n \in Nodes, NEW d \in Doc, Confirmed(n, d), NEW m \in Nodes
      PROVE  \/ docs'[m] = docs[m] /\ excuse'[m] = excuse[m]
             \/ Newer(m)' /\ docs'[m].misses = 0 /\ docs'[m].ver <= remote[m].ver
  <2>1. CASE m = n
    <3>1. docs'[m] = d /\ d.applied = now + 1 /\ d.misses = 0 /\ d.ver <= remote[n].ver
      BY <2>1, <1>2, <1>3 DEF Confirmed
    <3> QED
      BY <3>1, <2>1, <1>1, <1>2 DEF Newer
  <2>2. CASE m # n
    BY <2>2, <1>2, <1>3 DEF Confirmed
  <2> QED
    BY <2>1, <2>2
<1> QED
  BY <1>1, <1>3

LEMMA FreshInit ==
  ASSUME Init
  PROVE  Fresh
<1>1. \A n \in Nodes : docs[n].ver = 0 /\ page = None
  BY DEF Init
<1>2. \A n \in Nodes : remote[n].ver \in Nat
  BY InitBase DEF Base, TypeOK, Item
<1> QED
  BY <1>1, <1>2 DEF Fresh, Init

LEMMA FreshStep ==
  ASSUME Base, Fresh, [Next]_vars
  PROVE  Fresh'
<1> DEFINE Row(n) == docs'[n].ver <= remote'[n].ver
           Item1(n) == Newer(n)' \/ docs'[n].ver <= page'.items[n].ver
<1>0. \A n \in Nodes : /\ docs[n].ver \in Nat /\ remote[n].ver \in Nat /\ docs[n].ver <= remote[n].ver
  BY RowIs DEF Base, TypeOK, Item, Fresh
<1>1. ASSUME \/ \E n \in Files : Rename(n) \/ Delete(n)
             \/ \E n \in Files, p \in Directories : Move(n, p) \/ Restore(n, p)
      PROVE  Fresh'
  <2>1. PICK n \in Files, place \in Directories \cup {Gone}, fact \in Nat, kind \in Change :
          TreeStep(n, place, fact, kind)
    BY <1>1, TreeSteps
  <2>2. /\ remote' \in [Nodes -> Item]
        /\ \A m \in Nodes : remote[m].ver <= remote'[m].ver
        /\ UNCHANGED <<docs, run, page>>
    BY <2>1, ChangedIs DEF TreeStep
  <2>3. \A m \in Nodes : remote'[m].ver \in Nat
    BY <2>2 DEF Item
  <2>4. \A m \in Nodes : Row(m)
    BY <2>2, <2>3, <1>0
  <2>5. page' # None => \A m \in DOMAIN page'.items : Item1(m)
    BY <2>2 DEF Fresh, Newer
  <2> QED
    BY <2>4, <2>5 DEF Fresh
<1>2. CASE Start
  BY <1>2 DEF Start, Fresh
<1>3. CASE Fetch
  <2>1. PICK p \in Undone : page' = Listing(p)
    BY <1>3 DEF Fetch
  <2> DEFINE pg == Listing(p)
             items == First(Rest(p), PageSize)
  <2>2. DOMAIN pg.items = items /\ items \subseteq Rest(p) /\ \A n \in items : pg.items[n] = remote[n]
    BY ListingIs DEF Undone
  <2>3. Rest(p) \subseteq Nodes /\ page' = pg
    BY <2>1 DEF Rest
  <2> HIDE DEF pg, items
  <2>4. UNCHANGED <<docs, remote>>
    BY <1>3 DEF Fetch
  <2>5. \A n \in DOMAIN page'.items : docs'[n].ver <= page'.items[n].ver
    BY <2>2, <2>3, <2>4, <1>0
  <2> QED
    BY <2>4, <2>5, <1>0 DEF Fresh
<1>4. CASE CommitPage
  <2> DEFINE new == DOMAIN page.items \ seen
  <2>1. /\ page # None /\ page.dir \in Directories /\ new \subseteq Nodes
        /\ \A n \in new : page.items[n] \in Item /\ page.items[n].ver <= remote[n].ver
        /\ \A n \in new : docs'[n] = Upsert(n, page.items[n], page.dir)
        /\ \A n \in Nodes \ new : docs'[n] = docs[n]
        /\ page' = None /\ remote' = remote
    BY <1>4, CommitIs, Zenon
  <2>2. \A n \in new : docs'[n] = docs[n] \/ docs'[n].ver = page.items[n].ver
    BY <2>1, UpsertIs
  <2>3. \A n \in Nodes : Row(n)
    BY <2>1, <2>2, <1>0
  <2> QED
    BY <2>1, <2>3 DEF Fresh
<1>5. CASE Reconcile
  <2>1. \A n \in Nodes : docs'[n].ver = docs[n].ver
    BY <1>5, ReconcileIs
  <2>2. page' = page /\ remote' = remote /\ run.phase = "reconcile"
    BY <1>5 DEF Reconcile
  <2>3. page' = None
    BY <2>2 DEF Base
  <2> QED
    BY <2>1, <2>2, <2>3, <1>0 DEF Fresh
<1>6. CASE BridgeStep
  <2>1. /\ UNCHANGED <<remote, run, dirs, seen, page, disturbed>>
        /\ \A n \in Nodes : \/ docs'[n] = docs[n]
                            \/ Newer(n)' /\ docs'[n].ver <= remote[n].ver
    BY <1>6, BridgeRows
  <2>2. \A n \in Nodes : Row(n)
    BY <2>1, <1>0
  <2>3. ASSUME page' # None, NEW n \in DOMAIN page'.items PROVE Item1(n)
    <3>1. n \in Nodes /\ (Newer(n) \/ docs[n].ver <= page.items[n].ver)
      BY <2>1, <2>3 DEF Fresh, Base, TypeOK
    <3> QED
      BY <2>1, <3>1 DEF Newer
  <2> QED
    BY <2>2, <2>3 DEF Fresh
<1>7. CASE Record
  BY <1>7, <1>6, RecordIs
<1>8. ASSUME NEW e \in events, Flip(e) PROVE Fresh'
  BY <1>8, <1>6, FlipIs
<1>9. CASE Resume \/ WalkEnds \/ Complete \/ Locate \/ BridgeCrash \/ UNCHANGED vars
  <2>1. UNCHANGED <<docs, remote, page>> /\ run'.started = run.started
    BY <1>9 DEF Resume, WalkEnds, Complete, Locate, BridgeCrash, vars, Base, TypeOK
  <2> QED
    BY <2>1 DEF Fresh, Newer
<1>10. CASE Fail \/ Crash
  <2>1. UNCHANGED <<docs, remote>> /\ page' = None
    BY <1>10 DEF Fail, Crash
  <2> QED
    BY <2>1 DEF Fresh
<1> QED
  BY <1>1, <1>2, <1>3, <1>4, <1>5, <1>7, <1>8, <1>9, <1>10 DEF Next, Walk, Bridge

(* The walk never puts an older state of a node over a newer one: only a   *)
(* write of the bridge, which finishes an event, may do so.                *)
THEOREM RowsOnlyAdvance == Spec => WalkKeepsNewer
<1>1. Init => Base /\ Fresh
  BY InitBase, FreshInit
<1>2. Base /\ Fresh /\ [Next]_vars => Base' /\ Fresh'
  BY BaseStep, FreshStep
<1>3. ASSUME Base, Fresh, Next
      PROVE  bridge' = bridge /\ events \subseteq events' => \A n \in Nodes : docs'[n].ver >= docs[n].ver
  <2>0. \A n \in Nodes : docs[n].ver \in Nat
    BY RowIs, <1>3 DEF Base
  <2>1. CASE CommitPage
    <3> DEFINE new == DOMAIN page.items \ seen
    <3>1. /\ page # None /\ page.dir \in Directories /\ new \subseteq Nodes
          /\ \A n \in new : page.items[n] \in Item
          /\ \A n \in new : docs'[n] = Upsert(n, page.items[n], page.dir)
          /\ \A n \in Nodes \ new : docs'[n] = docs[n]
      BY <1>3, <2>1, CommitIs, Zenon
    <3>2. \A n \in new : (Newer(n) => docs'[n] = docs[n]) /\ (~Newer(n) => docs'[n].ver = page.items[n].ver)
      BY <1>3, <3>1, UpsertIs
    <3>3. \A n \in new : ~Newer(n) => docs[n].ver <= page.items[n].ver
      BY <1>3, <3>1 DEF Fresh
    <3>4. \A n \in new : page.items[n].ver \in Nat
      BY <3>1 DEF Item
    <3> HIDE DEF new
    <3>5. \A n \in new : docs'[n].ver >= docs[n].ver
      BY <2>0, <3>1, <3>2, <3>3, <3>4
    <3> QED
      BY <2>0, <3>1, <3>5
  <2>2. CASE Reconcile
    BY <1>3, <2>0, <2>2, ReconcileIs
  <2>3. CASE Record
    <3>1. ~(events \subseteq events')
      BY <1>3, <2>3, RecordIs DEF BridgeStep
    <3> QED
      BY <3>1
  <2>4. ASSUME NEW e \in events, Flip(e) PROVE ~(events \subseteq events')
    BY <1>3, <2>4, FlipIs DEF BridgeStep
  <2>5. CASE \/ \E n \in Files : Rename(n) \/ Delete(n)
             \/ \E n \in Files, p \in Directories : Move(n, p) \/ Restore(n, p)
    <3>1. docs' = docs
      BY <2>5 DEF Rename, Delete, Move, Restore, Changed
    <3> QED
      BY <3>1, <2>0
  <2>6. CASE Start \/ Resume \/ Fetch \/ WalkEnds \/ Complete \/ Fail \/ Crash \/ Locate \/ BridgeCrash
    <3>1. docs' = docs
      BY <2>6 DEF Start, Resume, Fetch, WalkEnds, Complete, Fail, Crash, Locate, BridgeCrash
    <3> QED
      BY <3>1, <2>0
  <2> QED
    BY <1>3, <2>1, <2>2, <2>3, <2>4, <2>5, <2>6 DEF Next, Walk, Bridge
<1>4. Base /\ Fresh /\ [Next]_vars =>
        [bridge' = bridge /\ events \subseteq events' => \A n \in Nodes : docs'[n].ver >= docs[n].ver]_vars
  BY <1>3
<1> QED
  BY <1>1, <1>2, <1>4, PTL DEF Spec, WalkKeepsNewer

-----------------------------------------------------------------------------
(* What the walk has covered: of every directory met, the nodes up to the  *)
(* token of its next page.                                                 *)

Reached(n) == dirs[remote[n].place].done \/ n <= dirs[remote[n].place].token
OnPage(n) == remote[n].place = page.dir /\ n > dirs[page.dir].token /\ (page.next = 0 \/ n <= page.next)
Covered ==
  /\ Active => /\ Root \in DOMAIN dirs
               /\ seen \cap Folders \subseteq DOMAIN dirs
               /\ \A n \in Still : InTree(n)
               /\ Folders \subseteq Still
               /\ \A n \in Still : remote[n].place \in DOMAIN dirs /\ Reached(n) => n \in seen
               /\ run.phase # "walk" => Still \subseteq seen
  /\ page # None => \A n \in Still : OnPage(n) => n \in DOMAIN page.items

LEMMA CoveredInit ==
  ASSUME Init
  PROVE  Covered
BY DEF Init, Covered, Active, NoRun

LEMMA CoveredTree ==
  ASSUME Base, Covered, NEW n \in Files, NEW place \in Directories \cup {Gone}, NEW fact \in Nat,
         NEW kind \in Change, TreeStep(n, place, fact, kind)
  PROVE  Covered'
<1>1. /\ remote'[n] = [place |-> place, fact |-> fact, ver |-> now + 1]
      /\ \A m \in Nodes \ {n} : remote'[m] = remote[m]
      /\ UNCHANGED <<run, dirs, seen, page>>
  BY ChangedIs DEF TreeStep
<1>2. disturbed \subseteq disturbed' /\ disturbed' \subseteq disturbed \cup {n}
      /\ (Active /\ n \notin disturbed' => place = remote[n].place /\ InTree(n))
      /\ n \in Nodes /\ n \notin Folders /\ Folders \subseteq Nodes
  BY NodesAre DEF TreeStep
<1>3. Active' <=> Active
  BY <1>1 DEF Active
<1>4. ASSUME Active PROVE \A m \in Still' : m \in Still /\ remote'[m].place = remote[m].place
  <2>1. ASSUME NEW m \in Still' PROVE m \in Still /\ remote'[m].place = remote[m].place
    <3>1. m \in Nodes /\ m \notin disturbed' /\ m \in Still
      BY <1>2 DEF Still
    <3>2. CASE m = n
      <4>1. remote'[n].place = place
        BY <1>1
      <4> QED
        BY <4>1, <3>1, <3>2, <1>2, <1>4
    <3>3. CASE m # n
      BY <3>1, <3>3, <1>1
    <3> QED
      BY <3>1, <3>2, <3>3
  <2> QED
    BY <2>1
<1>5. ASSUME Active
      PROVE  /\ Root \in DOMAIN dirs' /\ seen' \cap Folders \subseteq DOMAIN dirs'
             /\ \A m \in Still' : InTree(m)'
             /\ Folders \subseteq Still'
             /\ \A m \in Still' : remote'[m].place \in DOMAIN dirs' /\ Reached(m)' => m \in seen'
             /\ run'.phase # "walk" => Still' \subseteq seen'
  <2>1. \A m \in Still' : InTree(m)'
    BY <1>4, <1>5 DEF Covered, InTree
  <2>2. Folders \subseteq Still'
    BY <1>2, <1>5 DEF Covered, Still
  <2>3. \A m \in Still' : remote'[m].place \in DOMAIN dirs' /\ Reached(m)' => m \in seen'
    BY <1>1, <1>4, <1>5 DEF Covered, Reached
  <2>4. run'.phase # "walk" => Still' \subseteq seen'
    BY <1>1, <1>4, <1>5 DEF Covered
  <2> QED
    BY <2>1, <2>2, <2>3, <2>4, <1>1, <1>5 DEF Covered
<1>6. ASSUME page' # None PROVE \A m \in Still' : OnPage(m)' => m \in DOMAIN page'.items
  <2>1. Active
    BY <1>1, <1>6 DEF Base, Active
  <2> QED
    BY <2>1, <1>1, <1>4, <1>6 DEF Covered, OnPage
<1> QED
  BY <1>3, <1>5, <1>6 DEF Covered

LEMMA CoveredStart ==
  ASSUME Base, Start
  PROVE  Covered'
<1>1. /\ page = None /\ page' = None /\ remote' = remote
      /\ run' = [status |-> "running", phase |-> "walk", started |-> now + 1, cursor |-> 0]
      /\ dirs' = [q \in {Root} |-> Unlisted] /\ seen' = {} /\ disturbed' = {n \in Nodes : ~InTree(n)}
  BY DEF Start
<1>2. \A n \in Still' : n \in Nodes /\ InTree(n) /\ InTree(n)'
  BY <1>1 DEF Still, InTree
<1>3. Folders \subseteq Still'
  <2>1. \A f \in Folders : f \in Nodes /\ remote[f].place = Root
    BY NodesAre DEF Base
  <2>2. Root # Gone
    BY Ids
  <2> QED
    BY <1>1, <2>1, <2>2 DEF Still, InTree
<1>4. \A n \in Still' : ~(remote'[n].place \in DOMAIN dirs' /\ Reached(n)')
  <2>1. \A n \in Nodes : ~(n <= 0) /\ n \in Nat
    BY NodesAre
  <2>2. \A n \in Nodes : remote'[n].place \in DOMAIN dirs' =>
          dirs'[remote'[n].place].done = FALSE /\ dirs'[remote'[n].place].token = 0
    BY <1>1 DEF Unlisted
  <2> QED
    BY <2>1, <2>2, <1>2 DEF Reached
<1>5. Root \in DOMAIN dirs' /\ run'.phase = "walk"
  BY <1>1
<1> QED
  BY <1>1, <1>2, <1>3, <1>4, <1>5 DEF Covered

LEMMA CoveredFetch ==
  ASSUME Base, Covered, Fetch
  PROVE  Covered'
<1>1. PICK p \in Undone : page' = Listing(p)
  BY DEF Fetch
<1>2. UNCHANGED <<remote, run, dirs, seen, disturbed>>
  BY DEF Fetch
<1> DEFINE pg == Listing(p)
           items == First(Rest(p), PageSize)
<1>3. /\ pg.dir = p /\ DOMAIN pg.items = items
      /\ \A n \in Rest(p) : pg.next = 0 \/ n <= pg.next => n \in items
  BY ListingIs DEF Undone
<1>4. page' = pg
  BY <1>1
<1> HIDE DEF pg, items
<1>5. ASSUME NEW n \in Still', OnPage(n)' PROVE n \in DOMAIN page'.items
  <2>1. n \in Nodes /\ remote[n].place = p /\ n > dirs[p].token /\ (pg.next = 0 \/ n <= pg.next)
    BY <1>2, <1>3, <1>4, <1>5 DEF OnPage, Still
  <2>2. n \in Rest(p)
    BY <2>1 DEF Rest
  <2> QED
    BY <2>1, <2>2, <1>3, <1>4
<1> QED
  BY <1>2, <1>5 DEF Covered, Active, Still, InTree, Reached

LEMMA CoveredCommit ==
  ASSUME Base, Covered, CommitPage
  PROVE  Covered'
<1> DEFINE new == DOMAIN page.items \ seen
           dom == DOMAIN dirs \cup Subdirectories(new)
<1>1. /\ page # None /\ page.dir \in DOMAIN dirs /\ new \subseteq Nodes /\ run.status = "running" /\ run.phase = "walk"
      /\ seen' = seen \cup new /\ page' = None
      /\ dirs' = [q \in dom |-> IF q = page.dir THEN Listed(page) ELSE IF q \in DOMAIN dirs THEN dirs[q] ELSE Unlisted]
      /\ UNCHANGED <<remote, run, disturbed>>
  BY CommitIs, Zenon
<1>2. /\ Root \in DOMAIN dirs /\ seen \cap Folders \subseteq DOMAIN dirs
      /\ \A n \in Still : InTree(n)
      /\ Folders \subseteq Still
      /\ \A n \in Still : remote[n].place \in DOMAIN dirs /\ Reached(n) => n \in seen
  BY <1>1 DEF Covered, Active
<1>3. \A n \in DOMAIN page.items : n \in seen'
  BY <1>1
<1>4. new \cap Folders \subseteq dom
  BY DEF Subdirectories
<1> HIDE DEF new, dom
<1>5. DOMAIN dirs' = dom
  BY <1>1
<1>6. seen' \cap Folders \subseteq DOMAIN dirs' /\ Root \in DOMAIN dirs'
  BY <1>1, <1>2, <1>4, <1>5 DEF dom
<1>7. ASSUME NEW n \in Still, remote[n].place \in dom,
             dirs'[remote[n].place].done \/ n <= dirs'[remote[n].place].token
      PROVE  n \in seen'
  <2> DEFINE q == remote[n].place
  <2>0. n \in Nat /\ n # 0
    BY NodesAre DEF Still
  <2>1. CASE q = page.dir
    <3>1. dirs'[q] = Listed(page) /\ q \in DOMAIN dirs
      BY <2>1, <1>1, <1>7
    <3>2. page.next = 0 \/ n <= page.next
      <4>1. Listed(page).token = page.next /\ Listed(page).done = (page.next = 0)
        BY DEF Listed
      <4>2. Listed(page).done \/ n <= Listed(page).token
        BY <3>1, <1>7
      <4> QED
        BY <4>1, <4>2
    <3>3. CASE n <= dirs[q].token
      BY <3>1, <3>3, <1>1, <1>2 DEF Reached
    <3>4. CASE ~(n <= dirs[q].token)
      <4>1. dirs[q].token \in Nat
        <5>1. dirs[q] \in [token : {0} \cup Nodes, done : BOOLEAN]
          BY <3>1 DEF Base, TypeOK
        <5>2. dirs[q].token \in {0} \cup Nodes
          BY <5>1
        <5>3. 0 \in Nat /\ Nodes \subseteq Nat
          BY NodesAre
        <5> QED
          BY <5>2, <5>3
      <4>2. OnPage(n)
        BY <4>1, <2>0, <2>1, <3>2, <3>4 DEF OnPage
      <4> QED
        BY <4>2, <1>1, <1>3 DEF Covered
    <3> QED
      BY <3>3, <3>4
  <2>2. CASE q # page.dir /\ q \in DOMAIN dirs
    <3>1. dirs'[q] = dirs[q]
      BY <2>2, <1>1, <1>7
    <3> QED
      BY <3>1, <2>2, <1>1, <1>2, <1>7 DEF Reached
  <2>3. CASE q # page.dir /\ q \notin DOMAIN dirs
    <3>1. dirs'[q] = Unlisted
      BY <2>3, <1>1, <1>7
    <3> QED
      BY <3>1, <2>0, <1>7 DEF Unlisted
  <2> QED
    BY <2>1, <2>2, <2>3
<1>8. Still' = Still /\ \A n \in Still' : InTree(n)'
  BY <1>1, <1>2 DEF Still, InTree
<1>9. \A n \in Still' : remote'[n].place \in DOMAIN dirs' /\ Reached(n)' => n \in seen'
  BY <1>1, <1>5, <1>7, <1>8 DEF Reached
<1> QED
  BY <1>1, <1>2, <1>6, <1>8, <1>9 DEF Covered

(* The walk ends when every directory met is listed to its end: then every *)
(* node that stayed in its place was seen.                                 *)
LEMMA CoveredEnds ==
  ASSUME Base, Covered, WalkEnds
  PROVE  Covered'
<1>1. /\ run.status = "running" /\ run.phase = "walk" /\ page = None /\ Undone = {} /\ page' = None
      /\ run'.status = run.status
      /\ UNCHANGED <<remote, dirs, seen, disturbed>>
  BY DEF WalkEnds, Base, TypeOK
<1>2. /\ Root \in DOMAIN dirs /\ seen \cap Folders \subseteq DOMAIN dirs
      /\ \A n \in Still : InTree(n)
      /\ Folders \subseteq Still
      /\ \A n \in Still : remote[n].place \in DOMAIN dirs /\ Reached(n) => n \in seen
  BY <1>1 DEF Covered, Active
<1>3. \A q \in DOMAIN dirs : dirs[q].done
  BY <1>1 DEF Undone
<1>4. \A n \in Still : remote[n].place \in DOMAIN dirs => n \in seen
  BY <1>2, <1>3 DEF Reached
<1>5. \A f \in Folders : f \in DOMAIN dirs
  <2>1. \A f \in Folders : remote[f].place = Root /\ f \in Still
    BY <1>2 DEF Base
  <2> QED
    BY <2>1, <1>2, <1>4
<1>6. \A n \in Still : remote[n].place \in DOMAIN dirs
  <2>1. \A n \in Still : remote[n].place \in Directories \cup {Gone} /\ remote[n].place # Gone
    BY <1>2 DEF Still, Base, TypeOK, Item, InTree
  <2> QED
    BY <2>1, <1>2, <1>5 DEF Directories
<1>7. Still \subseteq seen
  BY <1>4, <1>6
<1>8. UNCHANGED <<dirs, seen, remote>> /\ Still' = Still
  BY <1>1 DEF Still
<1> QED
  BY <1>1, <1>2, <1>7, <1>8 DEF Covered, Reached, InTree

LEMMA CoveredStep ==
  ASSUME Base, Covered, [Next]_vars
  PROVE  Covered'
<1>1. CASE \/ \E n \in Files : Rename(n) \/ Delete(n)
           \/ \E n \in Files, p \in Directories : Move(n, p) \/ Restore(n, p)
  BY <1>1, TreeSteps, CoveredTree
<1>2. CASE Start
  BY <1>2, CoveredStart
<1>3. CASE Fetch
  BY <1>3, CoveredFetch
<1>4. CASE CommitPage
  BY <1>4, CoveredCommit
<1>5. CASE WalkEnds
  BY <1>5, CoveredEnds
<1>6. CASE Reconcile \/ Resume \/ Fail
  <2>1. /\ run'.phase = run.phase /\ (Active' => Active)
        /\ UNCHANGED <<remote, dirs, seen, disturbed>>
        /\ page' # None => page' = page
    BY <1>6 DEF Reconcile, Settled, Resume, Fail, Active, Base, TypeOK
  <2> QED
    BY <2>1 DEF Covered, Reached, InTree, Still, OnPage
<1>7. CASE Complete
  <2>1. page = None /\ ~Active' /\ page' = page
    BY <1>7 DEF Complete, Active, Base, TypeOK
  <2> QED
    BY <2>1 DEF Covered
<1>8. CASE Crash \/ Locate \/ Record \/ (\E e \in events : Flip(e)) \/ BridgeCrash \/ UNCHANGED vars
  <2>1. /\ UNCHANGED <<remote, run, dirs, seen, disturbed>>
        /\ page' # None => page' = page
    BY <1>8 DEF Crash, Locate, Record, Flip, BridgeCrash, vars
  <2> QED
    BY <2>1 DEF Covered, Active, Reached, InTree, Still, OnPage
<1> QED
  BY <1>1, <1>2, <1>3, <1>4, <1>5, <1>6, <1>7, <1>8 DEF Next, Walk, Bridge

-----------------------------------------------------------------------------
(* A miss is counted once per run, and only with an excuse.                *)

(* What may still be counted in this run is covered by the excuse already. *)
Pending(n) == ~Newer(n) /\ n \notin seen /\ n > run.cursor
Counted ==
  /\ MissesHaveCause
  /\ Active => \A n \in disturbed : Pending(n) => docs[n].misses < excuse[n]

LEMMA CountedInit ==
  ASSUME Init
  PROVE  Counted
<1>1. PICK missed \in [Nodes -> 0..(DeleteMisses - 1)] :
        /\ docs = [n \in Nodes |-> [place |-> remote[n].place, fact |-> 0, deleted |-> FALSE,
                                    misses |-> missed[n], applied |-> 0, source |-> 0, ver |-> 0]]
        /\ excuse = missed
  BY DEF Init
<1>2. \A n \in Nodes : docs[n].misses = excuse[n] /\ excuse[n] \in Nat
  BY <1>1, Sizes
<1>3. disturbed = {}
  BY DEF Init
<1> QED
  BY <1>2, <1>3 DEF Counted, MissesHaveCause

LEMMA CountedStep ==
  ASSUME Base, Covered, Counted, [Next]_vars
  PROVE  Counted'
<1>0. \A n \in Nodes : /\ docs[n].misses \in Nat /\ excuse[n] \in Nat /\ docs[n].misses <= excuse[n]
                       /\ Active /\ n \in disturbed /\ Pending(n) => docs[n].misses < excuse[n]
  BY RowIs DEF Base, Counted, MissesHaveCause
<1>00. disturbed \subseteq Nodes /\ excuse \in [Nodes -> Nat]
  BY DEF Base, TypeOK
<1>1. ASSUME \/ \E n \in Files : Rename(n) \/ Delete(n)
             \/ \E n \in Files, p \in Directories : Move(n, p) \/ Restore(n, p)
      PROVE  Counted'
  <2>1. PICK n \in Files, place \in Directories \cup {Gone}, fact \in Nat, kind \in Change :
          TreeStep(n, place, fact, kind)
    BY <1>1, TreeSteps
  <2>2. UNCHANGED <<docs, run, seen>>
    BY <2>1, ChangedIs DEF TreeStep
  <2>3. /\ disturbed' \subseteq disturbed \cup {n} /\ excuse' \in [Nodes -> Nat]
        /\ \A m \in Nodes : excuse[m] <= excuse'[m]
        /\ n \in disturbed' \ disturbed => excuse[n] < excuse'[n]
        /\ n \in Nodes
    BY <2>1, NodesAre DEF TreeStep
  <2>4. \A m \in Nodes : excuse'[m] \in Nat /\ (Pending(m)' => Pending(m)) /\ docs'[m] = docs[m] /\ (Active' => Active)
    BY <2>2, <2>3 DEF Pending, Newer, Active
  <2>5. MissesHaveCause'
    BY <2>3, <2>4, <1>0 DEF MissesHaveCause
  <2>6. ASSUME Active', NEW m \in disturbed', Pending(m)' PROVE docs'[m].misses < excuse'[m]
    <3>1. CASE m \in disturbed
      BY <3>1, <2>3, <2>4, <2>6, <1>0, <1>00
    <3>2. CASE m \notin disturbed
      BY <3>2, <2>3, <2>4, <2>6, <1>0
    <3> QED
      BY <3>1, <3>2
  <2> QED
    BY <2>5, <2>6 DEF Counted
<1>2. CASE Start
  <2> DEFINE S == {n \in Nodes : ~InTree(n)}
  <2>1. /\ disturbed' = S /\ docs' = docs
        /\ excuse' = [n \in Nodes |-> excuse[n] + IF n \in S THEN 1 ELSE 0]
    BY <1>2 DEF Start
  <2>2. S \subseteq Nodes
    OBVIOUS
  <2> HIDE DEF S
  <2>3. \A n \in Nodes : excuse'[n] = excuse[n] + IF n \in S THEN 1 ELSE 0
    BY <2>1
  <2>4. \A n \in Nodes : docs'[n].misses <= excuse'[n] /\ (n \in S => docs'[n].misses < excuse'[n])
    BY <2>1, <2>3, <1>0
  <2> QED
    BY <2>1, <2>2, <2>4 DEF Counted, MissesHaveCause
<1>3. CASE CommitPage
  <2> DEFINE new == DOMAIN page.items \ seen
  <2>1. /\ page # None /\ page.dir \in Directories /\ new \subseteq Nodes
        /\ \A n \in Nodes \ new : docs'[n] = docs[n] /\ excuse'[n] = excuse[n]
        /\ \A n \in new : Newer(n) => docs'[n] = docs[n] /\ excuse'[n] = excuse[n]
        /\ \A n \in new : ~Newer(n) => docs'[n].misses = 0
        /\ excuse' \in [Nodes -> Nat] /\ seen' = seen \cup new /\ UNCHANGED <<run, disturbed>>
    BY <1>3, CommitIs, Zenon
  <2> HIDE DEF new
  <2>2. \A n \in Nodes : \/ docs'[n] = docs[n] /\ excuse'[n] = excuse[n]
                         \/ n \in new /\ docs'[n].misses = 0
    BY <2>1
  <2>3. MissesHaveCause'
    <3>1. \A n \in Nodes : excuse'[n] \in Nat
      BY <2>1
    <3> QED
      BY <3>1, <2>2, <1>0 DEF MissesHaveCause
  <2>4. ASSUME Active', NEW n \in disturbed', Pending(n)' PROVE docs'[n].misses < excuse'[n]
    <3>1. n \in disturbed /\ n \in Nodes /\ n \notin new /\ Active
      BY <2>1, <2>4, <1>00 DEF Pending, Active
    <3>2. docs'[n] = docs[n] /\ excuse'[n] = excuse[n]
      BY <3>1, <2>1
    <3>3. Pending(n)
      BY <3>2, <2>1, <2>4 DEF Pending, Newer
    <3> QED
      BY <3>1, <3>2, <3>3, <1>0
  <2> QED
    BY <2>3, <2>4 DEF Counted
<1>4. CASE Reconcile
  <2> DEFINE batch == First(Unsettled, Batch)
             c == Max(batch)
  <2>1. /\ run.status = "running" /\ run.phase = "reconcile" /\ batch \subseteq Unsettled
        /\ run' = [run EXCEPT !.cursor = c]
        /\ c \in Nodes /\ run.cursor < c /\ \A n \in batch : n <= c
        /\ \A n \in Nodes : \/ docs'[n] = docs[n]
                            \/ /\ n \in batch /\ n \notin seen /\ ~Newer(n)
                               /\ docs'[n].misses = docs[n].misses + 1
        /\ \A n \in Nodes : docs[n].applied <= docs'[n].applied
        /\ UNCHANGED <<seen, disturbed, excuse>>
    BY <1>4, ReconcileIs
  <2>2. \A n \in batch : n \in Nodes /\ n > run.cursor
    BY <2>1 DEF Unsettled
  <2>3. run'.cursor = c /\ run'.started = run.started /\ Active
    <3>1. run = [run EXCEPT !.cursor = run.cursor]
      BY DEF Base, TypeOK
    <3> QED
      BY <2>1, <3>1 DEF Base, TypeOK, Active
  <2> HIDE DEF batch, c
  <2>4. ASSUME NEW n \in Nodes, docs'[n] # docs[n]
        PROVE  n <= c /\ docs'[n].misses <= excuse'[n]
    <3>1. n \in batch /\ n \notin seen /\ ~Newer(n) /\ docs'[n].misses = docs[n].misses + 1 /\ excuse' = excuse
      BY <2>1, <2>4
    <3>2. n \in disturbed
      <4>1. Still \subseteq seen
        BY <2>1, <2>3 DEF Covered
      <4> QED
        BY <4>1, <3>1 DEF Still
    <3>3. Pending(n)
      BY <3>1, <2>2 DEF Pending
    <3> QED
      BY <3>1, <3>2, <3>3, <2>1, <2>3, <1>0
  <2>5. MissesHaveCause'
    BY <2>1, <2>4, <1>0 DEF MissesHaveCause
  <2>6. ASSUME NEW n \in disturbed', Pending(n)' PROVE docs'[n].misses < excuse'[n]
    <3>1. n \in Nodes /\ n \in disturbed /\ n \in Nat /\ c \in Nat /\ run.cursor \in Nat
      <4>1. 0 \in Nat /\ Nodes \subseteq Nat
        BY NodesAre
      <4>2. run.cursor \in {0} \cup Nodes
        BY DEF Base, TypeOK
      <4> QED
        BY <4>1, <4>2, <2>1, <2>6, <1>00
    <3>2. n > c
      BY <2>3, <2>6 DEF Pending
    <3>3. docs'[n] = docs[n]
      BY <3>1, <3>2, <2>4
    <3>4. Pending(n)
      BY <3>1, <3>2, <3>3, <2>1, <2>3, <2>6 DEF Pending, Newer
    <3> QED
      BY <3>1, <3>3, <3>4, <2>1, <2>3, <1>0
  <2> QED
    BY <2>5, <2>6 DEF Counted
<1>5. CASE BridgeStep
  <2>1. /\ UNCHANGED <<run, seen, disturbed>>
        /\ \A n \in Nodes : \/ docs'[n] = docs[n] /\ excuse'[n] = excuse[n]
                            \/ Newer(n)' /\ docs'[n].misses = 0
    BY <1>5, BridgeRows
  <2>2. \A n \in Nodes : excuse'[n] \in Nat
    BY <1>5, <1>00 DEF BridgeStep, Confirmed
  <2>3. MissesHaveCause'
    BY <2>1, <2>2, <1>0 DEF MissesHaveCause
  <2>4. ASSUME Active', NEW n \in disturbed', Pending(n)' PROVE docs'[n].misses < excuse'[n]
    <3>1. n \in Nodes /\ n \in disturbed /\ Active /\ ~Newer(n)'
      BY <2>1, <2>4, <1>00 DEF Active, Pending
    <3>2. docs'[n] = docs[n] /\ excuse'[n] = excuse[n]
      BY <2>1, <3>1
    <3>3. Pending(n)
      BY <2>1, <2>4, <3>2 DEF Pending, Newer
    <3> QED
      BY <3>1, <3>2, <3>3, <1>0
  <2> QED
    BY <2>3, <2>4 DEF Counted
<1>6. CASE Record
  BY <1>6, <1>5, RecordIs
<1>7. ASSUME NEW e \in events, Flip(e) PROVE Counted'
  BY <1>7, <1>5, FlipIs
<1>8. CASE Resume \/ Fetch \/ WalkEnds \/ Complete \/ Fail \/ Crash \/ Locate \/ BridgeCrash \/ UNCHANGED vars
  <2>1. /\ UNCHANGED <<docs, seen, disturbed, excuse>> /\ (Active' => Active)
        /\ run'.cursor = run.cursor /\ run'.started = run.started
    BY <1>8 DEF Resume, Fetch, WalkEnds, Complete, Fail, Crash, Locate, BridgeCrash, vars, Active, Base, TypeOK
  <2> QED
    BY <2>1 DEF Counted, MissesHaveCause, Pending, Newer
<1> QED
  BY <1>1, <1>2, <1>3, <1>4, <1>6, <1>7, <1>8 DEF Next, Walk, Bridge

(* However pages, rows and the cursor are interrupted and resumed, a       *)
(* document is counted absent at most once per run, and only in a run      *)
(* during which it was absent or on the move.                              *)
THEOREM AbsenceHasCause == Spec => []MissesHaveCause
<1>1. Init => Base /\ Covered /\ Counted
  BY InitBase, CoveredInit, CountedInit
<1>2. Base /\ Covered /\ Counted /\ [Next]_vars => Base' /\ Covered' /\ Counted'
  BY BaseStep, CoveredStep, CountedStep
<1>3. Counted => MissesHaveCause
  BY DEF Counted
<1> QED
  BY <1>1, <1>2, <1>3, PTL DEF Spec

-----------------------------------------------------------------------------
(* What the walk has written is what DingTalk still has.                   *)

Same(n) == InTree(n) /\ remote[n].ver < run.started
Matches(n) == ~docs[n].deleted /\ docs[n].fact = remote[n].fact /\ docs[n].place = remote[n].place
Exact ==
  /\ run.status # "none" => \A n \in seen \ disturbed : Same(n) => Newer(n) \/ Matches(n)
  /\ page # None => \A n \in DOMAIN page.items :
       page.items[n].place = page.dir /\ (remote[n] = page.items[n] \/ remote[n].ver > run.started)
  /\ run.status = "succeeded" => \A n \in Still : Same(n) => n \in seen

LEMMA ExactInit ==
  ASSUME Init
  PROVE  Exact
BY DEF Init, Exact, NoRun

LEMMA ExactTree ==
  ASSUME Base, Exact, NEW n \in Files, NEW place \in Directories \cup {Gone}, NEW fact \in Nat,
         NEW kind \in Change, TreeStep(n, place, fact, kind)
  PROVE  Exact'
<1>1. /\ now \in Nat /\ remote'[n] = [place |-> place, fact |-> fact, ver |-> now + 1]
      /\ \A m \in Nodes \ {n} : remote'[m] = remote[m]
      /\ UNCHANGED <<docs, run, dirs, seen, page>>
  BY ChangedIs DEF TreeStep
<1>2. run.started \in Nat /\ run.started <= now /\ seen \subseteq Nodes
  BY DEF Base, TypeOK
<1>3. disturbed \subseteq disturbed'
  BY DEF TreeStep
<1>4. remote'[n].ver > run.started
  BY <1>1, <1>2
<1>5. ASSUME NEW m \in Nodes, Same(m)' PROVE m # n /\ Same(m) /\ remote'[m] = remote[m]
  <2>1. m # n
    <3>1. ~(remote'[n].ver < run.started) /\ run'.started = run.started
      BY <1>1, <1>2
    <3> QED
      BY <1>5, <3>1 DEF Same
  <2> QED
    BY <2>1, <1>1, <1>5 DEF Same, InTree
<1>6. ASSUME run'.status # "none", NEW m \in seen' \ disturbed', Same(m)' PROVE Newer(m)' \/ Matches(m)'
  <2>1. m \in Nodes /\ m \in seen \ disturbed /\ Same(m) /\ remote'[m] = remote[m]
    BY <1>1, <1>2, <1>3, <1>5, <1>6
  <2>2. Newer(m) \/ Matches(m)
    BY <2>1, <1>1, <1>6 DEF Exact
  <2> QED
    BY <2>1, <2>2, <1>1 DEF Newer, Matches
<1>7. ASSUME page' # None, NEW m \in DOMAIN page'.items
      PROVE  page'.items[m].place = page'.dir /\ (remote'[m] = page'.items[m] \/ remote'[m].ver > run'.started)
  <2>1. m \in Nodes /\ page.items[m].place = page.dir /\ (remote[m] = page.items[m] \/ remote[m].ver > run.started)
    BY <1>1, <1>7 DEF Exact, Base, TypeOK
  <2> QED
    BY <2>1, <1>1, <1>4
<1>8. ASSUME run'.status = "succeeded", NEW m \in Still', Same(m)' PROVE m \in seen'
  BY <1>1, <1>3, <1>5, <1>8 DEF Exact, Still
<1> QED
  BY <1>6, <1>7, <1>8 DEF Exact

LEMMA ExactStep ==
  ASSUME Base, Covered, Exact, [Next]_vars
  PROVE  Exact'
<1>1. CASE \/ \E n \in Files : Rename(n) \/ Delete(n)
           \/ \E n \in Files, p \in Directories : Move(n, p) \/ Restore(n, p)
  BY <1>1, TreeSteps, ExactTree
<1>2. CASE Start
  <2>1. page' = None /\ seen' = {} /\ run'.status = "running"
    BY <1>2 DEF Start
  <2> QED
    BY <2>1 DEF Exact
<1>3. CASE Fetch
  <2>1. PICK p \in Undone : page' = Listing(p)
    BY <1>3 DEF Fetch
  <2> DEFINE pg == Listing(p)
             items == First(Rest(p), PageSize)
  <2>2. pg.dir = p /\ DOMAIN pg.items = items /\ items \subseteq Rest(p) /\ \A n \in items : pg.items[n] = remote[n]
    BY ListingIs DEF Undone
  <2>3. page' = pg /\ \A n \in Rest(p) : remote[n].place = p
    BY <2>1 DEF Rest
  <2> HIDE DEF pg, items
  <2>4. UNCHANGED <<docs, remote, run, seen, disturbed>>
    BY <1>3 DEF Fetch
  <2>5. \A n \in DOMAIN page'.items : page'.items[n].place = page'.dir /\ remote'[n] = page'.items[n]
    BY <2>2, <2>3, <2>4
  <2> QED
    BY <2>4, <2>5 DEF Exact, Same, InTree, Newer, Matches, Still
<1>4. CASE CommitPage
  <2> DEFINE new == DOMAIN page.items \ seen
  <2>1. /\ page # None /\ page.dir \in Directories /\ new \subseteq Nodes /\ run.status = "running"
        /\ \A n \in new : page.items[n] \in Item
        /\ \A n \in new : docs'[n] = Upsert(n, page.items[n], page.dir)
        /\ \A n \in Nodes \ new : docs'[n] = docs[n]
        /\ seen' = seen \cup new /\ page' = None /\ UNCHANGED <<remote, run, disturbed>>
    BY <1>4, CommitIs, Zenon
  <2>2. \A n \in new : /\ Newer(n) => docs'[n] = docs[n]
                       /\ ~Newer(n) => /\ ~docs'[n].deleted /\ docs'[n].fact = page.items[n].fact
                                       /\ docs'[n].place = page.dir
    BY <2>1, UpsertIs
  <2>3. \A n \in new : page.items[n].place = page.dir /\ (remote[n] = page.items[n] \/ remote[n].ver > run.started)
    BY <2>1 DEF Exact
  <2>4. \A n \in seen \ new : docs'[n] = docs[n]
    BY <2>1 DEF Base, TypeOK
  <2>5. run.started \in Nat /\ \A n \in Nodes : remote[n].ver \in Nat
    BY DEF Base, TypeOK, Item
  <2> HIDE DEF new
  <2>6. ASSUME NEW n \in seen' \ disturbed', Same(n)' PROVE Newer(n)' \/ Matches(n)'
    <3>1. Same(n)
      BY <2>1, <2>6 DEF Same, InTree
    <3>2. CASE n \in new
      <4>1. remote[n] = page.items[n]
        BY <3>1, <3>2, <2>1, <2>3, <2>5 DEF Same
      <4>2. CASE Newer(n)
        BY <4>2, <3>2, <2>1, <2>2 DEF Newer
      <4>3. CASE ~Newer(n)
        BY <4>1, <4>3, <3>2, <2>1, <2>2, <2>3 DEF Matches
      <4> QED
        BY <4>2, <4>3
    <3>3. CASE n \notin new
      <4>1. n \in seen \ disturbed /\ docs'[n] = docs[n]
        BY <3>3, <2>1, <2>4, <2>6
      <4>2. Newer(n) \/ Matches(n)
        BY <4>1, <3>1, <2>1 DEF Exact
      <4> QED
        BY <4>1, <4>2, <2>1 DEF Newer, Matches
    <3> QED
      BY <3>2, <3>3
  <2> QED
    BY <2>1, <2>6 DEF Exact
<1>5. CASE Reconcile
  <2>1. /\ run.status = "running" /\ run.phase = "reconcile" /\ UNCHANGED <<remote, seen, page, disturbed>>
        /\ \A n \in Nodes : docs'[n] = docs[n] \/ n \notin seen
    BY <1>5, ReconcileIs
  <2>2. page' = None /\ run'.status = "running" /\ run'.started = run.started
    BY <1>5, <2>1 DEF Reconcile, Settled, Base, TypeOK
  <2>3. \A n \in seen : docs'[n] = docs[n]
    BY <2>1 DEF Base, TypeOK
  <2>4. \A n \in seen \ disturbed : Same(n) => Newer(n) \/ Matches(n)
    BY <2>1 DEF Exact
  <2>5. \A n \in seen' \ disturbed' : Same(n)' => Newer(n)' \/ Matches(n)'
    BY <2>1, <2>2, <2>3, <2>4 DEF Same, InTree, Newer, Matches
  <2> QED
    BY <2>2, <2>5 DEF Exact
<1>6. CASE BridgeStep
  <2>1. /\ UNCHANGED <<remote, run, dirs, seen, page, disturbed>>
        /\ \A n \in Nodes : docs'[n] = docs[n] \/ Newer(n)'
    BY <1>6, BridgeRows
  <2>2. seen \subseteq Nodes
    BY DEF Base, TypeOK
  <2>3. ASSUME run.status # "none", NEW n \in seen' \ disturbed', Same(n)' PROVE Newer(n)' \/ Matches(n)'
    <3>1. n \in Nodes /\ n \in seen \ disturbed /\ Same(n)
      BY <2>1, <2>2, <2>3 DEF Same, InTree
    <3>2. Newer(n) \/ Matches(n)
      BY <3>1, <2>3 DEF Exact
    <3> QED
      BY <3>1, <3>2, <2>1 DEF Newer, Matches
  <2> QED
    BY <2>1, <2>3 DEF Exact, Same, InTree, Still
<1>7. CASE Record
  BY <1>7, <1>6, RecordIs
<1>8. ASSUME NEW e \in events, Flip(e) PROVE Exact'
  BY <1>8, <1>6, FlipIs
<1>9. CASE Resume \/ WalkEnds \/ Locate \/ BridgeCrash \/ Fail \/ Crash \/ UNCHANGED vars
  <2>1. /\ UNCHANGED <<docs, remote, seen, disturbed>> /\ (page' # None => page' = page)
        /\ run'.started = run.started /\ (run'.status # "none" => run.status # "none")
        /\ run'.status = "succeeded" => run.status = "succeeded"
    BY <1>9 DEF Resume, WalkEnds, Locate, BridgeCrash, Fail, Crash, vars, Base, TypeOK
  <2> QED
    BY <2>1 DEF Exact, Same, InTree, Newer, Matches, Still
<1>10. CASE Complete
  <2>1. /\ UNCHANGED <<docs, remote, seen, disturbed, page>> /\ run.status = "running" /\ run.phase = "reconcile"
        /\ run'.started = run.started
    BY <1>10 DEF Complete, Base, TypeOK
  <2>2. Still \subseteq seen
    BY <2>1 DEF Covered, Active
  <2> QED
    BY <2>1, <2>2 DEF Exact, Same, InTree, Newer, Matches, Still
<1> QED
  BY <1>1, <1>2, <1>3, <1>4, <1>5, <1>7, <1>8, <1>9, <1>10 DEF Next, Walk, Bridge

(* After a complete run the row of every document that stayed in place is  *)
(* live and equals the remote node, unless an event wrote it since.        *)
THEOREM RunsCalibrate == Spec => []Calibrated
<1>1. Init => Base /\ Covered /\ Exact
  BY InitBase, CoveredInit, ExactInit
<1>2. Base /\ Covered /\ Exact /\ [Next]_vars => Base' /\ Covered' /\ Exact'
  BY BaseStep, CoveredStep, ExactStep
<1>3. Base /\ Exact => Calibrated
  <2> SUFFICES ASSUME Exact, run.status = "succeeded", NEW n \in Nodes \ disturbed, Same(n)
               PROVE  Newer(n) \/ Matches(n)
    BY DEF Calibrated, Same, Matches
  <2>1. n \in Still /\ n \in seen
    BY DEF Exact, Still
  <2> QED
    BY <2>1 DEF Exact, Still
<1> QED
  BY <1>1, <1>2, <1>3, PTL DEF Spec

=============================================================================
