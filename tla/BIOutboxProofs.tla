--------------------------- MODULE BIOutboxProofs ---------------------------
(***************************************************************************)
(* Proofs about the outbox for every set of publishers, keys and versions  *)
(* and for every bound on edits, faults and administrator commands.        *)
(***************************************************************************)
EXTENDS BIOutbox, WellFoundedInduction, TLAPS

(* A non-empty set of issued numbers has a highest one.                     *)
LEMMA HighestIsMember ==
  ASSUME NEW n \in Nat, NEW T, T \subseteq 1..n, T # {}
  PROVE  Highest(T) \in T /\ \A t \in T : t <= Highest(T)
<1> DEFINE U == {n - t : t \in T}
           R == OpToRel(<, Nat)
<1>1. U \subseteq Nat /\ U # {} /\ T \subseteq Nat
  <2>1. \A t \in T : t \in Nat /\ n - t \in Nat
    OBVIOUS
  <2> QED BY <2>1
<1>2. \A x, y \in Nat : y < x => <<y, x>> \in R
  BY DEF OpToRel
<1>3. IsWellFoundedOn(R, Nat)
  BY NatLessThanWellFounded
<1> HIDE DEF U, R
<1>4. \E x \in U : \A y \in U : ~(<<y, x>> \in R)
  BY <1>1, <1>3, WFMin
<1>5. PICK x \in U : \A y \in U : ~(y < x)
  BY <1>1, <1>2, <1>4
<1>6. PICK s \in T : x = n - s
  BY DEF U
<1>7. \A t \in T : ~(n - t < n - s)
  BY <1>5, <1>6 DEF U
<1>8. \A t \in T : t <= s
  BY <1>1, <1>7
<1> QED BY <1>8 DEF Highest

(* A delta leads from the manifest it was computed from to the promised one. *)
LEMMA DiffApplies ==
  ASSUME NEW from \in Manifest, NEW to \in Manifest
  PROVE  Apply(from, Diff(from, to)) = to
BY DEF Apply, Diff, Manifest

LEMMA DiffType ==
  ASSUME NEW from \in Manifest, NEW to \in Manifest
  PROVE  /\ Diff(from, to) \in UNION {[K -> Versions \cup {Absent}] : K \in SUBSET Keys}
         /\ to \in UNION {[K -> Versions \cup {Absent}] : K \in SUBSET Keys}
<1> DEFINE D == {k \in Keys : from[k] # to[k]}
<1>1. Diff(from, to) \in [D -> Versions \cup {Absent}] /\ D \in SUBSET Keys
  BY DEF Diff, Manifest
<1>2. to \in [Keys -> Versions \cup {Absent}] /\ Keys \in SUBSET Keys
  BY DEF Manifest
<1> QED BY <1>1, <1>2

LEMMA EmptyManifest == Empty \in Manifest
BY DEF Empty, Manifest

(* What a transaction may do to the frames issued so far: nothing.          *)
Extends(d, e) ==
  /\ d.issued <= e.issued
  /\ \A s \in 1..d.issued : e.frame[s] = d.frame[s]

LEMMA SupersedeRows ==
  ASSUME NEW row, NEW S, NEW n \in Nat, RowsOK(row, n)
  PROVE  /\ RowsOK(Supersede(row, S), n) /\ DOMAIN Supersede(row, S) = DOMAIN row
         /\ \A s \in DOMAIN row :
              \/ Supersede(row, S)[s] = row[s]
              \/ /\ row[s].status = "pending"
                 /\ Supersede(row, S)[s].status = "superseded"
BY DEF Supersede, Row, Status, RowsOK, IsFcn

LEMMA NewFrameOK ==
  ASSUME NEW d, DbInv(d), d.parts # Empty
  PROVE  /\ NewFrame(d) \in Frame /\ NewFrame(d).base = d.acked
         /\ NewFrame(d).man = d.parts
         /\ (NewFrame(d).kind = "baseline") => (NewFrame(d).diff = d.parts)
         /\ (NewFrame(d).kind = "delta") => (d.acked > 0 /\ NewFrame(d).diff = Diff(d.man, d.parts))
<1>1. d.parts \in Manifest /\ d.man \in Manifest /\ d.acked \in Nat
  BY DEF DbInv, DbType
<1>2. d.parts \in UNION {[K -> Versions \cup {Absent}] : K \in SUBSET Keys}
      /\ Diff(d.man, d.parts) \in UNION {[K -> Versions \cup {Absent}] : K \in SUBSET Keys}
  BY <1>1, DiffType
<1> HIDE DEF Diff
<1> QED BY <1>1, <1>2 DEF NewFrame, Frame, NeedsBaseline

LEMMA QueueFrameOK ==
  ASSUME NEW d, DbInv(d), d.parts # Empty
  PROVE  LET e == QueueFrame(d)
         IN  /\ DbInv(e) /\ Extends(d, e) /\ e.issued = d.issued + 1 /\ e.parts = d.parts
             /\ e.acked = d.acked /\ e.man = d.man /\ e.frame[e.issued].man = d.parts
             /\ Having(e, "acked") = Having(d, "acked")
<1> DEFINE e == QueueFrame(d)
           n == d.issued + 1
<1>1. /\ d.parts \in Manifest /\ d.acked \in Nat /\ d.man \in Manifest /\ d.issued \in Nat
      /\ d.acked <= d.issued
  BY DEF DbInv, DbType
<1>2. (IF d.issued > d.acked THEN d.issued ELSE d.acked) + 1 = n
  BY <1>1
<1> DEFINE rows == Supersede(d.row, DOMAIN d.row)
           newrow == [status |-> "pending", owner |-> None, live |-> FALSE, wait |-> FALSE]
<1>3. e = [d EXCEPT !.row = [s \in DOMAIN d.row \cup {n} |-> IF s = n THEN newrow ELSE rows[s]],
                    !.frame = [s \in DOMAIN d.frame \cup {n} |->
                                 IF s = n THEN NewFrame(d) ELSE d.frame[s]],
                    !.payload = d.payload \cup {n},
                    !.issued = n]
  BY <1>2 DEF QueueFrame
<1> HIDE DEF e
<1>4. IsDb(d) /\ RowsOK(d.row, d.issued)
  BY DEF DbInv, DbType
<1>5. /\ IsDb(e)
      /\ e.parts = d.parts /\ e.acked = d.acked /\ e.man = d.man /\ e.issued = n
      /\ e.force = d.force /\ e.blocked = d.blocked /\ e.wait = d.wait
      /\ e.row = [s \in DOMAIN d.row \cup {n} |-> IF s = n THEN newrow ELSE rows[s]]
      /\ e.frame = [s \in DOMAIN d.frame \cup {n} |-> IF s = n THEN NewFrame(d) ELSE d.frame[s]]
      /\ e.payload = d.payload \cup {n}
  BY <1>3, <1>4 DEF IsDb
<1>6. newrow \in Row /\ newrow.status = "pending"
  BY DEF Row, Status
<1>7. /\ RowsOK(rows, d.issued) /\ DOMAIN rows = DOMAIN d.row
      /\ \A s \in DOMAIN d.row :
           \/ rows[s] = d.row[s]
           \/ d.row[s].status = "pending" /\ rows[s].status = "superseded"
  BY <1>1, <1>4, SupersedeRows
<1>8. \A s \in DOMAIN d.row : (rows[s].status = "acked") <=> (d.row[s].status = "acked")
  <2> HIDE DEF rows
  <2> QED BY <1>7
<1>9. 1..d.issued \cup {n} = 1..n /\ n \notin 1..d.issued /\ n \notin DOMAIN d.row
  BY <1>1, <1>4 DEF RowsOK
<1> HIDE DEF newrow, rows
<1>10. e.row[n] = newrow /\ (\A s \in DOMAIN d.row : e.row[s] = rows[s])
       /\ DOMAIN e.row = DOMAIN d.row \cup {n} /\ IsFcn(e.row)
  BY <1>5, <1>9 DEF IsFcn
<1>11. RowsOK(e.row, n)
  BY <1>6, <1>7, <1>9, <1>10 DEF RowsOK
<1>12. Having(e, "acked") = Having(d, "acked")
  BY <1>6, <1>8, <1>9, <1>10 DEF Having
<1>13. /\ DOMAIN d.frame = 1..d.issued
       /\ d.payload \subseteq 1..d.issued
       /\ \A s \in 1..d.issued : d.frame[s] \in Frame
       /\ d.force \in BOOLEAN /\ d.blocked \in BlockCode /\ d.wait \in BOOLEAN
  BY DEF DbInv, DbType
<1>14. /\ IsFcn(e.frame) /\ DOMAIN e.frame = 1..n /\ e.frame[n] = NewFrame(d)
       /\ \A s \in 1..d.issued : e.frame[s] = d.frame[s]
  BY <1>5, <1>9, <1>13 DEF IsFcn
<1>15. DbType(e)
  <2>1. \A s \in 1..n : e.frame[s] \in Frame
    BY <1>9, <1>13, <1>14, NewFrameOK
  <2>2. n \in Nat /\ e.payload \subseteq 1..n
    BY <1>1, <1>5, <1>9, <1>13
  <2> QED BY <1>1, <1>5, <1>11, <1>13, <1>14, <2>1, <2>2 DEF DbType
<1>16. d.acked > 0 => e.frame[d.acked].man = d.man
  BY SMTT(20), ZenonT(30), <1>1, <1>14 DEF DbInv, ManifestOf
<1>17. FramesOK(e)
  <2>1. ASSUME NEW s \in 1..d.issued
        PROVE  /\ d.frame[s].base \in Nat /\ d.frame[s].base < s
               /\ d.frame[s].base > 0 => e.frame[d.frame[s].base] = d.frame[d.frame[s].base]
    <3>1. d.frame[s].base \in Nat /\ d.frame[s].base < s
      BY <1>13 DEF DbInv, FramesOK, Frame
    <3>2. d.frame[s].base > 0 => d.frame[s].base \in 1..d.issued
      BY <1>1, <3>1
    <3> QED BY <1>14, <3>1, <3>2
  <2>2. ASSUME NEW s \in 1..n
        PROVE  /\ e.frame[s].base < s /\ e.frame[s].man # Empty
               /\ (e.frame[s].kind = "baseline") => (e.frame[s].diff = e.frame[s].man)
               /\ (e.frame[s].kind = "delta") =>
                    /\ e.frame[s].base > 0
                    /\ e.frame[s].diff = Diff(e.frame[e.frame[s].base].man, e.frame[s].man)
    <3>1. CASE s = n
      BY <3>1, <1>1, <1>14, <1>16, NewFrameOK
    <3>2. CASE s \in 1..d.issued
      BY <3>2, <1>14, <2>1 DEF DbInv, FramesOK
    <3> QED BY <3>1, <3>2, <1>9
  <2> QED BY <2>2, <1>5 DEF FramesOK
<1>18. e.acked <= e.issued /\ e.man = ManifestOf(e, e.acked)
  BY <1>1, <1>5, <1>16 DEF DbInv, ManifestOf
<1>19. Extends(d, e)
  BY <1>1, <1>5, <1>14 DEF Extends
<1> QED BY <1>5, <1>12, <1>14, <1>15, <1>17, <1>18, <1>19, NewFrameOK DEF DbInv, e

(***************************************************************************)
(* The effect of a transaction from d to e that acknowledges at most the   *)
(* sequences of S.                                                         *)
(***************************************************************************)
Acks(d, e, S) ==
  /\ e.acked \in {d.acked} \cup S /\ e.acked >= d.acked
  /\ Having(e, "acked") \subseteq Having(d, "acked") \cup S
Tx(d, e, S) == DbInv(e) /\ Extends(d, e) /\ Acks(d, e, S)

(* A transaction that issues no frame keeps the invariant if it keeps the   *)
(* rows well-formed and the manifest in step with the acknowledged number.  *)
LEMMA SameFrames ==
  ASSUME NEW d, NEW e, DbInv(d), IsDb(e),
         e.frame = d.frame, e.issued = d.issued, e.payload \subseteq d.payload,
         RowsOK(e.row, d.issued), e.parts \in Manifest, e.force \in BOOLEAN,
         e.blocked \in BlockCode, e.wait \in BOOLEAN,
         e.acked \in 0..d.issued, e.man = ManifestOf(d, e.acked)
  PROVE  DbInv(e) /\ Extends(d, e)
<1>1. d.issued \in Nat /\ e.issued \in Nat /\ e.acked \in Nat /\ e.acked <= e.issued
  BY DEF DbInv, DbType
<1>2. e.man \in Manifest
  <2>1. CASE e.acked = 0
    BY <2>1, EmptyManifest DEF ManifestOf
  <2>2. CASE e.acked \in 1..d.issued
    BY <2>2 DEF ManifestOf, DbInv, DbType, Frame
  <2> QED BY <1>1, <2>1, <2>2
<1>3. DbType(e)
  BY <1>1, <1>2 DEF DbType, DbInv
<1>4. FramesOK(e) /\ e.man = ManifestOf(e, e.acked)
  BY DEF DbInv, FramesOK, ManifestOf
<1> QED BY <1>1, <1>3, <1>4 DEF DbInv, Extends

LEMMA AcksRefl ==
  ASSUME NEW d, DbInv(d), NEW S
  PROVE  Tx(d, d, S)
BY DEF Tx, Acks, DbInv, DbType, Extends, Having

LEMMA TxTrans ==
  ASSUME NEW d, NEW e, NEW f, NEW S, DbInv(d), Tx(d, e, S), Tx(e, f, S), S \subseteq Nat
  PROVE  Tx(d, f, S)
<1>1. d.issued \in Nat /\ e.issued \in Nat /\ f.issued \in Nat
      /\ d.acked \in Nat /\ e.acked \in Nat /\ f.acked \in Nat
  BY DEF DbInv, DbType, Tx
<1>2. Extends(d, f)
  BY <1>1 DEF Tx, Extends
<1>3. Acks(d, f, S)
  BY <1>1 DEF Tx, Acks
<1> QED BY <1>2, <1>3 DEF Tx

(* queue_current acknowledges nothing and issues at most one frame, which  *)
(* promises the current partitions.                                        *)
LEMMA QueueCurrentOK ==
  ASSUME NEW d, DbInv(d), NEW b \in BOOLEAN, NEW S
  PROVE  /\ Tx(d, QueueCurrent(d, b), S)
         /\ QueueCurrent(d, b).parts = d.parts
         /\ QueueCurrent(d, b).acked = d.acked
         /\ \/ QueueCurrent(d, b).issued = d.issued
            \/ /\ QueueCurrent(d, b).issued = d.issued + 1 /\ d.parts # Empty
               /\ QueueCurrent(d, b).frame[d.issued + 1].man = d.parts
<1>1. CASE QueueCurrent(d, b) = d
  BY <1>1, AcksRefl
<1>2. CASE d.parts # Empty /\ QueueCurrent(d, b) = QueueFrame(d)
  <2>1. d.acked \in Nat
    BY DEF DbInv, DbType
  <2> QED BY <1>2, <2>1, QueueFrameOK DEF Tx, Acks
<1> QED BY <1>1, <1>2 DEF QueueCurrent

LEMMA RefreshedOK ==
  ASSUME NEW d, DbInv(d), NEW S
  PROVE  /\ Tx(d, Refreshed(d), S) /\ IsDb(Refreshed(d))
         /\ Refreshed(d) = [d EXCEPT !.row = Refreshed(d).row]
         /\ Refreshed(d).issued = d.issued /\ Refreshed(d).frame = d.frame
         /\ DOMAIN Refreshed(d).row = DOMAIN d.row
<1> DEFINE freed == [s \in DOMAIN d.row |->
                       IF d.row[s].status = "sending" /\ ~d.row[s].live
                       THEN [d.row[s] EXCEPT !.status = "pending"]
                       ELSE d.row[s]]
           row == Supersede(freed, OffBase(d, d.acked))
           e == Refreshed(d)
<1>1. IsDb(d) /\ RowsOK(d.row, d.issued) /\ d.issued \in Nat /\ d.acked \in 0..d.issued
      /\ d.parts \in Manifest /\ d.force \in BOOLEAN /\ d.blocked \in BlockCode
      /\ d.wait \in BOOLEAN /\ d.man = ManifestOf(d, d.acked)
  BY DEF DbInv, DbType
<1>2. RowsOK(freed, d.issued) /\ DOMAIN freed = DOMAIN d.row
      /\ \A s \in DOMAIN d.row : (freed[s].status = "acked") => (d.row[s].status = "acked")
  BY <1>1 DEF RowsOK, IsFcn, Row, Status
<1>3. e = [d EXCEPT !.row = row]
  BY DEF Refreshed
<1> HIDE DEF freed, e
<1>4. RowsOK(row, d.issued) /\ DOMAIN row = DOMAIN d.row
      /\ \A s \in DOMAIN d.row : row[s] = freed[s] \/ row[s].status = "superseded"
  BY <1>1, <1>2, SupersedeRows
<1> HIDE DEF row
<1>5. /\ IsDb(e) /\ e.parts = d.parts /\ e.acked = d.acked /\ e.man = d.man
      /\ e.issued = d.issued /\ e.force = d.force /\ e.blocked = d.blocked /\ e.wait = d.wait
      /\ e.row = row /\ e.frame = d.frame /\ e.payload = d.payload
  BY <1>1, <1>3 DEF IsDb
<1>6. DbInv(e) /\ Extends(d, e)
  BY <1>1, <1>4, <1>5, SameFrames
<1>7. \A s \in DOMAIN d.row : (row[s].status = "acked") => (d.row[s].status = "acked")
  BY <1>2, <1>4
<1>8. Acks(d, e, S)
  BY <1>1, <1>4, <1>5, <1>7 DEF Acks, Having
<1> QED BY <1>3, <1>4, <1>5, <1>6, <1>8 DEF Tx, e

(* What a record update of the sender's database leaves of it.              *)
LEMMA ClaimedOK ==
  ASSUME NEW d, DbInv(d), NEW s \in DOMAIN d.row, NEW p \in Publishers, NEW S
  PROVE  /\ Tx(d, Claimed(d, s, p), S)
         /\ Claimed(d, s, p).issued = d.issued /\ Claimed(d, s, p).frame = d.frame
<1> DEFINE r == Refreshed(d)
           new == [status |-> "sending", owner |-> p, live |-> TRUE, wait |-> d.row[s].wait]
           e == Claimed(d, s, p)
<1>1. /\ Tx(d, r, S) /\ IsDb(r) /\ r.issued = d.issued /\ r.frame = d.frame
      /\ DOMAIN r.row = DOMAIN d.row
  BY RefreshedOK
<1>2. e = [r EXCEPT !.row = [r.row EXCEPT ![s] = new]]
  BY DEF Claimed
<1>3. d.row[s] \in Row
  BY DEF DbInv, DbType, RowsOK
<1>4. new \in Row /\ new.status # "acked"
  BY <1>3 DEF Row, Status
<1> HIDE DEF r, new, e
<1>5. DbInv(r) /\ RowsOK(r.row, r.issued) /\ r.acked \in 0..r.issued /\ r.man = ManifestOf(r, r.acked)
      /\ r.parts \in Manifest /\ r.force \in BOOLEAN /\ r.blocked \in BlockCode /\ r.wait \in BOOLEAN
  BY <1>1 DEF Tx, DbInv, DbType
<1>6. /\ IsDb(e) /\ e.parts = r.parts /\ e.acked = r.acked /\ e.man = r.man
      /\ e.issued = r.issued /\ e.force = r.force /\ e.blocked = r.blocked /\ e.wait = r.wait
      /\ e.row = [r.row EXCEPT ![s] = new] /\ e.frame = r.frame /\ e.payload = r.payload
  BY <1>1, <1>2 DEF IsDb
<1>7. RowsOK(e.row, r.issued) /\ \A t \in DOMAIN r.row : (e.row[t].status = "acked") => (r.row[t].status = "acked")
      /\ DOMAIN e.row = DOMAIN r.row
  BY <1>1, <1>4, <1>5, <1>6 DEF RowsOK, IsFcn
<1>8. DbInv(e) /\ Extends(r, e)
  BY <1>5, <1>6, <1>7, SameFrames
<1>9. Acks(r, e, {})
  BY <1>5, <1>6, <1>7 DEF Acks, Having
<1>10. Tx(d, e, S)
  BY <1>1, <1>6, <1>8, <1>9 DEF Tx, Acks, Extends
<1> QED BY <1>1, <1>6, <1>10 DEF e

LEMMA ReleasedRows ==
  ASSUME NEW d, DbInv(d), NEW s \in DOMAIN d.row, NEW st \in Status, NEW w \in BOOLEAN
  PROVE  /\ RowsOK(Released(d, s, st, w), d.issued) /\ DOMAIN Released(d, s, st, w) = DOMAIN d.row
         /\ Released(d, s, st, w)[s].status = st
         /\ \A t \in DOMAIN d.row \ {s} : Released(d, s, st, w)[t] = d.row[t]
BY DEF Released, DbInv, DbType, RowsOK, IsFcn, Row, Status

(* Acknowledging a row moves the base to the manifest issued under it.      *)
LEMMA AcknowledgeOK ==
  ASSUME NEW d, DbInv(d), NEW s \in DOMAIN d.row, s >= d.acked
  PROVE  /\ Tx(d, Acknowledge(d, s), {s}) /\ IsDb(Acknowledge(d, s))
         /\ Acknowledge(d, s).issued = d.issued /\ Acknowledge(d, s).frame = d.frame
         /\ Acknowledge(d, s).acked = s
<1> DEFINE rel == Released(d, s, "acked", d.row[s].wait)
           row == Supersede(rel, OffBase(d, s))
           e == Acknowledge(d, s)
<1>1. IsDb(d) /\ RowsOK(d.row, d.issued) /\ d.issued \in Nat /\ d.acked \in Nat
      /\ d.parts \in Manifest /\ d.blocked \in BlockCode /\ d.wait \in BOOLEAN
      /\ s \in 1..d.issued
  BY DEF DbInv, DbType, RowsOK
<1>2. d.row[s].wait \in BOOLEAN
  BY <1>1 DEF RowsOK, Row
<1>3. RowsOK(rel, d.issued) /\ DOMAIN rel = DOMAIN d.row
      /\ \A t \in DOMAIN d.row \ {s} : rel[t] = d.row[t]
  BY <1>2, ReleasedRows DEF Status
<1>4. e = [d EXCEPT !.row = row, !.acked = s, !.man = d.frame[s].man, !.force = FALSE]
  BY DEF Acknowledge
<1> HIDE DEF rel, e
<1>5. RowsOK(row, d.issued) /\ DOMAIN row = DOMAIN d.row
      /\ \A t \in DOMAIN d.row : row[t] = rel[t] \/ row[t].status = "superseded"
  BY <1>1, <1>3, SupersedeRows
<1> HIDE DEF row
<1>6. /\ IsDb(e) /\ e.parts = d.parts /\ e.acked = s /\ e.man = d.frame[s].man
      /\ e.issued = d.issued /\ e.force = FALSE /\ e.blocked = d.blocked /\ e.wait = d.wait
      /\ e.row = row /\ e.frame = d.frame /\ e.payload = d.payload
  BY <1>1, <1>4 DEF IsDb
<1>7. e.man = ManifestOf(d, s) /\ s \in 0..d.issued
  BY <1>1, <1>6 DEF ManifestOf
<1>8. DbInv(e) /\ Extends(d, e)
  BY <1>1, <1>5, <1>6, <1>7, SameFrames
<1>9. Having(e, "acked") \subseteq Having(d, "acked") \cup {s}
  BY <1>3, <1>5, <1>6 DEF Having
<1>10. Acks(d, e, {s})
  BY <1>1, <1>6, <1>9 DEF Acks
<1> QED BY <1>6, <1>8, <1>10 DEF Tx, e

(* Any change of rows, payloads, flags and partitions that acknowledges     *)
(* nothing keeps the invariant.                                             *)
LEMMA FlagsOK ==
  ASSUME NEW d, NEW e, DbInv(d), NEW S,
         IsDb(e), e.frame = d.frame, e.issued = d.issued, e.acked = d.acked, e.man = d.man,
         e.payload \subseteq d.payload, e.parts \in Manifest, e.force \in BOOLEAN,
         e.blocked \in BlockCode, e.wait \in BOOLEAN, RowsOK(e.row, d.issued),
         Having(e, "acked") \subseteq Having(d, "acked") \cup S
  PROVE  Tx(d, e, S)
<1>1. d.acked \in 0..d.issued /\ d.man = ManifestOf(d, d.acked)
  BY DEF DbInv, DbType
<1>2. DbInv(e) /\ Extends(d, e)
  BY <1>1, SameFrames
<1> QED BY <1>1, <1>2 DEF Tx, Acks

(* Releasing a row and setting flags acknowledges the row at most.          *)
LEMMA ReleaseOK ==
  ASSUME NEW d, NEW e, DbInv(d), NEW s \in DOMAIN d.row, NEW st \in Status, NEW w \in BOOLEAN,
         NEW S, (st = "acked") => (s \in S),
         IsDb(e), e.row = Released(d, s, st, w), e.frame = d.frame, e.issued = d.issued,
         e.acked = d.acked, e.man = d.man, e.payload = d.payload, e.parts = d.parts,
         e.force = d.force, e.blocked \in BlockCode, e.wait \in BOOLEAN
  PROVE  Tx(d, e, S)
<1>1. /\ RowsOK(e.row, d.issued) /\ DOMAIN e.row = DOMAIN d.row /\ e.row[s].status = st
      /\ \A t \in DOMAIN d.row \ {s} : e.row[t] = d.row[t]
  BY ReleasedRows
<1>2. Having(e, "acked") \subseteq Having(d, "acked") \cup S
  BY <1>1 DEF Having
<1>3. d.parts \in Manifest /\ d.force \in BOOLEAN
  BY DEF DbInv, DbType
<1> QED BY <1>1, <1>2, <1>3, FlagsOK

LEMMA FinishFrameOK ==
  ASSUME NEW d, DbInv(d), NEW s \in DOMAIN d.row, NEW a \in Answer,
         NEW S, (a = "confirmed") => (s \in S), S \subseteq Nat
  PROVE  /\ Tx(d, FinishFrame(d, s, a), S)
         /\ FinishFrame(d, s, a).issued = d.issued
<1> DEFINE e == FinishFrame(d, s, a)
<1>1. IsDb(d) /\ RowsOK(d.row, d.issued) /\ d.issued \in Nat /\ d.acked \in Nat
      /\ d.parts \in Manifest /\ d.blocked \in BlockCode /\ d.wait \in BOOLEAN
      /\ d.force \in BOOLEAN /\ s \in 1..d.issued
  BY DEF DbInv, DbType, RowsOK
<1>2. d.row[s].wait \in BOOLEAN
  BY <1>1 DEF RowsOK, Row
<1>4. CASE a = "confirmed" /\ s > d.acked
  <2> DEFINE k == Acknowledge(d, s)
  <2>1. Tx(d, k, {s}) /\ IsDb(k) /\ k.issued = d.issued
    BY <1>1, <1>4, AcknowledgeOK
  <2>2. e = [k EXCEPT !.wait = FALSE]
    BY <1>4 DEF FinishFrame
  <2> HIDE DEF k, e
  <2>3. /\ IsDb(e) /\ e.parts = k.parts /\ e.acked = k.acked /\ e.man = k.man
        /\ e.issued = k.issued /\ e.force = k.force /\ e.blocked = k.blocked /\ e.wait = FALSE
        /\ e.row = k.row /\ e.frame = k.frame /\ e.payload = k.payload
    BY <2>1, <2>2 DEF IsDb
  <2>4. DbInv(k) /\ RowsOK(k.row, k.issued) /\ k.parts \in Manifest /\ k.force \in BOOLEAN
        /\ k.blocked \in BlockCode
    BY <2>1 DEF Tx, DbInv, DbType
  <2>5. Having(e, "acked") \subseteq Having(k, "acked") \cup S
    BY <2>3 DEF Having
  <2>6. Tx(k, e, S)
    BY <2>3, <2>4, <2>5, FlagsOK
  <2>7. Tx(d, k, S)
    BY <1>4, <2>1 DEF Tx, Acks
  <2>8. Tx(d, e, S)
    BY <2>6, <2>7, TxTrans
  <2> QED BY <2>1, <2>3, <2>8 DEF e
<1>5. CASE a = "confirmed" /\ ~(s > d.acked)
  <2> DEFINE row == Released(d, s, "acked", d.row[s].wait)
  <2>1. e = [[d EXCEPT !.row = row] EXCEPT !.wait = FALSE]
    BY <1>5 DEF FinishFrame
  <2> HIDE DEF row, e
  <2>2. /\ IsDb(e) /\ e.parts = d.parts /\ e.acked = d.acked /\ e.man = d.man
        /\ e.issued = d.issued /\ e.force = d.force /\ e.blocked = d.blocked /\ e.wait = FALSE
        /\ e.row = row /\ e.frame = d.frame /\ e.payload = d.payload
    BY <1>1, <2>1 DEF IsDb
  <2>3. Tx(d, e, S)
    BY <1>1, <1>2, <1>5, <2>2, ReleaseOK DEF Status, row
  <2> QED BY <2>2, <2>3 DEF e
<1>6. CASE a = "stale"
  <2> DEFINE row == Released(d, s, "superseded", d.row[s].wait)
  <2>1. e = [d EXCEPT !.row = row]
    BY <1>6 DEF FinishFrame
  <2> HIDE DEF row, e
  <2>2. /\ IsDb(e) /\ e.parts = d.parts /\ e.acked = d.acked /\ e.man = d.man
        /\ e.issued = d.issued /\ e.force = d.force /\ e.blocked = d.blocked /\ e.wait = d.wait
        /\ e.row = row /\ e.frame = d.frame /\ e.payload = d.payload
    BY <1>1, <2>1 DEF IsDb
  <2>3. Tx(d, e, S)
    BY <1>1, <1>2, <1>6, <2>2, ReleaseOK DEF Status, row
  <2> QED BY <2>2, <2>3 DEF e
<1>7. CASE a = "transport"
  <2> DEFINE row == Released(d, s, "pending", TRUE)
  <2>1. e = [d EXCEPT !.row = row, !.wait = TRUE]
    BY <1>7 DEF FinishFrame
  <2> HIDE DEF row, e
  <2>2. /\ IsDb(e) /\ e.parts = d.parts /\ e.acked = d.acked /\ e.man = d.man
        /\ e.issued = d.issued /\ e.force = d.force /\ e.blocked = d.blocked /\ e.wait = TRUE
        /\ e.row = row /\ e.frame = d.frame /\ e.payload = d.payload
    BY <1>1, <2>1 DEF IsDb
  <2>3. Tx(d, e, S)
    BY <1>1, <1>7, <2>2, ReleaseOK DEF Status, row
  <2> QED BY <2>2, <2>3 DEF e
<1>8. CASE a \in {"auth", "contract"}
  <2> DEFINE row == Released(d, s, "blocked", TRUE)
  <2>1. e = [d EXCEPT !.row = row, !.wait = TRUE, !.blocked = a]
    BY <1>8 DEF FinishFrame
  <2> HIDE DEF row, e
  <2>2. /\ IsDb(e) /\ e.parts = d.parts /\ e.acked = d.acked /\ e.man = d.man
        /\ e.issued = d.issued /\ e.force = d.force /\ e.blocked = a /\ e.wait = TRUE
        /\ e.row = row /\ e.frame = d.frame /\ e.payload = d.payload
    BY <1>1, <2>1 DEF IsDb
  <2>3. a \in BlockCode
    BY <1>8 DEF BlockCode
  <2>4. Tx(d, e, S)
    BY <1>1, <1>8, <2>2, <2>3, ReleaseOK DEF Status, row
  <2> QED BY <2>2, <2>4 DEF e
<1> QED BY <1>4, <1>5, <1>6, <1>7, <1>8 DEF Answer

(* Reconciling with a head the receiver really had acknowledges at most it. *)
LEMMA ReconcileOK ==
  ASSUME NEW d, DbInv(d), NEW h \in Entry, h.seq <= d.issued
  PROVE  /\ Tx(d, ReconcileRemote(d, h), {h.seq})
         /\ ReconcileRemote(d, h).issued = d.issued
<1> DEFINE e == ReconcileRemote(d, h)
<1>1. IsDb(d) /\ RowsOK(d.row, d.issued) /\ d.issued \in Nat /\ d.acked \in Nat
      /\ d.parts \in Manifest /\ d.blocked \in BlockCode /\ d.wait \in BOOLEAN
      /\ h.seq \in Nat
  BY DEF DbInv, DbType, Entry
<1>2. CASE e = d
  BY <1>2, AcksRefl
<1>3. CASE Recognises(d, h) /\ h.seq >= d.acked /\ e # d
  <2> DEFINE k == Acknowledge(d, h.seq)
             w == k.wait /\ d.blocked # ""
  <2>1. Tx(d, k, {h.seq}) /\ IsDb(k) /\ k.issued = d.issued
    BY <1>1, <1>3, AcknowledgeOK DEF Recognises
  <2>2. e = [k EXCEPT !.wait = w]
    BY <1>3 DEF ReconcileRemote
  <2>3. w \in BOOLEAN
    OBVIOUS
  <2> HIDE DEF k, w
  <2>4. /\ IsDb(e) /\ e.parts = k.parts /\ e.acked = k.acked /\ e.man = k.man
        /\ e.issued = k.issued /\ e.force = k.force /\ e.blocked = k.blocked /\ e.wait = w
        /\ e.row = k.row /\ e.frame = k.frame /\ e.payload = k.payload
    BY <2>1, <2>2 DEF IsDb
  <2> HIDE DEF e
  <2>5. DbInv(k) /\ RowsOK(k.row, k.issued) /\ k.parts \in Manifest /\ k.force \in BOOLEAN
        /\ k.blocked \in BlockCode
    BY <2>1 DEF Tx, DbInv, DbType
  <2>6. Having(e, "acked") \subseteq Having(k, "acked") \cup {h.seq}
    BY <2>4 DEF Having
  <2>7. Tx(k, e, {h.seq})
    BY <2>3, <2>4, <2>5, <2>6, FlagsOK
  <2>8. Tx(d, e, {h.seq})
    BY <1>1, <2>1, <2>7, TxTrans
  <2> QED BY <2>1, <2>4, <2>8 DEF e
<1>4. CASE e = [d EXCEPT !.issued = IF d.issued > h.seq THEN d.issued ELSE h.seq, !.force = TRUE,
                        !.row = Supersede(d.row, DOMAIN d.row)]
  <2> DEFINE row == Supersede(d.row, DOMAIN d.row)
  <2>1. RowsOK(row, d.issued) /\ DOMAIN row = DOMAIN d.row
        /\ \A t \in DOMAIN d.row : row[t] = d.row[t] \/ row[t].status = "superseded"
    BY <1>1, SupersedeRows
  <2>2. (IF d.issued > h.seq THEN d.issued ELSE h.seq) = d.issued
    BY <1>1
  <2>3. e = [d EXCEPT !.issued = d.issued, !.force = TRUE, !.row = row]
    BY <1>4, <2>2
  <2> HIDE DEF row, e
  <2>4. /\ IsDb(e) /\ e.parts = d.parts /\ e.acked = d.acked /\ e.man = d.man
        /\ e.issued = d.issued /\ e.force = TRUE /\ e.blocked = d.blocked /\ e.wait = d.wait
        /\ e.row = row /\ e.frame = d.frame /\ e.payload = d.payload
    BY <1>1, <2>3 DEF IsDb
  <2>5. Having(e, "acked") \subseteq Having(d, "acked") \cup {h.seq}
    BY <2>1, <2>4 DEF Having
  <2>6. Tx(d, e, {h.seq})
    BY <1>1, <2>1, <2>4, <2>5, FlagsOK
  <2> QED BY <2>4, <2>6 DEF e
<1> QED BY <1>2, <1>3, <1>4 DEF ReconcileRemote

LEMMA CleanupOK ==
  ASSUME NEW d, DbInv(d), NEW old
  PROVE  Tx(d, CleanupOutbox(d, old), {}) /\ CleanupOutbox(d, old).issued = d.issued
<1> DEFINE D == (DOMAIN d.row \cap Kept(d)) \cup (DOMAIN d.row \ old)
           row == [s \in D |-> d.row[s]]
           e == CleanupOutbox(d, old)
<1>1. IsDb(d) /\ RowsOK(d.row, d.issued) /\ d.parts \in Manifest /\ d.blocked \in BlockCode
      /\ d.wait \in BOOLEAN /\ d.force \in BOOLEAN
  BY DEF DbInv, DbType
<1>2. D \subseteq DOMAIN d.row
  OBVIOUS
<1>3. e = [d EXCEPT !.payload = d.payload \cap Kept(d), !.row = row]
  BY DEF CleanupOutbox
<1> HIDE DEF D, e
<1>4. RowsOK(row, d.issued) /\ DOMAIN row = D /\ \A s \in D : row[s] = d.row[s]
  BY <1>1, <1>2 DEF RowsOK, IsFcn
<1> HIDE DEF row
<1>5. /\ IsDb(e) /\ e.parts = d.parts /\ e.acked = d.acked /\ e.man = d.man
      /\ e.issued = d.issued /\ e.force = d.force /\ e.blocked = d.blocked /\ e.wait = d.wait
      /\ e.row = row /\ e.frame = d.frame /\ e.payload \subseteq d.payload
  BY <1>1, <1>3 DEF IsDb
<1>6. Having(e, "acked") \subseteq Having(d, "acked")
  BY <1>2, <1>4, <1>5 DEF Having
<1>7. Tx(d, e, {})
  BY <1>1, <1>4, <1>5, <1>6, FlagsOK
<1> QED BY <1>5, <1>7 DEF e
(* The transactions written out in an action: new partitions, an expired   *)
(* lease, an elapsed backoff, a retried row, a lifted block.                *)
LEMMA PublishOK ==
  ASSUME NEW d, DbInv(d), NEW m \in Manifest, NEW S
  PROVE  Tx(d, [d EXCEPT !.parts = m], S)
<1> DEFINE e == [d EXCEPT !.parts = m]
<1>1. IsDb(d) /\ RowsOK(d.row, d.issued) /\ d.blocked \in BlockCode /\ d.wait \in BOOLEAN
      /\ d.force \in BOOLEAN
  BY DEF DbInv, DbType
<1>2. /\ IsDb(e) /\ e.parts = m /\ e.acked = d.acked /\ e.man = d.man
      /\ e.issued = d.issued /\ e.force = d.force /\ e.blocked = d.blocked /\ e.wait = d.wait
      /\ e.row = d.row /\ e.frame = d.frame /\ e.payload = d.payload
  BY <1>1 DEF IsDb
<1> HIDE DEF e
<1>3. Having(e, "acked") \subseteq Having(d, "acked") \cup S
  BY <1>2 DEF Having
<1>4. Tx(d, e, S)
  BY <1>1, <1>2, <1>3, FlagsOK
<1> QED BY <1>4 DEF e

LEMMA RowsAndFlagsOK ==
  ASSUME NEW d, NEW e, DbInv(d), NEW S,
         IsDb(e), e.parts = d.parts, e.acked = d.acked, e.man = d.man, e.issued = d.issued,
         e.force = d.force, e.frame = d.frame, e.payload = d.payload,
         e.blocked \in BlockCode, e.wait \in BOOLEAN,
         RowsOK(e.row, d.issued), DOMAIN e.row \subseteq DOMAIN d.row,
         \A s \in DOMAIN e.row : (e.row[s].status = "acked") => (d.row[s].status = "acked")
  PROVE  Tx(d, e, S)
<1>1. d.parts \in Manifest /\ d.force \in BOOLEAN
  BY DEF DbInv, DbType
<1>2. Having(e, "acked") \subseteq Having(d, "acked") \cup S
  BY DEF Having
<1> QED BY <1>1, <1>2, FlagsOK

LEMMA ExpireOK ==
  ASSUME NEW d, DbInv(d), NEW s \in DOMAIN d.row, NEW S
  PROVE  Tx(d, [d EXCEPT !.row[s].live = FALSE], S)
<1> DEFINE row == [d.row EXCEPT ![s].live = FALSE]
           e == [d EXCEPT !.row[s].live = FALSE]
<1>1. IsDb(d) /\ RowsOK(d.row, d.issued) /\ d.blocked \in BlockCode /\ d.wait \in BOOLEAN
  BY DEF DbInv, DbType
<1>2. /\ RowsOK(row, d.issued) /\ DOMAIN row = DOMAIN d.row
      /\ \A t \in DOMAIN row : (row[t].status = "acked") => (d.row[t].status = "acked")
  BY <1>1 DEF RowsOK, IsFcn, Row, Status
<1>3. e = [d EXCEPT !.row = row]
  OBVIOUS
<1> HIDE DEF row, e
<1>4. /\ IsDb(e) /\ e.parts = d.parts /\ e.acked = d.acked /\ e.man = d.man
      /\ e.issued = d.issued /\ e.force = d.force /\ e.blocked = d.blocked /\ e.wait = d.wait
      /\ e.row = row /\ e.frame = d.frame /\ e.payload = d.payload
  BY <1>1, <1>3 DEF IsDb
<1>5. Tx(d, e, S)
  BY <1>1, <1>2, <1>4, RowsAndFlagsOK DEF BlockCode
<1> QED BY <1>5 DEF e

LEMMA ElapseOK ==
  ASSUME NEW d, DbInv(d), NEW w \in BOOLEAN, NEW S
  PROVE  Tx(d, [d EXCEPT !.wait = w, !.row = [s \in DOMAIN d.row |-> [d.row[s] EXCEPT !.wait = FALSE]]], S)
<1> DEFINE row == [s \in DOMAIN d.row |-> [d.row[s] EXCEPT !.wait = FALSE]]
           e == [d EXCEPT !.wait = w, !.row = [s \in DOMAIN d.row |-> [d.row[s] EXCEPT !.wait = FALSE]]]
<1>1. IsDb(d) /\ RowsOK(d.row, d.issued) /\ d.blocked \in BlockCode /\ d.wait \in BOOLEAN
  BY DEF DbInv, DbType
<1>2. /\ RowsOK(row, d.issued) /\ DOMAIN row = DOMAIN d.row
      /\ \A t \in DOMAIN row : (row[t].status = "acked") => (d.row[t].status = "acked")
  BY <1>1 DEF RowsOK, IsFcn, Row, Status
<1>3. e = [d EXCEPT !.wait = w, !.row = row]
  OBVIOUS
<1> HIDE DEF row, e
<1>4. /\ IsDb(e) /\ e.parts = d.parts /\ e.acked = d.acked /\ e.man = d.man
      /\ e.issued = d.issued /\ e.force = d.force /\ e.blocked = d.blocked /\ e.wait = w
      /\ e.row = row /\ e.frame = d.frame /\ e.payload = d.payload
  BY <1>1, <1>3 DEF IsDb
<1>5. Tx(d, e, S)
  BY <1>1, <1>2, <1>4, RowsAndFlagsOK DEF BlockCode
<1> QED BY <1>5 DEF e

LEMMA RetryOK ==
  ASSUME NEW d, DbInv(d), NEW s \in DOMAIN d.row, NEW S
  PROVE  Tx(d, [d EXCEPT !.blocked = "", !.wait = FALSE,
                         !.row[s].status = "pending", !.row[s].wait = FALSE], S)
<1> DEFINE row == [d.row EXCEPT ![s].status = "pending", ![s].wait = FALSE]
           e == [d EXCEPT !.blocked = "", !.wait = FALSE,
                         !.row[s].status = "pending", !.row[s].wait = FALSE]
<1>1. IsDb(d) /\ RowsOK(d.row, d.issued) /\ d.blocked \in BlockCode /\ d.wait \in BOOLEAN
  BY DEF DbInv, DbType
<1>2. /\ RowsOK(row, d.issued) /\ DOMAIN row = DOMAIN d.row
      /\ \A t \in DOMAIN row : (row[t].status = "acked") => (d.row[t].status = "acked")
  BY ZenonT(30), <1>1 DEF RowsOK, IsFcn, Row, Status
<1>3. e = [d EXCEPT !.blocked = "", !.wait = FALSE, !.row = row]
  OBVIOUS
<1> HIDE DEF row, e
<1>4. /\ IsDb(e) /\ e.parts = d.parts /\ e.acked = d.acked /\ e.man = d.man
      /\ e.issued = d.issued /\ e.force = d.force /\ e.blocked = "" /\ e.wait = FALSE
      /\ e.row = row /\ e.frame = d.frame /\ e.payload = d.payload
  BY <1>1, <1>3 DEF IsDb
<1>5. Tx(d, e, S)
  BY <1>1, <1>2, <1>4, RowsAndFlagsOK DEF BlockCode
<1> QED BY <1>5 DEF e

LEMMA UnblockOK ==
  ASSUME NEW d, DbInv(d), NEW S
  PROVE  Tx(d, [d EXCEPT !.blocked = "", !.wait = FALSE], S)
<1> DEFINE row == d.row
           e == [d EXCEPT !.blocked = "", !.wait = FALSE]
<1>1. IsDb(d) /\ RowsOK(d.row, d.issued) /\ d.blocked \in BlockCode /\ d.wait \in BOOLEAN
  BY DEF DbInv, DbType
<1>2. /\ RowsOK(row, d.issued) /\ DOMAIN row = DOMAIN d.row
      /\ \A t \in DOMAIN row : (row[t].status = "acked") => (d.row[t].status = "acked")
  BY <1>1 DEF RowsOK, IsFcn, Row, Status
<1>3. e = [d EXCEPT !.blocked = "", !.wait = FALSE]
  OBVIOUS
<1> HIDE DEF row, e
<1>4. /\ IsDb(e) /\ e.parts = d.parts /\ e.acked = d.acked /\ e.man = d.man
      /\ e.issued = d.issued /\ e.force = d.force /\ e.blocked = "" /\ e.wait = FALSE
      /\ e.row = row /\ e.frame = d.frame /\ e.payload = d.payload
  BY <1>1, <1>3 DEF IsDb, row
<1>5. Tx(d, e, S)
  BY <1>1, <1>2, <1>4, RowsAndFlagsOK DEF BlockCode
<1> QED BY <1>5 DEF e

-----------------------------------------------------------------------------
(* What the processes and the network know stays true in later states: the *)
(* frames issued so far and the sequences ever accepted are only extended.  *)
ProcRec == [pc: PC, seq: Nat, answer: Answer \cup {None}, head: Entry]

(* Where the variables around the database may go without touching it.      *)
LEMMA NothingEntry == Nothing \in Entry /\ Nothing.seq = 0 /\ Nothing.man = Empty
BY EmptyManifest DEF Nothing, Entry

LEMMA KnownStays ==
  ASSUME OutboxInv, NEW S, Tx(db, db', S), ever \subseteq ever'
  PROVE  /\ \A h \in Entry : Known(h) => Known(h)'
         /\ 1..db.issued \subseteq 1..db'.issued
<1>1. db.issued \in Nat /\ db'.issued \in Nat /\ db.issued <= db'.issued
  BY DEF OutboxInv, DbInv, DbType, Tx, Extends
<1>2. 1..db.issued \subseteq 1..db'.issued
  BY <1>1
<1>3. ASSUME NEW h \in Entry, Known(h)
      PROVE  Known(h)'
  <2>1. h.seq \in ever' \cup {0} /\ h.seq \in ever \cup {0}
    BY <1>3 DEF Known
  <2>2. CASE h.seq = 0
    BY <1>3, <2>1, <2>2 DEF Known, ManifestOf
  <2>3. CASE h.seq # 0
    <3>1. h.seq \in 1..db.issued
      BY <2>1, <2>3 DEF OutboxInv, RemoteOK
    <3>2. db'.frame[h.seq] = db.frame[h.seq]
      BY <3>1 DEF Tx, Extends
    <3> QED BY <1>3, <2>1, <2>3, <3>2 DEF Known, ManifestOf
  <2> QED BY <2>2, <2>3
<1> QED BY <1>2, <1>3

(* A transaction of the sender, while the receiver stands still and one    *)
(* process moves on, perhaps sending or giving up a request.                *)
Sends(p, m) ==
  /\ m.seq \in 1..db'.issued /\ m \in [seq: Nat, conn: Publishers \cup {None}]
  /\ \/ m.conn = None
     \/ m.conn = p /\ Waits(m)'
     \/ m.conn # p /\ m \in net

LEMMA MoveOK ==
  ASSUME OutboxInv, Tx(db, db', ever), UNCHANGED remote,
         NEW p \in Publishers, NEW r \in ProcRec, proc' = [proc EXCEPT ![p] = r],
         Known(r.head), (r.answer = "confirmed") => (r.seq \in ever),
         (r.pc = "wait") => (r.seq \in 1..db'.issued),
         \A m \in net' : Sends(p, m),
         lock' \in Publishers \cup {None}, edits' \in Nat, faults' \in Nat, ops' \in Nat
  PROVE  OutboxInv'
<1>1. ever' = ever /\ log' = log
  BY DEF remote
<1>2. /\ \A h \in Entry : Known(h) => Known(h)'
      /\ 1..db.issued \subseteq 1..db'.issued
  BY <1>1, KnownStays
<1>3. TypeOK'
  BY <1>1 DEF OutboxInv, TypeOK, Tx, DbInv, ProcRec, Sends
<1>4. RemoteOK'
  <2>1. \A i \in 1..Len(log) : log[i] \in Entry
    BY DEF OutboxInv, TypeOK
  <2> QED BY <1>1, <1>2, <2>1 DEF OutboxInv, RemoteOK
<1>5. NetOK'
  <2>1. ASSUME NEW m \in net', m.conn # None
        PROVE  Waits(m)'
    <3>1. CASE m.conn = p
      BY <2>1, <3>1 DEF Sends
    <3>2. CASE m.conn # p
      <4>1. m \in net /\ Waits(m) /\ m.conn \in Publishers
        BY <2>1, <3>2 DEF Sends, OutboxInv, NetOK
      <4> QED BY <3>2, <4>1 DEF OutboxInv, TypeOK, Waits, At
    <3> QED BY <3>1, <3>2
  <2> QED BY <2>1 DEF NetOK, Sends
<1>6. ProcOK'
  <2>1. ASSUME NEW q \in Publishers
        PROVE  /\ Known(proc[q].head)'
               /\ (proc'[q].answer = "confirmed") => (proc'[q].seq \in ever)
               /\ At(q, "wait")' => (proc'[q].seq \in 1..db'.issued)
    <3>1. CASE q = p
      <4>1. proc'[q] = r /\ r.head \in Entry
        BY <3>1 DEF OutboxInv, TypeOK, ProcRec
      <4>2. Known(r.head)'
        BY <4>1, <1>2
      <4>3. (proc[q].head)' = r.head
        BY <4>1
      <4> QED BY <4>1, <4>2, <4>3 DEF At, Known
    <3>2. CASE q # p
      <4>1. proc'[q] = proc[q] /\ proc[q].head \in Entry
        BY <3>2 DEF OutboxInv, TypeOK
      <4>2. Known(proc[q].head) /\ (proc[q].answer = "confirmed" => proc[q].seq \in ever)
            /\ (At(q, "wait") => (proc[q].seq \in 1..db.issued))
        BY DEF OutboxInv, ProcOK
      <4>3. Known(proc[q].head)'
        <5> DEFINE h == proc[q].head
        <5>1. h \in Entry /\ Known(h) /\ h' = h
          BY <4>1, <4>2
        <5> QED BY <4>1, <4>2, <1>2 DEF Known
      <4> QED BY <4>1, <4>2, <4>3, <1>2 DEF At
    <3> QED BY <3>1, <3>2
  <2> QED BY <1>1, <2>1 DEF ProcOK
<1>7. AckedWasAccepted'
  BY <1>1 DEF OutboxInv, AckedWasAccepted, Tx, Acks
<1>8. Ascending'
  BY <1>1 DEF OutboxInv, Ascending
<1> QED BY <1>3, <1>4, <1>5, <1>6, <1>7, <1>8 DEF OutboxInv, Tx

(* The same for a process that forgets everything and goes to pc.           *)
LEMMA GotoOK ==
  ASSUME OutboxInv, Tx(db, db', ever), UNCHANGED <<remote, net>>,
         NEW p \in Publishers, NEW pc \in PC \ {"wait"}, Goto(p, pc),
         ~(At(p, "wait") /\ proc[p].answer = None),
         lock' \in Publishers \cup {None}, edits' \in Nat, faults' \in Nat, ops' \in Nat
  PROVE  OutboxInv'
<1>1. Idle(pc) \in ProcRec /\ Idle(pc).head = Nothing /\ Idle(pc).answer = None /\ Idle(pc).pc = pc
  BY NothingEntry DEF Idle, ProcRec
<1>2. Known(Nothing)
  BY NothingEntry DEF Known, ManifestOf
<1>3. UNCHANGED remote /\ net' = net /\ 1..db.issued \subseteq 1..db'.issued
  BY KnownStays DEF remote
<1>4. \A m \in net' : Sends(p, m)
  BY <1>3, ConstantsAssumption DEF OutboxInv, TypeOK, NetOK, Waits, Sends
<1>5. None # "confirmed"
  BY ConstantsAssumption DEF Answer
<1> QED BY <1>1, <1>2, <1>3, <1>4, <1>5, MoveOK DEF Goto

(* Time, the network or the receiver move while the processes stand still.  *)
LEMMA StillOK ==
  ASSUME OutboxInv, Tx(db, db', ever), UNCHANGED <<ever, net, proc>>,
         log' \in Seq(Entry),
         Len(log') <= Len(log), \A i \in 1..Len(log') : log'[i] = log[i],
         lock' \in Publishers \cup {None}, edits' \in Nat, faults' \in Nat, ops' \in Nat
  PROVE  OutboxInv'
<1>1. /\ \A h \in Entry : Known(h) => Known(h)'
      /\ 1..db.issued \subseteq 1..db'.issued
  BY KnownStays
<1>2. TypeOK'
  BY DEF OutboxInv, TypeOK, Tx, DbInv
<1>3. RemoteOK'
  <2>1. \A i \in 1..Len(log) : log[i].seq \in ever
    BY DEF OutboxInv, TypeOK, RemoteOK
  <2>2. \A i \in 1..Len(log') : log'[i].seq \in ever
    BY <2>1 DEF OutboxInv, TypeOK
  <2>3. ASSUME NEW i \in 1..Len(log')
        PROVE  Known(log[i])'
    <3>1. i \in 1..Len(log) /\ log'[i] = log[i]
      BY DEF OutboxInv, TypeOK
    <3> DEFINE h == log[i]
    <3>2. h \in Entry /\ Known(h)
      BY <3>1 DEF OutboxInv, TypeOK, RemoteOK
    <3> QED BY <1>1, <3>1, <3>2 DEF Known
  <2> QED BY <1>1, <2>2, <2>3 DEF OutboxInv, RemoteOK
<1>4. NetOK'
  BY <1>1 DEF OutboxInv, NetOK, Waits, At
<1>5. ProcOK'
  <2>1. \A q \in Publishers : proc[q].head \in Entry
    BY DEF OutboxInv, TypeOK
  <2>2. ASSUME NEW q \in Publishers
        PROVE  Known(proc[q].head)'
    <3> DEFINE h == proc[q].head
    <3>1. h \in Entry /\ Known(h)
      BY <2>1 DEF OutboxInv, ProcOK
    <3> QED BY <1>1, <3>1 DEF Known
  <2> QED BY <1>1, <2>2 DEF OutboxInv, ProcOK, At
<1>6. AckedWasAccepted'
  BY DEF OutboxInv, AckedWasAccepted, Tx, Acks
<1>7. Ascending'
  BY DEF OutboxInv, TypeOK, Ascending
<1> QED BY <1>2, <1>3, <1>4, <1>5, <1>6, <1>7 DEF OutboxInv, Tx
-----------------------------------------------------------------------------
(* Every step keeps the invariant, and its transaction acknowledges at most *)
(* what the receiver has accepted.                                          *)
LEMMA RefreshFacts ==
  ASSUME OutboxInv
  PROVE  /\ DbInv(db) /\ Tx(db, db, ever) /\ ever \subseteq Nat
         /\ db.issued \in Nat /\ lock \in Publishers \cup {None}
         /\ edits \in Nat /\ faults \in Nat /\ ops \in Nat
         /\ edits + 1 \in Nat /\ faults + 1 \in Nat /\ ops + 1 \in Nat
<1>1. DbInv(db) /\ ever \subseteq Nat /\ edits \in Nat /\ faults \in Nat /\ ops \in Nat
  BY DEF OutboxInv, TypeOK
<1>2. Tx(db, db, ever)
  BY <1>1, AcksRefl
<1> QED BY <1>1, <1>2 DEF OutboxInv, TypeOK, DbInv, DbType

(* Reconciling with a head a process fetched earlier, however old.          *)
LEMMA ReconcileHead ==
  ASSUME OutboxInv, NEW p \in Publishers
  PROVE  Tx(db, ReconcileRemote(db, proc[p].head), ever)
<1> DEFINE h == proc[p].head
           e == ReconcileRemote(db, h)
<1>1. h \in Entry /\ h.seq \in ever \cup {0} /\ h.seq <= db.issued /\ DbInv(db) /\ db.acked \in Nat
  <2>1. h \in Entry /\ h.seq \in ever \cup {0}
    BY DEF OutboxInv, TypeOK, ProcOK, Known
  <2>2. DbInv(db) /\ db.acked \in Nat /\ db.issued \in Nat /\ ever \subseteq 1..db.issued
    BY DEF OutboxInv, DbInv, DbType, RemoteOK
  <2>3. h.seq = 0 \/ h.seq \in 1..db.issued
    BY <2>1, <2>2
  <2>4. h.seq <= db.issued
    BY <2>2, <2>3
  <2>5. DbInv(db)
    BY DEF OutboxInv
  <2> QED BY <2>1, <2>2, <2>4, <2>5
<1>2. Tx(db, e, {h.seq})
  BY <1>1, ReconcileOK
<1> HIDE DEF e, h
<1>3. DOMAIN e.row \subseteq 1..e.issued /\ e.issued \in Nat
  BY <1>2 DEF Tx, DbInv, DbType, RowsOK
<1>4. 0 \notin Having(e, "acked")
  BY <1>3 DEF Having
<1>5. Acks(db, e, ever)
  <2>1. e.acked \in {db.acked} \cup {h.seq} /\ e.acked >= db.acked
    BY <1>2 DEF Tx, Acks
  <2>2. e.acked \in {db.acked} \cup ever
    BY <1>1, <2>1
  <2>3. Having(e, "acked") \subseteq Having(db, "acked") \cup ever
    BY <1>1, <1>2, <1>4 DEF Tx, Acks
  <2> QED BY <2>1, <2>2, <2>3 DEF Acks
<1> QED BY <1>2, <1>5 DEF Tx, e, h

LEMMA TxQueue ==
  ASSUME NEW d, NEW e, DbInv(d), Tx(d, e, ever), ever \subseteq Nat, NEW b \in BOOLEAN
  PROVE  Tx(d, QueueCurrent(e, b), ever)
<1>1. Tx(e, QueueCurrent(e, b), ever)
  BY QueueCurrentOK DEF Tx
<1> QED BY <1>1, TxTrans

LEMMA Turns ==
  ASSUME OutboxInv, NEW p \in Publishers,
         Enter(p) \/ Leave(p) \/ Reconcile(p) \/ Build(p) \/ Queue(p) \/ Cleanup(p) \/ Rebuild(p) \/ Retry(p)
  PROVE  OutboxInv' /\ Tx(db, db', ever)
<1> USE RefreshFacts
<1>1. CASE Enter(p)
  BY <1>1, GotoOK DEF Enter, At, PC, budgets
<1>2. CASE Leave(p)
  BY <1>2, GotoOK DEF Leave, At, PC, budgets, Unlock
<1>3. CASE Reconcile(p)
  <2> DEFINE d == ReconcileRemote(db, proc[p].head)
  <2>1. Tx(db, d, ever) /\ Tx(db, QueueCurrent(d, FALSE), ever)
    BY ReconcileHead, TxQueue
  <2> HIDE DEF d
  <2>2. db' = d \/ db' = QueueCurrent(d, FALSE)
    BY <1>3 DEF Reconcile, Write, d
  <2>3. /\ Goto(p, "checked") \/ Goto(p, "done")
        /\ ~At(p, "wait") /\ UNCHANGED <<remote, net, lock, budgets>>
    BY <1>3 DEF Reconcile, Write, At
  <2> QED BY <2>1, <2>2, <2>3, GotoOK DEF PC, budgets
<1>4. CASE Build(p)
  <2>1. Tx(db, db', ever) /\ edits' \in Nat
    BY <1>4, PublishOK DEF Build, Publish
  <2> QED BY <1>4, <2>1, GotoOK DEF Build, At, PC
<1>5. CASE Queue(p)
  <2>1. Tx(db, db', ever)
    BY <1>5, TxQueue DEF Queue, Write
  <2> QED BY <1>5, <2>1, GotoOK DEF Queue, Write, At, PC, budgets
<1>6. CASE Cleanup(p)
  <2>1. PICK old : db' = CleanupOutbox(db, old)
    BY <1>6 DEF Cleanup
  <2>2. Tx(db, db', ever)
    BY <2>1, CleanupOK DEF Tx, Acks
  <2> QED BY <1>6, <2>2, GotoOK DEF Cleanup, Unlock, At, PC, budgets
<1>7. CASE Rebuild(p)
  <2>1. Tx(db, db', ever) /\ edits' \in Nat /\ ops' \in Nat /\ faults' \in Nat
    <3>1. Tx(db, QueueCurrent(db, FALSE), ever)
      BY TxQueue
    <3>2. Tx(db, QueueCurrent([db EXCEPT !.blocked = "", !.wait = FALSE], TRUE), ever)
      BY UnblockOK, TxQueue
    <3>3. ASSUME Publish
          PROVE  Tx(db, db', ever) /\ edits' \in Nat
      BY <3>3, PublishOK DEF Publish
    <3>4. \/ Publish /\ ops' = ops + 1 /\ faults' = faults
          \/ db' = QueueCurrent(db, FALSE) /\ UNCHANGED budgets
          \/ db' = QueueCurrent([db EXCEPT !.blocked = "", !.wait = FALSE], TRUE) /\ UNCHANGED budgets
      BY <1>7 DEF Rebuild, Write
    <3> QED BY <3>1, <3>2, <3>3, <3>4 DEF budgets
  <2>2. /\ Goto(p, "rebuild") \/ Goto(p, "release") \/ Goto(p, "done")
        /\ ~At(p, "wait") /\ UNCHANGED <<remote, net, lock>>
    BY <1>7 DEF Rebuild, Write, At
  <2> QED BY <2>1, <2>2, GotoOK DEF PC
<1>8. CASE Retry(p)
  <2>1. Tx(db, db', ever)
    <3>1. PICK s \in DOMAIN db.row :
            db' = [db EXCEPT !.blocked = "", !.wait = FALSE,
                             !.row[s].status = "pending", !.row[s].wait = FALSE]
      BY <1>8 DEF Retry, Write
    <3> QED BY <3>1, RetryOK
  <2> QED BY <1>8, <2>1, GotoOK DEF Retry, Write, At, PC
<1> QED BY <1>1, <1>2, <1>3, <1>4, <1>5, <1>6, <1>7, <1>8

LEMMA FinishOK ==
  ASSUME OutboxInv, NEW p \in Publishers, Finish(p)
  PROVE  OutboxInv' /\ Tx(db, db', ever)
<1> USE RefreshFacts
<1> DEFINE s == proc[p].seq
           a == proc[p].answer
           d == FinishFrame(db, s, a)
<1>1. a \in Answer /\ ~(At(p, "wait") /\ a = None) /\ (a = "confirmed" => s \in ever)
  BY DEF Finish, OutboxInv, TypeOK, ProcOK
<1>2. ASSUME s \in DOMAIN db.row
      PROVE  Tx(db, d, ever) /\ Tx(db, QueueCurrent(d, FALSE), ever)
  <2>1. Tx(db, d, ever)
    BY <1>1, <1>2, FinishFrameOK
  <2> HIDE DEF d
  <2> QED BY <2>1, TxQueue
<1> HIDE DEF d
<1>3. db' = db \/ (s \in DOMAIN db.row /\ db' \in {d, QueueCurrent(d, FALSE)})
  BY DEF Finish, Write, HoldsLease, d
<1>4. Tx(db, db', ever)
  BY <1>2, <1>3
<1>5. (Goto(p, "fetch") \/ Goto(p, "done")) /\ UNCHANGED <<remote, net, lock, budgets>>
  BY DEF Finish, Write
<1> QED BY <1>1, <1>4, <1>5, GotoOK DEF PC, budgets

LEMMA GetStatusOK ==
  ASSUME OutboxInv, NEW p \in Publishers, GetStatus(p)
  PROVE  OutboxInv' /\ Tx(db, db', ever)
<1> USE RefreshFacts
<1>1. RemoteHead \in Entry /\ Known(RemoteHead)
  <2>1. CASE log = <<>>
    BY <2>1, NothingEntry DEF RemoteHead, Known, ManifestOf
  <2>2. CASE log # <<>>
    <3>1. Len(log) \in 1..Len(log) /\ log[Len(log)] \in Entry
      BY <2>2 DEF OutboxInv, TypeOK
    <3> QED BY <2>2, <3>1 DEF RemoteHead, OutboxInv, RemoteOK
  <2> QED BY <2>1, <2>2
<1>2. PICK pc \in {"status", "rehead"} : proc' = [proc EXCEPT ![p] = [Idle(pc) EXCEPT !.head = RemoteHead]]
  BY DEF GetStatus
<1> DEFINE r == [Idle(pc) EXCEPT !.head = RemoteHead]
<1>3. r \in ProcRec /\ r.head = RemoteHead /\ r.answer = None /\ r.pc = pc
  BY <1>1, NothingEntry DEF Idle, ProcRec, PC
<1>4. ~At(p, "wait") /\ UNCHANGED <<db, remote, net, lock, budgets>>
  BY DEF GetStatus, At
<1>5. \A m \in net' : Sends(p, m)
  BY <1>4, ConstantsAssumption DEF OutboxInv, TypeOK, NetOK, Waits, Sends
<1>6. None # "confirmed"
  BY ConstantsAssumption DEF Answer
<1> HIDE DEF r
<1> QED BY <1>1, <1>2, <1>3, <1>4, <1>5, <1>6, MoveOK DEF budgets, r
LEMMA ClaimOK ==
  ASSUME OutboxInv, NEW p \in Publishers, Claim(p)
  PROVE  OutboxInv' /\ Tx(db, db', ever)
<1> USE RefreshFacts
<1> DEFINE P == Having(Refreshed(db), "pending")
<1>0. PICK s : s = Due(db)
  OBVIOUS
<1>1. Tx(db, Refreshed(db), ever) /\ DOMAIN Refreshed(db).row = DOMAIN db.row /\ DOMAIN db.row \subseteq 1..db.issued
  BY RefreshedOK DEF DbInv, DbType, RowsOK
<1>2. ASSUME s # None
      PROVE  s \in DOMAIN db.row /\ s \in 1..db.issued
  <2>1. P # {} /\ s = Highest(P)
    BY <1>0, <1>2 DEF Due
  <2>2. P \subseteq DOMAIN db.row
    BY <1>1 DEF Having
  <2> HIDE DEF P
  <2> QED BY <1>1, <2>1, <2>2, HighestIsMember
<1>3. ~At(p, "wait") /\ UNCHANGED <<remote, lock, budgets>>
  BY DEF Claim, At
<1>4. CASE ~MayClaim(db) \/ s = None
  <2>1. (db' = Refreshed(db) \/ db' = db) /\ Goto(p, "done") /\ UNCHANGED net
    BY <1>0, <1>4 DEF Claim
  <2> QED BY <1>1, <1>3, <2>1, GotoOK DEF PC, budgets
<1>5. CASE MayClaim(db) /\ s # None
  <2> DEFINE r == [Idle("wait") EXCEPT !.seq = s]
             m0 == [seq |-> s, conn |-> p]
  <2>1. /\ db' = Claimed(db, s, p) /\ net' = net \cup {m0}
        /\ proc' = [proc EXCEPT ![p] = r]
    BY <1>0, <1>5 DEF Claim
  <2>2. s \in DOMAIN db.row /\ s \in 1..db.issued /\ s \in Nat
    BY <1>2, <1>5
  <2>3. Tx(db, db', ever) /\ db'.issued = db.issued
    BY <2>1, <2>2, ClaimedOK
  <2>4. r \in ProcRec /\ r.head = Nothing /\ r.answer = None /\ r.pc = "wait" /\ r.seq = s
    BY <2>2, NothingEntry DEF Idle, ProcRec, PC
  <2> HIDE DEF r
  <2>5. Known(Nothing) /\ None # "confirmed"
    BY NothingEntry, ConstantsAssumption DEF Known, ManifestOf, Answer
  <2>6. proc'[p] = r
    BY <2>1 DEF OutboxInv, TypeOK
  <2>7. Sends(p, m0)
    BY <2>2, <2>3, <2>4, <2>6 DEF Sends, Waits, At
  <2>8. \A m \in net : Sends(p, m)
    BY <1>3, <2>3, ConstantsAssumption DEF OutboxInv, TypeOK, NetOK, Waits, Sends
  <2> HIDE DEF m0
  <2>9. \A m \in net' : Sends(p, m)
    BY <2>1, <2>7, <2>8
  <2> QED BY <1>3, <2>1, <2>2, <2>3, <2>4, <2>5, <2>9, MoveOK DEF budgets
<1> QED BY <1>4, <1>5

(* A process that meets a fault keeps what it knows, or forgets it.          *)
LEMMA FaultOK ==
  ASSUME OutboxInv, NEW p \in Publishers, Timeout(p) \/ BadAnswer(p) \/ Crash(p)
  PROVE  OutboxInv' /\ Tx(db, db', ever)
<1> USE RefreshFacts
<1>1. db' = db /\ UNCHANGED remote /\ edits' \in Nat /\ faults' \in Nat /\ ops' \in Nat
      /\ lock' \in Publishers \cup {None} /\ Tx(db, db', ever) /\ db'.issued = db.issued
  BY DEF Timeout, BadAnswer, Crash, Fault, Unlock, remote
<1>2. /\ \A m \in net : m.seq \in 1..db.issued /\ m \in [seq: Nat, conn: Publishers \cup {None}]
      /\ \A m \in net : m.conn # p => Sends(p, m)
  BY <1>1 DEF OutboxInv, TypeOK, NetOK, Sends
<1>3. \A m \in Orphans(p) \cup {m \in net : m.conn # p} : Sends(p, m)
  <2>1. ASSUME NEW m \in net
        PROVE  Sends(p, [m EXCEPT !.conn = None])
    BY <1>1, <1>2, <2>1 DEF Sends
  <2> QED BY <1>2, <2>1 DEF Orphans
<1>4. CASE Crash(p)
  <2>1. Idle("out") \in ProcRec /\ Idle("out").head = Nothing /\ Idle("out").answer = None
        /\ Idle("out").pc = "out"
    BY NothingEntry DEF Idle, ProcRec, PC
  <2>2. Known(Nothing) /\ None # "confirmed"
    BY NothingEntry, ConstantsAssumption DEF Known, ManifestOf, Answer
  <2>3. net' = Orphans(p) /\ proc' = [proc EXCEPT ![p] = Idle("out")]
    BY <1>4 DEF Crash, Goto
  <2> QED BY <1>1, <1>3, <2>1, <2>2, <2>3, MoveOK
<1>5. CASE Timeout(p) \/ BadAnswer(p)
  <2>1. PICK a \in Answer : proc' = [proc EXCEPT ![p].answer = a] /\ a # "confirmed"
    BY <1>5 DEF Timeout, BadAnswer, Answer
  <2> DEFINE r == [proc[p] EXCEPT !.answer = a]
  <2>2. /\ proc[p] \in ProcRec /\ Known(proc[p].head)
        /\ At(p, "wait") => (proc[p].seq \in 1..db.issued)
    BY DEF OutboxInv, TypeOK, ProcRec, ProcOK
  <2>3. /\ r \in ProcRec /\ r.head = proc[p].head /\ r.answer # "confirmed"
        /\ (r.pc = "wait") => (r.seq \in 1..db'.issued)
    BY <1>1, <2>1, <2>2 DEF ProcRec, At
  <2>4. proc' = [proc EXCEPT ![p] = r]
    BY <2>1
  <2>5. \A m \in net' : Sends(p, m)
    <3>1. CASE net' \in {Orphans(p), {m \in net : m.conn # p}}
      BY <1>3, <3>1
    <3>2. CASE net' = net /\ proc[p].answer = "confirmed"
      <4>1. \A m \in net : m.conn # p
        BY <3>2, ConstantsAssumption DEF OutboxInv, NetOK, Waits, Answer
      <4> QED BY <1>2, <3>2, <4>1
    <3> QED BY <1>5, <3>1, <3>2 DEF Timeout, BadAnswer
  <2> HIDE DEF r
  <2> QED BY <1>1, <2>2, <2>3, <2>4, <2>5, MoveOK
<1> QED BY <1>4, <1>5
(* Leases and backoffs run out, the lock is lost, the receiver is restored.  *)
LEMMA TimeOK ==
  ASSUME OutboxInv, ExpireLease \/ BackoffElapses \/ LoseLock \/ RemoteRestore
  PROVE  OutboxInv' /\ Tx(db, db', ever)
<1> USE RefreshFacts
<1>1. Tx(db, db', ever)
  <2>1. CASE ExpireLease
    <3>1. PICK s \in DOMAIN db.row : db' = [db EXCEPT !.row[s].live = FALSE]
      BY <2>1 DEF ExpireLease, Having, Write
    <3> QED BY <3>1, ExpireOK
  <2>2. CASE BackoffElapses
    <3>1. PICK w \in BOOLEAN : db' = [db EXCEPT !.wait = w,
                                        !.row = [s \in DOMAIN db.row |-> [db.row[s] EXCEPT !.wait = FALSE]]]
      BY <2>2 DEF BackoffElapses, Write, DbInv, DbType
    <3> QED BY <3>1, ElapseOK
  <2>3. CASE LoseLock \/ RemoteRestore
    BY <2>3 DEF LoseLock, RemoteRestore
  <2> QED BY <2>1, <2>2, <2>3
<1>2. /\ UNCHANGED <<ever, net, proc>> /\ lock' \in Publishers \cup {None}
      /\ edits' \in Nat /\ faults' \in Nat /\ ops' \in Nat
  BY DEF ExpireLease, BackoffElapses, LoseLock, RemoteRestore, Fault, Write, remote, budgets
<1>3. log \in Seq(Entry)
  BY DEF OutboxInv, TypeOK
<1>4. /\ log' \in Seq(Entry)
      /\ Len(log') <= Len(log) /\ \A i \in 1..Len(log') : log'[i] = log[i]
  <2>1. CASE RemoteRestore
    <3>1. PICK n \in 0..(Len(log) - 1) : log' = SubSeq(log, 1, n)
      BY <2>1 DEF RemoteRestore
    <3>2. log' \in Seq(Entry) /\ Len(log') = n /\ \A i \in 1..n : log'[i] = log[i]
      BY <1>3, <3>1
    <3>3. n \in Nat /\ Len(log) \in Nat /\ n <= Len(log)
      BY <1>3
    <3> QED BY <1>3, <2>1, <3>2, <3>3 DEF RemoteRestore
  <2>2. CASE ~RemoteRestore
    <3>1. log' = log
      BY <2>2 DEF ExpireLease, BackoffElapses, LoseLock, Write, remote
    <3> QED BY <1>3, <3>1
  <2> QED BY <2>1, <2>2
<1> QED BY <1>1, <1>2, <1>4, StillOK

(* A frame the receiver accepts leads to the state issued under its number, *)
(* and one whose base is the receiver's head leads there by its changes.    *)
LEMMA ReceiveOK ==
  ASSUME OutboxInv, NEW s \in 1..db.issued, s \notin Accepted,
         ~(s <= RemoteHead.seq \/ (db.frame[s].kind = "delta" /\ db.frame[s].base # RemoteHead.seq))
  PROVE  (IF db.frame[s].kind = "delta" THEN Apply(RemoteHead.man, db.frame[s].diff)
          ELSE db.frame[s].diff) = db.frame[s].man
<1>1. /\ db.frame[s].man \in Manifest /\ db.frame[s].base \in Nat
      /\ db.frame[s].kind \in {"baseline", "delta"}
  BY DEF OutboxInv, DbInv, DbType, Frame
<1>2. CASE db.frame[s].kind = "baseline"
  BY <1>2 DEF OutboxInv, DbInv, FramesOK
<1>3. CASE db.frame[s].kind = "delta"
  <2>1. /\ db.frame[s].base > 0 /\ db.frame[s].base = RemoteHead.seq
        /\ db.frame[s].diff = Diff(db.frame[db.frame[s].base].man, db.frame[s].man)
    BY <1>3 DEF OutboxInv, DbInv, FramesOK
  <2>2. log # <<>> /\ Len(log) \in 1..Len(log) /\ RemoteHead = log[Len(log)]
    <3>1. log # <<>>
      BY <1>1, <2>1 DEF RemoteHead, Nothing
    <3> QED BY <3>1 DEF RemoteHead, OutboxInv, TypeOK
  <2>3. RemoteHead.man = db.frame[RemoteHead.seq].man /\ RemoteHead \in Entry
    BY <1>1, <2>1, <2>2 DEF OutboxInv, RemoteOK, TypeOK, Known, ManifestOf
  <2>4. RemoteHead.man \in Manifest
    BY <2>3 DEF Entry
  <2> QED BY <1>1, <1>3, <2>1, <2>3, <2>4, DiffApplies
<1> QED BY <1>1, <1>2, <1>3

(* A delta that fits the receiver's head never leads to another state.       *)
LEMMA NoContract ==
  ASSUME OutboxInv, NEW s \in 1..db.issued
  PROVE  Verdict(s) \in {"confirmed", "stale"}
BY ReceiveOK DEF Verdict

LEMMA DeliverOK ==
  ASSUME OutboxInv, NEW m \in net, Deliver(m)
  PROVE  OutboxInv' /\ Tx(db, db', ever)
<1> USE RefreshFacts
<1> DEFINE s == m.seq
           v == Verdict(s)
<1>1. /\ db' = db /\ lock' = lock /\ UNCHANGED budgets /\ net' = net \ {m}
      /\ ever' = IF v = "confirmed" THEN ever \cup {s} ELSE ever
      /\ proc' = IF m.conn = None THEN proc ELSE [proc EXCEPT ![m.conn].answer = v]
  BY DEF Deliver, Receive
<1>2. s \in 1..db.issued /\ m \in [seq: Nat, conn: Publishers \cup {None}] /\ s \in Nat
  BY DEF OutboxInv, NetOK, TypeOK
<1>3. v \in {"confirmed", "stale"} /\ v \in Answer
  BY <1>2, NoContract DEF Answer
<1>4. /\ \/ log' = log
         \/ v = "confirmed" /\ log' = Append(log, [seq |-> s, man |-> db.frame[s].man])
      /\ db.frame[s].man \in Manifest
  <2>1. CASE v = "confirmed" /\ s \notin Accepted
    <3>1. ~(s <= RemoteHead.seq \/ (db.frame[s].kind = "delta" /\ db.frame[s].base # RemoteHead.seq))
      BY <2>1 DEF Verdict
    <3> QED BY <1>2, <2>1, <3>1, ReceiveOK DEF Deliver, Receive, OutboxInv, DbInv, DbType, Frame
  <2>2. CASE ~(v = "confirmed" /\ s \notin Accepted)
    BY <1>2, <2>2 DEF Deliver, Receive, OutboxInv, DbInv, DbType, Frame
  <2> QED BY <2>1, <2>2
<1> HIDE DEF v
<1>5. \A h \in Entry : Known(h) => Known(h)'
  BY <1>1 DEF Known
<1>6. RemoteOK' /\ log' \in Seq(Entry)
  <2>1. ever' \subseteq 1..db'.issued
    BY <1>1, <1>2 DEF OutboxInv, RemoteOK
  <2>2. log \in Seq(Entry) /\ \A i \in 1..Len(log) : log[i] \in Entry /\ log[i].seq \in ever'
    BY SMTT(20), ZenonT(30), <1>1 DEF OutboxInv, TypeOK, RemoteOK
  <2>3. ASSUME NEW i \in 1..Len(log)
        PROVE  log[i].man = ManifestOf(db', log[i].seq)
    BY <1>1 DEF OutboxInv, RemoteOK, Known
  <2>4. CASE log' = log
    BY <2>1, <2>2, <2>3, <2>4 DEF RemoteOK, Known
  <2>5. CASE v = "confirmed" /\ log' = Append(log, [seq |-> s, man |-> db.frame[s].man])
    <3> DEFINE new == [seq |-> s, man |-> db.frame[s].man]
    <3>1. new \in Entry /\ new.seq \in ever' /\ new.man = ManifestOf(db', new.seq)
      BY <1>1, <1>2, <1>4, <2>5 DEF Entry, ManifestOf
    <3> HIDE DEF new
    <3>2. log' = Append(log, new)
      BY <2>5 DEF new
    <3>3. log' \in Seq(Entry)
      BY <2>2, <3>1, <3>2
    <3>4. \A i \in 1..Len(log') : log'[i] = new \/ \E j \in 1..Len(log) : log'[i] = log[j]
      BY <2>2, <3>1, <3>2
    <3>5. ASSUME NEW i \in 1..Len(log')
          PROVE  log'[i].seq \in ever' /\ log'[i].man = ManifestOf(db', log'[i].seq)
      BY <2>2, <2>3, <3>1, <3>4
    <3> QED BY <2>1, <3>3, <3>5 DEF RemoteOK, Known
  <2> QED BY <1>4, <2>4, <2>5
<1>7. m.conn # None => Waits(m) /\ m.conn \in Publishers
  BY <1>2 DEF OutboxInv, NetOK
<1>8. NetOK'
  <2>1. ASSUME NEW k \in net, k # m, k.conn # None
        PROVE  Waits(k)'
    <3>1. Waits(k) /\ k \in [seq: Nat, conn: Publishers \cup {None}]
      BY <2>1 DEF OutboxInv, NetOK, TypeOK
    <3>2. k.conn # m.conn
      <4>1. SUFFICES ASSUME k.conn = m.conn PROVE FALSE
        OBVIOUS
      <4>2. k.seq = m.seq
        BY <1>7, <2>1, <3>1, <4>1 DEF Waits
      <4> QED BY <1>2, <2>1, <3>1, <4>1, <4>2
    <3> QED BY <1>1, <3>1, <3>2 DEF Waits, At, OutboxInv, TypeOK
  <2> QED BY <1>1, <2>1 DEF NetOK, OutboxInv
<1>9. \A q \in Publishers :
        /\ proc'[q].head = proc[q].head /\ proc'[q].seq = proc[q].seq /\ proc'[q].pc = proc[q].pc
        /\ proc'[q].answer = proc[q].answer \/ (proc'[q].answer = v /\ proc[q].seq = s)
  BY <1>1, <1>7 DEF OutboxInv, TypeOK, Waits
<1>10. ProcOK'
  <2>1. ASSUME NEW q \in Publishers
        PROVE  Known(proc[q].head)'
    <3> DEFINE h == proc[q].head
    <3>1. h \in Entry /\ Known(h) /\ h' = h
      BY <1>9 DEF OutboxInv, TypeOK, ProcOK
    <3> QED BY <1>5, <3>1 DEF Known
  <2>2. ASSUME NEW q \in Publishers
        PROVE  /\ (proc'[q].answer = "confirmed") => (proc'[q].seq \in ever')
               /\ At(q, "wait")' => (proc'[q].seq \in 1..db'.issued)
    BY <1>1, <1>9 DEF OutboxInv, ProcOK, At
  <2> QED BY <2>1, <2>2 DEF ProcOK
<1>11. TypeOK'
  <2>1. proc' \in [Publishers -> [pc: PC, seq: Nat, answer: Answer \cup {None}, head: Entry]]
    BY <1>1, <1>3 DEF OutboxInv, TypeOK
  <2> QED BY <1>1, <1>2, <1>6, <2>1 DEF OutboxInv, TypeOK, budgets
<1>12. AckedWasAccepted'
  BY <1>1 DEF OutboxInv, AckedWasAccepted
<1>13. Ascending'
  <2>1. log \in Seq(Entry) /\ \A i, j \in 1..Len(log) : i < j => log[i].seq < log[j].seq
    BY DEF OutboxInv, TypeOK, Ascending
  <2>2. CASE log' = log
    BY <2>1, <2>2 DEF Ascending
  <2>3. CASE log' # log
    <3> DEFINE new == [seq |-> s, man |-> db.frame[s].man]
    <3>1. log' = Append(log, new) /\ v = "confirmed" /\ s \notin Accepted
      BY <1>4, <2>3 DEF Deliver, Receive, v
    <3>2. new.seq = s /\ new \in Entry
      BY <1>2, <1>4 DEF Entry
    <3>3. \A i \in 1..Len(log) : log[i].seq < s
      <4>1. CASE log = <<>>
        BY <4>1
      <4>2. CASE log # <<>>
        <5>1. Len(log) \in 1..Len(log) /\ RemoteHead = log[Len(log)]
          BY <2>1, <4>2 DEF RemoteHead
        <5>2. ~(s <= RemoteHead.seq)
          BY <3>1 DEF Verdict, v
        <5>3. \A i \in 1..Len(log) : log[i].seq \in Nat
          <6>1. \A i \in 1..Len(log) : log[i] \in Entry
            BY <2>1
          <6> QED BY <6>1 DEF Entry
        <5>4. RemoteHead.seq < s
          <6>1. RemoteHead.seq \in Nat
            BY <5>1, <5>3
          <6>2. s \in Nat
            BY <1>2
          <6> HIDE DEF s
          <6> QED BY <5>2, <6>1, <6>2
        <5>5. ASSUME NEW i \in 1..Len(log) PROVE log[i].seq < s
          <6>1. CASE i = Len(log)
            BY <5>1, <5>4, <6>1
          <6>2. CASE i < Len(log)
            <7>1. log[i].seq < RemoteHead.seq
              BY <2>1, <5>1, <6>2
            <7>2. log[i].seq \in Nat /\ RemoteHead.seq \in Nat /\ s \in Nat
              BY <1>2, <5>1, <5>3
            <7> HIDE DEF s
            <7> QED BY <5>4, <7>1, <7>2
          <6>3. Len(log) \in Nat
            BY <2>1
          <6> QED BY <6>1, <6>2, <6>3
        <5> QED BY <5>5
      <4> QED BY <4>1, <4>2
    <3> HIDE DEF new
    <3>4. ASSUME NEW i \in 1..Len(log')
          PROVE  (i \in 1..Len(log) /\ log'[i] = log[i]) \/ (i = Len(log) + 1 /\ log'[i] = new)
      <4>1. log' = Append(log, new) /\ log \in Seq(Entry) /\ new \in Entry
        BY <2>1, <3>1, <3>2 DEF new
      <4>2. Len(log') = Len(log) + 1 /\ Len(log) \in Nat
        BY <4>1
      <4>3. i \in 1..Len(log) \/ i = Len(log) + 1
        BY <4>2
      <4> QED BY <4>1, <4>2, <4>3
    <3>5. ASSUME NEW i \in 1..Len(log'), NEW j \in 1..Len(log'), i < j
          PROVE  log'[i].seq < log'[j].seq
      <4>1. i \in 1..Len(log) /\ log'[i] = log[i]
        BY <2>1, <3>1, <3>2, <3>4, <3>5
      <4>2. CASE j \in 1..Len(log) /\ log'[j] = log[j]
        BY <2>1, <3>5, <4>1, <4>2
      <4>3. CASE log'[j] = new
        BY <3>2, <3>3, <4>1, <4>3
      <4> QED BY <3>4, <4>2, <4>3
    <3> QED BY <3>5 DEF Ascending
  <2> QED BY <2>2, <2>3
<1> QED BY <1>1, <1>6, <1>8, <1>10, <1>11, <1>12, <1>13 DEF OutboxInv

-----------------------------------------------------------------------------
LEMMA StepOK ==
  ASSUME OutboxInv, [Next]_vars
  PROVE  OutboxInv' /\ Tx(db, db', ever)
<1>1. CASE UNCHANGED vars
  <2>1. Tx(db, db', ever)
    BY <1>1, RefreshFacts DEF vars
  <2>2. OutboxInv'
    BY <1>1 DEF vars, OutboxInv, TypeOK, RemoteOK, Ascending, Known, NetOK, Waits, ProcOK, At,
                AckedWasAccepted
  <2> QED BY <2>1, <2>2
<1>2. CASE Next
  <2>1. CASE \E p \in Publishers :
               Enter(p) \/ Leave(p) \/ Reconcile(p) \/ Build(p) \/ Queue(p) \/ Cleanup(p) \/ Rebuild(p) \/ Retry(p)
    BY <2>1, Turns
  <2>2. CASE \E p \in Publishers : GetStatus(p)
    BY <2>2, GetStatusOK
  <2>3. CASE \E p \in Publishers : Claim(p)
    BY <2>3, ClaimOK
  <2>4. CASE \E p \in Publishers : Finish(p)
    BY <2>4, FinishOK
  <2>5. CASE \E p \in Publishers : Timeout(p) \/ BadAnswer(p) \/ Crash(p)
    BY <2>5, FaultOK
  <2>6. CASE \E m \in net : Deliver(m)
    BY <2>6, DeliverOK
  <2>7. CASE ExpireLease \/ BackoffElapses \/ LoseLock \/ RemoteRestore
    BY <2>7, TimeOK
  <2> QED BY <1>2, <2>1, <2>2, <2>3, <2>4, <2>5, <2>6, <2>7 DEF Next
<1> QED BY <1>1, <1>2

LEMMA InitOK == Init => OutboxInv
<1> SUFFICES ASSUME Init PROVE OutboxInv
  OBVIOUS
<1>1. PICK m \in Manifest :
        db = [parts |-> m, acked |-> 0, man |-> Empty, issued |-> 0, force |-> FALSE,
              blocked |-> "", wait |-> FALSE, row |-> <<>>, frame |-> <<>>, payload |-> {}]
  BY DEF Init
<1>2. /\ db.parts = m /\ db.acked = 0 /\ db.man = Empty /\ db.issued = 0 /\ db.force = FALSE
      /\ db.blocked = "" /\ db.wait = FALSE /\ db.row = <<>> /\ db.frame = <<>> /\ db.payload = {}
      /\ IsDb(db)
  BY <1>1 DEF IsDb
<1>3. IsFcn(<<>>) /\ DOMAIN <<>> = {} /\ 1..0 = {}
  BY DEF IsFcn
<1>4. DbType(db)
  <2>1. 1..db.issued = {} /\ DOMAIN db.row = {} /\ DOMAIN db.frame = {} /\ IsFcn(db.row) /\ IsFcn(db.frame)
    BY <1>2, <1>3
  <2>2. RowsOK(db.row, db.issued)
    BY <2>1 DEF RowsOK
  <2>3. /\ IsDb(db) /\ db.parts \in Manifest /\ db.man \in Manifest /\ db.blocked \in BlockCode
        /\ db.force \in BOOLEAN /\ db.wait \in BOOLEAN /\ db.payload = {}
    BY <1>2, EmptyManifest DEF BlockCode
  <2>4. db.acked = 0 /\ db.issued = 0
    BY <1>2
  <2>5. db.acked \in Nat /\ db.issued \in Nat
    BY <2>4
  <2> QED BY <2>1, <2>2, <2>3, <2>5 DEF DbType
<1>5. DbInv(db)
  <2>1. db.acked = 0 /\ db.issued = 0 /\ 1..0 = {}
    BY <1>2, <1>3
  <2>2. 1..db.issued = {} /\ db.acked <= db.issued
    BY <2>1
  <2> QED BY <1>2, <1>4, <2>2 DEF DbInv, FramesOK, ManifestOf
<1>6. log = <<>> /\ ever = {} /\ net = {} /\ lock = None
      /\ proc = [p \in Publishers |-> Idle("out")] /\ edits = 0 /\ faults = 0 /\ ops = 0
  BY DEF Init
<1>7. Idle("out") \in ProcRec /\ Idle("out").head = Nothing /\ Idle("out").answer = None
      /\ Idle("out").pc = "out" /\ None # "confirmed"
  BY NothingEntry, ConstantsAssumption DEF Idle, ProcRec, PC, Answer
<1>8. TypeOK
  <2>1. log \in Seq(Entry) /\ 0 \in Nat
    BY <1>6
  <2>2. proc \in [Publishers -> ProcRec]
    BY <1>6, <1>7
  <2> QED BY <1>4, <1>6, <2>1, <2>2 DEF TypeOK, ProcRec
<1>9. RemoteOK /\ Ascending /\ NetOK
  <2>1. 1..Len(log) = {}
    BY <1>6
  <2> QED BY <1>6, <2>1 DEF RemoteOK, Ascending, NetOK
<1>10. ProcOK
  BY <1>2, <1>6, <1>7, NothingEntry DEF ProcOK, Known, ManifestOf, At
<1>11. AckedWasAccepted
  BY <1>2, <1>3, <1>6 DEF AckedWasAccepted, Having
<1> QED BY <1>5, <1>8, <1>9, <1>10, <1>11 DEF OutboxInv

(* The inductive invariant of the outbox: frames are built on the frame     *)
(* they name, the receiver's history consists of issued frames in order,    *)
(* and no process or request knows a sequence that stands for something     *)
(* else (queue_frame, reconcile_remote, finish_frame together).             *)
THEOREM Invariance == Spec => []OutboxInv
<1>1. OutboxInv /\ [Next]_vars => OutboxInv'
  BY StepOK
<1> QED BY <1>1, InitOK, PTL DEF Spec

(* The database rows, the wire and the processes hold only values of their  *)
(* types: the columns of BIPushState and BIPushOutbox, and the answers      *)
(* finish_frame distinguishes.                                              *)
THEOREM Types == Spec => []TypeOK
<1>1. OutboxInv => TypeOK
  BY DEF OutboxInv
<1> QED BY <1>1, Invariance, PTL

(* A sequence number stands for one state at the sender and the receiver:   *)
(* what queue_frame's numbering and reconcile_remote's adoption are for.    *)
THEOREM NamesState == Spec => []SequenceNamesState
<1>1. OutboxInv => SequenceNamesState
  <2> SUFFICES ASSUME OutboxInv PROVE SequenceNamesState
    OBVIOUS
  <2>1. ASSUME NEW i \in 1..Len(log)
        PROVE  log[i].man = db.frame[log[i].seq].man
    BY DEF OutboxInv, RemoteOK, Known, ManifestOf
  <2> QED BY <2>1 DEF OutboxInv, DbInv, ManifestOf, SequenceNamesState
<1> QED BY <1>1, Invariance, PTL

(* No delta that passes the receiver's base check is answered with          *)
(* invalid_snapshot, the answer that blocks the outbox in finish_frame.     *)
THEOREM DeltasFit == Spec => []DeltaFitsItsBase
<1>1. OutboxInv => DeltaFitsItsBase
  <2> SUFFICES ASSUME OutboxInv, NEW m \in net PROVE Verdict(m.seq) # "contract"
    BY DEF DeltaFitsItsBase
  <2>1. m.seq \in 1..db.issued
    BY DEF OutboxInv, NetOK
  <2> QED BY <2>1, NoContract
<1> QED BY <1>1, Invariance, PTL

(* finish_frame and reconcile_remote acknowledge only what the receiver     *)
(* accepted.                                                                *)
THEOREM OnlyAccepted == Spec => []AckedWasAccepted
<1>1. OutboxInv => AckedWasAccepted
  BY DEF OutboxInv
<1> QED BY <1>1, Invariance, PTL

(* The next number of queue_frame is new to the receiver, the network and   *)
(* the outbox's unique key.                                                 *)
THEOREM Fresh == Spec => []SequenceFresh
<1>1. OutboxInv => SequenceFresh
  <2> SUFFICES ASSUME OutboxInv PROVE SequenceFresh
    OBVIOUS
  <2>1. /\ ever \subseteq 1..db.issued /\ DOMAIN db.row \subseteq 1..db.issued
        /\ db.acked <= db.issued /\ db.issued \in Nat
    BY DEF OutboxInv, RemoteOK, DbInv, DbType, RowsOK
  <2>2. \A m \in net : m.seq \in 1..db.issued
    BY DEF OutboxInv, NetOK
  <2>3. \A s \in ever \cup DOMAIN db.row \cup {m.seq : m \in net} : s \in 1..db.issued
    BY <2>1, <2>2
  <2>4. \A s \in 1..db.issued : s <= db.issued
    BY <2>1
  <2> QED BY <2>1, <2>3, <2>4 DEF SequenceFresh
<1> QED BY <1>1, Invariance, PTL

(* No late confirmation in finish_frame and no older head in               *)
(* reconcile_remote takes the acknowledged base back.                       *)
THEOREM Advances == Spec => AckedAdvances
<1>1. OutboxInv /\ [Next]_vars =>
        [db'.acked >= db.acked /\ (db'.acked = db.acked => db'.man = db.man)]_db
  <2> SUFFICES ASSUME OutboxInv, [Next]_vars
               PROVE  db'.acked >= db.acked /\ (db'.acked = db.acked => db'.man = db.man)
    OBVIOUS
  <2>1. Tx(db, db', ever)
    BY StepOK
  <2>2. /\ db.man = ManifestOf(db, db.acked) /\ db'.man = ManifestOf(db', db'.acked)
        /\ db.acked \in Nat /\ db.issued \in Nat /\ db.acked <= db.issued
    BY <2>1 DEF Tx, OutboxInv, DbInv, DbType
  <2>3. db.acked # 0 => db'.frame[db.acked] = db.frame[db.acked]
    BY <2>1, <2>2 DEF Tx, Extends
  <2> QED BY <2>1, <2>2, <2>3 DEF Tx, Acks, ManifestOf
<1> QED BY <1>1, Invariance, PTL DEF Spec, AckedAdvances

-----------------------------------------------------------------------------
(* Refinement: a transaction issues one snapshot or none, the receiver moves *)
(* to a later one when it accepts a frame and back when it is restored.     *)
LEMMA IssuedOf ==
  ASSUME NEW d, IsDb(d)
  PROVE  /\ \A m : [d EXCEPT !.parts = m].issued = d.issued
         /\ \A s : [d EXCEPT !.row[s].live = FALSE].issued = d.issued
         /\ \A w, row : [d EXCEPT !.wait = w, !.row = row].issued = d.issued
         /\ \A s : [d EXCEPT !.blocked = "", !.wait = FALSE,
                             !.row[s].status = "pending", !.row[s].wait = FALSE].issued = d.issued
         /\ [d EXCEPT !.blocked = "", !.wait = FALSE].issued = d.issued
BY DEF IsDb

LEMMA IssuesOne ==
  ASSUME OutboxInv, [Next]_vars
  PROVE  db'.issued \in {db.issued, db.issued + 1}
<1> USE RefreshFacts
<1>1. IsDb(db)
  BY DEF DbInv, DbType
<1>2. \A b \in BOOLEAN : \A e : DbInv(e) /\ e.issued = db.issued =>
        QueueCurrent(e, b).issued \in {db.issued, db.issued + 1}
  BY QueueCurrentOK
<1>3. ASSUME Publish
      PROVE  db'.issued = db.issued
  <2>1. db' = db \/ \E m : db' = [db EXCEPT !.parts = m]
    BY <1>3 DEF Publish
  <2>2. \A m : [db EXCEPT !.parts = m].issued = db.issued
    BY <1>1, IssuedOf
  <2> QED BY <2>1, <2>2
<1>4. ASSUME NEW p \in Publishers, Reconcile(p)
      PROVE  db'.issued \in {db.issued, db.issued + 1}
  <2> DEFINE d == ReconcileRemote(db, proc[p].head)
  <2>1. DbInv(d)
    BY ReconcileHead DEF Tx
  <2>2. d.issued = db.issued
    <3>1. /\ proc[p].head \in Entry /\ proc[p].head.seq \in ever \cup {0}
          /\ ever \subseteq 1..db.issued /\ db.issued \in Nat
      BY DEF OutboxInv, TypeOK, ProcOK, Known, RemoteOK
    <3>2. proc[p].head.seq = 0 \/ proc[p].head.seq \in 1..db.issued
      BY <3>1
    <3>3. proc[p].head.seq <= db.issued
      BY <3>1, <3>2
    <3> QED BY <3>1, <3>3, ReconcileOK
  <2> HIDE DEF d
  <2>3. db' = d \/ db' = QueueCurrent(d, FALSE)
    BY <1>4 DEF Reconcile, Write, d
  <2> QED BY <1>2, <2>1, <2>2, <2>3
<1>5. ASSUME NEW p \in Publishers, Build(p) \/ Queue(p) \/ Cleanup(p) \/ Rebuild(p) \/ Retry(p)
      PROVE  db'.issued \in {db.issued, db.issued + 1}
  <2>1. CASE Build(p)
    BY <1>3, <2>1 DEF Build
  <2>2. CASE Queue(p)
    BY <1>2, <2>2 DEF Queue, Write
  <2>3. CASE Cleanup(p)
    BY <2>3, CleanupOK DEF Cleanup
  <2>4. CASE Rebuild(p)
    <3> DEFINE d == [db EXCEPT !.blocked = "", !.wait = FALSE]
    <3>1. DbInv(d) /\ d.issued = db.issued
      BY <1>1, IssuedOf, UnblockOK DEF Tx
    <3>2. Publish \/ db' = QueueCurrent(db, FALSE) \/ db' = QueueCurrent(d, TRUE)
      BY <2>4 DEF Rebuild, Write
    <3> HIDE DEF d
    <3> QED BY <1>2, <1>3, <3>1, <3>2
  <2>5. CASE Retry(p)
    BY <1>1, <2>5, IssuedOf DEF Retry, Write
  <2> QED BY <1>5, <2>1, <2>2, <2>3, <2>4, <2>5
<1>6. ASSUME NEW p \in Publishers, Claim(p)
      PROVE  db'.issued = db.issued
  <2>1. PICK s : s = Due(db)
    OBVIOUS
  <2>2. Refreshed(db).issued = db.issued /\ IsDb(Refreshed(db))
    BY RefreshedOK
  <2>3. Claimed(db, s, p).issued = Refreshed(db).issued
    <3> DEFINE r == Refreshed(db)
    <3> HIDE DEF r
    <3>1. IsDb(r)
      BY <2>2 DEF r
    <3>2. \A x : [r EXCEPT !.row[s] = x].issued = r.issued
      BY <3>1 DEF IsDb
    <3> QED BY <3>2 DEF Claimed, r
  <2>4. db' = db \/ db' = Refreshed(db) \/ db' = Claimed(db, s, p)
    BY <1>6, <2>1 DEF Claim
  <2> QED BY <2>2, <2>3, <2>4
<1>7. ASSUME NEW p \in Publishers, Finish(p)
      PROVE  db'.issued \in {db.issued, db.issued + 1}
  <2> DEFINE s == proc[p].seq
             a == proc[p].answer
             d == FinishFrame(db, s, a)
  <2>1. a \in Answer /\ (s \in DOMAIN db.row => DbInv(d) /\ d.issued = db.issued)
    <3>1. a \in Answer
      BY <1>7 DEF Finish, OutboxInv, TypeOK
    <3>2. proc[p].seq \in Nat
      BY DEF OutboxInv, TypeOK
    <3>3. ASSUME s \in DOMAIN db.row
          PROVE  Tx(db, d, {s}) /\ d.issued = db.issued
      BY <3>1, <3>2, <3>3, FinishFrameOK
    <3> QED BY <3>1, <3>3 DEF Tx
  <2> HIDE DEF d
  <2>2. db' = db \/ (s \in DOMAIN db.row /\ db' \in {d, QueueCurrent(d, FALSE)})
    BY <1>7 DEF Finish, Write, HoldsLease, d
  <2> QED BY <1>2, <2>1, <2>2
<1>8. CASE ExpireLease \/ BackoffElapses
  <2>1. \/ \E s : db' = [db EXCEPT !.row[s].live = FALSE]
        \/ \E w, row : db' = [db EXCEPT !.wait = w, !.row = row]
    BY <1>8 DEF ExpireLease, BackoffElapses, Write
  <2>2. \A s : [db EXCEPT !.row[s].live = FALSE].issued = db.issued
    BY <1>1, IssuedOf
  <2>3. \A w, row : [db EXCEPT !.wait = w, !.row = row].issued = db.issued
    BY <1>1, IssuedOf
  <2> QED BY <2>1, <2>2, <2>3
<1>9. CASE UNCHANGED db
  BY <1>9
<1>10. \/ \E p \in Publishers : \/ Reconcile(p) \/ Claim(p) \/ Finish(p)
                                \/ Build(p) \/ Queue(p) \/ Cleanup(p) \/ Rebuild(p) \/ Retry(p)
       \/ ExpireLease \/ BackoffElapses \/ UNCHANGED db
  BY DEF Next, vars, Enter, Leave, GetStatus, Deliver, Timeout, BadAnswer, Crash, LoseLock, RemoteRestore
<1> QED BY <1>4, <1>5, <1>6, <1>7, <1>8, <1>9, <1>10

LEMMA FeedStep ==
  ASSUME OutboxInv, [Next]_vars
  PROVE  [Feed!Next]_(Feed!vars)
<1> DEFINE iss == [s \in 1..db.issued |-> db.frame[s].man]
<1> USE RefreshFacts
<1>0. OutboxInv' /\ Tx(db, db', ever)
  BY StepOK
<1>1. log \in Seq(Entry) /\ log' \in Seq(Entry) /\ Len(log) \in Nat /\ ever \subseteq 1..db.issued
      /\ \A i \in 1..Len(log) : log[i] \in Entry /\ log[i].seq \in ever
  <2>1. log \in Seq(Entry) /\ ever \subseteq 1..db.issued /\ \A i \in 1..Len(log) : log[i].seq \in ever
    BY DEF OutboxInv, TypeOK, RemoteOK
  <2>2. log' \in Seq(Entry)
    BY <1>0 DEF OutboxInv, TypeOK
  <2> QED BY <2>1, <2>2
<1>2. \A s \in 1..db.issued : db.frame[s].man \in Manifest \ {Empty}
  BY DEF DbInv, DbType, FramesOK, Frame
<1>3. iss \in Seq(Manifest \ {Empty}) /\ Len(iss) = db.issued
  BY SMTT(20), ZenonT(30), <1>2
<1>4. CASE log' = log
  <2>1. UNCHANGED <<RemoteHead.seq, RemoteHead.man>>
    BY <1>4 DEF RemoteHead
  <2>2. CASE db'.issued = db.issued
    <3>1. iss' = iss
      BY <1>0, <2>2 DEF Tx, Extends
    <3> QED BY <2>1, <3>1 DEF Feed!vars
  <2>3. CASE db'.issued = db.issued + 1
    <3> DEFINE n == db.issued + 1
               m == db'.frame[n].man
    <3>1. m \in Manifest \ {Empty}
      BY <1>0, <2>3 DEF Tx, DbInv, DbType, FramesOK, Frame
    <3>2. iss' = [s \in 1..n |-> db'.frame[s].man]
      BY <2>3
    <3>3. \A s \in 1..db.issued : db'.frame[s].man = iss[s]
      BY <1>0 DEF Tx, Extends
    <3>4. iss' = Append(iss, m)
      <4>1. Append(iss, m) = [s \in 1..n |-> IF s <= db.issued THEN iss[s] ELSE m]
        BY <1>3, <3>1
      <4> HIDE DEF iss
      <4>2. \A s \in 1..n : db'.frame[s].man = IF s <= db.issued THEN iss[s] ELSE m
        BY <3>3
      <4> QED BY <3>2, <4>1, <4>2
    <3> QED BY <2>1, <3>1, <3>4 DEF Feed!Next, Feed!Issue
  <2> QED BY <2>2, <2>3, IssuesOne
<1>5. CASE \E m \in net : Deliver(m) /\ log' # log
  <2>1. PICK m \in net : Deliver(m) /\ log' # log
    BY <1>5
  <2> DEFINE s == m.seq
             new == [seq |-> s, man |-> db.frame[s].man]
  <2>2. s \in 1..db.issued /\ db' = db
    BY <2>1 DEF OutboxInv, NetOK, Deliver
  <2>3. Verdict(s) = "confirmed" /\ s \notin Accepted
    BY <2>1 DEF Deliver, Receive
  <2>4. ~(s <= RemoteHead.seq \/ (db.frame[s].kind = "delta" /\ db.frame[s].base # RemoteHead.seq))
    BY <2>3 DEF Verdict
  <2>5. log' = Append(log, new)
    BY <2>1, <2>2, <2>3, <2>4, ReceiveOK DEF Deliver, Receive
  <2>6. new \in Entry /\ new.seq = s /\ new.man = iss[s]
    BY <1>2, <2>2 DEF Entry
  <2> HIDE DEF new
  <2>7. RemoteHead'.seq = s /\ RemoteHead'.man = iss[s]
    <3>1. Len(log') = Len(log) + 1 /\ log'[Len(log) + 1] = new /\ log' # <<>>
      BY <1>1, <2>5, <2>6
    <3>2. RemoteHead' = new
      BY <3>1 DEF RemoteHead
    <3> QED BY <2>6, <3>2
  <2>8. RemoteHead.seq \in Nat
    <3>1. CASE log = <<>>
      BY <3>1, NothingEntry DEF RemoteHead, Entry
    <3>2. CASE log # <<>>
      BY <1>1, <3>2 DEF RemoteHead, Entry
    <3> QED BY <3>1, <3>2
  <2>9. s > RemoteHead.seq /\ s \in 1..Len(iss)
    BY <1>3, <2>2, <2>4, <2>8
  <2>10. iss' = iss
    BY <2>2
  <2> QED BY <2>7, <2>9, <2>10 DEF Feed!Next, Feed!Show
<1>6. CASE RemoteRestore
  <2>1. PICK n \in 0..(Len(log) - 1) : log' = SubSeq(log, 1, n)
    BY <1>6 DEF RemoteRestore
  <2>2. n \in Nat /\ n < Len(log) /\ Len(log') = n /\ \A i \in 1..n : log'[i] = log[i]
    BY <1>1, <2>1
  <2>3. Len(log) \in 1..Len(log) /\ RemoteHead = log[Len(log)]
    BY <1>1, <2>2 DEF RemoteHead
  <2>4. RemoteHead.seq \in 1..db.issued
    BY <1>1, <2>3
  <2>5. db' = db /\ iss' = iss
    BY <1>6 DEF RemoteRestore
  <2>6. CASE n = 0
    <3>1. log' = <<>>
      BY <1>1, <2>2, <2>6
    <3>2. RemoteHead'.seq = 0 /\ RemoteHead'.man = Empty
      BY <3>1, NothingEntry DEF RemoteHead
    <3> QED BY <2>4, <2>5, <3>2 DEF Feed!Next, Feed!Restore
  <2>7. CASE n # 0
    <3>1. n \in 1..Len(log) /\ RemoteHead' = log[n] /\ log[n].seq \in 1..db.issued
      <4>1. n \in 1..Len(log) /\ n \in 1..n
        BY <1>1, <2>2, <2>7
      <4>2. log' # <<>> /\ log'[n] = log[n]
        BY <2>2, <2>7, <4>1
      <4> QED BY <1>1, <2>2, <4>1, <4>2 DEF RemoteHead
    <3>2. log[n].seq < RemoteHead.seq
      BY <2>2, <2>3, <3>1 DEF OutboxInv, Ascending
    <3>3. log[n].man = iss[log[n].seq]
      BY SMTT(20), ZenonT(30), <3>1 DEF OutboxInv, RemoteOK, Known, ManifestOf
    <3> QED BY <1>3, <2>5, <3>1, <3>2, <3>3 DEF Feed!Next, Feed!Restore
  <2> QED BY <2>6, <2>7
<1>7. \/ log' = log \/ RemoteRestore \/ \E m \in net : Deliver(m) /\ log' # log
  BY DEF Next, vars, Enter, Leave, GetStatus, Reconcile, Build, Queue, Claim, Finish, Cleanup, Retry,
         Rebuild, Timeout, BadAnswer, Crash, ExpireLease, BackoffElapses, LoseLock, Write, remote
<1> QED BY <1>4, <1>5, <1>6, <1>7

LEMMA FeedInit == Init => Feed!Init
<1> SUFFICES ASSUME Init PROVE Feed!Init
  OBVIOUS
<1>1. db.issued = 0 /\ log = <<>>
  <2>1. PICK m : db = [parts |-> m, acked |-> 0, man |-> Empty, issued |-> 0, force |-> FALSE,
                       blocked |-> "", wait |-> FALSE, row |-> <<>>, frame |-> <<>>, payload |-> {}]
    BY DEF Init
  <2> QED BY <2>1 DEF Init
<1>2. [s \in 1..db.issued |-> db.frame[s].man] = <<>>
  BY <1>1
<1>3. RemoteHead = Nothing
  BY <1>1 DEF RemoteHead
<1> QED BY <1>2, <1>3, NothingEntry DEF Feed!Init

(* The outbox with its deltas, retries and recoveries implements the feed   *)
(* of whole snapshots.                                                      *)
THEOREM Implements == Spec => WholeSnapshots
<1>1. OutboxInv /\ [Next]_vars => [Feed!Next]_(Feed!vars)
  BY FeedStep
<1>2. Init => Feed!Init
  BY FeedInit
<1> QED BY <1>1, <1>2, Invariance, PTL DEF Spec, WholeSnapshots, Feed!Spec

-----------------------------------------------------------------------------
(* What protects the rows in their sending: no transaction but a claim      *)
(* gives a lease, and none opens a row whose payload is gone.               *)
Live(d) == {s \in Having(d, "sending") : d.row[s].live}
Keeps(d, e) == Live(e) \subseteq Live(d) /\ (Open(d) \subseteq d.payload => Open(e) \subseteq e.payload)
IsOpen(r) == r.status \in {"pending", "sending"}
Leased(r) == r.status = "sending" /\ r.live

(* Row by row: a lease that stays was there, an open row was open with the *)
(* payload it has, or has one now.                                         *)
LEMMA KeepsIf ==
  ASSUME NEW d, NEW e,
         \A s \in DOMAIN e.row : Leased(e.row[s]) => s \in DOMAIN d.row /\ Leased(d.row[s]),
         \A s \in DOMAIN e.row : IsOpen(e.row[s]) =>
           s \in e.payload \/ (s \in DOMAIN d.row /\ IsOpen(d.row[s]) /\ (s \in d.payload => s \in e.payload))
  PROVE  Keeps(d, e)
BY DEF Keeps, Live, Open, Having, IsOpen, Leased

LEMMA KeepsTrans ==
  ASSUME NEW d, NEW e, NEW f, Keeps(d, e), Keeps(e, f)
  PROVE  Keeps(d, f)
BY DEF Keeps

LEMMA KeepsRefl == ASSUME NEW d PROVE Keeps(d, d)
BY DEF Keeps

(* The same rows, or some of them closed, and payloads that go only with   *)
(* closed rows.                                                            *)
LEMMA KeepsSome ==
  ASSUME NEW d, NEW e, DOMAIN e.row \subseteq DOMAIN d.row,
         \A s \in DOMAIN e.row : e.row[s] = d.row[s] \/ ~IsOpen(e.row[s]),
         \A s \in DOMAIN e.row : IsOpen(e.row[s]) /\ s \in d.payload => s \in e.payload
  PROVE  Keeps(d, e)
<1>1. \A s \in DOMAIN e.row : Leased(e.row[s]) => IsOpen(e.row[s])
  BY DEF Leased, IsOpen
<1> QED BY <1>1, KeepsIf

LEMMA Superseded ==
  ASSUME NEW row, NEW S, NEW n \in Nat, RowsOK(row, n)
  PROVE  /\ DOMAIN Supersede(row, S) = DOMAIN row
         /\ \A s \in DOMAIN row : Supersede(row, S)[s] = row[s] \/ ~IsOpen(Supersede(row, S)[s])
BY SupersedeRows DEF IsOpen

LEMMA KeepsQueue ==
  ASSUME NEW d, DbInv(d), NEW b \in BOOLEAN
  PROVE  Keeps(d, QueueCurrent(d, b))
<1>1. CASE QueueCurrent(d, b) = d
  BY <1>1, KeepsRefl
<1>2. CASE QueueCurrent(d, b) = QueueFrame(d)
  <2> DEFINE e == QueueFrame(d)
             n == (IF d.issued > d.acked THEN d.issued ELSE d.acked) + 1
             rows == Supersede(d.row, DOMAIN d.row)
             new == [status |-> "pending", owner |-> None, live |-> FALSE, wait |-> FALSE]
  <2>1. IsDb(d) /\ RowsOK(d.row, d.issued) /\ d.issued \in Nat
    BY DEF DbInv, DbType
  <2>2. e = [d EXCEPT !.row = [s \in DOMAIN d.row \cup {n} |-> IF s = n THEN new ELSE rows[s]],
                      !.frame = [s \in DOMAIN d.frame \cup {n} |->
                                   IF s = n THEN NewFrame(d) ELSE d.frame[s]],
                      !.payload = d.payload \cup {n},
                      !.issued = n]
    BY DEF QueueFrame
  <2> HIDE DEF e, n
  <2>3. /\ e.row = [s \in DOMAIN d.row \cup {n} |-> IF s = n THEN new ELSE rows[s]]
        /\ e.payload = d.payload \cup {n}
    BY <2>1, <2>2 DEF IsDb
  <2>4. \A s \in DOMAIN d.row : rows[s] = d.row[s] \/ ~IsOpen(rows[s])
    BY <2>1, Superseded
  <2>5. ~Leased(new)
    BY DEF Leased
  <2> HIDE DEF rows, new
  <2>6. \A s \in DOMAIN e.row :
          \/ s = n /\ e.row[s] = new
          \/ s \in DOMAIN d.row /\ (e.row[s] = d.row[s] \/ ~IsOpen(e.row[s]))
    BY <2>3, <2>4
  <2>7. \A s \in DOMAIN e.row : Leased(e.row[s]) => IsOpen(e.row[s])
    BY DEF Leased, IsOpen
  <2>8. Keeps(d, e)
    BY <2>3, <2>5, <2>6, <2>7, KeepsIf
  <2> QED BY <1>2, <2>8 DEF e
<1> QED BY <1>1, <1>2 DEF QueueCurrent

(* Rows of which one is given back, with the payload it had.                *)
LEMMA KeepsReleased ==
  ASSUME NEW d, NEW e, DbInv(d), NEW s \in DOMAIN d.row, NEW st \in Status \ {"sending"}, NEW w \in BOOLEAN,
         st = "pending" => IsOpen(d.row[s]), e.payload = d.payload,
         NEW row, row = Released(d, s, st, w), NEW S, e.row = row \/ e.row = Supersede(row, S)
  PROVE  Keeps(d, e)
<1>1. /\ RowsOK(row, d.issued) /\ DOMAIN row = DOMAIN d.row /\ row[s].status = st
      /\ \A t \in DOMAIN d.row \ {s} : row[t] = d.row[t]
  BY ReleasedRows
<1>2. d.issued \in Nat
  BY DEF DbInv, DbType
<1>3. DOMAIN e.row = DOMAIN d.row /\ \A t \in DOMAIN row : e.row[t] = row[t] \/ ~IsOpen(e.row[t])
  BY <1>1, <1>2, Superseded
<1>4. \A t \in DOMAIN e.row : Leased(e.row[t]) => IsOpen(e.row[t])
  BY DEF Leased, IsOpen
<1>5. ~Leased(row[s]) /\ (IsOpen(row[s]) => IsOpen(d.row[s]))
  BY <1>1 DEF Leased, IsOpen
<1>6. ASSUME NEW t \in DOMAIN e.row, Leased(e.row[t])
      PROVE  t \in DOMAIN d.row /\ Leased(d.row[t])
  BY <1>1, <1>3, <1>4, <1>5, <1>6
<1>7. ASSUME NEW t \in DOMAIN e.row, IsOpen(e.row[t])
      PROVE  t \in DOMAIN d.row /\ IsOpen(d.row[t]) /\ (t \in d.payload => t \in e.payload)
  BY <1>1, <1>3, <1>5, <1>7
<1> QED BY <1>6, <1>7, KeepsIf

LEMMA KeepsAcknowledge ==
  ASSUME NEW d, NEW e, DbInv(d), NEW s \in DOMAIN d.row,
         e.row = Acknowledge(d, s).row, e.payload = Acknowledge(d, s).payload
  PROVE  Keeps(d, e)
<1> DEFINE row == Released(d, s, "acked", d.row[s].wait)
           all == Supersede(row, OffBase(d, s))
<1>1. IsDb(d) /\ d.row[s] \in Row
  BY DEF DbInv, DbType, RowsOK
<1>2. Acknowledge(d, s) = [d EXCEPT !.row = all, !.acked = s, !.man = d.frame[s].man, !.force = FALSE]
  BY DEF Acknowledge
<1> HIDE DEF all
<1>3. e.row = all /\ e.payload = d.payload
  BY <1>1, <1>2 DEF IsDb
<1>4. d.row[s].wait \in BOOLEAN /\ "acked" \in Status \ {"sending"}
  BY <1>1 DEF Row, Status
<1> HIDE DEF row
<1>5. row = Released(d, s, "acked", d.row[s].wait) /\ e.row = Supersede(row, OffBase(d, s))
  BY <1>3 DEF row, all
<1> QED BY <1>3, <1>4, <1>5, KeepsReleased

LEMMA KeepsFinish ==
  ASSUME NEW d, DbInv(d), NEW s \in DOMAIN d.row, NEW a \in Answer, d.row[s].status = "sending"
  PROVE  Keeps(d, FinishFrame(d, s, a))
<1> DEFINE e == FinishFrame(d, s, a)
<1>1. IsDb(d) /\ d.row[s].wait \in BOOLEAN /\ IsOpen(d.row[s])
  BY DEF DbInv, DbType, RowsOK, Row, IsOpen
<1>2. CASE a = "confirmed" /\ s > d.acked
  <2> DEFINE k == Acknowledge(d, s)
  <2>1. d.acked \in Nat /\ d.issued \in Nat /\ s \in 1..d.issued
    BY DEF DbInv, DbType, RowsOK
  <2>2. s >= d.acked
    BY <1>2, <2>1
  <2>3. IsDb(k)
    BY <2>2, AcknowledgeOK
  <2>4. e = [k EXCEPT !.wait = FALSE]
    BY <1>2 DEF FinishFrame
  <2> HIDE DEF k, e
  <2>5. e.row = k.row /\ e.payload = k.payload
    BY <2>3, <2>4 DEF IsDb
  <2>6. Keeps(d, e)
    BY <2>5, KeepsAcknowledge DEF k
  <2> QED BY <2>6 DEF e
<1>3. ASSUME NEW st \in Status \ {"sending"}, NEW w \in BOOLEAN,
             e.row = Released(d, s, st, w), e.payload = d.payload
      PROVE  Keeps(d, e)
  BY <1>1, <1>3, KeepsReleased
<1>4. CASE a = "confirmed" /\ ~(s > d.acked)
  <2> DEFINE row == Released(d, s, "acked", d.row[s].wait)
  <2>1. e = [[d EXCEPT !.row = row] EXCEPT !.wait = FALSE]
    BY <1>4 DEF FinishFrame
  <2> HIDE DEF row
  <2>2. e.row = row /\ e.payload = d.payload
    BY <1>1, <2>1 DEF IsDb
  <2> QED BY <1>1, <1>3, <2>2 DEF row, Status
<1>5. CASE a = "stale"
  <2> DEFINE row == Released(d, s, "superseded", d.row[s].wait)
  <2>1. e = [d EXCEPT !.row = row]
    BY <1>5 DEF FinishFrame
  <2> HIDE DEF row
  <2>2. e.row = row /\ e.payload = d.payload
    BY <1>1, <2>1 DEF IsDb
  <2> QED BY <1>1, <1>3, <2>2 DEF row, Status
<1>6. CASE a = "transport"
  <2> DEFINE row == Released(d, s, "pending", TRUE)
  <2>1. e = [d EXCEPT !.row = row, !.wait = TRUE]
    BY <1>6 DEF FinishFrame
  <2> HIDE DEF row
  <2>2. e.row = row /\ e.payload = d.payload
    BY <1>1, <2>1 DEF IsDb
  <2> QED BY <1>3, <2>2 DEF row, Status
<1>7. CASE a \in {"auth", "contract"}
  <2> DEFINE row == Released(d, s, "blocked", TRUE)
  <2>1. e = [d EXCEPT !.row = row, !.wait = TRUE, !.blocked = a]
    BY <1>7 DEF FinishFrame
  <2> HIDE DEF row
  <2>2. e.row = row /\ e.payload = d.payload
    BY <1>1, <2>1 DEF IsDb
  <2> QED BY <1>3, <2>2 DEF row, Status
<1> QED BY <1>2, <1>4, <1>5, <1>6, <1>7 DEF Answer

LEMMA KeepsReconcile ==
  ASSUME NEW d, DbInv(d), NEW h \in Entry
  PROVE  Keeps(d, ReconcileRemote(d, h))
<1> DEFINE e == ReconcileRemote(d, h)
<1>1. IsDb(d) /\ RowsOK(d.row, d.issued) /\ d.issued \in Nat
  BY DEF DbInv, DbType
<1>2. CASE e = d
  BY <1>2, KeepsRefl
<1>3. CASE Recognises(d, h) /\ h.seq >= d.acked /\ e # d
  <2> DEFINE k == Acknowledge(d, h.seq)
             w == k.wait /\ d.blocked # ""
  <2>1. h.seq \in DOMAIN d.row /\ IsDb(k)
    BY <1>3, AcknowledgeOK DEF Recognises
  <2>2. e = [k EXCEPT !.wait = w]
    BY <1>3 DEF ReconcileRemote
  <2> HIDE DEF k, w, e
  <2>3. e.row = k.row /\ e.payload = k.payload
    BY <2>1, <2>2 DEF IsDb
  <2>4. Keeps(d, e)
    BY <2>1, <2>3, KeepsAcknowledge DEF k
  <2> QED BY <2>4 DEF e
<1>4. CASE e = [d EXCEPT !.issued = IF d.issued > h.seq THEN d.issued ELSE h.seq, !.force = TRUE,
                        !.row = Supersede(d.row, DOMAIN d.row)]
  <2> DEFINE row == Supersede(d.row, DOMAIN d.row)
             i == IF d.issued > h.seq THEN d.issued ELSE h.seq
  <2>1. DOMAIN row = DOMAIN d.row /\ \A t \in DOMAIN d.row : row[t] = d.row[t] \/ ~IsOpen(row[t])
    BY <1>1, Superseded
  <2>2. e = [d EXCEPT !.issued = i, !.force = TRUE, !.row = row]
    BY <1>4
  <2> HIDE DEF row, i, e
  <2>3. e.row = row /\ e.payload = d.payload
    BY <1>1, <2>2 DEF IsDb
  <2>4. Keeps(d, e)
    BY <2>1, <2>3, KeepsSome
  <2> QED BY <2>4 DEF e
<1> QED BY <1>2, <1>3, <1>4 DEF ReconcileRemote

LEMMA KeepsCleanup ==
  ASSUME NEW d, DbInv(d), NEW old
  PROVE  Keeps(d, CleanupOutbox(d, old))
<1> DEFINE D == (DOMAIN d.row \cap Kept(d)) \cup (DOMAIN d.row \ old)
           row == [s \in D |-> d.row[s]]
           K == Kept(d)
           e == CleanupOutbox(d, old)
<1>1. IsDb(d)
  BY DEF DbInv, DbType
<1>2. D \subseteq DOMAIN d.row
  OBVIOUS
<1>3. e = [d EXCEPT !.payload = d.payload \cap K, !.row = row]
  BY DEF CleanupOutbox
<1>4. \A s \in DOMAIN d.row : IsOpen(d.row[s]) => s \in K
  BY DEF Kept, Open, Having, IsOpen
<1> HIDE DEF D, e, K
<1>5. DOMAIN row = D /\ \A s \in D : row[s] = d.row[s]
  OBVIOUS
<1> HIDE DEF row
<1>6. e.row = row /\ e.payload = d.payload \cap K
  BY <1>1, <1>3 DEF IsDb
<1>7. Keeps(d, e)
  BY <1>2, <1>4, <1>5, <1>6, KeepsSome
<1> QED BY <1>7 DEF e

(* The transactions written out in an action: each leaves a row's payload,  *)
(* and its status and lease, or takes the lease away, or opens a row that   *)
(* has its payload.                                                         *)
LEMMA KeepsOthers ==
  ASSUME NEW d, DbInv(d)
  PROVE  /\ \A m \in Manifest : Keeps(d, [d EXCEPT !.parts = m])
         /\ Keeps(d, [d EXCEPT !.blocked = "", !.wait = FALSE])
         /\ \A s \in DOMAIN d.row : Keeps(d, [d EXCEPT !.row[s].live = FALSE])
         /\ \A w \in BOOLEAN :
              Keeps(d, [d EXCEPT !.wait = w,
                                 !.row = [s \in DOMAIN d.row |-> [d.row[s] EXCEPT !.wait = FALSE]]])
         /\ \A s \in DOMAIN d.row \cap d.payload :
              Keeps(d, [d EXCEPT !.blocked = "", !.wait = FALSE,
                                 !.row[s].status = "pending", !.row[s].wait = FALSE])
<1>1. IsDb(d) /\ RowsOK(d.row, d.issued)
  BY DEF DbInv, DbType
<1>2. \A s \in DOMAIN d.row : Leased(d.row[s]) => IsOpen(d.row[s])
  BY DEF Leased, IsOpen
<1>3. ASSUME NEW e, e.payload = d.payload, DOMAIN e.row = DOMAIN d.row,
             \A s \in DOMAIN d.row :
               /\ e.row[s].status = d.row[s].status \/ (e.row[s].status = "pending" /\ s \in d.payload)
               /\ Leased(e.row[s]) => Leased(d.row[s])
      PROVE  Keeps(d, e)
  <2>1. \A s \in DOMAIN e.row : IsOpen(e.row[s]) => s \in e.payload \/ (s \in DOMAIN d.row /\ IsOpen(d.row[s]))
    BY <1>3 DEF IsOpen
  <2> QED BY <1>3, <2>1, KeepsIf
<1>4. ASSUME NEW m \in Manifest
      PROVE  Keeps(d, [d EXCEPT !.parts = m])
  <2> DEFINE e == [d EXCEPT !.parts = m]
  <2>1. e.row = d.row /\ e.payload = d.payload
    BY <1>1 DEF IsDb
  <2> HIDE DEF e
  <2> QED BY <1>3, <2>1 DEF e
<1>5. Keeps(d, [d EXCEPT !.blocked = "", !.wait = FALSE])
  <2> DEFINE e == [d EXCEPT !.blocked = "", !.wait = FALSE]
  <2>1. e.row = d.row /\ e.payload = d.payload
    BY <1>1 DEF IsDb
  <2> HIDE DEF e
  <2> QED BY <1>3, <2>1 DEF e
<1>6. ASSUME NEW s \in DOMAIN d.row
      PROVE  Keeps(d, [d EXCEPT !.row[s].live = FALSE])
  <2> DEFINE row == [d.row EXCEPT ![s].live = FALSE]
             e == [d EXCEPT !.row[s].live = FALSE]
  <2>1. /\ DOMAIN row = DOMAIN d.row
        /\ \A t \in DOMAIN row : row[t].status = d.row[t].status /\ (Leased(row[t]) => Leased(d.row[t]))
    BY <1>1 DEF RowsOK, IsFcn, Row, Leased
  <2>2. e = [d EXCEPT !.row = row]
    OBVIOUS
  <2> HIDE DEF row, e
  <2>3. e.row = row /\ e.payload = d.payload
    BY <1>1, <2>2 DEF IsDb
  <2>4. Keeps(d, e)
    BY <1>3, <2>1, <2>3
  <2> QED BY <2>4 DEF e
<1>7. ASSUME NEW w \in BOOLEAN
      PROVE  Keeps(d, [d EXCEPT !.wait = w,
                                !.row = [s \in DOMAIN d.row |-> [d.row[s] EXCEPT !.wait = FALSE]]])
  <2> DEFINE row == [s \in DOMAIN d.row |-> [d.row[s] EXCEPT !.wait = FALSE]]
             e == [d EXCEPT !.wait = w, !.row = row]
  <2>1. /\ DOMAIN row = DOMAIN d.row
        /\ \A t \in DOMAIN row : row[t].status = d.row[t].status /\ (Leased(row[t]) => Leased(d.row[t]))
    BY <1>1 DEF RowsOK, IsFcn, Row, Leased
  <2> HIDE DEF row
  <2>2. e.row = row /\ e.payload = d.payload
    BY <1>1 DEF IsDb
  <2> HIDE DEF e
  <2>3. Keeps(d, e)
    BY <1>3, <2>1, <2>2
  <2> QED BY <2>3 DEF e, row
<1>8. ASSUME NEW s \in DOMAIN d.row \cap d.payload
      PROVE  Keeps(d, [d EXCEPT !.blocked = "", !.wait = FALSE,
                                !.row[s].status = "pending", !.row[s].wait = FALSE])
  <2> DEFINE row == [d.row EXCEPT ![s].status = "pending", ![s].wait = FALSE]
             e == [d EXCEPT !.blocked = "", !.wait = FALSE,
                            !.row[s].status = "pending", !.row[s].wait = FALSE]
  <2>1. /\ DOMAIN row = DOMAIN d.row /\ row[s].status = "pending"
        /\ \A t \in DOMAIN row : t # s => row[t] = d.row[t]
    BY <1>1 DEF RowsOK, IsFcn, Row
  <2>2. e = [d EXCEPT !.blocked = "", !.wait = FALSE, !.row = row]
    OBVIOUS
  <2> HIDE DEF row, e
  <2>3. e.row = row /\ e.payload = d.payload
    BY <1>1, <2>2 DEF IsDb
  <2>4. ~Leased(row[s])
    BY <2>1 DEF Leased
  <2>5. Keeps(d, e)
    BY <1>3, <2>1, <2>3, <2>4
  <2> QED BY <2>5 DEF e
<1> QED BY <1>4, <1>5, <1>6, <1>7, <1>8

LEMMA KeepsRefreshed ==
  ASSUME NEW d, DbInv(d)
  PROVE  Keeps(d, Refreshed(d)) /\ Refreshed(d).payload = d.payload
<1> DEFINE freed == [s \in DOMAIN d.row |->
                       IF d.row[s].status = "sending" /\ ~d.row[s].live
                       THEN [d.row[s] EXCEPT !.status = "pending"]
                       ELSE d.row[s]]
           row == Supersede(freed, OffBase(d, d.acked))
           e == Refreshed(d)
<1>1. IsDb(d) /\ RowsOK(d.row, d.issued) /\ d.issued \in Nat
  BY DEF DbInv, DbType
<1>2. RowsOK(freed, d.issued) /\ DOMAIN freed = DOMAIN d.row
  BY <1>1 DEF RowsOK, IsFcn, Row, Status
<1>3. \A s \in DOMAIN d.row : /\ Leased(freed[s]) => Leased(d.row[s])
                              /\ IsOpen(freed[s]) => IsOpen(d.row[s])
  BY <1>1 DEF RowsOK, IsFcn, Row, Leased, IsOpen
<1>4. e = [d EXCEPT !.row = row]
  BY DEF Refreshed
<1> HIDE DEF freed, e
<1>5. DOMAIN row = DOMAIN d.row /\ \A s \in DOMAIN d.row : row[s] = freed[s] \/ ~IsOpen(row[s])
  BY <1>1, <1>2, Superseded
<1> HIDE DEF row
<1>6. e.row = row /\ e.payload = d.payload
  BY <1>1, <1>4 DEF IsDb
<1>7. \A s \in DOMAIN e.row : Leased(e.row[s]) => IsOpen(e.row[s])
  BY DEF Leased, IsOpen
<1>8. Keeps(d, e)
  BY <1>3, <1>5, <1>6, <1>7, KeepsIf
<1> QED BY <1>6, <1>8 DEF e

(* A claim gives the only lease: it waits until there is none.              *)
LEMMA ClaimGives ==
  ASSUME NEW d, DbInv(d), MayClaim(d), NEW s \in DOMAIN d.row \cap d.payload, NEW p,
         Open(d) \subseteq d.payload
  PROVE  Live(Claimed(d, s, p)) \subseteq {s} /\ Open(Claimed(d, s, p)) \subseteq Claimed(d, s, p).payload
<1> DEFINE r == Refreshed(d)
           new == [status |-> "sending", owner |-> p, live |-> TRUE, wait |-> d.row[s].wait]
           e == Claimed(d, s, p)
<1>1. Keeps(d, r) /\ r.payload = d.payload /\ IsDb(r) /\ DOMAIN r.row = DOMAIN d.row
  BY KeepsRefreshed, RefreshedOK
<1>2. Live(r) = {} /\ Open(r) \subseteq r.payload
  BY <1>1 DEF Keeps, MayClaim, Live
<1>3. e = [r EXCEPT !.row = [r.row EXCEPT ![s] = new]]
  BY DEF Claimed
<1> HIDE DEF r, e, new
<1>4. e.row = [r.row EXCEPT ![s] = new] /\ e.payload = r.payload
  BY <1>1, <1>3 DEF IsDb
<1>5. DOMAIN e.row = DOMAIN r.row /\ \A t \in DOMAIN r.row : t # s => e.row[t] = r.row[t]
  BY <1>1, <1>4
<1>6. Live(e) \subseteq Live(r) \cup {s} /\ Open(e) \subseteq Open(r) \cup {s}
  BY <1>5 DEF Live, Open, Having
<1>7. Live(e) \subseteq {s} /\ Open(e) \subseteq e.payload
  BY <1>1, <1>2, <1>4, <1>6
<1> QED BY <1>7 DEF e

Protected == OneLiveLease /\ OpenHavePayload

LEMMA KeepsProtected ==
  ASSUME Protected, Keeps(db, db')
  PROVE  Protected'
<1>1. OneLiveLease'
  BY DEF Protected, OneLiveLease, Keeps, Live
<1>2. OpenHavePayload'
  BY DEF Protected, OpenHavePayload, Keeps
<1> QED BY <1>1, <1>2 DEF Protected

LEMMA ClaimProtects ==
  ASSUME OutboxInv, Protected, NEW p \in Publishers, Claim(p)
  PROVE  Protected'
<1>1. DbInv(db) /\ Open(db) \subseteq db.payload
  BY RefreshFacts DEF Protected, OpenHavePayload
<1>2. CASE ~MayClaim(db) \/ Due(db) = None
  <2>1. db' = Refreshed(db) \/ db' = db
    BY <1>2 DEF Claim
  <2> QED BY <1>1, <2>1, KeepsRefreshed, KeepsRefl, KeepsProtected
<1>3. CASE MayClaim(db) /\ Due(db) # None
  <2> DEFINE s == Due(db)
             P == Having(Refreshed(db), "pending")
  <2>1. s \in db.payload /\ db' = Claimed(db, s, p)
    BY <1>3 DEF Claim
  <2>2. P \subseteq DOMAIN db.row /\ DOMAIN db.row \subseteq 1..db.issued /\ db.issued \in Nat
    BY <1>1, RefreshedOK DEF DbInv, DbType, RowsOK, Having
  <2>3. P # {} /\ s = Highest(P)
    BY <1>3 DEF Due
  <2> HIDE DEF P, s
  <2>4. s \in DOMAIN db.row
    BY <2>2, <2>3, HighestIsMember
  <2>5. Live(db') \subseteq {s} /\ Open(db') \subseteq db'.payload
    BY <1>1, <1>3, <2>1, <2>4, ClaimGives
  <2> QED BY <2>5 DEF Protected, OneLiveLease, OpenHavePayload, Live
<1> QED BY <1>2, <1>3

(* Any other step only gives up rows or queues new ones.                    *)
LEMMA OthersProtect ==
  ASSUME OutboxInv, Next, \A p \in Publishers : ~Claim(p)
  PROVE  Keeps(db, db')
<1> DEFINE unblocked == [db EXCEPT !.blocked = "", !.wait = FALSE]
<1>1. /\ DbInv(db)
      /\ \A p \in Publishers : proc[p].head \in Entry /\ proc[p].answer \in Answer \cup {None}
  BY RefreshFacts DEF OutboxInv, TypeOK
<1>2. ASSUME UNCHANGED db PROVE Keeps(db, db')
  BY <1>2, KeepsRefl
<1>3. ASSUME NEW d, Keeps(db, d), DbInv(d), NEW b \in BOOLEAN
      PROVE  Keeps(db, QueueCurrent(d, b))
  BY <1>3, KeepsQueue, KeepsTrans
<1>4. ASSUME Publish PROVE Keeps(db, db')
  <2>1. CASE UNCHANGED db
    BY <1>2, <2>1
  <2>2. CASE \E m \in Manifest : db' = [db EXCEPT !.parts = m]
    <3>1. PICK m \in Manifest : db' = [db EXCEPT !.parts = m]
      BY SMTT(20), ZenonT(30), <2>2
    <3>2. Keeps(db, [db EXCEPT !.parts = m])
      BY <1>1, KeepsOthers
    <3> QED BY <3>1, <3>2
  <2> QED BY <1>4, <2>1, <2>2 DEF Publish
<1>5. ASSUME NEW p \in Publishers, Reconcile(p) PROVE Keeps(db, db')
  <2> DEFINE d == ReconcileRemote(db, proc[p].head)
  <2>1. Keeps(db, d) /\ DbInv(d)
    BY <1>1, KeepsReconcile, ReconcileHead DEF Tx
  <2> HIDE DEF d
  <2>2. db' = d \/ db' = QueueCurrent(d, FALSE)
    BY <1>5 DEF Reconcile, Write, d
  <2> QED BY <1>3, <2>1, <2>2
<1>6. ASSUME NEW p \in Publishers, Finish(p) PROVE Keeps(db, db')
  <2> DEFINE s == proc[p].seq
             a == proc[p].answer
             d == FinishFrame(db, s, a)
  <2>1. CASE HoldsLease(db, s, p)
    <3>1. s \in DOMAIN db.row /\ db.row[s].status = "sending" /\ a \in Answer
      BY <1>1, <1>6, <2>1 DEF HoldsLease, Finish
    <3>2. (a = "confirmed" => s \in ever) /\ ever \subseteq Nat
      BY RefreshFacts DEF OutboxInv, ProcOK
    <3>3. Tx(db, d, ever)
      BY <1>1, <3>1, <3>2, FinishFrameOK
    <3>4. Keeps(db, d) /\ DbInv(d)
      BY <1>1, <3>1, <3>3, KeepsFinish DEF Tx
    <3> HIDE DEF d
    <3>5. db' = d \/ db' = QueueCurrent(d, FALSE)
      BY <1>6, <2>1 DEF Finish, Write, d
    <3> QED BY <1>3, <3>4, <3>5
  <2>2. CASE ~HoldsLease(db, s, p)
    BY <1>2, <1>6, <2>2 DEF Finish, Write
  <2> QED BY <2>1, <2>2
<1>7. ASSUME NEW p \in Publishers, Build(p) \/ Queue(p) PROVE Keeps(db, db')
  <2>1. Publish \/ db' = QueueCurrent(db, FALSE)
    BY <1>7 DEF Build, Queue, Write
  <2> QED BY <1>1, <1>4, <2>1, KeepsQueue
<1>8. ASSUME NEW p \in Publishers, Rebuild(p) PROVE Keeps(db, db')
  <2>1. Keeps(db, unblocked) /\ DbInv(unblocked)
    BY <1>1, KeepsOthers, UnblockOK DEF Tx
  <2> HIDE DEF unblocked
  <2>2. \/ Publish
        \/ db' = QueueCurrent(db, FALSE)
        \/ db' = QueueCurrent(unblocked, TRUE)
    BY <1>8 DEF Rebuild, Write, unblocked
  <2> QED BY <1>1, <1>3, <1>4, <2>1, <2>2, KeepsQueue
<1>9. ASSUME NEW p \in Publishers, Retry(p) PROVE Keeps(db, db')
  <2>1. PICK s \in DOMAIN db.row \cap db.payload :
          db' = [db EXCEPT !.blocked = "", !.wait = FALSE,
                           !.row[s].status = "pending", !.row[s].wait = FALSE]
    BY <1>9 DEF Retry, Write
  <2> QED BY <1>1, <2>1, KeepsOthers
<1>10. ASSUME NEW p \in Publishers, Cleanup(p) PROVE Keeps(db, db')
  <2>1. PICK old : db' = CleanupOutbox(db, old)
    BY SMTT(20), ZenonT(30), <1>10 DEF Cleanup
  <2> QED BY <1>1, <2>1, KeepsCleanup
<1>11. ASSUME ExpireLease PROVE Keeps(db, db')
  <2>1. PICK s \in DOMAIN db.row : db' = [db EXCEPT !.row[s].live = FALSE]
    BY <1>11 DEF ExpireLease, Having, Write
  <2> QED BY <1>1, <2>1, KeepsOthers
<1>12. ASSUME BackoffElapses PROVE Keeps(db, db')
  <2>1. PICK w \in BOOLEAN : db' = [db EXCEPT !.wait = w,
                                      !.row = [s \in DOMAIN db.row |-> [db.row[s] EXCEPT !.wait = FALSE]]]
    BY <1>1, <1>12 DEF BackoffElapses, Write, DbInv, DbType
  <2> QED BY <1>1, <2>1, KeepsOthers
<1>13. ASSUME NEW p \in Publishers,
              Enter(p) \/ Leave(p) \/ GetStatus(p) \/ Timeout(p) \/ BadAnswer(p) \/ Crash(p)
       PROVE  UNCHANGED db
  BY <1>13 DEF Enter, Leave, GetStatus, Timeout, BadAnswer, Crash
<1>14. ASSUME LoseLock \/ RemoteRestore \/ \E m \in net : Deliver(m) PROVE UNCHANGED db
  BY <1>14 DEF LoseLock, RemoteRestore, Deliver
<1> QED
  BY <1>2, <1>5, <1>6, <1>7, <1>8, <1>9, <1>10, <1>11, <1>12, <1>13, <1>14 DEF Next

(* A process stops waiting when it finishes, or dies.                      *)
LEMMA StopsWaiting ==
  ASSUME OutboxInv, Next, NEW p \in Publishers, At(p, "wait"), ~At(p, "wait")'
  PROVE  Finish(p) \/ UNCHANGED db
<1>1. proc \in [Publishers -> ProcRec]
  BY DEF OutboxInv, TypeOK, ProcRec
<1>2. ASSUME NEW q \in Publishers, NEW r, proc' = [proc EXCEPT ![q] = r]
      PROVE  p = q
  BY <1>1, <1>2 DEF At
<1>3. ASSUME NEW q \in Publishers,
             Enter(q) \/ Leave(q) \/ GetStatus(q) \/ Reconcile(q) \/ Build(q) \/ Queue(q)
             \/ Claim(q) \/ Cleanup(q) \/ Retry(q) \/ Rebuild(q)
      PROVE  FALSE
  <2>1. ~At(q, "wait")
    BY <1>3 DEF Enter, Leave, GetStatus, Reconcile, Build, Queue, Claim, Cleanup, Retry, Rebuild, At
  <2>2. \E r : proc' = [proc EXCEPT ![q] = r]
    BY <1>3 DEF Enter, Leave, GetStatus, Reconcile, Build, Queue, Claim, Cleanup, Retry, Rebuild, Goto
  <2> QED BY <1>2, <2>1, <2>2
<1>4. ASSUME NEW q \in Publishers, Finish(q) PROVE Finish(p)
  <2>1. \E r : proc' = [proc EXCEPT ![q] = r]
    BY <1>4 DEF Finish, Goto
  <2> QED BY <1>2, <1>4, <2>1
<1>5. ASSUME NEW q \in Publishers, Timeout(q) \/ BadAnswer(q) \/ Crash(q) PROVE UNCHANGED db
  BY <1>5 DEF Timeout, BadAnswer, Crash
<1>6. ASSUME ExpireLease \/ BackoffElapses \/ LoseLock \/ RemoteRestore \/ \E m \in net : Deliver(m)
      PROVE  UNCHANGED db
  <2>1. CASE ExpireLease \/ BackoffElapses
    BY <2>1 DEF ExpireLease, BackoffElapses, At
  <2>2. CASE LoseLock \/ RemoteRestore \/ \E m \in net : Deliver(m)
    BY <2>2 DEF LoseLock, RemoteRestore, Deliver
  <2> QED BY <1>6, <2>1, <2>2
<1> QED BY <1>3, <1>4, <1>5, <1>6 DEF Next

(* The rows of the outbox are left to the publisher that sends them         *)
(* (claim_frame and finish_frame in bi_push.py): one row at a time has a    *)
(* lease, a publisher that comes back late writes nothing, and cleanup      *)
(* takes no payload a claim still needs, for any number of publishers that  *)
(* stall, die or lose the advisory lock.                                    *)
THEOREM Protects == Spec => SendingIsProtected
<1>1. Init => Protected
  <2> SUFFICES ASSUME Init PROVE Protected
    OBVIOUS
  <2>1. PICK m \in Manifest :
          db = [parts |-> m, acked |-> 0, man |-> Empty, issued |-> 0, force |-> FALSE,
                blocked |-> "", wait |-> FALSE, row |-> <<>>, frame |-> <<>>, payload |-> {}]
    BY DEF Init
  <2>2. db.row = <<>>
    BY <2>1
  <2>3. DOMAIN <<>> = {}
    OBVIOUS
  <2> QED BY <2>2, <2>3 DEF Protected, OneLiveLease, OpenHavePayload, Open, Having
<1>2. OutboxInv /\ Protected /\ [Next]_vars => Protected'
  <2> SUFFICES ASSUME OutboxInv, Protected, [Next]_vars PROVE Protected'
    OBVIOUS
  <2>1. CASE \E p \in Publishers : Claim(p)
    BY <2>1, ClaimProtects
  <2>2. CASE Next /\ \A p \in Publishers : ~Claim(p)
    BY <2>2, OthersProtect, KeepsProtected
  <2>3. CASE UNCHANGED vars
    BY <2>3, KeepsRefl, KeepsProtected DEF vars
  <2> QED BY <2>1, <2>2, <2>3
<1>3. OutboxInv /\ Protected /\ [Next]_vars => [OneLiveLease' /\ OpenHavePayload' /\ LeaseProtects]_vars
  <2> SUFFICES ASSUME OutboxInv, Protected, Next
               PROVE  OneLiveLease' /\ OpenHavePayload' /\ LeaseProtects
    OBVIOUS
  <2>1. OneLiveLease' /\ OpenHavePayload'
    BY <1>2 DEF Protected
  <2>2. ASSUME NEW s \in Having(db, "sending"), NEW p \in Publishers,
               db.row[s].live, db.row[s].owner # p, At(p, "wait"), ~At(p, "wait")'
        PROVE  db'.row[s] = db.row[s]
    <3>1. CASE Finish(p)
      <4>1. ~HoldsLease(db, proc[p].seq, p)
        BY <2>2 DEF HoldsLease, Protected, OneLiveLease, Having
      <4> QED BY <3>1, <4>1 DEF Finish, Write
    <3>2. CASE UNCHANGED db
      BY <3>2
    <3> QED BY <2>2, <3>1, <3>2, StopsWaiting
  <2> QED BY <2>1, <2>2 DEF LeaseProtects
<1> QED BY <1>1, <1>2, <1>3, Invariance, PTL DEF Spec, SendingIsProtected
=============================================================================
