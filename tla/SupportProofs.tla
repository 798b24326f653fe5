---------------------------- MODULE SupportProofs ----------------------------
(***************************************************************************)
(* Proofs about the components of Support, each for any sizes: what is     *)
(* assumed of its constants is the hypothesis of its theorem.  A theorem   *)
(* says of a component's own specification what it promises, and then of   *)
(* that of Support, where the component is one of several.                 *)
(***************************************************************************)
EXTENDS SupportInvariants, FiniteSetTheorems, SequenceTheorems, Induction, TLAPS

(* A behaviour is one of the chosen component.                             *)
LEMMA Starts ==
  ASSUME Init
  PROVE  /\ which = "pull" => Log!Init
         /\ which = "budget" => B!Init
         /\ which = "gate" => G!Init
         /\ IF which = "cache" THEN C!Init ELSE row = None
         /\ which = "months" => I!Init
         /\ which = "rules" => R!Init
         /\ which = "numbers" => Num!Init
         /\ which = "snapshot" => Snap!Init
BY DEF Init, CacheOff

LEMMA Steps ==
  ASSUME [Next]_all
  PROVE  /\ which' = which
         /\ which = "pull" => [Log!Next]_Log!vars
         /\ which = "budget" => [B!Next]_B!vars
         /\ which = "gate" => [G!Next]_G!vars
         /\ IF which = "cache" THEN [C!Next]_C!vars ELSE row' = row
         /\ which = "months" => [I!Next]_I!vars
         /\ which = "rules" => [R!Next]_R!vars
         /\ which = "numbers" => [Num!Next]_Num!vars
         /\ which = "snapshot" => [Snap!Next]_Snap!vars
<1>1. CASE Next BY <1>1 DEF Next, cache
<1>2. CASE UNCHANGED all
  BY <1>2 DEF all, pull, budget, gate, cache, months, rules, numbers, snapshot,
              Log!vars, B!vars, G!vars, C!vars, I!vars, R!vars, Num!vars, Snap!vars
<1> QED BY <1>1, <1>2

-----------------------------------------------------------------------------
(* RateGate. *)

LEMMA GateInit == ASSUME GateAssumption, G!Init PROVE GateInv
<1>1. 0 \in Nat /\ Interval \in Nat /\ MaxTime \in Nat BY DEF GateAssumption
<1>2. file \in Nat /\ clock \in Nat /\ early = FALSE /\ granted = None BY <1>1 DEF G!Init
<1>3. sender \in [Senders -> [pc : {"out", "loop", "locked"}, look : Nat]]
      /\ \A s \in Senders : sender[s].pc = "out"
  <2> DEFINE o == G!Out
  <2>1. o \in [pc : {"out", "loop", "locked"}, look : Nat] /\ o.pc = "out" BY DEF G!Out
  <2>2. sender = [s \in Senders |-> o] BY DEF G!Init
  <2> HIDE DEF o
  <2> QED BY <2>1, <2>2
<1> QED BY <1>2, <1>3 DEF GateInv

(* One sender moves on. *)
LEMMA GotoIs ==
  ASSUME GateInv, NEW s \in Senders, NEW pc \in {"out", "loop", "locked"}, NEW look \in Nat,
         G!Goto(s, pc, look)
  PROVE  /\ sender' \in [Senders -> [pc : {"out", "loop", "locked"}, look : Nat]]
         /\ sender'[s].pc = pc /\ sender'[s].look = look
         /\ \A r \in Senders : r # s => sender'[r] = sender[r]
<1> DEFINE m == [pc |-> pc, look |-> look]
<1>1. m \in [pc : {"out", "loop", "locked"}, look : Nat] /\ m.pc = pc /\ m.look = look OBVIOUS
<1>2. sender' = [sender EXCEPT ![s] = m] BY DEF G!Goto
<1> HIDE DEF m
<1> QED BY <1>1, <1>2 DEF GateInv

LEMMA GateStep ==
  ASSUME GateAssumption, GateInv, [G!Next]_(G!vars)
  PROVE  GateInv'
<1>0. /\ Interval \in Nat /\ None \notin Senders
      /\ clock \in Nat /\ file \in Nat /\ early = FALSE
      /\ sender \in [Senders -> [pc : {"out", "loop", "locked"}, look : Nat]]
      /\ granted # None => granted = file /\ granted <= clock
      /\ \A s \in Senders : sender[s].pc = "locked" =>
           holder = s /\ sender[s].look <= clock /\ (granted # None => granted <= sender[s].look)
  BY DEF GateInv, GateAssumption
<1>l. \A s \in Senders : sender[s].look \in Nat BY <1>0
<1>1. CASE G!Tick
  <2>1. clock' = clock + 1 /\ UNCHANGED <<file, holder, sender, granted, early>> BY <1>1 DEF G!Tick
  <2>2. clock' \in Nat /\ (granted # None => granted <= clock')
        /\ \A s \in Senders : sender[s].look <= clock => sender[s].look <= clock'
    BY <1>0, <1>l, <2>1
  <2> QED BY <1>0, <2>1, <2>2 DEF GateInv
<1>2. CASE G!Reboot
  <2>1. clock' = 0 /\ granted' = None /\ UNCHANGED <<file, early>>
        /\ sender' = [s \in Senders |-> G!Out]
    BY <1>2 DEF G!Reboot
  <2> DEFINE o == G!Out
  <2>2. o \in [pc : {"out", "loop", "locked"}, look : Nat] /\ o.pc = "out" BY DEF G!Out
  <2>3. sender' = [s \in Senders |-> o] BY <2>1
  <2> HIDE DEF o
  <2>4. sender' \in [Senders -> [pc : {"out", "loop", "locked"}, look : Nat]]
        /\ \A s \in Senders : sender'[s].pc # "locked"
    BY <2>2, <2>3
  <2> QED BY <1>0, <2>1, <2>4 DEF GateInv
<1>3. ASSUME NEW s \in Senders, G!Want(s) PROVE GateInv'
  <2>1. G!Goto(s, "loop", clock) /\ UNCHANGED <<clock, file, holder, granted, early>>
    BY <1>3 DEF G!Want
  <2>2. /\ sender' \in [Senders -> [pc : {"out", "loop", "locked"}, look : Nat]]
        /\ sender'[s].pc = "loop"
        /\ \A r \in Senders : r # s => sender'[r] = sender[r]
    BY <1>0, <2>1, GotoIs
  <2> QED BY <1>0, <2>1, <2>2 DEF GateInv
<1>4. ASSUME NEW s \in Senders, G!TakeLock(s) PROVE GateInv'
  <2>1. G!Goto(s, "locked", clock) /\ UNCHANGED <<clock, file, granted, early>>
        /\ holder = None /\ holder' = s
    BY <1>4 DEF G!TakeLock, G!Locked
  <2>2. /\ sender' \in [Senders -> [pc : {"out", "loop", "locked"}, look : Nat]]
        /\ sender'[s].look = clock
        /\ \A r \in Senders : r # s => sender'[r] = sender[r]
    BY <1>0, <2>1, GotoIs
  <2>3. \A r \in Senders : r # s => sender'[r].pc # "locked" BY <1>0, <2>1, <2>2
  <2> QED BY <1>0, <2>1, <2>2, <2>3 DEF GateInv
<1>5. ASSUME NEW s \in Senders, G!Grant(s) PROVE GateInv'
  <2>1. /\ sender[s].pc = "locked" /\ ~G!Delayed(sender[s].look)
        /\ file' = sender[s].look /\ granted' = sender[s].look
        /\ early' = (early \/ (granted # None /\ sender[s].look < granted + Interval))
        /\ G!Goto(s, "out", 0) /\ clock' = clock
    BY <1>5 DEF G!Grant, G!At
  <2>2. /\ sender' \in [Senders -> [pc : {"out", "loop", "locked"}, look : Nat]]
        /\ sender'[s].pc = "out"
        /\ \A r \in Senders : r # s => sender'[r] = sender[r]
    BY <1>0, <2>1, GotoIs
  <2>3. \A r \in Senders : sender'[r].pc # "locked" BY <1>0, <2>1, <2>2
  <2>4. ~(granted # None /\ sender[s].look < granted + Interval) BY <1>0, <2>1 DEF G!Delayed
  <2>5. early' = FALSE BY <1>0, <2>1, <2>4
  <2>6. file' \in Nat /\ file' <= clock BY <1>0, <1>l, <2>1
  <2> QED BY <1>0, <2>1, <2>2, <2>3, <2>5, <2>6 DEF GateInv
<1>6. ASSUME NEW s \in Senders, G!Wait(s) PROVE GateInv'
  <2>1. /\ G!Goto(s, "loop", file + Interval) /\ G!Unlock(s)
        /\ UNCHANGED <<clock, file, granted, early>> /\ sender[s].pc = "locked"
    BY <1>6 DEF G!Wait, G!At
  <2>2. /\ sender' \in [Senders -> [pc : {"out", "loop", "locked"}, look : Nat]]
        /\ sender'[s].pc = "loop"
        /\ \A r \in Senders : r # s => sender'[r] = sender[r]
    BY <1>0, <2>1, GotoIs
  <2>3. \A r \in Senders : sender'[r].pc # "locked" BY <1>0, <2>1, <2>2
  <2> QED BY <1>0, <2>1, <2>2, <2>3 DEF GateInv
<1>7. ASSUME NEW s \in Senders, G!Cancel(s) PROVE GateInv'
  <2>1. /\ G!Goto(s, "out", 0) /\ holder' = (IF holder = s THEN None ELSE holder)
        /\ UNCHANGED <<clock, file, granted, early>>
    BY <1>7 DEF G!Cancel, G!Unlock
  <2>2. /\ sender' \in [Senders -> [pc : {"out", "loop", "locked"}, look : Nat]]
        /\ sender'[s].pc = "out"
        /\ \A r \in Senders : r # s => sender'[r] = sender[r]
    BY <1>0, <2>1, GotoIs
  <2>3. \A r \in Senders : sender'[r].pc = "locked" => holder' = r BY <1>0, <2>1, <2>2
  <2> QED BY <1>0, <2>1, <2>2, <2>3 DEF GateInv
<1>8. CASE UNCHANGED G!vars BY <1>0, <1>8 DEF G!vars, GateInv
<1> QED BY <1>1, <1>2, <1>3, <1>4, <1>5, <1>6, <1>7, <1>8 DEF G!Next

(* Between two reboots the requests of all processes are an interval       *)
(* apart (_try_slot in dingtalk_rate.py), for any number of processes:  *)
(* the lock makes the reading of the clock and the writing of the file one *)
(* step, and a delay is waited for outside of it.                          *)
THEOREM RequestsSpaced ==
  GateAssumption => (G!Spec => []G!RequestsAreSpaced) /\ (Spec => []RequestsAreSpaced)
<1> SUFFICES ASSUME GateAssumption
             PROVE  (G!Spec => []G!RequestsAreSpaced) /\ (Spec => []RequestsAreSpaced)
  OBVIOUS
<1>1. G!Init => GateInv BY GateInit
<1>2. GateInv /\ [G!Next]_(G!vars) => GateInv' BY GateStep
<1>3. GateInv => G!RequestsAreSpaced BY DEF GateInv, G!RequestsAreSpaced
<1>4. G!Spec => []G!RequestsAreSpaced BY <1>1, <1>2, <1>3, PTL DEF G!Spec
<1> DEFINE Chosen == which = "gate" => GateInv
<1>5. Init => Chosen BY <1>1, Starts
<1>6. Chosen /\ [Next]_all => Chosen' BY <1>2, Steps
<1>7. Chosen => RequestsAreSpaced BY <1>3 DEF RequestsAreSpaced
<1>8. Spec => []RequestsAreSpaced
  <2> HIDE DEF Chosen
  <2> QED BY <1>5, <1>6, <1>7, PTL DEF Spec
<1> QED BY <1>4, <1>8

-----------------------------------------------------------------------------
(* ReadCache. *)

LEMMA CacheBasics ==
  ASSUME CacheAssumption, CacheInv, NEW p \in Processes
  PROVE  /\ cacheNow \in Nat /\ cacheFaults \in Nat /\ late = FALSE /\ RowOK(row, cacheNow)
         /\ mem \in [Processes -> Entry \cup {None}] /\ mem[p] \in Entry \cup {None}
         /\ reader \in [Processes -> Reader] /\ flight \in [Processes -> Flight]
         /\ reader[p] \in Reader /\ flight[p] \in Flight
         /\ ReaderOK(reader[p], cacheNow) /\ FlightOK(flight[p], cacheNow)
         /\ \A q \in Processes : Newest(row, q, flight[q])
         /\ flight = [flight EXCEPT ![p] = flight[p]] /\ reader = [reader EXCEPT ![p] = reader[p]]
         /\ None \notin Entry /\ None \notin Draft /\ None \notin Row /\ \A k \in Nat : None # <<p, k>>
         /\ TTL \in Nat /\ MaxAge \in Nat /\ 0 < MaxAge /\ TTL <= MaxAge
<1>1. None \notin Draft /\ None \notin Row /\ \A k \in Nat : <<p, k>> # None BY DEF CacheAssumption
<1>2. None \notin Entry
  <2>1. Entry \subseteq Draft BY DEF Entry, Draft
  <2> QED BY <1>1, <2>1
<1>3. TTL \in Nat /\ MaxAge \in Nat /\ 0 < MaxAge /\ TTL <= MaxAge BY DEF CacheAssumption
<1> QED BY <1>1, <1>2, <1>3 DEF CacheInv

LEMMA CacheScalars ==
  ASSUME CacheAssumption, CacheInv
  PROVE  /\ cacheNow \in Nat /\ cacheFaults \in Nat /\ late = FALSE
         /\ MaxAge \in Nat /\ 0 < MaxAge /\ TTL \in Nat /\ TTL <= MaxAge
         /\ mem \in [Processes -> Entry \cup {None}]
BY DEF CacheAssumption, CacheInv

LEMMA CacheRow ==
  ASSUME CacheAssumption, CacheInv, row # None
  PROVE  /\ row \in Row /\ row.entry \in Entry \cup {None}
         /\ row.entry # None => row.entry \in Entry /\ row.entry.read <= cacheNow
<1>1. row \in Row /\ (row.entry # None => row.entry.read <= cacheNow) BY DEF CacheInv, RowOK
<1>2. row.entry \in Entry \cup {None} BY <1>1 DEF Row
<1> QED BY <1>1, <1>2

(* One process moves; the row and its memory may change with it.           *)
LEMMA CacheMoves ==
  ASSUME CacheAssumption, CacheInv, NEW p \in Processes, NEW f, NEW x,
         cacheNow' = cacheNow, cacheFaults' \in Nat, late' = FALSE, mem' \in [Processes -> Entry \cup {None}],
         flight' = [flight EXCEPT ![p] = f], reader' = [reader EXCEPT ![p] = x],
         FlightOK(f, cacheNow), ReaderOK(x, cacheNow), RowOK(row', cacheNow), Newest(row', p, f),
         \A q \in Processes : q # p => Newest(row', q, flight[q])
  PROVE  CacheInv'
<1>1. f \in Flight /\ x \in Reader BY DEF FlightOK, ReaderOK
<1>2. /\ flight' \in [Processes -> Flight] /\ reader' \in [Processes -> Reader]
      /\ flight'[p] = f /\ reader'[p] = x
      /\ \A q \in Processes : q # p => flight'[q] = flight[q] /\ reader'[q] = reader[q]
  BY <1>1, CacheBasics
<1>3. \A q \in Processes : FlightOK(flight'[q], cacheNow) /\ ReaderOK(reader'[q], cacheNow)
  BY <1>2, CacheBasics
<1>4. \A q \in Processes : Newest(row', q, flight'[q]) BY <1>2
<1>5. cacheNow' \in Nat BY CacheBasics
<1> QED BY <1>2, <1>3, <1>4, <1>5 DEF CacheInv

LEMMA CacheInit == ASSUME CacheAssumption, C!Init PROVE CacheInv
<1> DEFINE z == 0
           f == [pc |-> "none", life |-> z, deadline |-> z, entry |-> None]
           x == [pc |-> "none", entry |-> None, start |-> z]
<1>1. /\ cacheNow = z /\ row = None /\ mem = [p \in Processes |-> None] /\ late = FALSE /\ cacheFaults = z
      /\ flight = [p \in Processes |-> f] /\ reader = [p \in Processes |-> x]
  BY DEF C!Init, C!NoFlight, C!NoReader
<1>2. z \in Nat /\ z <= z OBVIOUS
<1> HIDE DEF z
<1>3. f \in Flight /\ f.pc = "none" /\ f.entry = None /\ f.life = z BY <1>2 DEF Flight
<1>4. x \in Reader /\ x.start = z BY <1>2 DEF Reader
<1> HIDE DEF f, x
<1>5. FlightOK(f, z) /\ ReaderOK(x, z) /\ RowOK(row, z)
  BY <1>1, <1>2, <1>3, <1>4 DEF FlightOK, ReaderOK, RowOK
<1>6. \A p \in Processes : Newest(row, p, flight[p]) BY <1>1 DEF Newest
<1> QED BY <1>1, <1>2, <1>3, <1>4, <1>5, <1>6 DEF CacheInv

LEMMA CacheTick == ASSUME CacheAssumption, CacheInv, C!Tick PROVE CacheInv'
<1>1. /\ cacheNow' = cacheNow + 1 /\ UNCHANGED <<row, mem, flight, reader, late, cacheFaults>>
      /\ \A p \in Processes : flight[p].pc \notin {"lease", "publish", "failed", "landed"}
  BY DEF C!Tick, C!bounds
<1>2. cacheNow \in Nat /\ cacheNow + 1 \in Nat BY DEF CacheInv
<1>3. RowOK(row, cacheNow + 1)
  <2>1. RowOK(row, cacheNow) BY DEF CacheInv
  <2>2. row # None /\ row.entry # None => row.entry.read \in Nat
    <3>1. row # None => row \in Row BY <2>1 DEF RowOK
    <3>2. row # None /\ row.entry # None => row.entry \in Entry BY <3>1 DEF Row
    <3> QED BY <3>2 DEF Entry
  <2> QED BY <1>2, <2>1, <2>2 DEF RowOK
<1>4. \A p \in Processes : ReaderOK(reader[p], cacheNow + 1)
  <2>1. \A p \in Processes : reader[p] \in Reader /\ reader[p].start <= cacheNow
    BY DEF CacheInv, ReaderOK
  <2>2. \A p \in Processes : reader[p].start \in Nat BY <2>1 DEF Reader
  <2> QED BY <1>2, <2>1, <2>2 DEF ReaderOK
<1>5. \A p \in Processes : FlightOK(flight[p], cacheNow + 1)
  <2> SUFFICES ASSUME NEW p \in Processes PROVE FlightOK(flight[p], cacheNow + 1)
    OBVIOUS
  <2>1. FlightOK(flight[p], cacheNow) BY CacheBasics
  <2>2. flight[p].pc = "computing" => flight[p].entry.read \in Nat
    <3>1. flight[p].entry \in Draft \cup {None} BY <2>1 DEF FlightOK, Flight
    <3> QED BY <2>1, <3>1 DEF FlightOK, Draft
  <2> QED BY <1>1, <1>2, <2>1, <2>2 DEF FlightOK
<1> QED BY <1>1, <1>2, <1>3, <1>4, <1>5 DEF CacheInv

(* Steps of a flight that leave the row alone. *)
LEMMA FlightMoves ==
  ASSUME CacheAssumption, CacheInv, NEW p \in Processes, NEW f, FlightOK(f, cacheNow), Newest(row, p, f),
         flight' = [flight EXCEPT ![p] = f], mem' \in [Processes -> Entry \cup {None}], cacheFaults' \in Nat,
         UNCHANGED <<cacheNow, row, reader, late>>
  PROVE  CacheInv'
<1>1. reader' = [reader EXCEPT ![p] = reader[p]] /\ ReaderOK(reader[p], cacheNow) /\ RowOK(row, cacheNow)
      /\ \A q \in Processes : q # p => Newest(row, q, flight[q])
  BY CacheBasics
<1>2. row' = row /\ cacheNow' = cacheNow /\ late' = FALSE BY DEF CacheInv
<1> QED BY <1>1, <1>2, CacheMoves

LEMMA AtPlace ==
  ASSUME CacheAssumption, CacheInv, NEW p \in Processes,
         NEW pc \in {"none", "check", "lease", "compute", "failed"}, NEW e,
         pc = "failed" => e \in Draft \cup {None}, pc # "failed" => e = None,
         NEW life \in Nat, NEW deadline \in Nat
  PROVE  LET f == [pc |-> pc, life |-> life, deadline |-> deadline, entry |-> e]
         IN  FlightOK(f, cacheNow) /\ \A r : Newest(r, p, f)
<1> DEFINE f == [pc |-> pc, life |-> life, deadline |-> deadline, entry |-> e]
<1>1. f \in Flight /\ f.pc = pc /\ f.entry = e BY DEF Flight
<1> HIDE DEF f
<1>2. FlightOK(f, cacheNow) /\ \A r : Newest(r, p, f) BY <1>1 DEF FlightOK, Newest
<1> QED BY <1>2 DEF f

LEMMA FieldsOf ==
  ASSUME CacheAssumption, CacheInv, NEW p \in Processes
  PROVE  /\ flight[p] = [pc |-> flight[p].pc, life |-> flight[p].life,
                         deadline |-> flight[p].deadline, entry |-> flight[p].entry]
         /\ flight[p].life \in Nat /\ flight[p].deadline \in Nat
         /\ flight[p].entry \in Draft \cup {None}
         /\ \A pc \in Places : [flight EXCEPT ![p].pc = pc] =
              [flight EXCEPT ![p] = [pc |-> pc, life |-> flight[p].life,
                                     deadline |-> flight[p].deadline, entry |-> flight[p].entry]]
         /\ \A pc \in Places, e \in Draft \cup {None} : [flight EXCEPT ![p].pc = pc, ![p].entry = e] =
              [flight EXCEPT ![p] = [pc |-> pc, life |-> flight[p].life,
                                     deadline |-> flight[p].deadline, entry |-> e]]
<1>1. flight[p] \in Flight /\ flight \in [Processes -> Flight] BY CacheBasics
<1>2. flight[p] = [pc |-> flight[p].pc, life |-> flight[p].life,
                   deadline |-> flight[p].deadline, entry |-> flight[p].entry]
      /\ flight[p].life \in Nat /\ flight[p].deadline \in Nat
      /\ flight[p].entry \in Draft \cup {None}
  BY <1>1 DEF Flight
<1>3. ASSUME NEW pc \in Places, NEW e \in Draft \cup {None}
      PROVE  [flight EXCEPT ![p].pc = pc, ![p].entry = e] =
              [flight EXCEPT ![p] = [pc |-> pc, life |-> flight[p].life,
                                     deadline |-> flight[p].deadline, entry |-> e]]
  <2>1. [flight[p] EXCEPT !.pc = pc, !.entry = e] =
          [pc |-> pc, life |-> flight[p].life, deadline |-> flight[p].deadline, entry |-> e]
    <3> DEFINE g == [flight[p] EXCEPT !.pc = pc, !.entry = e]
               h == [pc |-> pc, life |-> flight[p].life, deadline |-> flight[p].deadline, entry |-> e]
    <3>1. g \in Flight /\ g.pc = pc /\ g.entry = e /\ g.life = flight[p].life /\ g.deadline = flight[p].deadline
      BY <1>1 DEF Flight, Places
    <3>2. h \in Flight /\ h.pc = pc /\ h.entry = e /\ h.life = flight[p].life /\ h.deadline = flight[p].deadline
      BY <1>2 DEF Flight, Places
    <3> HIDE DEF g, h
    <3>3. g = h BY <3>1, <3>2 DEF Flight
    <3> QED BY <3>3 DEF g, h
  <2>2. [flight EXCEPT ![p].pc = pc, ![p].entry = e] =
          [flight EXCEPT ![p] = [flight[p] EXCEPT !.pc = pc, !.entry = e]]
    BY <1>1
  <2> QED BY <2>1, <2>2
<1>4. ASSUME NEW pc \in Places
      PROVE  [flight EXCEPT ![p].pc = pc] =
              [flight EXCEPT ![p] = [pc |-> pc, life |-> flight[p].life,
                                     deadline |-> flight[p].deadline, entry |-> flight[p].entry]]
  <2>1. [flight[p] EXCEPT !.pc = pc] =
          [pc |-> pc, life |-> flight[p].life, deadline |-> flight[p].deadline, entry |-> flight[p].entry]
    BY <1>1 DEF Flight
  <2>2. [flight EXCEPT ![p].pc = pc] = [flight EXCEPT ![p] = [flight[p] EXCEPT !.pc = pc]] BY <1>1
  <2> QED BY <2>1, <2>2
<1> QED BY <1>2, <1>3, <1>4

(* A flight lands without a result, or with one that is young. *)
LEMMA LandsOn ==
  ASSUME CacheAssumption, CacheInv, NEW p \in Processes, NEW e \in Entry \cup {None},
         e = None \/ (e \in Entry /\ cacheNow - e.gen < MaxAge),
         NEW f \in Flight, f.pc = "landed", f.entry = e
  PROVE  FlightOK(f, cacheNow) /\ \A r : Newest(r, p, f)
BY DEF FlightOK, Newest

LEMMA CacheFindFresh ==
  ASSUME CacheAssumption, CacheInv, NEW p \in Processes, C!FindFresh(p) PROVE CacheInv'
<1>1. /\ row # None /\ row.entry # None /\ cacheNow - row.entry.gen < TTL
      /\ mem' = [mem EXCEPT ![p] = row.entry]
      /\ flight' = [flight EXCEPT ![p].pc = "landed", ![p].entry = row.entry]
      /\ UNCHANGED <<cacheNow, row, reader, late, cacheFaults>>
  BY DEF C!FindFresh, C!Stored, C!Age, C!Land, C!bounds
<1>2. row.entry \in Entry BY <1>1, CacheRow
<1>3. cacheNow - row.entry.gen < MaxAge
  <2>1. row.entry.gen \in Nat BY <1>2 DEF Entry
  <2>2. cacheNow - row.entry.gen < TTL BY <1>1
  <2> QED BY <2>1, <2>2, CacheScalars
<1> DEFINE f == [pc |-> "landed", life |-> flight[p].life, deadline |-> flight[p].deadline, entry |-> row.entry]
<1>4. FlightOK(f, cacheNow) /\ Newest(row, p, f)
  <2>1. row.entry \in Draft BY <1>2 DEF Entry, Draft
  <2>2. f \in Flight /\ f.pc = "landed" /\ f.entry = row.entry BY <2>1, FieldsOf DEF Flight
  <2> HIDE DEF f
  <2> QED BY <1>2, <1>3, <2>2, LandsOn
<1>5. flight' = [flight EXCEPT ![p] = f]
  <2>1. row.entry \in Draft BY <1>2 DEF Entry, Draft
  <2> QED BY <1>1, <2>1, FieldsOf DEF Places
<1> HIDE DEF f
<1>6. mem' \in [Processes -> Entry \cup {None}] /\ cacheFaults' \in Nat BY <1>1, <1>2, CacheBasics
<1> QED BY <1>1, <1>4, <1>5, <1>6, FlightMoves

LEMMA CacheInsert ==
  ASSUME CacheAssumption, CacheInv, NEW p \in Processes, C!Insert(p) PROVE CacheInv'
<1>1. /\ flight[p].pc = "check"
      /\ row' = IF row = None THEN C!NewRow ELSE row
      /\ flight' = [flight EXCEPT ![p].pc = "lease"] /\ UNCHANGED <<cacheNow, mem, reader, late, cacheFaults>>
  BY DEF C!Insert, C!Fly, C!Flying, C!bounds
<1>2. flight[p].entry = None BY <1>1, CacheBasics DEF FlightOK
<1> DEFINE f == [pc |-> "lease", life |-> flight[p].life, deadline |-> flight[p].deadline, entry |-> None]
<1>3. FlightOK(f, cacheNow) /\ \A r : Newest(r, p, f) BY FieldsOf, AtPlace
<1>4. flight' = [flight EXCEPT ![p] = f] BY <1>1, <1>2, FieldsOf DEF Places
<1> HIDE DEF f
<1>5. RowOK(row', cacheNow)
  <2>1. C!NewRow \in Row /\ C!NewRow.entry = None BY DEF C!NewRow, Row
  <2> QED BY <1>1, <2>1, CacheBasics DEF RowOK
<1>6. \A q \in Processes : Newest(row', q, flight[q])
  <2>1. C!NewRow.entry = None BY DEF C!NewRow
  <2> QED BY <1>1, <2>1, CacheBasics DEF Newest
<1>7. reader' = [reader EXCEPT ![p] = reader[p]] /\ ReaderOK(reader[p], cacheNow) /\ late' = FALSE
      /\ mem' \in [Processes -> Entry \cup {None}] /\ cacheFaults' \in Nat
  BY <1>1, CacheBasics
<1> QED BY <1>1, <1>3, <1>4, <1>5, <1>6, <1>7, CacheMoves

LEMMA CacheTakeLease ==
  ASSUME CacheAssumption, CacheInv, NEW p \in Processes, C!TakeLease(p) PROVE CacheInv'
<1>1. /\ flight[p].pc = "lease" /\ row # None
      /\ row' = [row EXCEPT !.owner = <<p, flight[p].life>>, !.until = cacheNow + Lease]
      /\ flight' = [flight EXCEPT ![p].pc = "compute"] /\ UNCHANGED <<cacheNow, mem, reader, late, cacheFaults>>
  BY DEF C!TakeLease, C!LeaseFree, C!Fly, C!Flying, C!Me, C!bounds
<1>2. flight[p].entry = None BY <1>1, CacheBasics DEF FlightOK
<1> DEFINE f == [pc |-> "compute", life |-> flight[p].life, deadline |-> flight[p].deadline, entry |-> None]
<1>3. FlightOK(f, cacheNow) /\ \A r : Newest(r, p, f) BY FieldsOf, AtPlace
<1>4. flight' = [flight EXCEPT ![p] = f] BY <1>1, <1>2, FieldsOf DEF Places
<1> HIDE DEF f
<1>5. row \in Row /\ (row.entry # None => row.entry.read <= cacheNow) BY <1>1, CacheBasics DEF RowOK
<1> DEFINE o == <<p, flight[p].life>>
           u == cacheNow + Lease
<1>6. o \in Processes \X Nat /\ u \in Nat
  <2>1. cacheNow \in Nat /\ flight[p].life \in Nat BY FieldsOf, CacheBasics
  <2>2. Lease \in Nat BY DEF CacheAssumption
  <2> QED BY <2>1, <2>2
<1>7. row' = [row EXCEPT !.owner = o, !.until = u] BY <1>1
<1> HIDE DEF o, u
<1>8. row' \in Row /\ row'.entry = row.entry /\ row'.owner = o BY <1>5, <1>6, <1>7 DEF Row
<1>9. RowOK(row', cacheNow) BY <1>5, <1>8 DEF RowOK
<1>10. \A q \in Processes : q # p => Newest(row', q, flight[q])
  <2> SUFFICES ASSUME NEW q \in Processes, q # p PROVE row'.owner # <<q, flight[q].life>>
    BY DEF Newest
  <2> QED BY <1>8 DEF o
<1>11. reader' = [reader EXCEPT ![p] = reader[p]] /\ ReaderOK(reader[p], cacheNow) /\ late' = FALSE
      /\ mem' \in [Processes -> Entry \cup {None}] /\ cacheFaults' \in Nat
  BY <1>1, CacheBasics
<1> QED BY <1>1, <1>3, <1>4, <1>9, <1>10, <1>11, CacheMoves

LEMMA CacheSleep ==
  ASSUME CacheAssumption, CacheInv, NEW p \in Processes, C!Sleep(p) PROVE CacheInv'
<1> DEFINE pc == IF cacheNow >= flight[p].deadline THEN "landed" ELSE "check"
<1>1. /\ flight[p].pc = "lease"
      /\ flight' = [flight EXCEPT ![p].pc = pc] /\ UNCHANGED <<cacheNow, row, mem, reader, late, cacheFaults>>
  BY DEF C!Sleep, C!Fly, C!Flying, C!bounds
<1>2. flight[p].entry = None /\ pc \in {"landed", "check"} BY <1>1, CacheBasics DEF FlightOK
<1> HIDE DEF pc
<1> DEFINE f == [pc |-> pc, life |-> flight[p].life, deadline |-> flight[p].deadline, entry |-> None]
<1>3. f \in Flight /\ f.pc = pc /\ f.entry = None BY <1>2, FieldsOf DEF Flight
<1>4. flight' = [flight EXCEPT ![p] = f] BY ZenonT(30), <1>1, <1>2, FieldsOf DEF Places
<1> HIDE DEF f
<1>5. FlightOK(f, cacheNow) /\ Newest(row, p, f) BY <1>2, <1>3 DEF FlightOK, Newest
<1>6. mem' \in [Processes -> Entry \cup {None}] /\ cacheFaults' \in Nat BY <1>1, CacheBasics
<1> QED BY <1>1, <1>4, <1>5, <1>6, FlightMoves

(* What is read now is read no earlier than what the row has. *)
LEMMA CacheCompute ==
  ASSUME CacheAssumption, CacheInv, NEW p \in Processes, C!Compute(p) PROVE CacheInv'
<1> DEFINE e == [read |-> cacheNow, gen |-> None]
           f == [pc |-> "computing", life |-> flight[p].life, deadline |-> flight[p].deadline, entry |-> e]
<1>1. /\ flight' = [flight EXCEPT ![p].pc = "computing", ![p].entry = e]
      /\ UNCHANGED <<cacheNow, row, mem, reader, late, cacheFaults>>
  BY DEF C!Compute, C!bounds
<1>2. e \in Draft /\ e.read = cacheNow /\ cacheNow \in Nat BY CacheBasics DEF Draft
<1> HIDE DEF e
<1>3. f \in Flight /\ f.pc = "computing" /\ f.entry = e BY <1>2, FieldsOf DEF Flight
<1>4. flight' = [flight EXCEPT ![p] = f] BY <1>1, <1>2, FieldsOf DEF Places
<1> HIDE DEF f
<1>5. FlightOK(f, cacheNow)
  <2>1. e # None BY <1>2, CacheBasics
  <2> QED BY <1>2, <1>3, <2>1 DEF FlightOK
<1>6. Newest(row, p, f) BY <1>2, <1>3, CacheBasics DEF Newest, RowOK
<1>7. mem' \in [Processes -> Entry \cup {None}] /\ cacheFaults' \in Nat BY <1>1, CacheBasics
<1> QED BY <1>1, <1>4, <1>5, <1>6, <1>7, FlightMoves

LEMMA CacheComputed ==
  ASSUME CacheAssumption, CacheInv, NEW p \in Processes, C!Computed(p) PROVE CacheInv'
<1>1. /\ flight[p].pc = "computing"
      /\ flight' = [flight EXCEPT ![p].pc = "publish", ![p].entry.gen = cacheNow]
      /\ UNCHANGED <<cacheNow, row, mem, reader, late, cacheFaults>>
  BY DEF C!Computed, C!Flying, C!bounds
<1> DEFINE e == [flight[p].entry EXCEPT !.gen = cacheNow]
           f == [pc |-> "publish", life |-> flight[p].life, deadline |-> flight[p].deadline, entry |-> e]
<1>2. flight[p].entry \in Draft /\ flight[p].entry.read <= cacheNow
  BY <1>1, CacheBasics, FieldsOf DEF FlightOK
<1>3. e \in Entry /\ e \in Draft /\ e.read = flight[p].entry.read /\ e.gen = cacheNow
  <2>1. cacheNow \in Nat BY CacheBasics
  <2> QED BY <1>2, <2>1 DEF Entry, Draft
<1>4. flight' = [flight EXCEPT ![p].pc = "publish", ![p].entry = e] BY <1>1
<1> HIDE DEF e
<1>5. f \in Flight /\ f.pc = "publish" /\ f.entry = e /\ f.life = flight[p].life
  BY <1>3, FieldsOf DEF Flight
<1>6. flight' = [flight EXCEPT ![p] = f] BY <1>3, <1>4, FieldsOf DEF Places
<1> HIDE DEF f
<1>7. FlightOK(f, cacheNow) BY <1>2, <1>3, <1>5 DEF FlightOK
<1>8. Newest(row, p, f)
  <2>1. Newest(row, p, flight[p]) BY CacheBasics
  <2> QED BY <1>1, <1>3, <1>5, <2>1 DEF Newest
<1>9. mem' \in [Processes -> Entry \cup {None}] /\ cacheFaults' \in Nat BY <1>1, CacheBasics
<1> QED BY <1>1, <1>6, <1>7, <1>8, <1>9, FlightMoves

LEMMA CachePublish ==
  ASSUME CacheAssumption, CacheInv, NEW p \in Processes, C!Publish(p) PROVE CacheInv'
<1> DEFINE e == flight[p].entry
           f == [pc |-> "landed", life |-> flight[p].life, deadline |-> flight[p].deadline, entry |-> e]
<1>1. /\ flight[p].pc = "publish" /\ row' = [entry |-> e, owner |-> None, until |-> None]
      /\ mem' = [mem EXCEPT ![p] = e]
      /\ flight' = [flight EXCEPT ![p].pc = "landed", ![p].entry = e]
      /\ UNCHANGED <<cacheNow, reader, late, cacheFaults>>
  BY DEF C!Publish, C!Land, C!Flying, C!bounds
<1>2. e \in Entry /\ e \in Draft /\ e.read <= cacheNow /\ e.gen = cacheNow
  <2>1. e \in Entry /\ e.read <= cacheNow /\ e.gen = cacheNow BY <1>1, CacheBasics DEF FlightOK
  <2> QED BY <2>1 DEF Entry, Draft
<1> HIDE DEF e
<1>3. f \in Flight /\ f.pc = "landed" /\ f.entry = e BY <1>2, FieldsOf DEF Flight
<1>4. flight' = [flight EXCEPT ![p] = f] BY <1>1, <1>2, FieldsOf DEF Places
<1> HIDE DEF f
<1>5. FlightOK(f, cacheNow) /\ \A r : Newest(r, p, f)
  <2>1. cacheNow - e.gen < MaxAge BY <1>2, CacheScalars
  <2> QED BY <1>2, <1>3, <2>1, LandsOn
<1>6. RowOK(row', cacheNow) /\ \A q \in Processes : Newest(row', q, flight[q])
  <2>1. row' \in Row /\ row'.entry = e /\ row'.owner = None BY <1>1, <1>2 DEF Row
  <2>2. RowOK(row', cacheNow) BY <1>2, <2>1 DEF RowOK
  <2>3. \A q \in Processes : row'.owner # <<q, flight[q].life>>
    <3> SUFFICES ASSUME NEW q \in Processes PROVE row'.owner # <<q, flight[q].life>>
      OBVIOUS
    <3> QED BY <2>1, FieldsOf, CacheBasics
  <2> QED BY <2>2, <2>3 DEF Newest
<1>7. reader' = [reader EXCEPT ![p] = reader[p]] /\ ReaderOK(reader[p], cacheNow) /\ late' = FALSE
      /\ mem' \in [Processes -> Entry \cup {None}] /\ cacheFaults' \in Nat
  BY <1>1, <1>2, CacheBasics
<1> QED BY <1>1, <1>4, <1>5, <1>6, <1>7, CacheMoves

(* A refresh that failed, or found its lease taken. *)
LEMMA CacheFails ==
  ASSUME CacheAssumption, CacheInv, NEW p \in Processes, C!LeaseLost(p) \/ C!ComputeFails(p)
  PROVE  CacheInv'
<1> DEFINE f == [pc |-> "failed", life |-> flight[p].life, deadline |-> flight[p].deadline,
                 entry |-> flight[p].entry]
<1>1. /\ flight' = [flight EXCEPT ![p].pc = "failed"] /\ cacheFaults' \in {cacheFaults, cacheFaults + 1}
      /\ UNCHANGED <<cacheNow, row, mem, reader, late>>
  BY DEF C!LeaseLost, C!ComputeFails, C!Fly, C!bounds
<1>2. f \in Flight /\ f.pc = "failed" BY FieldsOf DEF Flight
<1>3. flight' = [flight EXCEPT ![p] = f] BY <1>1, FieldsOf DEF Places
<1> HIDE DEF f
<1>4. FlightOK(f, cacheNow) /\ Newest(row, p, f) BY <1>2 DEF FlightOK, Newest
<1>5. mem' \in [Processes -> Entry \cup {None}] /\ cacheFaults' \in Nat
  <2>1. cacheFaults + 1 \in Nat BY CacheScalars
  <2> QED BY <1>1, <2>1, CacheScalars
<1> QED BY <1>1, <1>3, <1>4, <1>5, FlightMoves

LEMMA CacheRelease ==
  ASSUME CacheAssumption, CacheInv, NEW p \in Processes, C!Release(p) PROVE CacheInv'
<1> DEFINE f == [pc |-> "landed", life |-> flight[p].life, deadline |-> flight[p].deadline, entry |-> None]
<1>1. /\ row' = IF C!Mine(p) THEN [row EXCEPT !.owner = None, !.until = None] ELSE row
      /\ flight' = [flight EXCEPT ![p].pc = "landed", ![p].entry = None]
      /\ UNCHANGED <<cacheNow, mem, reader, late, cacheFaults>>
      /\ C!Mine(p) => row # None
  BY DEF C!Release, C!Mine, C!bounds
<1>2. f \in Flight /\ f.pc = "landed" /\ f.entry = None BY FieldsOf DEF Flight
<1>3. flight' = [flight EXCEPT ![p] = f] BY <1>1, FieldsOf DEF Places
<1> HIDE DEF f
<1>4. FlightOK(f, cacheNow) /\ \A r : Newest(r, p, f) BY <1>2, LandsOn
<1>5. RowOK(row', cacheNow) /\ \A q \in Processes : Newest(row', q, flight[q])
  <2>1. CASE C!Mine(p)
    <3>1. row \in Row /\ row' = [row EXCEPT !.owner = None, !.until = None]
             /\ (row.entry # None => row.entry.read <= cacheNow)
      BY <1>1, <2>1, CacheRow
    <3>2. row' \in Row /\ row'.entry = row.entry /\ row'.owner = None BY <3>1 DEF Row
    <3>3. RowOK(row', cacheNow) BY <3>1, <3>2 DEF RowOK
    <3>4. \A q \in Processes : row'.owner # <<q, flight[q].life>>
      <4> SUFFICES ASSUME NEW q \in Processes PROVE row'.owner # <<q, flight[q].life>>
        OBVIOUS
      <4> QED BY <3>2, FieldsOf, CacheBasics
    <3> QED BY <3>3, <3>4 DEF Newest
  <2>2. CASE ~C!Mine(p)
    <3>1. row' = row /\ RowOK(row, cacheNow) BY <1>1, <2>2 DEF CacheInv
    <3>2. \A q \in Processes : Newest(row, q, flight[q]) BY DEF CacheInv
    <3> QED BY <3>1, <3>2
  <2> QED BY <2>1, <2>2
<1>6. reader' = [reader EXCEPT ![p] = reader[p]] /\ ReaderOK(reader[p], cacheNow) /\ late' = FALSE
      /\ mem' \in [Processes -> Entry \cup {None}] /\ cacheFaults' \in Nat
  BY <1>1, CacheBasics
<1> QED BY <1>1, <1>3, <1>4, <1>5, <1>6, CacheMoves

(* A request starts a flight, or shares the one its process has. *)
LEMMA LaunchIs ==
  ASSUME CacheAssumption, CacheInv, NEW p \in Processes, C!Launch(p)
  PROVE  \E f \in Flight : /\ flight' = [flight EXCEPT ![p] = f]
                           /\ FlightOK(f, cacheNow) /\ Newest(row, p, f)
<1>1. CASE flight[p].pc = "none"
  <2> DEFINE d == cacheNow + Patience
             f == [pc |-> "check", life |-> cacheFaults, deadline |-> d, entry |-> None]
  <2>1. flight' = [flight EXCEPT ![p] = f] BY <1>1 DEF C!Launch, C!Flying
  <2>2. d \in Nat /\ cacheFaults \in Nat
    <3>1. Patience \in Nat BY DEF CacheAssumption
    <3> QED BY <3>1, CacheScalars
  <2> HIDE DEF d
  <2>3. f \in Flight /\ f.pc = "check" /\ f.entry = None BY <2>2 DEF Flight
  <2> HIDE DEF f
  <2>4. FlightOK(f, cacheNow) /\ Newest(row, p, f) BY <2>3 DEF FlightOK, Newest
  <2> QED BY <2>1, <2>3, <2>4
<1>2. CASE flight[p].pc # "none"
  <2>1. flight' = flight BY <1>2 DEF C!Launch, C!Flying
  <2> QED BY <2>1, CacheBasics
<1> QED BY <1>1, <1>2

LEMMA NoReaderIs ==
  ASSUME CacheAssumption, CacheInv PROVE ReaderOK(C!NoReader, cacheNow)
<1> DEFINE z == 0
           x == [pc |-> "none", entry |-> None, start |-> z]
<1>1. C!NoReader = x BY DEF C!NoReader
<1>2. cacheNow \in Nat /\ z \in Nat /\ z <= cacheNow BY CacheScalars
<1> HIDE DEF z
<1>3. x \in Reader /\ x.start = z BY <1>2 DEF Reader
<1> HIDE DEF x
<1> QED BY <1>1, <1>2, <1>3 DEF ReaderOK

(* A reader moves while the row stays. *)
LEMMA ReaderMoves ==
  ASSUME CacheAssumption, CacheInv, NEW p \in Processes, NEW f, NEW x,
         FlightOK(f, cacheNow), Newest(row, p, f), ReaderOK(x, cacheNow),
         flight' = [flight EXCEPT ![p] = f], reader' = [reader EXCEPT ![p] = x],
         mem' \in [Processes -> Entry \cup {None}], late' = FALSE, UNCHANGED <<cacheNow, row, cacheFaults>>
  PROVE  CacheInv'
<1>1. RowOK(row, cacheNow) /\ \A q \in Processes : q # p => Newest(row, q, flight[q])
  BY DEF CacheInv
<1>2. row' = row /\ cacheNow' = cacheNow /\ cacheFaults' \in Nat BY CacheScalars
<1> QED BY <1>1, <1>2, CacheMoves

LEMMA ReaderOnly ==
  ASSUME CacheAssumption, CacheInv, NEW p \in Processes, NEW x, ReaderOK(x, cacheNow),
         reader' = [reader EXCEPT ![p] = x], flight' = flight,
         mem' \in [Processes -> Entry \cup {None}], late' = FALSE, UNCHANGED <<cacheNow, row, cacheFaults>>
  PROVE  CacheInv'
<1>1. flight' = [flight EXCEPT ![p] = flight[p]] /\ FlightOK(flight[p], cacheNow) /\ Newest(row, p, flight[p])
  BY CacheBasics
<1> QED BY <1>1, ReaderMoves

LEMMA CacheRequest ==
  ASSUME CacheAssumption, CacheInv, NEW p \in Processes, C!Request(p) PROVE CacheInv'
<1> DEFINE pc == IF mem[p] = None /\ C!Stored THEN "load" ELSE "read"
           e == IF mem[p] # None THEN mem[p] ELSE IF C!Stored THEN row.entry ELSE None
           x == [pc |-> pc, entry |-> e, start |-> cacheNow]
<1>1. /\ reader' = [reader EXCEPT ![p] = x]
      /\ UNCHANGED <<cacheNow, row, mem, flight, late, cacheFaults>>
  BY DEF C!Request
<1>2. pc \in {"load", "read"} /\ e \in Entry \cup {None} /\ cacheNow \in Nat
  <2>1. C!Stored => row.entry \in Entry BY CacheRow DEF C!Stored
  <2>2. mem[p] \in Entry \cup {None} BY CacheScalars
  <2> QED BY <2>1, <2>2, CacheScalars
<1> HIDE DEF pc, e
<1>3. x \in Reader /\ x.start = cacheNow BY <1>2 DEF Reader
<1> HIDE DEF x
<1>4. ReaderOK(x, cacheNow) BY <1>2, <1>3 DEF ReaderOK
<1>5. mem' \in [Processes -> Entry \cup {None}] /\ late' = FALSE BY <1>1, CacheScalars
<1> QED BY <1>1, <1>4, <1>5, ReaderOnly

(* A reader goes on with what it has. *)
LEMMA ReaderGoesOn ==
  ASSUME CacheAssumption, CacheInv, NEW p \in Processes, NEW pc \in {"read", "wait"},
         NEW x, x = [reader[p] EXCEPT !.pc = pc]
  PROVE  ReaderOK(x, cacheNow) /\ [reader EXCEPT ![p].pc = pc] = [reader EXCEPT ![p] = x]
<1>1. reader[p] \in Reader /\ reader[p].start <= cacheNow BY CacheBasics DEF ReaderOK
<1>2. x \in Reader /\ x.start = reader[p].start BY <1>1 DEF Reader
<1> QED BY <1>1, <1>2 DEF ReaderOK

LEMMA CacheLoad ==
  ASSUME CacheAssumption, CacheInv, NEW p \in Processes, C!Load(p) PROVE CacheInv'
<1>1. /\ mem' = [mem EXCEPT ![p] = reader[p].entry] /\ reader' = [reader EXCEPT ![p].pc = "read"]
      /\ UNCHANGED <<cacheNow, row, flight, late, cacheFaults>>
  BY DEF C!Load, C!bounds
<1> DEFINE x == [reader[p] EXCEPT !.pc = "read"]
<1>2. ReaderOK(x, cacheNow) /\ reader' = [reader EXCEPT ![p] = x] BY <1>1, ReaderGoesOn
<1> HIDE DEF x
<1>3. mem' \in [Processes -> Entry \cup {None}] /\ late' = FALSE
  <2>1. reader[p].entry \in Entry \cup {None}
    <3>1. reader[p] \in Reader BY CacheBasics
    <3> QED BY <3>1 DEF Reader
  <2> QED BY <1>1, <2>1, CacheScalars
<1> QED BY <1>1, <1>2, <1>3, ReaderOnly

(* An entry that is young enough now was young enough when the request came. *)
LEMMA AnswerIs ==
  ASSUME CacheAssumption, CacheInv, NEW p \in Processes, NEW e \in Entry, cacheNow - e.gen < MaxAge,
         C!Answer(p, e)
  PROVE  late' = FALSE /\ reader' = [reader EXCEPT ![p] = C!NoReader]
<1>1. late' = (late \/ reader[p].start - e.gen >= MaxAge) /\ reader' = [reader EXCEPT ![p] = C!NoReader]
  BY DEF C!Answer
<1>2. e.gen \in Nat BY DEF Entry
<1>3. reader[p].start <= cacheNow /\ reader[p].start \in Nat
  <2>1. reader[p] \in Reader /\ reader[p].start <= cacheNow BY CacheBasics DEF ReaderOK
  <2> QED BY <2>1 DEF Reader
<1>4. ~(reader[p].start - e.gen >= MaxAge) BY <1>2, <1>3, CacheScalars
<1> QED BY <1>1, <1>4, CacheScalars

LEMMA CacheHit ==
  ASSUME CacheAssumption, CacheInv, NEW p \in Processes, C!Hit(p) PROVE CacheInv'
<1> DEFINE e == reader[p].entry
<1>1. /\ e # None /\ cacheNow - e.gen < TTL /\ C!Answer(p, e)
      /\ UNCHANGED <<cacheNow, row, mem, flight, cacheFaults>>
  BY DEF C!Hit, C!Age, C!bounds
<1>2. e \in Entry
  <2>1. reader[p] \in Reader BY CacheBasics
  <2>2. e \in Entry \cup {None} BY <2>1 DEF Reader
  <2> QED BY <1>1, <2>2
<1> HIDE DEF e
<1>3. cacheNow - e.gen < MaxAge
  <2>1. e.gen \in Nat BY <1>2 DEF Entry
  <2> QED BY <1>1, <2>1, CacheScalars
<1>4. late' = FALSE /\ reader' = [reader EXCEPT ![p] = C!NoReader] BY <1>1, <1>2, <1>3, AnswerIs
<1>5. mem' \in [Processes -> Entry \cup {None}] BY <1>1, CacheScalars
<1> QED BY <1>1, <1>4, <1>5, NoReaderIs, ReaderOnly

LEMMA CacheStale ==
  ASSUME CacheAssumption, CacheInv, NEW p \in Processes, C!Stale(p) PROVE CacheInv'
<1> DEFINE e == reader[p].entry
<1>1. /\ e # None /\ cacheNow - e.gen < MaxAge /\ C!Answer(p, e) /\ C!Launch(p)
      /\ UNCHANGED <<cacheNow, row, mem, cacheFaults>>
  BY DEF C!Stale, C!Age, C!bounds
<1>2. e \in Entry
  <2>1. reader[p] \in Reader BY CacheBasics
  <2>2. e \in Entry \cup {None} BY <2>1 DEF Reader
  <2> QED BY <1>1, <2>2
<1> HIDE DEF e
<1>3. late' = FALSE /\ reader' = [reader EXCEPT ![p] = C!NoReader] BY <1>1, <1>2, AnswerIs
<1>4. mem' \in [Processes -> Entry \cup {None}] BY <1>1, CacheScalars
<1>5. PICK f \in Flight : /\ flight' = [flight EXCEPT ![p] = f]
                          /\ FlightOK(f, cacheNow) /\ Newest(row, p, f)
  BY <1>1, LaunchIs
<1> QED BY <1>1, <1>3, <1>4, <1>5, NoReaderIs, ReaderMoves

LEMMA CacheMiss ==
  ASSUME CacheAssumption, CacheInv, NEW p \in Processes, C!Miss(p) PROVE CacheInv'
<1>1. /\ C!Launch(p) /\ reader' = [reader EXCEPT ![p].pc = "wait"]
      /\ UNCHANGED <<cacheNow, row, mem, late, cacheFaults>>
  BY DEF C!Miss, C!bounds
<1> DEFINE x == [reader[p] EXCEPT !.pc = "wait"]
<1>2. ReaderOK(x, cacheNow) /\ reader' = [reader EXCEPT ![p] = x] BY <1>1, ReaderGoesOn
<1> HIDE DEF x
<1>3. mem' \in [Processes -> Entry \cup {None}] /\ late' = FALSE BY <1>1, CacheScalars
<1>4. PICK f \in Flight : /\ flight' = [flight EXCEPT ![p] = f]
                          /\ FlightOK(f, cacheNow) /\ Newest(row, p, f)
  BY <1>1, LaunchIs
<1> QED BY <1>1, <1>2, <1>3, <1>4, ReaderMoves

LEMMA NoFlightIs ==
  ASSUME CacheAssumption, CacheInv
  PROVE  FlightOK(C!NoFlight, cacheNow) /\ \A r, p : Newest(r, p, C!NoFlight)
<1> DEFINE z == 0
           f == [pc |-> "none", life |-> z, deadline |-> z, entry |-> None]
<1>1. C!NoFlight = f BY DEF C!NoFlight
<1>2. z \in Nat OBVIOUS
<1> HIDE DEF z
<1>3. f \in Flight /\ f.pc = "none" /\ f.entry = None BY <1>2 DEF Flight
<1> HIDE DEF f
<1>4. FlightOK(f, cacheNow) /\ \A r, p : Newest(r, p, f) BY <1>3 DEF FlightOK, Newest
<1> QED BY <1>1, <1>4

(* What landed is young: the flight that waits for its readers stops the clock. *)
LEMMA CacheLanded ==
  ASSUME CacheAssumption, CacheInv, NEW p \in Processes, C!Landed(p) PROVE CacheInv'
<1> DEFINE e == flight[p].entry
<1>1. /\ flight[p].pc = "landed" /\ flight' = [flight EXCEPT ![p] = C!NoFlight]
      /\ UNCHANGED <<cacheNow, row, mem, cacheFaults>>
  BY DEF C!Landed, C!Flying, C!bounds
<1>2. mem' \in [Processes -> Entry \cup {None}] /\ late = FALSE BY <1>1, CacheScalars
<1>3. CASE C!Reading(p, "wait") /\ e # None
  <2>1. C!Answer(p, e) BY <1>3 DEF C!Landed, C!Result
  <2>2. e \in Entry /\ cacheNow - e.gen < MaxAge BY <1>1, <1>3, CacheBasics DEF FlightOK
  <2> HIDE DEF e
  <2>3. late' = FALSE /\ reader' = [reader EXCEPT ![p] = C!NoReader] BY <2>1, <2>2, AnswerIs
  <2> QED BY <1>1, <1>2, <2>3, NoReaderIs, NoFlightIs, ReaderMoves
<1>4. CASE ~(C!Reading(p, "wait") /\ e # None)
  <2>1. late' = late /\ reader' = IF C!Reading(p, "wait") THEN [reader EXCEPT ![p] = C!NoReader] ELSE reader
    BY <1>4 DEF C!Landed, C!Result
  <2>2. \E x : ReaderOK(x, cacheNow) /\ reader' = [reader EXCEPT ![p] = x]
    <3>1. CASE C!Reading(p, "wait") BY <2>1, <3>1, NoReaderIs
    <3>2. CASE ~C!Reading(p, "wait")
      <4>1. reader' = reader /\ reader = [reader EXCEPT ![p] = reader[p]] /\ ReaderOK(reader[p], cacheNow)
        BY <2>1, <3>2, CacheBasics
      <4> QED BY <4>1
    <3> QED BY <3>1, <3>2
  <2>3. PICK x : ReaderOK(x, cacheNow) /\ reader' = [reader EXCEPT ![p] = x]
    BY <2>2
  <2> QED BY <1>1, <1>2, <2>1, <2>3, NoFlightIs, ReaderMoves
<1> QED BY <1>3, <1>4

LEMMA CacheTimeout ==
  ASSUME CacheAssumption, CacheInv, NEW p \in Processes, C!Timeout(p) PROVE CacheInv'
<1>1. /\ reader' = [reader EXCEPT ![p] = C!NoReader]
      /\ UNCHANGED <<cacheNow, row, mem, flight, late, cacheFaults>>
  BY DEF C!Timeout, C!bounds
<1>2. mem' \in [Processes -> Entry \cup {None}] /\ late' = FALSE BY <1>1, CacheScalars
<1> QED BY <1>1, <1>2, NoReaderIs, ReaderOnly

LEMMA CacheMaintain ==
  ASSUME CacheAssumption, CacheInv, NEW p \in Processes, C!Maintain(p) PROVE CacheInv'
<1>1. C!Launch(p) /\ UNCHANGED <<cacheNow, row, mem, reader, late, cacheFaults>>
  BY DEF C!Maintain, C!bounds
<1>2. mem' \in [Processes -> Entry \cup {None}] /\ cacheFaults' \in Nat BY <1>1, CacheScalars
<1>3. PICK f \in Flight : /\ flight' = [flight EXCEPT ![p] = f]
                          /\ FlightOK(f, cacheNow) /\ Newest(row, p, f)
  BY <1>1, LaunchIs
<1> QED BY <1>1, <1>2, <1>3, FlightMoves

LEMMA CacheEvict == ASSUME CacheAssumption, CacheInv, C!Evict PROVE CacheInv'
<1>1. row' = None /\ UNCHANGED <<cacheNow, mem, flight, reader, late, cacheFaults>>
  BY DEF C!Evict, C!bounds
<1>2. RowOK(row', cacheNow) /\ \A q \in Processes : Newest(row', q, flight[q])
  BY <1>1 DEF RowOK, Newest
<1> QED BY <1>1, <1>2 DEF CacheInv

LEMMA CacheCrash ==
  ASSUME CacheAssumption, CacheInv, NEW p \in Processes, C!Crash(p) PROVE CacheInv'
<1>1. /\ cacheFaults' = cacheFaults + 1 /\ mem' = [mem EXCEPT ![p] = None]
      /\ flight' = [flight EXCEPT ![p] = C!NoFlight] /\ reader' = [reader EXCEPT ![p] = C!NoReader]
      /\ UNCHANGED <<cacheNow, row, late>>
  BY DEF C!Crash
<1>2. mem' \in [Processes -> Entry \cup {None}] /\ late' = FALSE /\ cacheFaults' \in Nat
  BY <1>1, CacheScalars
<1>3. RowOK(row', cacheNow) /\ \A q \in Processes : q # p => Newest(row', q, flight[q])
  BY <1>1 DEF CacheInv
<1>4. Newest(row', p, C!NoFlight) /\ FlightOK(C!NoFlight, cacheNow) /\ ReaderOK(C!NoReader, cacheNow)
  BY NoFlightIs, NoReaderIs
<1> QED BY <1>1, <1>2, <1>3, <1>4, CacheMoves

LEMMA CacheStep == ASSUME CacheAssumption, CacheInv, [C!Next]_C!vars PROVE CacheInv'
<1>1. CASE C!Next
  <2>1. ASSUME NEW p \in Processes,
               \/ C!FindFresh(p) \/ C!Insert(p) \/ C!TakeLease(p) \/ C!Sleep(p) \/ C!Compute(p)
               \/ C!Computed(p) \/ C!Publish(p) \/ C!LeaseLost(p) \/ C!ComputeFails(p) \/ C!Release(p)
        PROVE  CacheInv'
    BY <2>1, CacheFindFresh, CacheInsert, CacheTakeLease, CacheSleep, CacheCompute,
       CacheComputed, CachePublish, CacheFails, CacheRelease
  <2>2. ASSUME NEW p \in Processes,
               \/ C!Request(p) \/ C!Load(p) \/ C!Hit(p) \/ C!Stale(p) \/ C!Miss(p)
               \/ C!Landed(p) \/ C!Timeout(p) \/ C!Maintain(p) \/ C!Crash(p)
        PROVE  CacheInv'
    BY <2>2, CacheRequest, CacheLoad, CacheHit, CacheStale, CacheMiss, CacheLanded,
       CacheTimeout, CacheMaintain, CacheCrash
  <2> QED BY <1>1, <2>1, <2>2, CacheTick, CacheEvict DEF C!Next
<1>2. CASE UNCHANGED C!vars
  <2>1. UNCHANGED <<cacheNow, row, mem, flight, reader, late, cacheFaults>> BY <1>2 DEF C!vars
  <2> QED BY <2>1 DEF CacheInv
<1> QED BY <1>1, <1>2

(* No answer of the response cache was too old when its request came in    *)
(* (read and _refresh in read_cache.py), for any number of processes,      *)
(* requests and restarts, wherever the answer came from.                   *)
THEOREM AnswersFresh ==
  CacheAssumption => (C!Spec => []C!AnswersAreFresh) /\ (Spec => []AnswersAreFresh)
<1> SUFFICES ASSUME CacheAssumption
             PROVE  (C!Spec => []C!AnswersAreFresh) /\ (Spec => []AnswersAreFresh)
  OBVIOUS
<1>1. C!Init => CacheInv BY CacheInit
<1>2. CacheInv /\ [C!Next]_C!vars => CacheInv' BY CacheStep
<1>3. CacheInv => C!AnswersAreFresh BY DEF CacheInv, C!AnswersAreFresh
<1>4. C!Spec => []C!AnswersAreFresh BY <1>1, <1>2, <1>3, PTL DEF C!Spec
<1> DEFINE Chosen == which = "cache" => CacheInv
<1>5. Init => Chosen BY <1>1, Starts
<1>6. Chosen /\ [Next]_all => Chosen' BY <1>2, Steps
<1>7. Chosen => AnswersAreFresh BY <1>3 DEF AnswersAreFresh
<1>8. Spec => []AnswersAreFresh
  <2> HIDE DEF Chosen
  <2> QED BY <1>5, <1>6, <1>7, PTL DEF Spec
<1> QED BY <1>4, <1>8

(* What a step writes into the row was read no earlier. *)
LEMMA RowAdvances ==
  ASSUME CacheAssumption, CacheInv, C!Next, C!Stored, row' # None, row' # row
  PROVE  row'.entry # None /\ row'.entry.read >= row.entry.read
<1>1. row # None /\ row.entry \in Entry /\ row \in Row /\ row.entry.read \in Nat
  <2>1. row # None /\ row.entry \in Entry /\ row \in Row BY CacheRow DEF C!Stored
  <2> QED BY <2>1 DEF Entry
<1>2. \E p \in Processes : C!TakeLease(p) \/ C!Publish(p) \/ C!Release(p)
  <2>1. ~C!Tick /\ ~C!Evict BY DEF C!Tick, C!Evict
  <2>2. ASSUME NEW p \in Processes PROVE ~C!Insert(p)
    BY <1>1 DEF C!Insert
  <2>3. ASSUME NEW p \in Processes
        PROVE  /\ ~C!FindFresh(p) /\ ~C!Sleep(p) /\ ~C!Compute(p) /\ ~C!Computed(p)
               /\ ~C!LeaseLost(p) /\ ~C!ComputeFails(p) /\ ~C!Request(p) /\ ~C!Load(p)
    BY DEF C!FindFresh, C!Sleep, C!Compute, C!Computed, C!LeaseLost, C!ComputeFails, C!Request, C!Load
  <2>4. ASSUME NEW p \in Processes
        PROVE  /\ ~C!Hit(p) /\ ~C!Stale(p) /\ ~C!Miss(p) /\ ~C!Landed(p) /\ ~C!Timeout(p)
               /\ ~C!Maintain(p) /\ ~C!Crash(p)
    BY DEF C!Hit, C!Stale, C!Miss, C!Landed, C!Timeout, C!Maintain, C!Crash
  <2> QED BY <2>1, <2>2, <2>3, <2>4 DEF C!Next
<1>3. PICK p \in Processes : C!TakeLease(p) \/ C!Publish(p) \/ C!Release(p)
  BY <1>2
<1>4. CASE C!TakeLease(p) \/ C!Release(p)
  <2> DEFINE o == <<p, flight[p].life>>
             u == cacheNow + Lease
  <2>1. row' = [row EXCEPT !.owner = o, !.until = u] \/ row' = [row EXCEPT !.owner = None, !.until = None]
    BY <1>4 DEF C!TakeLease, C!Release, C!Me
  <2> HIDE DEF o, u
  <2>2. row'.entry = row.entry BY <1>1, <2>1 DEF Row
  <2>3. row.entry # None BY DEF C!Stored
  <2> QED BY <1>1, <2>2, <2>3
<1>5. CASE C!Publish(p)
  <2>1. /\ row.owner = <<p, flight[p].life>> /\ flight[p].pc = "publish"
        /\ row' = [entry |-> flight[p].entry, owner |-> None, until |-> None]
    BY <1>5 DEF C!Publish, C!MayPublish, C!Mine, C!Me, C!Flying
  <2>2. row'.entry = flight[p].entry BY <2>1
  <2>3. flight[p].entry \in Entry BY <2>1, CacheBasics DEF FlightOK
  <2>4. flight[p].entry.read \in Nat BY <2>3 DEF Entry
  <2>5. row.entry # None /\ None \notin Entry /\ Newest(row, p, flight[p])
    BY CacheBasics DEF C!Stored
  <2>6. row.entry.read <= flight[p].entry.read BY <1>1, <2>1, <2>5 DEF Newest
  <2> QED BY <1>1, <2>2, <2>3, <2>4, <2>5, <2>6
<1> QED BY <1>3, <1>4, <1>5

(* A refresh never replaces a response by one whose data was read earlier  *)
(* (_refresh in read_cache.py): not when it outlived its lease, nor when   *)
(* its process was restarted in between.                                   *)
THEOREM RowsAdvance ==
  CacheAssumption => (C!Spec => C!PublishedAdvances) /\ (Spec => PublishedAdvances)
<1> SUFFICES ASSUME CacheAssumption
             PROVE  (C!Spec => C!PublishedAdvances) /\ (Spec => PublishedAdvances)
  OBVIOUS
<1>1. C!Init => CacheInv BY CacheInit
<1>2. CacheInv /\ [C!Next]_C!vars => CacheInv' BY CacheStep
<1> DEFINE A == C!Stored /\ row' # None => row'.entry # None /\ row'.entry.read >= row.entry.read
<1>3. CacheInv /\ [C!Next]_C!vars => [A]_row
  <2> SUFFICES ASSUME CacheInv, [C!Next]_C!vars, row' # row PROVE A
    OBVIOUS
  <2>1. C!Next BY DEF C!vars
  <2> QED BY <2>1, RowAdvances
<1>4. C!Spec => C!PublishedAdvances BY <1>1, <1>2, <1>3, PTL DEF C!Spec, C!PublishedAdvances
<1> DEFINE Chosen == IF which = "cache" THEN CacheInv ELSE row = None
<1>5. Init => Chosen BY <1>1, Starts
<1>6. Chosen /\ [Next]_all => Chosen' BY <1>2, Steps
<1>7. Chosen /\ [Next]_all => [A]_row BY <1>3, Steps
<1>8. Spec => PublishedAdvances
  <2> HIDE DEF Chosen
  <2> QED BY <1>5, <1>6, <1>7, PTL DEF Spec, PublishedAdvances, C!PublishedAdvances
<1> QED BY <1>4, <1>8
-----------------------------------------------------------------------------
(* RuleConfig. *)

LEMMA RuleWritten ==
  ASSUME NEW loaded \in RuleRow, NEW aim \in RuleRow, NEW old \in RuleRow, aim.id = loaded.id
  PROVE  /\ R!Written(loaded, aim, old) \in RuleRow
         /\ R!Written(loaded, aim, old).id = old.id
         /\ R!Written(loaded, aim, old).config \in {aim.config, old.config}
BY DEF R!Written, RuleRow

LEMMA ModelWritten ==
  ASSUME NEW loaded \in ModelRow, NEW aim \in ModelRow, NEW old \in ModelRow
  PROVE  /\ R!Written(loaded, aim, old) \in ModelRow
         /\ R!Written(loaded, aim, old).enabled => aim.enabled \/ old.enabled
BY DEF R!Written, ModelRow

LEMMA SaveInit == R!Init => SaveInv
<1> SUFFICES ASSUME R!Init PROVE SaveInv
  OBVIOUS
<1>1. /\ rule = [s \in Scopes |-> None] /\ ruleLog = {} /\ model = [m \in Models |-> None]
      /\ modelLog = {} /\ txn = [a \in Admins |-> None] /\ given = [s \in Scopes |-> {}]
  BY DEF R!Init
<1>2. IsFiniteSet(ruleLog) BY <1>1, FS_EmptySet
<1> QED BY <1>1, <1>2 DEF SaveInv, RulesOK, ModelsOK, TxnOK

(* What happens to a row of rules: a new one, a change, a deletion.        *)
LEMMA LogGrows ==
  ASSUME RulesOK(rule, ruleLog, given), NEW L \in SUBSET RuleEntry, IsFiniteSet(L)
  PROVE  /\ ruleLog \cup L \in SUBSET RuleEntry /\ IsFiniteSet(ruleLog \cup L)
         /\ Used \in Nat /\ Cardinality(ruleLog \cup L) \in Nat /\ Used <= Cardinality(ruleLog \cup L)
<1>1. IsFiniteSet(ruleLog) /\ ruleLog \in SUBSET RuleEntry BY DEF RulesOK
<1>2. IsFiniteSet(ruleLog \cup L) BY <1>1, FS_Union
<1> QED BY <1>1, <1>2, FS_Subset, FS_CardinalityType DEF Used

LEMMA RuleInserted ==
  ASSUME RulesAssumption, RulesOK(rule, ruleLog, given), NEW s \in Scopes, rule[s] = None,
         NEW r \in RuleRow, r.id = Used + 1, NEW h \in RuleEntry, h.id = r.id, h.config = r.config,
         rule' = [rule EXCEPT ![s] = r], ruleLog' = ruleLog \cup {h},
         given' = [given EXCEPT ![s] = {r.config}]
  PROVE  /\ RulesOK(rule', ruleLog', given') /\ Used <= Used'
         /\ \A x \in RuleTxn : RuleTxnOK(x, rule, given, Used) => RuleTxnOK(x, rule', given', Used')
<1>1. rule \in [Scopes -> RuleRow \cup {None}] /\ given \in [Scopes -> SUBSET Params]
      /\ ruleLog \in SUBSET RuleEntry /\ IsFiniteSet(ruleLog) /\ Used \in Nat
      /\ \A k \in ruleLog : k.id <= Used /\ k.id \in Nat
  BY FS_CardinalityType DEF RulesOK, Used, RuleEntry
<1>2. h \notin ruleLog BY <1>1
<1>3. Used' = Used + 1 /\ IsFiniteSet(ruleLog') /\ ruleLog' \in SUBSET RuleEntry
  BY <1>1, <1>2, FS_AddElement DEF Used
<1>4. r.config \in Params /\ r.id \in Nat /\ None \notin RuleRow BY DEF RuleRow, RulesAssumption
<1>5. /\ rule' \in [Scopes -> RuleRow \cup {None}] /\ given' \in [Scopes -> SUBSET Params]
      /\ rule'[s] = r /\ given'[s] = {r.config}
      /\ \A t \in Scopes : t # s => rule'[t] = rule[t] /\ given'[t] = given[t]
  BY <1>1, <1>4
<1>6. \A t \in Scopes : rule[t] # None => rule[t].id \in Nat /\ rule[t].id <= Used /\ t # s
  <2> SUFFICES ASSUME NEW t \in Scopes, rule[t] # None
               PROVE  rule[t].id \in Nat /\ rule[t].id <= Used /\ t # s
    OBVIOUS
  <2>1. rule[t] \in RuleRow BY <1>1
  <2> QED BY <2>1 DEF RuleRow, RulesOK, Used
<1>7. \A k \in ruleLog' : k.id <= Used' BY <1>1, <1>3
<1>8. ASSUME NEW t \in Scopes, rule'[t] # None
      PROVE  /\ rule'[t].id <= Used' /\ rule'[t].config \in given'[t]
             /\ \A k \in ruleLog' : k.id = rule'[t].id => k.config \in given'[t]
             /\ \A u \in Scopes : rule'[u] # None /\ rule'[u].id = rule'[t].id => u = t
  <2>1. CASE t = s
    <3>1. \A k \in ruleLog' : k.id = r.id => k = h BY <1>1
    <3>2. \A u \in Scopes : rule'[u] # None /\ rule'[u].id = r.id => u = s BY <1>1, <1>5, <1>6
    <3> QED BY <1>1, <1>3, <1>5, <2>1, <3>1, <3>2
  <2>2. CASE t # s
    <3>1. rule'[t] = rule[t] /\ given'[t] = given[t] /\ rule[t] # None BY <1>5, <1>8, <2>2
    <3>2. rule[t].config \in given[t] /\ \A k \in ruleLog : k.id = rule[t].id => k.config \in given[t]
      BY <3>1 DEF RulesOK
    <3>3. rule[t].id \in Nat /\ rule[t].id <= Used BY <1>6, <3>1
    <3>4. h.id # rule[t].id /\ rule[t].id <= Used' BY <1>1, <1>3, <3>3
    <3>5. \A k \in ruleLog' : k.id = rule[t].id => k.config \in given[t] BY <3>2, <3>4
    <3>6. \A u \in Scopes : rule'[u] # None /\ rule'[u].id = rule[t].id => u = t
      <4> SUFFICES ASSUME NEW u \in Scopes, rule'[u] # None, rule'[u].id = rule[t].id PROVE u = t
        OBVIOUS
      <4>1. u # s BY <1>5, <3>4
      <4>2. rule'[u] = rule[u] BY <1>5, <4>1
      <4> QED BY <3>1, <4>2 DEF RulesOK
    <3> QED BY <3>1, <3>2, <3>4, <3>5, <3>6
  <2> QED BY <2>1, <2>2
<1>9. RulesOK(rule', ruleLog', given') BY <1>3, <1>5, <1>7, <1>8 DEF RulesOK, Used
<1>10. ASSUME NEW x \in RuleTxn, RuleTxnOK(x, rule, given, Used)
       PROVE  RuleTxnOK(x, rule', given', Used')
  <2>1. x.key \in Scopes /\ (x.row # None => x.row \in RuleRow) BY DEF RuleTxn
  <2>2. x.row # None => x.row.id \in Nat /\ x.row.id <= Used BY <1>10, <2>1 DEF RuleRow, RuleTxnOK
  <2>3. x.row # None => x.row.id <= Used' /\ x.row.id # r.id BY <1>1, <1>3, <2>2
  <2>4. x.row # None /\ rule'[x.key] # None /\ rule'[x.key].id = x.row.id => x.key # s BY <1>5, <2>3
  <2>5. ASSUME x.row # None, rule'[x.key] # None, rule'[x.key].id = x.row.id
        PROVE  x.row.config \in given'[x.key] /\ (x.op = "rollback" => x.arg \in given'[x.key])
    <3>1. rule'[x.key] = rule[x.key] /\ given'[x.key] = given[x.key] BY <1>5, <2>1, <2>4, <2>5
    <3> QED BY <1>10, <2>5, <3>1 DEF RuleTxnOK
  <2>6. ASSUME x.row # None, NEW t \in Scopes, rule'[t] # None, rule'[t].id = x.row.id PROVE t = x.key
    <3>1. t # s /\ rule'[t] = rule[t] BY <1>5, <2>3, <2>6
    <3> QED BY <1>10, <2>6, <3>1 DEF RuleTxnOK
  <2> QED BY <1>10, <2>3, <2>5, <2>6 DEF RuleTxnOK
<1>11. Used <= Used' BY <1>1, <1>3
<1> QED BY <1>9, <1>10, <1>11

LEMMA RuleChanged ==
  ASSUME RulesAssumption, RulesOK(rule, ruleLog, given), NEW s \in Scopes, rule[s] # None,
         NEW r \in RuleRow, r.id = rule[s].id, NEW g \in SUBSET Params, given[s] \subseteq g, r.config \in g,
         NEW L \in SUBSET RuleEntry, IsFiniteSet(L), \A h \in L : h.id = rule[s].id /\ h.config \in g,
         rule' = [rule EXCEPT ![s] = r], ruleLog' = ruleLog \cup L, given' = [given EXCEPT ![s] = g]
  PROVE  /\ RulesOK(rule', ruleLog', given') /\ Used <= Used'
         /\ \A x \in RuleTxn : RuleTxnOK(x, rule, given, Used) => RuleTxnOK(x, rule', given', Used')
<1>1. rule \in [Scopes -> RuleRow \cup {None}] /\ given \in [Scopes -> SUBSET Params]
      /\ Used \in Nat /\ Used' \in Nat /\ Used <= Used'
      /\ ruleLog' \in SUBSET RuleEntry /\ IsFiniteSet(ruleLog')
  BY LogGrows DEF RulesOK, Used
<1>2. /\ rule' \in [Scopes -> RuleRow \cup {None}] /\ given' \in [Scopes -> SUBSET Params]
      /\ rule'[s] = r /\ given'[s] = g
      /\ \A t \in Scopes : t # s => rule'[t] = rule[t] /\ given'[t] = given[t]
  BY <1>1
<1>3. \A t \in Scopes : /\ rule'[t] # None <=> rule[t] # None
                        /\ rule[t] # None => rule'[t].id = rule[t].id
                        /\ given[t] \subseteq given'[t]
  <2>1. None \notin RuleRow BY DEF RulesAssumption
  <2> QED BY <1>2, <2>1
<1>4. rule[s].id \in Nat /\ rule[s].id <= Used
  <2>1. rule[s] \in RuleRow BY <1>1
  <2> QED BY <2>1 DEF RulesOK, Used, RuleRow
<1>5. \A h \in ruleLog' : h.id <= Used'
  <2> SUFFICES ASSUME NEW h \in ruleLog' PROVE h.id <= Used'
    OBVIOUS
  <2>1. h.id \in Nat BY <1>1 DEF RuleEntry
  <2>2. h.id <= Used BY <1>4 DEF RulesOK, Used
  <2> QED BY <1>1, <2>1, <2>2
<1>6. ASSUME NEW t \in Scopes, rule'[t] # None
      PROVE  /\ rule'[t].id <= Used' /\ rule'[t].config \in given'[t]
             /\ \A k \in ruleLog' : k.id = rule'[t].id => k.config \in given'[t]
             /\ \A u \in Scopes : rule'[u] # None /\ rule'[u].id = rule'[t].id => u = t
  <2>1. rule[t] # None /\ rule'[t].id = rule[t].id BY <1>3, <1>6
  <2>2. rule[t].id <= Used /\ rule[t].config \in given[t]
        /\ (\A k \in ruleLog : k.id = rule[t].id => k.config \in given[t])
        /\ \A u \in Scopes : rule[u] # None /\ rule[u].id = rule[t].id => u = t
    BY <2>1 DEF RulesOK, Used
  <2>3. rule[t].id <= Used'
    <3>1. rule[t] \in RuleRow BY <1>1, <2>1
    <3>2. rule[t].id \in Nat BY <3>1 DEF RuleRow
    <3> QED BY <1>1, <2>2, <3>2
  <2>4. rule'[t].config \in given'[t] BY <1>2, <2>2
  <2>5. \A k \in ruleLog' : k.id = rule[t].id => k.config \in given'[t]
    <3> SUFFICES ASSUME NEW k \in ruleLog', k.id = rule[t].id PROVE k.config \in given'[t]
      OBVIOUS
    <3>1. CASE k \in ruleLog BY <1>3, <2>2, <3>1
    <3>2. CASE k \in L BY <1>2, <2>2, <3>2
    <3> QED BY <3>1, <3>2
  <2>6. \A u \in Scopes : rule'[u] # None /\ rule'[u].id = rule[t].id => u = t BY <1>3, <2>2
  <2> QED BY <2>1, <2>3, <2>4, <2>5, <2>6
<1>7. RulesOK(rule', ruleLog', given') BY <1>1, <1>2, <1>5, <1>6 DEF RulesOK, Used
<1>8. ASSUME NEW x \in RuleTxn, RuleTxnOK(x, rule, given, Used)
      PROVE  RuleTxnOK(x, rule', given', Used')
  <2>1. x.key \in Scopes /\ (x.row # None => x.row \in RuleRow) BY DEF RuleTxn
  <2>2. x.row # None => x.row.id \in Nat /\ x.row.id <= Used BY <1>8, <2>1 DEF RuleRow, RuleTxnOK
  <2>3. x.row # None => x.row.id <= Used' BY <1>1, <2>2
  <2>4. ASSUME x.row # None, rule'[x.key] # None, rule'[x.key].id = x.row.id
        PROVE  x.row.config \in given'[x.key] /\ (x.op = "rollback" => x.arg \in given'[x.key])
    <3>1. rule[x.key] # None /\ rule[x.key].id = x.row.id /\ given[x.key] \subseteq given'[x.key]
      BY <1>3, <2>1, <2>4
    <3>2. x.row.config \in given[x.key] /\ (x.op = "rollback" => x.arg \in given[x.key])
      BY <1>8, <2>4, <3>1 DEF RuleTxnOK
    <3> QED BY <3>1, <3>2
  <2>5. ASSUME x.row # None, NEW t \in Scopes, rule'[t] # None, rule'[t].id = x.row.id PROVE t = x.key
    BY <1>3, <1>8, <2>5 DEF RuleTxnOK
  <2> QED BY <1>8, <2>3, <2>4, <2>5 DEF RuleTxnOK
<1> QED BY <1>1, <1>7, <1>8

LEMMA RuleDeleted ==
  ASSUME RulesAssumption, RulesOK(rule, ruleLog, given), NEW s \in Scopes, rule[s] # None,
         NEW h \in RuleEntry, h.id = rule[s].id,
         rule' = [rule EXCEPT ![s] = None], ruleLog' = ruleLog \cup {h}, given' = [given EXCEPT ![s] = {}]
  PROVE  /\ RulesOK(rule', ruleLog', given') /\ Used <= Used'
         /\ \A x \in RuleTxn : RuleTxnOK(x, rule, given, Used) => RuleTxnOK(x, rule', given', Used')
<1>1. rule \in [Scopes -> RuleRow \cup {None}] /\ given \in [Scopes -> SUBSET Params]
      /\ Used \in Nat /\ Used' \in Nat /\ Used <= Used'
      /\ ruleLog' \in SUBSET RuleEntry /\ IsFiniteSet(ruleLog')
  BY LogGrows, FS_Singleton DEF RulesOK, Used
<1>2. /\ rule' \in [Scopes -> RuleRow \cup {None}] /\ given' \in [Scopes -> SUBSET Params]
      /\ rule'[s] = None
      /\ \A t \in Scopes : t # s => rule'[t] = rule[t] /\ given'[t] = given[t]
  BY <1>1
<1>3. rule[s].id \in Nat /\ rule[s].id <= Used
  <2>1. rule[s] \in RuleRow BY <1>1
  <2> QED BY <2>1 DEF RulesOK, Used, RuleRow
<1>4. \A k \in ruleLog' : k.id <= Used'
  <2> SUFFICES ASSUME NEW k \in ruleLog' PROVE k.id <= Used'
    OBVIOUS
  <2>1. k.id \in Nat BY <1>1 DEF RuleEntry
  <2>2. k.id <= Used BY <1>3 DEF RulesOK, Used
  <2> QED BY <1>1, <2>1, <2>2
<1>5. ASSUME NEW t \in Scopes, rule'[t] # None
      PROVE  /\ rule'[t].id <= Used' /\ rule'[t].config \in given'[t]
             /\ \A k \in ruleLog' : k.id = rule'[t].id => k.config \in given'[t]
             /\ \A u \in Scopes : rule'[u] # None /\ rule'[u].id = rule'[t].id => u = t
  <2>1. t # s /\ rule'[t] = rule[t] /\ given'[t] = given[t] /\ rule[t] # None BY <1>2, <1>5
  <2>2. rule[t].id <= Used /\ rule[t].config \in given[t]
        /\ (\A k \in ruleLog : k.id = rule[t].id => k.config \in given[t])
        /\ \A u \in Scopes : rule[u] # None /\ rule[u].id = rule[t].id => u = t
    BY <2>1 DEF RulesOK, Used
  <2>3. rule[t].id <= Used'
    <3>1. rule[t] \in RuleRow BY <1>1, <2>1
    <3>2. rule[t].id \in Nat BY <3>1 DEF RuleRow
    <3> QED BY <1>1, <2>2, <3>2
  <2>4. h.id # rule[t].id BY <2>1, <2>2
  <2>5. \A u \in Scopes : rule'[u] # None /\ rule'[u].id = rule[t].id => u = t BY <1>2, <2>2
  <2> QED BY <2>1, <2>2, <2>3, <2>4, <2>5
<1>6. RulesOK(rule', ruleLog', given') BY <1>1, <1>2, <1>4, <1>5 DEF RulesOK, Used
<1>7. ASSUME NEW x \in RuleTxn, RuleTxnOK(x, rule, given, Used)
      PROVE  RuleTxnOK(x, rule', given', Used')
  <2>1. x.key \in Scopes /\ (x.row # None => x.row \in RuleRow) BY DEF RuleTxn
  <2>2. x.row # None => x.row.id \in Nat /\ x.row.id <= Used BY <1>7, <2>1 DEF RuleRow, RuleTxnOK
  <2>3. x.row # None => x.row.id <= Used' BY <1>1, <2>2
  <2>4. ASSUME x.row # None, rule'[x.key] # None, rule'[x.key].id = x.row.id
        PROVE  x.row.config \in given'[x.key] /\ (x.op = "rollback" => x.arg \in given'[x.key])
    <3>1. rule'[x.key] = rule[x.key] /\ given'[x.key] = given[x.key] BY <1>2, <2>1, <2>4
    <3> QED BY <1>7, <2>4, <3>1 DEF RuleTxnOK
  <2>5. ASSUME x.row # None, NEW t \in Scopes, rule'[t] # None, rule'[t].id = x.row.id PROVE t = x.key
    BY <1>2, <1>7, <2>5 DEF RuleTxnOK
  <2> QED BY <1>7, <2>3, <2>4, <2>5 DEF RuleTxnOK
<1> QED BY <1>1, <1>6, <1>7

(* A deletion of a row that is not there any more is only logged.          *)
LEMMA RuleGone ==
  ASSUME RulesAssumption, RulesOK(rule, ruleLog, given), NEW h \in RuleEntry, h.id <= Used,
         \A t \in Scopes : rule[t] # None => rule[t].id # h.id,
         ruleLog' = ruleLog \cup {h}, UNCHANGED <<rule, given>>
  PROVE  /\ RulesOK(rule', ruleLog', given') /\ Used <= Used'
         /\ \A x \in RuleTxn : RuleTxnOK(x, rule, given, Used) => RuleTxnOK(x, rule', given', Used')
<1>1. /\ Used \in Nat /\ Used' \in Nat /\ Used <= Used'
      /\ ruleLog' \in SUBSET RuleEntry /\ IsFiniteSet(ruleLog')
  BY LogGrows, FS_Singleton DEF RulesOK, Used
<1>2. \A n \in Nat : n <= Used => n <= Used' BY <1>1
<1>3. \A k \in ruleLog' : k.id <= Used'
  <2> SUFFICES ASSUME NEW k \in ruleLog' PROVE k.id <= Used'
    OBVIOUS
  <2>1. k.id \in Nat BY <1>1 DEF RuleEntry
  <2>2. k.id <= Used BY DEF RulesOK, Used
  <2> QED BY <1>2, <2>1, <2>2
<1>4. ASSUME NEW t \in Scopes, rule[t] # None
      PROVE  rule[t].id <= Used' /\ \A k \in ruleLog' : k.id = rule[t].id => k.config \in given[t]
  <2>1. rule[t] \in RuleRow /\ rule[t].id <= Used BY <1>4 DEF RulesOK, Used
  <2>2. rule[t].id \in Nat BY <2>1 DEF RuleRow
  <2>3. \A k \in ruleLog : k.id = rule[t].id => k.config \in given[t] BY <1>4 DEF RulesOK
  <2> QED BY <1>2, <1>4, <2>1, <2>2, <2>3
<1>5. RulesOK(rule', ruleLog', given') BY <1>1, <1>3, <1>4 DEF RulesOK, Used
<1>6. ASSUME NEW x \in RuleTxn, RuleTxnOK(x, rule, given, Used)
      PROVE  RuleTxnOK(x, rule', given', Used')
  <2>1. x.row # None => x.row \in RuleRow /\ x.row.id <= Used BY <1>6 DEF RuleTxn, RuleTxnOK
  <2>2. x.row # None => x.row.id <= Used' BY <1>2, <2>1 DEF RuleRow
  <2> QED BY <1>6, <2>2 DEF RuleTxnOK
<1> QED BY <1>1, <1>5, <1>6

(* A request of administrator a reads, or ends; the others keep theirs.    *)
LEMMA SaveTyped ==
  ASSUME SaveInv, NEW a \in Admins
  PROVE  /\ txn \in [Admins -> {None} \cup RuleTxn \cup ModelTxn]
         /\ TxnOK(txn[a], rule, given, Used, model)
         /\ rule \in [Scopes -> RuleRow \cup {None}] /\ model \in [Models -> ModelRow \cup {None}]
         /\ given \in [Scopes -> SUBSET Params] /\ ruleLog \in SUBSET RuleEntry
         /\ IsFiniteSet(ruleLog) /\ modelLog \in SUBSET ModelEntry
BY DEF SaveInv, RulesOK, ModelsOK

LEMMA Begins ==
  ASSUME SaveInv, NEW a \in Admins, NEW x \in RuleTxn \cup ModelTxn, TxnOK(x, rule, given, Used, model),
         txn' = [txn EXCEPT ![a] = x], UNCHANGED <<rule, ruleLog, given, model, modelLog>>
  PROVE  SaveInv'
<1>1. /\ txn' \in [Admins -> {None} \cup RuleTxn \cup ModelTxn] /\ txn'[a] = x
      /\ \A b \in Admins : b # a => txn'[b] = txn[b]
  BY SaveTyped
<1>2. \A b \in Admins : TxnOK(txn'[b], rule, given, Used, model) BY <1>1 DEF SaveInv
<1>3. Used' = Used BY DEF Used
<1>4. \A b \in Admins : TxnOK(txn'[b], rule', given', Used', model') BY <1>2, <1>3
<1> QED BY <1>1, <1>4 DEF SaveInv

(* Requests about rules. *)
LEMMA RuleEnds ==
  ASSUME RulesAssumption, SaveInv, NEW a \in Admins, txn' = [txn EXCEPT ![a] = None],
         RulesOK(rule', ruleLog', given'),
         \A x \in RuleTxn : RuleTxnOK(x, rule, given, Used) => RuleTxnOK(x, rule', given', Used'),
         UNCHANGED <<model, modelLog>>
  PROVE  SaveInv'
<1>1. /\ txn' \in [Admins -> {None} \cup RuleTxn \cup ModelTxn] /\ txn'[a] = None
      /\ \A b \in Admins : b # a => txn'[b] = txn[b]
  BY SaveTyped
<1>2. ASSUME NEW b \in Admins PROVE TxnOK(txn'[b], rule', given', Used', model')
  <2>1. CASE b = a BY <1>1, <2>1 DEF TxnOK
  <2>2. CASE b # a
    <3>1. txn'[b] = txn[b] /\ TxnOK(txn[b], rule, given, Used, model) BY <1>1, <2>2 DEF SaveInv
    <3>2. txn[b] = None \/ RuleTxnOK(txn[b], rule, given, Used) \/ ModelTxnOK(txn[b], model)
      BY <3>1 DEF TxnOK
    <3>3. RuleTxnOK(txn[b], rule, given, Used) => txn[b] \in RuleTxn BY DEF RuleTxnOK
    <3>4. model' = model OBVIOUS
    <3> QED BY <3>1, <3>2, <3>3, <3>4 DEF TxnOK
  <2> QED BY <2>1, <2>2
<1>3. ModelsOK(model') /\ modelLog' \in SUBSET ModelEntry BY DEF SaveInv
<1> QED BY <1>1, <1>2, <1>3 DEF SaveInv

(* What a request about rules holds. *)
LEMMA RuleRequest ==
  ASSUME RulesAssumption, SaveInv, NEW a \in Admins,
         NEW op \in {"save", "create", "editors", "delete", "rollback"}, R!Is(a, op)
  PROVE  RuleTxnOK(txn[a], rule, given, Used) /\ txn[a].op = op /\ txn[a].key \in Scopes
<1>1. txn[a] # None /\ txn[a].op = op BY DEF R!Is
<1>2. ~ModelTxnOK(txn[a], model) BY <1>1 DEF ModelTxnOK, ModelTxn
<1>3. RuleTxnOK(txn[a], rule, given, Used) BY <1>1, <1>2, SaveTyped DEF TxnOK
<1>4. txn[a] \in RuleTxn BY <1>3 DEF RuleTxnOK
<1> QED BY <1>1, <1>3, <1>4 DEF RuleTxn

LEMMA SaveStartRule ==
  ASSUME RulesAssumption, SaveInv, NEW a \in Admins, R!StartRule(a) PROVE SaveInv'
<1>0. UNCHANGED <<rule, ruleLog, given, model, modelLog>> BY DEF R!StartRule, R!rules, R!models
<1>1. PICK s \in Scopes :
        \/ \E c \in Configs : R!Begin(a, "save", s, c)
        \/ rule[s] = None /\ R!Begin(a, "create", s, IF rule["global"] = None THEN "V1.1" ELSE rule["global"].config)
           /\ s # "global"
        \/ rule[s] # None /\ (R!Begin(a, "editors", s, None) \/ R!Begin(a, "delete", s, None))
        \/ rule[s] # None /\ \E h \in R!Restorable(s) : R!Begin(a, "rollback", s, h.config)
  BY DEF R!StartRule
<1>2. rule[s] \in RuleRow \cup {None} /\ None \notin RuleRow BY SaveTyped DEF RulesAssumption
<1>3. rule[s] # None => /\ rule[s].id <= Used /\ rule[s].config \in given[s]
                        /\ \A h \in ruleLog : h.id = rule[s].id => h.config \in given[s] /\ h.config \in Params
                        /\ \A t \in Scopes : rule[t] # None /\ rule[t].id = rule[s].id => t = s
  <2>1. \A h \in ruleLog : h.config \in Params BY SaveTyped DEF RuleEntry
  <2> QED BY <2>1 DEF SaveInv, RulesOK, Used
<1>4. ASSUME NEW op \in {"save", "create", "editors", "delete", "rollback"}, NEW arg \in Params \cup {None},
             R!Begin(a, op, s, arg),
             op \in {"rollback", "editors", "delete"} => rule[s] # None,
             op = "save" => arg \in Params, op = "create" => rule[s] = None /\ arg \in Params,
             op = "rollback" => arg \in Params /\ arg \in given[s]
      PROVE  SaveInv'
  <2> DEFINE x == [op |-> op, key |-> s, arg |-> arg, row |-> rule[s]]
  <2>1. txn' = [txn EXCEPT ![a] = x] BY <1>4 DEF R!Begin
  <2>2. x \in RuleTxn /\ x.op = op /\ x.key = s /\ x.arg = arg /\ x.row = rule[s]
    BY <1>2 DEF RuleTxn
  <2> HIDE DEF x
  <2>3. RuleTxnOK(x, rule, given, Used) BY <1>3, <1>4, <2>2 DEF RuleTxnOK
  <2>4. TxnOK(x, rule, given, Used, model) BY <2>3 DEF TxnOK
  <2> QED BY <1>0, <2>1, <2>2, <2>4, Begins
<1>5. ASSUME NEW c \in Configs, R!Begin(a, "save", s, c) PROVE SaveInv'
  <2>1. c \in Params BY DEF Params
  <2> QED BY <1>4, <1>5, <2>1
<1>6. ASSUME rule[s] = None,
             R!Begin(a, "create", s, IF rule["global"] = None THEN "V1.1" ELSE rule["global"].config)
      PROVE  SaveInv'
  <2> DEFINE c == IF rule["global"] = None THEN "V1.1" ELSE rule["global"].config
  <2>1. c \in Params
    <3>1. rule["global"] \in RuleRow \cup {None} BY SaveTyped DEF RulesAssumption
    <3> QED BY <3>1 DEF RuleRow, Params
  <2> HIDE DEF c
  <2>2. R!Begin(a, "create", s, c) BY <1>6 DEF c
  <2> QED BY <1>4, <1>6, <2>1, <2>2
<1>7. ASSUME rule[s] # None, R!Begin(a, "editors", s, None) \/ R!Begin(a, "delete", s, None)
      PROVE  SaveInv'
  <2>1. None \in Params \cup {None} OBVIOUS
  <2> QED BY <1>4, <1>7, <2>1
<1>8. ASSUME rule[s] # None, NEW h \in R!Restorable(s), R!Begin(a, "rollback", s, h.config)
      PROVE  SaveInv'
  <2>1. h.config \in Params /\ h.config \in given[s] BY <1>3, <1>8 DEF R!Restorable
  <2> QED BY <1>4, <1>8, <2>1
<1> QED BY <1>1, <1>5, <1>6, <1>7, <1>8

LEMMA SaveInserts ==
  ASSUME RulesAssumption, SaveInv, NEW a \in Admins, R!CreateRule(a) PROVE SaveInv'
<1> DEFINE s == txn[a].key
           c == txn[a].arg
           z == Used + 1
           e == 0
           v == 1
           r == [id |-> z, config |-> c, editors |-> e, version |-> v]
           h == [scope |-> s, id |-> z, config |-> c, version |-> v]
<1>1. /\ rule[s] = None /\ rule' = [rule EXCEPT ![s] = r] /\ ruleLog' = ruleLog \cup {R!Logged(rule'[s], s)}
      /\ given' = [given EXCEPT ![s] = {c}] /\ txn' = [txn EXCEPT ![a] = None]
      /\ UNCHANGED <<model, modelLog>> /\ (R!Is(a, "create") \/ R!Is(a, "save"))
  <2>1. R!Inserted(a, c) /\ R!End(a) /\ UNCHANGED R!models /\ (R!Is(a, "create") \/ R!Is(a, "save"))
    BY DEF R!CreateRule, R!Mine
  <2>2. UNCHANGED <<model, modelLog>> /\ txn' = [txn EXCEPT ![a] = None] BY <2>1 DEF R!models, R!End
  <2>3. R!NextId = z BY DEF R!NextId, Used, R!Cardinality, Cardinality
  <2>4. /\ rule[s] = None /\ rule' = [rule EXCEPT ![s] = r] /\ ruleLog' = ruleLog \cup {R!Logged(rule'[s], s)}
        /\ given' = [given EXCEPT ![s] = {c}]
    BY <2>1, <2>3 DEF R!Inserted, R!Mine
  <2> QED BY <2>1, <2>2, <2>4
<1>2. s \in Scopes /\ c \in Params BY <1>1, RuleRequest DEF RuleTxnOK
<1>3. z \in Nat /\ e \in {0, 1} /\ v \in Nat /\ RulesOK(rule, ruleLog, given)
  BY SaveTyped, FS_CardinalityType DEF Used, SaveInv
<1>4. rule'[s] = r BY <1>1, <1>2, SaveTyped
<1>5. R!Logged(r, s) = h BY DEF R!Logged
<1>6. z = Used + 1 OBVIOUS
<1> HIDE DEF s, c, z, e, v
<1>7. r \in RuleRow /\ r.id = z /\ r.config = c BY <1>2, <1>3 DEF RuleRow
<1>8. h \in RuleEntry /\ h.id = z /\ h.config = c BY <1>2, <1>3 DEF RuleEntry
<1> HIDE DEF r, h
<1>9. ruleLog' = ruleLog \cup {h} /\ given' = [given EXCEPT ![s] = {r.config}]
  BY <1>1, <1>4, <1>5, <1>7
<1>10. /\ RulesOK(rule', ruleLog', given')
       /\ \A x \in RuleTxn : RuleTxnOK(x, rule, given, Used) => RuleTxnOK(x, rule', given', Used')
  BY <1>1, <1>2, <1>3, <1>6, <1>7, <1>8, <1>9, RuleInserted
<1> QED BY <1>1, <1>10, RuleEnds

(* A change of the row the request has read. *)
LEMMA SaveUpdates ==
  ASSUME RulesAssumption, SaveInv, NEW a \in Admins, NEW op \in {"save", "editors", "rollback"},
         R!Is(a, op), txn[a].row # None, NEW aim \in RuleRow, aim.id = txn[a].row.id,
         R!Updated(a, aim), NEW L \in SUBSET RuleEntry, IsFiniteSet(L), ruleLog' = ruleLog \cup L,
         NEW more \in SUBSET Params,
         given' = [given EXCEPT ![txn[a].key] = given[txn[a].key] \cup more],
         \/ aim.config = txn[a].row.config \/ aim.config \in more
         \/ op = "rollback" /\ aim.config = txn[a].arg,
         \A h \in L : h.id = txn[a].row.id /\ h.config \in {txn[a].row.config, aim.config},
         txn' = [txn EXCEPT ![a] = None], UNCHANGED <<model, modelLog>>
  PROVE  SaveInv'
<1> DEFINE s == txn[a].key
           r == R!Written(txn[a].row, aim, rule[s])
           g == given[s] \cup more
<1>1. RuleTxnOK(txn[a], rule, given, Used) /\ txn[a].op = op /\ s \in Scopes BY RuleRequest
<1>2. txn[a].row \in RuleRow BY <1>1 DEF RuleTxnOK, RuleTxn
<1>3. /\ rule[s] # None /\ rule[s].id = txn[a].row.id
      /\ rule' = [rule EXCEPT ![s] = r]
  <2>1. /\ rule[s] # None /\ rule[s].id = txn[a].row.id
        /\ rule' = [rule EXCEPT ![s] = R!Written(txn[a].row, aim, @)]
    BY DEF R!Updated, R!Same, R!Mine
  <2> QED BY <1>1, <2>1, SaveTyped
<1>4. rule[s] \in RuleRow /\ given[s] \in SUBSET Params /\ rule[s].config \in given[s]
      /\ RulesOK(rule, ruleLog, given)
  BY <1>1, <1>3, SaveTyped DEF SaveInv, RulesOK
<1>5. txn[a].row.config \in given[s] /\ (op = "rollback" => txn[a].arg \in given[s])
  BY <1>1, <1>3 DEF RuleTxnOK
<1>6. aim.config \in g BY <1>5
<1>7. r \in RuleRow /\ r.id = rule[s].id /\ r.config \in {aim.config, rule[s].config}
  BY <1>2, <1>4, RuleWritten
<1>8. given' = [given EXCEPT ![s] = g] BY <1>1, SaveTyped
<1>9. g \in SUBSET Params /\ given[s] \subseteq g /\ r.config \in g
      /\ \A h \in L : h.id = rule[s].id /\ h.config \in g
  BY <1>3, <1>4, <1>5, <1>6, <1>7
<1> HIDE DEF s, r, g
<1>10. /\ RulesOK(rule', ruleLog', given')
       /\ \A x \in RuleTxn : RuleTxnOK(x, rule, given, Used) => RuleTxnOK(x, rule', given', Used')
  BY <1>1, <1>3, <1>4, <1>7, <1>8, <1>9, RuleChanged
<1> QED BY <1>10, RuleEnds

(* The row as it was read, and what is logged of it. *)
LEMMA RowRead ==
  ASSUME RulesAssumption, SaveInv, NEW a \in Admins, NEW op \in {"save", "editors", "delete", "rollback"},
         R!Is(a, op), txn[a].row # None
  PROVE  /\ txn[a].row \in RuleRow /\ txn[a].key \in Scopes
         /\ R!Logged(txn[a].row, txn[a].key) \in RuleEntry
         /\ R!Logged(txn[a].row, txn[a].key).id = txn[a].row.id
         /\ R!Logged(txn[a].row, txn[a].key).config = txn[a].row.config
<1>1. txn[a].row \in RuleRow /\ txn[a].key \in Scopes BY RuleRequest DEF RuleTxnOK, RuleTxn
<1> QED BY <1>1 DEF R!Logged, RuleRow, RuleEntry

LEMMA SaveSaves ==
  ASSUME RulesAssumption, SaveInv, NEW a \in Admins, R!SaveRule(a) PROVE SaveInv'
<1> DEFINE v == txn[a].row.version + 1
           w == [txn[a].row EXCEPT !.config = txn[a].arg, !.version = v]
           h == R!Logged(txn[a].row, txn[a].key)
<1>1. /\ R!Is(a, "save") /\ txn[a].row # None /\ R!Updated(a, w)
      /\ ruleLog' = ruleLog \cup {h} /\ given' = [given EXCEPT ![txn[a].key] = given[txn[a].key] \cup {txn[a].arg}]
      /\ txn' = [txn EXCEPT ![a] = None] /\ UNCHANGED <<model, modelLog>>
  <2>1. txn[a].key \in Scopes BY RuleRequest DEF R!SaveRule
  <2> QED BY <2>1, SaveTyped DEF R!SaveRule, R!Mine, R!End, R!models
<1>2. txn[a].row \in RuleRow /\ h \in RuleEntry /\ h.id = txn[a].row.id /\ h.config = txn[a].row.config
  BY <1>1, RowRead
<1>3. txn[a].arg \in Params BY <1>1, RuleRequest DEF RuleTxnOK
<1>4. w \in RuleRow /\ w.id = txn[a].row.id /\ w.config = txn[a].arg
  <2>1. v \in Nat BY <1>2 DEF RuleRow
  <2> HIDE DEF v
  <2> QED BY <1>2, <1>3, <2>1 DEF RuleRow
<1> HIDE DEF w, h
<1> DEFINE L == {h}
           more == {txn[a].arg}
<1>5. /\ L \in SUBSET RuleEntry /\ IsFiniteSet(L) /\ ruleLog' = ruleLog \cup L
      /\ \A x \in L : x.id = txn[a].row.id /\ x.config \in {txn[a].row.config, w.config}
      /\ more \in SUBSET Params /\ w.config \in more
      /\ given' = [given EXCEPT ![txn[a].key] = given[txn[a].key] \cup more]
  BY <1>1, <1>2, <1>3, <1>4, FS_Singleton
<1> HIDE DEF L, more
<1> QED BY <1>1, <1>2, <1>4, <1>5, SaveUpdates

LEMMA SaveRollsBack ==
  ASSUME RulesAssumption, SaveInv, NEW a \in Admins, R!RollbackRule(a) PROVE SaveInv'
<1> DEFINE v == txn[a].row.version + 1
           w == [txn[a].row EXCEPT !.config = txn[a].arg, !.version = v]
           h == R!Logged(txn[a].row, txn[a].key)
           k == R!Logged(w, txn[a].key)
<1>1. /\ R!Is(a, "rollback") /\ R!Updated(a, w)
      /\ ruleLog' = ruleLog \cup {h, k} /\ given' = given
      /\ txn' = [txn EXCEPT ![a] = None] /\ UNCHANGED <<model, modelLog>>
  BY DEF R!RollbackRule, R!Mine, R!End, R!models
<1>2. txn[a].row # None /\ txn[a].arg \in Params /\ txn[a].key \in Scopes
  BY <1>1, RuleRequest DEF RuleTxnOK
<1>3. txn[a].row \in RuleRow /\ h \in RuleEntry /\ h.id = txn[a].row.id /\ h.config = txn[a].row.config
  BY <1>1, <1>2, RowRead
<1>4. w \in RuleRow /\ w.id = txn[a].row.id /\ w.config = txn[a].arg
  <2>1. v \in Nat BY <1>3 DEF RuleRow
  <2> HIDE DEF v
  <2> QED BY <1>2, <1>3, <2>1 DEF RuleRow
<1> HIDE DEF w, h
<1>5. k \in RuleEntry /\ k.id = w.id /\ k.config = w.config
  BY <1>2, <1>4 DEF R!Logged, RuleRow, RuleEntry
<1> HIDE DEF k
<1>6. IsFiniteSet({h, k}) /\ {h, k} \in SUBSET RuleEntry
  <2>1. IsFiniteSet({h}) /\ {h, k} = {h} \cup {k} BY FS_Singleton
  <2>2. IsFiniteSet({h} \cup {k}) BY <2>1, FS_AddElement
  <2> QED BY <1>3, <1>5, <2>1, <2>2
<1> DEFINE more == {}
<1>7. given' = [given EXCEPT ![txn[a].key] = given[txn[a].key] \cup more] /\ more \in SUBSET Params
  BY <1>1, <1>2, SaveTyped
<1> HIDE DEF more
<1>8. \A x \in {h, k} : x.id = txn[a].row.id /\ x.config \in {txn[a].row.config, w.config}
  BY <1>3, <1>4, <1>5
<1> DEFINE L == {h, k}
<1> HIDE DEF L
<1>9. ruleLog' = ruleLog \cup L /\ IsFiniteSet(L) /\ L \in SUBSET RuleEntry
      /\ \A x \in L : x.id = txn[a].row.id /\ x.config \in {txn[a].row.config, w.config}
  BY <1>1, <1>6, <1>8 DEF L
<1> DEFINE op == "rollback"
<1>10. R!Is(a, op) /\ op = "rollback" /\ op \in {"save", "editors", "rollback"} BY <1>1
<1> HIDE DEF op
<1>11. /\ R!Updated(a, w) /\ txn' = [txn EXCEPT ![a] = None] /\ UNCHANGED <<model, modelLog>>
       /\ w \in RuleRow /\ w.id = txn[a].row.id /\ txn[a].row # None
       /\ op = "rollback" /\ w.config = txn[a].arg
  BY <1>1, <1>2, <1>4, <1>10
<1> QED BY <1>7, <1>9, <1>10, <1>11, SaveUpdates

LEMMA SaveEdits ==
  ASSUME RulesAssumption, SaveInv, NEW a \in Admins, R!SaveEditors(a) PROVE SaveInv'
<1>1. PICK e \in {0, 1} : R!Updated(a, [txn[a].row EXCEPT !.editors = e, !.version = @ + 1])
  BY DEF R!SaveEditors, R!Mine
<1> DEFINE v == txn[a].row.version + 1
           w == [txn[a].row EXCEPT !.editors = e, !.version = v]
           h == R!Logged(txn[a].row, txn[a].key)
<1>2. /\ R!Is(a, "editors") /\ R!Updated(a, w)
      /\ ruleLog' = ruleLog \cup {h} /\ given' = given
      /\ txn' = [txn EXCEPT ![a] = None] /\ UNCHANGED <<model, modelLog>>
  BY <1>1 DEF R!SaveEditors, R!Mine, R!End, R!models
<1>3. txn[a].row # None /\ txn[a].key \in Scopes BY <1>2, RuleRequest DEF RuleTxnOK
<1>4. txn[a].row \in RuleRow /\ h \in RuleEntry /\ h.id = txn[a].row.id /\ h.config = txn[a].row.config
  BY <1>2, <1>3, RowRead
<1>5. w \in RuleRow /\ w.id = txn[a].row.id /\ w.config = txn[a].row.config
  <2>1. v \in Nat BY <1>4 DEF RuleRow
  <2> HIDE DEF v
  <2> QED BY <1>4, <2>1 DEF RuleRow
<1> HIDE DEF w, h
<1> DEFINE more == {}
<1>6. given' = [given EXCEPT ![txn[a].key] = given[txn[a].key] \cup more] /\ more \in SUBSET Params
  BY <1>2, <1>3, SaveTyped
<1> HIDE DEF more
<1> DEFINE L == {h}
<1>7. /\ L \in SUBSET RuleEntry /\ IsFiniteSet(L) /\ ruleLog' = ruleLog \cup L
      /\ \A x \in L : x.id = txn[a].row.id /\ x.config \in {txn[a].row.config, w.config}
  BY <1>2, <1>4, <1>5, FS_Singleton
<1> HIDE DEF L
<1> QED BY <1>2, <1>3, <1>5, <1>6, <1>7, SaveUpdates

LEMMA SaveDeletes ==
  ASSUME RulesAssumption, SaveInv, NEW a \in Admins, R!DeleteRule(a) PROVE SaveInv'
<1> DEFINE s == txn[a].key
           h == R!Logged(txn[a].row, s)
<1>1. /\ R!Is(a, "delete") /\ ruleLog' = ruleLog \cup {h}
      /\ IF rule[s] # None /\ rule[s].id = txn[a].row.id
         THEN rule' = [rule EXCEPT ![s] = None] /\ given' = [given EXCEPT ![s] = {}]
         ELSE UNCHANGED <<rule, given>>
      /\ txn' = [txn EXCEPT ![a] = None] /\ UNCHANGED <<model, modelLog>>
  BY DEF R!DeleteRule, R!Same, R!Mine, R!End, R!models
<1>2. txn[a].row # None /\ s \in Scopes /\ txn[a].row.id <= Used
      /\ \A t \in Scopes : rule[t] # None /\ rule[t].id = txn[a].row.id => t = s
  BY <1>1, RuleRequest DEF RuleTxnOK
<1>3. h \in RuleEntry /\ h.id = txn[a].row.id BY <1>1, <1>2, RowRead
<1>4. RulesOK(rule, ruleLog, given) BY DEF SaveInv
<1> HIDE DEF s, h
<1>5. CASE rule[s] # None /\ rule[s].id = txn[a].row.id
  <2>1. /\ RulesOK(rule', ruleLog', given')
        /\ \A x \in RuleTxn : RuleTxnOK(x, rule, given, Used) => RuleTxnOK(x, rule', given', Used')
    BY <1>1, <1>2, <1>3, <1>4, <1>5, RuleDeleted
  <2> QED BY <1>1, <2>1, RuleEnds
<1>6. CASE ~(rule[s] # None /\ rule[s].id = txn[a].row.id)
  <2>1. h.id <= Used /\ \A t \in Scopes : rule[t] # None => rule[t].id # h.id BY <1>2, <1>3, <1>6
  <2>2. /\ RulesOK(rule', ruleLog', given')
        /\ \A x \in RuleTxn : RuleTxnOK(x, rule, given, Used) => RuleTxnOK(x, rule', given', Used')
    BY <1>1, <1>3, <1>4, <1>6, <2>1, RuleGone
  <2> QED BY <1>1, <2>2, RuleEnds
<1> QED BY <1>5, <1>6

LEMMA SaveFails ==
  ASSUME RulesAssumption, SaveInv, NEW a \in Admins, R!FailRule(a) PROVE SaveInv'
<1>1. txn' = [txn EXCEPT ![a] = None] /\ UNCHANGED <<rule, ruleLog, given, model, modelLog>>
  BY DEF R!FailRule, R!End, R!rules, R!models
<1>2. Used' = Used /\ RulesOK(rule', ruleLog', given') BY <1>1 DEF Used, SaveInv
<1> QED BY <1>1, <1>2, RuleEnds

(* Requests about models.  What one has read exists for ever.              *)
LEMMA ModelEnds ==
  ASSUME RulesAssumption, SaveInv, NEW a \in Admins, txn' = [txn EXCEPT ![a] = None],
         ModelsOK(model'), modelLog' \in SUBSET ModelEntry,
         \A m \in Models : model[m] # None => model'[m] # None,
         UNCHANGED <<rule, ruleLog, given>>
  PROVE  SaveInv'
<1>1. /\ txn' \in [Admins -> {None} \cup RuleTxn \cup ModelTxn] /\ txn'[a] = None
      /\ \A b \in Admins : b # a => txn'[b] = txn[b]
  BY SaveTyped
<1>2. Used' = Used /\ RulesOK(rule', ruleLog', given') BY DEF Used, SaveInv
<1>3. ASSUME NEW b \in Admins PROVE TxnOK(txn'[b], rule', given', Used', model')
  <2>1. CASE b = a BY <1>1, <2>1 DEF TxnOK
  <2>2. CASE b # a
    <3>1. txn'[b] = txn[b] /\ TxnOK(txn[b], rule, given, Used, model) BY <1>1, <2>2 DEF SaveInv
    <3>2. ModelTxnOK(txn[b], model) => ModelTxnOK(txn[b], model') BY DEF ModelTxnOK, ModelTxn
    <3>3. rule' = rule /\ given' = given OBVIOUS
    <3> QED BY <1>2, <3>1, <3>2, <3>3 DEF TxnOK
  <2> QED BY <2>1, <2>2
<1> QED BY <1>1, <1>2, <1>3 DEF SaveInv

LEMMA ModelRequest ==
  ASSUME RulesAssumption, SaveInv, NEW a \in Admins,
         NEW op \in {"newModel", "model", "modelRollback"}, R!Is(a, op)
  PROVE  /\ txn[a] \in ModelTxn /\ txn[a].key \in Models /\ txn[a].arg \in ModelRow
         /\ op # "newModel" => txn[a].row \in ModelRow /\ model[txn[a].key] \in ModelRow
<1>1. txn[a] # None /\ txn[a].op = op BY DEF R!Is
<1>2. ~RuleTxnOK(txn[a], rule, given, Used) BY <1>1 DEF RuleTxnOK, RuleTxn
<1>3. ModelTxnOK(txn[a], model) BY <1>1, <1>2, SaveTyped DEF TxnOK
<1>4. txn[a] \in ModelTxn /\ (op # "newModel" => txn[a].row # None /\ model[txn[a].key] # None)
  BY <1>1, <1>3 DEF ModelTxnOK
<1>5. txn[a].key \in Models /\ txn[a].arg \in ModelRow /\ txn[a].row \in ModelRow \cup {None}
  BY <1>4 DEF ModelTxn
<1> QED BY <1>4, <1>5, SaveTyped

LEMMA SaveStartModel ==
  ASSUME RulesAssumption, SaveInv, NEW a \in Admins, R!StartModel(a) PROVE SaveInv'
<1>1. PICK m \in Models, c \in Configs, on \in BOOLEAN :
        /\ UNCHANGED <<rule, ruleLog, given, model, modelLog>>
        /\ \/ model[m] = None /\ R!Begin(a, "newModel", m, [config |-> c, enabled |-> on])
           \/ model[m] # None /\ R!Begin(a, "model", m, [config |-> c, enabled |-> on])
           \/ model[m] # None /\ R!Begin(a, "modelRollback", m, [config |-> c, enabled |-> on])
  BY DEF R!StartModel, R!rules, R!models
<1> DEFINE arg == [config |-> c, enabled |-> on]
<1>2. arg \in ModelRow BY DEF ModelRow
<1> HIDE DEF arg
<1>3. PICK op \in {"newModel", "model", "modelRollback"} :
        R!Begin(a, op, m, arg) /\ (op # "newModel" => model[m] # None)
  BY <1>1 DEF arg
<1> DEFINE x == [op |-> op, key |-> m, arg |-> arg, row |-> model[m]]
<1>4. txn' = [txn EXCEPT ![a] = x] BY <1>3 DEF R!Begin
<1>5. x \in ModelTxn /\ x.op = op /\ x.key = m /\ x.row = model[m] BY <1>2, SaveTyped DEF ModelTxn
<1> HIDE DEF x
<1>6. ModelTxnOK(x, model) BY <1>3, <1>5 DEF ModelTxnOK
<1>7. TxnOK(x, rule, given, Used, model) BY <1>6 DEF TxnOK
<1> QED BY <1>1, <1>4, <1>5, <1>7, Begins

LEMMA SaveDisables ==
  ASSUME RulesAssumption, SaveInv, NEW a \in Admins, R!Disable(a) PROVE SaveInv'
<1>1. UNCHANGED <<rule, ruleLog, given, model, modelLog, txn>> BY DEF R!Disable, R!rules
<1>2. Used' = Used BY <1>1 DEF Used
<1> QED BY <1>1, <1>2 DEF SaveInv

(* A commit: an enabled row leaves no other enabled; another one enables   *)
(* nothing.                                                                *)
LEMMA SaveCommits ==
  ASSUME RulesAssumption, SaveInv, NEW a \in Admins, NEW op \in {"newModel", "model", "modelRollback"},
         R!Is(a, op), NEW r \in ModelRow, NEW logged \in SUBSET ModelRow, R!CommitModel(a, r, logged),
         r.enabled => txn[a].arg.enabled \/ (model[txn[a].key] # None /\ model[txn[a].key].enabled)
  PROVE  SaveInv'
<1> DEFINE m == txn[a].key
           rest == R!Rest(a)
<1>1. m \in Models /\ txn[a].arg \in ModelRow BY ModelRequest
<1>2. /\ model' = [rest EXCEPT ![m] = r]
      /\ modelLog' = modelLog \cup {[id |-> m, row |-> x] : x \in logged}
      /\ txn' = [txn EXCEPT ![a] = None] /\ UNCHANGED <<rule, ruleLog, given>>
  BY DEF R!CommitModel, R!Mine, R!End, R!rules
<1>3. model \in [Models -> ModelRow \cup {None}] /\ None \notin ModelRow
  BY SaveTyped DEF RulesAssumption
<1>4. /\ rest \in [Models -> ModelRow \cup {None}]
      /\ \A n \in Models : model[n] # None => rest[n] # None
      /\ \A n \in Models : rest[n] # None /\ rest[n].enabled => model[n] # None /\ model[n].enabled
      /\ txn[a].arg.enabled => \A n \in Models : n # m /\ rest[n] # None => ~rest[n].enabled
  <2>1. CASE txn[a].arg.enabled
    <3>1. rest = [n \in Models |-> IF n = m \/ model[n] = None THEN model[n]
                                   ELSE [model[n] EXCEPT !.enabled = FALSE]]
      BY <2>1 DEF R!Rest, R!Others, R!Exclusive, R!Mine
    <3>2. \A x \in ModelRow : /\ [x EXCEPT !.enabled = FALSE] \in ModelRow
                              /\ ~[x EXCEPT !.enabled = FALSE].enabled
      BY DEF ModelRow
    <3>3. ASSUME NEW n \in Models
          PROVE  /\ rest[n] \in ModelRow \cup {None} /\ (model[n] # None => rest[n] # None)
                 /\ rest[n] # None /\ rest[n].enabled => model[n] # None /\ model[n].enabled
                 /\ n # m /\ rest[n] # None => ~rest[n].enabled
      <4>1. CASE n = m \/ model[n] = None BY <1>3, <3>1, <4>1
      <4>2. CASE n # m /\ model[n] # None
        <5>1. rest[n] = [model[n] EXCEPT !.enabled = FALSE] /\ model[n] \in ModelRow
          BY <1>3, <3>1, <4>2
        <5> QED BY <1>3, <3>2, <4>2, <5>1
      <4> QED BY <4>1, <4>2
    <3>4. DOMAIN rest = Models /\ rest = [n \in Models |-> rest[n]] BY <3>1
    <3> HIDE DEF rest
    <3> QED BY <3>3, <3>4
  <2>2. CASE ~txn[a].arg.enabled
    <3>1. rest = model BY <2>2 DEF R!Rest, R!Exclusive, R!Mine
    <3> QED BY <1>3, <2>2, <3>1
  <2> QED BY <2>1, <2>2
<1> HIDE DEF rest, m
<1>5. /\ model' \in [Models -> ModelRow \cup {None}] /\ model'[m] = r
      /\ \A n \in Models : n # m => model'[n] = rest[n]
  BY <1>1, <1>2, <1>4
<1>6. \A n \in Models : model[n] # None => model'[n] # None BY <1>3, <1>4, <1>5
<1>7. ASSUME NEW n \in Models, NEW k \in Models, model'[n] # None, model'[k] # None,
             model'[n].enabled, model'[k].enabled, n # k
      PROVE  FALSE
  <2>1. \A i, j \in Models : model[i] # None /\ model[j] # None /\ model[i].enabled /\ model[j].enabled => i = j
    BY DEF SaveInv, ModelsOK
  <2>2. CASE n # m /\ k # m BY <1>4, <1>5, <1>7, <2>1, <2>2
  <2>3. ASSUME NEW j \in Models, j # m, model'[j] # None, model'[j].enabled, r.enabled PROVE FALSE
    <3>1. rest[j] # None /\ rest[j].enabled BY <1>5, <2>3
    <3>2. ~txn[a].arg.enabled BY <1>4, <2>3, <3>1
    <3>3. model[m] # None /\ model[m].enabled /\ model[j] # None /\ model[j].enabled
      BY <1>4, <2>3, <3>1, <3>2 DEF m
    <3> QED BY <1>1, <2>1, <2>3, <3>3
  <2> QED BY <1>5, <1>7, <2>2, <2>3
<1>8. ModelsOK(model') BY <1>5, <1>7 DEF ModelsOK
<1>9. modelLog' \in SUBSET ModelEntry
  <2>1. \A x \in logged : [id |-> m, row |-> x] \in ModelEntry BY <1>1 DEF ModelEntry
  <2> QED BY <1>2, <2>1, SaveTyped
<1> QED BY <1>2, <1>6, <1>8, <1>9, ModelEnds

LEMMA SaveModels ==
  ASSUME RulesAssumption, SaveInv, NEW a \in Admins,
         R!CreateModel(a) \/ R!UpdateModel(a) \/ R!ModelRollback(a) PROVE SaveInv'
<1>1. CASE R!CreateModel(a)
  <2>1. R!Is(a, "newModel") /\ R!CommitModel(a, txn[a].arg, {txn[a].arg})
    BY <1>1 DEF R!CreateModel, R!Mine
  <2>2. txn[a].arg \in ModelRow BY <2>1, ModelRequest
  <2> DEFINE r == txn[a].arg
             L == {txn[a].arg}
             op == "newModel"
  <2>3. /\ L \in SUBSET ModelRow /\ op \in {"newModel", "model", "modelRollback"} /\ R!Is(a, op)
        /\ R!CommitModel(a, r, L) /\ r \in ModelRow /\ (r.enabled => txn[a].arg.enabled)
    BY <2>1, <2>2
  <2> HIDE DEF r, L, op
  <2> QED BY <2>3, SaveCommits
<1>2. CASE R!UpdateModel(a) \/ R!ModelRollback(a)
  <2> DEFINE r == R!Written(txn[a].row, txn[a].arg, model[txn[a].key])
  <2>1. PICK op \in {"model", "modelRollback"}, L \in {{txn[a].row}, {txn[a].row, txn[a].arg}} :
          R!Is(a, op) /\ R!CommitModel(a, r, L)
    BY <1>2 DEF R!UpdateModel, R!ModelRollback, R!Mine
  <2>2. txn[a].arg \in ModelRow /\ txn[a].row \in ModelRow /\ model[txn[a].key] \in ModelRow
    BY <2>1, ModelRequest
  <2>3. r \in ModelRow /\ (r.enabled => txn[a].arg.enabled \/ model[txn[a].key].enabled)
    BY <2>2, ModelWritten
  <2>4. model[txn[a].key] # None /\ L \in SUBSET ModelRow /\ op \in {"newModel", "model", "modelRollback"}
    BY <2>1, <2>2 DEF RulesAssumption
  <2> HIDE DEF r
  <2> QED BY <2>1, <2>3, <2>4, SaveCommits
<1> QED BY <1>1, <1>2

LEMMA SaveModelFails ==
  ASSUME RulesAssumption, SaveInv, NEW a \in Admins, R!FailModel(a) PROVE SaveInv'
<1>1. txn' = [txn EXCEPT ![a] = None] /\ UNCHANGED <<rule, ruleLog, given, model, modelLog>>
  BY DEF R!FailModel, R!End, R!rules
<1>2. ModelsOK(model') /\ modelLog' \in SUBSET ModelEntry BY <1>1 DEF SaveInv
<1> QED BY <1>1, <1>2, ModelEnds

LEMMA SaveStep == ASSUME RulesAssumption, SaveInv, [R!Next]_R!vars PROVE SaveInv'
<1>1. CASE R!Next
  <2>1. PICK a \in Admins :
          \/ R!StartRule(a) \/ R!CreateRule(a) \/ R!SaveRule(a) \/ R!RollbackRule(a) \/ R!SaveEditors(a)
          \/ R!DeleteRule(a) \/ R!FailRule(a) \/ R!StartModel(a) \/ R!Disable(a)
          \/ (R!CreateModel(a) \/ R!UpdateModel(a) \/ R!ModelRollback(a)) \/ R!FailModel(a)
    BY <1>1 DEF R!Next
  <2> QED BY <2>1, SaveStartRule, SaveInserts, SaveSaves, SaveRollsBack, SaveEdits, SaveDeletes, SaveFails,
             SaveStartModel, SaveDisables, SaveModels, SaveModelFails
<1>2. CASE UNCHANGED R!vars
  <2>1. UNCHANGED <<rule, ruleLog, model, modelLog, txn, given>> BY <1>2 DEF R!vars
  <2>2. Used' = Used BY <2>1 DEF Used
  <2> QED BY <2>1, <2>2 DEF SaveInv
<1> QED BY <1>1, <1>2

(* Reviews of a department with rules of its own use what was saved for it *)
(* (resolve_rule_config in service.py), whatever requests of other         *)
(* administrators overlap with its own: for any number of them.            *)
THEOREM DepartmentsKept ==
  RulesAssumption => (R!Spec => []R!DepartmentsStandAlone) /\ (Spec => []DepartmentsStandAlone)
<1> SUFFICES ASSUME RulesAssumption
             PROVE  (R!Spec => []R!DepartmentsStandAlone) /\ (Spec => []DepartmentsStandAlone)
  OBVIOUS
<1>1. R!Init => SaveInv BY SaveInit
<1>2. SaveInv /\ [R!Next]_R!vars => SaveInv' BY SaveStep
<1>3. SaveInv => R!DepartmentsStandAlone
  BY DEF SaveInv, RulesOK, R!DepartmentsStandAlone, R!ResolveRuleConfig
<1>4. R!Spec => []R!DepartmentsStandAlone BY <1>1, <1>2, <1>3, PTL DEF R!Spec
<1> DEFINE Chosen == which = "rules" => SaveInv
<1>5. Init => Chosen BY <1>1, Starts
<1>6. Chosen /\ [Next]_all => Chosen' BY <1>2, Steps
<1>7. Chosen => DepartmentsStandAlone BY <1>3 DEF DepartmentsStandAlone
<1>8. Spec => []DepartmentsStandAlone
  <2> HIDE DEF Chosen
  <2> QED BY <1>5, <1>6, <1>7, PTL DEF Spec
<1> QED BY <1>4, <1>8

(* At most one model configuration is enabled (update_model and            *)
(* model_rollback in main.py), for any number of overlapping requests.     *)
THEOREM OneEnabled ==
  RulesAssumption => (R!Spec => []R!OneModelEnabled) /\ (Spec => []OneModelEnabled)
<1> SUFFICES ASSUME RulesAssumption
             PROVE  (R!Spec => []R!OneModelEnabled) /\ (Spec => []OneModelEnabled)
  OBVIOUS
<1>1. R!Init => SaveInv BY SaveInit
<1>2. SaveInv /\ [R!Next]_R!vars => SaveInv' BY SaveStep
<1>3. SaveInv => R!OneModelEnabled
  <2> SUFFICES ASSUME SaveInv PROVE R!OneModelEnabled
    OBVIOUS
  <2> DEFINE S == {m \in Models : model[m] # None /\ model[m].enabled}
  <2>1. \A m, n \in S : m = n BY DEF SaveInv, ModelsOK
  <2>2. S = {} \/ \E m \in S : S = {m} BY <2>1
  <2> HIDE DEF S
  <2>3. Cardinality(S) <= 1 BY <2>2, FS_EmptySet, FS_Singleton
  <2>4. R!Cardinality(S) = Cardinality(S) BY DEF R!Cardinality, Cardinality
  <2> QED BY <2>3, <2>4 DEF S, R!OneModelEnabled
<1>4. R!Spec => []R!OneModelEnabled BY <1>1, <1>2, <1>3, PTL DEF R!Spec
<1> DEFINE Chosen == which = "rules" => SaveInv
<1>5. Init => Chosen BY <1>1, Starts
<1>6. Chosen /\ [Next]_all => Chosen' BY <1>2, Steps
<1>7. Chosen => OneModelEnabled BY <1>3 DEF OneModelEnabled
<1>8. Spec => []OneModelEnabled
  <2> HIDE DEF Chosen
  <2> QED BY <1>5, <1>6, <1>7, PTL DEF Spec
<1> QED BY <1>4, <1>8

-----------------------------------------------------------------------------
(* PageIdentity. *)

LEMMA IdentityTyped ==
  ASSUME IdentityInv, NEW p \in I!Procs
  PROVE  /\ dir \in Nat /\ 1 <= dir /\ hash \in Nat /\ hash <= dir
         /\ wanted \in [PageMonths -> SUBSET Keys] /\ queue \in [PageMonths -> Nat]
         /\ ident \in [PageMonths -> [Keys -> Nat]] /\ monthOrg \in [PageMonths -> OrgMonth]
         /\ worker \in [I!Procs -> Slot] /\ SlotOK(worker[p], dir)
         /\ (p \in Workers => WorkOK(worker[p], queue, wanted, ident, stray, hash))
         /\ (monthLock = p => Fetched(worker[p], ident, stray) /\ Owed(worker[p], queue, wanted, worker, hash))
BY DEF IdentityInv

LEMMA SlotTyped ==
  ASSUME NEW x \in Slot
  PROVE  /\ x.gen \in Nat /\ x.keys \in SUBSET Keys /\ x.before \in Nat /\ x.version \in Nat
         /\ x.pages \in SUBSET Nat /\ x.read \in Nat /\ x.due \in SUBSET Keys
         /\ x.month \in PageMonths \cup {None}
         /\ x.pc \in Seen \cup {"out", "lock", "version", "done", "failed"}
BY DEF Slot

(* A process that rests. *)
LEMMA OutIs ==
  ASSUME IdentityInv
  PROVE  /\ I!Out \in Slot /\ I!Out.pc = "out" /\ I!Out.pages = {} /\ I!Out.before = 0 /\ I!Out.version = 0
         /\ SlotOK(I!Out, dir) /\ WorkOK(I!Out, queue, wanted, ident, stray, hash)
<1> DEFINE z == 0
           x == [pc |-> "out", month |-> None, gen |-> z, keys |-> {}, before |-> z, version |-> z,
                 pages |-> {}, read |-> z, due |-> {}]
<1>1. I!Out = x BY DEF I!Out
<1>2. z \in Nat /\ z <= dir BY DEF IdentityInv
<1>3. z = 0 OBVIOUS
<1> HIDE DEF z
<1>4. x \in Slot /\ x.pc = "out" /\ x.pages = {} /\ x.before = z /\ x.version = z BY <1>2 DEF Slot
<1> HIDE DEF x
<1>5. SlotOK(x, dir) /\ WorkOK(x, queue, wanted, ident, stray, hash)
  BY <1>2, <1>3, <1>4 DEF SlotOK, WorkOK, Seen
<1> QED BY <1>1, <1>3, <1>4, <1>5

LEMMA IdentityInit == ASSUME IdentityAssumption, I!Init PROVE IdentityInv
<1> DEFINE z == 0
           d == 1
           o == [version |-> z, pages |-> {}]
           x == [pc |-> "out", month |-> None, gen |-> z, keys |-> {}, before |-> z, version |-> z,
                 pages |-> {}, read |-> z, due |-> {}]
<1>1. /\ dir = d /\ hash = z /\ status = z /\ wanted = [m \in PageMonths |-> {}] /\ queue = [m \in PageMonths |-> z]
      /\ ident = [m \in PageMonths |-> [k \in Keys |-> z]] /\ monthOrg = [m \in PageMonths |-> o]
      /\ worker = [p \in I!Procs |-> x] /\ monthLock = None
  BY DEF I!Init, I!Out, I!NoOrg
<1>2. z \in Nat /\ d \in Nat /\ 1 <= d /\ z <= d OBVIOUS
<1> HIDE DEF z, d
<1>3. x \in Slot /\ x.pc = "out" /\ x.pages = {} /\ x.before = z /\ x.version = z BY <1>2 DEF Slot
<1>4. o \in OrgMonth /\ o.pages = {} BY <1>2 DEF OrgMonth
<1> HIDE DEF x, o
<1>5. SlotOK(x, d) BY <1>2, <1>3 DEF SlotOK, Seen
<1>6. \A w \in Workers : worker[w].pc = "out" BY <1>1, <1>3 DEF I!Procs
<1>7. \A w \in Workers : WorkOK(worker[w], queue, wanted, ident, stray, hash) BY <1>6 DEF WorkOK
<1>8. \A m \in PageMonths : Known(ident, stray, m, wanted[m], hash) BY <1>1 DEF Known
<1>9. \A m \in PageMonths : monthOrg[m].pages \subseteq {monthOrg[m].version} BY <1>1, <1>4
<1>10. ident \in [PageMonths -> [Keys -> Nat]] BY <1>1, <1>2
<1>11. \A p \in I!Procs : SlotOK(worker[p], dir) BY <1>1, <1>5
<1>12. \A p \in I!Procs : monthLock # p BY <1>1 DEF IdentityAssumption
<1> QED BY <1>1, <1>2, <1>3, <1>4, <1>7, <1>8, <1>9, <1>10, <1>11, <1>12 DEF IdentityInv

(* One process goes on: identities, uploads and queue stay as they are.    *)
LEMMA ProcMoves ==
  ASSUME IdentityInv, NEW p \in I!Procs, NEW x, SlotOK(x, dir),
         p \in Workers => WorkOK(x, queue, wanted, ident, stray, hash),
         worker' = [worker EXCEPT ![p] = x], UNCHANGED <<dir, wanted, queue, hash, ident, stray, status>>,
         monthOrg' \in [PageMonths -> OrgMonth],
         \A m \in PageMonths : monthOrg'[m].pages \subseteq {monthOrg'[m].version},
         \A q \in I!Procs \ {p} : monthLock' = q => monthLock = q /\ x.pc # "done",
         monthLock' = p => Fetched(x, ident, stray) /\ Owed(x, queue, wanted, worker, hash) /\ x.pc # "done"
  PROVE  IdentityInv'
<1>1. x \in Slot BY DEF SlotOK
<1>2. /\ worker' \in [I!Procs -> Slot] /\ worker'[p] = x
      /\ \A q \in I!Procs : q # p => worker'[q] = worker[q]
  BY <1>1, IdentityTyped
<1>3. \A q \in I!Procs : SlotOK(worker'[q], dir) BY <1>2, IdentityTyped
<1>4. \A w \in Workers : w \in I!Procs BY DEF I!Procs
<1>5. \A w \in Workers : WorkOK(worker'[w], queue, wanted, ident, stray, hash)
  BY <1>2, <1>4, IdentityTyped
<1>6. I!Procs' = I!Procs BY DEF I!Procs
<1>7. ASSUME NEW q \in I!Procs, monthLock' = q
      PROVE  Fetched(worker'[q], ident, stray) /\ Owed(worker'[q], queue, wanted, worker', hash)
  <2>1. Fetched(worker'[q], ident, stray) /\ Owed(worker'[q], queue, wanted, worker, hash) /\ x.pc # "done"
    BY <1>2, <1>7, IdentityTyped
  <2>2. \A w \in Workers : worker'[w].pc = "done" => worker'[w] = worker[w] BY <1>2, <1>4, <2>1
  <2>3. Owed(worker'[q], queue, wanted, worker', hash)
    <3> DEFINE y == worker'[q]
    <3>1. Owed(y, queue, wanted, worker, hash) BY <2>1
    <3> HIDE DEF y
    <3>2. Owed(y, queue, wanted, worker', hash) BY <2>2, <3>1 DEF Owed
    <3> QED BY <3>2 DEF y
  <2> QED BY <2>1, <2>3
<1>8. \A m \in PageMonths : queue[m] = 0 => Known(ident, stray, m, wanted[m], hash)
  BY DEF IdentityInv
<1>9. /\ dir \in Nat /\ 1 <= dir /\ hash \in Nat /\ hash <= dir /\ status \in Nat /\ status <= dir
      /\ wanted \in [PageMonths -> SUBSET Keys] /\ queue \in [PageMonths -> Nat]
      /\ ident \in [PageMonths -> [Keys -> Nat]]
  BY DEF IdentityInv
<1> QED BY <1>2, <1>3, <1>5, <1>6, <1>7, <1>8, <1>9 DEF IdentityInv

LEMMA OrgsStay ==
  ASSUME IdentityInv, UNCHANGED monthOrg
  PROVE  /\ monthOrg' \in [PageMonths -> OrgMonth]
         /\ \A m \in PageMonths : monthOrg'[m].pages \subseteq {monthOrg'[m].version}
BY DEF IdentityInv

(* A step that changes no more than that of the process. *)
LEMMA StepKeeps ==
  ASSUME IdentityInv, NEW p \in I!Procs, NEW y \in Slot, SlotOK(y, dir), worker[p].pc # "out",
         y.pc # "done", y.month = worker[p].month, y.gen = worker[p].gen, y.keys = worker[p].keys,
         worker' = [worker EXCEPT ![p] = y], UNCHANGED <<dir, wanted, queue, hash, ident, stray, status>>,
         monthOrg' \in [PageMonths -> OrgMonth],
         \A m \in PageMonths : monthOrg'[m].pages \subseteq {monthOrg'[m].version},
         \A q \in I!Procs \ {p} : monthLock' = q => monthLock = q,
         monthLock' = p => /\ Fetched(y, ident, stray)
                           /\ y.pc \in Seen => \/ ~(y.version < hash)
                                               \/ monthLock = p /\ worker[p].pc \in Seen /\ y.version = worker[p].version
  PROVE  IdentityInv'
<1>1. p \in Workers => WorkOK(y, queue, wanted, ident, stray, hash) BY IdentityTyped DEF WorkOK
<1>2. ASSUME monthLock' = p PROVE Owed(y, queue, wanted, worker, hash)
  <2>1. CASE y.pc \notin Seen \/ ~(y.version < hash) BY <2>1 DEF Owed
  <2>2. CASE monthLock = p /\ worker[p].pc \in Seen /\ y.version = worker[p].version
    <3> DEFINE x == worker[p]
    <3>1. Owed(x, queue, wanted, worker, hash) /\ x.pc \in Seen /\ y.version = x.version /\ y.month = x.month
      BY <2>2, IdentityTyped
    <3> HIDE DEF x
    <3> QED BY <3>1 DEF Owed
  <2> QED BY <1>2, <2>1, <2>2
<1> QED BY <1>1, <1>2, ProcMoves

LEMMA WorkersAre == \A w \in Workers : w \in I!Procs
BY DEF I!Procs

LEMMA IdentityPick ==
  ASSUME IdentityAssumption, IdentityInv, NEW w \in Workers, I!Pick(w) PROVE IdentityInv'
<1>1. PICK m \in PageMonths :
        /\ queue[m] > 0
        /\ worker' = [worker EXCEPT ![w] = [I!Out EXCEPT !.pc = "lock", !.month = m, !.gen = queue[m], !.keys = wanted[m]]]
  BY DEF I!Pick
<1>2. UNCHANGED <<dir, wanted, queue, hash, ident, stray, monthOrg, monthLock, status>> /\ worker[w].pc = "out"
  BY DEF I!Pick, I!sources, I!cached, I!At
<1> DEFINE x == [I!Out EXCEPT !.pc = "lock", !.month = m, !.gen = queue[m], !.keys = wanted[m]]
<1>3. /\ w \in I!Procs /\ queue[m] \in Nat /\ wanted[m] \in SUBSET Keys /\ dir \in Nat
  BY WorkersAre DEF IdentityInv
<1>4. /\ x \in Slot /\ x.pc = "lock" /\ x.month = m /\ x.gen = queue[m] /\ x.keys = wanted[m]
      /\ x.before = I!Out.before /\ x.version = I!Out.version /\ x.pages = I!Out.pages
  BY <1>3, OutIs DEF Slot
<1> HIDE DEF x
<1>5. SlotOK(x, dir) BY <1>3, <1>4, OutIs DEF SlotOK, Seen
<1>6. WorkOK(x, queue, wanted, ident, stray, hash) BY <1>1, <1>3, <1>4 DEF WorkOK
<1>7. worker' = [worker EXCEPT ![w] = x] BY <1>1 DEF x
<1>8. Fetched(x, ident, stray) /\ Owed(x, queue, wanted, worker, hash) /\ x.pc # "done"
  BY <1>4 DEF Fetched, Owed, Seen
<1> QED BY <1>2, <1>3, <1>5, <1>6, <1>7, <1>8, OrgsStay, ProcMoves

LEMMA IdentityRebuild ==
  ASSUME IdentityAssumption, IdentityInv, NEW b \in Builders, I!Rebuild(b) PROVE IdentityInv'
<1>1. PICK m \in PageMonths :
        worker' = [worker EXCEPT ![b] = [I!Out EXCEPT !.pc = "lock", !.month = m, !.keys = wanted[m]]]
  BY DEF I!Rebuild
<1>2. UNCHANGED <<dir, wanted, queue, hash, ident, stray, monthOrg, monthLock, status>>
  BY DEF I!Rebuild, I!sources, I!cached
<1> DEFINE x == [I!Out EXCEPT !.pc = "lock", !.month = m, !.keys = wanted[m]]
<1>3. b \in I!Procs /\ b \notin Workers BY DEF I!Procs, IdentityAssumption
<1>4. wanted[m] \in SUBSET Keys /\ dir \in Nat BY DEF IdentityInv
<1>5. /\ x \in Slot /\ x.pc = "lock" /\ x.month = m
      /\ x.before = I!Out.before /\ x.version = I!Out.version /\ x.pages = I!Out.pages
  BY <1>4, OutIs DEF Slot
<1> HIDE DEF x
<1>6. SlotOK(x, dir) BY <1>4, <1>5, OutIs DEF SlotOK, Seen
<1>7. worker' = [worker EXCEPT ![b] = x] BY <1>1 DEF x
<1>8. Fetched(x, ident, stray) /\ Owed(x, queue, wanted, worker, hash) /\ x.pc # "done"
  BY <1>5 DEF Fetched, Owed, Seen
<1> QED BY <1>2, <1>3, <1>6, <1>7, <1>8, OrgsStay, ProcMoves

LEMMA IdentityLock ==
  ASSUME IdentityAssumption, IdentityInv, NEW p \in I!Procs, I!Lock(p) PROVE IdentityInv'
<1> DEFINE x == worker[p]
           y == [x EXCEPT !.pc = "version", !.before = dir]
<1>1. /\ x.pc = "lock" /\ worker' = [worker EXCEPT ![p] = y] /\ monthLock' = p
      /\ UNCHANGED <<dir, wanted, queue, hash, ident, stray, monthOrg, status>>
  BY DEF I!Lock, I!At, I!sources, I!cached
<1>2. x \in Slot /\ SlotOK(x, dir) /\ dir \in Nat BY IdentityTyped
<1> HIDE DEF x
<1>3. /\ y \in Slot /\ y.pc = "version" /\ y.before = dir /\ y.version = x.version /\ y.pages = x.pages
      /\ y.month = x.month /\ y.gen = x.gen /\ y.keys = x.keys
  BY <1>2 DEF Slot
<1> HIDE DEF y
<1>4. SlotOK(y, dir) /\ Fetched(y, ident, stray) /\ y.pc \notin Seen
  BY <1>1, <1>2, <1>3 DEF SlotOK, Fetched, Seen
<1> USE DEF x
<1> QED BY <1>1, <1>3, <1>4, OrgsStay, StepKeeps

LEMMA IdentityVersion ==
  ASSUME IdentityAssumption, IdentityInv, NEW p \in I!Procs, I!DirectoryVersion(p) PROVE IdentityInv'
<1> DEFINE x == worker[p]
           y == [x EXCEPT !.version = dir, !.pc = "look"]
<1>1. /\ x.pc = "version" /\ worker' = [worker EXCEPT ![p] = y]
      /\ UNCHANGED <<dir, wanted, queue, hash, ident, stray, monthOrg, monthLock, status>>
  BY DEF I!DirectoryVersion, I!At, I!sources, I!cached
<1>2. x \in Slot /\ SlotOK(x, dir) /\ dir \in Nat /\ 1 <= dir /\ hash \in Nat /\ hash <= dir
  BY IdentityTyped
<1> HIDE DEF x
<1>3. /\ y \in Slot /\ y.pc = "look" /\ y.before = x.before /\ y.version = dir /\ y.pages = x.pages
      /\ y.month = x.month /\ y.gen = x.gen /\ y.keys = x.keys
  BY <1>2 DEF Slot, Seen
<1> HIDE DEF y
<1>4. SlotOK(y, dir) /\ Fetched(y, ident, stray) /\ ~(y.version < hash)
  BY <1>1, <1>2, <1>3 DEF SlotOK, Fetched
<1> USE DEF x
<1> QED BY <1>1, <1>3, <1>4, OrgsStay, StepKeeps

(* Where the organisation is, or whose it copies, one version only. *)
LEMMA IdentityLook ==
  ASSUME IdentityAssumption, IdentityInv, NEW p \in I!Procs, I!Look(p) PROVE IdentityInv'
<1> DEFINE x == worker[p]
<1>1. /\ x.pc = "look"
      /\ UNCHANGED <<dir, wanted, queue, hash, ident, stray, monthOrg, monthLock, status>>
  BY DEF I!Look, I!At, I!sources, I!cached
<1>2. x \in Slot /\ SlotOK(x, dir) /\ x.pages = {} BY <1>1, IdentityTyped DEF SlotOK
<1>3. \E pages \in SUBSET {x.version} : \E pc \in {"due", "store", "pages"} :
        worker' = [worker EXCEPT ![p] = [x EXCEPT !.pages = pages, !.pc = pc]]
  <2>1. CASE \E pc \in {"due", "pages"} : I!Goto(p, pc)
    <3>1. PICK pc \in {"due", "pages"} : worker' = [worker EXCEPT ![p].pc = pc]
      BY <2>1 DEF I!Goto
    <3>2. [x EXCEPT !.pc = pc] = [x EXCEPT !.pages = {}, !.pc = pc]
      <4> HIDE DEF x
      <4> QED BY <1>2 DEF Slot
    <3>3. worker' = [worker EXCEPT ![p] = [x EXCEPT !.pc = pc]] BY <3>1
    <3> QED BY <3>2, <3>3
  <2>2. CASE \E m \in I!Alike(p) : worker' = [worker EXCEPT ![p].pages = monthOrg[m].pages, ![p].pc = "store"]
    <3>1. PICK m \in I!Alike(p) : worker' = [worker EXCEPT ![p].pages = monthOrg[m].pages, ![p].pc = "store"]
      BY <2>2
    <3>2. m \in PageMonths /\ monthOrg[m].version = x.version BY DEF I!Alike
    <3>3. monthOrg[m].pages \subseteq {x.version} BY <3>2 DEF IdentityInv
    <3>4. worker' = [worker EXCEPT ![p] = [x EXCEPT !.pages = monthOrg[m].pages, !.pc = "store"]]
      BY <3>1, IdentityTyped
    <3> QED BY <3>3, <3>4
  <2> QED BY <2>1, <2>2 DEF I!Look
<1>4. PICK pages \in SUBSET {x.version}, pc \in {"due", "store", "pages"} :
        worker' = [worker EXCEPT ![p] = [x EXCEPT !.pages = pages, !.pc = pc]]
  BY <1>3
<1> DEFINE y == [x EXCEPT !.pages = pages, !.pc = pc]
<1>5. worker' = [worker EXCEPT ![p] = y] BY <1>4
<1> HIDE DEF x
<1>6. pages \in SUBSET Nat BY <1>2, SlotTyped
<1>7. /\ y \in Slot /\ y.pc = pc /\ y.before = x.before /\ y.version = x.version /\ y.pages = pages
      /\ y.month = x.month /\ y.gen = x.gen /\ y.keys = x.keys
  BY <1>2, <1>6 DEF Slot, Seen
<1> HIDE DEF y
<1>8. SlotOK(y, dir) /\ Fetched(y, ident, stray) /\ x.pc \in Seen /\ y.pc # "done"
  BY <1>1, <1>2, <1>7 DEF SlotOK, Fetched, Seen
<1> USE DEF x
<1> QED BY <1>1, <1>5, <1>7, <1>8, OrgsStay, StepKeeps

LEMMA IdentityReadPage ==
  ASSUME IdentityAssumption, IdentityInv, NEW p \in I!Procs, I!ReadPage(p) PROVE IdentityInv'
<1> DEFINE x == worker[p]
           pc == IF x.read + 1 = DirectoryPages THEN "store" ELSE "pages"
           s == x.pages \cup {dir}
           n == x.read + 1
           y == [x EXCEPT !.pages = s, !.read = n, !.pc = pc]
<1>1. /\ x.pc = "pages" /\ dir = x.version
      /\ UNCHANGED <<dir, wanted, queue, hash, ident, stray, monthOrg, monthLock, status>>
  BY DEF I!ReadPage, I!At, I!SameVersion, I!sources, I!cached
<1>2. worker' = [worker EXCEPT ![p] = y] BY DEF I!ReadPage
<1>3. x \in Slot /\ SlotOK(x, dir) /\ dir \in Nat BY IdentityTyped
<1>4. pc \in {"store", "pages"} OBVIOUS
<1> HIDE DEF x, pc
<1>5. s \in SUBSET Nat /\ n \in Nat /\ s \subseteq {x.version} BY <1>1, <1>3, SlotTyped DEF SlotOK
<1> HIDE DEF s, n
<1>6. /\ y \in Slot /\ y.pc = pc /\ y.before = x.before /\ y.version = x.version /\ y.pages = s
      /\ y.month = x.month /\ y.gen = x.gen /\ y.keys = x.keys
  BY <1>3, <1>4, <1>5 DEF Slot, Seen
<1> HIDE DEF y
<1>7. SlotOK(y, dir) /\ Fetched(y, ident, stray) /\ x.pc \in Seen /\ y.pc # "done"
  BY <1>1, <1>3, <1>4, <1>5, <1>6 DEF SlotOK, Fetched, Seen
<1> USE DEF x
<1> QED BY <1>1, <1>2, <1>6, <1>7, OrgsStay, StepKeeps

(* Steps that give up. *)
LEMMA IdentityFails ==
  ASSUME IdentityAssumption, IdentityInv, NEW p \in I!Procs, I!Raise(p) \/ I!RequestFails(p)
  PROVE  IdentityInv'
<1> DEFINE x == worker[p]
           y == [x EXCEPT !.pc = "failed"]
<1>1. /\ x.pc \in Seen \cup {"lock", "version"} /\ worker' = [worker EXCEPT ![p] = y]
      /\ UNCHANGED <<dir, wanted, queue, hash, ident, stray, monthOrg, status>>
      /\ monthLock' = IF monthLock = p THEN None ELSE monthLock
  BY DEF I!Raise, I!RequestFails, I!At, I!Goto, I!Unlock, I!sources, I!cached, Seen
<1>2. x \in Slot /\ SlotOK(x, dir) BY IdentityTyped
<1> HIDE DEF x
<1>3. /\ y \in Slot /\ y.pc = "failed" /\ y.before = x.before /\ y.version = x.version
      /\ y.month = x.month /\ y.gen = x.gen /\ y.keys = x.keys
  BY <1>2 DEF Slot
<1> HIDE DEF y
<1>4. SlotOK(y, dir) /\ y.pc # "done" /\ x.pc # "out" /\ y.pc \notin Seen /\ Fetched(y, ident, stray)
  BY <1>1, <1>2, <1>3 DEF SlotOK, Seen, Fetched
<1>5. \A q \in I!Procs : monthLock' = q => monthLock = q BY <1>1 DEF IdentityAssumption
<1> USE DEF x
<1> QED BY <1>1, <1>3, <1>4, <1>5, OrgsStay, StepKeeps

LEMMA IdentityStore ==
  ASSUME IdentityAssumption, IdentityInv, NEW p \in I!Procs, I!StoreMonth(p) PROVE IdentityInv'
<1> DEFINE x == worker[p]
           y == [x EXCEPT !.pc = "due"]
           o == [version |-> x.version, pages |-> x.pages]
<1>1. /\ x.pc = "store" /\ worker' = [worker EXCEPT ![p] = y] /\ monthOrg' = [monthOrg EXCEPT ![x.month] = o]
      /\ UNCHANGED <<dir, wanted, queue, hash, ident, stray, monthLock, status>>
  BY DEF I!StoreMonth, I!At, I!Goto, I!sources
<1>2. x \in Slot /\ SlotOK(x, dir) BY IdentityTyped
<1>3. x.month \in PageMonths /\ x.version \in Nat /\ x.pages \in SUBSET Nat /\ x.pages \subseteq {x.version}
  BY <1>1, <1>2, SlotTyped DEF SlotOK
<1>4. o \in OrgMonth /\ o.pages \subseteq {o.version} BY <1>3 DEF OrgMonth
<1> HIDE DEF x, o
<1>5. /\ y \in Slot /\ y.pc = "due" /\ y.before = x.before /\ y.version = x.version
      /\ y.month = x.month /\ y.gen = x.gen /\ y.keys = x.keys
  BY <1>2 DEF Slot, Seen
<1> HIDE DEF y
<1>6. SlotOK(y, dir) /\ Fetched(y, ident, stray) /\ x.pc \in Seen
  BY <1>1, <1>2, <1>5 DEF SlotOK, Fetched, Seen
<1>7. monthOrg' \in [PageMonths -> OrgMonth] /\ \A m \in PageMonths : monthOrg'[m].pages \subseteq {monthOrg'[m].version}
  <2>1. monthOrg \in [PageMonths -> OrgMonth] /\ \A m \in PageMonths : monthOrg[m].pages \subseteq {monthOrg[m].version}
    BY DEF IdentityInv
  <2>2. monthOrg'[x.month] = o /\ \A m \in PageMonths : m # x.month => monthOrg'[m] = monthOrg[m]
    BY <1>1, <1>3, <2>1
  <2> QED BY <1>1, <1>3, <1>4, <2>1, <2>2
<1> USE DEF x
<1> QED BY <1>1, <1>5, <1>6, <1>7, StepKeeps

(* What is not due has the version of the month already. *)
LEMMA IdentityDue ==
  ASSUME IdentityAssumption, IdentityInv, NEW p \in I!Procs, I!ListDue(p) PROVE IdentityInv'
<1> DEFINE x == worker[p]
           D == {k \in x.keys : ident[x.month][k] # x.version}
           y == [x EXCEPT !.due = D, !.pc = "resolve"]
<1>1. /\ x.pc = "due" /\ worker' = [worker EXCEPT ![p] = y]
      /\ UNCHANGED <<dir, wanted, queue, hash, ident, stray, monthOrg, monthLock, status>>
  BY DEF I!ListDue, I!At, I!sources, I!cached
<1>2. x \in Slot /\ SlotOK(x, dir) /\ ident \in [PageMonths -> [Keys -> Nat]] BY IdentityTyped
<1>3. \A k \in x.keys \ D : ident[x.month][k] = x.version OBVIOUS
<1> HIDE DEF x
<1>4. D \in SUBSET Keys BY <1>2, SlotTyped
<1> HIDE DEF D
<1>5. /\ y \in Slot /\ y.pc = "resolve" /\ y.before = x.before /\ y.version = x.version /\ y.due = D
      /\ y.month = x.month /\ y.gen = x.gen /\ y.keys = x.keys
  BY <1>2, <1>4 DEF Slot, Seen
<1> HIDE DEF y
<1>6. SlotOK(y, dir) /\ x.pc \in Seen BY <1>1, <1>2, <1>5 DEF SlotOK, Seen
<1>7. Fetched(y, ident, stray)
  <2>1. 1 <= x.version /\ x.version \in Nat BY <1>1, <1>2, SlotTyped DEF SlotOK, Seen
  <2> QED BY <1>3, <1>5, <2>1 DEF Fetched
<1> USE DEF x
<1> QED BY <1>1, <1>5, <1>6, <1>7, OrgsStay, StepKeeps

LEMMA IdentityResolve ==
  ASSUME IdentityAssumption, IdentityInv, NEW p \in I!Procs, I!Resolve(p) PROVE IdentityInv'
<1> DEFINE x == worker[p]
           y == [x EXCEPT !.pc = "save"]
<1>1. /\ x.pc = "resolve" /\ worker' = [worker EXCEPT ![p] = y]
      /\ UNCHANGED <<dir, wanted, queue, hash, ident, stray, monthOrg, monthLock, status>>
  BY DEF I!Resolve, I!At, I!Goto, I!sources, I!cached
<1>2. x \in Slot /\ SlotOK(x, dir) /\ (monthLock = p => Fetched(x, ident, stray)) BY IdentityTyped
<1> HIDE DEF x
<1>3. /\ y \in Slot /\ y.pc = "save" /\ y.before = x.before /\ y.version = x.version /\ y.due = x.due
      /\ y.month = x.month /\ y.gen = x.gen /\ y.keys = x.keys
  BY <1>2 DEF Slot, Seen
<1> HIDE DEF y
<1>4. SlotOK(y, dir) /\ x.pc \in Seen /\ (monthLock = p => Fetched(y, ident, stray))
  BY <1>1, <1>2, <1>3 DEF SlotOK, Seen, Fetched
<1> USE DEF x
<1> QED BY <1>1, <1>3, <1>4, OrgsStay, StepKeeps

(* A batch is written: in somebody else's work only what is then a stray.  *)
(* With the lock, an older version is written only where it is owed.       *)
LEMMA IdentitySave ==
  ASSUME IdentityAssumption, IdentityInv, NEW p \in I!Procs, I!SaveBatch(p) PROVE IdentityInv'
<1> DEFINE x == worker[p]
           m == x.month
           v == x.version
<1>1. PICK k \in x.due :
        /\ ident' = [ident EXCEPT ![m][k] = v]
        /\ stray' = IF monthLock = p THEN stray \ {<<m, k>>} ELSE stray \cup {<<m, k>>}
        /\ worker' = [worker EXCEPT ![p].due = @ \ {k}, ![p].pc = "resolve"]
  BY DEF I!SaveBatch
<1>2. x.pc = "save" /\ UNCHANGED <<dir, wanted, queue, hash, monthOrg, monthLock, status>>
  BY DEF I!SaveBatch, I!At, I!sources
<1> DEFINE D == x.due \ {k}
           y == [x EXCEPT !.due = D, !.pc = "resolve"]
<1>3. worker' = [worker EXCEPT ![p] = y] BY <1>1, IdentityTyped
<1>4. x \in Slot /\ SlotOK(x, dir) /\ ident \in [PageMonths -> [Keys -> Nat]] /\ hash \in Nat
      /\ (p \in Workers => WorkOK(x, queue, wanted, ident, stray, hash))
      /\ (monthLock = p => Fetched(x, ident, stray) /\ Owed(x, queue, wanted, worker, hash))
  BY IdentityTyped
<1> HIDE DEF x
<1>5. m \in PageMonths /\ v \in Nat /\ 1 <= v /\ k \in Keys /\ D \in SUBSET Keys
  BY <1>1, <1>2, <1>4, SlotTyped DEF SlotOK, Seen
<1>6. /\ y \in Slot /\ y.pc = "resolve" /\ y.before = x.before /\ y.version = v /\ y.due = D
      /\ y.month = m /\ y.gen = x.gen /\ y.keys = x.keys
  BY <1>4, <1>5 DEF Slot, Seen
<1> HIDE DEF y
<1>7. SlotOK(y, dir) BY <1>2, <1>4, <1>6 DEF SlotOK, Seen
<1>8. ident' \in [PageMonths -> [Keys -> Nat]] BY <1>1, <1>4, <1>5
<1>9. \A n \in PageMonths : \A j \in Keys :
        /\ ~(n = m /\ j = k) => ident'[n][j] = ident[n][j] /\ (<<n, j>> \in stray' <=> <<n, j>> \in stray)
        /\ (n = m /\ j = k) => ident'[n][j] = v /\ (monthLock # p => <<n, j>> \in stray')
  BY <1>1, <1>4, <1>5
<1> DEFINE a == m
           b == v
<1>10. a = m /\ b = v OBVIOUS
<1> HIDE DEF m, v
<1>11. worker' \in [I!Procs -> Slot] /\ worker'[p] = y /\ \A q \in I!Procs : q # p => worker'[q] = worker[q]
  BY <1>3, <1>6, IdentityTyped
<1>12. ASSUME NEW n \in PageMonths, NEW keys \in SUBSET Keys, Known(ident, stray, n, keys, hash),
              n = m /\ k \in keys => monthLock # p \/ hash <= v
       PROVE  Known(ident', stray', n, keys, hash)
  BY <1>4, <1>5, <1>9, <1>12 DEF Known
<1>13. monthLock = p /\ ~(hash <= v) =>
         \/ wanted[m] = {}
         \/ queue[m] > 0 /\ \A w \in Workers : worker[w].pc = "done" /\ worker[w].month = m => worker[w].gen # queue[m]
  <2>1. x.pc \in Seen /\ x.version = v /\ x.month = m BY <1>2 DEF Seen, m, v
  <2>2. ~(hash <= v) => v < hash BY <1>4, <1>5
  <2> QED BY <1>4, <2>1, <2>2 DEF Owed
<1>14. \A n \in PageMonths : queue[n] = 0 => Known(ident', stray', n, wanted[n], hash)
  <2> SUFFICES ASSUME NEW n \in PageMonths, queue[n] = 0 PROVE Known(ident', stray', n, wanted[n], hash)
    OBVIOUS
  <2>1. Known(ident, stray, n, wanted[n], hash) /\ wanted[n] \in SUBSET Keys BY DEF IdentityInv
  <2> QED BY <1>12, <1>13, <2>1
<1>15. \A w \in Workers : WorkOK(worker'[w], queue, wanted, ident', stray', hash)
  <2> SUFFICES ASSUME NEW w \in Workers, worker'[w].pc # "out"
               PROVE  WorkOK(worker'[w], queue, wanted, ident', stray', hash)
    BY DEF WorkOK
  <2>1. CASE w = p
    <3>1. WorkOK(x, queue, wanted, ident, stray, hash) /\ x.month = m BY <1>4, <2>1 DEF m
    <3>2. WorkOK(y, queue, wanted, ident', stray', hash) BY <1>2, <1>6, <3>1 DEF WorkOK
    <3> QED BY <1>11, <2>1, <3>2
  <2>2. CASE w # p
    <3> DEFINE u == worker[w]
    <3>1. u = worker'[w] /\ u.pc # "out" /\ WorkOK(u, queue, wanted, ident, stray, hash) /\ SlotOK(u, dir)
      BY <1>11, <2>2, WorkersAre DEF IdentityInv
    <3>2. u.pc = "done" /\ u.month = m /\ u.gen = queue[m] /\ monthLock = p /\ ~(hash <= v) => wanted[m] = {}
      BY <1>13
    <3> HIDE DEF u
    <3>3. u.month \in PageMonths /\ u.keys \in SUBSET Keys BY <3>1, SlotTyped DEF SlotOK
    <3>4. ASSUME queue[u.month] = u.gen, u.pc = "done"
          PROVE  Known(ident', stray', u.month, u.keys, hash)
      <4>1. u.keys = wanted[u.month] /\ Known(ident, stray, u.month, u.keys, hash)
        BY <3>1, <3>4 DEF WorkOK
      <4>2. u.month = m /\ k \in u.keys => monthLock # p \/ hash <= v BY <3>2, <3>4, <4>1
      <4> QED BY <1>12, <3>3, <4>1, <4>2
    <3>5. WorkOK(u, queue, wanted, ident', stray', hash) BY <3>1, <3>4 DEF WorkOK
    <3> QED BY <3>1, <3>5
  <2> QED BY <2>1, <2>2
<1>16. \A w \in Workers : worker'[w].pc = "done" => worker'[w] = worker[w]
  BY <1>6, <1>11, WorkersAre
<1>17. ASSUME NEW q \in I!Procs, monthLock = q
       PROVE  Fetched(worker'[q], ident', stray') /\ Owed(worker'[q], queue, wanted, worker', hash)
  <2>1. CASE q = p
    <3>1. Fetched(x, ident, stray) /\ Owed(x, queue, wanted, worker, hash) /\ x.month = m /\ x.version = v
      BY <1>4, <1>17, <2>1 DEF m, v
    <3>2. \A j \in x.keys \ x.due : ident[m][j] > 0 /\ (ident[m][j] = v \/ <<m, j>> \in stray)
      BY <1>2, <3>1 DEF Fetched
    <3>3. \A j \in x.keys \ D : j = k \/ j \in x.keys \ x.due OBVIOUS
    <3>4. x.keys \in SUBSET Keys BY <1>4, SlotTyped
    <3>5. \A j \in x.keys \ D : ident'[m][j] > 0 /\ (ident'[m][j] = v \/ <<m, j>> \in stray')
      <4> SUFFICES ASSUME NEW j \in x.keys \ D
                   PROVE  ident'[m][j] > 0 /\ (ident'[m][j] = v \/ <<m, j>> \in stray')
        OBVIOUS
      <4>1. CASE j = k BY <1>5, <1>9, <4>1
      <4>2. CASE j # k BY <1>5, <1>9, <3>2, <3>3, <3>4, <4>2
      <4> QED BY <4>1, <4>2
    <3>6. Fetched(y, ident', stray') BY <1>6, <3>5 DEF Fetched
    <3>7. Owed(y, queue, wanted, worker', hash)
      <4>1. x.pc \in Seen BY <1>2 DEF Seen
      <4> QED BY <1>6, <1>16, <3>1, <4>1 DEF Owed
    <3> QED BY <1>11, <2>1, <3>6, <3>7
  <2>2. CASE q # p
    <3> DEFINE u == worker[q]
    <3>1. /\ u = worker'[q] /\ Fetched(u, ident, stray) /\ Owed(u, queue, wanted, worker, hash) /\ SlotOK(u, dir)
          /\ monthLock # p
      BY <1>11, <1>17, <2>2, IdentityTyped
    <3> HIDE DEF u
    <3>2. Owed(u, queue, wanted, worker', hash) BY <1>16, <3>1 DEF Owed
    <3>3. Fetched(u, ident', stray')
      <4> SUFFICES ASSUME u.pc \in {"resolve", "save"}, NEW j \in u.keys \ u.due
                   PROVE  ident'[u.month][j] > 0 /\ (ident'[u.month][j] = u.version \/ <<u.month, j>> \in stray')
        BY DEF Fetched
      <4>1. ident[u.month][j] > 0 /\ (ident[u.month][j] = u.version \/ <<u.month, j>> \in stray)
        BY <3>1 DEF Fetched
      <4>2. u.month \in PageMonths /\ j \in Keys BY <3>1, SlotTyped DEF SlotOK
      <4> QED BY <1>5, <1>9, <3>1, <4>1, <4>2
    <3> QED BY <3>1, <3>2, <3>3
  <2> QED BY <2>1, <2>2
<1>18. \A q \in I!Procs : SlotOK(worker'[q], dir) BY <1>7, <1>11, IdentityTyped
<1>19. I!Procs' = I!Procs BY DEF I!Procs
<1>20. /\ dir \in Nat /\ 1 <= dir /\ hash <= dir /\ status \in Nat /\ status <= dir
       /\ wanted \in [PageMonths -> SUBSET Keys] /\ queue \in [PageMonths -> Nat]
       /\ monthOrg \in [PageMonths -> OrgMonth] /\ \A n \in PageMonths : monthOrg[n].pages \subseteq {monthOrg[n].version}
  BY DEF IdentityInv
<1> QED BY <1>2, <1>4, <1>8, <1>11, <1>14, <1>15, <1>17, <1>18, <1>19, <1>20 DEF IdentityInv

(* Nothing is due, the master status is as before and the lock is still    *)
(* held: every identity is of the version of now, or a stray.              *)
LEMMA IdentityChecked ==
  ASSUME IdentityAssumption, IdentityInv, NEW p \in I!Procs, I!CheckAfter(p) PROVE IdentityInv'
<1> DEFINE x == worker[p]
           y == [x EXCEPT !.pc = "done"]
<1>1. /\ x.pc = "resolve" /\ x.due = {} /\ dir = x.before /\ monthLock = p /\ monthLock' = None
      /\ worker' = [worker EXCEPT ![p] = y]
      /\ UNCHANGED <<dir, wanted, queue, hash, ident, stray, monthOrg, status>>
  BY DEF I!CheckAfter, I!At, I!Goto, I!Unlock, I!sources, I!cached
<1>2. x \in Slot /\ SlotOK(x, dir) /\ dir \in Nat /\ 1 <= dir /\ hash \in Nat /\ hash <= dir /\ Fetched(x, ident, stray)
  BY <1>1, IdentityTyped
<1>3. p \in Workers => WorkOK(x, queue, wanted, ident, stray, hash) BY IdentityTyped
<1> HIDE DEF x
<1>4. x.version = dir BY <1>1, <1>2, SlotTyped DEF SlotOK, Seen
<1>5. \A k \in x.keys : ident[x.month][k] > 0 /\ (ident[x.month][k] = dir \/ <<x.month, k>> \in stray)
  BY <1>1, <1>2, <1>4 DEF Fetched
<1>6. /\ y \in Slot /\ y.pc = "done" /\ y.before = x.before /\ y.version = x.version
      /\ y.month = x.month /\ y.gen = x.gen /\ y.keys = x.keys
  BY <1>2 DEF Slot
<1> HIDE DEF y
<1>7. SlotOK(y, dir) BY <1>1, <1>2, <1>6 DEF SlotOK, Seen
<1>8. Known(ident, stray, y.month, y.keys, hash) BY <1>2, <1>5, <1>6 DEF Known
<1>9. p \in Workers => WorkOK(y, queue, wanted, ident, stray, hash)
  BY <1>1, <1>3, <1>6, <1>8 DEF WorkOK
<1>10. \A q \in I!Procs : monthLock' # q BY <1>1 DEF IdentityAssumption
<1> QED BY <1>1, <1>7, <1>9, <1>10, OrgsStay, ProcMoves

(* A process rests; a worker that has settled takes its scope with it.     *)
LEMMA IdentityRests ==
  ASSUME IdentityInv, NEW p \in I!Procs, worker' = [worker EXCEPT ![p] = I!Out],
         \A q \in I!Procs : monthLock' = q => monthLock = q,
         UNCHANGED <<dir, wanted, queue, hash, ident, stray, monthOrg, status>>
  PROVE  IdentityInv'
<1>1. Fetched(I!Out, ident, stray) /\ Owed(I!Out, queue, wanted, worker, hash) /\ I!Out.pc # "done"
  BY OutIs DEF Fetched, Owed, Seen
<1> QED BY <1>1, OutIs, OrgsStay, ProcMoves

LEMMA IdentityFinish ==
  ASSUME IdentityAssumption, IdentityInv, NEW p \in I!Procs, I!Finish(p) PROVE IdentityInv'
<1> DEFINE x == worker[p]
<1>1. /\ x.pc = "done" /\ worker' = [worker EXCEPT ![p] = I!Out]
      /\ UNCHANGED <<dir, wanted, hash, ident, stray, monthOrg, monthLock, status>>
  BY DEF I!Finish, I!At, I!sources, I!cached
<1>2. CASE ~(p \in Workers /\ I!Settled(p))
  <2>1. UNCHANGED queue BY <1>2 DEF I!Finish
  <2> QED BY <1>1, <2>1, IdentityRests
<1>3. CASE p \in Workers /\ I!Settled(p)
  <2> DEFINE z == 0
  <2>1. queue' = [queue EXCEPT ![x.month] = z] /\ queue[x.month] = x.gen
    BY <1>3 DEF I!Finish, I!Settled
  <2>2. z \in Nat OBVIOUS
  <2>3. x.month \in PageMonths /\ WorkOK(x, queue, wanted, ident, stray, hash) /\ queue \in [PageMonths -> Nat]
    BY <1>1, <1>3, IdentityTyped DEF SlotOK
  <2>4. Known(ident, stray, x.month, wanted[x.month], hash) BY <1>1, <2>1, <2>3 DEF WorkOK
  <2> HIDE DEF z
  <2>5. queue' \in [PageMonths -> Nat] /\ \A m \in PageMonths : m # x.month => queue'[m] = queue[m]
    <3> HIDE DEF x
    <3> QED BY <2>1, <2>2, <2>3
  <2>6. \A m \in PageMonths : queue'[m] = 0 => Known(ident, stray, m, wanted[m], hash)
    BY <2>4, <2>5 DEF IdentityInv
  <2>7. worker' \in [I!Procs -> Slot] /\ \A q \in I!Procs : SlotOK(worker'[q], dir)
    BY <1>1, OutIs DEF IdentityInv
  <2>8. \A w \in Workers : worker'[w].pc = "out"
    BY <1>1, <1>3, IdentityTyped, OutIs DEF IdentityAssumption
  <2>9. \A w \in Workers : WorkOK(worker'[w], queue', wanted, ident, stray, hash) BY <2>8 DEF WorkOK
  <2>10. I!Procs' = I!Procs BY DEF I!Procs
  <2>11. ASSUME NEW q \in I!Procs, monthLock = q
         PROVE  Fetched(worker'[q], ident, stray) /\ Owed(worker'[q], queue', wanted, worker', hash)
    <3>1. CASE q = p
      <4>1. worker'[q].pc = "out" BY <1>1, <3>1, IdentityTyped, OutIs
      <4> QED BY <4>1 DEF Fetched, Owed, Seen
    <3>2. CASE q # p
      <4> DEFINE u == worker[q]
      <4>1. u = worker'[q] /\ Fetched(u, ident, stray) /\ Owed(u, queue, wanted, worker, hash) /\ SlotOK(u, dir)
        BY <1>1, <2>11, <3>2, IdentityTyped
      <4> HIDE DEF u
      <4>2. Owed(u, queue', wanted, worker', hash)
        <5> SUFFICES ASSUME u.pc \in Seen, u.version < hash, wanted[u.month] # {}
                     PROVE  /\ queue'[u.month] > 0
                            /\ \A w \in Workers : worker'[w].pc = "done" /\ worker'[w].month = u.month => worker'[w].gen # queue'[u.month]
          BY DEF Owed
        <5>1. queue[u.month] > 0 /\ \A w \in Workers : worker[w].pc = "done" /\ worker[w].month = u.month => worker[w].gen # queue[u.month]
          BY <4>1 DEF Owed
        <5>2. u.month \in PageMonths BY <4>1 DEF SlotOK, Seen
        <5>3. u.month # x.month BY <1>1, <1>3, <2>1, <5>1
        <5> QED BY <2>5, <2>8, <5>1, <5>2, <5>3
      <4> QED BY <4>1, <4>2
    <3> QED BY <3>1, <3>2
  <2>12. /\ dir \in Nat /\ 1 <= dir /\ hash \in Nat /\ hash <= dir /\ status \in Nat /\ status <= dir
         /\ wanted \in [PageMonths -> SUBSET Keys] /\ ident \in [PageMonths -> [Keys -> Nat]]
         /\ monthOrg \in [PageMonths -> OrgMonth] /\ \A n \in PageMonths : monthOrg[n].pages \subseteq {monthOrg[n].version}
    BY DEF IdentityInv
  <2> HIDE DEF x
  <2> QED BY <1>1, <2>5, <2>6, <2>7, <2>9, <2>10, <2>11, <2>12 DEF IdentityInv
<1> QED BY <1>2, <1>3

LEMMA IdentityStops ==
  ASSUME IdentityAssumption, IdentityInv, NEW p \in I!Procs, I!Defer(p) \/ I!Crash(p)
  PROVE  IdentityInv'
<1>1. /\ worker' = [worker EXCEPT ![p] = I!Out]
      /\ UNCHANGED <<dir, wanted, queue, hash, ident, stray, monthOrg, status>>
      /\ monthLock' = monthLock \/ monthLock' = IF monthLock = p THEN None ELSE monthLock
  BY DEF I!Defer, I!Crash, I!Unlock, I!sources, I!cached
<1>2. \A q \in I!Procs : monthLock' = q => monthLock = q BY <1>1 DEF IdentityAssumption
<1> QED BY <1>1, <1>2, IdentityRests

LEMMA IdentityNewVersion == ASSUME IdentityInv, I!NewVersion PROVE IdentityInv'
<1>1. dir' = dir + 1 /\ UNCHANGED <<wanted, queue, hash, ident, stray, monthOrg, monthLock, worker, status>>
  BY DEF I!NewVersion, I!cached
<1>2. dir \in Nat /\ 1 <= dir /\ hash \in Nat /\ hash <= dir /\ status \in Nat /\ status <= dir
  BY DEF IdentityInv
<1>3. dir' \in Nat /\ 1 <= dir' /\ hash <= dir' /\ status <= dir' BY <1>1, <1>2
<1>4. \A p \in I!Procs : SlotOK(worker[p], dir')
  <2> SUFFICES ASSUME NEW p \in I!Procs PROVE SlotOK(worker[p], dir')
    OBVIOUS
  <2> DEFINE x == worker[p]
  <2>1. SlotOK(x, dir) BY IdentityTyped
  <2>2. x \in Slot /\ x.before <= dir /\ x.version <= dir BY <2>1 DEF SlotOK
  <2> HIDE DEF x
  <2>3. x.before <= dir' /\ x.version <= dir' BY <1>1, <1>2, <2>2, SlotTyped
  <2>4. SlotOK(x, dir') BY <2>1, <2>3 DEF SlotOK
  <2> QED BY <2>4 DEF x
<1>5. I!Procs' = I!Procs BY DEF I!Procs
<1> QED BY <1>1, <1>2, <1>3, <1>4, <1>5 DEF IdentityInv

(* Months that are queued anew owe nothing to what was prepared before;    *)
(* the others owe what they did, or nothing.                               *)
LEMMA IdentityEnqueue ==
  ASSUME IdentityInv, NEW S \in SUBSET PageMonths, I!Enqueue(S),
         wanted' \in [PageMonths -> SUBSET Keys], hash' \in Nat, hash' <= dir, status' \in Nat, status' <= dir,
         \A m \in PageMonths \ S : wanted'[m] = wanted[m] /\ (hash' = hash \/ wanted[m] = {}),
         UNCHANGED <<dir, ident, stray, monthOrg, monthLock, worker>>
  PROVE  IdentityInv'
<1>1. queue \in [PageMonths -> Nat] /\ \A m \in PageMonths : queue[m] \in Nat BY DEF IdentityInv
<1>2. /\ queue' \in [PageMonths -> Nat]
      /\ \A m \in PageMonths : queue'[m] = IF m \in S THEN queue[m] + 1 ELSE queue[m]
  BY <1>1 DEF I!Enqueue
<1>3. ASSUME NEW m \in PageMonths \ S, NEW keys, keys = wanted[m], Known(ident, stray, m, keys, hash)
      PROVE  Known(ident, stray, m, keys, hash')
  BY <1>3 DEF Known
<1>4. \A w \in Workers : WorkOK(worker[w], queue', wanted', ident, stray, hash')
  <2> SUFFICES ASSUME NEW w \in Workers, worker[w].pc # "out"
               PROVE  WorkOK(worker[w], queue', wanted', ident, stray, hash')
    BY DEF WorkOK
  <2> DEFINE x == worker[w]
  <2>1. WorkOK(x, queue, wanted, ident, stray, hash) /\ SlotOK(x, dir) /\ x.pc # "out"
    BY WorkersAre DEF IdentityInv
  <2> HIDE DEF x
  <2>2. x.month \in PageMonths /\ x.gen \in Nat /\ 1 <= x.gen /\ x.gen <= queue[x.month]
    BY <2>1, SlotTyped DEF SlotOK, WorkOK
  <2>3. queue[x.month] \in Nat /\ queue'[x.month] \in Nat BY <1>1, <1>2, <2>2
  <2>4. ASSUME x.month \in S PROVE WorkOK(x, queue', wanted', ident, stray, hash')
    <3>1. queue'[x.month] = queue[x.month] + 1 BY <1>2, <2>2, <2>4
    <3>2. x.gen <= queue'[x.month] /\ queue'[x.month] # x.gen BY <2>2, <2>3, <3>1
    <3> QED BY <2>2, <3>2 DEF WorkOK
  <2>5. ASSUME x.month \notin S PROVE WorkOK(x, queue', wanted', ident, stray, hash')
    <3>1. queue'[x.month] = queue[x.month] /\ wanted'[x.month] = wanted[x.month] BY <1>2, <2>2, <2>5
    <3>2. ASSUME queue[x.month] = x.gen, x.pc = "done"
          PROVE  Known(ident, stray, x.month, x.keys, hash')
      <4>1. x.keys = wanted[x.month] /\ Known(ident, stray, x.month, x.keys, hash)
        BY <2>1, <3>2 DEF WorkOK
      <4> QED BY <1>3, <2>2, <2>5, <4>1
    <3> QED BY <2>1, <2>2, <3>1, <3>2 DEF WorkOK
  <2>6. WorkOK(x, queue', wanted', ident, stray, hash') BY <2>4, <2>5
  <2> QED BY <2>6 DEF x
<1>5. \A m \in PageMonths : queue'[m] = 0 => Known(ident, stray, m, wanted'[m], hash')
  <2> SUFFICES ASSUME NEW m \in PageMonths, queue'[m] = 0 PROVE Known(ident, stray, m, wanted'[m], hash')
    OBVIOUS
  <2>1. m \notin S /\ queue[m] = 0 BY <1>1, <1>2
  <2>2. Known(ident, stray, m, wanted[m], hash) BY <2>1 DEF IdentityInv
  <2> QED BY <1>3, <2>1, <2>2
<1>6. ASSUME NEW p \in I!Procs, monthLock = p
      PROVE  Fetched(worker[p], ident, stray) /\ Owed(worker[p], queue', wanted', worker, hash')
  <2> DEFINE x == worker[p]
  <2>1. Fetched(x, ident, stray) /\ Owed(x, queue, wanted, worker, hash) /\ SlotOK(x, dir)
    BY <1>6, IdentityTyped
  <2> HIDE DEF x
  <2>2. Owed(x, queue', wanted', worker, hash')
    <3> SUFFICES ASSUME x.pc \in Seen, x.version < hash', wanted'[x.month] # {}
                 PROVE  /\ queue'[x.month] > 0
                        /\ \A w \in Workers : worker[w].pc = "done" /\ worker[w].month = x.month => worker[w].gen # queue'[x.month]
      BY DEF Owed
    <3>1. x.month \in PageMonths BY <2>1 DEF SlotOK, Seen
    <3>2. CASE x.month \in S
      <4>1. queue'[x.month] = queue[x.month] + 1 /\ queue[x.month] \in Nat BY <1>1, <1>2, <3>1, <3>2
      <4>2. ASSUME NEW w \in Workers, worker[w].pc = "done", worker[w].month = x.month
            PROVE  worker[w].gen <= queue[x.month] /\ worker[w].gen \in Nat
        <5> DEFINE u == worker[w]
        <5>1. WorkOK(u, queue, wanted, ident, stray, hash) /\ u \in Slot /\ u.pc = "done" /\ u.month = x.month
          BY <4>2, WorkersAre, IdentityTyped DEF SlotOK
        <5> HIDE DEF u
        <5>2. u.gen <= queue[x.month] /\ u.gen \in Nat BY <5>1, SlotTyped DEF WorkOK
        <5> QED BY <5>2 DEF u
      <4> QED BY <4>1, <4>2
    <3>3. CASE x.month \notin S
      <4>1. queue'[x.month] = queue[x.month] /\ wanted'[x.month] = wanted[x.month] /\ hash' = hash
        BY <1>2, <3>1, <3>3
      <4> QED BY <2>1, <4>1 DEF Owed
    <3> QED BY <3>2, <3>3
  <2> QED BY <2>1, <2>2 DEF x
<1>7. I!Procs' = I!Procs BY DEF I!Procs
<1>8. dir \in Nat /\ 1 <= dir /\ (\A p \in I!Procs : SlotOK(worker[p], dir)) /\ worker \in [I!Procs -> Slot]
  BY DEF IdentityInv
<1>9. /\ ident \in [PageMonths -> [Keys -> Nat]] /\ monthOrg \in [PageMonths -> OrgMonth]
      /\ \A m \in PageMonths : monthOrg[m].pages \subseteq {monthOrg[m].version}
  BY DEF IdentityInv
<1> QED BY <1>2, <1>4, <1>5, <1>6, <1>7, <1>8, <1>9 DEF IdentityInv

LEMMA IdentityUpload == ASSUME IdentityInv, I!ProjectUpload PROVE IdentityInv'
<1>1. PICK m \in PageMonths, k \in Keys :
        /\ wanted' = [wanted EXCEPT ![m] = IF k \in @ THEN @ \ {k} ELSE @ \cup {k}]
        /\ I!Enqueue({m})
  BY DEF I!ProjectUpload
<1>2. UNCHANGED <<dir, hash, ident, stray, monthOrg, monthLock, worker, status>>
  BY DEF I!ProjectUpload, I!cached
<1>3. wanted \in [PageMonths -> SUBSET Keys] /\ hash \in Nat /\ hash <= dir /\ status \in Nat /\ status <= dir
  BY DEF IdentityInv
<1>4. wanted' \in [PageMonths -> SUBSET Keys] /\ \A n \in PageMonths \ {m} : wanted'[n] = wanted[n]
  BY <1>1, <1>3
<1> DEFINE S == {m}
<1>5. S \in SUBSET PageMonths /\ I!Enqueue(S) /\ \A n \in PageMonths \ S : wanted'[n] = wanted[n]
  BY <1>1, <1>4
<1> HIDE DEF S
<1> QED BY <1>2, <1>3, <1>4, <1>5, IdentityEnqueue

LEMMA IdentityStatus ==
  ASSUME IdentityAssumption, IdentityInv, I!ReadStatus \/ I!Elapse \/ I!LoseLock PROVE IdentityInv'
<1>1. /\ status' \in {status, dir} /\ UNCHANGED <<dir, wanted, queue, hash, ident, stray, monthOrg, worker>>
      /\ monthLock' \in {monthLock, None}
  BY DEF I!ReadStatus, I!Elapse, I!LoseLock, I!sources, I!cached
<1>2. status' \in Nat /\ status' <= dir BY <1>1 DEF IdentityInv
<1>3. I!Procs' = I!Procs /\ \A p \in I!Procs : monthLock' = p => monthLock = p
  BY <1>1 DEF I!Procs, IdentityAssumption
<1> QED BY <1>1, <1>2, <1>3 DEF IdentityInv

LEMMA IdentityRefresh == ASSUME IdentityInv, I!RefreshVersions PROVE IdentityInv'
<1> DEFINE S == IF hash = status THEN {} ELSE {m \in PageMonths : wanted[m] # {}}
<1>1. /\ hash' = status /\ status' = 0 /\ UNCHANGED <<dir, wanted, ident, stray, monthOrg, monthLock, worker>>
  BY DEF I!RefreshVersions, I!sources, I!cached
<1>2. /\ dir \in Nat /\ wanted \in [PageMonths -> SUBSET Keys] /\ status \in Nat /\ status <= dir
      /\ queue \in [PageMonths -> Nat]
  BY DEF IdentityInv
<1>3. status' \in Nat /\ status' <= dir BY <1>1, <1>2
<1>4. CASE hash # status
  <2>1. I!Enqueue(S) BY <1>4 DEF I!RefreshVersions
  <2>2. S \in SUBSET PageMonths /\ \A m \in PageMonths \ S : wanted[m] = {} BY <1>4
  <2> HIDE DEF S
  <2> QED BY <1>1, <1>2, <1>3, <2>1, <2>2, IdentityEnqueue
<1>5. CASE hash = status
  <2>1. UNCHANGED <<queue, hash>> BY <1>1, <1>5 DEF I!RefreshVersions
  <2>2. I!Procs' = I!Procs BY DEF I!Procs
  <2> QED BY <1>1, <1>3, <2>1, <2>2 DEF IdentityInv
<1> QED BY <1>4, <1>5

LEMMA IdentityStep == ASSUME IdentityAssumption, IdentityInv, [I!Next]_(I!vars) PROVE IdentityInv'
<1>1. CASE I!Next
  <2>1. CASE I!NewVersion BY <2>1, IdentityNewVersion
  <2>2. CASE I!ProjectUpload BY <2>2, IdentityUpload
  <2>3. CASE I!RefreshVersions BY <2>3, IdentityRefresh
  <2>4. CASE I!ReadStatus \/ I!Elapse \/ I!LoseLock BY <2>4, IdentityStatus
  <2>5. CASE \E w \in Workers : I!Pick(w) BY <2>5, IdentityPick
  <2>6. CASE \E b \in Builders : I!Rebuild(b) BY <2>6, IdentityRebuild
  <2>7. ASSUME NEW p \in I!Procs,
               \/ I!Lock(p) \/ I!DirectoryVersion(p) \/ I!Look(p) \/ I!ReadPage(p) \/ I!StoreMonth(p)
               \/ I!ListDue(p) \/ I!Resolve(p) \/ I!SaveBatch(p) \/ I!CheckAfter(p) \/ I!Finish(p)
               \/ I!Raise(p) \/ I!RequestFails(p) \/ I!Defer(p) \/ I!Crash(p)
        PROVE  IdentityInv'
    BY <2>7, IdentityLock, IdentityVersion, IdentityLook, IdentityReadPage, IdentityStore, IdentityDue,
       IdentityResolve, IdentitySave, IdentityChecked, IdentityFinish, IdentityFails, IdentityStops
  <2> QED BY <1>1, <2>1, <2>2, <2>3, <2>4, <2>5, <2>6, <2>7 DEF I!Next
<1>2. CASE UNCHANGED I!vars
  <2>1. I!Procs' = I!Procs BY DEF I!Procs
  <2> QED BY <1>2, <2>1 DEF IdentityInv, I!vars
<1> QED BY <1>1, <1>2

(* A month that is not queued has an identity for every upload, not older  *)
(* than the versions seen last unless a process wrote it after its lock    *)
(* was gone, whatever uploads and directories came while the month was     *)
(* prepared and whatever failed: the scope goes only with its generation   *)
(* (prepare_slice in page_identity.py).  And the stored organisation of a  *)
(* month is of one version of the directory, whoever read or copied it     *)
(* (org_month_cache.py).                                                   *)
THEOREM IdentitiesSettled ==
  IdentityAssumption => (I!Spec => []I!IdentitiesSettle) /\ (Spec => []IdentitiesSettle)
<1> SUFFICES ASSUME IdentityAssumption
             PROVE  (I!Spec => []I!IdentitiesSettle) /\ (Spec => []IdentitiesSettle)
  OBVIOUS
<1>1. I!Init => IdentityInv BY IdentityInit
<1>2. IdentityInv /\ [I!Next]_I!vars => IdentityInv' BY IdentityStep
<1>3. IdentityInv => I!IdentitiesSettle
  BY DEF IdentityInv, Known, I!IdentitiesSettle, I!NoIdentityForgotten, I!MonthsAreWhole
<1>4. I!Spec => []I!IdentitiesSettle BY <1>1, <1>2, <1>3, PTL DEF I!Spec
<1> DEFINE Chosen == which = "months" => IdentityInv
<1>5. Init => Chosen BY <1>1, Starts
<1>6. Chosen /\ [Next]_all => Chosen' BY <1>2, Steps
<1>7. Chosen => IdentitiesSettle BY <1>3 DEF IdentitiesSettle
<1>8. Spec => []IdentitiesSettle
  <2> HIDE DEF Chosen
  <2> QED BY <1>5, <1>6, <1>7, PTL DEF Spec
<1> QED BY <1>4, <1>8

LEMMA UndisturbedMove ==
  ASSUME IdentityAssumption, IdentityInv, Undisturbed, NEW p \in I!Procs, NEW y,
         worker' = [worker EXCEPT ![p] = y], stray' = {},
         \/ monthLock' = monthLock /\ (y.pc \in Working => worker[p].pc \in Working)
         \/ monthLock = None /\ monthLock' = p
         \/ monthLock' = (IF monthLock = p THEN None ELSE monthLock) /\ y.pc \notin Working
  PROVE  Undisturbed'
<1>1. worker'[p] = y /\ \A q \in I!Procs : q # p => worker'[q] = worker[q] BY IdentityTyped
<1>2. I!Procs' = I!Procs BY DEF I!Procs
<1>3. ASSUME NEW q \in I!Procs, worker'[q].pc \in Working PROVE monthLock' = q
  <2>1. CASE q = p BY <1>1, <1>3, <2>1 DEF Undisturbed
  <2>2. CASE q # p
    <3>1. monthLock = q BY <1>1, <1>3, <2>2 DEF Undisturbed
    <3>2. monthLock # None /\ monthLock # p BY <2>2, <3>1 DEF IdentityAssumption
    <3> QED BY <3>1, <3>2
  <2> QED BY <2>1, <2>2
<1> QED BY <1>2, <1>3 DEF Undisturbed

LEMMA UndisturbedStep ==
  ASSUME IdentityAssumption, IdentityInv, Undisturbed, [I!Next]_(I!vars), [~I!LoseLock]_(I!vars)
  PROVE  Undisturbed'
<1> DEFINE V == Working
<1>1. CASE UNCHANGED <<worker, monthLock, stray>> BY <1>1 DEF Undisturbed, I!Procs
<1>2. CASE \E w \in Workers : I!Pick(w)
  <2>1. PICK w \in Workers : I!Pick(w)
    BY <1>2
  <2>2. PICK m \in PageMonths : worker' = [worker EXCEPT ![w] = [I!Out EXCEPT !.pc = "lock", !.month = m, !.gen = queue[m], !.keys = wanted[m]]]
    BY <2>1 DEF I!Pick
  <2> DEFINE y == [I!Out EXCEPT !.pc = "lock", !.month = m, !.gen = queue[m], !.keys = wanted[m]]
  <2>3. y.pc \notin Working BY DEF I!Out, Working, Seen
  <2>4. UNCHANGED <<monthLock, stray>> BY <2>1 DEF I!Pick, I!cached
  <2> HIDE DEF y
  <2>5. worker' = [worker EXCEPT ![w] = y] BY <2>2 DEF y
  <2> QED BY <2>3, <2>4, <2>5, WorkersAre, UndisturbedMove DEF Undisturbed
<1>3. CASE \E b \in Builders : I!Rebuild(b)
  <2>1. PICK b \in Builders : I!Rebuild(b)
    BY <1>3
  <2>2. PICK m \in PageMonths : worker' = [worker EXCEPT ![b] = [I!Out EXCEPT !.pc = "lock", !.month = m, !.keys = wanted[m]]]
    BY <2>1 DEF I!Rebuild
  <2> DEFINE y == [I!Out EXCEPT !.pc = "lock", !.month = m, !.keys = wanted[m]]
  <2>3. y.pc \notin Working BY DEF I!Out, Working, Seen
  <2>4. UNCHANGED <<monthLock, stray>> /\ b \in I!Procs BY <2>1 DEF I!Rebuild, I!cached, I!Procs
  <2> HIDE DEF y
  <2>5. worker' = [worker EXCEPT ![b] = y] BY <2>2 DEF y
  <2> QED BY <2>3, <2>4, <2>5, UndisturbedMove DEF Undisturbed
<1>4. ASSUME NEW p \in I!Procs,
             \/ I!Lock(p) \/ I!DirectoryVersion(p) \/ I!Look(p) \/ I!ReadPage(p) \/ I!StoreMonth(p)
             \/ I!ListDue(p) \/ I!Resolve(p) \/ I!SaveBatch(p) \/ I!CheckAfter(p) \/ I!Finish(p)
             \/ I!Raise(p) \/ I!RequestFails(p) \/ I!Defer(p) \/ I!Crash(p)
      PROVE  Undisturbed'
  <2> DEFINE x == worker[p]
  <2>1. x \in Slot /\ worker \in [I!Procs -> Slot] BY IdentityTyped
  <2>2. x.pc \in Working => monthLock = p BY DEF Undisturbed
  <2>3. CASE I!Lock(p)
    <3>1. worker' = [worker EXCEPT ![p] = [x EXCEPT !.pc = "version", !.before = dir]]
          /\ monthLock = None /\ monthLock' = p /\ stray' = stray
      BY <2>3 DEF I!Lock, I!cached
    <3> QED BY <3>1, UndisturbedMove DEF Undisturbed
  <2>4. CASE I!Raise(p) \/ I!RequestFails(p) \/ I!CheckAfter(p)
    <3>1. PICK pc \in {"failed", "done"} : worker' = [worker EXCEPT ![p] = [x EXCEPT !.pc = pc]]
      BY <2>4 DEF I!Raise, I!RequestFails, I!CheckAfter, I!Goto
    <3>2. stray' = stray /\ monthLock' = IF monthLock = p THEN None ELSE monthLock
      BY <2>4 DEF I!Raise, I!RequestFails, I!CheckAfter, I!Unlock, I!cached
    <3>3. [x EXCEPT !.pc = pc].pc \notin Working BY <2>1 DEF Slot, Working, Seen
    <3> QED BY <3>1, <3>2, <3>3, UndisturbedMove DEF Undisturbed
  <2>5. CASE I!Finish(p) \/ I!Defer(p) \/ I!Crash(p)
    <3>1. worker' = [worker EXCEPT ![p] = I!Out] /\ stray' = stray
          /\ (monthLock' = monthLock \/ monthLock' = IF monthLock = p THEN None ELSE monthLock)
      BY <2>5 DEF I!Finish, I!Defer, I!Crash, I!Unlock, I!cached
    <3>2. I!Out.pc \notin Working BY DEF I!Out, Working, Seen
    <3> QED BY <3>1, <3>2, UndisturbedMove DEF Undisturbed
  <2>6. CASE I!DirectoryVersion(p) \/ I!Look(p) \/ I!ReadPage(p) \/ I!StoreMonth(p) \/ I!ListDue(p) \/ I!Resolve(p) \/ I!SaveBatch(p)
    <3>1. x.pc \in Working
      BY <2>6 DEF I!DirectoryVersion, I!Look, I!ReadPage, I!StoreMonth, I!ListDue, I!Resolve, I!SaveBatch,
         I!At, Working, Seen
    <3>2. monthLock' = monthLock
      BY <2>6 DEF I!DirectoryVersion, I!Look, I!ReadPage, I!StoreMonth, I!ListDue, I!Resolve, I!SaveBatch
    <3>3. stray' = {}
      <4>1. CASE I!SaveBatch(p) BY <2>2, <3>1, <4>1 DEF I!SaveBatch, Undisturbed
      <4>2. CASE ~I!SaveBatch(p)
        BY <2>6, <4>2 DEF I!DirectoryVersion, I!Look, I!ReadPage, I!StoreMonth, I!ListDue, I!Resolve, I!cached, Undisturbed
      <4> QED BY <4>1, <4>2
    <3>4. \E y : worker' = [worker EXCEPT ![p] = y]
      BY <2>6 DEF I!DirectoryVersion, I!Look, I!ReadPage, I!StoreMonth, I!ListDue, I!Resolve, I!SaveBatch, I!Goto
    <3> HIDE DEF x
    <3>5. PICK y : worker' = [worker EXCEPT ![p] = y]
      BY <3>4
    <3> USE DEF x
    <3> QED BY <3>1, <3>2, <3>3, <3>5, UndisturbedMove
  <2> QED BY <1>4, <2>3, <2>4, <2>5, <2>6
<1>5. CASE I!NewVersion \/ I!ProjectUpload \/ I!ReadStatus \/ I!RefreshVersions \/ I!Elapse
  BY <1>1, <1>5 DEF I!NewVersion, I!ProjectUpload, I!ReadStatus, I!RefreshVersions, I!Elapse, I!cached
<1>6. CASE I!LoseLock
  <2>1. UNCHANGED I!vars BY <1>6
  <2> QED BY <1>1, <2>1 DEF I!vars
<1>7. CASE UNCHANGED I!vars BY <1>1, <1>7 DEF I!vars
<1> QED BY <1>2, <1>3, <1>4, <1>5, <1>6, <1>7 DEF I!Next

(* While no session with the lock breaks, a month that is not queued has   *)
(* no identity older than the versions seen last, without exception:       *)
(* nobody else writes between a reply of BI and its commit                 *)
(* (_prepare_identities in bi_push.py).                                    *)
THEOREM IdentitiesAreCurrent ==
  IdentityAssumption => (I!Spec /\ [][~I!LoseLock]_I!vars => []Current)
<1> SUFFICES ASSUME IdentityAssumption
             PROVE  I!Spec /\ [][~I!LoseLock]_I!vars => []Current
  OBVIOUS
<1>1. I!Init => IdentityInv /\ Undisturbed
  <2> SUFFICES ASSUME I!Init PROVE Undisturbed
    BY IdentityInit
  <2>1. stray = {} /\ \A p \in I!Procs : worker[p].pc = "out" BY DEF I!Init, I!Out
  <2> QED BY <2>1 DEF Undisturbed, Working, Seen
<1>2. IdentityInv /\ Undisturbed /\ [I!Next]_I!vars /\ [~I!LoseLock]_I!vars => IdentityInv' /\ Undisturbed'
  BY IdentityStep, UndisturbedStep
<1>3. IdentityInv /\ Undisturbed => Current BY DEF IdentityInv, Known, Undisturbed, Current
<1> QED BY <1>1, <1>2, <1>3, PTL DEF I!Spec

-----------------------------------------------------------------------------
(* ApiBudget. *)

LEMMA UptoIs ==
  ASSUME NEW m \in Nat, NEW n \in 0..m, NEW f \in [0..m -> Nat]
  PROVE  \E g : Sums(g, f, n) /\ B!Upto(f, n) = g[n]
<1> DEFINE next == [k \in 1..n |-> [x \in Nat |-> x + f[k]]]
           Eq(g) == g = [d \in 0..n |-> IF d = 0 THEN f[0] ELSE g[d - 1] + f[d]]
           sum == CHOOSE g : Eq(g)
<1>1. n \in Nat /\ f[0] \in Nat /\ \A k \in 1..n : f[k] \in Nat OBVIOUS
<1>2. next \in [1..n -> [Nat -> Nat]] BY <1>1
<1>3. \A k \in 1..n, x \in Nat : next[k][x] = x + f[k] OBVIOUS
<1> HIDE DEF next
<1>4. PICK g \in [0..n -> Nat] : Follows(g, n, f[0], next)
  BY <1>1, <1>2, Recursion
<1>5. \A k \in 1..n : g[k - 1] \in Nat BY <1>1
<1>6. g[0] = f[0] /\ \A k \in 1..n : g[k] = g[k - 1] + f[k] BY <1>3, <1>4, <1>5 DEF Follows
<1>7. Eq(g) BY <1>1, <1>6
<1> HIDE DEF Eq
<1>8. Eq(sum) BY <1>7
<1>9. B!Upto(f, n) = sum[n] BY DEF B!Upto, Eq
<1> HIDE DEF sum
<1>10. sum = [d \in 0..n |-> IF d = 0 THEN f[0] ELSE sum[d - 1] + f[d]] BY <1>8 DEF Eq
<1>11. Sums(sum, f, n) BY <1>1, <1>10 DEF Sums
<1> QED BY <1>9, <1>11

(* What adds up the same is the same. *)
LEMMA SumsAgree ==
  ASSUME NEW n \in Nat, NEW f, NEW h, NEW u, NEW v, Sums(u, f, n), Sums(v, h, n),
         \A k \in 0..n : f[k] = h[k] /\ f[k] \in Nat
  PROVE  u[n] = v[n] /\ u[n] \in Nat
<1> DEFINE S == {k \in Nat : k <= n => u[k] = v[k] /\ u[k] \in Nat}
<1>1. 0 \in S BY DEF Sums
<1>2. ASSUME NEW k \in Nat, k \in S PROVE k + 1 \in S
  <2> SUFFICES ASSUME k + 1 <= n PROVE u[k + 1] = v[k + 1] /\ u[k + 1] \in Nat
    OBVIOUS
  <2>1. k + 1 \in 1..n /\ k + 1 \in 0..n /\ (k + 1) - 1 = k /\ u[k] = v[k] /\ u[k] \in Nat BY <1>2
  <2>2. u[k + 1] = u[k] + f[k + 1] /\ v[k + 1] = v[k] + h[k + 1] BY <2>1 DEF Sums
  <2> QED BY <2>1, <2>2
<1> HIDE DEF S
<1>3. \A k \in Nat : k \in S BY <1>1, <1>2, Induct
<1> QED BY <1>3 DEF S

LEMMA UptoSame ==
  ASSUME NEW m \in Nat, NEW n \in 0..m, NEW f \in [0..m -> Nat], NEW h \in [0..m -> Nat],
         \A k \in 0..n : f[k] = h[k]
  PROVE  B!Upto(f, n) = B!Upto(h, n) /\ B!Upto(f, n) \in Nat
<1>1. PICK u : Sums(u, f, n) /\ B!Upto(f, n) = u[n]
  BY UptoIs
<1>2. PICK v : Sums(v, h, n) /\ B!Upto(h, n) = v[n]
  BY UptoIs
<1>3. n \in Nat /\ \A k \in 0..n : f[k] \in Nat OBVIOUS
<1> QED BY ZenonT(30), <1>1, <1>2, <1>3, SumsAgree

LEMMA UptoNext ==
  ASSUME NEW m \in Nat, NEW n \in 0..m, NEW f \in [0..m -> Nat]
  PROVE  IF n = 0 THEN B!Upto(f, n) = f[n] ELSE B!Upto(f, n) = B!Upto(f, n - 1) + f[n]
<1>1. PICK u : Sums(u, f, n) /\ B!Upto(f, n) = u[n]
  BY UptoIs
<1>2. CASE n = 0 BY <1>1, <1>2 DEF Sums
<1>3. CASE n # 0
  <2>1. n - 1 \in 0..m /\ n - 1 \in Nat /\ \A k \in 0..(n - 1) : f[k] \in Nat BY <1>3
  <2>2. PICK v : Sums(v, f, n - 1) /\ B!Upto(f, n - 1) = v[n - 1]
    BY <2>1, UptoIs
  <2>3. Sums(u, f, n - 1) BY <1>1 DEF Sums
  <2>4. u[n - 1] = v[n - 1] BY <2>1, <2>2, <2>3, SumsAgree
  <2> QED BY <1>1, <1>3, <2>2, <2>4 DEF Sums
<1> QED BY <1>2, <1>3

(* A call counted for the day n raises the sum by one. *)
LEMMA UptoRaised ==
  ASSUME NEW m \in Nat, NEW n \in 0..m, NEW f \in [0..m -> Nat], NEW h \in [0..m -> Nat],
         \A k \in 0..n : h[k] = IF k = n THEN f[k] + 1 ELSE f[k]
  PROVE  B!Upto(h, n) = B!Upto(f, n) + 1
<1>1. CASE n = 0
  <2>1. B!Upto(f, n) = f[n] /\ B!Upto(h, n) = h[n] BY <1>1, UptoNext
  <2>2. n \in 0..n OBVIOUS
  <2> QED BY <2>1, <2>2
<1>2. CASE n # 0
  <2>1. n - 1 \in 0..m /\ \A k \in 0..(n - 1) : f[k] = h[k] BY <1>2
  <2>2. B!Upto(f, n - 1) = B!Upto(h, n - 1) /\ B!Upto(f, n - 1) \in Nat BY <2>1, UptoSame
  <2>3. B!Upto(f, n) = B!Upto(f, n - 1) + f[n] /\ B!Upto(h, n) = B!Upto(h, n - 1) + h[n]
    BY <1>2, UptoNext
  <2>4. h[n] = f[n] + 1 /\ f[n] \in Nat OBVIOUS
  <2> QED BY <2>2, <2>3, <2>4
<1> QED BY <1>1, <1>2

LEMMA CountersAre ==
  /\ \A d \in 0..MaxDays : <<"day", d>> \in B!Dated
  /\ \A p \in B!Dated : p[1] \in {"day", "month"}
  /\ \A p \in B!Dated : <<p, "total">> \in B!Counters
  /\ \A p \in B!Dated : \A i \in B!Interfaces : <<p, i>> \in B!Counters
  /\ \A p \in B!Periods : <<p, "total">> \in B!Counters
  /\ \A p \in B!Periods : p[1] = "scan" <=> p \notin B!Dated
BY DEF B!Counters, B!Periods, B!Dated

LEMMA DailyIs ==
  ASSUME NEW f \in [B!Counters -> Nat], NEW i \in B!Interfaces
  PROVE  Daily(f, i) \in [0..MaxDays -> Nat]
BY CountersAre DEF Daily

(* How many are on their way when one client moves on. *)
LEMMA PayingMoves ==
  ASSUME BudgetAssumption, NEW c, NEW P \in SUBSET Clients, NEW Q \in SUBSET Clients, Q \ {c} = P \ {c}
  PROVE  /\ Cardinality(P) \in Nat /\ Cardinality(Q) \in Nat
         /\ Cardinality(Q) <= Cardinality(P) + 1
         /\ (c \in Q => c \in P) => Cardinality(Q) <= Cardinality(P)
         /\ (c \in P /\ c \notin Q => Cardinality(Q) + 1 <= Cardinality(P))
<1>1. IsFiniteSet(P) /\ IsFiniteSet(Q) BY FS_Subset DEF BudgetAssumption
<1>2. Cardinality(P) \in Nat /\ Cardinality(Q) \in Nat BY <1>1, FS_CardinalityType
<1>3. Cardinality(P \ {c}) = IF c \in P THEN Cardinality(P) - 1 ELSE Cardinality(P)
  BY <1>1, FS_RemoveElement
<1>4. Cardinality(Q \ {c}) = IF c \in Q THEN Cardinality(Q) - 1 ELSE Cardinality(Q)
  BY <1>1, FS_RemoveElement
<1>5. /\ Cardinality(Q) <= Cardinality(P) + 1
      /\ (c \in Q => c \in P) => Cardinality(Q) <= Cardinality(P)
      /\ (c \in P /\ c \notin Q => Cardinality(Q) + 1 <= Cardinality(P))
  <2> DEFINE a == Cardinality(P)
             b == Cardinality(Q)
             r == Cardinality(P \ {c})
  <2>1. /\ a \in Nat /\ b \in Nat
        /\ r = IF c \in P THEN a - 1 ELSE a
        /\ r = IF c \in Q THEN b - 1 ELSE b
    BY <1>2, <1>3, <1>4
  <2> HIDE DEF a, b, r
  <2>2. /\ b <= a + 1
        /\ (c \in Q => c \in P) => b <= a
        /\ (c \in P /\ c \notin Q => b + 1 <= a)
    BY <2>1
  <2> QED BY <2>2 DEF a, b
<1> QED BY <1>2, <1>5

LEMMA RestingIs ==
  ASSUME NEW t \in 0..MaxDays \cup {None}
  PROVE  LET x == [B!Resting EXCEPT !.token = t]
         IN  RequestOK(x) /\ x \in Request /\ \A i : ~Pays(x, i)
<1> DEFINE x == [B!Resting EXCEPT !.token = t]
<1>1. /\ x.pc = "idle"
      /\ x = [pc |-> "idle", next |-> None, then |-> None, token |-> t, month |-> None]
  BY DEF B!Resting
<1>2. x \in Request BY <1>1 DEF Request
<1> HIDE DEF x
<1>3. RequestOK(x) /\ \A i : ~Pays(x, i) BY <1>1, <1>2 DEF RequestOK, Pays
<1> QED BY <1>2, <1>3 DEF x

LEMMA RaisedAre ==
  ASSUME NEW i \in B!Interfaces, NEW scan
  PROVE  /\ \A p \in B!Dated : <<p, "total">> \in Raised(i, scan) <=> <<p, i>> \in Raised(i, scan)
         /\ \A p \in B!Dated : \A j \in B!Interfaces : j # i => <<p, j>> \notin Raised(i, scan)
         /\ \A d \in 0..MaxDays : <<<<"day", d>>, i>> \in Raised(i, scan) <=> d = today
<1> DEFINE D == <<"day", today>>
           M == <<"month", B!Month(today)>>
           S == <<"scan", scan>>
           K == {<<D, "total">>, <<M, "total">>, <<D, i>>, <<M, i>>}
<1>1. Raised(i, scan) = K \cup (IF scan = None THEN {} ELSE {<<S, "total">>})
  <2> DEFINE a == B!Floor(DailyLimit - B!Spare(scan, DailyReserve))
             b == B!Floor(MonthlyLimit - B!Spare(scan, MonthlyReserve))
             l1 == <<<<D, "total">>, a>>
             l2 == <<<<M, "total">>, b>>
             l3 == <<<<D, i>>, DailyLimit>>
             l4 == <<<<M, i>>, B!MonthlyOf(i)>>
             l5 == <<<<S, "total">>, ScanMax>>
             L == {l1, l2, l3, l4} \cup (IF scan = None THEN {} ELSE {l5})
  <2>1. B!Limits(i, scan) = L BY DEF B!Limits
  <2> HIDE DEF D, M, S, a, b
  <2>2. /\ l1[1] = <<D, "total">> /\ l2[1] = <<M, "total">> /\ l3[1] = <<D, i>> /\ l4[1] = <<M, i>>
        /\ l5[1] = <<S, "total">>
    OBVIOUS
  <2> HIDE DEF l1, l2, l3, l4, l5
  <2>3. {l[1] : l \in L} = {l1[1], l2[1], l3[1], l4[1]} \cup (IF scan = None THEN {} ELSE {l5[1]})
    OBVIOUS
  <2> QED BY <2>1, <2>2, <2>3 DEF Raised
<1>2. i # "total" /\ \A j \in B!Interfaces : j # "total" BY DEF B!Interfaces
<1>3. \A p \in B!Dated : p # S BY CountersAre
<1>4. \A d \in 0..MaxDays : <<"day", d>> \in B!Dated /\ <<"day", d>> # M /\ (<<"day", d>> = D <=> d = today)
  BY CountersAre
<1> HIDE DEF D, M, S
<1>5. \A p \in B!Dated : \A j : <<p, j>> \in Raised(i, scan) <=> (p = D \/ p = M) /\ (j = "total" \/ j = i)
  BY <1>1, <1>3
<1> QED BY <1>2, <1>4, <1>5

(* What is kept for the others was not used up before a scan reserves.     *)
LEMMA RoomLeft ==
  ASSUME NEW i \in B!Interfaces, NEW scan, B!Exhausted(i, scan) = {},
         NEW p \in B!Periods, <<p, "total">> \in Raised(i, scan), calls[<<p, "total">>] \in Nat,
         BudgetAssumption
  PROVE  /\ p \in B!Dated /\ scan # None =>
              calls[<<p, "total">>] < IF p[1] = "day" THEN B!Floor(DailyLimit - DailyReserve)
                                      ELSE B!Floor(MonthlyLimit - MonthlyReserve)
         /\ p \notin B!Dated => calls[<<p, "total">>] < ScanMax
<1>1. PICK l \in B!Limits(i, scan) : l[1] = <<p, "total">>
  BY DEF Raised
<1>2. l[1][1] = p /\ l[1][2] = "total" BY <1>1
<1>3. ~(calls[<<p, "total">>] >= l[2]) BY <1>1 DEF B!Exhausted
<1>4. i # "total" BY DEF B!Interfaces
<1> DEFINE fd == B!Floor(DailyLimit - B!Spare(scan, DailyReserve))
           fm == B!Floor(MonthlyLimit - B!Spare(scan, MonthlyReserve))
           D == <<"day", today>>
           M == <<"month", B!Month(today)>>
           S == <<"scan", scan>>
<1>5. fd \in Nat /\ fm \in Nat BY DEF B!Floor, B!Spare, BudgetAssumption
<1>6. scan # None => fd = B!Floor(DailyLimit - DailyReserve) /\ fm = B!Floor(MonthlyLimit - MonthlyReserve)
  BY DEF B!Spare
<1>7. D[1] = "day" /\ M[1] = "month" /\ S[1] = "scan" OBVIOUS
<1>8. \/ l = <<<<D, "total">>, fd>> \/ l = <<<<M, "total">>, fm>>
      \/ l = <<<<D, i>>, DailyLimit>> \/ l = <<<<M, i>>, B!MonthlyOf(i)>>
      \/ l = <<<<S, "total">>, ScanMax>>
  BY DEF B!Limits
<1> HIDE DEF D, M, S, fd, fm
<1>9. \/ p = D /\ l[2] = fd
      \/ p = M /\ l[2] = fm
      \/ p = S /\ l[2] = ScanMax
  BY <1>2, <1>4, <1>8
<1>10. p \in B!Dated <=> p[1] # "scan" BY CountersAre
<1>11. ScanMax \in Nat BY DEF BudgetAssumption
<1> QED BY <1>3, <1>5, <1>6, <1>7, <1>9, <1>10, <1>11

LEMMA BudgetTyped ==
  ASSUME BudgetInv
  PROVE  /\ today \in 0..MaxDays /\ calls \in [B!Counters -> Nat] /\ spent \in [B!Dated -> Nat]
         /\ sent \in [B!Interfaces -> Nat] /\ client \in [Clients -> Request]
         /\ \A c \in Clients : RequestOK(client[c]) /\ client[c] \in Request
         /\ B!ReserveIsKept
BY DEF BudgetInv, RequestOK

(* A reservation raises the counters it belongs to, all or none.           *)
LEMMA Reserved ==
  ASSUME BudgetAssumption, BudgetInv, NEW c \in Clients, NEW i \in B!Interfaces, B!Reserve(c, i)
  PROVE  /\ calls' \in [B!Counters -> Nat] /\ spent' \in [B!Dated -> Nat]
         /\ \A p \in B!Dated : spent'[p] <= calls'[<<p, "total">>]
         /\ \A p \in B!Dated : calls'[<<p, "total">>] = InAll(calls', p)
         /\ B!ReserveIsKept'
         /\ \A j \in B!Interfaces :
              B!Upto(Daily(calls', j), today) = B!Upto(Daily(calls, j), today) + (IF j = i THEN 1 ELSE 0)
<1> DEFINE scan == client[c].month
           keys == Raised(i, scan)
<1>1. /\ B!Exhausted(i, scan) = {}
      /\ calls' = [k \in B!Counters |-> IF k \in keys THEN calls[k] + 1 ELSE calls[k]]
      /\ spent' = [p \in B!Dated |-> IF scan # None /\ <<p, "total">> \in keys THEN spent[p] + 1 ELSE spent[p]]
  BY DEF B!Reserve, Raised
<1>2. /\ today \in 0..MaxDays /\ calls \in [B!Counters -> Nat] /\ spent \in [B!Dated -> Nat]
      /\ \A p \in B!Dated : spent[p] <= calls[<<p, "total">>]
      /\ \A p \in B!Dated : calls[<<p, "total">>] = InAll(calls, p)
      /\ B!ReserveIsKept
  BY DEF BudgetInv
<1>3. /\ \A p \in B!Dated : <<p, "total">> \in keys <=> <<p, i>> \in keys
      /\ \A p \in B!Dated : \A j \in B!Interfaces : j # i => <<p, j>> \notin keys
      /\ \A d \in 0..MaxDays : <<<<"day", d>>, i>> \in keys <=> d = today
  BY RaisedAre
<1> HIDE DEF scan
<1>4. ASSUME NEW p \in B!Periods, <<p, "total">> \in keys
      PROVE  /\ p \in B!Dated /\ scan # None =>
                  calls[<<p, "total">>] < IF p[1] = "day" THEN B!Floor(DailyLimit - DailyReserve)
                                          ELSE B!Floor(MonthlyLimit - MonthlyReserve)
             /\ p \notin B!Dated => calls[<<p, "total">>] < ScanMax
  <2>1. calls[<<p, "total">>] \in Nat BY <1>2, CountersAre
  <2> QED BY <1>1, <1>4, <2>1, RoomLeft
<1> HIDE DEF keys
<1>5. /\ \A k \in B!Counters : calls'[k] = IF k \in keys THEN calls[k] + 1 ELSE calls[k]
      /\ \A p \in B!Dated : spent'[p] = IF scan # None /\ <<p, "total">> \in keys THEN spent[p] + 1 ELSE spent[p]
  BY <1>1
<1>6. calls' \in [B!Counters -> Nat] /\ spent' \in [B!Dated -> Nat] BY <1>1, <1>2
<1>7. \A p \in B!Dated : spent[p] \in Nat /\ calls[<<p, "total">>] \in Nat BY <1>2, CountersAre
<1>8. \A p \in B!Dated : spent'[p] <= calls'[<<p, "total">>]
  <2> SUFFICES ASSUME NEW p \in B!Dated PROVE spent'[p] <= calls'[<<p, "total">>]
    OBVIOUS
  <2>1. spent[p] <= calls[<<p, "total">>] /\ <<p, "total">> \in B!Counters BY <1>2, CountersAre
  <2> QED BY <1>5, <1>7, <2>1
<1>9. \A p \in B!Dated : calls'[<<p, "total">>] = InAll(calls', p)
  <2> SUFFICES ASSUME NEW p \in B!Dated PROVE calls'[<<p, "total">>] = InAll(calls', p)
    OBVIOUS
  <2>1. /\ <<p, "total">> \in B!Counters /\ calls[<<p, "total">>] \in Nat
        /\ \A j \in B!Interfaces : <<p, j>> \in B!Counters /\ calls[<<p, j>>] \in Nat
    BY <1>2, CountersAre
  <2>2. CASE <<p, "total">> \notin keys
    <3>1. \A j \in B!Interfaces : calls'[<<p, j>>] = calls[<<p, j>>] BY <1>3, <1>5, <2>1, <2>2
    <3>2. InAll(calls', p) = InAll(calls, p) BY <3>1 DEF InAll, B!Interfaces
    <3> QED BY <1>2, <1>5, <2>1, <2>2, <3>2
  <2>3. CASE <<p, "total">> \in keys
    <3>1. \A j \in B!Interfaces : calls'[<<p, j>>] = IF j = i THEN calls[<<p, j>>] + 1 ELSE calls[<<p, j>>]
      BY <1>3, <1>5, <2>1, <2>3
    <3>2. InAll(calls', p) = InAll(calls, p) + 1 BY <2>1, <3>1 DEF InAll, B!Interfaces
    <3> QED BY <1>2, <1>5, <2>1, <2>3, <3>2
  <2> QED BY <2>2, <2>3
<1>10. B!ReserveIsKept'
  <2>1. ASSUME NEW p \in B!Dated
        PROVE  spent'[p] <= IF p[1] = "day" THEN B!Floor(DailyLimit - DailyReserve)
                            ELSE B!Floor(MonthlyLimit - MonthlyReserve)
    <3> DEFINE m == IF p[1] = "day" THEN B!Floor(DailyLimit - DailyReserve)
                    ELSE B!Floor(MonthlyLimit - MonthlyReserve)
    <3>1. spent[p] <= m /\ spent[p] <= calls[<<p, "total">>] /\ p \in B!Periods
      BY <1>2 DEF B!ReserveIsKept, B!Periods
    <3>2. m \in Nat BY DEF B!Floor, BudgetAssumption
    <3>3. scan # None /\ <<p, "total">> \in keys => calls[<<p, "total">>] < m BY <1>4, <3>1
    <3> HIDE DEF m
    <3>4. spent'[p] <= m BY <1>5, <1>7, <3>1, <3>2, <3>3
    <3> QED BY <3>4 DEF m
  <2>2. ASSUME NEW p \in B!Periods \ B!Dated PROVE calls'[<<p, "total">>] <= ScanMax
    <3>1. calls[<<p, "total">>] <= ScanMax /\ ScanMax \in Nat
      BY <1>2 DEF B!ReserveIsKept, BudgetAssumption
    <3>2. <<p, "total">> \in B!Counters /\ calls[<<p, "total">>] \in Nat BY <1>2, CountersAre
    <3>3. <<p, "total">> \in keys => calls[<<p, "total">>] < ScanMax BY <1>4
    <3> QED BY <1>5, <3>1, <3>2, <3>3
  <2>3. B!Dated' = B!Dated /\ B!Periods' = B!Periods BY DEF B!Dated, B!Periods
  <2> QED BY <2>1, <2>2, <2>3 DEF B!ReserveIsKept
<1>11. ASSUME NEW j \in B!Interfaces
       PROVE  B!Upto(Daily(calls', j), today) = B!Upto(Daily(calls, j), today) + (IF j = i THEN 1 ELSE 0)
  <2>1. Daily(calls, j) \in [0..MaxDays -> Nat] /\ Daily(calls', j) \in [0..MaxDays -> Nat]
    BY <1>2, <1>6, DailyIs
  <2>2. today \in Nat /\ MaxDays \in Nat /\ today \in 0..MaxDays BY <1>2 DEF BudgetAssumption
  <2>3. \A d \in 0..MaxDays : /\ Daily(calls', j)[d] = calls'[<<<<"day", d>>, j>>]
                              /\ Daily(calls, j)[d] = calls[<<<<"day", d>>, j>>]
                              /\ <<<<"day", d>>, j>> \in B!Counters /\ <<"day", d>> \in B!Dated
    BY CountersAre DEF Daily
  <2>4. \A d \in 0..today : d \in 0..MaxDays BY <2>2
  <2>5. CASE j = i
    <3>1. ASSUME NEW d \in 0..today
          PROVE  Daily(calls', j)[d] = IF d = today THEN Daily(calls, j)[d] + 1 ELSE Daily(calls, j)[d]
      <4>1. <<<<"day", d>>, j>> \in keys <=> d = today BY <1>3, <2>4, <2>5
      <4> QED BY <1>5, <2>4, <2>3, <4>1
    <3>2. B!Upto(Daily(calls', j), today) = B!Upto(Daily(calls, j), today) + 1
      BY <2>1, <2>2, <3>1, UptoRaised
    <3> QED BY <2>5, <3>2
  <2>6. CASE j # i
    <3>1. \A d \in 0..today : Daily(calls, j)[d] = Daily(calls', j)[d]
      BY ZenonT(30), <1>3, <1>5, <2>4, <2>3, <2>6
    <3>2. B!Upto(Daily(calls, j), today) = B!Upto(Daily(calls', j), today) /\ B!Upto(Daily(calls, j), today) \in Nat
      BY <2>1, <2>2, <3>1, UptoSame
    <3> QED BY <2>6, <3>2
  <2> QED BY <2>5, <2>6
<1> QED BY <1>6, <1>8, <1>9, <1>10, <1>11

LEMMA MadeIs ==
  \A i : B!Made(i) = B!Upto(Daily(calls, i), today) /\ B!Made(i)' = B!Upto(Daily(calls', i), today')
BY DEF B!Made, Daily

LEMMA BudgetMoves ==
  ASSUME BudgetAssumption, BudgetInv, NEW c \in Clients, NEW y, RequestOK(y),
         client' = [client EXCEPT ![c] = y], today' = today,
         calls' \in [B!Counters -> Nat], spent' \in [B!Dated -> Nat], sent' \in [B!Interfaces -> Nat],
         \A p \in B!Dated : spent'[p] <= calls'[<<p, "total">>],
         \A p \in B!Dated : calls'[<<p, "total">>] = InAll(calls', p),
         B!ReserveIsKept',
         \A j \in B!Interfaces : \E a, r \in {0, 1} :
           /\ Counted(j, client[c], y, a, r) /\ sent'[j] = sent[j] + a
           /\ B!Upto(Daily(calls', j), today) = B!Upto(Daily(calls, j), today) + r
  PROVE  BudgetInv'
<1>1. client \in [Clients -> Request] /\ y \in Request /\ client[c] \in Request
  BY BudgetTyped DEF RequestOK
<1>2. client' \in [Clients -> Request] /\ \A d \in Clients : RequestOK(client'[d])
  BY <1>1, BudgetTyped
<1>3. ASSUME NEW j \in B!Interfaces
      PROVE  sent'[j] + Cardinality({d \in Clients : Pays(client'[d], j)}) <= B!Made(j)'
  <2> DEFINE S == {d \in Clients : Pays(client[d], j)}
             T == {d \in Clients : Pays(client'[d], j)}
             P == Cardinality(S)
             Q == Cardinality(T)
             m == B!Upto(Daily(calls, j), today)
             n == B!Upto(Daily(calls', j), today)
  <2>1. PICK a \in {0, 1}, r \in {0, 1} :
          Counted(j, client[c], y, a, r) /\ sent'[j] = sent[j] + a /\ n = m + r
    OBVIOUS
  <2>2. /\ P \in Nat /\ Q \in Nat /\ Q <= P + 1
        /\ (Pays(y, j) => Pays(client[c], j)) => Q <= P
        /\ (Pays(client[c], j) /\ ~Pays(y, j) => Q + 1 <= P)
    <3>1. client'[c] = y /\ \A d \in Clients : d # c => client'[d] = client[d] BY <1>1
    <3>2. S \in SUBSET Clients /\ T \in SUBSET Clients /\ T \ {c} = S \ {c} BY <3>1
    <3>3. (c \in S <=> Pays(client[c], j)) /\ (c \in T <=> Pays(y, j)) BY <3>1
    <3> HIDE DEF S, T
    <3> QED BY <3>2, <3>3, PayingMoves
  <2>3. sent[j] + P <= m BY MadeIs DEF BudgetInv
  <2>4. sent[j] \in Nat BY BudgetTyped
  <2>5. m \in Nat
    <3>1. Daily(calls, j) \in [0..MaxDays -> Nat] /\ today \in 0..MaxDays /\ MaxDays \in Nat
      BY BudgetTyped, DailyIs DEF BudgetAssumption
    <3> QED BY <3>1, UptoSame
  <2> HIDE DEF P, Q, m, n
  <2>6. sent'[j] + Q <= n BY <2>1, <2>2, <2>3, <2>4, <2>5 DEF Counted
  <2> QED BY <2>6, MadeIs DEF Q, n
<1>4. today' \in 0..MaxDays BY BudgetTyped
<1>5. B!Counters' = B!Counters /\ B!Dated' = B!Dated /\ B!Interfaces' = B!Interfaces /\ Request' = Request
  BY DEF B!Counters, B!Periods, B!Dated, B!Interfaces, Request
<1> QED BY <1>2, <1>3, <1>4, <1>5 DEF BudgetInv

(* Steps that neither reserve nor send. *)
LEMMA BudgetQuiet ==
  ASSUME BudgetAssumption, BudgetInv, NEW c \in Clients, NEW y, RequestOK(y),
         client' = [client EXCEPT ![c] = y], UNCHANGED <<today, calls, spent, sent>>,
         \A j \in B!Interfaces : Pays(y, j) => Pays(client[c], j)
  PROVE  BudgetInv'
<1>1. /\ calls' \in [B!Counters -> Nat] /\ spent' \in [B!Dated -> Nat] /\ sent' \in [B!Interfaces -> Nat]
      /\ \A p \in B!Dated : spent'[p] <= calls'[<<p, "total">>]
      /\ \A p \in B!Dated : calls'[<<p, "total">>] = InAll(calls', p)
  BY DEF BudgetInv
<1>2. B!ReserveIsKept' BY BudgetTyped DEF B!ReserveIsKept
<1>3. ASSUME NEW j \in B!Interfaces
      PROVE  \E a, r \in {0, 1} :
               /\ Counted(j, client[c], y, a, r) /\ sent'[j] = sent[j] + a
               /\ B!Upto(Daily(calls', j), today) = B!Upto(Daily(calls, j), today) + r
  <2>1. Daily(calls, j) \in [0..MaxDays -> Nat] /\ today \in 0..MaxDays /\ MaxDays \in Nat /\ sent[j] \in Nat
    BY BudgetTyped, DailyIs DEF BudgetAssumption
  <2>2. B!Upto(Daily(calls, j), today) \in Nat BY <2>1, UptoSame
  <2>3. Counted(j, client[c], y, 0, 0) BY DEF Counted
  <2> QED BY <2>1, <2>2, <2>3
<1> QED BY <1>1, <1>2, <1>3, BudgetMoves

LEMMA BudgetInit == ASSUME BudgetAssumption, B!Init PROVE BudgetInv
<1> DEFINE z == 0
           x == B!Resting
<1>1. /\ today = z /\ calls = [k \in B!Counters |-> z] /\ client = [c \in Clients |-> x]
      /\ spent = [p \in B!Dated |-> z] /\ sent = [i \in B!Interfaces |-> z]
  BY DEF B!Init
<1>2. z \in 0..MaxDays /\ z \in Nat /\ z = 0 BY DEF BudgetAssumption
<1>3. x \in Request /\ x.pc = "idle" BY DEF B!Resting, Request
<1>4. RequestOK(x) /\ \A i : ~Pays(x, i) BY <1>3 DEF RequestOK, Pays
<1> HIDE DEF x, z
<1>5. /\ calls \in [B!Counters -> Nat] /\ spent \in [B!Dated -> Nat] /\ sent \in [B!Interfaces -> Nat]
      /\ client \in [Clients -> Request] /\ \A c \in Clients : RequestOK(client[c])
  BY <1>1, <1>2, <1>3, <1>4
<1>6. \A k \in B!Counters : calls[k] = z BY <1>1
<1>7. \A p \in B!Dated : spent[p] = z /\ calls[<<p, "total">>] = z /\ \A i \in B!Interfaces : calls[<<p, i>>] = z
  <2> SUFFICES ASSUME NEW p \in B!Dated
               PROVE  spent[p] = z /\ calls[<<p, "total">>] = z /\ \A i \in B!Interfaces : calls[<<p, i>>] = z
    OBVIOUS
  <2>1. <<p, "total">> \in B!Counters /\ \A i \in B!Interfaces : <<p, i>> \in B!Counters
    BY CountersAre
  <2> QED BY <1>1, <1>6, <2>1
<1>8. \A p \in B!Dated : spent[p] <= calls[<<p, "total">>] /\ calls[<<p, "total">>] = InAll(calls, p)
  <2> SUFFICES ASSUME NEW p \in B!Dated
               PROVE  spent[p] <= calls[<<p, "total">>] /\ calls[<<p, "total">>] = InAll(calls, p)
    OBVIOUS
  <2>1. \A i \in B!Interfaces : calls[<<p, i>>] = 0 BY <1>2, <1>7
  <2>2. InAll(calls, p) = 0 BY <2>1 DEF InAll, B!Interfaces
  <2> QED BY <1>2, <1>7, <2>2
<1>9. B!ReserveIsKept
  <2>1. \A p \in B!Periods \ B!Dated : calls[<<p, "total">>] <= ScanMax
    <3> SUFFICES ASSUME NEW p \in B!Periods PROVE calls[<<p, "total">>] <= ScanMax
      OBVIOUS
    <3>1. <<p, "total">> \in B!Counters BY CountersAre
    <3> QED BY <1>2, <1>6, <3>1 DEF BudgetAssumption
  <2>2. \A p \in B!Dated : spent[p] <= IF p[1] = "day" THEN B!Floor(DailyLimit - DailyReserve)
                                       ELSE B!Floor(MonthlyLimit - MonthlyReserve)
    <3>1. B!Floor(DailyLimit - DailyReserve) >= 0 /\ B!Floor(MonthlyLimit - MonthlyReserve) >= 0
      BY DEF BudgetAssumption, B!Floor
    <3> QED BY <1>2, <1>7, <3>1
  <2> QED BY <2>1, <2>2 DEF B!ReserveIsKept
<1>10. ASSUME NEW i \in B!Interfaces
       PROVE  sent[i] + Cardinality({c \in Clients : Pays(client[c], i)}) <= B!Made(i)
  <2>1. {c \in Clients : Pays(client[c], i)} = {} BY <1>1, <1>4
  <2>2. Cardinality({c \in Clients : Pays(client[c], i)}) = 0 BY <2>1, FS_EmptySet
  <2>3. B!Upto(Daily(calls, i), today) \in Nat
    <3>1. Daily(calls, i) \in [0..MaxDays -> Nat] /\ today \in 0..MaxDays /\ MaxDays \in Nat
      BY <1>1, <1>2, <1>5, DailyIs DEF BudgetAssumption
    <3> QED BY <3>1, UptoSame
  <2>4. sent[i] = 0 BY <1>1, <1>2
  <2> QED BY <2>2, <2>3, <2>4, MadeIs
<1> QED BY <1>1, <1>2, <1>5, <1>8, <1>9, <1>10 DEF BudgetInv

LEMMA BudgetNewDay == ASSUME BudgetAssumption, BudgetInv, B!NewDay PROVE BudgetInv'
<1>1. /\ today < MaxDays /\ today' = today + 1 /\ UNCHANGED <<calls, client, spent, sent>>
  BY DEF B!NewDay
<1>2. /\ today \in 0..MaxDays /\ MaxDays \in Nat /\ today' \in 0..MaxDays
  BY <1>1, BudgetTyped DEF BudgetAssumption
<1>3. ASSUME NEW i \in B!Interfaces
      PROVE  sent[i] + Cardinality({c \in Clients : Pays(client[c], i)}) <= B!Made(i)'
  <2> DEFINE f == Daily(calls, i)
             P == {c \in Clients : Pays(client[c], i)}
  <2>1. f \in [0..MaxDays -> Nat] BY BudgetTyped, DailyIs
  <2>2. sent[i] + Cardinality(P) <= B!Upto(f, today) BY MadeIs DEF BudgetInv
  <2>3. Cardinality(P) \in Nat /\ sent[i] \in Nat
    <3>1. P \subseteq Clients OBVIOUS
    <3> HIDE DEF P
    <3> QED BY <3>1, BudgetTyped, FS_Subset, FS_CardinalityType DEF BudgetAssumption
  <2>4. B!Made(i)' = B!Upto(f, today') BY <1>1, MadeIs
  <2> HIDE DEF f, P
  <2>5. B!Upto(f, today') = B!Upto(f, today) + f[today']
    <3> DEFINE n == today'
    <3>1. n \in 0..MaxDays /\ n # 0 /\ n - 1 = today BY <1>1, <1>2
    <3> HIDE DEF n
    <3>2. B!Upto(f, n) = B!Upto(f, n - 1) + f[n] BY <1>2, <2>1, <3>1, UptoNext
    <3> QED BY <3>1, <3>2 DEF n
  <2>6. f[today'] \in Nat /\ B!Upto(f, today) \in Nat BY <1>2, <2>1, UptoSame
  <2>7. sent[i] + Cardinality(P) <= B!Made(i)' BY <2>2, <2>3, <2>4, <2>5, <2>6
  <2> QED BY <2>7 DEF P
<1>4. B!Counters' = B!Counters /\ B!Dated' = B!Dated /\ B!Interfaces' = B!Interfaces /\ Request' = Request
  BY DEF B!Counters, B!Periods, B!Dated, B!Interfaces, Request
<1>5. B!ReserveIsKept' BY <1>1, BudgetTyped DEF B!ReserveIsKept
<1> QED BY <1>1, <1>2, <1>3, <1>4, <1>5 DEF BudgetInv

LEMMA BudgetBegin == ASSUME BudgetAssumption, BudgetInv, NEW c \in Clients, B!Begin(c) PROVE BudgetInv'
<1>1. PICK kind \in {"list", "export"} :
        client' = [client EXCEPT ![c] =
         [@ EXCEPT !.pc = IF kind = "list" THEN "call" ELSE "token",
                   !.next = IF kind = "list" THEN "wiki.nodes" ELSE "doc.exportSubmit",
                   !.then = IF kind = "list" THEN "token" ELSE "call",
                   !.month = IF c \in Scanners /\ kind = "list" THEN B!Month(today) ELSE None]]
  BY DEF B!Begin
<1>2. UNCHANGED <<today, calls, spent, sent>> BY DEF B!Begin
<1> DEFINE x == client[c]
           pc == IF kind = "list" THEN "call" ELSE "token"
           next == IF kind = "list" THEN "wiki.nodes" ELSE "doc.exportSubmit"
           then == IF kind = "list" THEN "token" ELSE "call"
           month == IF c \in Scanners /\ kind = "list" THEN B!Month(today) ELSE None
           y == [x EXCEPT !.pc = pc, !.next = next, !.then = then, !.month = month]
<1>3. client' = [client EXCEPT ![c] = y] BY <1>1, BudgetTyped
<1>4. /\ next \in B!Interfaces /\ pc \in {"call", "token"} /\ then \in {"token", "call"}
      /\ (pc = "call" => then = "token") /\ (pc = "token" => then = "call")
  BY DEF B!Interfaces
<1>5. x \in Request /\ month \in {B!Month(d) : d \in 0..MaxDays} \cup {None} BY BudgetTyped
<1> HIDE DEF x, pc, next, then, month
<1>6. y \in Request /\ y.pc = pc /\ y.next = next /\ y.then = then BY <1>4, <1>5 DEF Request
<1> HIDE DEF y
<1>7. RequestOK(y) /\ \A j : ~Pays(y, j) BY <1>4, <1>6 DEF RequestOK, Pays
<1> QED BY <1>2, <1>3, <1>7, BudgetQuiet

LEMMA BudgetToken == ASSUME BudgetAssumption, BudgetInv, NEW c \in Clients, B!UseToken(c) PROVE BudgetInv'
<1> DEFINE x == client[c]
           y == [x EXCEPT !.pc = x.then, !.next = x.next, !.then = "send"]
<1>1. /\ x.pc = "token" /\ client' = [client EXCEPT ![c] = y]
      /\ UNCHANGED <<today, calls, spent, sent>>
  BY BudgetTyped DEF B!UseToken, B!At, B!Step
<1>2. x \in Request /\ x.next \in B!Interfaces /\ x.then \in {"call", "send"}
  BY <1>1, BudgetTyped DEF RequestOK
<1> HIDE DEF x
<1>3. y \in Request /\ y.pc = x.then /\ y.next = x.next /\ y.then = "send" BY <1>2 DEF Request
<1> HIDE DEF y
<1>4. RequestOK(y) /\ \A j : Pays(y, j) => Pays(x, j) BY <1>1, <1>2, <1>3 DEF RequestOK, Pays
<1> QED BY <1>1, <1>4, BudgetQuiet DEF x

LEMMA BudgetPoll == ASSUME BudgetAssumption, BudgetInv, NEW c \in Clients, B!PollTask(c) PROVE BudgetInv'
<1> DEFINE x == client[c]
           i == "doc.exportQuery"
           y == [x EXCEPT !.pc = "call", !.next = i, !.then = "send"]
<1>1. client' = [client EXCEPT ![c] = y] /\ UNCHANGED <<today, calls, spent, sent>>
  BY BudgetTyped DEF B!PollTask, B!Poll, B!Step
<1>2. x \in Request /\ i \in B!Interfaces BY BudgetTyped DEF B!Interfaces
<1> HIDE DEF x, i
<1>3. y \in Request /\ y.pc = "call" /\ y.next = i /\ y.then = "send" BY <1>2 DEF Request
<1> HIDE DEF y
<1>4. RequestOK(y) /\ \A j : ~Pays(y, j) BY <1>2, <1>3 DEF RequestOK, Pays
<1> QED BY <1>1, <1>4, BudgetQuiet

LEMMA BudgetDone ==
  ASSUME BudgetAssumption, BudgetInv, NEW c \in Clients, B!ExportTimeout(c) \/ B!Refuse(c)
  PROVE  BudgetInv'
<1> DEFINE t == client[c].token
           y == [B!Resting EXCEPT !.token = t]
<1>1. client' = [client EXCEPT ![c] = y] /\ UNCHANGED <<today, calls, spent, sent>>
  BY DEF B!ExportTimeout, B!Refuse, B!Done
<1>2. t \in 0..MaxDays \cup {None} BY BudgetTyped DEF Request
<1> HIDE DEF t
<1>3. RequestOK(y) /\ \A j : ~Pays(y, j) BY <1>2, RestingIs
<1> HIDE DEF y
<1> QED BY <1>1, <1>3, BudgetQuiet

LEMMA BudgetReserve ==
  ASSUME BudgetAssumption, BudgetInv, NEW c \in Clients, B!ReserveInterface(c) PROVE BudgetInv'
<1> DEFINE x == client[c]
           i == x.next
           pc == IF x.then = "token" THEN "token" ELSE "send"
           y == [x EXCEPT !.pc = pc, !.next = i, !.then = "send"]
<1>1. /\ x.pc = "call" /\ B!Reserve(c, i) /\ client' = [client EXCEPT ![c] = y]
      /\ today' = today /\ sent' = sent
  BY BudgetTyped DEF B!ReserveInterface, B!At, B!Step
<1>2. x \in Request /\ i \in B!Interfaces /\ pc \in {"token", "send"}
  BY <1>1, BudgetTyped DEF RequestOK
<1> HIDE DEF pc
<1>3. y \in Request /\ y.pc = pc /\ y.next = i /\ y.then = "send"
  <2> HIDE DEF x, i
  <2> QED BY <1>2 DEF Request
<1>4. RequestOK(y) /\ \A j : j # i => ~Pays(y, j)
  <2> HIDE DEF x, i, y
  <2> QED BY <1>2, <1>3 DEF RequestOK, Pays
<1> HIDE DEF i, y
<1>5. /\ calls' \in [B!Counters -> Nat] /\ spent' \in [B!Dated -> Nat]
      /\ \A p \in B!Dated : spent'[p] <= calls'[<<p, "total">>]
      /\ \A p \in B!Dated : calls'[<<p, "total">>] = InAll(calls', p)
      /\ B!ReserveIsKept'
      /\ \A j \in B!Interfaces :
           B!Upto(Daily(calls', j), today) = B!Upto(Daily(calls, j), today) + (IF j = i THEN 1 ELSE 0)
  BY <1>1, <1>2, Reserved
<1>6. sent' \in [B!Interfaces -> Nat] /\ \A j \in B!Interfaces : sent[j] \in Nat
  BY <1>1, BudgetTyped
<1>7. ASSUME NEW j \in B!Interfaces
      PROVE  \E a, r \in {0, 1} :
               /\ Counted(j, client[c], y, a, r) /\ sent'[j] = sent[j] + a
               /\ B!Upto(Daily(calls', j), today) = B!Upto(Daily(calls, j), today) + r
  <2> DEFINE r == IF j = i THEN 1 ELSE 0
  <2>1. Counted(j, x, y, 0, r) BY <1>4 DEF Counted
  <2>2. r \in {0, 1} /\ sent'[j] = sent[j] + 0 BY <1>1, <1>6
  <2>3. B!Upto(Daily(calls', j), today) = B!Upto(Daily(calls, j), today) + r BY <1>5
  <2> HIDE DEF r
  <2> QED BY <2>1, <2>2, <2>3
<1> QED BY <1>1, <1>4, <1>5, <1>6, <1>7, BudgetMoves

LEMMA BudgetFetch == ASSUME BudgetAssumption, BudgetInv, NEW c \in Clients, B!FetchToken(c) PROVE BudgetInv'
<1> DEFINE x == client[c]
           i == "oauth.accessToken"
           then == x.then
           y == [x EXCEPT !.pc = then, !.then = "send", !.token = today]
           t == x.token
           o == [B!Resting EXCEPT !.token = t]
<1>1. /\ x.pc = "token" /\ B!Reserve(c, i) /\ sent' = [sent EXCEPT ![i] = @ + 1] /\ today' = today
      /\ client' = [client EXCEPT ![c] = y] \/ client' = [client EXCEPT ![c] = o]
  BY BudgetTyped DEF B!FetchToken, B!At, B!Done
<1>2. /\ x \in Request /\ i \in B!Interfaces /\ x.next \in B!Interfaces /\ x.then \in {"call", "send"}
      /\ today \in 0..MaxDays
  BY <1>1, BudgetTyped DEF RequestOK, B!Interfaces
<1>3. RequestOK(o) /\ \A j : ~Pays(o, j) BY <1>2, RestingIs DEF Request
<1>4. RequestOK(y) /\ \A j : Pays(y, j) => Pays(x, j)
  <2> HIDE DEF x
  <2>1. y \in Request /\ y.pc = then /\ y.next = x.next /\ y.then = "send" BY <1>2 DEF Request
  <2> HIDE DEF y
  <2> QED BY <1>1, <1>2, <2>1 DEF RequestOK, Pays
<1> HIDE DEF i, y, o
<1>5. PICK w : client' = [client EXCEPT ![c] = w] /\ RequestOK(w) /\ \A j : Pays(w, j) => Pays(x, j)
  BY <1>1, <1>3, <1>4
<1>6. /\ calls' \in [B!Counters -> Nat] /\ spent' \in [B!Dated -> Nat]
      /\ \A p \in B!Dated : spent'[p] <= calls'[<<p, "total">>]
      /\ \A p \in B!Dated : calls'[<<p, "total">>] = InAll(calls', p)
      /\ B!ReserveIsKept'
      /\ \A j \in B!Interfaces :
           B!Upto(Daily(calls', j), today) = B!Upto(Daily(calls, j), today) + (IF j = i THEN 1 ELSE 0)
  BY <1>1, <1>2, Reserved
<1>7. sent' \in [B!Interfaces -> Nat] /\ \A j \in B!Interfaces : sent'[j] = sent[j] + (IF j = i THEN 1 ELSE 0)
  <2>1. sent \in [B!Interfaces -> Nat] /\ \A j \in B!Interfaces : sent[j] \in Nat BY BudgetTyped
  <2> QED BY <1>1, <1>2, <2>1
<1>8. ASSUME NEW j \in B!Interfaces
      PROVE  \E a, r \in {0, 1} :
               /\ Counted(j, client[c], w, a, r) /\ sent'[j] = sent[j] + a
               /\ B!Upto(Daily(calls', j), today) = B!Upto(Daily(calls, j), today) + r
  <2> DEFINE r == IF j = i THEN 1 ELSE 0
  <2>1. Counted(j, x, w, r, r) /\ r \in {0, 1} BY <1>5 DEF Counted
  <2>2. sent'[j] = sent[j] + r BY <1>7
  <2>3. B!Upto(Daily(calls', j), today) = B!Upto(Daily(calls, j), today) + r BY <1>6
  <2> HIDE DEF r
  <2> QED BY <2>1, <2>2, <2>3
<1> QED BY <1>1, <1>5, <1>6, <1>7, <1>8, BudgetMoves

LEMMA BudgetSend == ASSUME BudgetAssumption, BudgetInv, NEW c \in Clients, B!Send(c) PROVE BudgetInv'
<1> DEFINE x == client[c]
           i == x.next
           q == "doc.exportQuery"
           y == [x EXCEPT !.pc = "poll", !.next = q, !.then = "send"]
           t == x.token
           o == [B!Resting EXCEPT !.token = t]
<1>1. /\ x.pc = "send" /\ sent' = [sent EXCEPT ![i] = @ + 1] /\ UNCHANGED <<today, calls, spent>>
      /\ client' = [client EXCEPT ![c] = y] \/ client' = [client EXCEPT ![c] = o]
  BY BudgetTyped DEF B!Send, B!At, B!Step, B!Done
<1>2. x \in Request /\ i \in B!Interfaces /\ x.then = "send" /\ q \in B!Interfaces
  BY <1>1, BudgetTyped DEF RequestOK, B!Interfaces
<1>3. RequestOK(o) /\ \A j : ~Pays(o, j) BY <1>2, RestingIs DEF Request
<1>4. RequestOK(y) /\ \A j : ~Pays(y, j)
  <2> HIDE DEF x, q
  <2>1. y \in Request /\ y.pc = "poll" /\ y.next = q /\ y.then = "send" BY <1>2 DEF Request
  <2> HIDE DEF y
  <2> QED BY <2>1 DEF RequestOK, Pays
<1>5. Pays(x, i) BY <1>1, <1>2 DEF Pays
<1> HIDE DEF i, q, y, o
<1>6. PICK w : client' = [client EXCEPT ![c] = w] /\ RequestOK(w) /\ \A j : ~Pays(w, j)
  BY <1>1, <1>3, <1>4
<1>7. /\ calls' \in [B!Counters -> Nat] /\ spent' \in [B!Dated -> Nat]
      /\ \A p \in B!Dated : spent'[p] <= calls'[<<p, "total">>]
      /\ \A p \in B!Dated : calls'[<<p, "total">>] = InAll(calls', p)
  BY <1>1 DEF BudgetInv
<1>8. B!ReserveIsKept' BY <1>1, BudgetTyped DEF B!ReserveIsKept
<1>9. sent' \in [B!Interfaces -> Nat] /\ \A j \in B!Interfaces : sent'[j] = sent[j] + (IF j = i THEN 1 ELSE 0)
  <2>1. sent \in [B!Interfaces -> Nat] /\ \A j \in B!Interfaces : sent[j] \in Nat BY BudgetTyped
  <2> QED BY <1>1, <1>2, <2>1
<1>10. ASSUME NEW j \in B!Interfaces
       PROVE  \E a, r \in {0, 1} :
                /\ Counted(j, client[c], w, a, r) /\ sent'[j] = sent[j] + a
                /\ B!Upto(Daily(calls', j), today) = B!Upto(Daily(calls, j), today) + r
  <2> DEFINE a == IF j = i THEN 1 ELSE 0
             m == B!Upto(Daily(calls, j), today)
  <2>1. Counted(j, x, w, a, 0) /\ a \in {0, 1} BY <1>5, <1>6 DEF Counted
  <2>2. sent'[j] = sent[j] + a BY <1>9
  <2>3. m \in Nat
    <3>1. Daily(calls, j) \in [0..MaxDays -> Nat] /\ today \in 0..MaxDays /\ MaxDays \in Nat
      BY BudgetTyped, DailyIs DEF BudgetAssumption
    <3> QED BY <3>1, UptoSame
  <2>4. B!Upto(Daily(calls', j), today) = m + 0 BY <1>1, <2>3
  <2> HIDE DEF a
  <2> QED BY <2>1, <2>2, <2>4
<1> QED BY <1>1, <1>6, <1>7, <1>8, <1>9, <1>10, BudgetMoves

LEMMA BudgetStep == ASSUME BudgetAssumption, BudgetInv, [B!Next]_(B!vars) PROVE BudgetInv'
<1>1. CASE B!NewDay BY <1>1, BudgetNewDay
<1>2. ASSUME NEW c \in Clients,
             \/ B!Begin(c) \/ B!ReserveInterface(c) \/ B!UseToken(c) \/ B!FetchToken(c) \/ B!Send(c)
             \/ B!PollTask(c) \/ B!ExportTimeout(c) \/ B!Refuse(c)
      PROVE  BudgetInv'
  BY <1>2, BudgetBegin, BudgetReserve, BudgetToken, BudgetFetch, BudgetSend, BudgetPoll, BudgetDone
<1>3. CASE UNCHANGED B!vars
  <2>1. UNCHANGED <<today, calls, client, spent, sent>> BY <1>3 DEF B!vars
  <2>2. B!Counters' = B!Counters /\ B!Dated' = B!Dated /\ B!Interfaces' = B!Interfaces /\ Request' = Request
    BY DEF B!Counters, B!Periods, B!Dated, B!Interfaces, Request
  <2>3. B!ReserveIsKept' BY <2>1, BudgetTyped DEF B!ReserveIsKept
  <2>4. \A i : B!Made(i)' = B!Made(i) BY <2>1, MadeIs
  <2> QED BY <2>1, <2>2, <2>3, <2>4 DEF BudgetInv
<1> QED BY <1>1, <1>2, <1>3 DEF B!Next

(* The counters of an interface add up to the total of their period, every *)
(* request that left was reserved for, and scans leave to the other        *)
(* collectors what is kept for them, in every order of reservations,       *)
(* refusals, failed tokens and polls (reserve_call in api_usage.py, and    *)
(* the clients of integrations.py).                                        *)
THEOREM BudgetKept ==
  BudgetAssumption => (B!Spec => []B!BudgetHolds) /\ (Spec => []BudgetHolds)
<1> SUFFICES ASSUME BudgetAssumption
             PROVE  (B!Spec => []B!BudgetHolds) /\ (Spec => []BudgetHolds)
  OBVIOUS
<1>1. B!Init => BudgetInv BY BudgetInit
<1>2. BudgetInv /\ [B!Next]_B!vars => BudgetInv' BY BudgetStep
<1>3. BudgetInv => B!BudgetHolds
  <2> SUFFICES ASSUME BudgetInv PROVE B!BudgetHolds
    OBVIOUS
  <2>1. ASSUME NEW i \in B!Interfaces
        PROVE  sent[i] + B!Cardinality({c \in Clients : B!Paid(c, i)}) <= B!Made(i)
    <3>1. {c \in Clients : B!Paid(c, i)} = {c \in Clients : Pays(client[c], i)} BY DEF B!Paid, Pays
    <3> DEFINE P == {c \in Clients : Pays(client[c], i)}
    <3>2. sent[i] + Cardinality(P) <= B!Made(i) BY DEF BudgetInv
    <3> HIDE DEF P
    <3>3. B!Cardinality(P) = Cardinality(P) BY DEF B!Cardinality, Cardinality
    <3>4. sent[i] + B!Cardinality(P) <= B!Made(i) BY <3>2, <3>3
    <3> QED BY <3>1, <3>4 DEF P
  <2>2. B!CountsAgree BY <2>1 DEF BudgetInv, InAll, B!CountsAgree
  <2> QED BY <2>2 DEF BudgetInv, B!BudgetHolds
<1>4. B!Spec => []B!BudgetHolds BY <1>1, <1>2, <1>3, PTL DEF B!Spec
<1> DEFINE Chosen == which = "budget" => BudgetInv
<1>5. Init => Chosen BY <1>1, Starts
<1>6. Chosen /\ [Next]_all => Chosen' BY <1>2, Steps
<1>7. Chosen => BudgetHolds BY <1>3 DEF BudgetHolds
<1>8. Spec => []BudgetHolds
  <2> HIDE DEF Chosen
  <2> QED BY <1>5, <1>6, <1>7, PTL DEF Spec
<1> QED BY <1>4, <1>8

-----------------------------------------------------------------------------
(* AuditPull. *)

LEMMA EventIs ==
  ASSUME PullAssumption, NEW e \in Event
  PROVE  e[1] \in Nat /\ e[2] \in Nat /\ e[2] \in Biz /\ e = <<e[1], e[2]>> /\ e # None
<1>1. e \in Nat \X Biz /\ Biz \subseteq Nat /\ None \notin Nat \X Biz BY DEF Event, PullAssumption
<1>2. e # None BY <1>1
<1>3. e[1] \in Nat /\ e[2] \in Biz /\ e = <<e[1], e[2]>> BY <1>1
<1> QED BY <1>1, <1>2, <1>3

LEMMA BeforeIs ==
  ASSUME PullAssumption, NEW a \in Event, NEW b \in Event
  PROVE  /\ a = b \/ Log!Before(a, b) \/ Log!Before(b, a)
         /\ Log!Before(a, b) => a[1] <= b[1] /\ ~Log!Before(b, a) /\ a # b
         /\ a[1] < b[1] => Log!Before(a, b)
         /\ \A c \in Event : Log!Before(a, b) /\ Log!Before(b, c) => Log!Before(a, c)
<1>1. /\ a[1] \in Nat /\ a[2] \in Nat /\ b[1] \in Nat /\ b[2] \in Nat
      /\ a = <<a[1], a[2]>> /\ b = <<b[1], b[2]>>
  BY EventIs
<1>2. \A c \in Event : c[1] \in Nat /\ c[2] \in Nat BY EventIs
<1>3. a[1] = b[1] /\ a[2] = b[2] => a = b BY <1>1
<1>4. \A c \in Event : Log!Before(a, b) /\ Log!Before(b, c) => Log!Before(a, c)
  BY <1>1, <1>2 DEF Log!Before
<1> QED BY <1>1, <1>3, <1>4 DEF Log!Before

(* A page that is not empty has a last operation. *)
LEMMA LastIs ==
  ASSUME PullAssumption, NEW rows \in SUBSET Event, rows # {}, NEW n \in Nat, \A a \in rows : a[1] <= n
  PROVE  Log!Last(rows) \in rows /\ \A a \in rows : a = Log!Last(rows) \/ Log!Before(a, Log!Last(rows))
<1> DEFINE T == {a[1] : a \in rows}
<1>1. T \subseteq Nat /\ T # {} /\ \A t \in T : t <= n BY EventIs
<1>2. PICK t \in T : \A u \in T : u <= t
  <2> HIDE DEF T
  <2>1. T \subseteq 0..n BY <1>1
  <2>2. IsFiniteSet(0..n) BY FS_Interval
  <2>3. IsFiniteSet(T) /\ T \in SUBSET Nat BY <1>1, <2>1, <2>2, FS_Subset
  <2> QED BY <1>1, <2>3, GreatestNat
<1> DEFINE B1 == {a[2] : a \in {r \in rows : r[1] = t}}
<1>3. B1 \subseteq Nat /\ B1 # {} BY <1>2, EventIs
<1>4. PICK m \in Nat : \A b \in B1 : b <= m
  BY EventIs DEF PullAssumption
<1>5. PICK b \in B1 : \A c \in B1 : c <= b
  <2> HIDE DEF B1
  <2>1. B1 \subseteq 0..m BY <1>3, <1>4
  <2>2. IsFiniteSet(0..m) BY FS_Interval
  <2>3. IsFiniteSet(B1) /\ B1 \in SUBSET Nat BY <1>3, <2>1, <2>2, FS_Subset
  <2> QED BY <1>3, <2>3, GreatestNat
<1>6. PICK e \in rows : e[1] = t /\ e[2] = b
  BY <1>5
<1>7. ASSUME NEW a \in rows PROVE a = e \/ Log!Before(a, e)
  <2>1. /\ a[1] \in Nat /\ a[2] \in Nat /\ e[1] \in Nat /\ e[2] \in Nat
        /\ a = <<a[1], a[2]>> /\ e = <<e[1], e[2]>>
    BY EventIs
  <2>2. a[1] <= e[1] /\ (a[1] = e[1] => a[2] <= e[2]) BY <1>2, <1>5, <1>6
  <2> QED BY <2>1, <2>2 DEF Log!Before
<1> QED BY <1>6, <1>7 DEF Log!Last

(* What a page has: of what the feed had to show when the window was       *)
(* opened, the first that is not in the page comes after all of a full one.*)
LEMMA PageIs ==
  ASSUME PullAssumption, PullTypes, NEW start \in Int, NEW end \in Int, end <= now,
         NEW cur \in Event \cup {None}, NEW rows \in Log!Pages(start, end, cur)
  PROVE  /\ rows \in SUBSET Event /\ IsFiniteSet(rows)
         /\ \A a \in rows : a[1] <= now /\ a[1] <= end /\ (cur # None => Log!Before(cur, a))
         /\ Ahead(start, end, cur, rows)
<1> DEFINE S == {e \in shown : start <= e[1] /\ e[1] <= end /\ (cur = None \/ Log!Before(cur, e))}
<1>1. /\ rows \in SUBSET S /\ Log!Cardinality(rows) = Log!Least(PageSize, Log!Cardinality(S))
      /\ \A a \in rows, b \in S \ rows : Log!Before(a, b)
  BY DEF Log!Pages
<1>2. Log!Cardinality(rows) = Cardinality(rows) /\ Log!Cardinality(S) = Cardinality(S)
  <2> HIDE DEF S
  <2> QED BY DEF Log!Cardinality, Cardinality
<1>3. S \subseteq shown OBVIOUS
<1>4. IsFiniteSet(S) /\ IsFiniteSet(rows)
  <2> HIDE DEF S
  <2> QED BY <1>1, <1>3, FS_Subset DEF PullTypes
<1>5. Cardinality(rows) \in Nat /\ Cardinality(S) \in Nat /\ (Cardinality(rows) = Cardinality(S) => rows = S)
  <2> HIDE DEF S
  <2> QED BY <1>1, <1>4, FS_CardinalityType, FS_Subset
<1>6. rows = S \/ Cardinality(rows) = PageSize
  <2> HIDE DEF S
  <2> QED BY <1>1, <1>2, <1>5 DEF Log!Least
<1>7. rows \in SUBSET Event /\ \A a \in rows : a[1] <= now /\ a[1] <= end /\ (cur # None => Log!Before(cur, a))
  BY <1>1 DEF PullTypes
<1>8. ASSUME NEW e \in Live, start <= e[1], e[1] + Lookback < end, ~Reached(cur, e)
      PROVE  e \in rows \/ (Cardinality(rows) >= PageSize /\ \A a \in rows : Log!Before(a, e))
  <2>1. e \in Event /\ e[1] \in Nat /\ now \in Nat /\ Lag \in Nat /\ Lookback \in Nat /\ Lag <= Lookback
    BY EventIs DEF Live, PullTypes, PullAssumption
  <2>2. e \notin hidden BY <1>8, <2>1 DEF PullTypes
  <2>3. e \in S BY <1>8, <2>1, <2>2 DEF Live, Reached
  <2>4. PageSize \in Nat BY DEF PullAssumption
  <2> HIDE DEF S
  <2> QED BY <1>1, <1>5, <1>6, <2>3, <2>4
<1> QED BY <1>4, <1>7, <1>8 DEF Ahead

(* A page behind no cursor serves as one behind any. *)
LEMMA AheadOfAny ==
  ASSUME NEW start, NEW end, NEW cur, NEW rows, Ahead(start, end, None, rows)
  PROVE  Ahead(start, end, cur, rows)
BY DEF Ahead, Reached

LEMMA PullTyped ==
  ASSUME PullTypes
  PROVE  /\ now \in Nat /\ st \in PullState /\ proc \in Cycle /\ from \in Instant
         /\ st.start \in Instant /\ st.end \in Instant /\ st.cur \in Event \cup {None} /\ st.done \in Instant
         /\ st.last \in Instant /\ st.ran \in Instant /\ st.gap \in Instant
         /\ proc.rows \in SUBSET Event /\ proc.cur \in Event \cup {None} /\ proc.start \in Instant
         /\ proc.end \in Instant /\ proc.pages \in Nat /\ proc.pc \in {"out", "fetch", "page", "read", "pulled"}
         /\ Live \in SUBSET Event
BY DEF PullTypes, PullState, Cycle, Live

LEMMA IdleIs == Log!Idle \in Cycle /\ Log!Idle.pc = "out" /\ Log!Idle.rows = {}
<1> DEFINE z == 0
           r == {}
           x == [pc |-> "out", pages |-> z, rows |-> r, cur |-> None, start |-> None, end |-> None]
<1>1. Log!Idle = x BY DEF Log!Idle
<1>2. z \in Nat /\ r \in SUBSET Event /\ r = {} OBVIOUS
<1> HIDE DEF z, r
<1>3. x \in Cycle /\ x.pc = "out" /\ x.rows = r BY <1>2 DEF Cycle, Instant
<1> QED BY <1>1, <1>2, <1>3

LEMMA PullInit == ASSUME PullAssumption, Log!Init PROVE PullInv
<1> DEFINE x == Log!State
<1>1. /\ now = 0 /\ hidden = {} /\ shown = {} /\ ev = {} /\ st = x /\ proc = Log!Idle
      /\ mode \in Modes /\ from = None
  BY DEF Log!Init
<1>2. x \in PullState /\ x.done = None /\ x.start = None /\ x.last = None
  BY DEF Log!State, PullState, Instant
<1> HIDE DEF x
<1>3. PullTypes BY <1>1, <1>2, IdleIs, FS_EmptySet DEF PullTypes, Instant, PullAssumption
<1>4. MetadataInv /\ LegacyInv BY <1>1, <1>2, IdleIs DEF MetadataInv, LegacyInv
<1> QED BY <1>3, <1>4 DEF PullInv

(* Whatever the feed does, operations it did not have are none that were   *)
(* looked for.                                                             *)
LEMMA PullWatched ==
  ASSUME PullAssumption, PullInv, PullTypes', now <= now',
         \A e \in Live' : e \in Live \/ e[1] = now,
         UNCHANGED <<ev, st, proc, mode, from, unread>>
  PROVE  PullInv'
<1>1. /\ PullTypes /\ now \in Nat /\ now' \in Nat /\ Lookback \in Nat
      /\ \A e \in Live : e[1] \in Nat
  BY PullTyped, EventIs DEF PullInv, PullTypes, PullAssumption
<1>2. ASSUME NEW end \in Int, end <= now, NEW e \in Live', e[1] + Lookback < end PROVE e \in Live
  BY <1>1, <1>2
<1>3. mode = "metadata" => MetadataInv'
  <2> SUFFICES ASSUME mode = "metadata" PROVE MetadataInv'
    OBVIOUS
  <2>1. MetadataInv BY DEF PullInv
  <2>2. /\ st.done # None => st.done \in Int
        /\ st.end # None => st.end \in Int
    BY <1>1, PullTyped DEF Instant
  <2>3. st.done # None => Settled(st.done)'
    BY <1>1, <1>2, <2>1, <2>2 DEF MetadataInv, Settled, Accounted
  <2>4. st.start # None => Covered(st.start, st.end)'
    BY <1>1, <1>2, <2>1, <2>2 DEF MetadataInv, Covered, Accounted
  <2>5. st.start # None => Behind(st.start, st.end, st.cur, ev)'
    BY <1>1, <1>2, <2>1, <2>2 DEF MetadataInv, Behind, Reached
  <2>6. proc.pc = "page" => Ahead(st.start, st.end, st.cur, proc.rows)'
    <3> SUFFICES ASSUME proc.pc = "page" PROVE Ahead(st.start, st.end, st.cur, proc.rows)'
      OBVIOUS
    <3>1. Ahead(st.start, st.end, st.cur, proc.rows) /\ st.end \in Int /\ st.end <= now
      BY <2>1, <2>2 DEF MetadataInv
    <3>2. \A e \in Live' : e[1] + Lookback < st.end => e \in Live BY <1>2, <3>1
    <3> QED BY <3>1, <3>2 DEF Ahead, Reached, Log!Before
  <2>7. \A t \in Int : t <= now => t <= now' BY <1>1
  <2>8. /\ st.done # None => st.done <= now'
        /\ st.start # None => st.end # None /\ st.end <= now'
    BY <2>1, <2>2, <2>7 DEF MetadataInv
  <2> QED BY <2>1, <2>3, <2>4, <2>5, <2>6, <2>8 DEF MetadataInv
<1>4. mode = "legacy" => LegacyInv'
  <2> SUFFICES ASSUME mode = "legacy" PROVE LegacyInv'
    OBVIOUS
  <2>1. LegacyInv BY DEF PullInv
  <2>2. /\ st.last # None => st.last \in Int
        /\ proc.end # None => proc.end \in Int
    BY <1>1, PullTyped DEF Instant
  <2>3. st.last # None => Settled(st.last)'
    BY <1>1, <1>2, <2>1, <2>2 DEF LegacyInv, Settled, Accounted
  <2>4. proc.pc # "out" => Covered(proc.start, proc.end)'
    BY <1>1, <1>2, <2>1, <2>2 DEF LegacyInv, Covered, Accounted
  <2>5. proc.pc # "out" => Behind(proc.start, proc.end, proc.cur, proc.rows)'
    BY <1>1, <1>2, <2>1, <2>2 DEF LegacyInv, Behind, Reached
  <2>6. \A t \in Int : t <= now => t <= now' BY <1>1
  <2>7. /\ st.last # None => st.last <= now'
        /\ proc.pc # "out" => proc.end # None /\ proc.end <= now'
    BY <2>1, <2>2, <2>6 DEF LegacyInv
  <2> QED BY <2>1, <2>3, <2>4, <2>5, <2>7 DEF LegacyInv
<1> QED BY <1>3, <1>4 DEF PullInv

LEMMA PullFeeds ==
  ASSUME PullAssumption, PullInv, Log!Happen \/ Log!Show \/ Log!Tick
  PROVE  PullInv'
<1>1. /\ PullTypes /\ now \in Nat /\ Lag \in Nat
      /\ UNCHANGED <<ev, st, proc, mode, from, unread>>
  BY DEF PullInv, PullTypes, PullAssumption, Log!Happen, Log!Show, Log!Tick
<1>2. CASE Log!Happen
  <2>1. PICK b \in Biz : hidden' = hidden \cup {<<now, b>>} /\ shown' = shown /\ now' = now
    BY <1>2 DEF Log!Happen
  <2>2. <<now, b>> \in Event BY <1>1 DEF Event
  <2> DEFINE e == <<now, b>>
  <2>3. e[1] = now OBVIOUS
  <2> HIDE DEF e
  <2>4. PullTypes' BY <1>1, <2>1, <2>2, <2>3 DEF PullTypes, e
  <2>5. \A x \in Live' : x \in Live \/ x[1] = now BY <2>1, <2>3 DEF Live, e
  <2> QED BY <1>1, <2>1, <2>4, <2>5, PullWatched
<1>3. CASE Log!Show
  <2>1. PICK e \in hidden : hidden' = hidden \ {e} /\ shown' = shown \cup {e} /\ now' = now
    BY <1>3 DEF Log!Show
  <2>2. IsFiniteSet(shown') BY <1>1, <2>1, FS_AddElement DEF PullTypes
  <2>3. PullTypes' BY <1>1, <2>1, <2>2 DEF PullTypes
  <2>4. Live' = Live BY <2>1 DEF Live
  <2> QED BY <1>1, <2>1, <2>3, <2>4, PullWatched
<1>4. CASE Log!Tick
  <2>1. now' = now + 1 /\ hidden' = hidden /\ shown' = shown /\ \A e \in hidden : now < e[1] + Lag
    BY <1>4 DEF Log!Tick
  <2>2. \A e \in hidden \cup shown : e[1] \in Nat BY <1>1, EventIs DEF PullTypes
  <2>3. /\ \A e \in hidden : e[1] <= now' /\ now' <= e[1] + Lag
        /\ \A e \in shown : e[1] <= now'
    BY <1>1, <2>1, <2>2 DEF PullTypes
  <2>4. \A a \in proc.rows : a[1] <= now'
    <3>1. \A a \in proc.rows : a[1] \in Nat /\ a[1] <= now BY <1>1, EventIs, PullTyped DEF PullTypes
    <3> QED BY <1>1, <2>1, <3>1
  <2>5. PullTypes' BY <1>1, <2>1, <2>3, <2>4 DEF PullTypes
  <2>6. Live' = Live BY <2>1 DEF Live
  <2> QED BY <1>1, <2>1, <2>5, <2>6, PullWatched
<1> QED BY <1>2, <1>3, <1>4

LEMMA PullTypesKept ==
  ASSUME PullTypes, UNCHANGED <<now, hidden, shown, mode>>, st' \in PullState, proc' \in Cycle,
         from' \in Instant, ev' \in SUBSET Event, IsFiniteSet(proc'.rows),
         \A a \in proc'.rows : a[1] <= now
  PROVE  PullTypes'
BY DEF PullTypes

(* A gap is recorded no later than the one that was there. *)
LEMMA GapIs ==
  ASSUME PullAssumption, NEW s \in PullState, NEW since \in Int,
         NEW reason \in {"expired_window", "migration_gap", "lookback_exceeded"}
  PROVE  LET w == Log!WithGap(s, since, reason)
         IN  /\ w \in PullState /\ w.gap \in Int /\ w.gap # None /\ w.gap <= since /\ w.reason # ""
             /\ s.gap # None => w.gap <= s.gap
             /\ w.start = s.start /\ w.end = s.end /\ w.cur = s.cur /\ w.done = s.done /\ w.last = s.last
             /\ w.ran = s.ran
<1> DEFINE g == IF s.gap = None THEN since ELSE Log!Least(s.gap, since)
           w == [s EXCEPT !.gap = g, !.reason = reason]
<1>1. Log!WithGap(s, since, reason) = w BY DEF Log!WithGap, PullState
<1>2. s.gap \in Int \cup {None} /\ None \notin Int BY DEF PullState, Instant, PullAssumption
<1>3. g \in Int /\ g # None /\ g <= since /\ (s.gap # None => g <= s.gap) BY <1>2 DEF Log!Least
<1> HIDE DEF g
<1>4. w \in PullState BY <1>3 DEF PullState, Instant
<1>5. /\ w.gap = g /\ w.reason = reason
      /\ w.start = s.start /\ w.end = s.end /\ w.cur = s.cur /\ w.done = s.done /\ w.last = s.last
      /\ w.ran = s.ran
  BY DEF PullState
<1> QED BY <1>1, <1>3, <1>4, <1>5

LEMMA DroppedIs ==
  ASSUME PullAssumption, now \in Nat, NEW s \in PullState
  PROVE  LET d == Log!DropExpired(s)
         IN  /\ d \in PullState /\ d.done = s.done /\ d.last = s.last /\ d.ran = s.ran
             /\ Gapped(s) => Gapped(d) /\ d.gap <= s.gap
             /\ d = s \/ d.start = None
<1>1. CASE s.start # None /\ s.start < Log!Lower
  <2> DEFINE w == Log!WithGap(s, s.start, "expired_window")
             d == Log!Closed(w)
  <2>1. s.start \in Int BY <1>1 DEF PullState, Instant
  <2>2. /\ w \in PullState /\ w.gap # None /\ w.reason # "" /\ (s.gap # None => w.gap <= s.gap)
        /\ w.done = s.done /\ w.last = s.last /\ w.ran = s.ran
    BY <2>1, GapIs
  <2>3. Log!DropExpired(s) = d BY <1>1 DEF Log!DropExpired
  <2> HIDE DEF w
  <2>4. d \in PullState BY <2>2 DEF Log!Closed, PullState, Instant
  <2>5. d.start = None /\ d.gap = w.gap /\ d.reason = w.reason /\ d.done = w.done /\ d.last = w.last
        /\ d.ran = w.ran
    BY <2>2 DEF Log!Closed, PullState
  <2> HIDE DEF d
  <2> QED BY <2>2, <2>3, <2>4, <2>5 DEF Gapped
<1>2. CASE ~(s.start # None /\ s.start < Log!Lower)
  <2>1. Log!DropExpired(s) = s BY <1>2 DEF Log!DropExpired
  <2>2. s.gap # None => s.gap \in Int BY DEF PullState, Instant
  <2>3. s.gap # None => s.gap <= s.gap BY <2>2
  <2> QED BY <2>1, <2>3 DEF Gapped
<1> QED BY <1>1, <1>2

LEMMA OpenedIs ==
  ASSUME PullAssumption, now \in Nat, NEW s \in PullState
  PROVE  LET o == Log!Opened(s)
         IN  /\ o \in PullState /\ o.done = s.done /\ o.last = s.last
             /\ Gapped(s) => Gapped(o) /\ o.gap <= s.gap
             /\ s.start # None => o = s
             /\ s.start = None =>
                  /\ o.start = Log!Greatest(Log!Wanted(s), Log!Lower) /\ o.start \in Int /\ o.start # None
                  /\ o.end = now /\ o.end # None /\ o.cur = None
                  /\ s.done = None => Gapped(o) /\ o.gap <= o.start
<1>1. CASE s.start # None
  <2>1. Log!Opened(s) = s BY <1>1 DEF Log!Opened
  <2>2. s.gap # None => s.gap \in Int BY DEF PullState, Instant
  <2>3. s.gap # None => s.gap <= s.gap BY <2>2
  <2> QED BY <1>1, <2>1, <2>3 DEF Gapped
<1>2. CASE s.start = None
  <2> DEFINE t == Log!Wanted(s)
             since == IF s.ran = None THEN t ELSE Log!Least(t, s.ran)
             g == IF s.done = None THEN Log!WithGap(s, since, "migration_gap")
                  ELSE IF t < Log!Lower THEN Log!WithGap(s, since, "lookback_exceeded") ELSE s
             b == Log!Greatest(t, Log!Lower)
             o == [g EXCEPT !.start = b, !.end = now, !.cur = None]
  <2>1. Log!Opened(s) = o BY <1>2 DEF Log!Opened
  <2>2. s.ran \in Int \cup {None} /\ s.done \in Int \cup {None} /\ None \notin Int /\ s.gap \in Int \cup {None}
    BY DEF PullState, Instant, PullAssumption
  <2>3. t \in Int /\ Log!Lower \in Int BY <2>2 DEF Log!Wanted, Log!Lower, PullAssumption
  <2>4. b \in Int /\ t <= b /\ b # None
    <3> HIDE DEF t
    <3> QED BY <2>2, <2>3 DEF Log!Greatest
  <2>5. since \in Int /\ since <= b
    <3>1. since \in Int /\ since <= t
      <4> HIDE DEF t
      <4> QED BY <2>2, <2>3 DEF Log!Least
    <3> HIDE DEF t, since, b
    <3> QED BY <2>3, <2>4, <3>1
  <2>6. /\ g \in PullState /\ g.done = s.done /\ g.last = s.last
        /\ Gapped(s) => Gapped(g) /\ g.gap <= s.gap
        /\ s.done = None => Gapped(g) /\ g.gap <= b
    <3> DEFINE w1 == Log!WithGap(s, since, "migration_gap")
               w2 == Log!WithGap(s, since, "lookback_exceeded")
    <3>1. /\ w1 \in PullState /\ w1.gap \in Int /\ w1.done = s.done /\ w1.last = s.last /\ Gapped(w1)
          /\ w1.gap <= since /\ (s.gap # None => w1.gap <= s.gap)
      <4> HIDE DEF since
      <4> QED BY <2>5, GapIs DEF Gapped
    <3>2. /\ w2 \in PullState /\ w2.done = s.done /\ w2.last = s.last /\ Gapped(w2)
          /\ (s.gap # None => w2.gap <= s.gap)
      <4> HIDE DEF since
      <4> QED BY <2>5, GapIs DEF Gapped
    <3>3. g = w1 \/ g = w2 \/ g = s OBVIOUS
    <3>4. s.done = None => g = w1 OBVIOUS
    <3>5. s.gap # None => s.gap <= s.gap BY <2>2
    <3> HIDE DEF w1, w2, g, since, b
    <3>6. w1.gap <= b BY <2>4, <2>5, <3>1
    <3> QED BY <3>1, <3>2, <3>3, <3>4, <3>5, <3>6 DEF Gapped
  <2>7. o \in PullState
    <3>1. b \in Instant /\ now \in Instant
      <4> HIDE DEF b
      <4> QED BY <2>4 DEF Instant
    <3> HIDE DEF g, b
    <3> QED BY <2>6, <3>1 DEF PullState
  <2>8. /\ o.start = b /\ o.end = now /\ o.cur = None /\ o.done = g.done /\ o.last = g.last /\ o.gap = g.gap
        /\ o.reason = g.reason
    <3> HIDE DEF g, b
    <3> QED BY <2>6 DEF PullState
  <2>9. now # None BY DEF PullAssumption
  <2>10. b = Log!Greatest(Log!Wanted(s), Log!Lower) OBVIOUS
  <2> HIDE DEF o, g, b
  <2> QED BY <1>2, <2>1, <2>4, <2>6, <2>7, <2>8, <2>9, <2>10 DEF Gapped
<1> QED BY <1>1, <1>2

(* A window begins where the last one ended, less the Lookback: what it    *)
(* skips is settled, or a Day old and then counted as unread.              *)
LEMMA PullOpens == ASSUME PullAssumption, PullInv, Log!OpenWindow PROVE PullInv'
<1> DEFINE d == Log!DropExpired(st)
           o == Log!Opened(d)
           p == [Log!Idle EXCEPT !.pc = "fetch"]
<1>1. /\ PullTypes /\ MetadataInv /\ mode = "metadata" /\ now \in Nat /\ st \in PullState
      /\ Lag \in Nat /\ Lookback \in Nat /\ Day \in Nat /\ Lookback <= Day
      /\ st' = o /\ proc' = p /\ UNCHANGED <<now, hidden, shown, ev, mode>>
      /\ from' = (IF from = None THEN o.start ELSE from) /\ unread' = unread \cup Log!Late
  BY PullTyped DEF PullInv, Log!OpenWindow, Log!Asked, Log!feed, PullAssumption
<1>2. p \in Cycle /\ p.pc = "fetch" /\ p.rows = {} BY IdleIs DEF Cycle
<1>3. /\ d \in PullState /\ d.done = st.done /\ d.last = st.last
      /\ Gapped(st) => Gapped(d) /\ d.gap <= st.gap
      /\ d = st \/ d.start = None
  BY <1>1, DroppedIs
<1> HIDE DEF d
<1>4. /\ o \in PullState /\ o.done = d.done /\ o.last = d.last
      /\ Gapped(d) => Gapped(o) /\ o.gap <= d.gap
      /\ d.start # None => o = d
      /\ d.start = None =>
           /\ o.start = Log!Greatest(Log!Wanted(d), Log!Lower) /\ o.start \in Int /\ o.start # None
           /\ o.end = now /\ o.end # None /\ o.cur = None
           /\ d.done = None => Gapped(o) /\ o.gap <= o.start
  BY <1>1, <1>3, OpenedIs
<1> HIDE DEF o, p
<1>5. Log!Wanted(d) = Log!Wanted(st) BY <1>3 DEF Log!Wanted
<1>6. /\ st.done \in Int \cup {None} /\ st.gap \in Int \cup {None} /\ d.gap \in Int \cup {None} /\ o.gap \in Int \cup {None}
      /\ from \in Int \cup {None} /\ o.start \in Int \cup {None} /\ None \notin Int /\ st.end \in Int \cup {None}
  BY <1>1, <1>3, <1>4, PullTyped DEF PullState, Instant, PullAssumption
<1>41. /\ st' \in PullState /\ st'.done = st.done /\ st'.last = st.last
       /\ d.start # None => st' = d
       /\ d.start = None =>
            /\ st'.start = Log!Greatest(Log!Wanted(st), Log!Lower) /\ st'.start \in Int /\ st'.start # None
            /\ st'.end = now /\ st'.end # None /\ st'.cur = None
            /\ d.done = None => Gapped(st') /\ st'.gap <= st'.start
  BY <1>1, <1>3, <1>4, <1>5
<1>7. Gapped(st) => Gapped(st') /\ st'.gap <= st.gap
  <2> SUFFICES ASSUME Gapped(st) PROVE Gapped(st') /\ st'.gap <= st.gap
    OBVIOUS
  <2>1. Gapped(d) /\ d.gap <= st.gap /\ Gapped(o) /\ o.gap <= d.gap BY <1>3, <1>4
  <2>2. o.gap \in Int /\ d.gap \in Int /\ st.gap \in Int BY <1>6, <2>1 DEF Gapped
  <2> QED BY <1>1, <2>1, <2>2
<1>8. st'.start # None /\ from' # None /\ from' \in Int BY <1>1, <1>3, <1>41, <1>6
<1>9. Gapped(st') /\ st'.gap <= from'
  <2>1. CASE from # None
    <3>1. Gapped(st) /\ st.gap <= from BY <1>1, <2>1 DEF MetadataInv, Gapped
    <3>2. st'.gap # None /\ st.gap # None /\ from' = from BY <1>1, <1>7, <2>1, <3>1 DEF Gapped
    <3> QED BY <1>1, <1>6, <1>7, <3>1, <3>2
  <2>2. CASE from = None
    <3>1. st.start = None /\ st.done = None BY <1>1, <2>2 DEF MetadataInv
    <3>2. d.start = None /\ d.done = None BY <1>3, <3>1
    <3> QED BY <1>1, <1>41, <2>2, <3>2
  <2> QED BY <2>1, <2>2
<1>10. PullTypes'
  BY <1>1, <1>2, <1>3, <1>41, <1>8, PullTyped, PullTypesKept, FS_EmptySet DEF Instant, PullTypes
<1>11. \A e \in Live : e \in Event /\ e[1] \in Nat /\ e[1] <= now
  BY <1>1, EventIs DEF Live, PullTypes
<1>12. Live' = Live /\ \A e : Accounted(e) => Accounted(e)' BY <1>1 DEF Live, Accounted
<1>13. st'.done # None => st'.done <= now' /\ from' # None /\ Settled(st.done)'
  <2> SUFFICES ASSUME st'.done # None PROVE st'.done <= now' /\ Settled(st.done)'
    BY <1>8
  <2>1. st.done # None /\ st.done <= now /\ from # None /\ Settled(st.done) /\ st'.done = st.done
    BY <1>1, <1>3, <1>4 DEF MetadataInv
  <2>2. from' = from BY <1>1, <2>1
  <2> QED BY <1>1, <1>12, <2>1, <2>2 DEF Settled, Accounted
<1>14. /\ st'.end # None /\ st'.end <= now' /\ Covered(st.start, st.end)' /\ Behind(st.start, st.end, st.cur, ev)'
  <2>1. CASE d.start # None
    <3>1. st' = st /\ st.start # None BY <1>3, <1>41, <2>1
    <3>2. st.end # None /\ st.end <= now /\ from # None /\ Covered(st.start, st.end) /\ Behind(st.start, st.end, st.cur, ev)
      BY <1>1, <3>1 DEF MetadataInv
    <3>3. from' = from BY <1>1, <3>2
    <3> QED BY <1>1, <1>12, <3>1, <3>2, <3>3 DEF Covered, Behind, Reached, Accounted, Log!Before
  <2>2. CASE d.start = None
    <3>1. /\ st'.start = Log!Greatest(Log!Wanted(st), Log!Lower) /\ st'.start \in Int /\ st'.end = now /\ st'.cur = None
          /\ st'.end # None
      BY <1>41, <1>5, <2>2
    <3>2. Behind(st.start, st.end, st.cur, ev)' BY <1>1, <3>1 DEF Behind, Reached
    <3>3. ASSUME NEW e \in Live, from' <= e[1], e[1] < st'.start, e[1] + Lookback < now
          PROVE  e \in ev \/ e[1] \in unread'
      <4>1. e[1] \in Nat /\ e[1] <= now /\ e[1] \in 0..now BY <1>1, <1>11
      <4>2. CASE st.done = None
        <5>1. e[1] < now - Lookback BY <1>1, <3>3, <4>1
        <5>2. e[1] \in Log!Late BY <1>1, <4>1, <4>2, <5>1 DEF Log!Late, Log!Frontier
        <5> QED BY <1>1, <5>2
      <4>3. CASE st.done # None
        <5>1. st.done \in Int /\ from # None /\ from' = from /\ Settled(st.done)
          BY <1>1, <1>6, <4>3 DEF MetadataInv
        <5>2. CASE e[1] + Lookback < st.done
          <6>1. Accounted(e) BY <3>3, <5>1, <5>2 DEF Settled
          <6> QED BY <1>1, <6>1 DEF Accounted
        <5>3. CASE ~(e[1] + Lookback < st.done)
          <6>1. e[1] >= st.done - Lookback BY <1>1, <4>1, <5>1, <5>3
          <6>2. Log!Wanted(st) = st.done - Lookback /\ Log!Lower = now - Day
            BY <4>3 DEF Log!Wanted, Log!Lower
          <6>3. e[1] < Log!Lower BY <1>1, <3>1, <3>3, <4>1, <5>1, <6>1, <6>2 DEF Log!Greatest
          <6>4. e[1] \in Log!Late BY <1>1, <4>1, <4>3, <6>1, <6>3 DEF Log!Late, Log!Frontier
          <6> QED BY <1>1, <6>4
        <5> QED BY <5>2, <5>3
      <4> QED BY <4>2, <4>3
    <3>4. Covered(st.start, st.end)' BY <1>1, <1>12, <3>1, <3>3 DEF Covered, Accounted
    <3>5. st'.end <= now' BY <1>1, <3>1
    <3> QED BY <3>1, <3>2, <3>4, <3>5
  <2> QED BY <2>1, <2>2
<1>15. MetadataInv' BY <1>1, <1>2, <1>8, <1>9, <1>13, <1>14 DEF MetadataInv, Gapped
<1> QED BY <1>1, <1>10, <1>15 DEF PullInv

LEMMA PullReads ==
  ASSUME PullAssumption, PullInv, Log!FetchPage \/ Log!WrongPage
  PROVE  PullInv'
<1>1. /\ PullTypes /\ MetadataInv /\ mode = "metadata" /\ now \in Nat /\ st.start # None /\ st.end # None
      /\ st.end <= now
      /\ UNCHANGED <<now, hidden, shown, ev, st, mode, from, unread>>
  BY PullTyped DEF PullInv, Log!FetchPage, Log!WrongPage, Log!feed, MetadataInv
<1>2. st.start \in Int /\ st.end \in Int /\ st.cur \in Event \cup {None}
  BY <1>1, PullTyped DEF Instant
<1>3. PICK rows : /\ proc' = [proc EXCEPT !.pc = "page", !.rows = rows]
                  /\ rows \in Log!Pages(st.start, st.end, st.cur) \/ rows \in Log!Pages(st.start, st.end, None)
  BY DEF Log!FetchPage, Log!WrongPage
<1>4. /\ rows \in SUBSET Event /\ IsFiniteSet(rows) /\ \A a \in rows : a[1] <= now
      /\ Ahead(st.start, st.end, st.cur, rows)
  <2>1. CASE rows \in Log!Pages(st.start, st.end, st.cur)
    <3>1. PullTypes /\ st.start \in Int /\ st.end \in Int /\ st.end <= now /\ st.cur \in Event \cup {None}
      BY <1>1, <1>2
    <3> QED BY <2>1, <3>1, PageIs
  <2>2. CASE rows \in Log!Pages(st.start, st.end, None)
    <3>1. PullTypes /\ st.start \in Int /\ st.end \in Int /\ st.end <= now /\ None \in Event \cup {None}
      BY <1>1, <1>2
    <3>2. /\ rows \in SUBSET Event /\ IsFiniteSet(rows) /\ \A a \in rows : a[1] <= now
          /\ Ahead(st.start, st.end, None, rows)
      BY <2>2, <3>1, PageIs
    <3> QED BY <3>2, AheadOfAny
  <2> QED BY <1>3, <2>1, <2>2
<1>5. proc' \in Cycle /\ proc'.pc = "page" /\ proc'.rows = rows
  BY <1>1, <1>3, <1>4, PullTyped DEF Cycle
<1>6. PullTypes' BY <1>1, <1>4, <1>5, PullTyped, PullTypesKept DEF PullTypes
<1>7. Ahead(st.start, st.end, st.cur, proc.rows)'
  BY <1>1, <1>4, <1>5 DEF Ahead, Reached, Live, Log!Before
<1>8. MetadataInv'
  <2>1. /\ st.done # None => Settled(st.done)'
        /\ Covered(st.start, st.end)' /\ Behind(st.start, st.end, st.cur, ev)'
    BY <1>1 DEF MetadataInv, Settled, Covered, Behind, Reached, Accounted, Live, Log!Before
  <2> QED BY <1>1, <1>5, <1>7, <2>1 DEF MetadataInv
<1> QED BY <1>1, <1>6, <1>8 DEF PullInv

LEMMA PullStops ==
  ASSUME PullAssumption, PullInv, Log!StalledCursor \/ Log!Fail
  PROVE  PullInv'
<1>1. /\ PullTypes /\ proc' = Log!Idle /\ UNCHANGED <<now, hidden, shown, ev, st, mode, from, unread>>
  BY DEF PullInv, Log!StalledCursor, Log!Fail, Log!feed
<1>2. proc' \in Cycle /\ proc'.pc = "out" /\ proc'.rows = {} BY <1>1, IdleIs
<1>3. PullTypes' BY <1>1, <1>2, PullTyped, PullTypesKept, FS_EmptySet DEF PullTypes
<1>4. mode = "metadata" => MetadataInv'
  <2> SUFFICES ASSUME mode = "metadata" PROVE MetadataInv'
    OBVIOUS
  <2>1. MetadataInv BY DEF PullInv
  <2>2. /\ st.done # None => Settled(st.done)'
        /\ st.start # None => Covered(st.start, st.end)' /\ Behind(st.start, st.end, st.cur, ev)'
    BY <1>1, <2>1 DEF MetadataInv, Settled, Covered, Behind, Reached, Accounted, Live, Log!Before
  <2> QED BY <1>1, <1>2, <2>1, <2>2 DEF MetadataInv
<1>5. mode = "legacy" => LegacyInv'
  <2> SUFFICES ASSUME mode = "legacy" PROVE LegacyInv'
    OBVIOUS
  <2>1. LegacyInv BY DEF PullInv
  <2>2. st.last # None => Settled(st.last)' BY <1>1, <2>1 DEF LegacyInv, Settled, Accounted, Live
  <2> QED BY <1>1, <1>2, <2>1, <2>2 DEF LegacyInv
<1> QED BY <1>1, <1>3, <1>4, <1>5 DEF PullInv

(* What the last page of a window had not, a later one has.                *)
LEMMA PullCommits == ASSUME PullAssumption, PullInv, Log!CommitPage PROVE PullInv'
<1> DEFINE rows == proc.rows
           newest == Log!NewestOf(rows, st.last)
           s == [st EXCEPT !.ran = now, !.last = newest]
           end == [s EXCEPT !.start = None, !.end = None, !.cur = None, !.done = st.end]
           next == [s EXCEPT !.cur = Log!Last(rows)]
           last == Log!LastPage(rows, proc.pages)
           p1 == [Log!Idle EXCEPT !.pc = "fetch", !.pages = proc.pages + 1]
<1>1. /\ PullTypes /\ proc.pc = "page" /\ now \in Nat /\ st \in PullState /\ Lag \in Nat /\ Lookback \in Nat
      /\ UNCHANGED <<now, hidden, shown, mode, from, unread>> /\ ev' = ev \cup rows
      /\ mode = "metadata" /\ MetadataInv /\ PageSize \in Nat \ {0} /\ rows \in SUBSET Event
  <2>1. PullTypes /\ proc.pc = "page" /\ mode \in {"metadata", "legacy"}
    BY DEF PullInv, PullTypes, Log!CommitPage
  <2>2. mode # "legacy" BY <2>1 DEF PullInv, LegacyInv
  <2> QED BY <2>1, <2>2, PullTyped DEF PullInv, Log!CommitPage, Log!Ingest, Log!feed, PullAssumption
<1>2. /\ st.start # None /\ st.end # None /\ st.end <= now /\ from # None /\ Covered(st.start, st.end)
      /\ Behind(st.start, st.end, st.cur, ev) /\ Ahead(st.start, st.end, st.cur, rows)
      /\ st.gap # None /\ st.gap <= from /\ st.reason # ""
      /\ st.done # None => st.done <= now /\ Settled(st.done)
  BY <1>1 DEF MetadataInv
<1>3. rows # {} => Log!Last(rows) \in rows /\ \A a \in rows : a = Log!Last(rows) \/ Log!Before(a, Log!Last(rows))
  BY <1>1, LastIs DEF PullTypes
<1>4. newest \in Instant
  <2>1. rows # {} => Log!Last(rows)[1] \in Nat BY <1>1, <1>3, EventIs
  <2>2. st.last \in Instant BY <1>1, PullTyped
  <2> QED BY <2>1, <2>2 DEF Log!NewestOf, Log!Greatest, Instant
<1>5. proc' = Log!Idle \/ proc' = p1 BY DEF Log!CommitPage
<1>6. proc' \in Cycle /\ proc'.pc \in {"out", "fetch"} /\ proc'.rows = {} /\ (last => proc'.pc = "out")
  <2>1. proc.pages + 1 \in Nat BY <1>1, PullTyped
  <2>2. p1 \in Cycle /\ p1.pc = "fetch" /\ p1.rows = {} BY <2>1, IdleIs DEF Cycle
  <2>3. last => proc' = Log!Idle BY DEF Log!CommitPage
  <2> QED BY <1>5, <2>2, <2>3, IdleIs
<1>7. /\ s \in PullState /\ s.start = st.start /\ s.end = st.end /\ s.cur = st.cur /\ s.done = st.done
      /\ s.gap = st.gap /\ s.reason = st.reason
  <2>1. now \in Instant BY <1>1 DEF Instant
  <2> HIDE DEF newest
  <2> QED BY <1>1, <1>4, <2>1 DEF PullState
<1>8. st' = IF last THEN end ELSE next
  <2>1. st' = IF last THEN [Log!Closed(s) EXCEPT !.done = s.end] ELSE next BY DEF Log!CommitPage
  <2>2. [Log!Closed(s) EXCEPT !.done = s.end] = end
    <3> HIDE DEF s
    <3> QED BY <1>7 DEF Log!Closed, PullState
  <2> QED BY <2>1, <2>2
<1> HIDE DEF newest, p1, s
<1>9. \A e \in Live : e \in Event /\ e[1] \in Nat BY <1>1, PullTyped, EventIs
<1>10. Live' = Live /\ \A e : (Accounted(e) => Accounted(e)') /\ (e \in ev \cup rows => Accounted(e)')
  BY <1>1 DEF Live, Accounted
<1>11. st.start \in Int /\ st.end \in Int /\ st.done \in Int \cup {None} /\ None \notin Int
  BY <1>1, <1>2, PullTyped DEF Instant, PullAssumption
<1>12. IsFiniteSet(rows) /\ Cardinality(rows) \in Nat BY <1>1, FS_CardinalityType DEF PullTypes
<1>14. CASE last
  <2>1. end \in PullState /\ end.start = None /\ end.done = st.end /\ end.gap = st.gap /\ end.reason = st.reason
    <3>1. None \in Instant /\ st.end \in Instant /\ None \in Event \cup {None} BY <1>11 DEF Instant
    <3> QED BY <1>7, <3>1 DEF PullState
  <2>2. Cardinality(rows) < PageSize BY <1>14 DEF Log!LastPage, Log!Cardinality, Cardinality
  <2>3. st' = end BY <1>8, <1>14
  <2> HIDE DEF end, last
  <2>4. Settled(st.done)'
    <3> SUFFICES ASSUME NEW e \in Live, from <= e[1], e[1] + Lookback < st.end PROVE e \in ev \cup rows \/ e[1] \in unread
      BY <1>1, <1>10, <2>1, <2>3 DEF Settled, Accounted
    <3>1. CASE e[1] < st.start BY <1>2, <3>1 DEF Covered, Accounted
    <3>2. CASE st.start <= e[1]
      <4>1. Reached(st.cur, e) => e \in ev BY <1>2, <3>2 DEF Behind
      <4>2. ~Reached(st.cur, e) => e \in rows
        <5>1. ~(Cardinality(rows) >= PageSize) BY <1>1, <1>12, <2>2
        <5> QED BY <1>2, <3>1, <3>2, <5>1 DEF Ahead
      <4> QED BY <4>1, <4>2
    <3> QED BY <1>9, <1>11, <3>1, <3>2
  <2>5. MetadataInv' BY <1>1, <1>2, <1>6, <1>11, <1>14, <2>1, <2>3, <2>4 DEF MetadataInv
  <2>6. PullTypes' BY <1>1, <1>6, <2>1, <2>3, FS_EmptySet, PullTyped, PullTypesKept DEF PullTypes
  <2> QED BY <1>1, <2>5, <2>6 DEF PullInv
<1>15. CASE ~last
  <2>1. Cardinality(rows) >= PageSize
    <3>1. ~(Cardinality(rows) < PageSize) BY <1>15 DEF Log!LastPage, Log!Cardinality, Cardinality
    <3> QED BY <1>1, <1>12, <3>1
  <2>2. rows # {} BY <1>1, <2>1, FS_EmptySet
  <2> DEFINE l == Log!Last(rows)
  <2>3. l \in rows /\ l \in Event /\ l # None /\ \A a \in rows : a = l \/ Log!Before(a, l)
    BY <1>1, <1>3, <2>2, EventIs
  <2>4. st' = [s EXCEPT !.cur = l] BY <1>8, <1>15
  <2> HIDE DEF last, l
  <2>5. /\ st' \in PullState /\ st'.cur = l /\ st'.start = st.start /\ st'.end = st.end /\ st'.done = st.done
        /\ st'.gap = st.gap /\ st'.reason = st.reason
    BY <1>7, <2>3, <2>4 DEF PullState
  <2>6. st.done # None => Settled(st.done)' BY <1>1, <1>2, <1>10, <2>5 DEF Settled, Accounted
  <2>7. Covered(st.start, st.end)' BY <1>1, <1>2, <1>10, <2>5 DEF Covered, Accounted
  <2>8. ASSUME NEW e \in Live, st.start <= e[1], e[1] + Lookback < st.end, ~Log!Before(l, e)
        PROVE  e \in ev \cup rows
    <3>1. Reached(st.cur, e) => e \in ev BY <1>2, <2>8 DEF Behind
    <3>2. ASSUME ~Reached(st.cur, e), e \notin rows PROVE FALSE
      <4>1. Log!Before(l, e) BY <1>2, <2>3, <2>8, <3>2 DEF Ahead
      <4> QED BY <2>8, <4>1
    <3> QED BY <3>1, <3>2
  <2>9. Behind(st.start, st.end, st.cur, ev)'
    BY <1>1, <1>10, <2>5, <2>8 DEF Behind, Reached, Log!Before
  <2>10. MetadataInv' BY <1>1, <1>2, <1>6, <2>5, <2>6, <2>7, <2>9 DEF MetadataInv
  <2>11. PullTypes' BY <1>1, <1>6, <2>5, FS_EmptySet, PullTyped, PullTypesKept DEF PullTypes
  <2> QED BY <1>1, <2>10, <2>11 DEF PullInv
<1> QED BY <1>14, <1>15

LEMMA PullBegins == ASSUME PullAssumption, PullInv, Log!StartPull PROVE PullInv'
<1> DEFINE start == IF st.last = None THEN now - Lookback ELSE Log!Greatest(st.last - Lookback, Log!Lower)
           p == [Log!Idle EXCEPT !.pc = "read", !.start = start, !.end = now]
<1>1. /\ PullTypes /\ LegacyInv /\ mode = "legacy" /\ now \in Nat
      /\ Lookback \in Nat /\ Day \in Nat /\ None \notin Int
      /\ UNCHANGED <<now, hidden, shown, ev, st, mode>> /\ proc' = p
      /\ from' = (IF from = None THEN start ELSE from) /\ unread' = unread \cup Log!Late
  BY PullTyped DEF PullInv, Log!StartPull, Log!Asked, Log!feed, PullAssumption
<1>2. st.last \in Int \cup {None} /\ from \in Int \cup {None} BY <1>1, PullTyped DEF Instant
<1>3. start \in Int /\ start # None /\ now # None BY <1>1, <1>2 DEF Log!Greatest, Log!Lower
<1>4. p \in Cycle /\ p.pc = "read" /\ p.rows = {} /\ p.start = start /\ p.end = now /\ p.cur = None
  <2>1. start \in Instant /\ now \in Instant
    <3> HIDE DEF start
    <3> QED BY <1>1, <1>3 DEF Instant
  <2>2. Log!Idle.cur = None BY DEF Log!Idle
  <2> HIDE DEF start
  <2> QED BY <2>1, <2>2, IdleIs DEF Cycle
<1>5. from' # None /\ from' \in Int /\ (st.last # None => from # None /\ from' = from /\ Settled(st.last))
  BY <1>1, <1>2, <1>3 DEF LegacyInv
<1>6. PullTypes'
  <2>1. proc' \in Cycle /\ proc'.rows = {} /\ from' \in Instant BY <1>1, <1>4, <1>5 DEF Instant
  <2> QED BY <1>1, <2>1, PullTyped, PullTypesKept, FS_EmptySet DEF PullTypes
<1>7. Live' = Live /\ \A e : Accounted(e) => Accounted(e)' BY <1>1 DEF Live, Accounted
<1>8. \A e \in Live : e[1] \in Nat /\ e[1] <= now BY <1>1, EventIs DEF Live, PullTypes
<1>9. ASSUME NEW e \in Live, from' <= e[1], e[1] < start, e[1] + Lookback < now
      PROVE  e \in ev \/ e[1] \in unread'
  <2>1. e[1] \in Nat /\ e[1] \in 0..now BY <1>1, <1>8
  <2>2. mode # "metadata" /\ Log!Frontier = st.last BY <1>1 DEF Log!Frontier
  <2>3. CASE st.last = None
    <3>1. e[1] < now - Lookback BY <1>1, <1>9, <2>1
    <3>2. e[1] \in Log!Late BY <2>1, <2>2, <2>3, <3>1 DEF Log!Late
    <3> QED BY <1>1, <3>2
  <2>4. CASE st.last # None
    <3>1. CASE e[1] + Lookback < st.last
      <4>1. Accounted(e) BY <1>5, <1>9, <2>4, <3>1 DEF Settled
      <4> QED BY <1>1, <4>1 DEF Accounted
    <3>2. CASE ~(e[1] + Lookback < st.last)
      <4>1. e[1] >= st.last - Lookback BY <1>1, <1>2, <2>1, <2>4, <3>2
      <4>2. e[1] < Log!Lower BY <1>1, <1>2, <1>9, <2>1, <2>4, <4>1 DEF Log!Greatest
      <4>3. e[1] \in Log!Late BY <2>1, <2>2, <2>4, <4>1, <4>2 DEF Log!Late
      <4> QED BY <1>1, <4>3
    <3> QED BY <3>1, <3>2
  <2> QED BY <2>3, <2>4
<1> HIDE DEF start, p
<1>10. Covered(proc.start, proc.end)' BY <1>1, <1>4, <1>7, <1>9 DEF Covered, Accounted
<1>11. Behind(proc.start, proc.end, proc.cur, proc.rows)' BY <1>1, <1>4 DEF Behind, Reached
<1>12. st.last # None => Settled(st.last)' BY <1>1, <1>5, <1>7 DEF Settled, Accounted
<1>13. LegacyInv'
  <2>1. st.last # None => st.last <= now BY <1>1 DEF LegacyInv
  <2>2. now <= now BY <1>1
  <2> QED BY <1>1, <1>3, <1>4, <1>5, <1>10, <1>11, <1>12, <2>1, <2>2 DEF LegacyInv
<1> QED BY <1>1, <1>6, <1>13 DEF PullInv

LEMMA PullPages == ASSUME PullAssumption, PullInv, Log!ReadPage PROVE PullInv'
<1>1. /\ PullTypes /\ LegacyInv /\ mode = "legacy" /\ now \in Nat /\ proc.pc = "read" /\ Lookback \in Nat
      /\ UNCHANGED <<now, hidden, shown, ev, st, mode, from, unread>>
  <2>1. proc.pc = "read" /\ UNCHANGED <<now, hidden, shown, ev, st, mode, from, unread>>
    BY DEF Log!ReadPage, Log!feed
  <2>2. PullTypes /\ LegacyInv /\ mode = "legacy"
    <3>1. mode \in {"metadata", "legacy"} /\ PullTypes
      BY PullTyped DEF PullInv, PullTypes, PullAssumption
    <3>2. CASE mode = "metadata" BY <2>1, <3>2 DEF PullInv, MetadataInv
    <3> QED BY <3>1, <3>2 DEF PullInv
  <2> QED BY <2>1, <2>2 DEF PullTypes, PullAssumption
<1>2. /\ proc.start # None /\ proc.end # None /\ proc.end <= now /\ from # None
      /\ Covered(proc.start, proc.end) /\ Behind(proc.start, proc.end, proc.cur, proc.rows)
      /\ \A a \in proc.rows : a[1] <= proc.end /\ proc.cur # None /\ (a = proc.cur \/ Log!Before(a, proc.cur))
      /\ st.last # None => st.last <= now /\ Settled(st.last)
  BY <1>1 DEF LegacyInv
<1>3. /\ proc.start \in Int /\ proc.end \in Int /\ proc.cur \in Event \cup {None} /\ proc.rows \in SUBSET Event
      /\ proc.pages \in Nat
  BY SMTT(20), ZenonT(30), <1>1, <1>2, PullTyped DEF Instant
<1>4. PICK page \in Log!Pages(proc.start, proc.end, proc.cur), pc \in {"read", "pulled"} :
        proc' = [proc EXCEPT !.pc = pc, !.pages = @ + 1, !.rows = @ \cup page,
                             !.cur = IF page = {} THEN @ ELSE Log!Last(page)]
  BY DEF Log!ReadPage
<1>5. /\ page \in SUBSET Event /\ IsFiniteSet(page) /\ \A a \in page : a[1] <= now /\ a[1] <= proc.end
      /\ Ahead(proc.start, proc.end, proc.cur, page)
      /\ \A a \in page : proc.cur # None => Log!Before(proc.cur, a)
  BY <1>1, <1>2, <1>3, PageIs
<1> DEFINE cur == IF page = {} THEN proc.cur ELSE Log!Last(page)
           rows == proc.rows \cup page
<1>6. page # {} => Log!Last(page) \in page /\ \A a \in page : a = Log!Last(page) \/ Log!Before(a, Log!Last(page))
  BY <1>1, <1>5, LastIs
<1>7. cur \in Event \cup {None} /\ rows \in SUBSET Event BY <1>3, <1>5, <1>6
<1> HIDE DEF cur, rows
<1>8. /\ proc' \in Cycle /\ proc'.pc \in {"read", "pulled"} /\ proc'.rows = rows /\ proc'.cur = cur
      /\ proc'.start = proc.start /\ proc'.end = proc.end
  <2>1. proc' = [proc EXCEPT !.pc = pc, !.pages = proc.pages + 1, !.rows = rows, !.cur = cur]
    BY <1>4 DEF cur, rows
  <2>2. proc \in Cycle /\ proc.pages + 1 \in Nat BY <1>1, <1>3 DEF PullTypes
  <2> QED BY <1>7, <2>1, <2>2 DEF Cycle
<1>9. IsFiniteSet(rows) /\ \A a \in rows : a[1] <= now BY <1>1, <1>5, FS_Union DEF rows, PullTypes
<1>10. PullTypes' BY <1>1, <1>8, <1>9, PullTyped, PullTypesKept DEF PullTypes
<1>11. ASSUME NEW a \in rows
       PROVE  a[1] <= proc.end /\ cur # None /\ (a = cur \/ Log!Before(a, cur))
  <2>1. CASE page = {} BY <1>2, <1>11, <2>1 DEF cur, rows
  <2>2. CASE page # {}
    <3>1. cur = Log!Last(page) /\ cur \in page /\ cur \in Event /\ cur # None
      BY <1>5, <1>6, <2>2, EventIs DEF cur
    <3>2. CASE a \in page BY <1>5, <1>6, <2>2, <3>1, <3>2
    <3>3. CASE a \in proc.rows
      <4>1. a[1] <= proc.end /\ proc.cur # None /\ (a = proc.cur \/ Log!Before(a, proc.cur))
        BY <1>2, <3>3
      <4>2. Log!Before(proc.cur, cur) /\ a \in Event /\ proc.cur \in Event
        BY <1>3, <1>5, <3>1, <3>3, <4>1
      <4>3. a = proc.cur => Log!Before(a, cur) BY <4>2
      <4>4. Log!Before(a, proc.cur) => Log!Before(a, cur) BY <3>1, <4>2, BeforeIs
      <4> QED BY <3>1, <4>1, <4>3, <4>4
    <3> QED BY <1>11, <3>2, <3>3 DEF rows
  <2> QED BY <2>1, <2>2
<1>12. ASSUME NEW e \in Live, proc.start <= e[1], e[1] + Lookback < proc.end, Reached(cur, e)
       PROVE  e \in rows
  <2>1. Reached(proc.cur, e) => e \in proc.rows BY <1>2, <1>12 DEF Behind
  <2>2. ASSUME ~Reached(proc.cur, e), e \notin page PROVE FALSE
    <3>1. \A a \in page : Log!Before(a, e) BY <1>5, <1>12, <2>2 DEF Ahead
    <3>2. CASE page = {} BY <1>12, <2>2, <3>2 DEF cur
    <3>3. CASE page # {} BY <1>6, <1>12, <3>1, <3>3 DEF cur, Reached
    <3> QED BY <3>2, <3>3
  <2> QED BY <2>1, <2>2 DEF rows
<1>13. Behind(proc.start, proc.end, proc.cur, proc.rows)'
  BY <1>1, <1>8, <1>12 DEF Behind, Reached, Live, Log!Before
<1>14. Covered(proc.start, proc.end)' /\ (st.last # None => Settled(st.last)')
  BY <1>1, <1>2, <1>8 DEF Covered, Settled, Accounted, Live
<1>15. \A a \in proc'.rows : a[1] <= proc'.end /\ proc'.cur # None /\ (a = proc'.cur \/ Log!Before(a, proc'.cur))
  BY <1>8, <1>11
<1>16. (\A a \in proc.rows : a[1] <= proc.end /\ proc.cur # None /\ (a = proc.cur \/ Log!Before(a, proc.cur)))'
  BY <1>15 DEF Log!Before
<1>17. LegacyInv' BY <1>1, <1>2, <1>8, <1>13, <1>14, <1>16 DEF LegacyInv
<1> QED BY <1>1, <1>10, <1>17 DEF PullInv

(* The newest operation of a pull is no later than its cursor: what a      *)
(* Lookback before it is, was on its pages.                                *)
LEMMA PullEnds == ASSUME PullAssumption, PullInv, Log!CommitPull PROVE PullInv'
<1> DEFINE rows == proc.rows
           newest == Log!NewestOf(rows, st.last)
           l == Log!Last(rows)
<1>1. /\ PullTypes /\ LegacyInv /\ mode = "legacy" /\ now \in Nat /\ proc.pc = "pulled" /\ Lookback \in Nat
      /\ UNCHANGED <<now, hidden, shown, mode, from, unread>> /\ ev' = ev \cup rows /\ proc' = Log!Idle
      /\ st' = [st EXCEPT !.last = newest, !.ran = now] /\ st \in PullState /\ None \notin Int
  BY PullTyped DEF PullInv, PullTypes, MetadataInv, Log!CommitPull, Log!Ingest, Log!feed, PullAssumption
<1>2. /\ proc.start # None /\ proc.end # None /\ proc.end <= now /\ from # None
      /\ Covered(proc.start, proc.end) /\ Behind(proc.start, proc.end, proc.cur, rows)
      /\ \A a \in rows : a[1] <= proc.end /\ proc.cur # None /\ (a = proc.cur \/ Log!Before(a, proc.cur))
      /\ st.last # None => st.last <= now /\ Settled(st.last)
  BY <1>1 DEF LegacyInv
<1>3. /\ proc.start \in Int /\ proc.end \in Int /\ proc.cur \in Event \cup {None} /\ rows \in SUBSET Event
      /\ st.last \in Int \cup {None}
  BY <1>1, <1>2, PullTyped DEF Instant
<1>4. ASSUME rows # {}
      PROVE  /\ l \in rows /\ l \in Event /\ l[1] \in Nat /\ l[1] <= proc.end
             /\ proc.cur \in Event /\ (l = proc.cur \/ Log!Before(l, proc.cur))
  <2>1. l \in rows BY <1>1, <1>3, <1>4, LastIs DEF PullTypes
  <2> QED BY <1>2, <1>3, <2>1, EventIs
<1> HIDE DEF l
<1>5. /\ newest = st.last \/ (rows # {} /\ newest = l[1])
      /\ newest \in Int \cup {None}
  BY <1>3, <1>4 DEF Log!NewestOf, Log!Greatest, l
<1> HIDE DEF newest
<1>6. st' \in PullState /\ st'.last = newest
  <2>1. newest \in Instant /\ now \in Instant BY <1>1, <1>5 DEF Instant
  <2> QED BY <1>1, <2>1 DEF PullState
<1>7. proc' \in Cycle /\ proc'.pc = "out" /\ proc'.rows = {} BY <1>1, IdleIs
<1>8. ev' \in SUBSET Event BY <1>1, <1>3 DEF PullTypes
<1>9. PullTypes' BY <1>1, <1>6, <1>7, <1>8, PullTyped, PullTypesKept, FS_EmptySet DEF PullTypes
<1>10. \A e \in Live : e \in Event /\ e[1] \in Nat BY <1>1, PullTyped, EventIs
<1>11. ASSUME NEW e \in Live, from <= e[1], rows # {}, e[1] + Lookback < l[1]
       PROVE  e \in ev \cup rows \/ e[1] \in unread
  <2>1. e[1] + Lookback < proc.end BY <1>1, <1>3, <1>4, <1>10, <1>11
  <2>2. CASE e[1] < proc.start BY <1>2, <1>11, <2>1, <2>2 DEF Covered, Accounted
  <2>3. CASE proc.start <= e[1]
    <3>1. e \in Event /\ e[1] < l[1] BY <1>1, <1>4, <1>10, <1>11
    <3>2. Log!Before(e, l) BY <1>4, <1>11, <3>1, BeforeIs
    <3>3. Log!Before(e, proc.cur) BY <1>4, <1>11, <3>1, <3>2, BeforeIs
    <3>4. proc.cur # None /\ ~Log!Before(proc.cur, e) BY <1>4, <1>11, <3>1, <3>3, BeforeIs, EventIs
    <3> QED BY <1>2, <2>1, <2>3, <3>4 DEF Behind, Reached
  <2> QED BY <1>3, <1>10, <2>2, <2>3
<1>12. newest # None => newest <= now /\ Settled(st.last)'
  <2> SUFFICES ASSUME newest # None PROVE newest <= now /\ Settled(st.last)'
    OBVIOUS
  <2>1. CASE newest = st.last BY <1>1, <1>2, <1>6, <2>1 DEF Settled, Accounted, Live
  <2>2. CASE rows # {} /\ newest = l[1]
    <3>1. newest <= now BY <1>1, <1>2, <1>3, <1>4, <2>2
    <3> QED BY <1>1, <1>6, <1>11, <2>2, <3>1 DEF Settled, Accounted, Live
  <2> QED BY <1>5, <2>1, <2>2
<1>13. LegacyInv' BY <1>1, <1>2, <1>6, <1>7, <1>12 DEF LegacyInv
<1> QED BY <1>1, <1>9, <1>13 DEF PullInv

LEMMA PullStep == ASSUME PullAssumption, PullInv, [Log!Next]_Log!vars PROVE PullInv'
<1>1. CASE Log!Next
  <2> USE <1>1
  <2>1. CASE Log!Happen \/ Log!Show \/ Log!Tick BY <2>1, PullFeeds
  <2>2. CASE Log!OpenWindow BY <2>2, PullOpens
  <2>3. CASE Log!FetchPage \/ Log!WrongPage BY <2>3, PullReads
  <2>4. CASE Log!StalledCursor \/ Log!Fail BY <2>4, PullStops
  <2>5. CASE Log!CommitPage BY <2>5, PullCommits
  <2>6. CASE Log!StartPull BY <2>6, PullBegins
  <2>7. CASE Log!ReadPage BY <2>7, PullPages
  <2>8. CASE Log!CommitPull BY <2>8, PullEnds
  <2> QED BY <2>1, <2>2, <2>3, <2>4, <2>5, <2>6, <2>7, <2>8 DEF Log!Next, Log!Pull
<1>2. CASE UNCHANGED Log!vars
  <2>1. UNCHANGED <<now, hidden, shown, ev, st, proc, mode, from, unread>> BY <1>2 DEF Log!vars
  <2>2. PullTypes' /\ Live' = Live BY <2>1 DEF PullInv, PullTypes, Live
  <2>3. now <= now' BY <2>1 DEF PullInv, PullTypes
  <2> QED BY <2>1, <2>2, <2>3, PullWatched
<1> QED BY <1>1, <1>2

LEMMA PullMeans == ASSUME PullAssumption, PullInv PROVE Log!NothingSkipped
<1> SUFFICES ASSUME NEW e \in Live, from # None, Log!Frontier # None, from <= e[1],
                    e[1] + Lookback < Log!Frontier
             PROVE  e \in ev \/ (e[1] \in unread /\ Log!GapCovers(e[1]))
  BY DEF Log!NothingSkipped, Live
<1>1. /\ PullTypes /\ e[1] \in Nat /\ mode \in {"metadata", "legacy"}
      /\ from \in Int \cup {None} /\ st.gap \in Int \cup {None} /\ None \notin Int
  BY PullTyped, EventIs DEF PullInv, PullTypes, Instant, PullAssumption
<1>2. CASE mode = "metadata"
  <2>1. /\ st.done # None /\ Settled(st.done) /\ e[1] + Lookback < st.done
        /\ st.gap # None /\ st.gap <= from /\ st.reason # ""
    BY <1>2 DEF PullInv, MetadataInv, Log!Frontier
  <2>2. Accounted(e) BY <2>1 DEF Settled
  <2>3. st.gap \in Int /\ from \in Int BY <1>1, <2>1
  <2>4. \A a, b, c \in Int : a <= b /\ b <= c => a <= c OBVIOUS
  <2>5. st.gap <= e[1]
    <3>1. e[1] \in Int /\ from <= e[1] BY <1>1
    <3> QED BY <2>1, <2>3, <2>4, <3>1
  <2> QED BY <2>1, <2>2, <2>5 DEF Accounted, Log!GapCovers
<1>3. CASE mode = "legacy"
  <2>1. mode # "metadata" BY <1>3
  <2>2. st.last # None /\ Settled(st.last) /\ e[1] + Lookback < st.last
    BY <1>3, <2>1 DEF PullInv, LegacyInv, Log!Frontier
  <2>3. Accounted(e) BY <2>2 DEF Settled
  <2> QED BY <1>3, <2>3 DEF Accounted, Log!GapCovers
<1> QED BY <1>1, <1>2, <1>3

(* What happened a Lookback before the end of what has been read is in the *)
(* log, or was a Day old before it could be read and lies behind a gap     *)
(* that is recorded, whatever the feed's delay up to its limit, the size   *)
(* of pages, the cap on a cycle and the failures between pages: both modes *)
(* of `audit_pull.py`.                                                     *)
THEOREM NothingIsSkipped ==
  PullAssumption => (Log!Spec => []Log!NothingSkipped) /\ (Spec => []NothingSkipped)
<1> SUFFICES ASSUME PullAssumption
             PROVE  (Log!Spec => []Log!NothingSkipped) /\ (Spec => []NothingSkipped)
  OBVIOUS
<1>1. Log!Init => PullInv BY PullInit
<1>2. PullInv /\ [Log!Next]_Log!vars => PullInv' BY PullStep
<1>3. PullInv => Log!NothingSkipped BY PullMeans
<1>4. Log!Spec => []Log!NothingSkipped BY <1>1, <1>2, <1>3, PTL DEF Log!Spec
<1> DEFINE Chosen == which = "pull" => PullInv
<1>5. Init => Chosen BY <1>1, Starts
<1>6. Chosen /\ [Next]_all => Chosen' BY <1>2, Steps
<1>7. Chosen => NothingSkipped BY <1>3 DEF NothingSkipped
<1>8. Spec => []NothingSkipped
  <2> HIDE DEF Chosen
  <2> QED BY <1>5, <1>6, <1>7, PTL DEF Spec
<1> QED BY <1>4, <1>8

-----------------------------------------------------------------------------
(* BISnapshot. *)

(* The library of an instance is the library. *)
LEMMA SnapCounts ==
  /\ \A S : Snap!Cardinality(S) = Cardinality(S)
  /\ \A f : Snap!SumFunction(f) = SumFunction(f)
  /\ \A f, S : Snap!Restrict(f, S) = Restrict(f, S)
<1>1. ASSUME NEW S PROVE Snap!Cardinality(S) = Cardinality(S)
  BY DEF Snap!Cardinality, Cardinality
<1>2. ASSUME NEW f PROVE Snap!SumFunction(f) = SumFunction(f)
  BY DEF Snap!SumFunction, Snap!SumFunctionOnSet, Snap!FoldFunctionOnSet, Snap!MapThenFoldSet,
         SumFunction, SumFunctionOnSet, FoldFunctionOnSet, MapThenFoldSet
<1>3. ASSUME NEW f, NEW S PROVE Snap!Restrict(f, S) = Restrict(f, S)
  BY DEF Snap!Restrict, Restrict
<1> QED BY <1>1, <1>2, <1>3

LEMMA KeysAre ==
  ASSUME NEW p, DOMAIN p \subseteq SnapshotKeys, NEW kind, NEW x
  PROVE  <<kind, x>> \in DOMAIN p <=> x \in Snap!KeysOf(p, kind)
<1>1. ASSUME x \in Snap!KeysOf(p, kind) PROVE <<kind, x>> \in DOMAIN p
  <2>1. PICK k \in DOMAIN p : k[1] = kind /\ k[2] = x
    BY <1>1 DEF Snap!KeysOf
  <2>2. k = <<k[1], k[2]>> BY DEF SnapshotKeys
  <2> QED BY <2>1, <2>2
<1>2. ASSUME <<kind, x>> \in DOMAIN p PROVE x \in Snap!KeysOf(p, kind)
  <2> DEFINE k == <<kind, x>>
  <2>1. k \in DOMAIN p /\ k[1] = kind /\ k[2] = x BY <1>2
  <2> HIDE DEF k
  <2> QED BY <2>1 DEF Snap!KeysOf
<1> QED BY <1>1, <1>2

(* Marks of a kind, before and after a step. *)
LEMMA MarksAre ==
  ASSUME NEW Z, Z \subseteq SnapshotKeys \cup ({"registry"} \X Spaces), NEW kind, NEW x
  PROVE  x \in {s[2] : s \in {s \in Z : s[1] = kind}} <=> <<kind, x>> \in Z
<1>1. ASSUME x \in {s[2] : s \in {s \in Z : s[1] = kind}} PROVE <<kind, x>> \in Z
  <2>1. PICK k \in Z : k[1] = kind /\ k[2] = x
    BY <1>1
  <2>2. k = <<k[1], k[2]>> BY DEF SnapshotKeys
  <2> QED BY <2>1, <2>2
<1>2. ASSUME <<kind, x>> \in Z PROVE x \in {s[2] : s \in {s \in Z : s[1] = kind}}
  <2> DEFINE k == <<kind, x>>
  <2>1. k \in Z /\ k[1] = kind /\ k[2] = x BY <1>2
  <2> HIDE DEF k
  <2> QED BY <2>1
<1> QED BY <1>1, <1>2

LEMMA DirtyAre ==
  ASSUME SnapshotTypes, NEW kind, NEW x
  PROVE  x \in Snap!Dirty(kind) <=> <<kind, x>> \in scopes
BY MarksAre DEF Snap!Dirty, SnapshotTypes

LEMMA DirtyAreThen ==
  ASSUME SnapshotTypes', NEW kind, NEW x
  PROVE  x \in Snap!Dirty(kind)' <=> <<kind, x>> \in scopes'
BY MarksAre DEF Snap!Dirty, SnapshotTypes, SnapshotKeys

LEMMA DirtyIn == ASSUME SnapshotTypes PROVE Snap!Dirty("month") \cup Snap!Dirty("rd-month") \subseteq FactMonths
<1>1. ASSUME NEW m, NEW kind \in {"month", "rd-month"}, m \in Snap!Dirty(kind) PROVE m \in FactMonths
  <2>1. <<kind, m>> \in scopes BY <1>1, DirtyAre
  <2>2. <<kind, m>> \in {kind} \X FactMonths BY <2>1 DEF SnapshotTypes, SnapshotKeys
  <2> QED BY <2>2
<1> QED BY <1>1

LEMMA AvailableAre == Snap!AvailableMonths \subseteq FactMonths
BY DEF Snap!AvailableMonths

LEMMA DirtyMonthsAre == Snap!DirtyMonths \subseteq Snap!AvailableMonths
BY DEF Snap!DirtyMonths

(* The rows a publication writes anew. *)
LEMMA RebuiltIs ==
  /\ DOMAIN Snap!Rebuilt = ({"month"} \X Snap!DirtyMonths) \cup ({"workspace"} \X Snap!DirtySpaces)
                      \cup ({"rd-month"} \X {m \in Snap!RdMonths : ~Snap!Missing(m)})
  /\ \A m \in Snap!DirtyMonths : Snap!Rebuilt[<<"month", m>>] = MonthPart(m)
  /\ \A w \in Snap!DirtySpaces : Snap!Rebuilt[<<"workspace", w>>] = Snap!WorkspaceRow(w)
  /\ \A m \in Snap!RdMonths : ~Snap!Missing(m) => Snap!Rebuilt[<<"rd-month", m>>] = Snap!RdRow(m)
<1> DEFINE keys == ({"month"} \X Snap!DirtyMonths) \cup ({"workspace"} \X Snap!DirtySpaces)
                   \cup ({"rd-month"} \X {m \in Snap!RdMonths : ~Snap!Missing(m)})
           v == Snap!BuildSnapshot(known, Snap!DirtyMonths)
           split == Snap!SplitSnapshot(v)
           Built(k) == CASE k[1] = "month" -> split[k]
                       [] k[1] = "workspace" -> Snap!WorkspaceRow(k[2])
                       [] k[1] = "rd-month" -> Snap!RdRow(k[2])
<1>1. Snap!Rebuilt = [k \in keys |-> Built(k)] BY DEF Snap!Rebuilt
<1>2. ASSUME NEW m \in Snap!DirtyMonths PROVE split[<<"month", m>>] = MonthPart(m)
  <2>1. /\ v.monthly = [n \in Snap!DirtyMonths |-> Snap!MonthlyRow(known, n)]
        /\ v.employees = [n \in Snap!DirtyMonths |-> Snap!Employees(known, n)]
        /\ v.diagnostics = [n \in Snap!DirtyMonths |-> Snap!Diagnostics(known, n)]
    BY DEF Snap!BuildSnapshot
  <2> HIDE DEF v
  <2>2. m \in DOMAIN v.monthly BY <2>1
  <2>3. split[<<"month", m>>] = <<v.monthly[m], v.employees[m], v.diagnostics[m]>>
    BY <2>2 DEF Snap!SplitSnapshot
  <2> QED BY <2>1, <2>3 DEF MonthPart
<1> HIDE DEF split
<1>3. ASSUME NEW m \in Snap!DirtyMonths PROVE Snap!Rebuilt[<<"month", m>>] = MonthPart(m)
  BY <1>1, <1>2
<1>4. ASSUME NEW w \in Snap!DirtySpaces PROVE Snap!Rebuilt[<<"workspace", w>>] = Snap!WorkspaceRow(w)
  BY <1>1
<1>5. ASSUME NEW m \in Snap!RdMonths, ~Snap!Missing(m) PROVE Snap!Rebuilt[<<"rd-month", m>>] = Snap!RdRow(m)
  BY <1>1, <1>5
<1> QED BY <1>1, <1>3, <1>4, <1>5

(* A published set of partitions is whole, although only what is dirty was *)
(* rebuilt.                                                                *)
LEMMA PublishedIsWhole ==
  ASSUME SnapshotAssumption, SnapshotInv, Snap!Full \/ scopes # {}
  PROVE  IsWhole(Snap!PublishedParts)
<1> DEFINE kept == Snap!Applied(parts, [upserts |-> Snap!Rebuilt, deletes |-> Snap!Removed])
           rows == [w \in Snap!KeysOf(kept, "workspace") |-> kept[<<"workspace", w>>]]
           due == Snap!Full \/ \E s \in scopes : s[1] # "rd-month"
           new == Snap!Applied(kept, [upserts |-> [k \in {<<"summary", 0>>} |-> Snap!Summary(rows)], deletes |-> {}])
<1>1. /\ kept = [k \in (DOMAIN parts \cup DOMAIN Snap!Rebuilt) \ Snap!Removed |->
                   IF k \in DOMAIN Snap!Rebuilt THEN Snap!Rebuilt[k] ELSE parts[k]]
  BY DEF Snap!Applied
<1>2. Snap!Full => DOMAIN parts = {} BY DEF Snap!Full
<1>3. DOMAIN parts \subseteq SnapshotKeys /\ (~Snap!Full => PartsInv) /\ known \subseteq Spaces
  BY <1>2 DEF SnapshotInv, PartsInv, SnapshotTypes
<1>4. ASSUME NEW kind, NEW x
      PROVE  x \in Snap!KeysOf(parts, kind) <=> <<kind, x>> \in DOMAIN parts
  BY <1>3, KeysAre
<1>5. ASSUME NEW w
      PROVE  /\ <<"workspace", w>> \in DOMAIN kept <=> w \in known
             /\ w \in known => kept[<<"workspace", w>>] = Snap!WorkspaceRow(w)
  <2> DEFINE k == <<"workspace", w>>
  <2>1. k \in DOMAIN Snap!Rebuilt <=> w \in Snap!DirtySpaces BY RebuiltIs
  <2>2. k \in Snap!Removed <=> k \in DOMAIN parts /\ w \notin known BY <1>4 DEF Snap!Removed
  <2>3. w \in Snap!DirtySpaces => w \in known /\ Snap!Rebuilt[k] = Snap!WorkspaceRow(w)
    BY RebuiltIs DEF Snap!DirtySpaces
  <2>4. w \in known /\ w \notin Snap!DirtySpaces => ~Snap!Full /\ CleanSpace(w) /\ w \in Spaces
    BY <1>3 DEF Snap!DirtySpaces, CleanSpace
  <2>5. w \in known /\ w \notin Snap!DirtySpaces => k \in DOMAIN parts /\ parts[k] = Snap!WorkspaceRow(w)
    BY <1>3, <2>4 DEF PartsInv
  <2> HIDE DEF k, kept
  <2>6. k \in DOMAIN kept <=> (k \in DOMAIN parts \/ k \in DOMAIN Snap!Rebuilt) /\ k \notin Snap!Removed
    BY <1>1
  <2>7. k \in DOMAIN kept => kept[k] = IF k \in DOMAIN Snap!Rebuilt THEN Snap!Rebuilt[k] ELSE parts[k]
    BY <1>1
  <2> QED BY <2>1, <2>2, <2>3, <2>5, <2>6, <2>7 DEF k
<1>6. ASSUME NEW m
      PROVE  /\ <<"month", m>> \in DOMAIN kept <=> m \in Snap!AvailableMonths
             /\ m \in Snap!AvailableMonths => kept[<<"month", m>>] = MonthPart(m)
  <2> DEFINE k == <<"month", m>>
  <2>1. k \in DOMAIN Snap!Rebuilt <=> m \in Snap!DirtyMonths BY RebuiltIs
  <2>2. k \in Snap!Removed <=> k \in DOMAIN parts /\ m \notin Snap!AvailableMonths
    BY <1>4 DEF Snap!Removed
  <2>3. m \in Snap!DirtyMonths => m \in Snap!AvailableMonths /\ Snap!Rebuilt[k] = MonthPart(m)
    BY RebuiltIs, DirtyMonthsAre
  <2>4. m \in Snap!AvailableMonths /\ m \notin Snap!DirtyMonths =>
          ~Snap!Full /\ CleanMonth(m) /\ m \in FactMonths /\ k \in DOMAIN parts
    BY <1>4, AvailableAre DEF Snap!DirtyMonths, CleanMonth
  <2>5. m \in Snap!AvailableMonths /\ m \notin Snap!DirtyMonths => k \in DOMAIN parts /\ parts[k] = MonthPart(m)
    BY <1>3, <2>4 DEF PartsInv
  <2> HIDE DEF k, kept
  <2>6. k \in DOMAIN kept <=> (k \in DOMAIN parts \/ k \in DOMAIN Snap!Rebuilt) /\ k \notin Snap!Removed
    BY <1>1
  <2>7. k \in DOMAIN kept => kept[k] = IF k \in DOMAIN Snap!Rebuilt THEN Snap!Rebuilt[k] ELSE parts[k]
    BY <1>1
  <2> QED BY <2>1, <2>2, <2>3, <2>5, <2>6, <2>7 DEF k
<1>7. ASSUME NEW m
      PROVE  /\ <<"rd-month", m>> \in DOMAIN kept <=> m \in FactMonths /\ ~Snap!Missing(m)
             /\ m \in FactMonths /\ ~Snap!Missing(m) => kept[<<"rd-month", m>>] = Snap!RdRow(m)
  <2> DEFINE k == <<"rd-month", m>>
  <2>0. k \in DOMAIN parts => m \in FactMonths BY <1>3 DEF SnapshotKeys
  <2>1. k \in DOMAIN Snap!Rebuilt <=> m \in Snap!RdMonths /\ ~Snap!Missing(m) BY RebuiltIs
  <2>2. k \in Snap!Removed <=> k \in DOMAIN parts /\ m \in Snap!RdMonths /\ Snap!Missing(m)
    BY <1>4 DEF Snap!Removed
  <2>3. m \in Snap!RdMonths /\ ~Snap!Missing(m) => Snap!Rebuilt[k] = Snap!RdRow(m) BY RebuiltIs
  <2>4. m \in FactMonths /\ m \notin Snap!RdMonths => ~Snap!Full /\ CleanRd(m) /\ k \in DOMAIN parts
    BY <1>4 DEF Snap!RdMonths, Snap!RdDirty, CleanRd, CleanMonth
  <2>5. m \in FactMonths /\ m \notin Snap!RdMonths => ~Snap!Missing(m) /\ parts[k] = Snap!RdRow(m)
    BY <1>3, <2>4 DEF PartsInv
  <2>6. m \in Snap!RdMonths => m \in FactMonths
    BY DirtyIn DEF SnapshotInv, Snap!RdMonths, Snap!RdDirty, Snap!WorkspaceMonths
  <2> HIDE DEF k, kept
  <2>7. k \in DOMAIN kept <=> (k \in DOMAIN parts \/ k \in DOMAIN Snap!Rebuilt) /\ k \notin Snap!Removed
    BY <1>1
  <2>8. k \in DOMAIN kept => kept[k] = IF k \in DOMAIN Snap!Rebuilt THEN Snap!Rebuilt[k] ELSE parts[k]
    BY <1>1
  <2> QED BY <2>0, <2>1, <2>2, <2>3, <2>4, <2>5, <2>6, <2>7, <2>8 DEF k
<1>8. Snap!Full \/ <<"summary", 0>> \in DOMAIN parts BY <1>3 DEF PartsInv
<1>9. DOMAIN kept \subseteq SnapshotKeys
  <2>1. DOMAIN Snap!Rebuilt \subseteq SnapshotKeys
    <3>1. Snap!DirtyMonths \subseteq FactMonths /\ Snap!DirtySpaces \subseteq Spaces
      BY <1>3, AvailableAre, DirtyMonthsAre DEF Snap!DirtySpaces
    <3>2. Snap!RdMonths \subseteq FactMonths
      BY DirtyIn DEF SnapshotInv, Snap!RdMonths, Snap!RdDirty, Snap!WorkspaceMonths
    <3> QED BY <3>1, <3>2, RebuiltIs DEF SnapshotKeys
  <2> QED BY <1>1, <1>3, <2>1
<1>10. <<"summary", 0>> \in DOMAIN kept <=> <<"summary", 0>> \in DOMAIN parts
  <2>1. <<"summary", 0>> \notin DOMAIN Snap!Rebuilt /\ <<"summary", 0>> \notin Snap!Removed
    BY RebuiltIs DEF Snap!Removed
  <2> QED BY <1>1, <2>1
<1>11. DOMAIN kept \ {<<"summary", 0>>} = WholeKeys \ {<<"summary", 0>>}
  <2>1. \A k \in DOMAIN kept : k = <<k[1], k[2]>>
          /\ (k = <<"summary", 0>> \/ k[1] \in {"workspace", "month", "rd-month"})
    BY <1>9 DEF SnapshotKeys
  <2> HIDE DEF kept
  <2>2. ASSUME NEW k \in DOMAIN kept, k # <<"summary", 0>> PROVE k \in WholeKeys
    BY <1>5, <1>6, <1>7, <2>1, <2>2 DEF WholeKeys
  <2>3. ASSUME NEW k \in WholeKeys, k # <<"summary", 0>> PROVE k \in DOMAIN kept
    BY <1>5, <1>6, <1>7, <2>3 DEF WholeKeys
  <2> QED BY <2>2, <2>3
<1>12. kept = [k \in DOMAIN kept |-> kept[k]] BY <1>1
<1> HIDE DEF kept
<1>13. rows = [w \in known |-> Snap!WorkspaceRow(w)]
  <2>1. ASSUME NEW w PROVE w \in Snap!KeysOf(kept, "workspace") <=> w \in known
    BY <1>5, <1>9, KeysAre
  <2>2. Snap!KeysOf(kept, "workspace") = known BY <2>1
  <2> QED BY <1>5, <2>2
<1> HIDE DEF rows
<1>14. Snap!Summary(rows) = SummaryPart BY <1>13 DEF SummaryPart
<1>15. Snap!PublishedParts = IF due THEN new ELSE kept BY DEF Snap!PublishedParts, kept, rows
<1>16. CASE due
  <2> DEFINE s == <<"summary", 0>>
             up == [k \in {s} |-> SummaryPart]
  <2>1. new = [k \in DOMAIN kept \cup {s} |-> IF k = s THEN SummaryPart ELSE kept[k]]
    BY <1>14 DEF Snap!Applied
  <2>2. DOMAIN kept \cup {s} = WholeKeys BY <1>11 DEF WholeKeys
  <2> HIDE DEF new
  <2>3. new = [k \in WholeKeys |-> IF k = s THEN SummaryPart ELSE kept[k]] BY <2>1, <2>2
  <2>4. s \in WholeKeys BY DEF WholeKeys
  <2>5. ASSUME NEW w \in known PROVE new[<<"workspace", w>>] = Snap!WorkspaceRow(w)
    <3>1. <<"workspace", w>> \in WholeKeys BY DEF WholeKeys
    <3> QED BY <1>5, <2>3, <3>1
  <2>6. ASSUME NEW m \in Snap!AvailableMonths PROVE new[<<"month", m>>] = MonthPart(m)
    <3>1. <<"month", m>> \in WholeKeys BY DEF WholeKeys
    <3> QED BY <1>6, <2>3, <3>1
  <2>7. ASSUME NEW m \in FactMonths, ~Snap!Missing(m) PROVE new[<<"rd-month", m>>] = Snap!RdRow(m)
    <3>1. <<"rd-month", m>> \in WholeKeys BY <2>7 DEF WholeKeys
    <3> QED BY <1>7, <2>3, <2>7, <3>1
  <2>8. new[s] = SummaryPart /\ new = [k \in WholeKeys |-> new[k]] BY <2>3, <2>4
  <2> HIDE DEF s
  <2>9. IsWhole(new) BY <2>5, <2>6, <2>7, <2>8 DEF IsWhole, s
  <2> QED BY <1>15, <1>16, <2>9
<1>17. CASE ~due
  <2>1. ~Snap!Full /\ \A s \in scopes : s[1] = "rd-month" BY <1>17
  <2>2. <<"summary", 0>> \in DOMAIN parts /\ parts[<<"summary", 0>>] = SummaryPart
    BY <1>3, <2>1 DEF PartsInv
  <2>3. DOMAIN kept = WholeKeys BY <1>10, <1>11, <2>2 DEF WholeKeys
  <2>4. kept[<<"summary", 0>>] = SummaryPart
    <3>1. <<"summary", 0>> \notin DOMAIN Snap!Rebuilt BY RebuiltIs
    <3> QED BY <1>1, <1>10, <2>2, <3>1
  <2>5. IsWhole(kept) BY <1>5, <1>6, <1>7, <1>12, <2>3, <2>4 DEF IsWhole
  <2> QED BY <1>15, <1>17, <2>5
<1> QED BY <1>16, <1>17

LEMMA QualitySame ==
  ASSUME NEW A, \A f \in A : fact'[f] = fact[f]
  PROVE  Snap!Quality(A)' = Snap!Quality(A)
<1>1. {f \in A : fact'[f].review.score # None} = {f \in A : fact[f].review.score # None} OBVIOUS
<1>2. {f \in A : fact'[f].review.verdict = "passCount"} = {f \in A : fact[f].review.verdict = "passCount"}
  OBVIOUS
<1>3. {f \in A : fact'[f].review.verdict = "returnCount"} = {f \in A : fact[f].review.verdict = "returnCount"}
  OBVIOUS
<1>4. [f \in {f \in A : fact'[f].review.score # None} |-> fact'[f].review.score]
      = [f \in {f \in A : fact[f].review.score # None} |-> fact[f].review.score]
  OBVIOUS
<1> QED BY <1>1, <1>2, <1>3, <1>4 DEF Snap!Quality

LEMMA WorkspaceRowSame ==
  ASSUME NEW w, SameSpace(w)
  PROVE  Snap!WorkspaceRow(w)' = Snap!WorkspaceRow(w)
<1>1. Snap!In(w)' = Snap!In(w) /\ \A f \in Snap!In(w) : fact'[f] = fact[f] BY DEF SameSpace
<1>2. Snap!Uploaded({w}, Snap!Current)' = Snap!Uploaded({w}, Snap!Current)
  <2>1. Snap!Current' = Snap!Current BY DEF Snap!Current
  <2>2. Snap!Uploaded({w}, Snap!Current) = {f \in Snap!In(w) : fact[f].day # None /\ fact[f].day[1] = Snap!Current}
    BY DEF Snap!Uploaded, Snap!In
  <2>3. Snap!Uploaded({w}, Snap!Current)'
          = {f \in Snap!In(w)' : fact'[f].day # None /\ fact'[f].day[1] = Snap!Current'}
    BY DEF Snap!Uploaded, Snap!In
  <2> QED BY <1>1, <2>1, <2>2, <2>3
<1>3. ASSUME NEW m PROVE Snap!Quality(Snap!Reviewed({w}, m))' = Snap!Quality(Snap!Reviewed({w}, m))
  <2>1. Snap!Reviewed({w}, m) = {f \in Snap!In(w) : fact[f].review # None /\ fact[f].review.month = m}
    BY DEF Snap!Reviewed, Snap!In
  <2>2. Snap!Reviewed({w}, m)' = {f \in Snap!In(w)' : fact'[f].review # None /\ fact'[f].review.month = m}
    BY DEF Snap!Reviewed, Snap!In
  <2>3. Snap!Reviewed({w}, m)' = Snap!Reviewed({w}, m) /\ \A f \in Snap!Reviewed({w}, m) : fact'[f] = fact[f]
    BY <1>1, <2>1, <2>2
  <2> QED BY <2>3, QualitySame
<1>4. [m \in FactMonths |-> Snap!Quality(Snap!Reviewed({w}, m))]' = [m \in FactMonths |-> Snap!Quality(Snap!Reviewed({w}, m))]
  BY <1>3
<1> QED BY <1>1, <1>2, <1>4 DEF Snap!WorkspaceRow, Snap!QualitySum

(* The files of a month in some libraries. *)
LEMMA FilesSame ==
  ASSUME NEW m, SameMonth(m), NEW in, NEW later,
         \A f \in FactFiles : About(fact[f], m) => (fact[f].ws \in later <=> fact[f].ws \in in)
  PROVE  /\ Snap!Uploaded(later, m)' = Snap!Uploaded(in, m)
         /\ Snap!Reviewed(later, m)' = Snap!Reviewed(in, m)
         /\ \A f \in Snap!Uploaded(in, m) \cup Snap!Reviewed(in, m) : fact'[f] = fact[f]
<1>1. ASSUME NEW f \in FactFiles
      PROVE  /\ f \in Snap!Uploaded(in, m) <=> fact[f] # None /\ fact[f].ws \in in /\ fact[f].day # None
                  /\ fact[f].day[1] = m
             /\ f \in Snap!Reviewed(in, m) <=> fact[f] # None /\ fact[f].ws \in in /\ fact[f].review # None
                  /\ fact[f].review.month = m
             /\ f \in Snap!Uploaded(later, m)' <=> fact'[f] # None /\ fact'[f].ws \in later /\ fact'[f].day # None
                  /\ fact'[f].day[1] = m
             /\ f \in Snap!Reviewed(later, m)' <=> fact'[f] # None /\ fact'[f].ws \in later
                  /\ fact'[f].review # None /\ fact'[f].review.month = m
  BY DEF Snap!Uploaded, Snap!Reviewed, Snap!Present
<1>2. /\ Snap!Uploaded(in, m) \subseteq FactFiles /\ Snap!Reviewed(in, m) \subseteq FactFiles
      /\ Snap!Uploaded(later, m)' \subseteq FactFiles /\ Snap!Reviewed(later, m)' \subseteq FactFiles
  BY DEF Snap!Uploaded, Snap!Reviewed, Snap!Present
<1>3. ASSUME NEW f \in FactFiles
      PROVE  /\ f \in Snap!Uploaded(later, m)' <=> f \in Snap!Uploaded(in, m)
             /\ f \in Snap!Reviewed(later, m)' <=> f \in Snap!Reviewed(in, m)
             /\ f \in Snap!Uploaded(in, m) \cup Snap!Reviewed(in, m) => fact'[f] = fact[f]
  <2>1. CASE About(fact[f], m) \/ About(fact'[f], m)
    <3>1. fact'[f] = fact[f] /\ About(fact[f], m) BY <2>1 DEF SameMonth
    <3>2. fact[f].ws \in later <=> fact[f].ws \in in BY <3>1
    <3> QED BY <1>1, <3>1, <3>2
  <2>2. CASE ~About(fact[f], m) /\ ~About(fact'[f], m) BY <1>1, <2>2 DEF About
  <2> QED BY <2>1, <2>2
<1> QED BY <1>2, <1>3

LEMMA MonthPartSame ==
  ASSUME NEW m \in FactMonths, SameMonth(m), identity'[m] = identity[m]
  PROVE  MonthPart(m)' = MonthPart(m)
<1> DEFINE U == Snap!Uploaded(known, m)
           Rev == Snap!Reviewed(known, m)
<1>1. U' = U /\ Rev' = Rev /\ \A f \in U \cup Rev : fact'[f] = fact[f]
  <2>1. \A f \in FactFiles : About(fact[f], m) => (fact[f].ws \in known' <=> fact[f].ws \in known)
    BY DEF SameMonth
  <2>2. /\ Snap!Uploaded(known, m)' = Snap!Uploaded(known, m) /\ Snap!Reviewed(known, m)' = Snap!Reviewed(known, m)
        /\ \A f \in Snap!Uploaded(known, m) \cup Snap!Reviewed(known, m) : fact'[f] = fact[f]
    BY <2>1, FilesSame
  <2> QED BY <2>2
<1>2. ASSUME NEW f \in U PROVE fact[f].day[1] = m
  BY DEF Snap!Uploaded
<1>3. ASSUME NEW f \in U \cup Rev PROVE Snap!Bucket(m, f)' = Snap!Bucket(m, f)
                   /\ Snap!EmployeeOf(m, f)' = Snap!EmployeeOf(m, f)
  <2>1. fact'[f] = fact[f] BY <1>1
  <2>2. Snap!Resolved(m, f)' = Snap!Resolved(m, f) BY <2>1 DEF Snap!Resolved
  <2> QED BY <2>1, <2>2 DEF Snap!Bucket, Snap!IsRobot, Snap!EmployeeOf
<1>4. ASSUME NEW f \in U PROVE Snap!Bulk(known, m, f)' <=> Snap!Bulk(known, m, f)
  <2> DEFINE D == {g \in U : fact[g].source = fact[f].source /\ fact[g].day = fact[f].day}
  <2>1. fact'[f] = fact[f] /\ fact[f].day[1] = m BY <1>1, <1>2
  <2>2. Snap!PersonDay(known, f) = Cardinality(D) /\ Snap!PersonDay(known, f)' = Cardinality(D')
    BY SnapCounts, <2>1 DEF Snap!PersonDay
  <2>3. D' = D
    <3> HIDE DEF U
    <3> QED BY <1>1, <2>1
  <2> HIDE DEF D
  <2>4. Snap!PersonDay(known, f)' = Snap!PersonDay(known, f) BY <2>2, <2>3
  <2>5. Snap!Bucket(m, f)' = Snap!Bucket(m, f) BY <1>3
  <2> QED BY <2>1, <2>4, <2>5 DEF Snap!Bulk
<1> HIDE DEF U, Rev
<1>5. Snap!MonthlyRow(known, m)' = Snap!MonthlyRow(known, m)
  <2> DEFINE Sub == {f \in U : Snap!Bulk(known, m, f)}
  <2>1. Sub' = Sub BY <1>1, <1>4
  <2>2. Snap!Quality(Rev)' = Snap!Quality(Rev) BY <1>1, QualitySame
  <2>3. /\ Snap!MonthlyRow(known, m) = [uploaded |-> Cardinality(U), bulk |-> Cardinality(Sub),
             routine |-> Cardinality(U \ Sub),
                                   quality |-> Snap!Quality(Rev)]
        /\ Snap!MonthlyRow(known, m)' = [uploaded |-> Cardinality(U'), bulk |-> Cardinality(Sub'),
             routine |-> Cardinality(U' \ Sub'),
                                    quality |-> Snap!Quality(Rev)']
    BY SnapCounts DEF Snap!MonthlyRow, U, Rev
  <2> QED BY <1>1, <2>1, <2>2, <2>3
<1>6. Snap!Diagnostics(known, m)' = Snap!Diagnostics(known, m)
  <2> DEFINE D(b) == {f \in U : Snap!Bucket(m, f) = b}
  <2>1. ASSUME NEW b PROVE D(b)' = D(b)
    BY <1>1, <1>3
  <2>2. Snap!Diagnostics(known, m) = [b \in Snap!Buckets |-> Cardinality(D(b))]
        /\ Snap!Diagnostics(known, m)' = [b \in Snap!Buckets |-> Cardinality(D(b)')]
    BY SnapCounts DEF Snap!Diagnostics, U
  <2> QED BY <2>1, <2>2
<1>7. Snap!Employees(known, m)' = Snap!Employees(known, m)
  <2> DEFINE F == {f \in U : Snap!Bucket(m, f) = "official"}
             Grp == {f \in Rev : Snap!Bucket(m, f) = "official"}
             K == {Snap!EmployeeOf(m, f) : f \in F \cup Grp}
             Mine(k) == {f \in F : Snap!EmployeeOf(m, f) = k}
             Rated(k) == {f \in Grp : Snap!EmployeeOf(m, f) = k}
             E(k) == [uploaded |-> Cardinality(Mine(k)), spaces |-> Cardinality({fact[f].ws : f \in Mine(k)}),
                      quality |-> Snap!Quality(Rated(k))]
  <2>1. F' = F /\ Grp' = Grp BY <1>1, <1>3
  <2>2. K' = K BY <1>1, <1>3, <2>1
  <2>3. ASSUME NEW k PROVE E(k)' = E(k)
    <3>1. Mine(k)' = Mine(k) /\ Rated(k)' = Rated(k) BY <1>1, <1>3, <2>1
    <3>2. {fact[f].ws : f \in Mine(k)}' = {fact[f].ws : f \in Mine(k)} BY <1>1, <3>1
    <3>3. Snap!Quality(Rated(k))' = Snap!Quality(Rated(k)) BY <1>1, <3>1, QualitySame
    <3> HIDE DEF Mine, Rated
    <3> QED BY <3>1, <3>2, <3>3
  <2>4. Snap!Employees(known, m) = [k \in K |-> E(k)] /\ Snap!Employees(known, m)' = [k \in K' |-> E(k)']
    BY SnapCounts DEF Snap!Employees, U, Rev
  <2> HIDE DEF K, E
  <2> QED BY <2>2, <2>3, <2>4
<1> QED BY <1>5, <1>6, <1>7 DEF MonthPart

LEMMA RdSame ==
  ASSUME NEW m \in FactMonths, SameMonth(m), org'[m] = org[m]
  PROVE  (Snap!Missing(m)' <=> Snap!Missing(m)) /\ Snap!RdRow(m)' = Snap!RdRow(m)
<1> DEFINE in == {w \in known : owner[w] \in org[m]}
<1>1. \A f \in FactFiles : About(fact[f], m) => (fact[f].ws \in in' <=> fact[f].ws \in in)
  BY DEF SameMonth
<1>2. \A f \in FactFiles : About(fact[f], m) => (fact[f].ws \in known' <=> fact[f].ws \in known)
  BY DEF SameMonth
<1>3. /\ Snap!Uploaded(known, m)' = Snap!Uploaded(known, m) /\ Snap!Reviewed(known, m)' = Snap!Reviewed(known, m)
      /\ \A f \in Snap!Uploaded(known, m) \cup Snap!Reviewed(known, m) : fact'[f] = fact[f]
  BY <1>2, FilesSame
<1>4. Snap!Missing(m)' <=> Snap!Missing(m) BY <1>3 DEF Snap!Missing
<1> HIDE DEF in
<1>5. /\ Snap!Uploaded(in, m)' = Snap!Uploaded(in, m) /\ Snap!Reviewed(in, m)' = Snap!Reviewed(in, m)
      /\ \A f \in Snap!Uploaded(in, m) \cup Snap!Reviewed(in, m) : fact'[f] = fact[f]
  BY <1>1, FilesSame
<1>6. Snap!Quality(Snap!Reviewed(in, m))' = Snap!Quality(Snap!Reviewed(in, m)) BY <1>5, QualitySame
<1>7. Snap!RdRow(m) = [uploaded |-> Cardinality(Snap!Uploaded(in, m)),
        scored |-> Snap!Quality(Snap!Reviewed(in, m)).scored,
                  score |-> Snap!Quality(Snap!Reviewed(in, m)).score]
      /\ Snap!RdRow(m)' = [uploaded |-> Cardinality(Snap!Uploaded(in, m)'),
           scored |-> Snap!Quality(Snap!Reviewed(in, m))'.scored,
                      score |-> Snap!Quality(Snap!Reviewed(in, m))'.score]
  BY SnapCounts DEF Snap!RdRow, in
<1> QED BY <1>4, <1>5, <1>6, <1>7

LEMMA SummarySame == ASSUME fact' = fact, known' = known PROVE SummaryPart' = SummaryPart
<1>1. \A w : Snap!WorkspaceRow(w)' = Snap!WorkspaceRow(w)
  <2> SUFFICES ASSUME NEW w PROVE Snap!WorkspaceRow(w)' = Snap!WorkspaceRow(w)
    OBVIOUS
  <2>1. Snap!In(w)' = Snap!In(w) BY DEF Snap!In, Snap!Present
  <2> QED BY <2>1, WorkspaceRowSame DEF SameSpace
<1> DEFINE rows == [w \in known |-> Snap!WorkspaceRow(w)]
<1>2. rows' = rows BY <1>1
<1>3. Snap!Reviewed(known, Snap!Current)' = Snap!Reviewed(known, Snap!Current)
  BY DEF Snap!Reviewed, Snap!Present, Snap!Current
<1>4. Snap!Quality(Snap!Reviewed(known, Snap!Current))' = Snap!Quality(Snap!Reviewed(known, Snap!Current))
  BY <1>3, QualitySame
<1>5. {f \in UNION {Snap!In(w) : w \in known} : fact[f].day = None}'
        = {f \in UNION {Snap!In(w) : w \in known} : fact[f].day = None}
  BY DEF Snap!In, Snap!Present
<1> HIDE DEF rows
<1>6. Snap!Summary(rows)' = Snap!Summary(rows) BY <1>2, <1>4, <1>5 DEF Snap!Summary, Snap!QualitySum
<1> QED BY <1>6 DEF SummaryPart, rows

LEMMA KeysSame == ASSUME UNCHANGED <<fact, known, org>> PROVE WholeKeys' = WholeKeys
<1>1. \A m \in FactMonths : Snap!Uploaded(known, m)' = Snap!Uploaded(known, m)
        /\ Snap!Reviewed(known, m)' = Snap!Reviewed(known, m)
  BY DEF Snap!Uploaded, Snap!Reviewed, Snap!Present
<1>2. Snap!AvailableMonths' = Snap!AvailableMonths
  <2> DEFINE seen == {m \in FactMonths : Snap!Uploaded(known, m) \cup Snap!Reviewed(known, m) # {}}
  <2>1. seen' = seen BY <1>1
  <2> HIDE DEF seen
  <2>2. Snap!AvailableMonths = {m \in seen : Cardinality({n \in seen : n > m}) < Retained}
        /\ Snap!AvailableMonths' = {m \in seen' : Cardinality({n \in seen' : n > m}) < Retained}
    BY SnapCounts DEF Snap!AvailableMonths, seen
  <2> QED BY <2>1, <2>2
<1>3. \A m \in FactMonths : Snap!Missing(m)' <=> Snap!Missing(m) BY <1>1 DEF Snap!Missing
<1>4. {m \in FactMonths : ~Snap!Missing(m)}' = {m \in FactMonths : ~Snap!Missing(m)} BY <1>3
<1> QED BY <1>2, <1>4 DEF WholeKeys

LEMMA MarkedKeeps ==
  ASSUME SnapshotInv, Marked
  PROVE  SnapshotInv'
<1> SUFFICES ASSUME ~Snap!Full' PROVE PartsInv'
  BY DEF Marked, SnapshotInv
<1>1. ~Snap!Full /\ parts' = parts BY DEF Marked, Snap!Full
<1>2. PartsInv BY <1>1 DEF SnapshotInv
<1>3. /\ parts' = [k \in DOMAIN parts' |-> parts'[k]] /\ DOMAIN parts' \subseteq SnapshotKeys'
      /\ <<"summary", 0>> \in DOMAIN parts'
  BY <1>1, <1>2 DEF PartsInv, SnapshotKeys
<1>4. ASSUME NEW w \in Spaces, CleanSpace(w)'
      PROVE  /\ <<"workspace", w>> \in DOMAIN parts' <=> w \in known'
             /\ w \in known' => parts'[<<"workspace", w>>] = Snap!WorkspaceRow(w)'
  <2>1. CleanSpace(w) /\ SameSpace(w) BY <1>4 DEF Marked
  <2>2. Snap!WorkspaceRow(w)' = Snap!WorkspaceRow(w) /\ (w \in known' <=> w \in known)
    BY <2>1, WorkspaceRowSame DEF SameSpace
  <2>3. /\ <<"workspace", w>> \in DOMAIN parts <=> w \in known
        /\ w \in known => parts[<<"workspace", w>>] = Snap!WorkspaceRow(w)
    BY <1>2, <2>1 DEF PartsInv
  <2> QED BY <1>1, <2>2, <2>3
<1>5. ASSUME NEW m \in FactMonths, CleanMonth(m)', <<"month", m>> \in DOMAIN parts'
      PROVE  parts'[<<"month", m>>] = MonthPart(m)'
  <2>1. CleanMonth(m) /\ SameMonth(m) /\ identity'[m] = identity[m] BY <1>5 DEF Marked
  <2>2. MonthPart(m)' = MonthPart(m) BY <2>1, MonthPartSame
  <2>3. parts[<<"month", m>>] = MonthPart(m) BY <1>1, <1>2, <1>5, <2>1 DEF PartsInv
  <2> QED BY <1>1, <2>2, <2>3
<1>6. ASSUME NEW m \in FactMonths, CleanRd(m)', <<"rd-month", m>> \in DOMAIN parts'
      PROVE  ~Snap!Missing(m)' /\ parts'[<<"rd-month", m>>] = Snap!RdRow(m)'
  <2>1. CleanRd(m) /\ SameMonth(m) /\ org'[m] = org[m] BY <1>6 DEF Marked
  <2>2. (Snap!Missing(m)' <=> Snap!Missing(m)) /\ Snap!RdRow(m)' = Snap!RdRow(m) BY <2>1, RdSame
  <2>3. ~Snap!Missing(m) /\ parts[<<"rd-month", m>>] = Snap!RdRow(m)
    BY <1>1, <1>2, <1>6, <2>1 DEF PartsInv
  <2> QED BY <1>1, <2>2, <2>3
<1>7. ASSUME \A s \in scopes' : s[1] = "rd-month" PROVE parts'[<<"summary", 0>>] = SummaryPart'
  <2>1. (\A s \in scopes : s[1] = "rd-month") /\ fact' = fact /\ known' = known BY <1>7 DEF Marked
  <2> QED BY <1>1, <1>2, <2>1, SummarySame DEF PartsInv
<1>8. ASSUME scopes' = {} PROVE DOMAIN parts' = WholeKeys'
  <2>1. scopes = {} /\ UNCHANGED <<fact, known, org>> BY <1>8 DEF Marked
  <2> QED BY <1>1, <1>2, <2>1, KeysSame DEF PartsInv
<1> QED BY <1>3, <1>4, <1>5, <1>6, <1>7, <1>8 DEF PartsInv

(* Nothing is dirty once everything is written. *)
LEMMA PublishKeeps ==
  ASSUME SnapshotAssumption, SnapshotInv, Snap!PublishPartitions
  PROVE  SnapshotInv' /\ IsWhole(parts)'
<1>1. /\ parts' = Snap!PublishedParts /\ scopes' = {}
      /\ UNCHANGED <<fact, owner, known, identity, org, acked, edits>> /\ (Snap!Full \/ scopes # {})
  BY DEF Snap!PublishPartitions
<1>2. SnapshotTypes' BY <1>1 DEF SnapshotInv, SnapshotTypes, SnapshotKeys
<1>3. IsWhole(parts') BY <1>1, PublishedIsWhole
<1>4. \A w : Snap!WorkspaceRow(w)' = Snap!WorkspaceRow(w)
  <2> SUFFICES ASSUME NEW w PROVE Snap!WorkspaceRow(w)' = Snap!WorkspaceRow(w)
    OBVIOUS
  <2>1. Snap!In(w)' = Snap!In(w) BY <1>1 DEF Snap!In, Snap!Present
  <2> QED BY <1>1, <2>1, WorkspaceRowSame DEF SameSpace
<1>5. \A m \in FactMonths : MonthPart(m)' = MonthPart(m) /\ Snap!RdRow(m)' = Snap!RdRow(m)
        /\ (Snap!Missing(m)' <=> Snap!Missing(m))
  <2> SUFFICES ASSUME NEW m \in FactMonths
               PROVE  MonthPart(m)' = MonthPart(m) /\ Snap!RdRow(m)' = Snap!RdRow(m)
                        /\ (Snap!Missing(m)' <=> Snap!Missing(m))
    OBVIOUS
  <2>1. SameMonth(m) /\ identity'[m] = identity[m] /\ org'[m] = org[m] BY <1>1 DEF SameMonth
  <2> QED BY <2>1, MonthPartSame, RdSame
<1>6. WholeKeys' = WholeKeys /\ SummaryPart' = SummaryPart BY <1>1, KeysSame, SummarySame
<1>7. Snap!AvailableMonths \subseteq FactMonths /\ known \subseteq Spaces
  BY AvailableAre DEF SnapshotInv, SnapshotTypes
<1>8. PartsInv'
  <2>1. DOMAIN parts' = WholeKeys /\ parts' = [k \in WholeKeys |-> parts'[k]] BY <1>3 DEF IsWhole
  <2>2. WholeKeys \subseteq SnapshotKeys' BY <1>7 DEF WholeKeys, SnapshotKeys
  <2>3. <<"summary", 0>> \in WholeKeys BY DEF WholeKeys
  <2>4. ASSUME NEW w \in Spaces
        PROVE  /\ <<"workspace", w>> \in DOMAIN parts' <=> w \in known'
               /\ w \in known' => parts'[<<"workspace", w>>] = Snap!WorkspaceRow(w)'
    <3>1. <<"workspace", w>> \in WholeKeys <=> w \in known BY DEF WholeKeys
    <3> QED BY <1>1, <1>3, <1>4, <2>1, <3>1 DEF IsWhole
  <2>5. ASSUME NEW m \in FactMonths, <<"month", m>> \in DOMAIN parts'
        PROVE  parts'[<<"month", m>>] = MonthPart(m)'
    <3>1. m \in Snap!AvailableMonths BY <2>1, <2>5 DEF WholeKeys
    <3> QED BY <1>3, <1>5, <3>1 DEF IsWhole
  <2>6. ASSUME NEW m \in FactMonths, <<"rd-month", m>> \in DOMAIN parts'
        PROVE  ~Snap!Missing(m)' /\ parts'[<<"rd-month", m>>] = Snap!RdRow(m)'
    <3>1. ~Snap!Missing(m) BY <2>1, <2>6 DEF WholeKeys
    <3> QED BY <1>3, <1>5, <3>1 DEF IsWhole
  <2>7. parts'[<<"summary", 0>>] = SummaryPart' BY <1>3, <1>6 DEF IsWhole
  <2> QED BY <1>6, <2>1, <2>2, <2>3, <2>4, <2>5, <2>6, <2>7 DEF PartsInv
<1>9. SnapshotInv' BY <1>2, <1>8 DEF SnapshotInv
<1>10. Snap!AvailableMonths' = Snap!AvailableMonths
  <2>1. \A m : <<"month", m>> \in WholeKeys <=> m \in Snap!AvailableMonths BY DEF WholeKeys
  <2>2. \A m : <<"month", m>> \in WholeKeys' <=> m \in Snap!AvailableMonths' BY DEF WholeKeys
  <2> QED BY <1>6, <2>1, <2>2
<1>11. IsWhole(parts)'
  <2>1. parts' = [k \in WholeKeys' |-> parts'[k]] /\ parts'[<<"summary", 0>>] = SummaryPart'
    BY <1>3, <1>6 DEF IsWhole
  <2>2. \A w \in known' : parts'[<<"workspace", w>>] = Snap!WorkspaceRow(w)'
    BY <1>1, <1>3, <1>4 DEF IsWhole
  <2>3. \A m \in Snap!AvailableMonths' : parts'[<<"month", m>>] = MonthPart(m)'
    BY <1>3, <1>5, <1>7, <1>10 DEF IsWhole
  <2>4. \A m \in FactMonths : ~Snap!Missing(m)' => parts'[<<"rd-month", m>>] = Snap!RdRow(m)'
    BY <1>3, <1>5 DEF IsWhole
  <2> QED BY <2>1, <2>2, <2>3, <2>4 DEF IsWhole
<1> QED BY <1>9, <1>11

(* Marks only grow until the next publication. *)
LEMMA DirtyGrows ==
  ASSUME SnapshotTypes, SnapshotTypes', scopes \subseteq scopes', NEW kind
  PROVE  Snap!Dirty(kind) \subseteq Snap!Dirty(kind)'
BY DirtyAre, DirtyAreThen

(* A month has files of a library that the registry marked. *)
LEMMA WorkspaceMonthsAre ==
  ASSUME NEW m \in FactMonths
  PROVE  m \in Snap!WorkspaceMonths <=>
           \E f \in FactFiles : About(fact[f], m) /\ fact[f].ws \in Snap!Dirty("registry")
<1>1. m \in Snap!WorkspaceMonths <=> Snap!Uploaded(Snap!Dirty("registry"), m)
        \cup Snap!Reviewed(Snap!Dirty("registry"), m) # {}
  BY DEF Snap!WorkspaceMonths
<1> DEFINE D == Snap!Dirty("registry")
<1>2. ASSUME NEW f \in FactFiles
      PROVE  (f \in Snap!Uploaded(D, m) \/ f \in Snap!Reviewed(D, m)) <=> About(fact[f], m) /\ fact[f].ws \in D
  BY DEF Snap!Uploaded, Snap!Reviewed, Snap!Present, About
<1>3. Snap!Uploaded(D, m) \subseteq FactFiles /\ Snap!Reviewed(D, m) \subseteq FactFiles
  BY DEF Snap!Uploaded, Snap!Reviewed, Snap!Present
<1> HIDE DEF D
<1>4. Snap!Uploaded(D, m) \cup Snap!Reviewed(D, m) # {} <=> \E f \in FactFiles : About(fact[f], m) /\ fact[f].ws \in D
  BY <1>2, <1>3
<1> QED BY <1>1, <1>4 DEF D

LEMMA WorkspaceMonthsThen ==
  ASSUME NEW m \in FactMonths
  PROVE  m \in Snap!WorkspaceMonths' <=>
           \E f \in FactFiles : About(fact'[f], m) /\ fact'[f].ws \in Snap!Dirty("registry")'
<1>1. m \in Snap!WorkspaceMonths' <=> Snap!Uploaded(Snap!Dirty("registry"), m)'
        \cup Snap!Reviewed(Snap!Dirty("registry"), m)' # {}
  BY DEF Snap!WorkspaceMonths
<1> DEFINE D == Snap!Dirty("registry")
<1>2. ASSUME NEW f \in FactFiles
      PROVE  (f \in Snap!Uploaded(D, m)' \/ f \in Snap!Reviewed(D, m)') <=> About(fact'[f], m) /\ fact'[f].ws \in D'
  BY DEF Snap!Uploaded, Snap!Reviewed, Snap!Present, About
<1>3. Snap!Uploaded(D, m)' \subseteq FactFiles /\ Snap!Reviewed(D, m)' \subseteq FactFiles
  BY DEF Snap!Uploaded, Snap!Reviewed, Snap!Present
<1> HIDE DEF D
<1>4. Snap!Uploaded(D, m)' \cup Snap!Reviewed(D, m)' # {} <=> \E f \in FactFiles : About(fact'[f], m)
        /\ fact'[f].ws \in D'
  BY <1>2, <1>3
<1> QED BY <1>1, <1>4 DEF D

(* A file that changes marks what it was and what it is. *)
LEMMA CollectMarks ==
  ASSUME SnapshotAssumption, SnapshotTypes, NEW g \in FactFiles, Snap!Collect(g)
  PROVE  Marked
<1>1. PICK v \in Facts \cup {None} :
        /\ fact' = [fact EXCEPT ![g] = v]
        /\ scopes' = scopes \cup Snap!Touched(fact[g]) \cup Snap!Touched(v)
  BY DEF Snap!Collect
<1>2. UNCHANGED <<owner, known, identity, org, parts>> BY DEF Snap!Collect
<1>3. fact \in [FactFiles -> Facts \cup {None}] /\ fact' \in [FactFiles -> Facts \cup {None}]
      /\ fact'[g] = v /\ \A f \in FactFiles \ {g} : fact'[f] = fact[f]
  BY <1>1 DEF SnapshotTypes
<1>4. ASSUME NEW u \in Facts \cup {None}
      PROVE  /\ Snap!Touched(u) \subseteq SnapshotKeys
             /\ \A s \in Snap!Touched(u) : s[1] \in {"workspace", "summary", "month"}
             /\ \A w : <<"registry", w>> \notin Snap!Touched(u) /\ <<"rd-month", w>> \notin Snap!Touched(u)
             /\ u # None => <<"summary", 0>> \in Snap!Touched(u) /\ <<"workspace", u.ws>> \in Snap!Touched(u)
             /\ \A m : About(u, m) => <<"month", m>> \in Snap!Touched(u)
  <2>1. CASE u = None BY <2>1 DEF Snap!Touched, About
  <2>2. CASE u # None
    <3>1. /\ u.ws \in Spaces /\ u.day \in (FactMonths \X Nat) \cup {None}
          /\ u.review \in {None} \cup [month: FactMonths, verdict: {"passCount", "returnCount", "none"},
               score: {None, 0, 1}]
      BY <2>2 DEF SnapshotAssumption, Snap!Fact
    <3>2. (u.day # None => u.day[1] \in FactMonths) /\ (u.review # None => u.review.month \in FactMonths)
      BY <3>1
    <3> QED BY <2>2, <3>1, <3>2 DEF Snap!Touched, About, SnapshotKeys
  <2> QED BY <2>1, <2>2
<1>5. fact[g] \in Facts \cup {None} BY <1>3
<1>6. SnapshotTypes'
  <2>1. scopes' \subseteq SnapshotKeys \cup ({"registry"} \X Spaces)
    BY <1>1, <1>4, <1>5 DEF SnapshotTypes
  <2> QED BY <1>2, <1>3, <2>1 DEF SnapshotTypes, SnapshotKeys
<1>7. scopes \subseteq scopes' /\ Snap!Touched(fact[g]) \subseteq scopes' /\ Snap!Touched(v) \subseteq scopes'
  BY <1>1
<1>8. \A kind : Snap!Dirty(kind) \subseteq Snap!Dirty(kind)' BY <1>6, <1>7, DirtyGrows
<1>9. Snap!Dirty("registry")' = Snap!Dirty("registry") /\ Snap!Dirty("rd-month")' = Snap!Dirty("rd-month")
  <2>1. ASSUME NEW kind \in {"registry", "rd-month"}, NEW x PROVE <<kind, x>> \in scopes' <=> <<kind, x>> \in scopes
    BY <1>1, <1>4, <1>5
  <2>2. ASSUME NEW kind \in {"registry", "rd-month"}, NEW x PROVE x \in Snap!Dirty(kind)' <=> x \in Snap!Dirty(kind)
    BY <1>6, <2>1, DirtyAre, DirtyAreThen
  <2> QED BY <2>2
<1>10. ASSUME NEW w \in Spaces, CleanSpace(w)' PROVE CleanSpace(w) /\ SameSpace(w)
  <2>1. w \notin Snap!Dirty("workspace")' /\ CleanSpace(w) BY <1>8, <1>10 DEF CleanSpace
  <2>2. <<"workspace", w>> \notin scopes' BY <1>6, <2>1, DirtyAreThen
  <2>3. (fact[g] # None => fact[g].ws # w) /\ (v # None => v.ws # w) BY <1>4, <1>5, <1>7, <2>2
  <2>4. Snap!In(w)' = Snap!In(w) /\ \A f \in Snap!In(w) : fact'[f] = fact[f]
    <3>1. \A f \in FactFiles : f \in Snap!In(w) <=> fact[f] # None /\ fact[f].ws = w
      BY DEF Snap!In, Snap!Present
    <3>2. \A f \in FactFiles : f \in Snap!In(w)' <=> fact'[f] # None /\ fact'[f].ws = w
      BY DEF Snap!In, Snap!Present
    <3>3. Snap!In(w) \subseteq FactFiles /\ Snap!In(w)' \subseteq FactFiles
      BY DEF Snap!In, Snap!Present
    <3>4. g \notin Snap!In(w) /\ g \notin Snap!In(w)' BY <1>3, <2>3, <3>1, <3>2
    <3> QED BY <1>3, <3>1, <3>2, <3>3, <3>4
  <2> QED BY <1>2, <2>1, <2>4 DEF SameSpace
<1>11. ASSUME NEW m \in FactMonths, CleanMonth(m)' PROVE CleanMonth(m) /\ SameMonth(m)
  <2>1. m \notin Snap!Dirty("month")' /\ m \notin Snap!Dirty("month") /\ m \notin Snap!WorkspaceMonths'
    BY <1>8, <1>11 DEF CleanMonth
  <2>2. <<"month", m>> \notin scopes' BY <1>6, <2>1, DirtyAreThen
  <2>3. ~About(fact[g], m) /\ ~About(v, m) BY <1>4, <1>5, <1>7, <2>2
  <2>4. SameMonth(m) BY <1>2, <1>3, <2>3 DEF SameMonth
  <2>5. m \notin Snap!WorkspaceMonths
    <3> SUFFICES ASSUME NEW f \in FactFiles, About(fact[f], m), fact[f].ws \in Snap!Dirty("registry") PROVE FALSE
      BY WorkspaceMonthsAre
    <3>1. fact'[f] = fact[f] BY <2>4 DEF SameMonth
    <3> QED BY <1>9, <2>1, <3>1, WorkspaceMonthsThen
  <2> QED BY <2>1, <2>4, <2>5 DEF CleanMonth
<1>12. (\E s \in scopes' : s[1] # "rd-month") \/ (fact' = fact /\ scopes' = scopes)
  <2>1. CASE fact[g] = None /\ v = None BY <1>1, <2>1 DEF Snap!Touched, SnapshotTypes
  <2>2. CASE fact[g] # None \/ v # None
    <3> DEFINE s == <<"summary", 0>>
    <3>1. s \in scopes' /\ s[1] # "rd-month" BY <1>4, <1>5, <1>7, <2>2
    <3> HIDE DEF s
    <3> QED BY <3>1
  <2> QED BY <2>1, <2>2
<1>13. scopes' = {} => scopes = {} /\ fact' = fact BY <1>12
<1> QED BY <1>2, <1>6, <1>9, <1>10, <1>11, <1>12, <1>13 DEF Marked, CleanRd

(* A step that adds marks, no file among what it changes. *)
LEMMA FactsStay ==
  ASSUME SnapshotTypes, SnapshotTypes', scopes \subseteq scopes', fact' = fact,
         NEW m \in FactMonths, CleanMonth(m)'
  PROVE  CleanMonth(m) /\ \A f \in FactFiles : About(fact[f], m) => fact[f].ws \notin Snap!Dirty("registry")'
<1>1. \A kind : Snap!Dirty(kind) \subseteq Snap!Dirty(kind)' BY DirtyGrows
<1>2. m \notin Snap!Dirty("month") /\ m \notin Snap!WorkspaceMonths' BY <1>1 DEF CleanMonth
<1>3. \A f \in FactFiles : About(fact[f], m) => fact[f].ws \notin Snap!Dirty("registry")'
  BY <1>2, WorkspaceMonthsThen
<1>4. m \notin Snap!WorkspaceMonths BY <1>1, <1>3, WorkspaceMonthsAre
<1> QED BY <1>2, <1>3, <1>4 DEF CleanMonth

(* Whose library changes owner or comes or goes, marks all its months. *)
LEMMA WorkspaceMarks ==
  ASSUME SnapshotAssumption, SnapshotTypes, NEW v \in Spaces, Snap!EditWorkspace(v)
  PROVE  Marked
<1>1. /\ scopes' = scopes \cup {<<"registry", v>>}
      /\ UNCHANGED <<fact, identity, org, parts, acked>>
  BY DEF Snap!EditWorkspace
<1>2. known' \subseteq Spaces /\ owner' \in [Spaces -> Snap!Departments]
      /\ \A w \in Spaces \ {v} : (w \in known' <=> w \in known) /\ owner'[w] = owner[w]
  BY DEF Snap!EditWorkspace, SnapshotTypes, Snap!Departments
<1>3. SnapshotTypes' BY <1>1, <1>2 DEF SnapshotTypes, SnapshotKeys
<1>4. \A kind : Snap!Dirty(kind) \subseteq Snap!Dirty(kind)' BY <1>1, <1>3, DirtyGrows
<1>5. v \in Snap!Dirty("registry")' BY <1>1, <1>3, DirtyAreThen
<1>6. ASSUME NEW w \in Spaces, CleanSpace(w)' PROVE CleanSpace(w) /\ SameSpace(w)
  <2>1. CleanSpace(w) /\ w # v BY <1>4, <1>5, <1>6 DEF CleanSpace
  <2>2. Snap!In(w)' = Snap!In(w) BY <1>1 DEF Snap!In, Snap!Present
  <2> QED BY <1>1, <1>2, <2>1, <2>2 DEF SameSpace
<1>7. ASSUME NEW m \in FactMonths, CleanMonth(m)' PROVE CleanMonth(m) /\ SameMonth(m)
  <2>1. CleanMonth(m) /\ \A f \in FactFiles : About(fact[f], m) => fact[f].ws # v
    BY <1>1, <1>3, <1>5, <1>7, FactsStay
  <2>2. \A f \in FactFiles : About(fact[f], m) => fact[f].ws \in Spaces
    BY DEF SnapshotTypes, SnapshotAssumption, Snap!Fact, About
  <2> QED BY <1>1, <1>2, <2>1, <2>2 DEF SameMonth
<1>8. \E s \in scopes' : s[1] # "rd-month"
  <2> DEFINE s == <<"registry", v>>
  <2>1. s \in scopes' /\ s[1] # "rd-month" BY <1>1
  <2> HIDE DEF s
  <2> QED BY <2>1
<1>9. \A m : CleanRd(m)' => m \notin Snap!Dirty("rd-month") BY <1>4 DEF CleanRd
<1> QED BY <1>1, <1>3, <1>6, <1>7, <1>8, <1>9 DEF Marked, CleanRd

(* A new directory or organisation of a month marks the month. *)
LEMMA MonthMarks ==
  ASSUME SnapshotAssumption, SnapshotTypes, NEW n \in FactMonths, Snap!NewDirectory(n) \/ Snap!NewOrganisation(n)
  PROVE  Marked
<1>1. /\ UNCHANGED <<fact, owner, known, parts, acked>>
      /\ scopes \subseteq scopes' /\ scopes' \subseteq scopes \cup {<<"month", n>>, <<"rd-month", n>>}
      /\ <<"rd-month", n>> \in scopes'
      /\ <<"month", n>> \in scopes' \/ identity' = identity
  BY DEF Snap!NewDirectory, Snap!NewOrganisation
<1>2. /\ DOMAIN identity' = FactMonths /\ org' \in [FactMonths -> SUBSET Snap!Departments]
      /\ \A m \in FactMonths \ {n} : identity'[m] = identity[m] /\ org'[m] = org[m]
  BY DEF Snap!NewDirectory, Snap!NewOrganisation, SnapshotTypes
<1>3. SnapshotTypes' BY <1>1, <1>2 DEF SnapshotTypes, SnapshotKeys
<1>4. ASSUME NEW w \in Spaces, CleanSpace(w)' PROVE CleanSpace(w) /\ SameSpace(w)
  <2>1. CleanSpace(w) BY <1>1, <1>3, <1>4, DirtyGrows DEF CleanSpace
  <2>2. Snap!In(w)' = Snap!In(w) BY <1>1 DEF Snap!In, Snap!Present
  <2> QED BY <1>1, <2>1, <2>2 DEF SameSpace
<1>5. ASSUME NEW m \in FactMonths, CleanMonth(m)' PROVE CleanMonth(m) /\ SameMonth(m) /\ identity'[m] = identity[m]
  <2>1. CleanMonth(m) BY <1>1, <1>3, <1>5, FactsStay
  <2>2. SameMonth(m) BY <1>1 DEF SameMonth
  <2>3. m = n => <<"month", n>> \notin scopes' BY <1>3, <1>5, DirtyAreThen DEF CleanMonth
  <2>4. identity'[m] = identity[m] BY <1>1, <1>2, <2>3
  <2> QED BY <2>1, <2>2, <2>4
<1>6. ASSUME NEW m \in FactMonths, CleanRd(m)' PROVE CleanRd(m) /\ SameMonth(m) /\ org'[m] = org[m]
  <2>1. m \notin Snap!Dirty("rd-month")' /\ CleanMonth(m)' BY <1>6 DEF CleanRd
  <2>2. m # n BY <1>1, <1>3, <2>1, DirtyAreThen
  <2>3. CleanRd(m) BY <1>1, <1>3, <1>5, <2>1, DirtyGrows DEF CleanRd
  <2> QED BY <1>2, <1>5, <2>1, <2>2, <2>3
<1>7. (\A s \in scopes' : s[1] = "rd-month") => \A s \in scopes : s[1] = "rd-month" BY <1>1
<1> QED BY <1>1, <1>3, <1>4, <1>5, <1>6, <1>7 DEF Marked

LEMMA StayMarks ==
  ASSUME SnapshotTypes, UNCHANGED <<fact, owner, known, identity, org, scopes, parts>>
  PROVE  Marked
<1>1. SnapshotTypes' BY DEF SnapshotTypes, SnapshotKeys
<1>2. \A kind : Snap!Dirty(kind)' = Snap!Dirty(kind) BY DEF Snap!Dirty
<1>3. ASSUME NEW w \in Spaces, CleanSpace(w)' PROVE CleanSpace(w) /\ SameSpace(w)
  <2>1. Snap!In(w)' = Snap!In(w) BY DEF Snap!In, Snap!Present
  <2> QED BY <1>2, <1>3, <2>1 DEF SameSpace, CleanSpace
<1>4. ASSUME NEW m \in FactMonths, CleanMonth(m)' PROVE CleanMonth(m) /\ SameMonth(m)
  <2>1. CleanMonth(m) BY <1>1, <1>4, FactsStay
  <2> QED BY <2>1 DEF SameMonth
<1> QED BY <1>1, <1>2, <1>3, <1>4 DEF Marked, CleanRd

LEMMA SnapshotInit == ASSUME SnapshotAssumption, Snap!Init PROVE SnapshotInv
<1>1. Snap!Full BY DEF Snap!Init, Snap!Full
<1>2. fact \in [FactFiles -> Facts \cup {None}] /\ known \subseteq Spaces /\ scopes = {}
  BY DEF Snap!Init
<1>3. owner \in [Spaces -> Snap!Departments] /\ DOMAIN identity = FactMonths
        /\ org \in [FactMonths -> SUBSET Snap!Departments]
  BY DEF Snap!Init, Snap!Departments
<1> QED BY <1>1, <1>2, <1>3 DEF SnapshotInv, SnapshotTypes

(* Each step marks what it changes, and publication clears the marks. *)
LEMMA SnapshotNext == ASSUME SnapshotAssumption, SnapshotInv, [Snap!Next]_Snap!vars PROVE SnapshotInv'
<1>1. SnapshotTypes BY DEF SnapshotInv
<1>2. ASSUME NEW f \in FactFiles, Snap!Collect(f) PROVE SnapshotInv'
  BY <1>1, <1>2, CollectMarks, MarkedKeeps
<1>3. ASSUME NEW w \in Spaces, Snap!EditWorkspace(w) PROVE SnapshotInv'
  BY <1>1, <1>3, WorkspaceMarks, MarkedKeeps
<1>4. ASSUME NEW m \in FactMonths, Snap!NewDirectory(m) \/ Snap!NewOrganisation(m) PROVE SnapshotInv'
  BY <1>1, <1>4, MonthMarks, MarkedKeeps
<1>5. CASE Snap!PublishPartitions BY <1>5, PublishKeeps
<1>6. CASE Snap!Push \/ UNCHANGED Snap!vars
  <2>1. UNCHANGED <<fact, owner, known, identity, org, scopes, parts>>
    BY <1>6 DEF Snap!Push, Snap!vars
  <2> QED BY <1>1, <2>1, StayMarks, MarkedKeeps
<1> QED BY <1>2, <1>3, <1>4, <1>5, <1>6 DEF Snap!Next

(* With nothing dirty, the partitions are those of one full rebuild. *)
LEMMA CleanIsWhole ==
  ASSUME SnapshotInv, scopes = {}, ~Snap!Full
  PROVE  IsWhole(parts)
<1>1. PartsInv /\ known \subseteq Spaces BY DEF SnapshotInv, SnapshotTypes
<1>2. \A kind : Snap!Dirty(kind) = {} BY DEF Snap!Dirty
<1>3. Snap!WorkspaceMonths = {} BY <1>2 DEF Snap!WorkspaceMonths, Snap!Uploaded, Snap!Reviewed
<1>4. \A w, m : CleanSpace(w) /\ CleanMonth(m) /\ CleanRd(m)
  BY <1>2, <1>3 DEF CleanSpace, CleanMonth, CleanRd
<1>5. DOMAIN parts = WholeKeys BY <1>1 DEF PartsInv
<1>6. parts = [k \in WholeKeys |-> parts[k]] /\ parts[<<"summary", 0>>] = SummaryPart
  BY <1>1, <1>5 DEF PartsInv
<1>7. \A w \in known : parts[<<"workspace", w>>] = Snap!WorkspaceRow(w) BY <1>1, <1>4 DEF PartsInv
<1>8. ASSUME NEW m \in Snap!AvailableMonths PROVE parts[<<"month", m>>] = MonthPart(m)
  <2>1. <<"month", m>> \in DOMAIN parts /\ m \in FactMonths BY <1>5, AvailableAre DEF WholeKeys
  <2> QED BY <1>1, <1>4, <2>1 DEF PartsInv
<1>9. ASSUME NEW m \in FactMonths, ~Snap!Missing(m) PROVE parts[<<"rd-month", m>>] = Snap!RdRow(m)
  <2>1. <<"rd-month", m>> \in DOMAIN parts BY <1>5, <1>9 DEF WholeKeys
  <2> QED BY <1>1, <1>4, <2>1 DEF PartsInv
<1> QED BY <1>6, <1>7, <1>8, <1>9 DEF IsWhole

-----------------------------------------------------------------------------
(* Sums of counters. *)

LEMMA FilesAreFinite ==
  ASSUME SnapshotAssumption
  PROVE  \A A \in SUBSET FactFiles : IsFiniteSet(A) /\ Cardinality(A) \in Nat
BY FS_Subset, FS_CardinalityType DEF SnapshotAssumption

LEMMA FactsAre ==
  ASSUME SnapshotAssumption, SnapshotTypes, NEW f \in FactFiles, fact[f] # None
  PROVE  /\ fact[f].ws \in Spaces
         /\ fact[f].day # None => fact[f].day[1] \in FactMonths
         /\ fact[f].review # None => fact[f].review.month \in FactMonths /\ fact[f].review.score \in {None, 0, 1}
<1>1. fact[f] \in Snap!Fact BY DEF SnapshotAssumption, SnapshotTypes
<1> DEFINE v == fact[f]
<1>2. /\ v.ws \in Spaces /\ v.day \in (FactMonths \X Nat) \cup {None}
      /\ v.review \in {None} \cup [month: FactMonths, verdict: {"passCount", "returnCount", "none"}, score: {None, 0, 1}]
  BY <1>1 DEF Snap!Fact
<1> HIDE DEF v
<1>3. (v.day # None => v.day[1] \in FactMonths)
      /\ (v.review # None => v.review.month \in FactMonths /\ v.review.score \in {None, 0, 1})
  BY <1>2
<1> QED BY <1>2, <1>3 DEF v

(* The reviews of all groups have the quality of the whole. *)
LEMMA QualityGroups ==
  ASSUME NEW A, IsFiniteSet(A), \A f \in A : fact[f].review.score \in {None, 0, 1},
         NEW K, IsFiniteSet(K), NEW h, \A f \in A : h[f] \in K
  PROVE  Snap!QualitySum([k \in K |-> Snap!Quality({f \in A : h[f] = k})]) = Snap!Quality(A)
<1> DEFINE Grp(k) == {f \in A : h[f] = k}
           q == [k \in K |-> Snap!Quality(Grp(k))]
           Scored(Sub) == {f \in Sub : fact[f].review.score # None}
           Judged(Sub, v) == {f \in Sub : fact[f].review.verdict = v}
           Score(Sub) == SumFunction([f \in Scored(Sub) |-> fact[f].review.score])
<1>1. ASSUME NEW Sub
      PROVE  Snap!Quality(Sub) = [reviewed |-> Cardinality(Sub), scored |-> Cardinality(Scored(Sub)),
                           passed |-> Cardinality(Judged(Sub, "passCount")),
                           returned |-> Cardinality(Judged(Sub, "returnCount")), score |-> Score(Sub)]
  BY SnapCounts DEF Snap!Quality
<1> HIDE DEF Score
<1>2. ASSUME NEW Sub \in SUBSET A
      PROVE  Cardinality(Sub) = SumFunction([k \in K |-> Cardinality({f \in Sub : h[f] = k})])
  <2>1. IsFiniteSet(Sub) /\ \A f \in Sub : h[f] \in K BY FS_Subset
  <2>2. Cardinality(Sub) = SumFunctionOnSet([k \in K |-> Cardinality({f \in Sub : h[f] = k})], K)
    BY <2>1, CountGroups
  <2> QED BY <2>2 DEF SumFunction
<1>3. \A k \in K : q[k] = Snap!Quality(Grp(k)) OBVIOUS
<1>4. DOMAIN q = K OBVIOUS
<1>5. SumFunction([k \in K |-> q[k].reviewed]) = Cardinality(A)
  <2>1. [k \in K |-> q[k].reviewed] = [k \in K |-> Cardinality({f \in A : h[f] = k})] BY <1>1, <1>3
  <2> QED BY <1>2, <2>1
<1>6. SumFunction([k \in K |-> q[k].scored]) = Cardinality(Scored(A))
  <2> DEFINE Sub == Scored(A)
  <2>1. \A k \in K : Scored(Grp(k)) = {f \in Sub : h[f] = k} OBVIOUS
  <2>2. [k \in K |-> q[k].scored] = [k \in K |-> Cardinality({f \in Sub : h[f] = k})]
    BY <1>1, <1>3, <2>1
  <2>3. Sub \in SUBSET A OBVIOUS
  <2> HIDE DEF Sub
  <2> QED BY <1>2, <2>2, <2>3 DEF Sub
<1>7. ASSUME NEW v
      PROVE  SumFunction([k \in K |-> Cardinality(Judged(Grp(k), v))]) = Cardinality(Judged(A, v))
  <2> DEFINE Sub == Judged(A, v)
  <2>1. \A k \in K : Judged(Grp(k), v) = {f \in Sub : h[f] = k} OBVIOUS
  <2>2. [k \in K |-> Cardinality(Judged(Grp(k), v))] = [k \in K |-> Cardinality({f \in Sub : h[f] = k})]
    BY <2>1
  <2>3. Sub \in SUBSET A OBVIOUS
  <2> HIDE DEF Sub
  <2> QED BY <1>2, <2>2, <2>3 DEF Sub
<1>8. /\ [k \in K |-> q[k].passed] = [k \in K |-> Cardinality(Judged(Grp(k), "passCount"))]
      /\ [k \in K |-> q[k].returned] = [k \in K |-> Cardinality(Judged(Grp(k), "returnCount"))]
      /\ [k \in K |-> q[k].score] = [k \in K |-> Score(Grp(k))]
  BY <1>1, <1>3
<1>9. SumFunction([k \in K |-> Score(Grp(k))]) = Score(A)
  <2> DEFINE s == [f \in A |-> fact[f].review.score]
             Sub == Scored(A)
  <2>1. ASSUME NEW Cls \in SUBSET A PROVE Score(Cls) = SumFunctionOnSet(s, Scored(Cls))
    <3> DEFINE D == Scored(Cls)
               t == [f \in D |-> fact[f].review.score]
    <3>1. IsFiniteSet(D) /\ \A f \in D : t[f] = s[f] BY FS_Subset
    <3>2. SumFunction(t) = SumFunctionOnSet(t, D) BY DEF SumFunction
    <3>3. Score(Cls) = SumFunction(t) BY DEF Score
    <3> HIDE DEF D, t, s
    <3>4. SumFunctionOnSet(t, D) = SumFunctionOnSet(s, D) BY <3>1, SumEqual
    <3> QED BY <3>2, <3>3, <3>4 DEF D
  <2>2. IsFiniteSet(Sub) /\ \A f \in Sub : s[f] \in Nat /\ h[f] \in K BY FS_Subset
  <2>3. \A k \in K : Grp(k) \in SUBSET A /\ Scored(Grp(k)) = {f \in Sub : h[f] = k} OBVIOUS
  <2>4. [k \in K |-> Score(Grp(k))] = [k \in K |-> SumFunctionOnSet(s, {f \in Sub : h[f] = k})]
    BY <2>1, <2>3
  <2>5. Score(A) = SumFunctionOnSet(s, Sub) BY <2>1
  <2> HIDE DEF s, Sub, Grp
  <2>6. SumFunctionOnSet(s, Sub) = SumFunctionOnSet([k \in K |-> SumFunctionOnSet(s, {f \in Sub : h[f] = k})], K)
    BY <2>2, SumGroups
  <2>7. SumFunction([k \in K |-> SumFunctionOnSet(s, {f \in Sub : h[f] = k})])
        = SumFunctionOnSet([k \in K |-> SumFunctionOnSet(s, {f \in Sub : h[f] = k})], K)
    BY DEF SumFunction
  <2> QED BY <2>4, <2>5, <2>6, <2>7
<1>10. Snap!QualitySum(q) = [reviewed |-> Cardinality(A), scored |-> Cardinality(Scored(A)),
                        passed |-> Cardinality(Judged(A, "passCount")),
                        returned |-> Cardinality(Judged(A, "returnCount")), score |-> Score(A)]
  <2>1. /\ SumFunction([k \in K |-> q[k].passed]) = Cardinality(Judged(A, "passCount"))
        /\ SumFunction([k \in K |-> q[k].returned]) = Cardinality(Judged(A, "returnCount"))
        /\ SumFunction([k \in K |-> q[k].score]) = Score(A)
    BY <1>7, <1>8, <1>9
  <2> HIDE DEF q, Scored, Judged
  <2> QED BY SnapCounts, <1>4, <1>5, <1>6, <2>1 DEF Snap!QualitySum
<1>11. Snap!QualitySum(q) = Snap!Quality(A) BY <1>1, <1>10
<1> QED BY <1>11

LEMMA QualityIsValid ==
  ASSUME NEW A, IsFiniteSet(A), \A f \in A : fact[f].review.score \in {None, 0, 1}
  PROVE  Snap!ValidQuality(Snap!Quality(A))
<1> DEFINE scored == {f \in A : fact[f].review.score # None}
           passed == {f \in A : fact[f].review.verdict = "passCount"}
           returned == {f \in A : fact[f].review.verdict = "returnCount"}
           t == [f \in scored |-> fact[f].review.score]
           q == Snap!Quality(A)
<1>1. /\ q.reviewed = Cardinality(A) /\ q.scored = Cardinality(scored) /\ q.passed = Cardinality(passed)
      /\ q.returned = Cardinality(returned) /\ q.score = SumFunction(t)
  BY SnapCounts DEF Snap!Quality
<1>2. IsFiniteSet(scored) /\ IsFiniteSet(passed) /\ IsFiniteSet(returned) /\ Cardinality(scored) <= Cardinality(A)
  BY FS_Subset
<1>3. Cardinality(passed) + Cardinality(returned) <= Cardinality(A)
  <2>1. passed \cap returned = {} OBVIOUS
  <2>2. passed \cup returned \subseteq A OBVIOUS
  <2> HIDE DEF passed, returned
  <2>3. Cardinality(passed \cup returned)
          = Cardinality(passed) + Cardinality(returned) - Cardinality(passed \cap returned)
    BY <1>2, FS_Union
  <2>4. Cardinality(passed \cup returned) <= Cardinality(A) BY <2>2, FS_Subset
  <2>5. Cardinality(passed) \in Nat /\ Cardinality(returned) \in Nat /\ Cardinality(passed \cap returned) = 0
    BY <1>2, <2>1, FS_CardinalityType, FS_EmptySet
  <2> QED BY <2>3, <2>4, <2>5
<1>4. SumFunction(t) \in 0..Cardinality(scored)
  <2>1. SumFunction(t) = SumFunctionOnSet(t, scored) BY DEF SumFunction
  <2>2. \A f \in scored : t[f] \in {0, 1} OBVIOUS
  <2> HIDE DEF t, scored
  <2> QED BY <1>2, <2>1, <2>2, SumAtMost
<1> HIDE DEF q, t, scored, passed, returned
<1> QED BY <1>1, <1>2, <1>3, <1>4 DEF Snap!ValidQuality, q

(* The files of some libraries, library by library. *)
LEMMA SpacesAdd ==
  ASSUME SnapshotAssumption, SnapshotTypes
  PROVE  /\ SumFunction([w \in known |-> Cardinality(Snap!In(w))]) = Cardinality(UNION {Snap!In(w) : w \in known})
         /\ \A m : SumFunction([w \in known |-> Cardinality(Snap!Uploaded({w}, m))])
              = Cardinality(Snap!Uploaded(known, m))
<1> DEFINE h == [f \in FactFiles |-> fact[f].ws]
<1>1. IsFiniteSet(known) BY FS_Subset DEF SnapshotAssumption, SnapshotTypes
<1>2. ASSUME NEW A \in SUBSET Snap!Present, \A f \in A : fact[f].ws \in known
      PROVE  Cardinality(A) = SumFunction([w \in known |-> Cardinality({f \in A : fact[f].ws = w})])
  <2>1. IsFiniteSet(A) /\ \A f \in A : h[f] = fact[f].ws /\ h[f] \in known
    BY <1>2, FilesAreFinite DEF Snap!Present
  <2> HIDE DEF h
  <2>2. Cardinality(A) = SumFunctionOnSet([w \in known |-> Cardinality({f \in A : h[f] = w})], known)
    BY <1>1, <2>1, CountGroups
  <2>3. \A w : {f \in A : h[f] = w} = {f \in A : fact[f].ws = w} BY <2>1
  <2>4. [w \in known |-> Cardinality({f \in A : h[f] = w})]
          = [w \in known |-> Cardinality({f \in A : fact[f].ws = w})]
    BY <2>3
  <2> QED BY <2>2, <2>4 DEF SumFunction
<1>3. SumFunction([w \in known |-> Cardinality(Snap!In(w))]) = Cardinality(UNION {Snap!In(w) : w \in known})
  <2> DEFINE A == UNION {Snap!In(w) : w \in known}
  <2>1. A \in SUBSET Snap!Present /\ \A f \in A : fact[f].ws \in known BY DEF Snap!In
  <2>2. \A w \in known : {f \in A : fact[f].ws = w} = Snap!In(w) BY DEF Snap!In
  <2>3. [w \in known |-> Cardinality({f \in A : fact[f].ws = w})] = [w \in known |-> Cardinality(Snap!In(w))]
    BY <2>2
  <2> HIDE DEF A
  <2> QED BY <1>2, <2>1, <2>3 DEF A
<1>4. ASSUME NEW m PROVE SumFunction([w \in known |-> Cardinality(Snap!Uploaded({w}, m))])
                   = Cardinality(Snap!Uploaded(known, m))
  <2> DEFINE A == Snap!Uploaded(known, m)
  <2>1. A \in SUBSET Snap!Present /\ \A f \in A : fact[f].ws \in known BY DEF Snap!Uploaded
  <2>2. \A w \in known : {f \in A : fact[f].ws = w} = Snap!Uploaded({w}, m) BY DEF Snap!Uploaded
  <2>3. [w \in known |-> Cardinality({f \in A : fact[f].ws = w})]
          = [w \in known |-> Cardinality(Snap!Uploaded({w}, m))]
    BY <2>2
  <2> HIDE DEF A
  <2> QED BY <1>2, <2>1, <2>3 DEF A
<1> QED BY <1>3, <1>4

LEMMA ReviewsAre ==
  ASSUME SnapshotAssumption, SnapshotTypes
  PROVE  /\ \A in, m : Snap!Reviewed(in, m) \subseteq FactFiles
         /\ \A in, m : \A f \in Snap!Reviewed(in, m) : fact[f].review.score \in {None, 0, 1}
         /\ \A A \in SUBSET Snap!Present : Snap!OfReviews(A) \subseteq FactFiles
              /\ \A f \in Snap!OfReviews(A) : fact[f].review.score \in {None, 0, 1} /\ fact[f].review.month \in FactMonths
<1>1. \A f \in FactFiles : fact[f] # None /\ fact[f].review # None =>
        fact[f].review.month \in FactMonths /\ fact[f].review.score \in {None, 0, 1}
  BY FactsAre
<1> QED BY <1>1 DEF Snap!Reviewed, Snap!OfReviews, Snap!Present

(* A library's quality, month by month; and that of all, one by one. *)
LEMMA QualityOfSpace ==
  ASSUME SnapshotAssumption, SnapshotTypes, NEW w
  PROVE  Snap!QualitySum([m \in FactMonths |-> Snap!Quality(Snap!Reviewed({w}, m))])
           = Snap!Quality(Snap!OfReviews(Snap!In(w)))
<1> DEFINE A == Snap!OfReviews(Snap!In(w))
           h == [f \in FactFiles |-> fact[f].review.month]
<1>1. Snap!In(w) \in SUBSET Snap!Present BY DEF Snap!In
<1>2. A \subseteq FactFiles /\ \A f \in A : fact[f].review.score \in {None, 0, 1} /\ fact[f].review.month \in FactMonths
  BY <1>1, ReviewsAre
<1>3. IsFiniteSet(A) /\ \A f \in A : h[f] \in FactMonths BY <1>2, FilesAreFinite
<1>4. IsFiniteSet(FactMonths) BY DEF SnapshotAssumption
<1>5. ASSUME NEW m PROVE {f \in A : h[f] = m} = Snap!Reviewed({w}, m)
  BY <1>2 DEF Snap!OfReviews, Snap!In, Snap!Reviewed
<1>6. [m \in FactMonths |-> Snap!Quality({f \in A : h[f] = m})] = [m \in FactMonths |-> Snap!Quality(Snap!Reviewed({w}, m))]
  BY <1>5
<1> HIDE DEF A, h
<1>7. Snap!QualitySum([m \in FactMonths |-> Snap!Quality({f \in A : h[f] = m})]) = Snap!Quality(A)
  BY <1>2, <1>3, <1>4, QualityGroups
<1> QED BY <1>6, <1>7 DEF A

LEMMA QualityOfSpaces ==
  ASSUME SnapshotAssumption, SnapshotTypes
  PROVE  Snap!QualitySum([w \in known |-> Snap!Quality(Snap!OfReviews(Snap!In(w)))])
           = Snap!Quality(Snap!OfReviews(UNION {Snap!In(w) : w \in known}))
<1> DEFINE P == UNION {Snap!In(w) : w \in known}
           A == Snap!OfReviews(P)
           h == [f \in FactFiles |-> fact[f].ws]
<1>1. P \in SUBSET Snap!Present /\ \A f \in P : fact[f].ws \in known BY DEF Snap!In
<1>2. A \subseteq FactFiles /\ \A f \in A : fact[f].review.score \in {None, 0, 1}
  BY <1>1, ReviewsAre
<1>3. IsFiniteSet(A) /\ \A f \in A : h[f] \in known BY <1>1, <1>2, FilesAreFinite DEF Snap!OfReviews
<1>4. IsFiniteSet(known) BY FS_Subset DEF SnapshotAssumption, SnapshotTypes
<1>5. ASSUME NEW w \in known PROVE {f \in A : h[f] = w} = Snap!OfReviews(Snap!In(w))
  BY <1>2 DEF Snap!OfReviews, Snap!In, Snap!Present
<1>6. [w \in known |-> Snap!Quality({f \in A : h[f] = w})]
        = [w \in known |-> Snap!Quality(Snap!OfReviews(Snap!In(w)))]
  BY <1>5
<1> HIDE DEF A, h
<1>7. Snap!QualitySum([w \in known |-> Snap!Quality({f \in A : h[f] = w})]) = Snap!Quality(A)
  BY <1>2, <1>3, <1>4, QualityGroups
<1> QED BY <1>6, <1>7 DEF A

(* As many months as are kept. *)
LEMMA AvailableBound ==
  ASSUME SnapshotAssumption
  PROVE  IsFiniteSet(Snap!AvailableMonths) /\ Cardinality(Snap!AvailableMonths) <= Retained
<1> DEFINE seen == {m \in FactMonths : Snap!Uploaded(known, m) \cup Snap!Reviewed(known, m) # {}}
           later(m) == {n \in seen : n > m}
           A == Snap!AvailableMonths
<1>1. A = {m \in seen : Cardinality(later(m)) < Retained} BY SnapCounts DEF Snap!AvailableMonths
<1>2. IsFiniteSet(seen) /\ seen \subseteq Nat /\ A \subseteq seen /\ IsFiniteSet(A) /\ Retained \in Nat
  BY <1>1, FS_Subset DEF SnapshotAssumption
<1>3. CASE A = {} BY <1>2, <1>3, FS_EmptySet
<1>4. CASE A # {}
  <2>1. PICK m \in A : \A n \in A : m <= n
    BY <1>2, <1>4, LeastNat
  <2>2. A \ {m} \subseteq later(m) BY <1>2, <2>1
  <2>3. Cardinality(later(m)) < Retained BY <1>1
  <2>4. IsFiniteSet(later(m)) BY <1>2, FS_Subset
  <2> HIDE DEF later, A
  <2>5. Cardinality(A \ {m}) <= Cardinality(later(m)) BY <2>2, <2>4, FS_Subset
  <2>6. Cardinality(A \ {m}) = Cardinality(A) - 1 /\ Cardinality(A) \in Nat /\ Cardinality(later(m)) \in Nat
    BY <1>2, <2>1, <2>4, FS_RemoveElement, FS_CardinalityType
  <2>7. Cardinality(A) <= Retained BY <1>2, <2>3, <2>5, <2>6
  <2> QED BY <1>2, <2>7 DEF A
<1> QED BY <1>2, <1>3, <1>4

(* The rows of a month agree with each other. *)
LEMMA MonthAdds ==
  ASSUME SnapshotAssumption, SnapshotTypes, NEW m
  PROVE  /\ Snap!ValidQuality(Snap!MonthlyRow(known, m).quality)
         /\ Snap!MonthlyRow(known, m).routine + Snap!MonthlyRow(known, m).bulk = Snap!MonthlyRow(known, m).uploaded
         /\ SumFunction(Snap!Diagnostics(known, m)) = Snap!MonthlyRow(known, m).uploaded
         /\ SumFunction([k \in DOMAIN Snap!Employees(known, m) |-> Snap!Employees(known, m)[k].uploaded])
              = Snap!Diagnostics(known, m)["official"]
         /\ \A k \in DOMAIN Snap!Employees(known, m) : Snap!ValidQuality(Snap!Employees(known, m)[k].quality)
<1> DEFINE U == Snap!Uploaded(known, m)
           Rev == Snap!Reviewed(known, m)
           Sub == {f \in U : Snap!Bulk(known, m, f)}
           F == {f \in U : Snap!Bucket(m, f) = "official"}
           Grp == {f \in Rev : Snap!Bucket(m, f) = "official"}
           K == {Snap!EmployeeOf(m, f) : f \in F \cup Grp}
<1>1. U \subseteq FactFiles /\ Rev \subseteq FactFiles /\ \A f \in Rev : fact[f].review.score \in {None, 0, 1}
  BY ReviewsAre DEF Snap!Uploaded, Snap!Present
<1>2. \A A \in SUBSET FactFiles : IsFiniteSet(A) /\ Cardinality(A) \in Nat BY FilesAreFinite
<1>3. Snap!MonthlyRow(known, m) = [uploaded |-> Cardinality(U), bulk |-> Cardinality(Sub),
        routine |-> Cardinality(U \ Sub),
                              quality |-> Snap!Quality(Rev)]
  BY SnapCounts DEF Snap!MonthlyRow
<1>4. Snap!Diagnostics(known, m) = [b \in Snap!Buckets |-> Cardinality({f \in U : Snap!Bucket(m, f) = b})]
  BY SnapCounts DEF Snap!Diagnostics
<1>5. Snap!Employees(known, m) =
        [k \in K |-> [uploaded |-> Cardinality({f \in F : Snap!EmployeeOf(m, f) = k}),
                      spaces |-> Cardinality({fact[f].ws : f \in {f \in F : Snap!EmployeeOf(m, f) = k}}),
                      quality |-> Snap!Quality({f \in Grp : Snap!EmployeeOf(m, f) = k})]]
  BY SnapCounts DEF Snap!Employees
<1>6. Sub \subseteq U /\ F \subseteq U /\ Grp \subseteq Rev OBVIOUS
<1>7. \A f : Snap!Bucket(m, f) \in Snap!Buckets BY DEF Snap!Bucket, Snap!Buckets
<1>8. F = {f \in U : Snap!Bucket(m, f) = "official"} /\ K = {Snap!EmployeeOf(m, f) : f \in F \cup Grp}
  OBVIOUS
<1> HIDE DEF U, Rev, Sub, F, Grp, K
<1>9. Snap!ValidQuality(Snap!MonthlyRow(known, m).quality) BY <1>1, <1>2, <1>3, QualityIsValid
<1>10. Cardinality(U \ Sub) + Cardinality(Sub) = Cardinality(U)
  <2>1. IsFiniteSet(U) /\ IsFiniteSet(Sub) /\ U \cap Sub = Sub BY <1>1, <1>2, <1>6
  <2>2. Cardinality(U \ Sub) = Cardinality(U) - Cardinality(Sub) BY <2>1, FS_Difference
  <2>3. Cardinality(U) \in Nat /\ Cardinality(Sub) \in Nat BY <2>1, FS_CardinalityType
  <2> QED BY <2>1, <2>2, <2>3
<1>11. SumFunction(Snap!Diagnostics(known, m)) = Cardinality(U)
  <2> DEFINE h == [f \in U |-> Snap!Bucket(m, f)]
             d == [b \in Snap!Buckets |-> Cardinality({f \in U : h[f] = b})]
  <2>1. IsFiniteSet(U) /\ \A f \in U : h[f] = Snap!Bucket(m, f) /\ h[f] \in Snap!Buckets
    BY <1>1, <1>2, <1>7
  <2>2. IsFiniteSet(Snap!Buckets)
    <3>1. Snap!Buckets = {"official"} \cup ({"robot"} \cup ({"unknownIdentity"} \cup ({"unmatched"} \cup {"policy"})))
      BY DEF Snap!Buckets
    <3> QED BY <3>1, FS_Singleton, FS_Union
  <2> HIDE DEF h
  <2>3. \A b : {f \in U : h[f] = b} = {f \in U : Snap!Bucket(m, f) = b} BY <2>1
  <2>4. d = Snap!Diagnostics(known, m) BY <1>4, <2>3
  <2>5. Cardinality(U) = SumFunctionOnSet(d, Snap!Buckets) BY <2>1, <2>2, CountGroups
  <2>6. DOMAIN d = Snap!Buckets OBVIOUS
  <2> HIDE DEF d
  <2> QED BY <2>4, <2>5, <2>6 DEF SumFunction
<1>12. SumFunction([k \in DOMAIN Snap!Employees(known, m) |-> Snap!Employees(known, m)[k].uploaded]) = Cardinality(F)
  <2> DEFINE h == [f \in F |-> Snap!EmployeeOf(m, f)]
             d == [k \in K |-> Cardinality({f \in F : h[f] = k})]
  <2>1. IsFiniteSet(F) /\ \A f \in F : h[f] = Snap!EmployeeOf(m, f) /\ h[f] \in K
    BY <1>1, <1>2, <1>6, <1>8
  <2>2. IsFiniteSet(K)
    <3>1. IsFiniteSet(F \cup Grp) BY <1>1, <1>2, <1>6
    <3> DEFINE e == [f \in F \cup Grp |-> Snap!EmployeeOf(m, f)]
    <3>2. K = {e[f] : f \in F \cup Grp} BY <1>8
    <3> HIDE DEF e
    <3> QED BY <3>1, <3>2, ImageIsFinite
  <2> HIDE DEF h
  <2>3. \A k : {f \in F : h[f] = k} = {f \in F : Snap!EmployeeOf(m, f) = k} BY <2>1
  <2>4. d = [k \in DOMAIN Snap!Employees(known, m) |-> Snap!Employees(known, m)[k].uploaded]
    BY <1>5, <2>3
  <2>5. Cardinality(F) = SumFunctionOnSet(d, K) BY <2>1, <2>2, CountGroups
  <2>6. DOMAIN d = K OBVIOUS
  <2> HIDE DEF d
  <2> QED BY <2>4, <2>5, <2>6 DEF SumFunction
<1>13. Snap!Diagnostics(known, m)["official"] = Cardinality(F) BY <1>4, <1>8 DEF Snap!Buckets
<1>14. ASSUME NEW k \in DOMAIN Snap!Employees(known, m) PROVE Snap!ValidQuality(Snap!Employees(known, m)[k].quality)
  <2> DEFINE A == {f \in Grp : Snap!EmployeeOf(m, f) = k}
  <2>1. A \subseteq FactFiles /\ \A f \in A : fact[f].review.score \in {None, 0, 1} BY <1>1, <1>6
  <2>2. Snap!Employees(known, m)[k].quality = Snap!Quality(A) BY <1>5
  <2> HIDE DEF A
  <2> QED BY <1>2, <2>1, <2>2, QualityIsValid
<1> QED BY <1>3, <1>9, <1>10, <1>11, <1>12, <1>13, <1>14

-----------------------------------------------------------------------------
(* A snapshot put together from whole partitions. *)

LEMMA PutTogether ==
  ASSUME SnapshotAssumption, SnapshotTypes, NEW p, IsWhole(p)
  PROVE  /\ Snap!MaterializeParts(p).summary = Snap!BuildSnapshot(known, Snap!AvailableMonths).summary
         /\ Snap!MaterializeParts(p).workspaces = Snap!BuildSnapshot(known, Snap!AvailableMonths).workspaces
         /\ Snap!MaterializeParts(p).monthly = [m \in Snap!AvailableMonths |-> Snap!MonthlyRow(known, m)]
         /\ Snap!MaterializeParts(p).employees = [m \in Snap!AvailableMonths |-> Snap!Employees(known, m)]
         /\ Snap!MaterializeParts(p).diagnostics = [m \in Snap!AvailableMonths |-> Snap!Diagnostics(known, m)]
         /\ Snap!MaterializeParts(p).rd = [m \in {n \in FactMonths : ~Snap!Missing(n)} |-> Snap!RdRow(m)]
<1> DEFINE v == Snap!MaterializeParts(p)
           b == Snap!BuildSnapshot(known, Snap!AvailableMonths)
           P == UNION {Snap!In(w) : w \in known}
<1>1. DOMAIN p = WholeKeys BY DEF IsWhole
<1>2. WholeKeys \subseteq SnapshotKeys BY AvailableAre DEF WholeKeys, SnapshotKeys, SnapshotTypes
<1>3. /\ Snap!KeysOf(p, "workspace") = known /\ Snap!KeysOf(p, "month") = Snap!AvailableMonths
      /\ Snap!KeysOf(p, "rd-month") = {m \in FactMonths : ~Snap!Missing(m)}
  <2>1. \A x : (<<"workspace", x>> \in WholeKeys <=> x \in known)
          /\ (<<"month", x>> \in WholeKeys <=> x \in Snap!AvailableMonths)
               /\ (<<"rd-month", x>> \in WholeKeys <=> x \in {m \in FactMonths : ~Snap!Missing(m)})
    BY DEF WholeKeys
  <2>2. ASSUME NEW kind, NEW x PROVE <<kind, x>> \in WholeKeys <=> x \in Snap!KeysOf(p, kind)
    BY <1>1, <1>2, KeysAre
  <2> QED BY <2>1, <2>2
<1>4. ASSUME NEW w \in known
      PROVE  Snap!WorkspaceRow(w) = [files |-> Cardinality(Snap!In(w)),
               new |-> Cardinality(Snap!Uploaded({w}, Snap!Current)),
                                quality |-> Snap!Quality(Snap!OfReviews(Snap!In(w)))]
  BY SnapCounts, QualityOfSpace DEF Snap!WorkspaceRow
<1>5. v.workspaces = b.workspaces
  <2>1. v.workspaces = [w \in known |-> p[<<"workspace", w>>]] BY <1>3 DEF Snap!MaterializeParts
  <2>2. b.workspaces = [w \in known |-> [files |-> Cardinality(Snap!In(w)),
          new |-> Cardinality(Snap!Uploaded({w}, Snap!Current)),
                                         quality |-> Snap!Quality(Snap!OfReviews(Snap!In(w)))]]
    BY SnapCounts DEF Snap!BuildSnapshot
  <2>3. \A w \in known : p[<<"workspace", w>>] = Snap!WorkspaceRow(w) BY DEF IsWhole
  <2> HIDE DEF v, b
  <2> QED BY <1>4, <2>1, <2>2, <2>3
<1>6. v.summary = b.summary
  <2> DEFINE rows == [w \in known |-> Snap!WorkspaceRow(w)]
             undated == {f \in P : fact[f].day = None}
             dated == {f \in P : fact[f].day # None}
  <2>1. v.summary = Snap!Summary(rows) BY DEF Snap!MaterializeParts, IsWhole, SummaryPart
  <2>2. b.summary = [spaces |-> Cardinality(known), files |-> Cardinality(P),
                     new |-> Cardinality(Snap!Uploaded(known, Snap!Current)), undated |-> Cardinality(P \ dated),
                     quality |-> Snap!Quality(Snap!OfReviews(P)),
                       current |-> Snap!Quality(Snap!Reviewed(known, Snap!Current))]
    BY SnapCounts DEF Snap!BuildSnapshot
  <2>3. P \ dated = undated OBVIOUS
  <2>4. DOMAIN rows = known /\ \A w \in known : rows[w] = Snap!WorkspaceRow(w) OBVIOUS
  <2>5. Snap!Summary(rows) = [spaces |-> Cardinality(known), files |-> SumFunction([w \in known |-> rows[w].files]),
                         new |-> SumFunction([w \in known |-> rows[w].new]), undated |-> Cardinality(undated),
                         quality |-> Snap!QualitySum([w \in known |-> rows[w].quality]),
                         current |-> Snap!Quality(Snap!Reviewed(known, Snap!Current))]
    BY SnapCounts, <2>4 DEF Snap!Summary
  <2> HIDE DEF rows, undated, dated, P, v, b
  <2>6. /\ [w \in known |-> rows[w].files] = [w \in known |-> Cardinality(Snap!In(w))]
        /\ [w \in known |-> rows[w].new] = [w \in known |-> Cardinality(Snap!Uploaded({w}, Snap!Current))]
        /\ [w \in known |-> rows[w].quality] = [w \in known |-> Snap!Quality(Snap!OfReviews(Snap!In(w)))]
    <3>1. ASSUME NEW w \in known
          PROVE  /\ rows[w].files = Cardinality(Snap!In(w))
                      /\ rows[w].new = Cardinality(Snap!Uploaded({w}, Snap!Current))
                 /\ rows[w].quality = Snap!Quality(Snap!OfReviews(Snap!In(w)))
      <4>1. rows[w] = [files |-> Cardinality(Snap!In(w)), new |-> Cardinality(Snap!Uploaded({w}, Snap!Current)),
                       quality |-> Snap!Quality(Snap!OfReviews(Snap!In(w)))]
        BY <1>4, <2>4
      <4> QED BY <4>1
    <3> QED BY <3>1
  <2>7. /\ SumFunction([w \in known |-> rows[w].files]) = Cardinality(P)
        /\ SumFunction([w \in known |-> rows[w].new]) = Cardinality(Snap!Uploaded(known, Snap!Current))
        /\ Snap!QualitySum([w \in known |-> rows[w].quality]) = Snap!Quality(Snap!OfReviews(P))
    BY <2>6, SpacesAdd, QualityOfSpaces DEF P
  <2> QED BY <2>1, <2>2, <2>3, <2>5, <2>7
<1>7. /\ v.monthly = [m \in Snap!AvailableMonths |-> Snap!MonthlyRow(known, m)]
      /\ v.employees = [m \in Snap!AvailableMonths |-> Snap!Employees(known, m)]
      /\ v.diagnostics = [m \in Snap!AvailableMonths |-> Snap!Diagnostics(known, m)]
  <2>1. /\ v.monthly = [m \in Snap!AvailableMonths |-> p[<<"month", m>>][1]]
        /\ v.employees = [m \in Snap!AvailableMonths |-> p[<<"month", m>>][2]]
        /\ v.diagnostics = [m \in Snap!AvailableMonths |-> p[<<"month", m>>][3]]
    BY <1>3 DEF Snap!MaterializeParts
  <2>2. ASSUME NEW m \in Snap!AvailableMonths
        PROVE  /\ p[<<"month", m>>][1] = Snap!MonthlyRow(known, m) /\ p[<<"month", m>>][2] = Snap!Employees(known, m)
               /\ p[<<"month", m>>][3] = Snap!Diagnostics(known, m)
    BY DEF IsWhole, MonthPart
  <2> HIDE DEF v
  <2> QED BY <2>1, <2>2
<1>8. v.rd = [m \in {n \in FactMonths : ~Snap!Missing(n)} |-> Snap!RdRow(m)]
  <2>1. v.rd = [m \in {n \in FactMonths : ~Snap!Missing(n)} |-> p[<<"rd-month", m>>]]
    BY <1>3 DEF Snap!MaterializeParts
  <2>2. \A m \in {n \in FactMonths : ~Snap!Missing(n)} : p[<<"rd-month", m>>] = Snap!RdRow(m)
    BY DEF IsWhole
  <2> HIDE DEF v
  <2> QED BY <2>1, <2>2
<1> QED BY <1>5, <1>6, <1>7, <1>8

LEMMA PutIsBuilt ==
  ASSUME SnapshotAssumption, SnapshotTypes, NEW p, IsWhole(p)
  PROVE  [Snap!MaterializeParts(p) EXCEPT !.rd = <<>>] = Snap!BuildSnapshot(known, Snap!AvailableMonths)
<1> DEFINE v == Snap!MaterializeParts(p)
           b == Snap!BuildSnapshot(known, Snap!AvailableMonths)
<1>1. v = [summary |-> v.summary, workspaces |-> v.workspaces, monthly |-> v.monthly,
           employees |-> v.employees, diagnostics |-> v.diagnostics, rd |-> v.rd]
  BY DEF Snap!MaterializeParts
<1>2. b = [summary |-> b.summary, workspaces |-> b.workspaces, monthly |-> b.monthly,
           employees |-> b.employees, diagnostics |-> b.diagnostics, rd |-> <<>>]
  BY DEF Snap!BuildSnapshot
<1>3. /\ b.monthly = [m \in Snap!AvailableMonths |-> Snap!MonthlyRow(known, m)]
      /\ b.employees = [m \in Snap!AvailableMonths |-> Snap!Employees(known, m)]
      /\ b.diagnostics = [m \in Snap!AvailableMonths |-> Snap!Diagnostics(known, m)]
  BY DEF Snap!BuildSnapshot
<1>4. v.summary = b.summary /\ v.workspaces = b.workspaces /\ v.monthly = b.monthly
      /\ v.employees = b.employees /\ v.diagnostics = b.diagnostics
  BY <1>3, PutTogether
<1> HIDE DEF v, b
<1>5. [v EXCEPT !.rd = <<>>] = [summary |-> v.summary, workspaces |-> v.workspaces, monthly |-> v.monthly,
           employees |-> v.employees, diagnostics |-> v.diagnostics, rd |-> <<>>]
  BY <1>1
<1>6. [v EXCEPT !.rd = <<>>] = b BY <1>2, <1>4, <1>5
<1> QED BY <1>6 DEF v, b

LEMMA PutIsValid ==
  ASSUME SnapshotAssumption, SnapshotTypes, NEW p, IsWhole(p)
  PROVE  Snap!Valid(Snap!MaterializeParts(p))
<1> DEFINE v == Snap!MaterializeParts(p)
           b == Snap!BuildSnapshot(known, Snap!AvailableMonths)
           P == UNION {Snap!In(w) : w \in known}
<1>1. /\ b.summary = [spaces |-> Cardinality(known), files |-> Cardinality(P),
                      new |-> Cardinality(Snap!Uploaded(known, Snap!Current)),
                      undated |-> Cardinality(P \ {f \in P : fact[f].day # None}),
                      quality |-> Snap!Quality(Snap!OfReviews(P)),
                        current |-> Snap!Quality(Snap!Reviewed(known, Snap!Current))]
      /\ b.workspaces = [w \in known |-> [files |-> Cardinality(Snap!In(w)),
           new |-> Cardinality(Snap!Uploaded({w}, Snap!Current)),
                                          quality |-> Snap!Quality(Snap!OfReviews(Snap!In(w)))]]
  BY SnapCounts DEF Snap!BuildSnapshot
<1>2. /\ v.summary = b.summary /\ v.workspaces = b.workspaces
      /\ v.monthly = [m \in Snap!AvailableMonths |-> Snap!MonthlyRow(known, m)]
      /\ v.employees = [m \in Snap!AvailableMonths |-> Snap!Employees(known, m)]
      /\ v.diagnostics = [m \in Snap!AvailableMonths |-> Snap!Diagnostics(known, m)]
      /\ v.rd = [m \in {n \in FactMonths : ~Snap!Missing(n)} |-> Snap!RdRow(m)]
  BY PutTogether
<1>3. P \in SUBSET Snap!Present BY DEF Snap!In
<1> HIDE DEF v, b, P
<1>4. \A A \in SUBSET Snap!Present : Snap!ValidQuality(Snap!Quality(Snap!OfReviews(A)))
  BY ReviewsAre, FilesAreFinite, QualityIsValid
<1>5. \A in, m : Snap!ValidQuality(Snap!Quality(Snap!Reviewed(in, m)))
  BY ReviewsAre, FilesAreFinite, QualityIsValid
<1>6. Snap!ValidQuality(v.summary.quality) /\ Snap!ValidQuality(v.summary.current)
  BY <1>1, <1>2, <1>3, <1>4, <1>5
<1>7. DOMAIN v.monthly = Snap!AvailableMonths /\ DOMAIN v.employees = Snap!AvailableMonths
        /\ DOMAIN v.diagnostics = Snap!AvailableMonths
      /\ DOMAIN v.workspaces = known /\ Cardinality(DOMAIN v.monthly) <= Retained
  BY <1>1, <1>2, AvailableBound
<1>8. ASSUME NEW m \in Snap!AvailableMonths
      PROVE  /\ Snap!ValidQuality(v.monthly[m].quality)
             /\ v.monthly[m].routine + v.monthly[m].bulk = v.monthly[m].uploaded
             /\ SumFunction(v.diagnostics[m]) = v.monthly[m].uploaded
             /\ SumFunction([k \in DOMAIN v.employees[m] |-> v.employees[m][k].uploaded])
                  = v.diagnostics[m]["official"]
             /\ \A k \in DOMAIN v.employees[m] : Snap!ValidQuality(v.employees[m][k].quality)
  <2>1. v.monthly[m] = Snap!MonthlyRow(known, m) /\ v.employees[m] = Snap!Employees(known, m)
          /\ v.diagnostics[m] = Snap!Diagnostics(known, m)
    BY <1>2
  <2> QED BY <2>1, MonthAdds
<1>9. ASSUME NEW w \in known
      PROVE  /\ v.workspaces[w].files = Cardinality(Snap!In(w))
                  /\ v.workspaces[w].new = Cardinality(Snap!Uploaded({w}, Snap!Current))
             /\ v.workspaces[w].quality = Snap!Quality(Snap!OfReviews(Snap!In(w)))
  BY <1>1, <1>2
<1>10. \A w \in known : Snap!ValidQuality(v.workspaces[w].quality)
  <2>1. \A w : Snap!In(w) \in SUBSET Snap!Present BY DEF Snap!In
  <2> QED BY <1>4, <1>9, <2>1
<1>11. /\ SumFunction([w \in DOMAIN v.workspaces |-> v.workspaces[w].files]) = v.summary.files
       /\ SumFunction([w \in DOMAIN v.workspaces |-> v.workspaces[w].new]) = v.summary.new
       /\ Snap!QualitySum([w \in DOMAIN v.workspaces |-> v.workspaces[w].quality]) = v.summary.quality
  <2>1. /\ [w \in DOMAIN v.workspaces |-> v.workspaces[w].files] = [w \in known |-> Cardinality(Snap!In(w))]
        /\ [w \in DOMAIN v.workspaces |-> v.workspaces[w].new]
             = [w \in known |-> Cardinality(Snap!Uploaded({w}, Snap!Current))]
        /\ [w \in DOMAIN v.workspaces |-> v.workspaces[w].quality]
             = [w \in known |-> Snap!Quality(Snap!OfReviews(Snap!In(w)))]
    BY <1>7, <1>9
  <2>2. /\ v.summary.files = Cardinality(P) /\ v.summary.new = Cardinality(Snap!Uploaded(known, Snap!Current))
        /\ v.summary.quality = Snap!Quality(Snap!OfReviews(P))
    BY <1>1, <1>2
  <2>3. /\ SumFunction([w \in known |-> Cardinality(Snap!In(w))]) = Cardinality(P)
        /\ SumFunction([w \in known |-> Cardinality(Snap!Uploaded({w}, Snap!Current))])
             = Cardinality(Snap!Uploaded(known, Snap!Current))
        /\ Snap!QualitySum([w \in known |-> Snap!Quality(Snap!OfReviews(Snap!In(w)))])
             = Snap!Quality(Snap!OfReviews(P))
    BY SpacesAdd, QualityOfSpaces DEF P
  <2> QED BY <2>1, <2>2, <2>3
<1>12. Cardinality(DOMAIN v.workspaces) = v.summary.spaces BY <1>1, <1>2, <1>7
<1>13. ASSUME NEW m \in DOMAIN v.rd PROVE v.rd[m].score \in 0..v.rd[m].scored
  <2> DEFINE q == Snap!Quality(Snap!Reviewed({w \in known : owner[w] \in org[m]}, m))
  <2>1. Snap!ValidQuality(q) BY <1>5
  <2>2. v.rd[m] = Snap!RdRow(m) BY <1>2
  <2>3. Snap!RdRow(m).score = q.score /\ Snap!RdRow(m).scored = q.scored BY DEF Snap!RdRow
  <2> QED BY <2>1, <2>2, <2>3 DEF Snap!ValidQuality
<1>14. Snap!Valid(v) BY SnapCounts, <1>6, <1>7, <1>8, <1>10, <1>11, <1>12, <1>13 DEF Snap!Valid
<1> QED BY <1>14 DEF v

(* Deltas: what is applied is what was there. *)
LEMMA DeltaLeads ==
  ASSUME NEW old, NEW new, new = [k \in DOMAIN new |-> new[k]], <<"summary", 0>> \in DOMAIN new
  PROVE  Snap!Applied(old, Snap!Delta(old, new)) = new /\ Snap!ValidDelta(Snap!Delta(old, new))
<1> DEFINE d == Snap!Delta(old, new)
           up == {k \in DOMAIN new : k \notin DOMAIN old \/ old[k] # new[k]}
<1>1. d.deletes = DOMAIN old \ DOMAIN new /\ d.upserts = [k \in up |-> new[k]]
  BY SnapCounts DEF Snap!Delta, Restrict
<1> HIDE DEF d
<1>2. DOMAIN d.upserts = up BY <1>1
<1>3. (DOMAIN old \cup DOMAIN d.upserts) \ d.deletes = DOMAIN new BY <1>1, <1>2
<1>4. Snap!Applied(old, d) = [k \in DOMAIN new |-> IF k \in DOMAIN d.upserts THEN d.upserts[k] ELSE old[k]]
  BY <1>3 DEF Snap!Applied
<1>5. \A k \in DOMAIN new : (IF k \in DOMAIN d.upserts THEN d.upserts[k] ELSE old[k]) = new[k]
  BY <1>1, <1>2
<1>6. Snap!Applied(old, d) = new BY <1>4, <1>5
<1>7. Snap!ValidDelta(d) BY <1>1, <1>2 DEF Snap!ValidDelta
<1> QED BY <1>6, <1>7 DEF d

(* What is put together is what is built, and is valid. *)
LEMMA ComposedHolds ==
  ASSUME SnapshotAssumption, SnapshotInv
  PROVE  Snap!ComposedIsWhole
<1> SUFFICES ASSUME scopes = {}, ~Snap!Full PROVE Snap!ComposedIsWhole
  BY DEF Snap!ComposedIsWhole
<1>1. IsWhole(parts) /\ SnapshotTypes BY CleanIsWhole DEF SnapshotInv
<1>2. parts = [k \in DOMAIN parts |-> parts[k]] /\ <<"summary", 0>> \in DOMAIN parts
  BY DEF SnapshotInv, PartsInv
<1>3. Snap!Applied(acked, Snap!Delta(acked, parts)) = parts /\ Snap!ValidDelta(Snap!Delta(acked, parts))
  BY <1>2, DeltaLeads
<1>4. (IF acked = <<>> THEN parts ELSE Snap!Applied(acked, Snap!Delta(acked, parts))) = parts
  BY <1>3
<1>5. Snap!Valid(Snap!MaterializeParts(parts))
      /\ [Snap!MaterializeParts(parts) EXCEPT !.rd = <<>>] = Snap!BuildSnapshot(known, Snap!AvailableMonths)
  BY <1>1, PutIsValid, PutIsBuilt
<1> QED BY <1>3, <1>4, <1>5 DEF Snap!ComposedIsWhole

(* Bulk days are of a person, whatever the library. *)
LEMMA BulkHolds ==
  ASSUME SnapshotAssumption, SnapshotInv
  PROVE  Snap!BulkIsByPerson
<1> SUFFICES ASSUME scopes = {}, ~Snap!Full, NEW m \in Snap!KeysOf(parts, "month")
             PROVE  LET part == parts[<<"month", m>>]
                        spread == {f \in Snap!Uploaded(known, m) : fact[f].source # ""
                                    /\ Cardinality({g \in Snap!Uploaded(known, m) :
                                     fact[g].source = fact[f].source /\ fact[g].day = fact[f].day}) >= BulkDay}
                    IN  /\ DOMAIN part[2] \cap Robots = {}
                        /\ part[1].bulk >= Cardinality(spread)
  BY SnapCounts DEF Snap!BulkIsByPerson
<1> DEFINE U == Snap!Uploaded(known, m)
           Rev == Snap!Reviewed(known, m)
           D(f) == {g \in U : fact[g].source = fact[f].source /\ fact[g].day = fact[f].day}
           spread == {f \in U : fact[f].source # "" /\ Cardinality(D(f)) >= BulkDay}
           Sub == {f \in U : Snap!Bulk(known, m, f)}
           part == parts[<<"month", m>>]
<1>1. m \in Snap!AvailableMonths /\ part = MonthPart(m)
  <2>1. IsWhole(parts) /\ DOMAIN parts \subseteq SnapshotKeys
    BY CleanIsWhole DEF SnapshotInv, PartsInv
  <2>2. <<"month", m>> \in WholeKeys BY <2>1, KeysAre DEF IsWhole
  <2>3. m \in Snap!AvailableMonths BY <2>2 DEF WholeKeys
  <2> QED BY <2>1, <2>3 DEF IsWhole
<1>2. part[1] = Snap!MonthlyRow(known, m) /\ part[2] = Snap!Employees(known, m)
  BY <1>1 DEF MonthPart
<1>3. DOMAIN part[2] = {Snap!EmployeeOf(m, f) : f \in {f \in U : Snap!Bucket(m, f) = "official"}
        \cup {f \in Rev : Snap!Bucket(m, f) = "official"}}
  BY <1>2 DEF Snap!Employees
<1>4. \A f : Snap!Bucket(m, f) = "official" => Snap!EmployeeOf(m, f) \notin Robots
  BY DEF Snap!Bucket, Snap!IsRobot, Snap!EmployeeOf
<1>5. DOMAIN part[2] \cap Robots = {} BY <1>3, <1>4
<1>6. part[1].bulk = Cardinality(Sub) BY SnapCounts, <1>2 DEF Snap!MonthlyRow
<1>7. spread \subseteq Sub
  <2> SUFFICES ASSUME NEW f \in U, fact[f].source # "", Cardinality(D(f)) >= BulkDay PROVE Snap!Bulk(known, m, f)
    OBVIOUS
  <2>1. fact[f].day[1] = m BY DEF Snap!Uploaded
  <2>2. Snap!PersonDay(known, f) = Cardinality(D(f)) BY SnapCounts, <2>1 DEF Snap!PersonDay
  <2> QED BY <2>2 DEF Snap!Bulk
<1>8. Cardinality(spread) <= Cardinality(Sub)
  <2>1. IsFiniteSet(Sub) BY FilesAreFinite DEF Snap!Uploaded, Snap!Present
  <2> HIDE DEF spread, Sub
  <2> QED BY <1>7, <2>1, FS_Subset
<1>9. Cardinality(spread) \in Nat /\ Cardinality(Sub) \in Nat
  BY FilesAreFinite DEF Snap!Uploaded, Snap!Present
<1> HIDE DEF part, spread, Sub
<1>10. part[1].bulk >= Cardinality(spread) BY <1>6, <1>8, <1>9
<1> QED BY <1>5, <1>10 DEF part, spread

(* The R&D months of a clean snapshot. *)
LEMMA RdHolds ==
  ASSUME SnapshotAssumption, SnapshotInv
  PROVE  Snap!RdIsCurrent
<1> SUFFICES ASSUME scopes = {}, ~Snap!Full, NEW m \in FactMonths
             PROVE  IF Snap!Missing(m) THEN <<"rd-month", m>> \notin DOMAIN parts
                    ELSE <<"rd-month", m>> \in DOMAIN parts /\ parts[<<"rd-month", m>>] = Snap!RdRow(m)
  BY DEF Snap!RdIsCurrent
<1>1. IsWhole(parts) BY CleanIsWhole
<1>2. DOMAIN parts = WholeKeys BY <1>1 DEF IsWhole
<1>3. <<"rd-month", m>> \in WholeKeys <=> ~Snap!Missing(m) BY DEF WholeKeys
<1> QED BY <1>1, <1>2, <1>3 DEF IsWhole

(* Whatever is edited, resolved and published when, the partitions put     *)
(* together are the snapshot built from all facts at once, its bulk is     *)
(* told by person and day, and the R&D months are those of the             *)
(* organisation: `bi_snapshot.py` and `bi_export.py`.                      *)
THEOREM SnapshotsWhole ==
  SnapshotAssumption =>
    /\ Snap!Spec => [](Snap!ComposedIsWhole /\ Snap!BulkIsByPerson /\ Snap!RdIsCurrent)
    /\ Spec => []SnapshotIsWhole
<1> DEFINE Wholeness == Snap!ComposedIsWhole /\ Snap!BulkIsByPerson /\ Snap!RdIsCurrent
<1> SUFFICES ASSUME SnapshotAssumption
             PROVE  (Snap!Spec => []Wholeness) /\ (Spec => []SnapshotIsWhole)
  OBVIOUS
<1>1. Snap!Init => SnapshotInv BY SnapshotInit
<1>2. SnapshotInv /\ [Snap!Next]_Snap!vars => SnapshotInv' BY SnapshotNext
<1>3. SnapshotInv => Wholeness BY ComposedHolds, BulkHolds, RdHolds
<1>4. Snap!Spec => []Wholeness
  <2> HIDE DEF Wholeness
  <2> QED BY <1>1, <1>2, <1>3, PTL DEF Snap!Spec
<1> DEFINE Chosen == which = "snapshot" => SnapshotInv
<1>5. Init => Chosen BY <1>1, Starts
<1>6. Chosen /\ [Next]_all => Chosen' BY <1>2, Steps
<1>7. Chosen => SnapshotIsWhole BY <1>3 DEF SnapshotIsWhole
<1>8. Spec => []SnapshotIsWhole
  <2> HIDE DEF Chosen
  <2> QED BY <1>5, <1>6, <1>7, PTL DEF Spec
<1> QED BY <1>4, <1>8

-----------------------------------------------------------------------------
(* Metrics and BIExport. *)

LEMMA NumbersInit == ASSUME NumbersAssumption, Num!Init PROVE NumbersInv
BY DEF NumbersAssumption, Num!Init, NumbersInv

LEMMA NumbersNext == ASSUME NumbersAssumption, NumbersInv, [Num!Next]_Num!vars PROVE NumbersInv'
<1>1. ASSUME NEW n \in Nodes, Num!Collect(n) PROVE NumbersInv'
  <2>1. PICK r \in Rows : docs' = [docs EXCEPT ![n] = r]
    BY <1>1 DEF Num!Collect
  <2>2. r \in Documents \cup {Folder, Deleted, None} BY DEF NumbersAssumption
  <2>3. docs' \in [Nodes -> Documents \cup {Folder, Deleted, None}] BY <2>1, <2>2 DEF NumbersInv
  <2> QED BY <1>1, <2>3 DEF Num!Collect, NumbersInv
<1>2. ASSUME NEW w \in Spaces, Num!Toggle(w) PROVE NumbersInv'
  BY <1>2 DEF Num!Toggle, NumbersInv
<1>3. CASE UNCHANGED Num!vars BY <1>3 DEF Num!vars, NumbersInv
<1> QED BY <1>1, <1>2, <1>3 DEF Num!Next

(* The library of an instance is the library. *)
LEMMA NumCounts ==
  /\ \A S : Num!Cardinality(S) = Cardinality(S)
  /\ \A f : Num!SumFunction(f) = SumFunction(f)
  /\ \A f, S : Num!SumFunctionOnSet(f, S) = SumFunctionOnSet(f, S)
<1>1. ASSUME NEW S PROVE Num!Cardinality(S) = Cardinality(S)
  BY DEF Num!Cardinality, Cardinality
<1>2. ASSUME NEW f, NEW S PROVE Num!SumFunctionOnSet(f, S) = SumFunctionOnSet(f, S)
  BY DEF Num!SumFunctionOnSet, Num!FoldFunctionOnSet, Num!MapThenFoldSet,
         SumFunctionOnSet, FoldFunctionOnSet, MapThenFoldSet
<1>3. ASSUME NEW f PROVE Num!SumFunction(f) = SumFunction(f)
  BY <1>2 DEF Num!SumFunction, SumFunction
<1> QED BY <1>1, <1>2, <1>3

(* Days, their months and years. *)
LEMMA KeyIs ==
  ASSUME NEW a \in Nat, NEW b \in Nat, NEW c \in Nat
  PROVE  /\ Num!Key(<<a, b, c>>, 1) = <<a>> /\ Num!Key(<<a, b, c>>, 2) = <<a, b>>
              /\ Num!Key(<<a, b, c>>, 3) = <<a, b, c>>
<1> DEFINE d == <<a, b, c>>
<1>1. d \in Seq(Nat) /\ Len(d) = 3 /\ d[1] = a /\ d[2] = b /\ d[3] = c OBVIOUS
<1>2. ASSUME NEW t \in Seq(Nat), Len(t) \in 1..3, \A i \in 1..Len(t) : d[i] = t[i]
      PROVE  Num!Key(d, Len(t)) = t
  <2> HIDE DEF d
  <2>1. Num!Key(d, Len(t)) \in Seq(Nat) /\ Len(Num!Key(d, Len(t))) = Len(t)
    BY <1>1, <1>2 DEF Num!Key
  <2>2. \A i \in 1..Len(t) : Num!Key(d, Len(t))[i] = d[i] BY <1>1, <1>2 DEF Num!Key
  <2> QED BY <1>2, <2>1, <2>2, SeqEqual
<1>3. <<a>> \in Seq(Nat) /\ Len(<<a>>) = 1 /\ <<a>>[1] = a OBVIOUS
<1>4. <<a, b>> \in Seq(Nat) /\ Len(<<a, b>>) = 2 /\ <<a, b>>[1] = a /\ <<a, b>>[2] = b OBVIOUS
<1>5. Num!Key(d, 1) = <<a>>
  <2> DEFINE t == <<a>>
  <2>1. t \in Seq(Nat) /\ Len(t) = 1 /\ Len(t) \in 1..3 /\ \A i \in 1..Len(t) : d[i] = t[i]
    BY <1>1, <1>3
  <2> HIDE DEF d, t
  <2>2. Num!Key(d, Len(t)) = t BY <1>2, <2>1
  <2> QED BY <2>1, <2>2 DEF t
<1>6. Num!Key(d, 2) = <<a, b>>
  <2> DEFINE t == <<a, b>>
  <2>1. t \in Seq(Nat) /\ Len(t) = 2 /\ Len(t) \in 1..3 /\ \A i \in 1..Len(t) : d[i] = t[i]
    BY <1>1, <1>4
  <2> HIDE DEF d, t
  <2>2. Num!Key(d, Len(t)) = t BY <1>2, <2>1
  <2> QED BY <2>1, <2>2 DEF t
<1>7. Num!Key(d, 3) = d
  <2> HIDE DEF d
  <2>1. Len(d) \in 1..3 /\ \A i \in 1..Len(d) : d[i] = d[i] BY <1>1
  <2>2. Num!Key(d, Len(d)) = d BY <1>1, <1>2, <2>1
  <2> QED BY <1>1, <2>2
<1> QED BY <1>5, <1>6, <1>7

LEMMA DayIs ==
  ASSUME NumbersAssumption, NEW d \in Days
  PROVE  /\ d = <<d[1], d[2], d[3]>> /\ d[1] \in Nat /\ d[2] \in Nat /\ d[3] \in Nat
         /\ Num!Key(d, 1) = <<d[1]>> /\ Num!Key(d, 2) = <<d[1], d[2]>> /\ Num!Key(d, 3) = d
<1>1. d = <<d[1], d[2], d[3]>> /\ d[1] \in Nat /\ d[2] \in Nat /\ d[3] \in Nat
  BY DEF NumbersAssumption
<1>2. /\ Num!Key(<<d[1], d[2], d[3]>>, 1) = <<d[1]>> /\ Num!Key(<<d[1], d[2], d[3]>>, 2) = <<d[1], d[2]>>
      /\ Num!Key(<<d[1], d[2], d[3]>>, 3) = <<d[1], d[2], d[3]>>
  BY <1>1, KeyIs
<1> QED BY <1>1, <1>2

LEMMA WithinAll ==
  ASSUME NEW a \in Nat, NEW b \in Nat, NEW c \in Nat
  PROVE  Num!Within(<<a, b, c>>, <<>>) /\ Num!Within(<<a, b>>, <<>>)
BY DEF Num!Within, Num!IsPrefix

LEMMA WithinYear ==
  ASSUME NEW a \in Nat, NEW b \in Nat, NEW c \in Nat, NEW x \in Nat
  PROVE  (Num!Within(<<a, b, c>>, <<x>>) <=> a = x) /\ (Num!Within(<<a, b>>, <<x>>) <=> a = x)
<1>1. Num!Within(<<a, b, c>>, <<x>>) <=> a = x BY DEF Num!Within, Num!IsPrefix
<1>2. Num!Within(<<a, b>>, <<x>>) <=> a = x BY DEF Num!Within, Num!IsPrefix
<1> QED BY <1>1, <1>2

LEMMA WithinMonth ==
  ASSUME NEW a \in Nat, NEW b \in Nat, NEW c \in Nat, NEW x \in Nat, NEW y \in Nat
  PROVE  Num!Within(<<a, b, c>>, <<x, y>>) <=> a = x /\ b = y
BY DEF Num!Within, Num!IsPrefix

LEMMA SameMonthOf ==
  ASSUME NEW a \in Nat, NEW b \in Nat, NEW x \in Nat, NEW y \in Nat
  PROVE  Num!Within(<<a, b>>, <<x, y>>) <=> a = x /\ b = y
BY DEF Num!Within, Num!IsPrefix

(* What a file in a view is. *)
LEMMA FilesAre ==
  ASSUME NumbersAssumption, NumbersInv
  PROVE  /\ IsFiniteSet(Num!Files) /\ \A f \in Num!Files : f[1] \in Nodes /\ f[2] \in Documents
         /\ \A n \in Num!BaseArm : base[n] \in Documents /\ base[n] # None
         /\ \A n \in Num!LiveArm : docs[n] \in Documents /\ base[n] = None
         /\ Num!BaseArm \subseteq Nodes /\ Num!LiveArm \subseteq Nodes
<1>1. \A n \in Num!BaseArm : base[n] \in Documents /\ base[n] # None
  BY DEF Num!BaseArm, Num!Visible, NumbersInv
<1>2. \A n \in Num!LiveArm : docs[n] \in Documents /\ base[n] = None
  BY DEF Num!LiveArm, Num!Visible, NumbersInv
<1>3. Num!BaseArm \subseteq Nodes /\ Num!LiveArm \subseteq Nodes BY DEF Num!BaseArm, Num!LiveArm
<1>4. IsFiniteSet(Num!BaseArm) /\ IsFiniteSet(Num!LiveArm) BY <1>3, FS_Subset DEF NumbersAssumption
<1> DEFINE b == [n \in Num!BaseArm |-> <<n, base[n]>>]
           l == [n \in Num!LiveArm |-> <<n, docs[n]>>]
<1>5. Num!Files = {b[n] : n \in Num!BaseArm} \cup {l[n] : n \in Num!LiveArm} BY DEF Num!Files
<1>6. \A f \in Num!Files : f[1] \in Nodes /\ f[2] \in Documents BY <1>1, <1>2, <1>3, <1>5
<1>7. IsFiniteSet({b[n] : n \in Num!BaseArm}) /\ IsFiniteSet({l[n] : n \in Num!LiveArm})
  <2> HIDE DEF b, l
  <2> QED BY <1>4, ImageIsFinite
<1>8. IsFiniteSet(Num!Files) BY <1>5, <1>7, FS_Union
<1> QED BY <1>1, <1>2, <1>3, <1>6, <1>8

LEMMA SpotIs == ASSUME NEW s \in Spots PROVE \E w \in Spaces, u \in Users, d \in Days : s = <<w, u, d>>
BY DEF Spots

LEMMA CollectedIs ==
  ASSUME NumbersAssumption, NumbersInv
  PROVE  /\ DOMAIN Num!Collected.cells = Spots /\ \A c \in Spots : Num!Collected.cells[c] = Cardinality(At(c))
         /\ \A u \in Users, d \in Days : Num!Collected.creatorDay[<<u, d>>]
              = SumFunctionOnSet([w \in Spaces |-> Num!Collected.cells[<<w, u, d>>]], Spaces)
         /\ \A w \in Spaces : Num!Collected.spaceTotals[w] = Cardinality({f \in Num!Files : f[2].ws = w})
         /\ Num!Collected.totalFiles = SumFunctionOnSet(Num!Collected.spaceTotals, Spaces)
         /\ DOMAIN Num!Collected.spaceTotals = Spaces
<1> DEFINE c == [x \in Spots |-> Cardinality(At(x))]
           t == [w \in Spaces |-> Cardinality({f \in Num!Files : f[2].ws = w})]
<1>1. Num!Collected = [cells |-> c, spaceTotals |-> t,
                   creatorDay |-> [p \in Users \X Days |-> Num!CreatorDay(c, p[1], p[2])],
                   totalFiles |-> SumFunction(t)]
  BY NumCounts DEF Num!Collected, Spots, At
<1> HIDE DEF c, t
<1>2. /\ Num!Collected.cells = c /\ Num!Collected.spaceTotals = t /\ Num!Collected.totalFiles = SumFunction(t)
      /\ Num!Collected.creatorDay = [p \in Users \X Days |-> Num!CreatorDay(c, p[1], p[2])]
  BY <1>1
<1>3. ASSUME NEW u \in Users, NEW d \in Days
      PROVE  Num!Collected.creatorDay[<<u, d>>] = SumFunctionOnSet([w \in Spaces |-> c[<<w, u, d>>]], Spaces)
  <2>1. Num!Collected.creatorDay[<<u, d>>] = Num!CreatorDay(c, u, d) BY <1>2
  <2>2. Num!CreatorDay(c, u, d) = SumFunction([w \in Spaces |-> c[<<w, u, d>>]])
    BY NumCounts DEF Num!CreatorDay
  <2> QED BY <2>1, <2>2 DEF SumFunction
<1>4. SumFunction(t) = SumFunctionOnSet(t, DOMAIN t) BY DEF SumFunction
<1>5. DOMAIN t = Spaces /\ \A w \in Spaces : t[w] = Cardinality({f \in Num!Files : f[2].ws = w})
  BY DEF t
<1>6. DOMAIN c = Spots /\ \A x \in Spots : c[x] = Cardinality(At(x)) BY DEF c
<1>7. /\ DOMAIN Num!Collected.cells = Spots /\ \A x \in Spots : Num!Collected.cells[x] = Cardinality(At(x))
      /\ \A w \in Spaces : Num!Collected.spaceTotals[w] = Cardinality({f \in Num!Files : f[2].ws = w})
      /\ DOMAIN Num!Collected.spaceTotals = Spaces
      /\ Num!Collected.totalFiles = SumFunctionOnSet(Num!Collected.spaceTotals, Spaces)
  BY <1>2, <1>4, <1>5, <1>6
<1>8. ASSUME NEW u \in Users, NEW d \in Days
      PROVE  Num!Collected.creatorDay[<<u, d>>]
               = SumFunctionOnSet([w \in Spaces |-> Num!Collected.cells[<<w, u, d>>]], Spaces)
  BY <1>2, <1>3
<1> QED BY <1>7, <1>8

LEMMA CountsAre ==
  ASSUME NumbersAssumption, NumbersInv
  PROVE  /\ \A s \in Spots : Counts[s] = Cardinality(At(s)) /\ Counts[s] \in Nat /\ Counts[s] = Num!Collected.cells[s]
         /\ \A u \in Users, d \in Days : Counts[<<None, u, d>>] \in Nat /\
              Counts[<<None, u, d>>] = SumFunctionOnSet([w \in Spaces |-> Counts[<<w, u, d>>]], Spaces)
         /\ \A s \in Spots \cup Num!PersonDays : Counts[s] \in Nat /\ Counts[s] = Num!CountOf(Num!Collected, s)
         /\ IsFiniteSet(Spots) /\ IsFiniteSet(Num!PersonDays) /\ IsFiniteSet(Spaces)
<1>0. ASSUME NEW s \in Spots \cup Num!PersonDays PROVE Counts[s] = Num!CountOf(Num!Collected, s)
  BY DEF Counts
<1>1. ASSUME NEW s \in Spots PROVE Counts[s] = Cardinality(At(s)) /\ Counts[s] \in Nat
                   /\ Counts[s] = Num!Collected.cells[s]
  <2>1. s[1] # None BY DEF Spots, NumbersAssumption
  <2>2. Counts[s] = Num!Collected.cells[s] BY <1>0, <2>1 DEF Num!CountOf
  <2>3. IsFiniteSet(At(s)) BY FilesAre, FS_Subset DEF At
  <2> QED BY <2>2, <2>3, CollectedIs, FS_CardinalityType
<1>2. IsFiniteSet(Spaces) /\ IsFiniteSet(Users) /\ IsFiniteSet(Days) BY DEF NumbersAssumption
<1>3. ASSUME NEW u \in Users, NEW d \in Days
      PROVE  Counts[<<None, u, d>>] \in Nat /\
             Counts[<<None, u, d>>] = SumFunctionOnSet([w \in Spaces |-> Counts[<<w, u, d>>]], Spaces)
  <2>1. <<None, u, d>> \in Num!PersonDays /\ <<None, u, d>>[1] = None /\ <<None, u, d>>[2] = u
          /\ <<None, u, d>>[3] = d
    BY DEF Num!PersonDays
  <2>2. Counts[<<None, u, d>>] = Num!Collected.creatorDay[<<u, d>>] BY <1>0, <2>1 DEF Num!CountOf
  <2> DEFINE f == [w \in Spaces |-> Num!Collected.cells[<<w, u, d>>]]
             g == [w \in Spaces |-> Counts[<<w, u, d>>]]
  <2>3. \A w \in Spaces : <<w, u, d>> \in Spots BY DEF Spots
  <2>4. \A w \in Spaces : f[w] = g[w] /\ g[w] \in Nat BY <1>1, <2>3
  <2>5. Counts[<<None, u, d>>] = SumFunctionOnSet(f, Spaces) BY <2>2, CollectedIs
  <2> HIDE DEF f, g
  <2>6. SumFunctionOnSet(f, Spaces) = SumFunctionOnSet(g, Spaces) /\ SumFunctionOnSet(g, Spaces) \in Nat
    BY <1>2, <2>4, SumEqual, SumType
  <2> QED BY <2>5, <2>6 DEF g
<1>4. ASSUME NEW s \in Num!PersonDays PROVE Counts[s] \in Nat
  <2>1. PICK u \in Users, d \in Days : s = <<None, u, d>>
    BY DEF Num!PersonDays
  <2> QED BY <1>3, <2>1
<1>5. IsFiniteSet(Spots) /\ IsFiniteSet(Num!PersonDays)
  <2>1. IsFiniteSet({None}) BY FS_Singleton
  <2>2. Spots = Spaces \X Users \X Days /\ Num!PersonDays = {None} \X Users \X Days
    BY DEF Spots, Num!PersonDays
  <2>3. IsFiniteSet(Users \X Days) BY <1>2, FS_Product
  <2>4. IsFiniteSet(Spaces \X (Users \X Days)) /\ IsFiniteSet({None} \X (Users \X Days))
    BY <1>2, <2>1, <2>3, FS_Product
  <2> DEFINE h == [q \in (Spaces \cup {None}) \X (Users \X Days) |-> <<q[1], q[2][1], q[2][2]>>]
             A == Spaces \X (Users \X Days)
             Sub == {None} \X (Users \X Days)
  <2>5. Spots = {h[q] : q \in A}
    <3>1. ASSUME NEW w \in Spaces, NEW u \in Users, NEW d \in Days PROVE <<w, u, d>> \in {h[q] : q \in A}
      <4>1. <<w, <<u, d>>>> \in A /\ h[<<w, <<u, d>>>>] = <<w, u, d>> OBVIOUS
      <4> HIDE DEF h, A
      <4> QED BY <4>1
    <3>2. ASSUME NEW q \in A PROVE h[q] \in Spots
      BY DEF Spots
    <3> HIDE DEF h, A
    <3>3. \A s \in Spots : \E w \in Spaces, u \in Users, d \in Days : s = <<w, u, d>> BY DEF Spots
    <3> QED BY <3>1, <3>2, <3>3
  <2>6. Num!PersonDays = {h[q] : q \in Sub}
    <3>1. ASSUME NEW u \in Users, NEW d \in Days PROVE <<None, u, d>> \in {h[q] : q \in Sub}
      <4>1. <<None, <<u, d>>>> \in Sub /\ h[<<None, <<u, d>>>>] = <<None, u, d>> OBVIOUS
      <4> HIDE DEF h, Sub
      <4> QED BY <4>1
    <3>2. ASSUME NEW q \in Sub PROVE h[q] \in Num!PersonDays
      BY DEF Num!PersonDays
    <3> HIDE DEF h, Sub
    <3>3. \A s \in Num!PersonDays : \E u \in Users, d \in Days : s = <<None, u, d>>
      BY DEF Num!PersonDays
    <3> QED BY <3>1, <3>2, <3>3
  <2> HIDE DEF h
  <2>7. IsFiniteSet({h[q] : q \in A}) /\ IsFiniteSet({h[q] : q \in Sub}) BY <2>4, ImageIsFinite
  <2> QED BY <2>5, <2>6, <2>7
<1> QED BY <1>0, <1>1, <1>2, <1>3, <1>4, <1>5

LEMMA CountedIs ==
  ASSUME NumbersAssumption, NumbersInv, NEW S \in SUBSET (Spots \cup Num!PersonDays)
  PROVE  /\ Num!Counted(Num!Collected, S).total = Amount(Everything, S)
              /\ Num!Counted(Num!Collected, S).bulk = Amount(Bulky, S)
         /\ Num!Counted(Num!Collected, S).total \in Nat /\ Num!Counted(Num!Collected, S).bulk \in Nat
<1> DEFINE data == Num!Collected
           f == [s \in S |-> Num!CountOf(data, s)]
           g == [s \in {r \in S : Num!Bulk(data, r)} |-> Num!CountOf(data, s)]
<1>1. Num!Counted(data, S) = [total |-> SumFunction(f), bulk |-> SumFunction(g),
        routine |-> SumFunction(f) - SumFunction(g)]
  BY NumCounts DEF Num!Counted
<1>2. SumFunction(f) = SumFunctionOnSet(f, S) /\ SumFunction(g) = SumFunctionOnSet(g, S \cap Bulky)
  <2>1. DOMAIN f = S /\ DOMAIN g = S \cap Bulky BY DEF Bulky
  <2> HIDE DEF f, g
  <2> QED BY <2>1 DEF SumFunction
<1>3. IsFiniteSet(S) /\ IsFiniteSet(S \cap Bulky)
  <2>1. IsFiniteSet(Spots \cup Num!PersonDays) BY CountsAre, FS_Union
  <2> QED BY <2>1, FS_Subset
<1>4. (\A s \in S : f[s] = Counts[s] /\ Counts[s] \in Nat) /\ \A s \in S \cap Bulky : g[s] = Counts[s]
  BY CountsAre DEF Bulky
<1> HIDE DEF f, g
<1>5. SumFunctionOnSet(f, S) = SumFunctionOnSet(Counts, S)
        /\ SumFunctionOnSet(g, S \cap Bulky) = SumFunctionOnSet(Counts, S \cap Bulky)
  BY <1>3, <1>4, SumEqual
<1>6. SumFunctionOnSet(Counts, S) \in Nat /\ SumFunctionOnSet(Counts, S \cap Bulky) \in Nat
  BY <1>3, <1>4, SumType
<1>7. S \cap Everything = S BY DEF Everything
<1>8. Num!Counted(data, S).total = SumFunction(f) /\ Num!Counted(data, S).bulk = SumFunction(g)
  BY <1>1
<1>9. Amount(Everything, S) = SumFunctionOnSet(Counts, S) /\ Amount(Bulky, S) = SumFunctionOnSet(Counts, S \cap Bulky)
  BY <1>7 DEF Amount
<1> QED BY <1>2, <1>5, <1>6, <1>8, <1>9

(* In groups, and without what counts nothing.                             *)
LEMMA AmountGroups ==
  ASSUME NumbersAssumption, NumbersInv, NEW S \in SUBSET (Spots \cup Num!PersonDays), NEW Z,
         NEW K, IsFiniteSet(K), NEW h, \A s \in S : h[s] \in K,
         NEW g, \A k \in K : g[k] = Amount(Z, Among(S, h, k))
  PROVE  Amount(Z, S) = SumFunctionOnSet(g, K)
<1> DEFINE A == S \cap Z
<1>1. IsFiniteSet(A) /\ (\A s \in A : Counts[s] \in Nat) /\ \A s \in A : h[s] \in K
  <2>1. IsFiniteSet(Spots \cup Num!PersonDays) BY CountsAre, FS_Union
  <2> QED BY <2>1, FS_Subset, CountsAre
<1>2. \A k \in K : Among(A, h, k) = Among(S, h, k) \cap Z BY DEF Among
<1>3. \A k \in K : g[k] = SumFunctionOnSet(Counts, Among(A, h, k)) BY <1>2 DEF Amount
<1> HIDE DEF A
<1>4. SumFunctionOnSet(Counts, A) = SumFunctionOnSet(g, K) BY <1>1, <1>3, SumByGroup
<1> QED BY <1>4 DEF Amount, A

LEMMA AmountZeros ==
  ASSUME NumbersAssumption, NumbersInv, NEW S \in SUBSET (Spots \cup Num!PersonDays), NEW Z,
         NEW Sub \in SUBSET S, \A s \in S \ Sub : Counts[s] = 0
  PROVE  Amount(Z, S) = Amount(Z, Sub)
<1> DEFINE A == S \cap Z
           Cut == Sub \cap Z
<1>1. IsFiniteSet(A) /\ (\A s \in A : Counts[s] \in Nat)
  <2>1. IsFiniteSet(Spots \cup Num!PersonDays) BY CountsAre, FS_Union
  <2> QED BY <2>1, FS_Subset, CountsAre
<1>2. Cut \in SUBSET A /\ \A s \in A \ Cut : Counts[s] = 0 OBVIOUS
<1> HIDE DEF A, Cut
<1>3. SumFunctionOnSet(Counts, A) = SumFunctionOnSet(Counts, Cut) BY <1>1, <1>2, SumZeros
<1> QED BY <1>3 DEF Amount, A, Cut

(* The spots of one person and day, one of each library.                   *)
LEMMA OneOfEach ==
  ASSUME NEW f, NEW A, IsFiniteSet(A), IsFiniteSet(Spaces), NEW u, NEW d,
         \A s \in A : s[1] \in Spaces /\ s = <<s[1], u, d>> /\ f[s] \in Nat,
         \A w \in Spaces : <<w, u, d>> \in A
  PROVE  SumFunctionOnSet(f, A) = SumFunctionOnSet([w \in Spaces |-> f[<<w, u, d>>]], Spaces)
<1> DEFINE g == [w \in Spaces |-> f[<<w, u, d>>]]
           n == [s \in A |-> s[1]]
<1>1. \A x \in A : f[x] \in Nat OBVIOUS
<1>2. \A x \in A : n[x] \in Spaces /\ g[n[x]] = f[x] OBVIOUS
<1>3. ASSUME NEW k \in Spaces PROVE \E x \in A : n[x] = k
  <2>1. <<k, u, d>> \in A /\ n[<<k, u, d>>] = k OBVIOUS
  <2> QED BY <2>1
<1>4. \A x, y \in A : n[x] = n[y] => x = y OBVIOUS
<1> HIDE DEF g, n
<1>5. SumFunctionOnSet(f, A) = SumFunctionOnSet(g, Spaces) BY <1>1, <1>2, <1>3, <1>4, SumRename
<1> QED BY <1>5 DEF g

(* The libraries together are everything: for some people and days, and    *)
(* for what counts whatever the library.                                   *)
LEMMA SpacesTogether ==
  ASSUME NumbersAssumption, NumbersInv, NEW D, NEW Z,
         \A w \in Spaces, u \in Users, d \in Days : <<w, u, d>> \in Z <=> <<None, u, d>> \in Z
  PROVE  Amount(Z, {s \in Spots : <<s[2], s[3]>> \in D}) = Amount(Z, {s \in Num!PersonDays : <<s[2], s[3]>> \in D})
<1> DEFINE A == {s \in Spots : <<s[2], s[3]>> \in D} \cap Z
           K == {s \in Num!PersonDays : <<s[2], s[3]>> \in D} \cap Z
           h == [s \in Spots |-> <<None, s[2], s[3]>>]
           f == [k \in K |-> SumFunctionOnSet(Counts, {s \in A : h[s] = k})]
<1>1. IsFiniteSet(A) /\ IsFiniteSet(K) /\ (\A s \in A : Counts[s] \in Nat) /\ \A s \in K : Counts[s] \in Nat
  BY CountsAre, FS_Subset
<1>2. ASSUME NEW s \in A PROVE h[s] \in K
  <2>0. s \in Spots /\ <<s[2], s[3]>> \in D /\ s \in Z OBVIOUS
  <2>1. PICK w \in Spaces, u \in Users, d \in Days : s = <<w, u, d>>
    BY <2>0, SpotIs
  <2>2. h[s] = <<None, u, d>> /\ <<None, u, d>> \in Num!PersonDays /\ <<None, u, d>> \in Z /\ <<u, d>> \in D
    BY <2>0, <2>1 DEF Num!PersonDays
  <2> QED BY <2>2
<1>3. ASSUME NEW k \in K PROVE f[k] = Counts[k]
  <2>1. PICK u \in Users, d \in Days : k = <<None, u, d>> /\ <<u, d>> \in D
    BY DEF Num!PersonDays
  <2> DEFINE Grp == {s \in A : h[s] = k}
             g == [w \in Spaces |-> Counts[<<w, u, d>>]]
  <2>2. \A w \in Spaces : <<w, u, d>> \in Grp BY <1>3, <2>1 DEF Spots
  <2>3. \A s \in Grp : s[1] \in Spaces /\ s = <<s[1], u, d>> BY <2>1 DEF Spots
  <2>4. IsFiniteSet(Grp) /\ IsFiniteSet(Spaces) /\ \A s \in Grp : Counts[s] \in Nat
    BY <1>1, FS_Subset, CountsAre
  <2>5. f[k] = SumFunctionOnSet(Counts, Grp) OBVIOUS
  <2>6. Counts[k] = SumFunctionOnSet(g, Spaces) BY <2>1, CountsAre
  <2>7. SumFunctionOnSet(Counts, Grp) = SumFunctionOnSet(g, Spaces)
    <3> HIDE DEF A, K, h, f, Grp
    <3> QED BY <2>2, <2>3, <2>4, OneOfEach
  <2> QED BY <2>5, <2>6, <2>7
<1> HIDE DEF A, K, h
<1>4. SumFunctionOnSet(Counts, A) = SumFunctionOnSet(f, K) BY <1>1, <1>2, SumGroups
<1> HIDE DEF f
<1>5. SumFunctionOnSet(f, K) = SumFunctionOnSet(Counts, K) BY <1>1, <1>3, SumEqual
<1> QED BY <1>4, <1>5 DEF Amount, A, K

LEMMA TreeIs ==
  ASSUME NumbersAssumption, NumbersInv, NEW period, NEW people, NEW spaces \in {Spaces, {None}}
  PROVE  /\ Below(period, people, spaces) \in SUBSET (Spots \cup Num!PersonDays)
         /\ Num!Sum(Num!Tree(Num!Collected, period, people, spaces))
              = Amount(Everything, Below(period, people, spaces))
         /\ Num!SumBulk(Num!Tree(Num!Collected, period, people, spaces))
              = Amount(Bulky, Below(period, people, spaces))
         /\ DOMAIN Num!Tree(Num!Collected, period, people, spaces)
              = {Num!Key(s[3], Len(period) + 1) : s \in Below(period, people, spaces)}
         /\ \A k \in DOMAIN Num!Tree(Num!Collected, period, people, spaces) :
              /\ Num!Tree(Num!Collected, period, people, spaces)[k].total
                   = Amount(Everything, Branch(period, people, spaces, k))
              /\ Num!Tree(Num!Collected, period, people, spaces)[k].bulk
                   = Amount(Bulky, Branch(period, people, spaces, k))
<1> DEFINE Sub == Below(period, people, spaces)
           T == Num!Tree(Num!Collected, period, people, spaces)
           Part(k) == Branch(period, people, spaces, k)
           K == {Num!Key(s[3], Len(period) + 1) : s \in Sub}
           h == [s \in Sub |-> Num!Key(s[3], Len(period) + 1)]
<1>1. Sub \in SUBSET (Spots \cup Num!PersonDays) BY DEF Below, Spots, Num!PersonDays
<1>2. T = [k \in K |-> Num!Counted(Num!Collected, Part(k))] BY DEF Num!Tree, Below, Branch
<1>3. IsFiniteSet(Sub)
  <2>1. IsFiniteSet(Spots \cup Num!PersonDays) BY CountsAre, FS_Union
  <2> QED BY <1>1, <2>1, FS_Subset
<1>4. K = {h[s] : s \in Sub} OBVIOUS
<1>5. IsFiniteSet(K) /\ \A s \in Sub : h[s] \in K
  <2> HIDE DEF h, Sub, K
  <2> QED BY <1>3, <1>4, ImageIsFinite
<1>6. \A k : Part(k) \in SUBSET (Spots \cup Num!PersonDays) /\ Part(k) = {s \in Sub : h[s] = k}
  BY <1>1 DEF Branch
<1> HIDE DEF Sub, T, K, h
<1>7. ASSUME NEW k \in K
      PROVE  T[k].total = Amount(Everything, Part(k)) /\ T[k].bulk = Amount(Bulky, Part(k))
  BY <1>2, <1>6, CountedIs
<1>8. DOMAIN T = K BY <1>2
<1> DEFINE t == [k \in K |-> T[k].total]
           b == [k \in K |-> T[k].bulk]
<1>9. Num!Sum(T) = SumFunctionOnSet(t, K) /\ Num!SumBulk(T) = SumFunctionOnSet(b, K)
  <2>1. DOMAIN t = K /\ DOMAIN b = K OBVIOUS
  <2>2. Num!Sum(T) = SumFunction(t) /\ Num!SumBulk(T) = SumFunction(b)
    BY <1>8, NumCounts DEF Num!Sum, Num!SumBulk
  <2> HIDE DEF t, b
  <2> QED BY <2>1, <2>2 DEF SumFunction
<1>10. ASSUME NEW Z, NEW g, \A k \in K : g[k] = Amount(Z, Part(k)) PROVE Amount(Z, Sub) = SumFunctionOnSet(g, K)
  <2>1. \A k \in K : g[k] = Amount(Z, Among(Sub, h, k)) BY <1>6, <1>10 DEF Among
  <2> QED BY <1>1, <1>5, <2>1, AmountGroups
<1>11. Amount(Everything, Sub) = SumFunctionOnSet(t, K) /\ Amount(Bulky, Sub) = SumFunctionOnSet(b, K)
  <2>1. (\A k \in K : t[k] = Amount(Everything, Part(k))) /\ (\A k \in K : b[k] = Amount(Bulky, Part(k)))
    BY <1>7
  <2> HIDE DEF t, b, Part
  <2> QED BY <1>10, <2>1
<1> HIDE DEF t, b
<1>12. Num!Sum(T) = Amount(Everything, Sub) /\ Num!SumBulk(T) = Amount(Bulky, Sub) BY <1>9, <1>11
<1>13. \A k \in DOMAIN T : T[k].total = Amount(Everything, Part(k)) /\ T[k].bulk = Amount(Bulky, Part(k))
  BY <1>7, <1>8
<1> QED BY <1>1, <1>8, <1>12, <1>13 DEF Sub, T, K

(* What a row shows, its own tree adds up to. *)
LEMMA DrillDown ==
  ASSUME NumbersAssumption, NumbersInv, NEW people,
         NEW period \in {<<>>} \cup {Num!Key(d, 1) : d \in Days},
         NEW k \in DOMAIN Num!Tree(Num!Collected, period, people, {None})
  PROVE  LET up == Num!Tree(Num!Collected, period, people, {None})
             down == Num!Tree(Num!Collected, k, people, {None})
         IN  Num!Sum(down) = up[k].total /\ Num!SumBulk(down) = up[k].bulk
<1> DEFINE up == Num!Tree(Num!Collected, period, people, {None})
           down == Num!Tree(Num!Collected, k, people, {None})
           Sub == Below(period, people, {None})
           l == Len(period) + 1
           Part == Branch(period, people, {None}, k)
<1>1. /\ DOMAIN up = {Num!Key(s[3], l) : s \in Sub}
      /\ up[k].total = Amount(Everything, Part) /\ up[k].bulk = Amount(Bulky, Part)
  BY TreeIs
<1>2. Num!Sum(down) = Amount(Everything, Below(k, people, {None}))
        /\ Num!SumBulk(down) = Amount(Bulky, Below(k, people, {None}))
  BY TreeIs
<1>3. PICK o \in Sub : k = Num!Key(o[3], l)
  BY <1>1
<1>4. \A s \in {None} \X Users \X Days : s[3] \in Days OBVIOUS
<1>5. o[3] \in Days /\ Num!Within(o[3], period) BY <1>3, <1>4 DEF Below
<1>6. ASSUME NEW d \in Days PROVE Num!Within(d, k) <=> Num!Within(d, period) /\ Num!Key(d, l) = k
  <2> DEFINE e == o[3]
  <2>1. /\ d = <<d[1], d[2], d[3]>> /\ d[1] \in Nat /\ d[2] \in Nat /\ d[3] \in Nat
        /\ Num!Key(d, 1) = <<d[1]>> /\ Num!Key(d, 2) = <<d[1], d[2]>>
    BY DayIs
  <2>2. /\ e = <<e[1], e[2], e[3]>> /\ e[1] \in Nat /\ e[2] \in Nat /\ e[3] \in Nat
        /\ Num!Key(e, 1) = <<e[1]>> /\ Num!Key(e, 2) = <<e[1], e[2]>>
    BY <1>5, DayIs
  <2> HIDE DEF e
  <2>3. CASE period = <<>>
    <3>1. l = 1 /\ k = <<e[1]>> BY <1>3, <2>2, <2>3 DEF e
    <3>2. Num!Within(d, <<>>) /\ (Num!Within(d, <<e[1]>>) <=> d[1] = e[1])
      BY <2>1, <2>2, WithinAll, WithinYear
    <3>3. <<d[1]>> = <<e[1]>> <=> d[1] = e[1] OBVIOUS
    <3> QED BY <2>1, <2>3, <3>1, <3>2, <3>3
  <2>4. CASE period # <<>>
    <3>1. PICK c \in Days : period = Num!Key(c, 1)
      BY <2>4
    <3>2. period = <<c[1]>> /\ c[1] \in Nat BY <3>1, DayIs
    <3>3. l = 2 /\ k = <<e[1], e[2]>> BY <1>3, <2>2, <3>2 DEF e
    <3>4. e[1] = c[1]
      <4>1. Num!Within(e, <<c[1]>>) BY <1>5, <3>2 DEF e
      <4>2. Num!Within(<<e[1], e[2], e[3]>>, <<c[1]>>) <=> e[1] = c[1] BY <2>2, <3>2, WithinYear
      <4> QED BY <2>2, <4>1, <4>2
    <3>5. (Num!Within(d, <<c[1]>>) <=> d[1] = c[1]) /\ (Num!Within(d, <<e[1], e[2]>>) <=> d[1] = e[1] /\ d[2] = e[2])
      <4>1. /\ Num!Within(<<d[1], d[2], d[3]>>, <<c[1]>>) <=> d[1] = c[1]
            /\ Num!Within(<<d[1], d[2], d[3]>>, <<e[1], e[2]>>) <=> d[1] = e[1] /\ d[2] = e[2]
        BY <2>1, <2>2, <3>2, WithinYear, WithinMonth
      <4> QED BY <2>1, <4>1
    <3>6. <<d[1], d[2]>> = <<e[1], e[2]>> <=> d[1] = e[1] /\ d[2] = e[2] OBVIOUS
    <3>7. Num!Key(d, l) = <<d[1], d[2]>> BY <2>1, <3>3
    <3> QED BY <3>2, <3>3, <3>4, <3>5, <3>6, <3>7
  <2> QED BY <2>3, <2>4
<1>7. Below(k, people, {None}) = Part
  <2>1. \A s \in {None} \X Users \X Days : Num!Within(s[3], k) <=> Num!Within(s[3], period)
          /\ Num!Key(s[3], Len(period) + 1) = k
    BY <1>4, <1>6
  <2> HIDE DEF l
  <2> QED BY <2>1 DEF Below, Branch
<1> QED BY <1>1, <1>2, <1>7

(* A file is seen once, and has a library. *)
LEMMA FilesOnce ==
  ASSUME NumbersAssumption, NumbersInv
  PROVE  Num!Collected.totalFiles = Cardinality({n \in Nodes :
           /\ docs[n] # Deleted
           /\ IF base[n] # None THEN Num!Visible(base[n]) ELSE Num!Visible(docs[n])})
<1> DEFINE N == {n \in Nodes : /\ docs[n] # Deleted
                               /\ IF base[n] # None THEN Num!Visible(base[n]) ELSE Num!Visible(docs[n])}
           h == [f \in Num!Files |-> f[1]]
           w == [f \in Num!Files |-> f[2].ws]
           g == [s \in Spaces |-> Cardinality({f \in Num!Files : w[f] = s})]
<1>1. N = Num!BaseArm \cup Num!LiveArm BY FilesAre DEF Num!BaseArm, Num!LiveArm, Num!Visible
<1>2. /\ \A f \in Num!Files : (f[1] \in Num!BaseArm /\ f = <<f[1], base[f[1]]>>) \/ (f[1] \in Num!LiveArm
           /\ f = <<f[1], docs[f[1]]>>)
      /\ (\A n \in Num!BaseArm : <<n, base[n]>> \in Num!Files)
           /\ (\A n \in Num!LiveArm : <<n, docs[n]>> \in Num!Files)
  BY DEF Num!Files
<1>3. Num!BaseArm \cap Num!LiveArm = {} BY FilesAre
<1>4. \A f \in Num!Files : h[f] \in N BY <1>1, <1>2
<1>5. \A n \in N : \E f \in Num!Files : h[f] = n
  <2>1. \A n \in Num!BaseArm : h[<<n, base[n]>>] = n BY <1>2
  <2>2. \A n \in Num!LiveArm : h[<<n, docs[n]>>] = n BY <1>2
  <2> QED BY <1>1, <1>2, <2>1, <2>2
<1>6. \A e, f \in Num!Files : h[e] = h[f] => e = f BY <1>2, <1>3
<1>7. IsFiniteSet(Num!Files) /\ IsFiniteSet(Spaces) BY FilesAre DEF NumbersAssumption
<1> HIDE DEF N, h
<1>8. Cardinality(Num!Files) = Cardinality(N) BY <1>4, <1>5, <1>6, <1>7, CountRename
<1>9. \A f \in Num!Files : w[f] \in Spaces BY FilesAre DEF Documents
<1>10. \A s \in Spaces : {f \in Num!Files : w[f] = s} = {f \in Num!Files : f[2].ws = s} OBVIOUS
<1>11. \A s \in Spaces : Num!Collected.spaceTotals[s] = g[s] BY <1>10, CollectedIs
<1> HIDE DEF w
<1>12. Cardinality(Num!Files) = SumFunctionOnSet(g, Spaces) BY <1>7, <1>9, CountGroups
<1> HIDE DEF g
<1>13. SumFunctionOnSet(Num!Collected.spaceTotals, Spaces) = SumFunctionOnSet(g, Spaces)
  BY <1>7, <1>11, SumEqual
<1> QED BY <1>8, <1>12, <1>13, CollectedIs DEF N

LEMMA MonthsAre ==
  ASSUME NumbersAssumption
  PROVE  IsFiniteSet(Num!Months) /\ \A m \in Num!Months : m = <<m[1], m[2]>> /\ m[1] \in Nat /\ m[2] \in Nat
<1>1. IsFiniteSet(Num!Months)
  <2> DEFINE h == [d \in Days |-> Num!Key(d, 2)]
  <2>1. Num!Months = {h[d] : d \in Days} BY DEF Num!Months
  <2> HIDE DEF h
  <2> QED BY <2>1, ImageIsFinite DEF NumbersAssumption
<1>2. ASSUME NEW m \in Num!Months PROVE m = <<m[1], m[2]>> /\ m[1] \in Nat /\ m[2] \in Nat
  <2>1. PICK d \in Days : m = Num!Key(d, 2)
    BY DEF Num!Months
  <2> QED BY <2>1, DayIs
<1> QED BY <1>1, <1>2

(* Days of a month, and months of a year or at all. *)
LEMMA MonthHas ==
  ASSUME NumbersAssumption, NEW d \in Days, NEW m \in Num!Months
  PROVE  Num!Within(d, m) <=> Num!Key(d, 2) = m
<1>1. d = <<d[1], d[2], d[3]>> /\ d[1] \in Nat /\ d[2] \in Nat /\ d[3] \in Nat /\ Num!Key(d, 2) = <<d[1], d[2]>>
  BY DayIs
<1>2. m = <<m[1], m[2]>> /\ m[1] \in Nat /\ m[2] \in Nat BY MonthsAre
<1>3. Num!Within(<<d[1], d[2], d[3]>>, <<m[1], m[2]>>) <=> d[1] = m[1] /\ d[2] = m[2]
  BY <1>1, <1>2, WithinMonth
<1>4. <<d[1], d[2]>> = <<m[1], m[2]>> <=> d[1] = m[1] /\ d[2] = m[2] OBVIOUS
<1> QED BY <1>1, <1>2, <1>3, <1>4

LEMMA MonthIn ==
  ASSUME NumbersAssumption, NEW m \in Num!Months, NEW n \in Num!Months
  PROVE  Num!Within(m, <<>>) /\ (Num!Within(m, n) <=> m = n)
<1>1. m = <<m[1], m[2]>> /\ m[1] \in Nat /\ m[2] \in Nat BY MonthsAre
<1>2. n = <<n[1], n[2]>> /\ n[1] \in Nat /\ n[2] \in Nat BY MonthsAre
<1>3. Num!Within(<<m[1], m[2]>>, <<n[1], n[2]>>) <=> m[1] = n[1] /\ m[2] = n[2]
  BY <1>1, <1>2, SameMonthOf
<1>4. <<m[1], m[2]>> = <<n[1], n[2]>> <=> m[1] = n[1] /\ m[2] = n[2] OBVIOUS
<1>5. Num!Within(<<m[1], m[2]>>, <<>>) BY <1>1, WithinAll
<1> QED BY <1>1, <1>2, <1>3, <1>4, <1>5

LEMMA YearHas ==
  ASSUME NumbersAssumption, NEW d \in Days, NEW e \in Days
  PROVE  Num!Within(d, Num!Key(e, 1)) <=> Num!Within(Num!Key(d, 2), Num!Key(e, 1))
<1>1. d = <<d[1], d[2], d[3]>> /\ d[1] \in Nat /\ d[2] \in Nat /\ d[3] \in Nat /\ Num!Key(d, 2) = <<d[1], d[2]>>
  BY DayIs
<1>2. Num!Key(e, 1) = <<e[1]>> /\ e[1] \in Nat BY DayIs
<1>3. Num!Within(<<d[1], d[2], d[3]>>, <<e[1]>>) <=> Num!Within(<<d[1], d[2]>>, <<e[1]>>)
  BY <1>1, <1>2, WithinYear
<1> QED BY <1>1, <1>2, <1>3

(* Rows that count nothing have no branch; the rest of the tree is all     *)
(* there is, whether by library or at large.                               *)
LEMMA TreeIsAll ==
  ASSUME NumbersAssumption, NumbersInv, NEW period, NEW Z \in {Everything, Bulky}
  PROVE  /\ Amount(Z, Below(period, Users, {None})) = Amount(Z, Whole(period))
         /\ Amount(Z, Below(period, Users, Spaces)) = Amount(Z, Whole(period))
         /\ Amount(Z, Spread(period)) = Amount(Z, Whole(period))
<1>1. \A s \in Spots \cup Num!PersonDays : Counts[s] \in Nat /\ Counts[s] = Num!CountOf(Num!Collected, s)
  BY CountsAre
<1>2. Amount(Z, Whole(period)) = Amount(Z, Below(period, Users, {None}))
  <2>1. Whole(period) \in SUBSET (Spots \cup Num!PersonDays) /\ Below(period, Users, {None}) \in SUBSET Whole(period)
    BY DEF Whole, Below, Num!PersonDays
  <2>2. \A s \in Whole(period) \ Below(period, Users, {None}) : ~(Num!CountOf(Num!Collected, s) > 0)
    BY DEF Whole, Below, Num!PersonDays
  <2>3. \A s \in Whole(period) \ Below(period, Users, {None}) : Counts[s] = 0 BY <1>1, <2>1, <2>2
  <2> QED BY <2>1, <2>3, AmountZeros
<1>3. Amount(Z, Spread(period)) = Amount(Z, Below(period, Users, Spaces))
  <2>1. Spread(period) \in SUBSET (Spots \cup Num!PersonDays)
          /\ Below(period, Users, Spaces) \in SUBSET Spread(period)
    BY DEF Spread, Below, Spots
  <2>2. \A s \in Spread(period) \ Below(period, Users, Spaces) : ~(Num!CountOf(Num!Collected, s) > 0)
    BY DEF Spread, Below, Spots
  <2>3. \A s \in Spread(period) \ Below(period, Users, Spaces) : Counts[s] = 0 BY <1>1, <2>1, <2>2
  <2> QED BY <2>1, <2>3, AmountZeros
<1>4. Amount(Z, Spread(period)) = Amount(Z, Whole(period))
  <2> DEFINE D == {p \in Users \X Days : Num!Within(p[2], period)}
  <2>1. ASSUME NEW w \in Spaces, NEW u \in Users, NEW d \in Days PROVE <<w, u, d>> \in Z <=> <<None, u, d>> \in Z
    <3>1. <<w, u, d>> \in Spots /\ <<None, u, d>> \in Num!PersonDays BY DEF Spots, Num!PersonDays
    <3>2. CASE Z = Everything BY <3>1, <3>2 DEF Everything
    <3>3. CASE Z = Bulky
      <4>1. Num!Bulk(Num!Collected, <<w, u, d>>) <=> Num!Bulk(Num!Collected, <<None, u, d>>)
        BY DEF Num!Bulk
      <4> QED BY <3>1, <3>3, <4>1 DEF Bulky
    <3> QED BY <3>2, <3>3
  <2>2. Spread(period) = {s \in Spots : <<s[2], s[3]>> \in D} BY DEF Spread, Spots
  <2>3. Whole(period) = {s \in Num!PersonDays : <<s[2], s[3]>> \in D} BY DEF Whole, Num!PersonDays
  <2> HIDE DEF D
  <2>4. Amount(Z, {s \in Spots : <<s[2], s[3]>> \in D}) = Amount(Z, {s \in Num!PersonDays : <<s[2], s[3]>> \in D})
    BY <2>1, SpacesTogether
  <2> QED BY <2>2, <2>3, <2>4
<1> QED BY <1>2, <1>3, <1>4

(* Drilling down, scopes and increments. *)
LEMMA DrillHolds == ASSUME NumbersAssumption, NumbersInv PROVE Num!DrillAgrees
<1> DEFINE data == Num!Collected
           T(period, people, spaces) == Num!Tree(data, period, people, spaces)
<1>1. data.totalFiles = Cardinality({n \in Nodes :
        /\ docs[n] # Deleted
        /\ IF base[n] # None THEN Num!Visible(base[n]) ELSE Num!Visible(docs[n])})
  BY FilesOnce
<1>2. \A people \in {Users, Num!RdPeople}, period \in {<<>>} \cup {Num!Key(d, 1) : d \in Days} :
        \A k \in DOMAIN T(period, people, {None}) :
          /\ Num!Sum(T(k, people, {None})) = T(period, people, {None})[k].total
          /\ Num!SumBulk(T(k, people, {None})) = T(period, people, {None})[k].bulk
  BY DrillDown
<1>3. ASSUME NEW period
      PROVE  /\ Num!Sum(T(period, Users, {None})) = Amount(Everything, Whole(period))
             /\ Num!SumBulk(T(period, Users, {None})) = Amount(Bulky, Whole(period))
             /\ Num!Sum(T(period, Users, Spaces)) = Amount(Everything, Whole(period))
             /\ Num!SumBulk(T(period, Users, Spaces)) = Amount(Bulky, Whole(period))
  <2>1. /\ Num!Sum(T(period, Users, {None})) = Amount(Everything, Below(period, Users, {None}))
        /\ Num!SumBulk(T(period, Users, {None})) = Amount(Bulky, Below(period, Users, {None}))
        /\ Num!Sum(T(period, Users, Spaces)) = Amount(Everything, Below(period, Users, Spaces))
        /\ Num!SumBulk(T(period, Users, Spaces)) = Amount(Bulky, Below(period, Users, Spaces))
    BY TreeIs
  <2> QED BY <2>1, TreeIsAll
<1>4. ASSUME NEW m
      PROVE  /\ Num!Increment(data, m).total = Amount(Everything, Whole(m))
             /\ Num!Increment(data, m).bulk = Amount(Bulky, Whole(m))
  <2>1. Num!Increment(data, m) = Num!Counted(data, Whole(m)) /\ Whole(m) \in SUBSET (Spots \cup Num!PersonDays)
    BY DEF Num!Increment, Whole
  <2> QED BY <2>1, CountedIs
<1>5. ASSUME NEW m PROVE SumFunction([w \in Spaces |-> Num!SpaceMonth(data, w, m)]) = Amount(Everything, Whole(m))
  <2> DEFINE f == [w \in Spaces |-> Num!SpaceMonth(data, w, m)]
             h == [s \in Spots |-> s[1]]
  <2>1. SumFunction(f) = SumFunctionOnSet(f, Spaces)
    <3>1. DOMAIN f = Spaces OBVIOUS
    <3> HIDE DEF f
    <3> QED BY <3>1 DEF SumFunction
  <2>2. ASSUME NEW w \in Spaces PROVE f[w] = Amount(Everything, Among(Spread(m), h, w))
    <3>1. f[w] = SumFunctionOnSet(data.cells, {s \in Spots : s[1] = w /\ Num!Within(s[3], m)})
      BY CollectedIs, NumCounts DEF Num!SpaceMonth
    <3> DEFINE A == {s \in Spots : s[1] = w /\ Num!Within(s[3], m)}
    <3>2. Among(Spread(m), h, w) \cap Everything = A BY DEF Spread, Everything, Among
    <3>3. IsFiniteSet(A) /\ \A s \in A : data.cells[s] = Counts[s] BY CountsAre, FS_Subset
    <3> HIDE DEF A
    <3>4. SumFunctionOnSet(data.cells, A) = SumFunctionOnSet(Counts, A) BY <3>3, SumEqual
    <3> QED BY <3>1, <3>2, <3>4 DEF A, Amount
  <2>3. Spread(m) \in SUBSET (Spots \cup Num!PersonDays) /\ \A s \in Spread(m) : h[s] \in Spaces
    BY DEF Spread, Spots
  <2>4. Amount(Everything, Spread(m)) = SumFunctionOnSet(f, Spaces)
    <3> DEFINE S == Spread(m)
               Z == Everything
    <3>1. (\A w \in Spaces : f[w] = Amount(Z, Among(S, h, w))) /\ IsFiniteSet(Spaces)
      BY <2>2, CountsAre
    <3>2. S \in SUBSET (Spots \cup Num!PersonDays) /\ \A s \in S : h[s] \in Spaces BY <2>3
    <3> HIDE DEF S, Z, f, h
    <3>3. Amount(Z, S) = SumFunctionOnSet(f, Spaces) BY <3>1, <3>2, AmountGroups
    <3> QED BY <3>3 DEF S, Z
  <2> HIDE DEF f
  <2>5. SumFunction(f) = Amount(Everything, Whole(m)) BY <2>1, <2>4, TreeIsAll
  <2> QED BY <2>5 DEF f
<1>6. ASSUME NEW e \in Days PROVE Num!Yearly(data, Num!Key(e, 1)).total = Amount(Everything, Whole(Num!Key(e, 1)))
  <2> DEFINE y == Num!Key(e, 1)
             in == {m \in Num!Months : Num!Within(m, y)}
             f == [m \in in |-> Num!Increment(data, m).total]
             h == [s \in Num!PersonDays |-> Num!Key(s[3], 2)]
  <2>1. Num!Yearly(data, y).total = SumFunction(f) BY NumCounts DEF Num!Yearly
  <2>2. SumFunction(f) = SumFunctionOnSet(f, in)
    <3>1. DOMAIN f = in OBVIOUS
    <3> HIDE DEF f
    <3> QED BY <3>1 DEF SumFunction
  <2>3. Whole(y) \in SUBSET (Spots \cup Num!PersonDays) /\ \A s \in Num!PersonDays : s[3] \in Days
    BY DEF Whole, Num!PersonDays
  <2>4. \A s \in Whole(y) : h[s] \in in
    <3>1. ASSUME NEW s \in Whole(y) PROVE Num!Key(s[3], 2) \in Num!Months /\ Num!Within(Num!Key(s[3], 2), y)
      <4>1. s[3] \in Days /\ Num!Within(s[3], y) BY <2>3 DEF Whole
      <4> QED BY <4>1, YearHas DEF Num!Months
    <3> QED BY <3>1 DEF Whole
  <2>5. ASSUME NEW m \in in PROVE f[m] = Amount(Everything, Among(Whole(y), h, m))
    <3>1. ASSUME NEW s \in Num!PersonDays PROVE Num!Within(s[3], m) <=> Num!Within(s[3], y) /\ Num!Key(s[3], 2) = m
      <4>1. s[3] \in Days /\ m \in Num!Months /\ Num!Within(m, y) BY <2>3
      <4>2. Num!Within(s[3], m) <=> Num!Key(s[3], 2) = m BY <4>1, MonthHas
      <4>3. Num!Within(s[3], y) <=> Num!Within(Num!Key(s[3], 2), y) BY <4>1, YearHas
      <4> QED BY <4>1, <4>2, <4>3
    <3>2. Among(Whole(y), h, m) = Whole(m) BY <3>1 DEF Whole, Among
    <3> QED BY <1>4, <3>2
  <2>6. IsFiniteSet(in) BY MonthsAre, FS_Subset
  <2> HIDE DEF y, in, f, h
  <2>7. Amount(Everything, Whole(y)) = SumFunctionOnSet(f, in)
    <3> DEFINE S == Whole(y)
               Z == Everything
    <3>1. \A m \in in : f[m] = Amount(Z, Among(S, h, m)) BY <2>5
    <3>2. S \in SUBSET (Spots \cup Num!PersonDays) /\ \A s \in S : h[s] \in in BY <2>3, <2>4
    <3> HIDE DEF S, Z
    <3>3. Amount(Z, S) = SumFunctionOnSet(f, in) BY <2>6, <3>1, <3>2, AmountGroups
    <3> QED BY <3>3 DEF S, Z
  <2> QED BY <2>1, <2>2, <2>7 DEF y
<1> HIDE DEF T
<1>7. \A period : /\ Num!Sum(T(period, Users, Spaces)) = Num!Sum(T(period, Users, {None}))
                  /\ Num!SumBulk(T(period, Users, Spaces)) = Num!SumBulk(T(period, Users, {None}))
  BY <1>3
<1>8. \A m : /\ Num!Increment(data, m).total = Num!Sum(T(m, Users, {None}))
             /\ Num!Increment(data, m).bulk = Num!SumBulk(T(m, Users, {None}))
             /\ SumFunction([w \in Spaces |-> Num!SpaceMonth(data, w, m)]) = Num!Increment(data, m).total
  BY <1>3, <1>4, <1>5
<1>9. \A y \in {Num!Key(d, 1) : d \in Days} : Num!Yearly(data, y).total = Num!Sum(T(y, Users, {None}))
  BY <1>3, <1>6
<1> QED BY <1>1, <1>2, <1>7, <1>8, <1>9, NumCounts DEF Num!DrillAgrees, T


LEMMA StatsAre ==
  ASSUME NumbersAssumption, NumbersInv
  PROVE  /\ IsFiniteSet(Num!Stats) /\ \A s \in Num!Stats : FileCounts[s] \in Nat /\ FileCounts[s] = Num!FileCount(s)
         /\ \A s \in Num!Stats : s[1] \in Spaces /\ s[2] \in Users /\ s[3] \in Num!Months
<1>1. IsFiniteSet(Users) /\ IsFiniteSet(Spaces) /\ IsFiniteSet(Num!Months)
  BY MonthsAre DEF NumbersAssumption
<1> DEFINE A == Spaces \X (Users \X Num!Months)
           h == [q \in A |-> <<q[1], q[2][1], q[2][2]>>]
<1>2. IsFiniteSet(A)
  <2>1. IsFiniteSet(Users \X Num!Months) BY <1>1, FS_Product
  <2> QED BY <1>1, <2>1, FS_Product
<1>3. Spaces \X Users \X Num!Months = {h[q] : q \in A}
  <2>1. ASSUME NEW w \in Spaces, NEW u \in Users, NEW m \in Num!Months PROVE <<w, u, m>> \in {h[q] : q \in A}
    <3>1. <<w, <<u, m>>>> \in A /\ h[<<w, <<u, m>>>>] = <<w, u, m>> OBVIOUS
    <3> HIDE DEF h, A
    <3> QED BY <3>1
  <2>2. ASSUME NEW q \in A PROVE h[q] \in Spaces \X Users \X Num!Months
    OBVIOUS
  <2> HIDE DEF h, A
  <2>3. \A s \in Spaces \X Users \X Num!Months : \E w \in Spaces, u \in Users, m \in Num!Months : s = <<w, u, m>>
    OBVIOUS
  <2> QED BY <2>1, <2>2, <2>3
<1>4. IsFiniteSet(Num!Stats)
  <2> HIDE DEF A, h
  <2>1. IsFiniteSet({h[q] : q \in A}) BY <1>2, ImageIsFinite
  <2>2. Num!Stats \subseteq Spaces \X Users \X Num!Months BY DEF Num!Stats
  <2> QED BY <1>3, <2>1, <2>2, FS_Subset
<1>5. ASSUME NEW s \in Num!Stats PROVE FileCounts[s] \in Nat /\ FileCounts[s] = Num!FileCount(s)
  <2>1. Num!FilesAt(s) \in SUBSET Nodes /\ IsFiniteSet(Nodes) BY DEF Num!FilesAt, NumbersAssumption
  <2>2. Cardinality(Num!FilesAt(s)) \in Nat BY <2>1, FS_Subset, FS_CardinalityType
  <2> QED BY <2>2, NumCounts DEF Num!FileCount, FileCounts
<1>6. \A s \in Num!Stats : s[1] \in Spaces /\ s[2] \in Users /\ s[3] \in Num!Months BY DEF Num!Stats
<1> QED BY <1>4, <1>5, <1>6

LEMMA TallyIs ==
  ASSUME NumbersAssumption, NumbersInv, NEW rows \in SUBSET Num!Stats
  PROVE  SumFunction([s \in rows |-> Num!FileCount(s)]) = Tally(rows) /\ Tally(rows) \in Nat /\ IsFiniteSet(rows)
<1> DEFINE f == [s \in rows |-> Num!FileCount(s)]
<1>1. IsFiniteSet(rows) /\ \A s \in rows : f[s] = FileCounts[s] /\ FileCounts[s] \in Nat
  BY StatsAre, FS_Subset
<1>2. DOMAIN f = rows OBVIOUS
<1> HIDE DEF f
<1>3. SumFunction(f) = SumFunctionOnSet(f, rows) BY <1>2 DEF SumFunction
<1>4. SumFunctionOnSet(f, rows) = SumFunctionOnSet(FileCounts, rows) /\ SumFunctionOnSet(FileCounts, rows) \in Nat
  BY <1>1, SumEqual, SumType
<1>5. SumFunction(f) = Tally(rows) /\ Tally(rows) \in Nat BY <1>3, <1>4 DEF Tally
<1> QED BY <1>1, <1>5 DEF f

LEMMA TallyGroups ==
  ASSUME NumbersAssumption, NumbersInv, NEW rows \in SUBSET Num!Stats,
         NEW K, IsFiniteSet(K), NEW h, \A s \in rows : h[s] \in K,
         NEW g, \A k \in K : g[k] = Tally(Among(rows, h, k))
  PROVE  Tally(rows) = SumFunctionOnSet(g, K)
<1>1. IsFiniteSet(rows) /\ \A s \in rows : FileCounts[s] \in Nat BY TallyIs, StatsAre
<1>2. \A k \in K : g[k] = SumFunctionOnSet(FileCounts, Among(rows, h, k)) BY DEF Tally
<1>3. SumFunctionOnSet(FileCounts, rows) = SumFunctionOnSet(g, K) BY <1>1, <1>2, SumByGroup
<1> QED BY <1>3 DEF Tally

LEMMA TallySplits ==
  ASSUME NumbersAssumption, NumbersInv, NEW rows \in SUBSET Num!Stats, NEW part \in SUBSET rows
  PROVE  Tally(rows) = Tally(part) + Tally(rows \ part)
<1>1. IsFiniteSet(rows) /\ \A s \in rows : FileCounts[s] \in Nat BY TallyIs, StatsAre
<1> QED BY <1>1, SumSplit DEF Tally

LEMMA UploadedIs ==
  ASSUME NumbersAssumption, NumbersInv, NEW m, NEW u
  PROVE  Num!Uploaded(u, m) = Tally(RowsOf(m, {u}))
<1>1. RowsOf(m, {u}) \in SUBSET Num!Stats /\ RowsOf(m, {u}) = {t \in Num!StatsIn(m) : t[2] = u}
  BY DEF RowsOf, Num!StatsIn
<1>2. Num!Uploaded(u, m) = SumFunction([s \in RowsOf(m, {u}) |-> Num!FileCount(s)])
  BY <1>1, NumCounts DEF Num!Uploaded
<1> QED BY <1>1, <1>2, TallyIs

LEMMA FilesOfIs ==
  ASSUME NumbersAssumption, NumbersInv, NEW m, NEW people \in SUBSET Users
  PROVE  Num!FilesOf(m, people) = Tally(RowsOf(m, people))
<1> DEFINE f == [u \in people |-> Num!Uploaded(u, m)]
           h == [s \in Num!Stats |-> s[2]]
           Rws == RowsOf(m, people)
<1>1. Num!FilesOf(m, people) = SumFunction(f) BY NumCounts DEF Num!FilesOf
<1>2. SumFunction(f) = SumFunctionOnSet(f, people)
  <2>1. DOMAIN f = people OBVIOUS
  <2> HIDE DEF f
  <2> QED BY <2>1 DEF SumFunction
<1>3. Rws \in SUBSET Num!Stats /\ (\A s \in Rws : h[s] \in people) /\ IsFiniteSet(people)
  BY FS_Subset DEF RowsOf, Num!StatsIn, NumbersAssumption
<1>4. ASSUME NEW u \in people PROVE f[u] = Tally(Among(Rws, h, u))
  <2>1. Among(Rws, h, u) = RowsOf(m, {u}) BY <1>3 DEF Among, RowsOf
  <2> QED BY <2>1, UploadedIs
<1> HIDE DEF f, h, Rws
<1>5. Tally(Rws) = SumFunctionOnSet(f, people) BY <1>3, <1>4, TallyGroups
<1> QED BY <1>1, <1>2, <1>5 DEF Rws

LEMMA ByMonth ==
  ASSUME NumbersAssumption, NumbersInv, NEW rows \in SUBSET Num!Stats, NEW m \in {<<>>} \cup Num!Months,
         NEW f, DOMAIN f = {s[3] : s \in rows},
         \A k \in DOMAIN f : f[k] = Tally({s \in rows : Num!Within(s[3], k)})
  PROVE  SumFunctionOnSet(f, {k \in DOMAIN f : Num!Within(k, m)}) = Tally({s \in rows : Num!Within(s[3], m)})
<1> DEFINE K == {k \in DOMAIN f : Num!Within(k, m)}
           Rws == {s \in rows : Num!Within(s[3], m)}
           h == [s \in Num!Stats |-> s[3]]
<1>1. Rws \in SUBSET Num!Stats /\ K \in SUBSET Num!Months BY StatsAre
<1>2. IsFiniteSet(K) BY <1>1, MonthsAre, FS_Subset
<1>3. \A s \in Rws : h[s] \in K OBVIOUS
<1>4. ASSUME NEW k \in K PROVE f[k] = Tally(Among(Rws, h, k))
  <2>1. ASSUME NEW s \in rows PROVE Num!Within(s[3], k) <=> Num!Within(s[3], m) /\ s[3] = k
    <3>1. s[3] \in Num!Months /\ k \in Num!Months /\ Num!Within(k, m) BY <1>1, StatsAre
    <3> QED BY <3>1, MonthIn
  <2>2. Among(Rws, h, k) = {s \in rows : Num!Within(s[3], k)} BY <2>1 DEF Among
  <2> QED BY <2>2
<1> HIDE DEF K, Rws, h
<1>5. Tally(Rws) = SumFunctionOnSet(f, K) BY <1>1, <1>2, <1>3, <1>4, TallyGroups
<1> QED BY <1>5 DEF K, Rws

(* Departments, the organisation, the ranking and one person. *)
LEMMA RollupsHold == ASSUME NumbersAssumption, NumbersInv PROVE Num!RollupsAgree
<1> SUFFICES ASSUME NEW m \in {<<>>} \cup Num!Months
             PROVE  LET d == Num!DepartmentRollup(m)
                    IN  /\ SumFunction(d) = SumFunctionOnSet(Num!UploaderMonths,
                             {k \in DOMAIN Num!UploaderMonths : Num!Within(k, m)})
                        /\ \A k \in DOMAIN d : Num!OrgRollup(m)[k].delta = d[k]
                        /\ Cardinality(Num!Uploaders(m)) <= TopRows =>
                             /\ Num!Ranking(m).total = SumFunction(d)
                             /\ Num!Ranking(m).total = Num!Ranking(m).robot + Num!Ranking(m).unmatched + Num!Ranking(m).human
                        /\ \A u \in Users : LET b == Num!Breakdown(u, m) IN
                             b.period = SumFunctionOnSet(b.months, {k \in DOMAIN b.months : Num!Within(k, m)})
  BY NumCounts DEF Num!RollupsAgree
<1> DEFINE d == Num!DepartmentRollup(m)
           whole == Num!StatsIn(m)
           up == Num!Uploaders(m)
<1>1. whole \in SUBSET Num!Stats /\ IsFiniteSet(whole) /\ up \in SUBSET Users /\ IsFiniteSet(up)
        /\ up = {s[2] : s \in whole}
  <2>1. whole \in SUBSET Num!Stats /\ IsFiniteSet(whole) BY TallyIs DEF Num!StatsIn
  <2>2. up \in SUBSET Users /\ up = {s[2] : s \in whole} BY <2>1, StatsAre DEF Num!Uploaders
  <2>3. IsFiniteSet(up) BY <2>2, FS_Subset DEF NumbersAssumption
  <2> QED BY <2>1, <2>2, <2>3
<1>2. RowsOf(m, up) = whole BY DEF RowsOf, Num!Uploaders
<1>3. DOMAIN d = {Num!Person(u) : u \in up}
        /\ \A k \in DOMAIN d : d[k] = Num!FilesOf(m, {u \in up : Num!Person(u) = k})
  BY DEF Num!DepartmentRollup
<1>4. SumFunction(d) = Tally(whole)
  <2> DEFINE p == [u \in up |-> Num!Person(u)]
             K == {p[u] : u \in up}
             h == [s \in whole |-> Num!Person(s[2])]
  <2>1. DOMAIN d = K BY <1>3
  <2>2. IsFiniteSet(K)
    <3> HIDE DEF p
    <3> QED BY <1>1, ImageIsFinite
  <2>3. \A s \in whole : h[s] \in K BY <1>1
  <2>4. ASSUME NEW k \in K PROVE d[k] = Tally(Among(whole, h, k))
    <3> DEFINE Q == {u \in up : Num!Person(u) = k}
    <3>1. d[k] = Num!FilesOf(m, Q) /\ Q \in SUBSET Users BY <1>1, <1>3, <2>1
    <3>2. Among(whole, h, k) = RowsOf(m, Q) BY <1>1 DEF Among, RowsOf
    <3> HIDE DEF Q
    <3> QED BY <3>1, <3>2, FilesOfIs
  <2> HIDE DEF d, K, h, whole
  <2>5. Tally(whole) = SumFunctionOnSet(d, K) BY <1>1, <2>2, <2>3, <2>4, TallyGroups
  <2> QED BY <2>1, <2>5 DEF SumFunction
<1>5. SumFunctionOnSet(Num!UploaderMonths, {k \in DOMAIN Num!UploaderMonths : Num!Within(k, m)}) = Tally(whole)
  <2> DEFINE f == Num!UploaderMonths
  <2>1. DOMAIN f = {s[3] : s \in Num!Stats} BY DEF Num!UploaderMonths
  <2>2. ASSUME NEW k \in DOMAIN f PROVE f[k] = Tally({s \in Num!Stats : Num!Within(s[3], k)})
    <3>1. f[k] = SumFunction([s \in Num!StatsIn(k) |-> Num!FileCount(s)])
      BY <2>1, NumCounts DEF Num!UploaderMonths
    <3>2. Num!StatsIn(k) \in SUBSET Num!Stats /\ Num!StatsIn(k) = {s \in Num!Stats : Num!Within(s[3], k)}
      BY DEF Num!StatsIn
    <3> QED BY <3>1, <3>2, TallyIs
  <2> HIDE DEF f
  <2>3. SumFunctionOnSet(f, {k \in DOMAIN f : Num!Within(k, m)}) = Tally({s \in Num!Stats : Num!Within(s[3], m)})
    BY <2>1, <2>2, ByMonth
  <2> QED BY <2>3 DEF f, Num!StatsIn
<1>6. ASSUME NEW k \in DOMAIN d PROVE Num!OrgRollup(m)[k].delta = d[k]
  <2> DEFINE every == Num!Uploaders(<<>>)
  <2>1. \A s \in whole : s[2] \in every
    <3>1. \A s \in whole : s \in Num!Stats /\ Num!Within(s[3], <<>>) BY <1>1, StatsAre, MonthIn
    <3> QED BY <3>1 DEF Num!Uploaders, Num!StatsIn
  <2>2. up \subseteq every /\ every \subseteq Users
    BY <1>1, <2>1, StatsAre DEF Num!Uploaders, Num!StatsIn
  <2>3. k \in {Num!Person(u) : u \in every} BY <1>3, <2>2
  <2> DEFINE Q == {u \in up : Num!Person(u) = k}
             E == {u \in every : Num!Person(u) = k}
  <2>4. Num!OrgRollup(m)[k].delta = Num!FilesOf(m, E) BY <2>3 DEF Num!OrgRollup
  <2>5. RowsOf(m, E) = RowsOf(m, Q) BY <1>1, <2>1 DEF RowsOf
  <2>6. E \in SUBSET Users /\ Q \in SUBSET Users BY <2>2
  <2>7. d[k] = Num!FilesOf(m, Q) BY <1>3
  <2> HIDE DEF E, Q
  <2> QED BY <2>4, <2>5, <2>6, <2>7, FilesOfIs
<1>7. ASSUME Cardinality(up) <= TopRows
      PROVE  /\ Num!Ranking(m).total = SumFunction(d)
             /\ Num!Ranking(m).total = Num!Ranking(m).robot + Num!Ranking(m).unmatched + Num!Ranking(m).human
  <2>1. Num!Ranked(m) = up
    <3>1. ASSUME NEW u \in up PROVE Cardinality({v \in up : Num!Uploaded(v, m) > Num!Uploaded(u, m)}) < TopRows
      <4> DEFINE M == {v \in up : Num!Uploaded(v, m) > Num!Uploaded(u, m)}
      <4>1. Num!Uploaded(u, m) \in Nat
        <5>1. RowsOf(m, {u}) \in SUBSET Num!Stats BY DEF RowsOf, Num!StatsIn
        <5> QED BY <5>1, UploadedIs, TallyIs
      <4>2. M \in SUBSET (up \ {u}) BY <4>1
      <4>3. Cardinality(up \ {u}) \in Nat /\ Cardinality(up \ {u}) = Cardinality(up) - 1
        <5>1. up \in SUBSET up /\ IsFiniteSet(up) BY <1>1
        <5> HIDE DEF up
        <5> QED BY <5>1, SmallLess
      <4>4. IsFiniteSet(up \ {u}) BY <1>1, FS_Subset
      <4> HIDE DEF M, up
      <4>5. Cardinality(M) \in Nat /\ Cardinality(M) <= Cardinality(up \ {u})
        BY <4>2, <4>4, FS_Subset, FS_CardinalityType
      <4>6. Cardinality(up) \in Nat /\ TopRows \in Nat
        BY <1>1, FS_CardinalityType DEF NumbersAssumption
      <4>7. Cardinality(M) < TopRows BY <1>7, <4>3, <4>5, <4>6
      <4> QED BY <4>7 DEF M, up
    <3> QED BY <3>1, NumCounts DEF Num!Ranked
  <2> DEFINE Of(P) == {u \in up : Num!Person(u) \in P}
             Rws(P) == RowsOf(m, Of(P))
  <2>2. \A P : Of(P) \in SUBSET Users /\ Rws(P) \in SUBSET whole BY <1>1, <1>2 DEF RowsOf
  <2>3. /\ Num!Ranking(m).total = Tally(whole)
        /\ Num!Ranking(m).robot = Tally(Rws({"robot"})) /\ Num!Ranking(m).unmatched = Tally(Rws({"unmatched"}))
        /\ Num!Ranking(m).human = Tally(Rws(Num!Departments))
    <3>1. /\ Num!Ranking(m).total = Num!FilesOf(m, up)
          /\ Num!Ranking(m).robot = Num!FilesOf(m, {u \in up : Num!Person(u) = "robot"})
          /\ Num!Ranking(m).unmatched = Num!FilesOf(m, {u \in up : Num!Person(u) = "unmatched"})
          /\ Num!Ranking(m).human = Num!FilesOf(m, {u \in up : Num!Person(u) \in Num!Departments})
      BY <2>1 DEF Num!Ranking
    <3>2. {u \in up : Num!Person(u) = "robot"} = Of({"robot"})
            /\ {u \in up : Num!Person(u) = "unmatched"} = Of({"unmatched"})
      OBVIOUS
    <3> QED BY <1>1, <1>2, <2>2, <3>1, <3>2, FilesOfIs
  <2>4. ASSUME NEW s \in whole PROVE Num!Person(s[2]) \in {"robot", "unmatched"} \cup Num!Departments
    <3>1. s[2] \in Users BY <1>1, StatsAre
    <3> QED BY <3>1 DEF Num!Person, NumbersInv
  <2>5. whole \ Rws({"robot"}) = Rws({"unmatched"} \cup Num!Departments)
    <3>1. "robot" \notin {"unmatched"} \cup Num!Departments BY DEF Num!Departments
    <3> QED BY <1>1, <2>4, <3>1 DEF RowsOf
  <2>6. /\ Rws({"unmatched"}) \in SUBSET Rws({"unmatched"} \cup Num!Departments)
        /\ Rws({"unmatched"} \cup Num!Departments) \ Rws({"unmatched"}) = Rws(Num!Departments)
    <3>1. "unmatched" \notin Num!Departments BY DEF Num!Departments
    <3> QED BY <3>1 DEF RowsOf
  <2> HIDE DEF Rws, whole
  <2>7. Tally(whole) = Tally(Rws({"robot"})) + Tally(Rws({"unmatched"} \cup Num!Departments))
    BY <1>1, <2>2, <2>5, TallySplits
  <2>8. Tally(Rws({"unmatched"} \cup Num!Departments)) = Tally(Rws({"unmatched"})) + Tally(Rws(Num!Departments))
    <3>1. Rws({"unmatched"} \cup Num!Departments) \in SUBSET Num!Stats BY <1>1, <2>2
    <3> QED BY <2>6, <3>1, TallySplits
  <2>9. Tally(Rws({"robot"})) \in Nat /\ Tally(Rws({"unmatched"})) \in Nat /\ Tally(Rws(Num!Departments)) \in Nat
    <3>1. \A P : Rws(P) \in SUBSET Num!Stats BY <1>1, <2>2
    <3> QED BY <3>1, TallyIs
  <2> QED BY <1>4, <2>3, <2>7, <2>8, <2>9
<1>8. ASSUME NEW u \in Users
      PROVE  Num!Breakdown(u, m).period
               = SumFunctionOnSet(Num!Breakdown(u, m).months,
                 {k \in DOMAIN Num!Breakdown(u, m).months : Num!Within(k, m)})
  <2> DEFINE mine == {t \in Num!Stats : t[2] = u}
             f == Num!Breakdown(u, m).months
  <2>1. DOMAIN f = {s[3] : s \in mine} /\ Num!Breakdown(u, m).period = Num!Uploaded(u, m)
    BY DEF Num!Breakdown
  <2>2. \A k : {s \in mine : Num!Within(s[3], k)} = RowsOf(k, {u}) BY DEF RowsOf, Num!StatsIn
  <2>3. ASSUME NEW k \in DOMAIN f PROVE f[k] = Tally({s \in mine : Num!Within(s[3], k)})
    <3>1. f[k] = Num!Uploaded(u, k) BY <2>1 DEF Num!Breakdown
    <3> QED BY <2>2, <3>1, UploadedIs
  <2>4. mine \in SUBSET Num!Stats OBVIOUS
  <2> HIDE DEF f, mine
  <2>5. SumFunctionOnSet(f, {k \in DOMAIN f : Num!Within(k, m)}) = Tally({s \in mine : Num!Within(s[3], m)})
    BY <2>1, <2>3, <2>4, ByMonth
  <2> QED BY <2>1, <2>2, <2>5, UploadedIs DEF f
<1> QED BY <1>4, <1>5, <1>6, <1>7, <1>8

(* Pages have every row, and none is empty. *)
LEMMA PagesAre ==
  ASSUME NEW total \in Nat, NEW size \in 1..3
  PROVE  /\ UNION {Num!Page(total, p, size) : p \in 1..Num!Pages(total, size)} = 1..total
         /\ \A p \in 1..Num!Pages(total, size) : Num!Page(total, p, size) # {}
<1> DEFINE n == Num!Pages(total, size)
<1>1. n \in Nat /\ \A i \in 1..total : \E p \in 1..n : (p - 1) * size < i /\ i <= p * size
  <2>1. CASE size = 1
    <3>1. n = total BY <2>1 DEF Num!Pages
    <3>2. \A i \in 1..total : i \in 1..n /\ (i - 1) * 1 < i /\ i <= i * 1 BY <3>1
    <3> HIDE DEF n
    <3> QED BY <2>1, <3>1, <3>2
  <2>2. CASE size = 2
    <3>1. n = (total + 1) \div 2 BY <2>2 DEF Num!Pages
    <3>2. \A i \in 1..total : LET p == (i + 1) \div 2 IN p \in 1..n /\ (p - 1) * 2 < i /\ i <= p * 2
      BY <3>1
    <3>3. n \in Nat BY <3>1
    <3> HIDE DEF n
    <3> QED BY <2>2, <3>2, <3>3
  <2>3. CASE size = 3
    <3>1. n = (total + 2) \div 3 BY <2>3 DEF Num!Pages
    <3>2. \A i \in 1..total : LET p == (i + 2) \div 3 IN p \in 1..n /\ (p - 1) * 3 < i /\ i <= p * 3
      BY <3>1
    <3>3. n \in Nat BY <3>1
    <3> HIDE DEF n
    <3> QED BY <2>3, <3>2, <3>3
  <2> QED BY <2>1, <2>2, <2>3
<1>2. ASSUME NEW p \in 1..n PROVE (p - 1) * size + 1 \in 1..total /\ (p - 1) * size + 1 <= p * size
  <2>1. CASE size = 1 BY <2>1 DEF Num!Pages
  <2>2. CASE size = 2 BY <2>2 DEF Num!Pages
  <2>3. CASE size = 3 BY <2>3 DEF Num!Pages
  <2> QED BY <2>1, <2>2, <2>3
<1>3. \A p \in 1..n : \A i : i \in Num!Page(total, p, size) <=> i \in 1..total /\ (p - 1) * size < i /\ i <= p * size
  BY DEF Num!Page
<1> HIDE DEF n
<1>4. ASSUME NEW p \in 1..n PROVE Num!Page(total, p, size) # {}
  <2> DEFINE i == (p - 1) * size + 1
  <2>1. i \in 1..total /\ i <= p * size BY <1>2
  <2>2. (p - 1) * size \in Int BY <1>1
  <2>3. (p - 1) * size < i BY <2>2
  <2> HIDE DEF i
  <2> QED BY <1>3, <2>1, <2>3
<1>5. UNION {Num!Page(total, p, size) : p \in 1..n} = 1..total BY <1>1, <1>3
<1> QED BY <1>4, <1>5 DEF n

LEMMA FilesInIs ==
  ASSUME NumbersAssumption, NumbersInv, NEW rows \in SUBSET Num!Stats
  PROVE  Num!FilesIn(rows) = Tally(rows) /\ Tally(rows) \in Nat /\ IsFiniteSet(rows)
BY TallyIs, NumCounts DEF Num!FilesIn

(* A month, its employees and their libraries. *)
LEMMA ExportsHold == ASSUME NumbersAssumption, NumbersInv PROVE Num!ExportsAgree
<1> SUFFICES ASSUME NEW m \in Num!Months
             PROVE  LET sum == Num!MonthlySummary(m)
                        people == Num!MonthlyEmployees(m)
                        cells == Num!MonthlyEmployeeWorkspaces(m)
                    IN  /\ sum.official = Num!SumFunction([k \in DOMAIN people |-> people[k].files])
                        /\ sum.official = Num!SumFunction(cells)
                        /\ sum.employees = Num!Cardinality(DOMAIN people)
                        /\ \A k \in DOMAIN people :
                             people[k].spaces = Num!Cardinality({f \in DOMAIN cells : f[1] = k}) /\ k \notin Robots
                        /\ sum.excluded >= 0
                        /\ \A size \in 1..3 :
                             LET total == Num!Cardinality(DOMAIN cells)
                             IN  /\ UNION {Num!Page(total, p, size) : p \in 1..Num!Pages(total, size)} = 1..total
                                 /\ \A p \in 1..Num!Pages(total, size) : Num!Page(total, p, size) # {}
  BY DEF Num!ExportsAgree
<1> DEFINE sum == Num!MonthlySummary(m)
           people == Num!MonthlyEmployees(m)
           cells == Num!MonthlyEmployeeWorkspaces(m)
           S == Num!SourceRows(m)
           O == Num!OfficialRows(m)
           e == [s \in O |-> KeyOf[s[2]]]
           c == [s \in O |-> <<KeyOf[s[2]], s[1]>>]
<1>1. S \in SUBSET Num!Stats /\ O \in SUBSET S /\ O \in SUBSET Num!Stats /\ IsFiniteSet(O) /\ IsFiniteSet(S)
  <2>1. S \in SUBSET Num!Stats /\ O \in SUBSET S
    BY DEF Num!SourceRows, Num!OfficialRows, Num!StatsIn
  <2> QED BY <2>1, FilesInIs
<1>2. /\ sum.official = Num!FilesIn(O) /\ sum.excluded = Num!FilesIn(S) - Num!FilesIn(O)
      /\ sum.employees = Cardinality({KeyOf[s[2]] : s \in O})
  BY NumCounts DEF Num!MonthlySummary
<1>3. /\ DOMAIN people = {KeyOf[s[2]] : s \in O}
      /\ \A k \in DOMAIN people :
           /\ people[k].files = Num!FilesIn({s \in O : KeyOf[s[2]] = k})
           /\ people[k].spaces = Cardinality({s[1] : s \in {t \in O : KeyOf[t[2]] = k}})
  BY NumCounts DEF Num!MonthlyEmployees
<1>4. /\ DOMAIN cells = {<<KeyOf[s[2]], s[1]>> : s \in O}
      /\ \A f \in DOMAIN cells : cells[f] = Num!FilesIn({s \in O : <<KeyOf[s[2]], s[1]>> = f})
  BY DEF Num!MonthlyEmployeeWorkspaces
<1>5. \A s \in O : KeyOf[s[2]] \notin Robots BY DEF Num!OfficialRows, Num!IsOfficial
<1> HIDE DEF S, O, sum, people, cells
<1>6. sum.official = SumFunction([k \in DOMAIN people |-> people[k].files])
  <2> DEFINE f == [k \in DOMAIN people |-> people[k].files]
             K == {e[s] : s \in O}
  <2>1. DOMAIN f = K /\ DOMAIN people = K /\ \A s \in O : e[s] \in K BY <1>3
  <2>2. IsFiniteSet(K)
    <3> HIDE DEF e
    <3> QED BY <1>1, ImageIsFinite
  <2>3. ASSUME NEW k \in K PROVE f[k] = Tally(Among(O, e, k))
    <3>1. Among(O, e, k) = {s \in O : KeyOf[s[2]] = k} BY DEF Among
    <3>2. f[k] = Num!FilesIn(Among(O, e, k)) /\ Among(O, e, k) \in SUBSET Num!Stats
      BY <1>1, <1>3, <2>1, <3>1
    <3> QED BY <3>2, FilesInIs
  <2> HIDE DEF f, K, e
  <2>4. Tally(O) = SumFunctionOnSet(f, K) BY <1>1, <2>1, <2>2, <2>3, TallyGroups
  <2>5. sum.official = SumFunction(f) BY <1>1, <1>2, <2>1, <2>4, FilesInIs DEF SumFunction
  <2> QED BY <2>5 DEF f
<1>7. IsFiniteSet(DOMAIN cells)
  <2>1. DOMAIN cells = {c[s] : s \in O} BY <1>4
  <2> HIDE DEF c
  <2> QED BY <1>1, <2>1, ImageIsFinite
<1>8. sum.official = SumFunction(cells)
  <2> DEFINE K == DOMAIN cells
  <2>1. \A s \in O : c[s] \in K BY <1>4
  <2>2. ASSUME NEW k \in K PROVE cells[k] = Tally(Among(O, c, k))
    <3>1. Among(O, c, k) = {s \in O : <<KeyOf[s[2]], s[1]>> = k} BY DEF Among
    <3>2. cells[k] = Num!FilesIn(Among(O, c, k)) /\ Among(O, c, k) \in SUBSET Num!Stats
      BY <1>1, <1>4, <3>1
    <3> QED BY <3>2, FilesInIs
  <2> HIDE DEF K, c
  <2>3. IsFiniteSet(K) BY <1>7 DEF K
  <2>4. Tally(O) = SumFunctionOnSet(cells, K) BY <1>1, <2>1, <2>2, <2>3, TallyGroups
  <2>5. SumFunction(cells) = SumFunctionOnSet(cells, K) BY DEF SumFunction, K
  <2> QED BY <1>1, <1>2, <2>4, <2>5, FilesInIs
<1>9. sum.employees = Cardinality(DOMAIN people) BY <1>2, <1>3
<1>10. ASSUME NEW k \in DOMAIN people PROVE people[k].spaces = Cardinality({f \in DOMAIN cells : f[1] = k})
                    /\ k \notin Robots
  <2> DEFINE A == {s[1] : s \in {t \in O : KeyOf[t[2]] = k}}
             K == {f \in DOMAIN cells : f[1] = k}
             h == [w \in A |-> <<k, w>>]
  <2>1. people[k].spaces = Cardinality(A) /\ k \notin Robots BY <1>3, <1>5
  <2>2. \A w \in A : h[w] \in K
    <3>1. ASSUME NEW s \in O, KeyOf[s[2]] = k PROVE <<k, s[1]>> \in K
      BY <1>4, <3>1
    <3> QED BY <3>1
  <2>3. \A f \in K : \E w \in A : h[w] = f
    <3>1. ASSUME NEW f \in K PROVE \E w \in A : h[w] = f
      <4>1. PICK s \in O : f = <<KeyOf[s[2]], s[1]>>
        BY <1>4
      <4>2. KeyOf[s[2]] = k BY <4>1
      <4>3. s[1] \in A BY <4>2
      <4>4. h[s[1]] = f BY <4>1, <4>2, <4>3
      <4> QED BY <4>3, <4>4
    <3> QED BY <3>1
  <2>4. \A v, w \in A : h[v] = h[w] => v = w OBVIOUS
  <2>5. IsFiniteSet(A)
    <3> DEFINE l == [s \in O |-> s[1]]
               X == {t \in O : KeyOf[t[2]] = k}
    <3>1. A = {l[s] : s \in X} OBVIOUS
    <3>2. IsFiniteSet(X) BY <1>1, FS_Subset
    <3> HIDE DEF l, X, A
    <3> QED BY <3>1, <3>2, ImageIsFinite
  <2> HIDE DEF A, K, h
  <2>6. Cardinality(A) = Cardinality(K) BY <2>2, <2>3, <2>4, <2>5, CountRename
  <2> QED BY <2>1, <2>6 DEF K
<1>11. sum.excluded >= 0
  <2>1. Tally(O) \in Nat /\ Tally(S \ O) \in Nat /\ Tally(S) = Tally(O) + Tally(S \ O)
    BY <1>1, TallySplits, TallyIs
  <2> QED BY <1>1, <1>2, <2>1, FilesInIs
<1>12. Cardinality(DOMAIN cells) \in Nat BY <1>7, FS_CardinalityType
<1>13. \A size \in 1..3 :
         LET total == Cardinality(DOMAIN cells)
         IN  /\ UNION {Num!Page(total, p, size) : p \in 1..Num!Pages(total, size)} = 1..total
             /\ \A p \in 1..Num!Pages(total, size) : Num!Page(total, p, size) # {}
  BY <1>12, PagesAre
<1> QED BY <1>6, <1>8, <1>9, <1>10, <1>11, <1>13, NumCounts DEF sum, people, cells

(* Libraries without files have none in any month. *)
LEMMA SpaceMonthIs ==
  ASSUME NumbersAssumption, NumbersInv, NEW w \in Spaces, NEW p
  PROVE  /\ Num!SpaceMonth(Num!Collected, w, p) \in Nat /\ Num!Collected.spaceTotals[w] \in Nat
         /\ Num!Collected.spaceTotals[w] = 0 => Num!SpaceMonth(Num!Collected, w, p) = 0
         /\ Num!Collected.spaceTotals[w] = 0 => \A f \in Num!Files : f[2].ws # w
<1> DEFINE A == {s \in Spots : s[1] = w /\ Num!Within(s[3], p)}
           N == {f \in Num!Files : f[2].ws = w}
           cells == Num!Collected.cells
<1>1. Num!SpaceMonth(Num!Collected, w, p) = SumFunctionOnSet(cells, A)
  BY CollectedIs, NumCounts DEF Num!SpaceMonth
<1>2. IsFiniteSet(A) /\ IsFiniteSet(N) BY CountsAre, FilesAre, FS_Subset
<1>3. \A s \in A : cells[s] \in Nat /\ cells[s] = Cardinality(At(s)) /\ s \in Spots BY CountsAre
<1>4. Num!Collected.spaceTotals[w] = Cardinality(N) /\ Cardinality(N) \in Nat
  BY <1>2, CollectedIs, FS_CardinalityType
<1>5. Cardinality(N) = 0 => N = {} BY <1>2, FS_EmptySet
<1>6. ASSUME N = {}, NEW s \in A PROVE cells[s] = 0
  <2>1. At(s) = {} BY <1>6 DEF At, Spots
  <2> QED BY <1>3, <2>1, FS_EmptySet
<1> HIDE DEF A, N, cells
<1>7. SumFunctionOnSet(cells, A) \in Nat BY <1>2, <1>3, SumType
<1>8. ASSUME N = {} PROVE SumFunctionOnSet(cells, A) = 0
  <2>1. {} \in SUBSET A /\ \A s \in A \ {} : cells[s] = 0 BY <1>6, <1>8
  <2>2. SumFunctionOnSet(cells, A) = SumFunctionOnSet(cells, {}) BY <1>2, <1>3, <2>1, SumZeros
  <2> QED BY <2>2, SumEmpty
<1>9. N = {} => \A f \in Num!Files : f[2].ws # w BY DEF N
<1> QED BY <1>1, <1>4, <1>5, <1>7, <1>8, <1>9

(* The latest reviews, one of each live file that has one.                 *)
LEMMA LatestAre ==
  ASSUME NumbersAssumption, NumbersInv
  PROVE  /\ IsFiniteSet(Num!LatestReviews) /\ IsFiniteSet(Num!Live)
         /\ Cardinality(Num!LatestReviews) = Cardinality(Num!Live)
         /\ \A r \in Num!LatestReviews : /\ r[1] \in Num!Live /\ docs[r[1]] \in Documents
              /\ docs[r[1]].ws \in Num!Eligible
                                     /\ r[2].day \in Days /\ r[2].verdict \in Num!Verdicts
<1> DEFINE h == [n \in Num!Live |-> <<n, Reviews[n][Len(Reviews[n])]>>]
<1>1. Num!LatestReviews = {h[n] : n \in Num!Live} BY DEF Num!LatestReviews
<1>2. IsFiniteSet(Num!Live) BY FS_Subset DEF Num!Live, NumbersAssumption
<1>3. IsFiniteSet(Num!LatestReviews)
  <2> HIDE DEF h
  <2> QED BY <1>1, <1>2, ImageIsFinite
<1>4. \A n \in Num!Live : h[n] \in Num!LatestReviews BY <1>1
<1>5. \A r \in Num!LatestReviews : \E n \in Num!Live : h[n] = r BY <1>1
<1>6. \A a, b \in Num!Live : h[a] = h[b] => a = b OBVIOUS
<1>7. Cardinality(Num!Live) = Cardinality(Num!LatestReviews)
  <2> HIDE DEF h
  <2> QED BY <1>2, <1>4, <1>5, <1>6, CountRename
<1>8. ASSUME NEW r \in Num!LatestReviews
      PROVE  /\ r[1] \in Num!Live /\ docs[r[1]] \in Documents /\ docs[r[1]].ws \in Num!Eligible
             /\ r[2].day \in Days /\ r[2].verdict \in Num!Verdicts
  <2>1. PICK n \in Num!Live : r = <<n, Reviews[n][Len(Reviews[n])]>>
    BY DEF Num!LatestReviews
  <2>2. n \in Nodes /\ docs[n] \in Documents /\ docs[n].ws \in Num!Eligible /\ Reviews[n] # <<>>
    BY DEF Num!Live, NumbersInv
  <2>3. Reviews[n] \in Seq([day : Days, verdict : Num!Verdicts, score : Nat])
    BY <2>2 DEF NumbersAssumption
  <2>4. Reviews[n][Len(Reviews[n])] \in [day : Days, verdict : Num!Verdicts, score : Nat]
    <3> DEFINE T == [day : Days, verdict : Num!Verdicts, score : Nat]
               q == Reviews[n]
    <3>1. q \in Seq(T) /\ q # <<>> BY <2>2, <2>3
    <3> HIDE DEF T, q
    <3>2. Len(q) \in 1..Len(q) BY <3>1
    <3>3. q[Len(q)] \in T BY <3>1, <3>2
    <3> QED BY <3>3 DEF T, q
  <2> QED BY <2>1, <2>2, <2>4
<1> QED BY <1>2, <1>3, <1>7, <1>8

LEMMA QualityIs ==
  ASSUME NEW Rws
  PROVE  /\ Num!Quality(Rws).reviewed = Cardinality(Rws)
         /\ Num!Quality(Rws).verdicts = [v \in Num!Verdicts |-> Cardinality({r \in Rws : r[2].verdict = v})]
BY NumCounts DEF Num!Quality

(* A review in no listed library is of a file the baseline has elsewhere.  *)
LEMMA StraysAre ==
  ASSUME NumbersAssumption, NumbersInv, NEW r \in Num!LatestReviews, docs[r[1]].ws \notin Num!Listed(Num!Collected)
  PROVE  base[r[1]] # None /\ (base[r[1]] = Folder \/ base[r[1]].ws # docs[r[1]].ws)
<1> DEFINE n == r[1]
           w == docs[n].ws
<1>1. n \in Nodes /\ docs[n] \in Documents /\ w \in Num!Eligible /\ w \in Spaces /\ w \notin inactive
  BY LatestAre DEF Num!Live, Num!Eligible
<1>2. docs[n] \notin {None, Folder, Deleted} BY <1>1 DEF NumbersAssumption
<1>3. Num!Collected.spaceTotals[w] = 0
  <2>1. ~(Num!Collected.spaceTotals[w] > 0) BY <1>1 DEF Num!Listed
  <2>2. Num!Collected.spaceTotals[w] \in Nat BY <1>1, SpaceMonthIs
  <2> QED BY <2>1, <2>2
<1>4. \A f \in Num!Files : f[2].ws # w BY <1>1, <1>3, SpaceMonthIs
<1>5. base[n] # None
  <2> SUFFICES ASSUME base[n] = None PROVE FALSE
    OBVIOUS
  <2>1. n \in Num!LiveArm BY <1>1, <1>2 DEF Num!LiveArm, Num!Visible
  <2>2. <<n, docs[n]>> \in Num!Files BY <2>1 DEF Num!Files
  <2> QED BY <1>4, <2>2
<1>6. ASSUME base[n] # Folder, base[n].ws = w PROVE FALSE
  <2>1. base[n] \in Documents BY <1>1, <1>5, <1>6 DEF NumbersInv
  <2>2. base[n] \notin {None, Folder, Deleted} BY <2>1 DEF NumbersAssumption
  <2>3. n \in Num!BaseArm BY <1>1, <1>2, <1>6, <2>2 DEF Num!BaseArm, Num!Visible
  <2>4. <<n, base[n]>> \in Num!Files BY <2>3 DEF Num!Files
  <2> QED BY <1>4, <1>6, <2>4
<1> QED BY <1>5, <1>6

(* Reviews by library, month and verdict. *)
LEMMA ReviewsByGroup ==
  ASSUME NumbersAssumption, NumbersInv, NEW A \in SUBSET Num!LatestReviews, NEW K, IsFiniteSet(K),
         NEW h, \A r \in A : h[r] \in K, NEW g, DOMAIN g = K, \A k \in K : g[k] = Cardinality(Among(A, h, k))
  PROVE  Cardinality(A) = SumFunction(g) /\ Cardinality(A) \in Nat
<1>1. IsFiniteSet(A) BY LatestAre, FS_Subset
<1> QED BY <1>1, CountByGroup, SumOver, FS_CardinalityType

LEMMA ReviewsHold ==
  ASSUME NumbersAssumption, NumbersInv, NEW g, DOMAIN g = Num!Listed(Num!Collected),
         \A w \in DOMAIN g : g[w] = Cardinality({r \in Num!LatestReviews : docs[r[1]].ws = w})
  PROVE  /\ Cardinality(Num!LatestReviews)
              = SumFunction(g) + Cardinality({r \in Num!LatestReviews :
                docs[r[1]].ws \notin Num!Listed(Num!Collected)})
         /\ Cardinality(Num!LatestReviews) <= Cardinality({n \in Nodes : docs[n] \notin {None, Folder, Deleted}})
         /\ Cardinality(Num!LatestReviews) = SumFunction([m \in Num!Months |-> Cardinality(Num!ReviewedIn(m))])
         /\ Cardinality(Num!LatestReviews)
              = SumFunction([v \in Num!Verdicts |-> Cardinality({r \in Num!LatestReviews : r[2].verdict = v})])
<1> DEFINE L == Num!LatestReviews
           strays == {r \in L : docs[r[1]].ws \notin Num!Listed(Num!Collected)}
           rest == L \ strays
<1>1. Cardinality(L) = SumFunction(g) + Cardinality(strays)
  <2> DEFINE K == Num!Listed(Num!Collected)
             h == [r \in L |-> docs[r[1]].ws]
  <2>1. IsFiniteSet(K) BY CountsAre, FS_Subset DEF Num!Listed, Num!Eligible
  <2>2. (\A r \in rest : h[r] \in K) /\ rest \in SUBSET L OBVIOUS
  <2>3. ASSUME NEW k \in K PROVE g[k] = Cardinality(Among(rest, h, k))
    <3>1. Among(rest, h, k) = {r \in L : docs[r[1]].ws = k} BY DEF Among
    <3> QED BY <3>1
  <2>4. strays \in SUBSET L /\ L \cap strays = strays /\ IsFiniteSet(L) BY LatestAre
  <2> HIDE DEF K, h
  <2>5. DOMAIN g = K BY DEF K
  <2>6. Cardinality(rest) = SumFunction(g) BY <2>1, <2>2, <2>3, <2>5, ReviewsByGroup
  <2> HIDE DEF L, strays
  <2>7. Cardinality(rest) = Cardinality(L) - Cardinality(strays) BY <2>4, FS_Difference
  <2>8. Cardinality(L) \in Nat /\ Cardinality(strays) \in Nat BY <2>4, FS_Subset, FS_CardinalityType
  <2> QED BY <2>6, <2>7, <2>8
<1>2. Cardinality(L) <= Cardinality({n \in Nodes : docs[n] \notin {None, Folder, Deleted}})
  <2> DEFINE D == {n \in Nodes : docs[n] \notin {None, Folder, Deleted}}
  <2>1. Num!Live \in SUBSET D /\ Cardinality(L) = Cardinality(Num!Live) BY LatestAre DEF Num!Live
  <2>2. IsFiniteSet(D) BY FS_Subset DEF NumbersAssumption
  <2> HIDE DEF D
  <2> QED BY <2>1, <2>2, FS_Subset DEF D
<1>3. Cardinality(L) = SumFunction([m \in Num!Months |-> Cardinality(Num!ReviewedIn(m))])
  <2> DEFINE f == [m \in Num!Months |-> Cardinality(Num!ReviewedIn(m))]
             h == [r \in L |-> Num!MonthOf(r[2].day)]
  <2>1. DOMAIN f = Num!Months /\ IsFiniteSet(Num!Months) BY MonthsAre
  <2>2. \A r \in L : h[r] \in Num!Months BY LatestAre DEF Num!MonthOf, Num!Months
  <2>3. ASSUME NEW k \in Num!Months PROVE f[k] = Cardinality(Among(L, h, k))
    <3>1. Among(L, h, k) = Num!ReviewedIn(k) BY DEF Among, Num!ReviewedIn
    <3> QED BY <3>1
  <2>4. L \in SUBSET Num!LatestReviews OBVIOUS
  <2> HIDE DEF f, h, L
  <2>5. Cardinality(L) = SumFunction(f) BY <2>1, <2>2, <2>3, <2>4, ReviewsByGroup
  <2> QED BY <2>5 DEF f
<1>4. Cardinality(L) = SumFunction([v \in Num!Verdicts |-> Cardinality({r \in L : r[2].verdict = v})])
  <2> DEFINE f == [v \in Num!Verdicts |-> Cardinality({r \in L : r[2].verdict = v})]
             h == [r \in L |-> r[2].verdict]
  <2>1. DOMAIN f = Num!Verdicts /\ IsFiniteSet(Num!Verdicts)
    <3>1. IsFiniteSet({"pass"}) /\ IsFiniteSet({"manual_review"}) /\ IsFiniteSet({"return"})
      BY FS_Singleton
    <3>2. IsFiniteSet({"pass"} \cup {"manual_review"} \cup {"return"}) BY <3>1, FS_Union
    <3>3. Num!Verdicts = {"pass"} \cup {"manual_review"} \cup {"return"} BY DEF Num!Verdicts
    <3> QED BY <3>2, <3>3
  <2>2. \A r \in L : h[r] \in Num!Verdicts BY LatestAre
  <2>3. ASSUME NEW k \in Num!Verdicts PROVE f[k] = Cardinality(Among(L, h, k))
    <3>1. Among(L, h, k) = {r \in L : r[2].verdict = k} BY DEF Among
    <3> QED BY <3>1
  <2>4. L \in SUBSET Num!LatestReviews OBVIOUS
  <2> HIDE DEF f, h, L
  <2>5. Cardinality(L) = SumFunction(f) BY <2>1, <2>2, <2>3, <2>4, ReviewsByGroup
  <2> QED BY <2>5 DEF f
<1> QED BY <1>1, <1>2, <1>3, <1>4

(* Uploads of a month are those of the listed libraries. *)
LEMMA UploadsAre ==
  ASSUME NumbersAssumption, NumbersInv, NEW p
  PROVE  /\ Num!AllUploads(Num!Collected, p) \in Nat
         /\ Num!AllUploads(Num!Collected, p)
              = SumFunction([w \in Num!Listed(Num!Collected) |-> Num!SpaceMonth(Num!Collected, w, p)])
<1> DEFINE f == [w \in Num!Eligible |-> Num!SpaceMonth(Num!Collected, w, p)]
           K == Num!Listed(Num!Collected)
           g == [w \in K |-> Num!SpaceMonth(Num!Collected, w, p)]
<1>1. Num!AllUploads(Num!Collected, p) = SumFunction(f) BY NumCounts DEF Num!AllUploads
<1>2. SumFunction(f) = SumFunctionOnSet(f, Num!Eligible) /\ SumFunction(g) = SumFunctionOnSet(g, K)
  <2>1. DOMAIN f = Num!Eligible /\ DOMAIN g = K OBVIOUS
  <2> HIDE DEF f, g, K
  <2> QED BY <2>1, SumOver
<1>3. IsFiniteSet(Num!Eligible) /\ K \in SUBSET Num!Eligible /\ Num!Eligible \in SUBSET Spaces
  BY CountsAre, FS_Subset DEF Num!Listed, Num!Eligible
<1>4. \A w \in Num!Eligible : f[w] \in Nat BY <1>3, SpaceMonthIs
<1>5. ASSUME NEW w \in Num!Eligible \ K PROVE f[w] = 0
  <2>1. Num!Collected.spaceTotals[w] \in Nat /\ ~(Num!Collected.spaceTotals[w] > 0)
    BY <1>3, SpaceMonthIs DEF Num!Listed
  <2>2. Num!Collected.spaceTotals[w] = 0 BY <2>1
  <2> QED BY <1>3, <2>2, SpaceMonthIs
<1>6. IsFiniteSet(K) /\ \A w \in K : f[w] = g[w] BY <1>3, FS_Subset
<1> HIDE DEF f, g, K
<1>7. SumFunctionOnSet(f, Num!Eligible) \in Nat /\ SumFunctionOnSet(f, Num!Eligible) = SumFunctionOnSet(f, K)
  BY <1>3, <1>4, <1>5, SumType, SumZeros
<1>8. SumFunctionOnSet(f, K) = SumFunctionOnSet(g, K) BY <1>6, SumEqual
<1> QED BY <1>1, <1>2, <1>7, <1>8 DEF g, K

(* Employees have no more reviews than there are. *)
LEMMA EmployeesHold ==
  ASSUME NumbersAssumption, NumbersInv, NEW m
  PROVE  SumFunction([k \in DOMAIN Num!DashboardEmployees(m) |-> Num!DashboardEmployees(m)[k].quality.reviewed])
           <= Cardinality(Num!ReviewedIn(m))
<1> DEFINE people == Num!DashboardEmployees(m)
           f == [k \in DOMAIN people |-> people[k].quality.reviewed]
           rows == Num!EmployeeRows(m)
           U == {r \in Num!ReviewedIn(m) : Num!IsOfficial(docs[r[1]].who)}
           e == [s \in rows |-> KeyOf[s[2]]]
           h == [r \in U |-> KeyOf[docs[r[1]].who]]
           K == {e[s] : s \in rows} \cup {h[r] : r \in U}
<1>1. U \in SUBSET Num!LatestReviews /\ U \in SUBSET Num!ReviewedIn(m)
        /\ Num!ReviewedIn(m) \in SUBSET Num!LatestReviews
  BY DEF Num!ReviewedIn
<1>2. DOMAIN people = {KeyOf[s[2]] : s \in rows} \cup {KeyOf[docs[r[1]].who] : r \in U}
  BY DEF Num!DashboardEmployees
<1>3. DOMAIN people = K BY <1>2
<1>4. rows \in SUBSET Num!Stats
  BY DEF Num!EmployeeRows, Num!OfficialRows, Num!SourceRows, Num!StatsIn
<1>5. IsFiniteSet(K)
  <2>1. IsFiniteSet(rows) /\ IsFiniteSet(U) BY <1>1, <1>4, FilesInIs, LatestAre, FS_Subset
  <2> HIDE DEF e, h, rows, U
  <2>2. IsFiniteSet({e[s] : s \in rows}) /\ IsFiniteSet({h[r] : r \in U}) BY <2>1, ImageIsFinite
  <2> QED BY <2>2, FS_Union
<1>6. ASSUME NEW k \in K PROVE f[k] = Cardinality(Among(U, h, k))
  <2>1. f[k] = people[k].quality.reviewed BY <1>3
  <2>2. people[k].quality = Num!Quality(Num!EmployeeReviews(m, k))
    <3>1. k \in {KeyOf[s[2]] : s \in rows} \cup {KeyOf[docs[r[1]].who] : r \in U} BY <1>2, <1>3
    <3> QED BY <3>1 DEF Num!DashboardEmployees
  <2>3. Num!Quality(Num!EmployeeReviews(m, k)).reviewed = Cardinality(Num!EmployeeReviews(m, k))
    BY QualityIs
  <2>4. Num!EmployeeReviews(m, k) = Among(U, h, k) BY DEF Num!EmployeeReviews, Among
  <2> QED BY <2>1, <2>2, <2>3, <2>4
<1>7. DOMAIN f = K /\ \A r \in U : h[r] \in K BY <1>3
<1> HIDE DEF U, K, h, f
<1>8. Cardinality(U) = SumFunction(f) /\ Cardinality(U) \in Nat
  BY <1>1, <1>5, <1>6, <1>7, ReviewsByGroup
<1>9. Cardinality(U) <= Cardinality(Num!ReviewedIn(m))
  <2>1. IsFiniteSet(Num!ReviewedIn(m)) BY <1>1, LatestAre, FS_Subset
  <2> QED BY <1>1, <2>1, FS_Subset
<1> QED BY <1>8, <1>9 DEF f

(* The parts of the dashboard and its summary. *)
LEMMA DashboardHolds == ASSUME NumbersAssumption, NumbersInv PROVE Num!DashboardAddsUp
<1> DEFINE data == Num!Collected
           selected == Num!Selected(data)
           current == IF selected = {} THEN None
                      ELSE CHOOSE m \in selected : \A n \in selected : ~Num!Later(n, m)
           whole == Num!DashboardSummary(data, current)
           spaces == [w \in Num!Listed(data) |-> Num!DashboardSpace(data, w, current)]
           strays == {r \in Num!LatestReviews : docs[r[1]].ws \notin Num!Listed(data)}
           files == [w \in DOMAIN spaces |-> spaces[w].files]
           new == [w \in DOMAIN spaces |-> spaces[w].new]
           reviewed == [w \in DOMAIN spaces |-> spaces[w].quality.reviewed]
<1>1. DOMAIN spaces = Num!Listed(data) /\ DOMAIN files = Num!Listed(data) /\ DOMAIN new = Num!Listed(data)
      /\ DOMAIN reviewed = Num!Listed(data)
  OBVIOUS
<1>2. /\ whole.files = SumFunctionOnSet(data.spaceTotals, Num!Eligible)
      /\ whole.new = IF current = None THEN 0 ELSE Num!AllUploads(data, current)
      /\ whole.quality = Num!Quality(Num!LatestReviews)
  BY NumCounts DEF Num!DashboardSummary
<1>3. \A w \in Num!Listed(data) :
        /\ files[w] = data.spaceTotals[w]
        /\ new[w] = IF current = None THEN 0 ELSE Num!SpaceMonth(data, w, current)
        /\ reviewed[w] = Cardinality({r \in Num!LatestReviews : docs[r[1]].ws = w})
  BY QualityIs DEF Num!DashboardSpace
<1>4. IsFiniteSet(Num!Eligible) /\ Num!Listed(data) \in SUBSET Num!Eligible /\ Num!Eligible \in SUBSET Spaces
        /\ IsFiniteSet(Num!Listed(data))
  BY CountsAre, FS_Subset DEF Num!Listed, Num!Eligible
<1> HIDE DEF current, spaces, whole
<1>5. whole.files = SumFunction(files)
  <2> DEFINE t == data.spaceTotals
             K == Num!Listed(data)
  <2>1. \A w \in Num!Eligible : t[w] \in Nat BY <1>4, SpaceMonthIs
  <2>2. \A w \in Num!Eligible \ K : t[w] = 0
    <3>1. \A w \in Num!Eligible \ K : ~(t[w] > 0) BY DEF Num!Listed
    <3> QED BY <2>1, <3>1
  <2>3. \A w \in K : t[w] = files[w] BY <1>3
  <2>4. SumFunction(files) = SumFunctionOnSet(files, K) BY <1>1, SumOver
  <2>5. IsFiniteSet(Num!Eligible) /\ IsFiniteSet(K) /\ K \in SUBSET Num!Eligible
          /\ whole.files = SumFunctionOnSet(t, Num!Eligible)
    BY <1>2, <1>4
  <2> HIDE DEF t, K, files
  <2>6. SumFunctionOnSet(t, Num!Eligible) = SumFunctionOnSet(t, K) BY <2>1, <2>2, <2>5, SumZeros
  <2>7. SumFunctionOnSet(t, K) = SumFunctionOnSet(files, K) BY <2>3, <2>5, SumEqual
  <2> QED BY <2>4, <2>5, <2>6, <2>7
<1>6. whole.new = SumFunction(new)
  <2>1. CASE current = None
    <3>1. \A w \in Num!Listed(data) : new[w] = 0 BY <1>3, <2>1
    <3> HIDE DEF new
    <3>2. SumFunction(new) = SumFunctionOnSet(new, Num!Listed(data)) BY <1>1, SumOver
    <3>3. SumFunctionOnSet(new, Num!Listed(data)) = 0
      <4> DEFINE K == Num!Listed(data)
      <4>1. (\A w \in K : new[w] \in Nat) /\ IsFiniteSet(K) /\ {} \in SUBSET K /\ \A w \in K \ {} : new[w] = 0
        BY <1>4, <3>1
      <4> HIDE DEF K
      <4>2. SumFunctionOnSet(new, K) = SumFunctionOnSet(new, {}) BY <4>1, SumZeros
      <4> QED BY <4>2, SumEmpty DEF K
    <3> QED BY <1>2, <2>1, <3>2, <3>3
  <2>2. CASE current # None
    <3>1. new = [w \in Num!Listed(data) |-> Num!SpaceMonth(data, w, current)] BY <1>1, <1>3, <2>2
    <3>2. whole.new = Num!AllUploads(data, current) BY <1>2, <2>2
    <3> QED BY <3>1, <3>2, UploadsAre
  <2> QED BY <2>1, <2>2
<1>7. /\ whole.quality.reviewed = SumFunction(reviewed) + Cardinality(strays)
      /\ whole.quality.reviewed <= Cardinality({n \in Nodes : docs[n] \notin {None, Folder, Deleted}})
      /\ whole.quality.reviewed = SumFunction([m \in Num!Months |-> Num!Quality(Num!ReviewedIn(m)).reviewed])
      /\ whole.quality.reviewed = SumFunction(whole.quality.verdicts)
  <2>1. whole.quality.reviewed = Cardinality(Num!LatestReviews) BY <1>2, QualityIs
  <2>2. whole.quality.verdicts = [v \in Num!Verdicts |-> Cardinality({r \in Num!LatestReviews : r[2].verdict = v})]
    BY <1>2, QualityIs
  <2>3. [m \in Num!Months |-> Num!Quality(Num!ReviewedIn(m)).reviewed]
          = [m \in Num!Months |-> Cardinality(Num!ReviewedIn(m))]
    BY QualityIs
  <2>4. DOMAIN reviewed = Num!Listed(data) /\ \A w \in DOMAIN reviewed : reviewed[w]
          = Cardinality({r \in Num!LatestReviews : docs[r[1]].ws = w})
    BY <1>1, <1>3
  <2> DEFINE L == Cardinality(Num!LatestReviews)
             monthly == [m \in Num!Months |-> Cardinality(Num!ReviewedIn(m))]
             judged == [v \in Num!Verdicts |-> Cardinality({r \in Num!LatestReviews : r[2].verdict = v})]
  <2> HIDE DEF reviewed
  <2>5. /\ L = SumFunction(reviewed) + Cardinality(strays)
        /\ L <= Cardinality({n \in Nodes : docs[n] \notin {None, Folder, Deleted}})
        /\ L = SumFunction(monthly) /\ L = SumFunction(judged)
    BY <2>4, ReviewsHold
  <2>6. whole.quality.reviewed = L /\ whole.quality.verdicts = judged
        /\ [m \in Num!Months |-> Num!Quality(Num!ReviewedIn(m)).reviewed] = monthly
    BY <2>1, <2>2, <2>3
  <2> HIDE DEF L, monthly, judged
  <2> QED BY <2>5, <2>6
<1>8. \A r \in strays : base[r[1]] # None /\ (base[r[1]] = Folder \/ base[r[1]].ws # docs[r[1]].ws)
  BY StraysAre
<1>9. ASSUME NEW m \in selected
      PROVE  /\ Num!DashboardMonth(data, m).routine >= 0
                  /\ Num!DashboardMonth(data, m).bulk <= Num!DashboardMonth(data, m).uploaded
             /\ SumFunction([k \in DOMAIN Num!DashboardEmployees(m) |-> Num!DashboardEmployees(m)[k].quality.reviewed])
                  <= Num!DashboardMonth(data, m).quality.reviewed
  <2>1. Num!AllUploads(data, m) \in Nat BY UploadsAre
  <2>2. Num!Increment(data, m).bulk \in Nat
    <3>1. Num!Increment(data, m) = Num!Counted(data, Whole(m)) /\ Whole(m) \in SUBSET (Spots \cup Num!PersonDays)
      BY DEF Num!Increment, Whole
    <3> QED BY <3>1, CountedIs
  <2>3. Num!BulkUploads(data, m) \in Nat /\ Num!BulkUploads(data, m) <= Num!AllUploads(data, m)
    BY <2>1, <2>2 DEF Num!BulkUploads
  <2>4. /\ Num!DashboardMonth(data, m).uploaded = Num!AllUploads(data, m)
             /\ Num!DashboardMonth(data, m).bulk = Num!BulkUploads(data, m)
        /\ Num!DashboardMonth(data, m).routine = Num!AllUploads(data, m) - Num!BulkUploads(data, m)
        /\ Num!DashboardMonth(data, m).quality.reviewed = Cardinality(Num!ReviewedIn(m))
    BY QualityIs DEF Num!DashboardMonth
  <2>5. Num!DashboardMonth(data, m).routine >= 0
          /\ Num!DashboardMonth(data, m).bulk <= Num!DashboardMonth(data, m).uploaded
    BY <2>1, <2>3, <2>4
  <2> QED BY <2>4, <2>5, EmployeesHold
<1> QED BY <1>5, <1>6, <1>7, <1>8, <1>9, NumCounts DEF Num!DashboardAddsUp, current, spaces, whole

LEMMA NumbersMean ==
  ASSUME NumbersAssumption, NumbersInv
  PROVE  Num!DrillAgrees /\ Num!RollupsAgree /\ Num!ExportsAgree /\ Num!DashboardAddsUp
BY DrillHolds, RollupsHold, ExportsHold, DashboardHolds

(* However the collectors write, libraries come and go and the identities  *)
(* are, a file counts once; drilling down, the scopes and the monthly      *)
(* increments of `metrics.py`, its tables by uploader, the exports of      *)
(* `bi_export.py` and its dashboard tell the same of the same files.       *)
THEOREM NumbersAgree ==
  NumbersAssumption =>
    /\ Num!Spec => [](Num!DrillAgrees /\ Num!RollupsAgree /\ Num!ExportsAgree /\ Num!DashboardAddsUp)
    /\ Spec => []ViewsAgree
<1> DEFINE Agree == Num!DrillAgrees /\ Num!RollupsAgree /\ Num!ExportsAgree /\ Num!DashboardAddsUp
<1> SUFFICES ASSUME NumbersAssumption
             PROVE  (Num!Spec => []Agree) /\ (Spec => []ViewsAgree)
  OBVIOUS
<1>1. Num!Init => NumbersInv BY NumbersInit
<1>2. NumbersInv /\ [Num!Next]_Num!vars => NumbersInv' BY NumbersNext
<1>3. NumbersInv => Agree BY NumbersMean
<1>4. Num!Spec => []Agree
  <2> HIDE DEF Agree
  <2> QED BY <1>1, <1>2, <1>3, PTL DEF Num!Spec
<1> DEFINE Chosen == which = "numbers" => NumbersInv
<1>5. Init => Chosen BY <1>1, Starts
<1>6. Chosen /\ [Next]_all => Chosen' BY <1>2, Steps
<1>7. Chosen => ViewsAgree BY <1>3 DEF ViewsAgree
<1>8. Spec => []ViewsAgree
  <2> HIDE DEF Chosen
  <2> QED BY <1>5, <1>6, <1>7, PTL DEF Spec
<1> QED BY <1>4, <1>8
=============================================================================
