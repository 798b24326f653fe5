------------------------------ MODULE BIOutbox ------------------------------
(***************************************************************************)
(* The durable outbox between the aggregate partitions of the governance   *)
(* database and the BI receiver: app/bi_push.py (queue_frame,              *)
(* queue_current, claim_frame, finish_frame) and app/bi_publisher.py       *)
(* (publisher_lock, reconcile_remote, build_cycle, send_once,              *)
(* cleanup_outbox, run, main).                                             *)
(*                                                                         *)
(* A publisher works in short transactions separated by HTTP calls, under  *)
(* an advisory lock that a broken database session silently gives up.  A   *)
(* request can be processed late, its answer can be lost, a publisher can  *)
(* die anywhere and the receiver can be restored from a backup.            *)
(*                                                                         *)
(* A manifest maps every partition key to a version, or to Absent.  Equal  *)
(* hashes are equal manifests.  A request's UUID is its sequence number.   *)
(***************************************************************************)
EXTENDS Integers, Sequences, FiniteSets

CONSTANTS Publishers,  \* processes that run the publisher or its command line
          Keys,        \* partition keys
          Versions,    \* versions of a partition
          Absent,      \* no such partition
          None,        \* no process, no frame, no answer
          MaxEdits,    \* bound: changed builds
          MaxFaults,   \* bound: crashes, timeouts, refusals, lost locks, restores
          MaxOps       \* bound: administrator commands

VARIABLES
  db,      \* sender's database: partitions, BIPushState, outbox, payloads
  log,     \* receiver: accepted frames in order, its head is the last one
  ever,    \* history: every sequence the receiver ever accepted
  net,     \* requests on the wire or delayed in the network
  lock,    \* owner of the advisory lock 'kg_bi_snapshot_build'
  proc,    \* per process: what it is doing and what it remembers
  edits, faults, ops   \* used part of the bounds

vars == <<db, log, ever, net, lock, proc, edits, faults, ops>>
budgets == <<edits, faults, ops>>
remote == <<log, ever>>

-----------------------------------------------------------------------------
Manifest == [Keys -> Versions \cup {Absent}]
Empty == [k \in Keys |-> Absent]
Status == {"pending", "sending", "acked", "superseded", "blocked"}
Row == [status: Status, owner: Publishers \cup {None}, live: BOOLEAN, wait: BOOLEAN]
Frame == [kind: {"baseline", "delta"}, base: Nat, man: Manifest,
          diff: UNION {[K -> Versions \cup {Absent}] : K \in SUBSET Keys}]
Entry == [seq: Nat, man: Manifest]
BlockCode == {"", "auth", "contract"}
Answer == {"confirmed", "stale", "auth", "contract", "transport"}

ASSUME ConstantsAssumption ==
  /\ Absent \notin Versions
  /\ None \notin Publishers
  /\ None \notin Nat \cup Answer
  /\ MaxEdits \in Nat /\ MaxFaults \in Nat /\ MaxOps \in Nat

PC == {"out", "in", "status", "checked", "built", "send", "wait", "fetch", "rehead",
       "rebuild", "release", "done"}
Nothing == [seq |-> 0, man |-> Empty]
Idle(pc) == [pc |-> pc, seq |-> 0, answer |-> None, head |-> Nothing]

\* Mutant: a delta lists partitions that come or go and forgets those rebuilt in place.
MutDiff(from, to) == [k \in {k \in Keys : (from[k] = Absent) # (to[k] = Absent)} |-> to[k]]
(* The changes of a delta: the partitions that differ, Absent for a deleted one. *)
Diff(from, to) == [k \in {k \in Keys : from[k] # to[k]} |-> to[k]]
Apply(man, diff) == [k \in Keys |-> IF k \in DOMAIN diff THEN diff[k] ELSE man[k]]

-----------------------------------------------------------------------------
(* Transactions of the sender, as functions of its database d. *)

Having(d, status) == {s \in DOMAIN d.row : d.row[s].status = status}
Open(d) == Having(d, "pending") \cup Having(d, "sending")
Highest(S) == CHOOSE s \in S : \A t \in S : t <= s
NeedsBaseline(d) == d.acked = 0 \/ d.force

(* UPDATE outbox SET status = 'superseded' WHERE status = 'pending' AND ... *)
Supersede(row, S) ==
  [s \in DOMAIN row |-> IF s \in S /\ row[s].status = "pending"
                        THEN [row[s] EXCEPT !.status = "superseded"] ELSE row[s]]
OffBase(d, base) == {s \in DOMAIN d.row : d.frame[s].base # base}

NewFrame(d) ==
  [kind |-> IF NeedsBaseline(d) THEN "baseline" ELSE "delta",
   base |-> d.acked, man |-> d.parts,
   diff |-> IF NeedsBaseline(d) THEN d.parts ELSE Diff(d.man, d.parts)]

\* Mutants: last_issued_sequence is not saved; numbers continue from the acknowledged one.
MutQueueUnsaved(d) ==
  LET next == d.issued + 1
  IN  [d EXCEPT !.row = [s \in DOMAIN d.row \cup {next} |->
                           IF s = next THEN [status |-> "pending", owner |-> None,
                                             live |-> FALSE, wait |-> FALSE]
                           ELSE Supersede(d.row, DOMAIN d.row)[s]],
                !.frame = [s \in DOMAIN d.frame \cup {next} |->
                             IF s = next THEN NewFrame(d) ELSE d.frame[s]],
                !.payload = @ \cup {next}]
MutQueueReuse(d) ==
  LET next == d.acked + 1 IN [MutQueueUnsaved([d EXCEPT !.issued = d.acked]) EXCEPT !.issued = next]

QueueFrame(d) ==
  LET next == (IF d.issued > d.acked THEN d.issued ELSE d.acked) + 1
      rows == Supersede(d.row, DOMAIN d.row)
  IN  [d EXCEPT
        !.row = [s \in DOMAIN d.row \cup {next} |->
                   IF s = next THEN [status |-> "pending", owner |-> None,
                                     live |-> FALSE, wait |-> FALSE] ELSE rows[s]],
        !.frame = [s \in DOMAIN d.frame \cup {next} |->
                     IF s = next THEN NewFrame(d) ELSE d.frame[s]],
        !.payload = @ \cup {next},
        !.issued = next]

(* An open frame that already does what a new one would do is kept; so is  *)
(* the first baseline, whatever changed since, until it is confirmed.      *)
KeepsLatest(d) ==
  /\ Open(d) # {}
  /\ LET f == d.frame[Highest(Open(d))]
     IN  \/ f.kind = "baseline" /\ NeedsBaseline(d)
         \/ f.man = d.parts /\ f.base = d.acked

QueueCurrent(d, forceNew) ==
  IF \/ d.parts = Empty
     \/ ~forceNew /\ \/ d.parts = d.man /\ ~d.force
                     \/ d.blocked # ""
                     \/ KeepsLatest(d)
  THEN d ELSE QueueFrame(d)

(* Expired leases go back to pending, deltas on an old base are dropped.   *)
Refreshed(d) ==
  LET freed == [s \in DOMAIN d.row |->
                  IF d.row[s].status = "sending" /\ ~d.row[s].live
                  THEN [d.row[s] EXCEPT !.status = "pending"]
                  ELSE d.row[s]]
  IN  [d EXCEPT !.row = Supersede(freed, OffBase(d, d.acked))]
\* Mutant: an active lease does not keep others from claiming.
MutMayClaim(d) == d.blocked = "" /\ ~d.wait
MayClaim(d) ==
  d.blocked = "" /\ ~d.wait /\ \A s \in Having(d, "sending") : ~d.row[s].live
Due(d) == LET P == Having(Refreshed(d), "pending")
          IN  IF P = {} \/ d.row[Highest(P)].wait THEN None ELSE Highest(P)
Claimed(d, s, p) ==
  [Refreshed(d) EXCEPT !.row[s] = [status |-> "sending", owner |-> p,
                                   live |-> TRUE, wait |-> d.row[s].wait]]

\* Mutant: finishing checks the status of the row but not the lease.
MutHoldsLease(d, s, p) == s \in DOMAIN d.row /\ d.row[s].status = "sending"
HoldsLease(d, s, p) ==
  s \in DOMAIN d.row /\ d.row[s].status = "sending" /\ d.row[s].owner = p /\ d.row[s].live
Released(d, s, status, wait) ==
  [d.row EXCEPT ![s] = [status |-> status, owner |-> None, live |-> FALSE, wait |-> wait]]
\* Mutant: the acknowledged manifest is read from the current partitions.
MutAcknowledge(d, s) ==
  [d EXCEPT !.row = Supersede(Released(d, s, "acked", FALSE), OffBase(d, s)),
            !.acked = s, !.man = d.parts, !.force = FALSE]
Acknowledge(d, s) ==
  [d EXCEPT !.row = Supersede(Released(d, s, "acked", d.row[s].wait), OffBase(d, s)),
            !.acked = s, !.man = d.frame[s].man, !.force = FALSE]
\* Mutant: 409 is taken for an earlier delivery of the same frame.
MutFinishFrame(d, s, answer) ==
  IF answer \in {"confirmed", "stale"} THEN Acknowledge(d, s)
  ELSE [d EXCEPT !.row = Released(d, s, "pending", TRUE), !.wait = TRUE]
FinishFrame(d, s, answer) ==
  CASE answer = "confirmed" ->
         [(IF s > d.acked THEN Acknowledge(d, s)
           ELSE [d EXCEPT !.row = Released(d, s, "acked", d.row[s].wait)]) EXCEPT !.wait = FALSE]
    [] answer = "stale" -> [d EXCEPT !.row = Released(d, s, "superseded", d.row[s].wait)]
    [] answer = "transport" -> [d EXCEPT !.row = Released(d, s, "pending", TRUE), !.wait = TRUE]
    [] OTHER -> [d EXCEPT !.row = Released(d, s, "blocked", TRUE), !.wait = TRUE,
                          !.blocked = answer]

Recognises(d, h) == /\ h.seq \in DOMAIN d.row /\ h.seq \in d.payload
                    /\ d.frame[h.seq].man = h.man
Recovering(d, h) ==
  d.force /\ \E s \in Open(d) : d.frame[s].kind = "baseline" /\ s > h.seq
\* Mutants: any known head is adopted; a known head never forces a baseline.
MutAdoptAny(d, h) == IF Recognises(d, h) THEN Acknowledge(d, h.seq) ELSE d
MutIgnoreRestore(d, h) ==
  IF Recognises(d, h) /\ h.seq > d.acked THEN Acknowledge(d, h.seq) ELSE d
ReconcileRemote(d, h) ==
  IF \/ h.seq = d.acked /\ (h.seq = 0 \/ h.man = d.man) THEN d
  ELSE IF Recognises(d, h) /\ h.seq >= d.acked
       THEN [Acknowledge(d, h.seq) EXCEPT !.wait = @ /\ d.blocked # ""]
  ELSE IF Recovering(d, h) THEN d
  ELSE [d EXCEPT !.issued = IF @ > h.seq THEN @ ELSE h.seq, !.force = TRUE,
                 !.row = Supersede(d.row, DOMAIN d.row)]

Newest(S, n) == {s \in S : Cardinality({t \in S : t > s}) < n}
\* Mutant: a row that is being sent is not protected from cleanup.
MutKept(d) == Having(d, "pending") \cup Newest(Having(d, "acked"), 2)
Kept(d) == Open(d) \cup Newest(Having(d, "acked"), 2) \cup Newest(Having(d, "blocked"), 1)
CleanupOutbox(d, old) ==
  [d EXCEPT !.payload = @ \cap Kept(d),
            !.row = [s \in (DOMAIN d.row \cap Kept(d)) \cup (DOMAIN d.row \ old) |-> d.row[s]]]

-----------------------------------------------------------------------------
(* The receiver (not in this repository): it checks whether it already has *)
(* the request, then the sequence of a baseline or the base of a delta,    *)
(* then the hash of the state the delta leads to.                          *)

RemoteHead == IF log = <<>> THEN Nothing ELSE log[Len(log)]
Accepted == {log[i].seq : i \in 1..Len(log)}
Verdict(s) ==
  LET f == db.frame[s]
  IN  IF s \in Accepted THEN "confirmed"
      ELSE IF s <= RemoteHead.seq \/ (f.kind = "delta" /\ f.base # RemoteHead.seq) THEN "stale"
      ELSE IF f.kind = "delta" /\ Apply(RemoteHead.man, f.diff) # f.man THEN "contract"
      ELSE "confirmed"
Receive(s) ==
  LET f == db.frame[s]
      man == IF f.kind = "delta" THEN Apply(RemoteHead.man, f.diff) ELSE f.diff
  IN  /\ log' = IF Verdict(s) = "confirmed" /\ s \notin Accepted
                THEN Append(log, [seq |-> s, man |-> man]) ELSE log
      /\ ever' = IF Verdict(s) = "confirmed" THEN ever \cup {s} ELSE ever

-----------------------------------------------------------------------------
(* Publisher processes.  Every action that writes db is one transaction.   *)

Goto(p, pc) == proc' = [proc EXCEPT ![p] = Idle(pc)]
At(p, pc) == proc[p].pc = pc
Unlock(p) == lock' = IF lock = p THEN None ELSE lock
Write(d) == db' = d /\ UNCHANGED <<remote, net, lock>>
Orphans(p) == {IF m.conn = p THEN [m EXCEPT !.conn = None] ELSE m : m \in net}

Init ==
  /\ \E m \in Manifest \ {Empty} :
       db = [parts |-> m, acked |-> 0, man |-> Empty, issued |-> 0, force |-> FALSE,
             blocked |-> "", wait |-> FALSE, row |-> <<>>, frame |-> <<>>, payload |-> {}]
  /\ log = <<>> /\ ever = {} /\ net = {} /\ lock = None
  /\ proc = [p \in Publishers |-> Idle("out")]
  /\ edits = 0 /\ faults = 0 /\ ops = 0

(* One turn of the loop: in, [status, checked], [built], send, [wait,      *)
(* [fetch, rehead]], done, out.  Status, build and cleanup have their own   *)
(* intervals; a failed one does not keep the turn from sending.             *)
Enter(p) ==
  /\ At(p, "out") /\ lock = None
  /\ lock' = p /\ Goto(p, "in")
  /\ UNCHANGED <<db, remote, net, budgets>>

Leave(p) ==
  /\ At(p, "done")
  /\ Unlock(p) /\ Goto(p, "out")
  /\ UNCHANGED <<db, remote, net, budgets>>

(* GET status, in the loop or after a stale answer; the reconciliation is  *)
(* a transaction of its own, the head may have moved in between.           *)
GetStatus(p) ==
  /\ \/ At(p, "in") /\ proc' = [proc EXCEPT ![p] = [Idle("status") EXCEPT !.head = RemoteHead]]
     \/ At(p, "fetch") /\ proc' = [proc EXCEPT ![p] = [Idle("rehead") EXCEPT !.head = RemoteHead]]
  /\ UNCHANGED <<db, remote, net, lock, budgets>>

Reconcile(p) ==
  /\ \/ /\ At(p, "status") /\ Goto(p, "checked")
        /\ Write(ReconcileRemote(db, proc[p].head))
     \/ /\ At(p, "rehead") /\ Goto(p, "done")
        /\ Write(QueueCurrent(ReconcileRemote(db, proc[p].head), FALSE))
  /\ UNCHANGED budgets

(* publish_partitions commits first, queue_current in the next transaction *)
Publish ==
  \/ UNCHANGED <<db, edits>>
  \/ /\ edits < MaxEdits /\ edits' = edits + 1
     /\ \E m \in Manifest \ {Empty, db.parts} : db' = [db EXCEPT !.parts = m]

Build(p) ==
  /\ At(p, "in") \/ At(p, "checked")
  /\ Publish /\ Goto(p, "built")
  /\ UNCHANGED <<remote, net, lock, faults, ops>>

Queue(p) ==
  /\ At(p, "built") /\ Write(QueueCurrent(db, FALSE)) /\ Goto(p, "send")
  /\ UNCHANGED budgets

Claim(p) ==
  /\ proc[p].pc \in {"in", "checked", "send"}
  /\ LET s == Due(db)
     IN  IF ~MayClaim(db) \/ s = None
         THEN /\ db' = IF MayClaim(db) THEN Refreshed(db) ELSE db
              /\ Goto(p, "done") /\ UNCHANGED net
         ELSE /\ s \in db.payload   \* otherwise the transaction is rolled back
              /\ db' = Claimed(db, s, p)
              /\ net' = net \cup {[seq |-> s, conn |-> p]}
              /\ proc' = [proc EXCEPT ![p] = [Idle("wait") EXCEPT !.seq = s]]
  /\ UNCHANGED <<remote, lock, budgets>>

(* The receiver handles a request; only an open connection gets the answer *)
Deliver(m) ==
  /\ Receive(m.seq) /\ net' = net \ {m}
  /\ proc' = IF m.conn = None THEN proc
             ELSE [proc EXCEPT ![m.conn].answer = Verdict(m.seq)]
  /\ UNCHANGED <<db, lock, budgets>>

Finish(p) ==
  /\ At(p, "wait") /\ proc[p].answer # None
  /\ LET s == proc[p].seq
         a == proc[p].answer
         d == FinishFrame(db, s, a)
     IN  /\ Write(IF ~HoldsLease(db, s, p) THEN db
                  ELSE IF a = "confirmed" THEN QueueCurrent(d, FALSE) ELSE d)
         /\ Goto(p, IF a = "stale" THEN "fetch" ELSE "done")
  /\ UNCHANGED budgets

Cleanup(p) ==
  /\ At(p, "done") /\ Goto(p, "out") /\ Unlock(p)
  /\ \E n \in 0..db.issued : db' = CleanupOutbox(db, {s \in DOMAIN db.row : s <= n})
  /\ UNCHANGED <<remote, net, budgets>>

(* The administrator's commands, run by a process that holds the lock. *)
Retry(p) ==
  /\ At(p, "in") /\ ops < MaxOps /\ ops' = ops + 1
  /\ db.blocked # "contract"
  /\ \E s \in DOMAIN db.row \cap db.payload :
       Write([db EXCEPT !.blocked = "", !.wait = FALSE,
                        !.row[s].status = "pending", !.row[s].wait = FALSE])
  /\ Goto(p, "done") /\ UNCHANGED <<edits, faults>>

Rebuild(p) ==
  \/ /\ At(p, "in") /\ ops < MaxOps /\ ops' = ops + 1
     /\ Publish /\ Goto(p, "rebuild") /\ UNCHANGED <<remote, net, lock, faults>>
  \/ /\ At(p, "rebuild") /\ Write(QueueCurrent(db, FALSE)) /\ Goto(p, "release")
     /\ UNCHANGED budgets
  \/ /\ At(p, "release") /\ Goto(p, "done") /\ UNCHANGED budgets
     /\ Write(QueueCurrent([db EXCEPT !.blocked = "", !.wait = FALSE], TRUE))

-----------------------------------------------------------------------------
(* Time and faults. *)

Fault == faults < MaxFaults /\ faults' = faults + 1 /\ UNCHANGED <<edits, ops>>

(* A request takes 45 s at most and a lease 120 s: a lease runs out while   *)
(* its owner still waits only when that process was stalled.               *)
ExpireLease ==
  \E s \in Having(db, "sending") :
    /\ db.row[s].live /\ Write([db EXCEPT !.row[s].live = FALSE])
    /\ IF \E p \in Publishers : db.row[s].owner = p /\ At(p, "wait") /\ proc[p].seq = s
       THEN Fault ELSE UNCHANGED budgets
    /\ UNCHANGED proc

(* A row's next_attempt_at is never later than the latest send_not_before. *)
BackoffElapses ==
  /\ db.wait \/ \E s \in DOMAIN db.row : db.row[s].wait
  /\ \E w \in {db.wait, FALSE} :
       Write([db EXCEPT !.wait = w, !.row = [s \in DOMAIN db.row |-> [db.row[s] EXCEPT !.wait = FALSE]]])
  /\ UNCHANGED <<proc, budgets>>

(* The connection breaks: the request is lost, or still on its way.        *)
Timeout(p) ==
  /\ At(p, "wait") /\ proc[p].answer = None /\ Fault
  /\ proc' = [proc EXCEPT ![p].answer = "transport"]
  /\ net' \in {Orphans(p), {m \in net : m.conn # p}}
  /\ UNCHANGED <<db, remote, lock>>

(* The answer is lost, or the receiver refuses before looking at the frame *)
(* (401, 403, 413), or answers 2xx with something that is no confirmation. *)
BadAnswer(p) ==
  /\ At(p, "wait") /\ Fault
  /\ \E a \in {"transport", "auth", "contract"} : proc' = [proc EXCEPT ![p].answer = a]
  /\ \/ proc[p].answer = "confirmed" /\ UNCHANGED net
     \/ proc[p].answer = None /\ net' = {m \in net : m.conn # p}
  /\ UNCHANGED <<db, remote, lock>>

Crash(p) ==
  /\ ~At(p, "out") /\ Fault
  /\ Unlock(p) /\ Goto(p, "out") /\ net' = Orphans(p)
  /\ UNCHANGED <<db, remote>>

LoseLock == lock # None /\ lock' = None /\ Fault /\ UNCHANGED <<db, remote, net, proc>>

RemoteRestore ==
  /\ Fault /\ \E n \in 0..(Len(log) - 1) : log' = SubSeq(log, 1, n)
  /\ UNCHANGED <<db, ever, net, lock, proc>>

Next ==
  \/ \E p \in Publishers :
       \/ Enter(p) \/ Leave(p) \/ GetStatus(p) \/ Reconcile(p) \/ Build(p) \/ Queue(p)
       \/ Claim(p) \/ Finish(p) \/ Cleanup(p) \/ Retry(p) \/ Rebuild(p)
       \/ Timeout(p) \/ BadAnswer(p) \/ Crash(p)
  \/ \E m \in net : Deliver(m)
  \/ ExpireLease \/ BackoffElapses \/ LoseLock \/ RemoteRestore

(* The loop of run() takes turns for ever and comes back to its status     *)
(* check and its build; an open request is answered within its timeout;    *)
(* leases and backoffs run out.                                            *)
Turn(p) == \/ Reconcile(p) \/ Queue(p) \/ Claim(p) \/ Finish(p) \/ Leave(p)
           \/ (At(p, "fetch") /\ GetStatus(p)) \/ (~At(p, "in") /\ Rebuild(p))
Fairness ==
  /\ WF_vars(ExpireLease) /\ WF_vars(BackoffElapses /\ ~db'.wait)
  /\ WF_vars(\E m \in net : m.conn # None /\ Deliver(m))
  /\ \A p \in Publishers : /\ SF_vars(Enter(p)) /\ WF_vars(Turn(p))
                            /\ SF_vars(At(p, "in") /\ GetStatus(p)) /\ SF_vars(Build(p))

Spec == Init /\ [][Next]_vars
FairSpec == Spec /\ Fairness

-----------------------------------------------------------------------------
(* Properties. *)

IsFcn(f) == f = [x \in DOMAIN f |-> f[x]]
IsDb(d) == d = [parts |-> d.parts, acked |-> d.acked, man |-> d.man, issued |-> d.issued,
                force |-> d.force, blocked |-> d.blocked, wait |-> d.wait,
                row |-> d.row, frame |-> d.frame, payload |-> d.payload]
RowsOK(row, n) == IsFcn(row) /\ DOMAIN row \subseteq 1..n /\ \A s \in DOMAIN row : row[s] \in Row
DbType(d) ==
  /\ IsDb(d)
  /\ d.parts \in Manifest /\ d.acked \in Nat /\ d.man \in Manifest /\ d.issued \in Nat
  /\ d.force \in BOOLEAN /\ d.blocked \in BlockCode /\ d.wait \in BOOLEAN
  /\ IsFcn(d.frame) /\ DOMAIN d.frame = 1..d.issued
  /\ \A s \in 1..d.issued : d.frame[s] \in Frame
  /\ d.payload \subseteq 1..d.issued
  /\ RowsOK(d.row, d.issued)

(* Types of the variables. *)
TypeOK ==
  /\ DbType(db)
  /\ log \in Seq(Entry) /\ ever \subseteq Nat
  /\ net \subseteq [seq: Nat, conn: Publishers \cup {None}]
  /\ lock \in Publishers \cup {None}
  /\ proc \in [Publishers -> [pc: PC, seq: Nat, answer: Answer \cup {None}, head: Entry]]
  /\ edits \in Nat /\ faults \in Nat /\ ops \in Nat

(* A sequence number stands for one state: wherever the receiver's head and *)
(* the sender's acknowledged base carry a number, they hold the manifest    *)
(* that was issued under it, whatever was lost, reordered or restored.      *)
(* Every delta is computed from that assumption.                            *)
SequenceNamesState ==
  /\ \A i \in 1..Len(log) : log[i].man = db.frame[log[i].seq].man
  /\ db.man = IF db.acked = 0 THEN Empty ELSE db.frame[db.acked].man

(* A delta that passes the receiver's base check always leads to the hash   *)
(* it promises: no legal history makes the receiver answer invalid_snapshot *)
(* (422), which would block the outbox until an administrator rebuilds.     *)
DeltaFitsItsBase == \A m \in net : Verdict(m.seq) # "contract"

(* The sender acknowledges, by a confirmation or by reconciling with the    *)
(* remote head, only what the receiver did accept.                          *)
AckedWasAccepted ==
  /\ db.acked \in ever \cup {0}
  /\ \A s \in Having(db, "acked") : s \in ever

(* A new frame's number is above every number the receiver or the outbox    *)
(* has seen, also those of rows and payloads already cleaned up: no insert  *)
(* hits the unique key, no request collides with an accepted one.           *)
SequenceFresh ==
  /\ \A s \in ever \cup DOMAIN db.row \cup {m.seq : m \in net} : s <= db.issued
  /\ db.acked <= db.issued

(* At most one row is being sent under a live lease, even after a publisher *)
(* lost the advisory lock without noticing.                                 *)
OneLiveLease ==
  \A s, t \in Having(db, "sending") : db.row[s].live /\ db.row[t].live => s = t

(* Every row that can still be claimed has its payload: cleanup never makes *)
(* claim_frame fail with outbox_payload_missing.                            *)
OpenHavePayload == Open(db) \subseteq db.payload

(* The acknowledged sequence only moves forward, and its manifest only with *)
(* it: a late confirmation or a restored head never takes it back.          *)
AckedAdvances == [][db'.acked >= db.acked /\ (db'.acked = db.acked => db'.man = db.man)]_db

(* A late publisher, whose lease ran out or whose row was reconciled in the *)
(* meantime, changes no row that another publisher is sending.              *)
LeaseProtects ==
  \A s \in Having(db, "sending") : \A p \in Publishers :
    (db.row[s].live /\ db.row[s].owner # p /\ At(p, "wait") /\ ~At(p, "wait")')
    => db'.row[s] = db.row[s]

(* Rows are left to the publisher that sends them: one of them at a time,  *)
(* untouched by a late one, and with the payload a claim needs.            *)
SendingIsProtected == [][OneLiveLease' /\ OpenHavePayload' /\ LeaseProtects]_vars

(* The inductive invariant, in parts: what the frames ever issued look     *)
(* like, what the sender knows, and what receiver, network and processes   *)
(* may carry.                                                               *)
FramesOK(d) ==
  \A s \in 1..d.issued :
    /\ d.frame[s].base < s /\ d.frame[s].man # Empty
    /\ (d.frame[s].kind = "baseline") => (d.frame[s].diff = d.frame[s].man)
    /\ (d.frame[s].kind = "delta") =>
         /\ d.frame[s].base > 0
         /\ d.frame[s].diff = Diff(d.frame[d.frame[s].base].man, d.frame[s].man)
ManifestOf(d, s) == IF s = 0 THEN Empty ELSE d.frame[s].man
DbInv(d) == /\ DbType(d) /\ FramesOK(d) /\ d.acked <= d.issued
            /\ d.man = ManifestOf(d, d.acked)
Known(h) == h.seq \in ever \cup {0} /\ h.man = ManifestOf(db, h.seq)
RemoteOK == /\ ever \subseteq 1..db.issued
            /\ \A i \in 1..Len(log) : log[i].seq \in ever /\ Known(log[i])
Ascending == \A i, j \in 1..Len(log) : i < j => log[i].seq < log[j].seq
Waits(m) == At(m.conn, "wait") /\ proc[m.conn].seq = m.seq /\ proc[m.conn].answer = None
NetOK == \A m \in net : m.seq \in 1..db.issued /\ (m.conn # None => Waits(m))
ProcOK ==
  \A p \in Publishers :
    /\ Known(proc[p].head)
    /\ (proc[p].answer = "confirmed") => (proc[p].seq \in ever)
    /\ At(p, "wait") => (proc[p].seq \in 1..db.issued)
OutboxInv == TypeOK /\ DbInv(db) /\ RemoteOK /\ Ascending /\ NetOK /\ ProcOK /\ AckedWasAccepted

(* To a reader of the receiver the outbox, its deltas and their recovery    *)
(* look like whole snapshots, published one after the other.               *)
Feed == INSTANCE SnapshotFeed
          WITH Snapshots <- Manifest \ {Empty}, NoSnapshot <- Empty,
               issued <- [s \in 1..db.issued |-> db.frame[s].man],
               at <- RemoteHead.seq, shown <- RemoteHead.man
WholeSnapshots == Feed!Spec

(* The receiver ends up with the sender's partitions, acknowledged, unless  *)
(* an administrator is needed to lift a block.                              *)
Converged == RemoteHead.man = db.parts /\ db.acked = RemoteHead.seq
Delivery == <>[](db.blocked # "" \/ Converged)
=============================================================================
