---------------------------- MODULE PageIdentity ----------------------------
(***************************************************************************)
(* Employee identities of the uploads of a month, for the pages and for    *)
(* the publisher (page_identity.py, org_month_cache.py, _prepare_          *)
(* identities).  They are fetched from BI in batches that are committed    *)
(* one by one, while uploads are projected and the directory changes; a    *)
(* generation per month says what has still to be done.                    *)
(***************************************************************************)
EXTENDS Integers

CONSTANTS Months, Keys,
          Workers,     \* page workers, each with a month of the queue
          Builders,    \* publishers, which prepare a month they rebuild
          Pages,       \* pages of the employee directory
          MaxVersion, MaxUploads, MaxFaults, None

VARIABLES dir,      \* BI: version of directory and policy
          wanted,   \* identities of the uploads projected for a month
          queue,    \* page_month scopes: generation, 0 for none
          delayed,  \* scopes whose requested_at lies ahead
          hash,     \* page_identity_state: the signature seen last
          ident,    \* bi_identity_month: the version a key was resolved for
          org,      \* employee_org_month: version, and versions of its pages
          lock,     \* owner of 'kg_identity_prepare'
          proc,     \* workers and builders
          status,   \* refresh_versions: the master status read for it
          stray,    \* history: identities last written by a process without the lock
          uploads, faults
vars == <<dir, wanted, queue, delayed, hash, ident, org, lock, proc, status, stray, uploads, faults>>
sources == <<dir, wanted>>
cached == <<ident, stray, org>>
counts == <<uploads, faults>>

Procs == Workers \cup Builders
Out == [pc |-> "out", month |-> None, gen |-> 0, keys |-> {}, before |-> 0, version |-> 0,
        pages |-> {}, read |-> 0, due |-> {}]
NoOrg == [version |-> 0, pages |-> {}]

Init ==
  /\ dir = 1 /\ wanted = [m \in Months |-> {}] /\ queue = [m \in Months |-> 0] /\ delayed = {}
  /\ hash = 0 /\ ident = [m \in Months |-> [k \in Keys |-> 0]] /\ org = [m \in Months |-> NoOrg]
  /\ lock = None /\ proc = [p \in Procs |-> Out] /\ status = 0 /\ stray = {}
  /\ uploads = 0 /\ faults = 0

At(p, pc) == proc[p].pc = pc
Goto(p, pc) == proc' = [proc EXCEPT ![p].pc = pc]

-----------------------------------------------------------------------------
(* What goes on meanwhile. *)

NewVersion ==
  /\ dir < MaxVersion /\ dir' = dir + 1
  /\ UNCHANGED <<wanted, queue, delayed, hash, cached, lock, proc, status, counts>>

Enqueue(months) == /\ queue' = [m \in Months |-> IF m \in months THEN queue[m] + 1 ELSE queue[m]]
                   /\ delayed' = delayed \ months
ProjectUpload ==
  /\ uploads < MaxUploads /\ uploads' = uploads + 1
  /\ \E m \in Months, k \in Keys :
       /\ wanted' = [wanted EXCEPT ![m] = IF k \in @ THEN @ \ {k} ELSE @ \cup {k}]
       /\ Enqueue({m})
  /\ UNCHANGED <<dir, hash, cached, lock, proc, status, faults>>

ReadStatus ==
  /\ status = 0 /\ status' = dir
  /\ UNCHANGED <<sources, queue, delayed, hash, cached, lock, proc, counts>>
RefreshVersions ==
  /\ status # 0 /\ status' = 0 /\ hash' = status
  /\ IF hash = status THEN UNCHANGED <<queue, delayed>> ELSE Enqueue({m \in Months : wanted[m] # {}})
  /\ UNCHANGED <<sources, cached, lock, proc, counts>>

-----------------------------------------------------------------------------
(* Preparing the identities of a month. *)

Pick(w) ==
  /\ At(w, "out")
  /\ \E m \in Months \ delayed :
       /\ queue[m] > 0
       /\ proc' = [proc EXCEPT ![w] = [Out EXCEPT !.pc = "lock", !.month = m, !.gen = queue[m], !.keys = wanted[m]]]
  /\ UNCHANGED <<sources, queue, delayed, hash, cached, lock, status, counts>>
Rebuild(b) ==
  /\ At(b, "out")
  /\ \E m \in Months :
       /\ wanted[m] # {}
       /\ proc' = [proc EXCEPT ![b] = [Out EXCEPT !.pc = "lock", !.month = m, !.keys = wanted[m]]]
  /\ UNCHANGED <<sources, queue, delayed, hash, cached, lock, status, counts>>

(* Master status before, and the version of the month. *)
Lock(p) ==
  /\ At(p, "lock") /\ lock = None /\ lock' = p
  /\ proc' = [proc EXCEPT ![p].pc = "version", ![p].before = dir]
  /\ UNCHANGED <<sources, queue, delayed, hash, cached, status, counts>>
DirectoryVersion(p) ==
  /\ At(p, "version")
  /\ proc' = [proc EXCEPT ![p].version = dir, ![p].pc = "look"]
  /\ UNCHANGED <<sources, queue, delayed, hash, cached, lock, status, counts>>

(* The organisation of the month: as it is, copied from another month of   *)
(* that version, or page by page.                                          *)
Alike(p) == {m \in Months : org[m].version = proc[p].version}
Look(p) ==
  /\ At(p, "look")
  /\ \/ proc[p].month \in Alike(p) /\ Goto(p, "due")
     \/ /\ proc[p].month \notin Alike(p)
        /\ \E m \in Alike(p) : proc' = [proc EXCEPT ![p].pages = org[m].pages, ![p].pc = "store"]
     \/ Alike(p) = {} /\ Goto(p, "pages")
  /\ UNCHANGED <<sources, queue, delayed, hash, cached, lock, status, counts>>

\* Mutant: the version is compared on the first page only.
MutSameVersion(p) == proc[p].read > 0 \/ dir = proc[p].version
SameVersion(p) == dir = proc[p].version
ReadPage(p) ==
  /\ At(p, "pages") /\ SameVersion(p)
  /\ proc' = [proc EXCEPT ![p].pages = @ \cup {dir}, ![p].read = @ + 1,
                          ![p].pc = IF proc[p].read + 1 = Pages THEN "store" ELSE "pages"]
  /\ UNCHANGED <<sources, queue, delayed, hash, cached, lock, status, counts>>
StoreMonth(p) ==
  /\ At(p, "store") /\ Goto(p, "due")
  /\ org' = [org EXCEPT ![proc[p].month] = [version |-> proc[p].version, pages |-> proc[p].pages]]
  /\ UNCHANGED <<sources, queue, delayed, hash, ident, stray, lock, status, counts>>

(* What has to be resolved is listed once.                                 *)
ListDue(p) ==
  /\ At(p, "due")
  /\ proc' = [proc EXCEPT ![p].due = {k \in proc[p].keys : ident[proc[p].month][k] # proc[p].version},
                          ![p].pc = "resolve"]
  /\ UNCHANGED <<sources, queue, delayed, hash, cached, lock, status, counts>>
(* A batch, one key here, 500 in the code: its reply is compared with the  *)
(* version read before, and written whatever has happened since.           *)
Resolve(p) ==
  /\ At(p, "resolve") /\ proc[p].due # {} /\ SameVersion(p) /\ Goto(p, "save")
  /\ UNCHANGED <<sources, queue, delayed, hash, cached, lock, status, counts>>
SaveBatch(p) ==
  /\ At(p, "save")
  /\ \E k \in proc[p].due :
       /\ ident' = [ident EXCEPT ![proc[p].month][k] = proc[p].version]
       /\ stray' = IF lock = p THEN stray \ {<<proc[p].month, k>>} ELSE stray \cup {<<proc[p].month, k>>}
       /\ proc' = [proc EXCEPT ![p].due = @ \ {k}, ![p].pc = "resolve"]
  /\ UNCHANGED <<sources, queue, delayed, hash, org, lock, status, counts>>
(* The lock is released with its session; without it, that is an error.    *)
Unlock(p) == lock' = IF lock = p THEN None ELSE lock
CheckAfter(p) ==
  /\ At(p, "resolve") /\ proc[p].due = {} /\ dir = proc[p].before /\ lock = p
  /\ Goto(p, "done") /\ Unlock(p)
  /\ UNCHANGED <<sources, queue, delayed, hash, cached, status, counts>>

\* Mutant: the scope is deleted whatever its generation is by now.
MutSettled(w) == TRUE
Settled(w) == queue[proc[w].month] = proc[w].gen
Finish(p) ==
  /\ At(p, "done")
  /\ queue' = IF p \in Workers /\ Settled(p) THEN [queue EXCEPT ![proc[p].month] = 0] ELSE queue
  /\ proc' = [proc EXCEPT ![p] = Out]
  /\ UNCHANGED <<sources, delayed, hash, cached, lock, status, counts>>

(* Busy, changed versions, a lost session, a request or transaction that   *)
(* fails or is late: the worker comes back in five minutes, unless the     *)
(* month was queued anew.                                                  *)
Raise(p) ==
  /\ \/ At(p, "lock") /\ lock # None
     \/ At(p, "pages") /\ ~SameVersion(p)
     \/ At(p, "resolve") /\ proc[p].due # {} /\ ~SameVersion(p)
     \/ At(p, "resolve") /\ proc[p].due = {} /\ (dir # proc[p].before \/ lock # p)
  /\ Goto(p, "failed") /\ Unlock(p)
  /\ UNCHANGED <<sources, queue, delayed, hash, cached, status, counts>>
RequestFails(p) ==
  /\ proc[p].pc \in {"version", "look", "pages", "store", "due", "resolve", "save"}
  /\ faults < MaxFaults /\ faults' = faults + 1
  /\ Goto(p, "failed") /\ Unlock(p)
  /\ UNCHANGED <<sources, queue, delayed, hash, cached, status, uploads>>
Defer(p) ==
  /\ At(p, "failed") /\ proc' = [proc EXCEPT ![p] = Out]
  /\ delayed' = IF p \in Workers /\ Settled(p) THEN delayed \cup {proc[p].month} ELSE delayed
  /\ UNCHANGED <<sources, queue, hash, cached, lock, status, counts>>
Elapse ==
  /\ delayed # {} /\ delayed' = {}
  /\ UNCHANGED <<sources, queue, hash, cached, lock, proc, status, counts>>
(* The process ends, or the session that holds its lock is gone.           *)
Crash(p) ==
  /\ ~At(p, "out") /\ faults < MaxFaults /\ faults' = faults + 1
  /\ proc' = [proc EXCEPT ![p] = Out] /\ Unlock(p)
  /\ UNCHANGED <<sources, queue, delayed, hash, cached, status, uploads>>
LoseLock ==
  /\ lock # None /\ faults < MaxFaults /\ faults' = faults + 1 /\ lock' = None
  /\ UNCHANGED <<sources, queue, delayed, hash, cached, proc, status, uploads>>

Next ==
  \/ NewVersion \/ ProjectUpload \/ ReadStatus \/ RefreshVersions \/ Elapse \/ LoseLock
  \/ \E w \in Workers : Pick(w)
  \/ \E b \in Builders : Rebuild(b)
  \/ \E p \in Procs : \/ Lock(p) \/ DirectoryVersion(p) \/ Look(p) \/ ReadPage(p) \/ StoreMonth(p)
                      \/ ListDue(p) \/ Resolve(p) \/ SaveBatch(p) \/ CheckAfter(p) \/ Finish(p) \/ Raise(p) \/ RequestFails(p) \/ Defer(p) \/ Crash(p)
Spec == Init /\ [][Next]_vars

-----------------------------------------------------------------------------
(* A month that is not queued has an identity for every upload, not older  *)
(* than the versions seen last: an upload or a new directory that comes    *)
(* while the month is prepared is not deleted with what was read before.   *)
(* Only a process whose session with the lock broke may have put an older  *)
(* identity over it.                                                       *)
NoIdentityForgotten ==
  \A m \in Months : queue[m] = 0 =>
    \A k \in wanted[m] : ident[m][k] > 0 /\ (ident[m][k] >= hash \/ <<m, k>> \in stray)

(* The stored organisation of a month is one version of the directory,     *)
(* however many pages it was read in, whoever stored it, and from whatever *)
(* month it was copied.                                                    *)
MonthsAreWhole == \A m \in Months : org[m].pages \subseteq {org[m].version}

(* The months need no more work, and none is a mixture.                    *)
IdentitiesSettle == NoIdentityForgotten /\ MonthsAreWhole
=============================================================================
