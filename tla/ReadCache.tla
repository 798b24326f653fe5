----------------------------- MODULE ReadCache -----------------------------
(***************************************************************************)
(* One key of the response cache (read_cache.py): a row shared by the API  *)
(* processes, which a database lease lets one of them refresh at a time,   *)
(* and in each process an entry in memory and at most one flight, the      *)
(* refresh its readers share.  Only computing, sleeping and waiting take   *)
(* time.                                                                   *)
(***************************************************************************)
EXTENDS Integers

CONSTANTS Procs, TTL, MaxAge, Lease, Patience,  \* Patience: how long a flight tries
          MaxTime, MaxReads, MaxFaults, None

VARIABLES now,
          row,     \* read_cache_entries: entry, owner and end of the lease; or None
          mem,     \* _memory of a process
          flight,  \* _flights of a process
          reader,  \* a request in a process
          late,    \* history: an answer was too old when its request began
          reads, faults
vars == <<now, row, mem, flight, reader, late, reads, faults>>
bounds == <<reads, faults>>

(* An entry: when the data was read, when the response was generated.      *)
NewRow == [entry |-> None, owner |-> None, until |-> None]
NoFlight == [pc |-> "none", life |-> 0, deadline |-> 0, entry |-> None]
NoReader == [pc |-> "none", entry |-> None, start |-> 0]

Init ==
  /\ now = 0 /\ row = None
  /\ mem = [p \in Procs |-> None]
  /\ flight = [p \in Procs |-> NoFlight] /\ reader = [p \in Procs |-> NoReader]
  /\ late = FALSE /\ reads = 0 /\ faults = 0

Flying(p, pc) == flight[p].pc = pc
Reading(p, pc) == reader[p].pc = pc
Me(p) == <<p, flight[p].life>>
Mine(p) == row # None /\ row.owner = Me(p)
Stored == row # None /\ row.entry # None
Age(e) == now - e.gen

Tick ==
  /\ now < MaxTime
  /\ \A p \in Procs : reader[p].pc # "load" /\ flight[p].pc \notin {"lease", "publish", "failed", "landed"}
  /\ now' = now + 1 /\ UNCHANGED <<row, mem, flight, reader, late, bounds>>

-----------------------------------------------------------------------------
(* _refresh: the flight of a process. *)

Fly(p, pc) == flight' = [flight EXCEPT ![p].pc = pc]
Land(p, e) == /\ mem' = [mem EXCEPT ![p] = e]
              /\ flight' = [flight EXCEPT ![p].pc = "landed", ![p].entry = e]

LeaseFree == row # None /\ ~(row.until # None /\ row.until >= now)
FindFresh(p) ==
  /\ Flying(p, "check") \/ (Flying(p, "lease") /\ ~LeaseFree)
  /\ Stored /\ Age(row.entry) < TTL
  /\ Land(p, row.entry) /\ UNCHANGED <<now, row, reader, late, bounds>>
Insert(p) ==
  /\ Flying(p, "check") /\ ~(Stored /\ Age(row.entry) < TTL)
  /\ row' = IF row = None THEN NewRow ELSE row
  /\ Fly(p, "lease") /\ UNCHANGED <<now, mem, reader, late, bounds>>

TakeLease(p) ==
  /\ Flying(p, "lease") /\ LeaseFree
  /\ row' = [row EXCEPT !.owner = Me(p), !.until = now + Lease]
  /\ Fly(p, "compute") /\ UNCHANGED <<now, mem, reader, late, bounds>>
(* The lease is taken: look again after a while, for Patience at most.     *)
Sleep(p) ==
  /\ Flying(p, "lease") /\ ~LeaseFree /\ ~(Stored /\ Age(row.entry) < TTL)
  /\ Fly(p, IF now >= flight[p].deadline THEN "landed" ELSE "check")
  /\ UNCHANGED <<now, row, mem, reader, late, bounds>>

Compute(p) ==
  /\ Flying(p, "compute")
  /\ flight' = [flight EXCEPT ![p].pc = "computing", ![p].entry = [read |-> now, gen |-> None]]
  /\ UNCHANGED <<now, row, mem, reader, late, bounds>>
Computed(p) ==
  /\ Flying(p, "computing")
  /\ flight' = [flight EXCEPT ![p].pc = "publish", ![p].entry.gen = now]
  /\ UNCHANGED <<now, row, mem, reader, late, bounds>>

\* Mutant: a refresh that lost its lease publishes all the same.
MutMayPublish(p) == row # None
MayPublish(p) == Mine(p)
Publish(p) ==
  /\ Flying(p, "publish") /\ MayPublish(p)
  /\ row' = [entry |-> flight[p].entry, owner |-> None, until |-> None]
  /\ Land(p, flight[p].entry) /\ UNCHANGED <<now, reader, late, bounds>>
LeaseLost(p) ==
  /\ Flying(p, "publish") /\ ~MayPublish(p) /\ Fly(p, "failed")
  /\ UNCHANGED <<now, row, mem, reader, late, bounds>>
(* The query fails or its result is too large. *)
ComputeFails(p) ==
  /\ Flying(p, "computing") /\ faults < MaxFaults /\ faults' = faults + 1 /\ Fly(p, "failed")
  /\ UNCHANGED <<now, row, mem, reader, late, reads>>
Release(p) ==
  /\ Flying(p, "failed")
  /\ row' = IF Mine(p) THEN [row EXCEPT !.owner = None, !.until = None] ELSE row
  /\ flight' = [flight EXCEPT ![p].pc = "landed", ![p].entry = None]
  /\ UNCHANGED <<now, mem, reader, late, bounds>>

-----------------------------------------------------------------------------
(* Requests. *)

Launch(p) ==
  flight' = IF Flying(p, "none")
            THEN [flight EXCEPT ![p] = [pc |-> "check", life |-> faults, deadline |-> now + Patience, entry |-> None]]
            ELSE flight
Answer(p, e) == /\ late' = (late \/ reader[p].start - e.gen >= MaxAge)
                /\ reader' = [reader EXCEPT ![p] = NoReader]

Request(p) ==
  /\ Reading(p, "none") /\ reads < MaxReads /\ reads' = reads + 1
  /\ reader' = [reader EXCEPT ![p] = [pc |-> IF mem[p] = None /\ Stored THEN "load" ELSE "read",
                                      entry |-> IF mem[p] # None THEN mem[p] ELSE IF Stored THEN row.entry ELSE None,
                                      start |-> now]]
  /\ UNCHANGED <<now, row, mem, flight, late, faults>>
(* The row was read first and is remembered now. *)
Load(p) ==
  /\ Reading(p, "load")
  /\ mem' = [mem EXCEPT ![p] = reader[p].entry] /\ reader' = [reader EXCEPT ![p].pc = "read"]
  /\ UNCHANGED <<now, row, flight, late, bounds>>

Hit(p) ==
  /\ Reading(p, "read") /\ reader[p].entry # None /\ Age(reader[p].entry) < TTL
  /\ Answer(p, reader[p].entry) /\ UNCHANGED <<now, row, mem, flight, bounds>>
Stale(p) ==
  /\ Reading(p, "read") /\ reader[p].entry # None
  /\ Age(reader[p].entry) >= TTL /\ Age(reader[p].entry) < MaxAge
  /\ Launch(p) /\ Answer(p, reader[p].entry) /\ UNCHANGED <<now, row, mem, bounds>>
Miss(p) ==
  /\ Reading(p, "read") /\ ~(reader[p].entry # None /\ Age(reader[p].entry) < MaxAge)
  /\ Launch(p) /\ reader' = [reader EXCEPT ![p].pc = "wait"]
  /\ UNCHANGED <<now, row, mem, late, bounds>>

\* Mutant: when the refresh failed the reader gets what the process has.
MutResult(p) == IF flight[p].entry = None THEN reader[p].entry ELSE flight[p].entry
Result(p) == flight[p].entry
(* The flight ends for all who wait; without a result they get an error.   *)
Landed(p) ==
  /\ Flying(p, "landed") /\ flight' = [flight EXCEPT ![p] = NoFlight]
  /\ IF Reading(p, "wait") /\ Result(p) # None THEN Answer(p, Result(p))
     ELSE /\ UNCHANGED late
          /\ reader' = IF Reading(p, "wait") THEN [reader EXCEPT ![p] = NoReader] ELSE reader
  /\ UNCHANGED <<now, row, mem, bounds>>
Timeout(p) ==
  /\ Reading(p, "wait") /\ reader' = [reader EXCEPT ![p] = NoReader]
  /\ UNCHANGED <<now, row, mem, flight, late, bounds>>

(* The maintenance of another process warms the key; rows without a lease  *)
(* may be evicted; a process may end.                                      *)
Maintain(p) ==
  /\ Flying(p, "none") /\ mem[p] # None /\ Age(mem[p]) >= TTL /\ Launch(p)
  /\ UNCHANGED <<now, row, mem, reader, late, bounds>>
Evict ==
  /\ row # None /\ row.until = None /\ row' = None
  /\ UNCHANGED <<now, mem, flight, reader, late, bounds>>
Crash(p) ==
  /\ faults < MaxFaults /\ faults' = faults + 1
  /\ mem' = [mem EXCEPT ![p] = None] /\ flight' = [flight EXCEPT ![p] = NoFlight]
  /\ reader' = [reader EXCEPT ![p] = NoReader] /\ UNCHANGED <<now, row, late, reads>>

Next ==
  \/ Tick \/ Evict
  \/ \E p \in Procs :
       \/ FindFresh(p) \/ Insert(p) \/ TakeLease(p) \/ Sleep(p) \/ Compute(p)
       \/ Computed(p) \/ Publish(p) \/ LeaseLost(p) \/ ComputeFails(p) \/ Release(p)
       \/ Request(p) \/ Load(p) \/ Hit(p) \/ Stale(p) \/ Miss(p) \/ Landed(p) \/ Timeout(p)
       \/ Maintain(p) \/ Crash(p)
Spec == Init /\ [][Next]_vars

-----------------------------------------------------------------------------
(* A refresh never replaces a response by one whose data was read earlier: *)
(* not when it outlived its lease, nor when its process was restarted.     *)
PublishedAdvances ==
  [][Stored /\ row' # None => row'.entry # None /\ row'.entry.read >= row.entry.read]_row

(* No answer was older than the maximal age when its request came in,      *)
(* whichever of memory, row, own or foreign refresh it came from, whatever *)
(* failed or was restarted in between.                                     *)
AnswersAreFresh == ~late
=============================================================================
