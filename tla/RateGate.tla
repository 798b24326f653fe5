------------------------------ MODULE RateGate ------------------------------
(***************************************************************************)
(* Pacing of requests to DingTalk over all processes of a host             *)
(* (dingtalk_rate.py): the time of the last request is in a file that is   *)
(* read and rewritten under a non-blocking file lock.                      *)
(***************************************************************************)
EXTENDS Integers

CONSTANTS Senders,
          Interval,     \* ticks between two requests
          MaxTime, MaxReboots, None

VARIABLES clock,    \* the monotonic clock, which starts again at a reboot
          file,     \* last request as stored
          holder,   \* process that holds the lock
          sender,   \* per process: what it does, and when it looks again
          granted,  \* history: the last request since the boot
          early,    \* history: a request came too early after another
          reboots
vars == <<clock, file, holder, sender, granted, early, reboots>>

Out == [pc |-> "out", look |-> 0]
Init ==
  /\ clock = 0 /\ file \in {0, Interval, MaxTime} /\ holder = None
  /\ sender = [s \in Senders |-> Out] /\ granted = None /\ early = FALSE /\ reboots = 0

At(s, pc) == sender[s].pc = pc
Goto(s, pc, look) == sender' = [sender EXCEPT ![s] = [pc |-> pc, look |-> look]]

Tick ==
  /\ clock < MaxTime /\ clock' = clock + 1
  /\ UNCHANGED <<file, holder, sender, granted, early, reboots>>

Want(s) == At(s, "out") /\ Goto(s, "loop", clock) /\ UNCHANGED <<clock, file, holder, granted, early, reboots>>

\* Mutant: a process that does not get the lock goes on all the same.
MutLocked(s) == holder' = s
Locked(s) == holder = None /\ holder' = s
TakeLock(s) ==
  /\ At(s, "loop") /\ sender[s].look <= clock /\ Locked(s)
  /\ Goto(s, "locked", clock) /\ UNCHANGED <<clock, file, granted, early, reboots>>

Unlock(s) == holder' = IF holder = s THEN None ELSE holder
(* A delay only if the last request is past; a time from before a reboot   *)
(* stops nobody.                                                           *)
Delayed(now) == file <= now /\ now < file + Interval
Grant(s) ==
  /\ At(s, "locked") /\ ~Delayed(sender[s].look)
  /\ file' = sender[s].look /\ granted' = sender[s].look /\ Unlock(s)
  /\ early' = (early \/ (granted # None /\ sender[s].look < granted + Interval))
  /\ Goto(s, "out", 0) /\ UNCHANGED <<clock, reboots>>
Wait(s) ==
  /\ At(s, "locked") /\ Delayed(sender[s].look)
  /\ Goto(s, "loop", file + Interval) /\ Unlock(s)
  /\ UNCHANGED <<clock, file, granted, early, reboots>>
(* Cancelled, killed, or without access to the file.                       *)
Cancel(s) ==
  /\ ~At(s, "out") /\ Goto(s, "out", 0) /\ Unlock(s)
  /\ UNCHANGED <<clock, file, granted, early, reboots>>

Reboot ==
  /\ reboots < MaxReboots /\ reboots' = reboots + 1
  /\ clock' = 0 /\ holder' = None /\ granted' = None
  /\ sender' = [s \in Senders |-> Out] /\ UNCHANGED <<file, early>>

Next == \/ Tick \/ Reboot
        \/ \E s \in Senders : Want(s) \/ TakeLock(s) \/ Grant(s) \/ Wait(s) \/ Cancel(s)
Spec == Init /\ [][Next]_vars

(* Between two reboots, requests of all processes are an interval apart,   *)
(* although processes sleep, are cancelled, look at the clock before they  *)
(* write, and never queue for a slot in the future.                        *)
RequestsAreSpaced == ~early
=============================================================================
