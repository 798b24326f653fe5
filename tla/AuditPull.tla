----------------------------- MODULE AuditPull -----------------------------
(***************************************************************************)
(* The pull of the organisation's operation log (audit_pull.py).  The feed *)
(* shows an operation up to Lag after it happened.  Windows overlap by     *)
(* Lookback and are read page by page through a cursor: the metadata mode  *)
(* commits each page together with its cursor, the older mode reads all    *)
(* pages before it commits any.  Nothing older than a Day is asked for.    *)
(***************************************************************************)
EXTENDS Integers, FiniteSets

CONSTANTS Biz,        \* business numbers of operations at one instant
          Modes,      \* subset of {"metadata", "legacy"}
          Lag, Lookback, Day, PageSize, MaxPages,
          MaxTime, MaxEvents, MaxFaults, None

VARIABLES now, hidden, shown,  \* operations the feed does not show yet, and shows
          ev,                  \* file_audit_events, by event_key
          st,                  \* audit_state
          proc,                \* the worker's cycle
          mode, from, unread,  \* from: first instant asked for; unread: see Late
          faults
vars == <<now, hidden, shown, ev, st, proc, mode, from, unread, faults>>
feed == <<now, hidden, shown>>

Operation == (0..MaxTime) \X Biz
Before(a, b) == a[1] < b[1] \/ (a[1] = b[1] /\ a[2] < b[2])
Least(a, b) == IF a < b THEN a ELSE b
Greatest(a, b) == IF a > b THEN a ELSE b

State == [start |-> None, end |-> None, cur |-> None, done |-> None,
          last |-> None, ran |-> None, gap |-> None, reason |-> ""]
Idle == [pc |-> "out", pages |-> 0, rows |-> {}, cur |-> None, start |-> None, end |-> None]

Init ==
  /\ now = 0 /\ hidden = {} /\ shown = {} /\ ev = {} /\ st = State /\ proc = Idle
  /\ mode \in Modes /\ from = None /\ unread = {} /\ faults = 0

-----------------------------------------------------------------------------
(* The feed, outside this repository. *)

Happen ==
  /\ Cardinality(hidden \cup shown) < MaxEvents
  /\ \E b \in Biz : <<now, b>> \notin hidden \cup shown /\ hidden' = hidden \cup {<<now, b>>}
  /\ UNCHANGED <<now, shown, ev, st, proc, mode, from, unread, faults>>

Show ==
  /\ \E e \in hidden : hidden' = hidden \ {e} /\ shown' = shown \cup {e}
  /\ UNCHANGED <<now, ev, st, proc, mode, from, unread, faults>>

Tick ==
  /\ now < MaxTime /\ \A e \in hidden : now < e[1] + Lag
  /\ now' = now + 1
  /\ UNCHANGED <<hidden, shown, ev, st, proc, mode, from, unread, faults>>

(* The first PageSize operations of a window behind a cursor: the feed     *)
(* lists them by time and number, so a page is a set with a last element.  *)
Pages(start, end, cur) ==
  LET S == {e \in shown : start <= e[1] /\ e[1] <= end /\ (cur = None \/ Before(cur, e))}
  IN  {P \in SUBSET S : /\ Cardinality(P) = Least(PageSize, Cardinality(S))
                        /\ \A a \in P, b \in S \ P : Before(a, b)}
Last(rows) == CHOOSE e \in rows : \A a \in rows : a = e \/ Before(a, e)

-----------------------------------------------------------------------------
(* Windows of the metadata mode. *)

Lower == now - Day
Closed(s) == [s EXCEPT !.start = None, !.end = None, !.cur = None]
WithGap(s, since, reason) ==
  [s EXCEPT !.gap = IF @ = None THEN since ELSE Least(@, since), !.reason = reason]

DropExpired(s) ==
  IF s.start # None /\ s.start < Lower
  THEN Closed(WithGap(s, s.start, "expired_window")) ELSE s

\* Mutant: windows do not overlap.
MutWanted(s) == IF s.done # None THEN s.done ELSE now - Lookback
Wanted(s) == (IF s.done # None THEN s.done ELSE now) - Lookback
Opened(s) ==
  IF s.start # None THEN s
  ELSE LET since == IF s.ran = None THEN Wanted(s) ELSE Least(Wanted(s), s.ran)
           g == IF s.done = None THEN WithGap(s, since, "migration_gap")
                ELSE IF Wanted(s) < Lower THEN WithGap(s, since, "lookback_exceeded") ELSE s
       IN  [g EXCEPT !.start = Greatest(Wanted(s), Lower), !.end = now, !.cur = None]

(* What is not asked for any more: a Day old before the pull got to it, or *)
(* older than the Lookback while no window was ever completed.             *)
Frontier == IF mode = "metadata" THEN st.done ELSE st.last
Late == IF Frontier = None THEN {t \in 0..now : t < now - Lookback}
        ELSE {t \in 0..now : t < Lower /\ t >= Frontier - Lookback}
Asked(first) == /\ from' = IF from = None THEN first ELSE from
                /\ unread' = unread \cup Late

OpenWindow ==
  /\ proc.pc = "out" /\ mode = "metadata"
  /\ st' = Opened(DropExpired(st)) /\ Asked(st'.start)
  /\ proc' = [Idle EXCEPT !.pc = "fetch"]
  /\ UNCHANGED <<feed, ev, mode, faults>>

FetchPage ==
  /\ proc.pc = "fetch" /\ mode = "metadata"
  /\ \E rows \in Pages(st.start, st.end, st.cur) : proc' = [proc EXCEPT !.pc = "page", !.rows = rows]
  /\ UNCHANGED <<feed, ev, st, mode, from, unread, faults>>

(* The feed ignores the cursor and answers with the first page again. *)
WrongPage ==
  /\ proc.pc = "fetch" /\ mode = "metadata" /\ st.cur # None
  /\ faults < MaxFaults /\ faults' = faults + 1
  /\ \E rows \in Pages(st.start, st.end, None) : proc' = [proc EXCEPT !.pc = "page", !.rows = rows]
  /\ UNCHANGED <<feed, ev, st, mode, from, unread>>

Stalled(rows) == rows # {} /\ st.cur # None /\ ~Before(st.cur, Last(rows))
NewestOf(rows, old) ==
  IF rows = {} THEN old ELSE IF old = None THEN Last(rows)[1] ELSE Greatest(old, Last(rows)[1])

\* Mutant: a page at the cap closes the window.
MutLastPage(rows, pages) == Cardinality(rows) < PageSize \/ pages + 1 = MaxPages
Ingest(rows) == ev' = ev \cup rows
LastPage(rows, pages) == Cardinality(rows) < PageSize

CommitPage ==
  /\ proc.pc = "page" /\ ~Stalled(proc.rows)
  /\ Ingest(proc.rows)
  /\ LET s == [st EXCEPT !.ran = now, !.last = NewestOf(proc.rows, @)]
         last == LastPage(proc.rows, proc.pages)
     IN  /\ st' = IF last THEN [Closed(s) EXCEPT !.done = s.end]
                  ELSE [s EXCEPT !.cur = Last(proc.rows)]
         /\ proc' = IF last \/ proc.pages + 1 = MaxPages THEN Idle
                    ELSE [Idle EXCEPT !.pc = "fetch", !.pages = proc.pages + 1]
  /\ UNCHANGED <<feed, mode, from, unread, faults>>

StalledCursor ==
  /\ proc.pc = "page" /\ Stalled(proc.rows) /\ proc' = Idle
  /\ UNCHANGED <<feed, ev, st, mode, from, unread, faults>>

-----------------------------------------------------------------------------
(* The older mode: all pages first, then one commit. *)

StartPull ==
  /\ proc.pc = "out" /\ mode = "legacy"
  /\ LET start == IF st.last = None THEN now - Lookback ELSE Greatest(st.last - Lookback, Lower)
     IN  Asked(start) /\ proc' = [Idle EXCEPT !.pc = "read", !.start = start, !.end = now]
  /\ UNCHANGED <<feed, ev, st, mode, faults>>

ReadPage ==
  /\ proc.pc = "read"
  /\ \E page \in Pages(proc.start, proc.end, proc.cur) :
       LET more == Cardinality(page) = PageSize /\ proc.pages + 1 < MaxPages
       IN  proc' = [proc EXCEPT !.pc = IF more THEN "read" ELSE "pulled", !.pages = @ + 1,
                                !.rows = @ \cup page,
                                !.cur = IF page = {} THEN @ ELSE Last(page)]
  /\ UNCHANGED <<feed, ev, st, mode, from, unread, faults>>

CommitPull ==
  /\ proc.pc = "pulled" /\ Ingest(proc.rows) /\ proc' = Idle
  /\ st' = [st EXCEPT !.last = NewestOf(proc.rows, @), !.ran = now]
  /\ UNCHANGED <<feed, mode, from, unread, faults>>

(* A refused or failed request, a failed commit, a restart of the worker.  *)
Fail ==
  /\ proc.pc # "out" /\ faults < MaxFaults /\ faults' = faults + 1 /\ proc' = Idle
  /\ UNCHANGED <<feed, ev, st, mode, from, unread>>

-----------------------------------------------------------------------------
Pull == OpenWindow \/ FetchPage \/ CommitPage \/ StalledCursor
        \/ StartPull \/ ReadPage \/ CommitPull
Next == Happen \/ Show \/ Tick \/ Pull \/ WrongPage \/ Fail

Spec == Init /\ [][Next]_vars

(* An operation that happened a Lookback before the end of what has been   *)
(* read is stored, unless it was a Day old before the pull could ask for   *)
(* it; the metadata mode then has a gap recorded from that instant or      *)
(* earlier.  The feed's delay, the page cap, failures between pages and    *)
(* windows that run out half read lose nothing else.                       *)
GapCovers(t) == mode = "legacy" \/ (st.gap # None /\ st.gap <= t /\ st.reason # "")
NothingSkipped ==
  \A e \in hidden \cup shown :
    from # None /\ Frontier # None /\ from <= e[1] /\ e[1] + Lookback < Frontier
      => e \in ev \/ (e[1] \in unread /\ GapCovers(e[1]))
=============================================================================
