----------------------------- MODULE ApiBudget -----------------------------
(***************************************************************************)
(* The call budgets of the DingTalk adapter (api_usage.py) and the clients *)
(* that spend them (integrations.py).  Every attempt is reserved in one    *)
(* transaction against the limits of its day and month, in total and per   *)
(* interface; calls made for a monthly scan leave a part of the totals to  *)
(* the others and have an allowance of their own.                          *)
(***************************************************************************)
EXTENDS Integers, FiniteSets

CONSTANTS Clients,        \* one request each at a time
          Scanners,       \* those that run inside scan_budget
          DaysPerMonth,
          DailyLimit, MonthlyLimit, NodesLimit,  \* NodesLimit: dingtalk_nodes_monthly_limit
          DailyReserve, MonthlyReserve, ScanMax,
          MaxDays, MaxCalls, None

Interfaces == {"oauth.accessToken", "wiki.nodes", "doc.exportSubmit", "doc.exportQuery"}

VARIABLES today,   \* the date in China
          calls,   \* api_usage: calls by <<period, interface>>
          client,  \* what a client does: see Resting
          spent,   \* history: calls of scans in a period
          sent     \* history: requests that left, by interface
vars == <<today, calls, client, spent, sent>>

Month(d) == d \div DaysPerMonth
Dated == ({"day"} \X (0..MaxDays)) \cup ({"month"} \X (0..Month(MaxDays)))
Periods == Dated \cup ({"scan"} \X (0..Month(MaxDays)))
Counters == Periods \X (Interfaces \cup {"total"})

(* pc: idle, call (the interface is next), token, send or poll; token: the *)
(* day whose end it expires with; month: what scan_month holds.            *)
Resting == [pc |-> "idle", next |-> None, then |-> None, token |-> None, month |-> None]

Init ==
  /\ today = 0 /\ calls = [c \in Counters |-> 0] /\ client = [c \in Clients |-> Resting]
  /\ spent = [p \in Dated |-> 0] /\ sent = [i \in Interfaces |-> 0]

(* Calls counted for an interface, or in total, on all days up to now.     *)
Upto(f, n) == LET sum[d \in 0..n] == IF d = 0 THEN f[0] ELSE sum[d - 1] + f[d] IN sum[n]
Made(i) == Upto([d \in 0..MaxDays |-> calls[<<<<"day", d>>, i>>]], today)

NewDay == today < MaxDays /\ today' = today + 1 /\ UNCHANGED <<calls, client, spent, sent>>

-----------------------------------------------------------------------------
(* Reservation. *)

MonthlyOf(i) == IF i = "wiki.nodes" THEN NodesLimit ELSE MonthlyLimit
Floor(n) == IF n < 0 THEN 0 ELSE n
Spare(scan, reserve) == IF scan = None THEN 0 ELSE reserve
\* Mutant: the reserve is kept from the day's total only.
MutLimits(i, scan) ==
  {<<<<<<"day", today>>, "total">>, Floor(DailyLimit - Spare(scan, DailyReserve))>>,
   <<<<<<"month", Month(today)>>, "total">>, MonthlyLimit>>,
   <<<<<<"day", today>>, i>>, DailyLimit>>, <<<<<<"month", Month(today)>>, i>>, MonthlyOf(i)>>}
  \cup (IF scan = None THEN {} ELSE {<<<<<<"scan", scan>>, "total">>, ScanMax>>})
Limits(i, scan) ==
  {<<<<<<"day", today>>, "total">>, Floor(DailyLimit - Spare(scan, DailyReserve))>>,
   <<<<<<"month", Month(today)>>, "total">>, Floor(MonthlyLimit - Spare(scan, MonthlyReserve))>>,
   <<<<<<"day", today>>, i>>, DailyLimit>>, <<<<<<"month", Month(today)>>, i>>, MonthlyOf(i)>>}
  \cup (IF scan = None THEN {} ELSE {<<<<<<"scan", scan>>, "total">>, ScanMax>>})

Exhausted(i, scan) == {l \in Limits(i, scan) : calls[l[1]] >= l[2]}
\* Mutant: counters raised before the exhausted one stay raised.
MutReserve(c, i) ==
  LET scan == client[c].month
      keys == {l[1] : l \in Limits(i, scan) \ Exhausted(i, scan)}
  IN  /\ calls' = [k \in Counters |-> IF k \in keys THEN calls[k] + 1 ELSE calls[k]]
      /\ spent' = [p \in Dated |-> IF scan # None /\ <<p, "total">> \in keys THEN spent[p] + 1 ELSE spent[p]]
Reserve(c, i) ==
  LET scan == client[c].month
      keys == {l[1] : l \in Limits(i, scan)}
  IN  /\ Exhausted(i, scan) = {}
      /\ calls' = [k \in Counters |-> IF k \in keys THEN calls[k] + 1 ELSE calls[k]]
      /\ spent' = [p \in Dated |-> IF scan # None /\ <<p, "total">> \in keys THEN spent[p] + 1 ELSE spent[p]]
Refused(c, i) == Exhausted(i, client[c].month) # {}

-----------------------------------------------------------------------------
(* Requests. *)

At(c, pc) == client[c].pc = pc
Step(c, pc, next, then) == client' = [client EXCEPT ![c] = [@ EXCEPT !.pc = pc, !.next = next, !.then = then]]
Done(c) == client' = [client EXCEPT ![c] = [Resting EXCEPT !.token = client[c].token]]
TokenValid(c) == client[c].token # None /\ today <= client[c].token

(* A listing reserves first, an export asks for the token first.           *)
Begin(c) ==
  /\ At(c, "idle") /\ Made("total") < MaxCalls
  /\ \E kind \in {"list", "export"} :
       client' = [client EXCEPT ![c] =
         [@ EXCEPT !.pc = IF kind = "list" THEN "call" ELSE "token",
                   !.next = IF kind = "list" THEN "wiki.nodes" ELSE "doc.exportSubmit",
                   !.then = IF kind = "list" THEN "token" ELSE "call",
                   !.month = IF c \in Scanners /\ kind = "list" THEN Month(today) ELSE None]]
  /\ UNCHANGED <<today, calls, spent, sent>>

ReserveInterface(c) ==
  /\ At(c, "call") /\ Reserve(c, client[c].next)
  /\ Step(c, IF client[c].then = "token" THEN "token" ELSE "send", client[c].next, "send")
  /\ UNCHANGED <<today, sent>>

UseToken(c) ==
  /\ At(c, "token") /\ TokenValid(c)
  /\ Step(c, client[c].then, client[c].next, "send")
  /\ UNCHANGED <<today, calls, spent, sent>>
FetchToken(c) ==
  /\ At(c, "token") /\ ~TokenValid(c) /\ Reserve(c, "oauth.accessToken")
  /\ sent' = [sent EXCEPT !["oauth.accessToken"] = @ + 1]
  /\ \/ /\ client' = [client EXCEPT ![c] = [@ EXCEPT !.pc = client[c].then, !.then = "send", !.token = today]]
     \/ Done(c)                                   \* refused or without a token
  /\ UNCHANGED today

Send(c) ==
  /\ At(c, "send") /\ sent' = [sent EXCEPT ![client[c].next] = @ + 1]
  /\ \/ /\ client[c].next \in {"doc.exportSubmit", "doc.exportQuery"}
        /\ Step(c, "poll", "doc.exportQuery", "send")
     \/ Done(c)                                   \* answered, finished or failed
  /\ UNCHANGED <<today, calls, spent>>

\* Mutant: the poll is sent without a reservation of its own.
MutPoll(c) == At(c, "poll") /\ Step(c, "send", "doc.exportQuery", "send")
Poll(c) == At(c, "poll") /\ Step(c, "call", "doc.exportQuery", "send")
PollTask(c) == Poll(c) /\ UNCHANGED <<today, calls, spent, sent>>
ExportTimeout(c) == At(c, "poll") /\ Done(c) /\ UNCHANGED <<today, calls, spent, sent>>

Refuse(c) ==
  /\ \/ At(c, "call") /\ Refused(c, client[c].next)
     \/ At(c, "token") /\ ~TokenValid(c) /\ Refused(c, "oauth.accessToken")
  /\ Done(c) /\ UNCHANGED <<today, calls, spent, sent>>

Next ==
  \/ NewDay
  \/ \E c \in Clients : \/ Begin(c) \/ ReserveInterface(c) \/ UseToken(c) \/ FetchToken(c) \/ Send(c)
                        \/ PollTask(c) \/ ExportTimeout(c) \/ Refuse(c)
Spec == Init /\ [][Next]_vars

-----------------------------------------------------------------------------
(* Every request that left was reserved for, and every reservation stands  *)
(* in all the counters it belongs to: refused attempts, failed tokens and  *)
(* polls of an export leave no counter ahead of another.                   *)
Paid(c, i) == client[c].pc \in {"send", "token"} /\ client[c].next = i /\ client[c].then = "send"
CountsAgree ==
  /\ \A p \in Dated :
       calls[<<p, "total">>] = calls[<<p, "oauth.accessToken">>] + calls[<<p, "wiki.nodes">>]
                                + calls[<<p, "doc.exportSubmit">>] + calls[<<p, "doc.exportQuery">>]
  /\ \A i \in Interfaces : sent[i] + Cardinality({c \in Clients : Paid(c, i)}) <= Made(i)

(* Scans never eat into what is kept for the other collectors: those have  *)
(* their reserve for the day and for the month, whatever the order of the  *)
(* calls, and a scan never makes more calls than it is allowed in all.     *)
ReserveIsKept ==
  /\ \A p \in Dated : spent[p] <= IF p[1] = "day" THEN Floor(DailyLimit - DailyReserve)
                                    ELSE Floor(MonthlyLimit - MonthlyReserve)
  /\ \A p \in Periods \ Dated : calls[<<p, "total">>] <= ScanMax

(* The budget adds up and keeps what it promises.                          *)
BudgetHolds == CountsAgree /\ ReserveIsKept
=============================================================================
