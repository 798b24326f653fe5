----------------------------- MODULE MCSupport -----------------------------
(***************************************************************************)
(* Support for TLC: small files, identities and facts for the numbers and  *)
(* the snapshots, and for the pull a second size.                          *)
(***************************************************************************)
EXTENDS Support

VARIABLES short \* see Capped

-----------------------------------------------------------------------------
(* A tick of the pull is 20 minutes; its Day is cut short so that windows  *)
(* can run out.  In a `short' one a cycle has one page, so that two events *)
(* exceed the cap.                                                         *)
Capped == INSTANCE AuditPull WITH MaxPages <- 1

jan == <<1, 1, 1>>
feb == <<1, 2, 1>>
FileOf(w, u, d) == [ws |-> w, who |-> u, day |-> d]
Review(d, v, s) == [day |-> d, verdict |-> v, score |-> s]
MCDays == {jan, feb}
MCRows == {FileOf(1, "a", jan), FileOf(2, "a", jan), FileOf(1, "robot", feb), Deleted}
MCBaselines ==
  {[n \in {1, 2, 3} |-> IF n = 1 THEN FileOf(1, "a", jan) ELSE None],
   <<FileOf(2, "robot", jan), Folder, FileOf(2, "a", feb)>>}
MCStaffings == {[a |-> "rd", robot |-> "other"], [a |-> None, robot |-> "other"]}
MCKeyOf == [a |-> "ka", robot |-> "kr"]
MCReviews ==
  <<(<<Review(jan, "return", 1), Review(feb, "pass", 2)>>), <<Review(jan, "manual_review", 1)>>, <<>> >>

Fact(w, s, d, r) == [ws |-> w, kind |-> "user_id", source |-> s, day |-> d, review |-> r]
Judged(m, v, s) == [month |-> m, verdict |-> v, score |-> s]
Res(st_, off, e) == [status |-> st_, official |-> off, employee |-> e]
MCFacts ==
  {Fact(1, "a", <<1, 1>>, Judged(2, "passCount", 1)), Fact(2, "a", <<1, 1>>, None),
   Fact(2, "r", None, Judged(1, "returnCount", None))}
MCResolutions ==
  {[a |-> Res("matched", TRUE, "ka"), r |-> Res("matched", TRUE, "kr")],
   [a |-> Res("inactive", FALSE, ""), r |-> Res("matched", TRUE, "kb")]}

-----------------------------------------------------------------------------
(* Pages of identities have two uploads and a fault in one month, or, in a  *)
(* `short' one, in two months and no fault, so that one is copied.         *)
Bounded == which = "months" => IF short THEN idFaults' = 0 ELSE wanted'[2] = {}

MCInit == Init /\ short \in (IF which \in {"pull", "months"} THEN BOOLEAN ELSE {FALSE})
MCNext ==
  \/ (short => which = "months") /\ Next /\ Bounded /\ UNCHANGED short
  \/ /\ short /\ which = "pull" /\ Capped!Next
     /\ UNCHANGED <<which, budget, gate, cache, months, rules, numbers, snapshot, short>>
MCSpec == MCInit /\ [][MCNext]_<<all, short>>
=============================================================================
