---------------------------- MODULE MCProjection ----------------------------
EXTENDS Projection

CONSTANTS w1, w2

(* Node 1 is in the baseline and 2 only in the live documents; the values  *)
(* move a file between two libraries and between a month and none.         *)
MCNodes == 1..2
MCMonths == 1..2
MCValues == {[ws |-> w1, day |-> 1], [ws |-> w2, day |-> None]}
MCBaseline == [n \in MCNodes |-> IF n = 1 THEN [ws |-> w1, day |-> 2] ELSE None]
=============================================================================
