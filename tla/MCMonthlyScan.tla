---------------------------- MODULE MCMonthlyScan ----------------------------
(* A library that every scope has, and one that a recovery may drop or add. *)
EXTENDS MonthlyScan
CONSTANTS l1, l2
MCScopes == {{l1}, {l1, l2}}
=============================================================================
