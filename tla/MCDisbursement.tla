---------------------------- MODULE MCDisbursement ----------------------------
(* Three workers in two processes: w1 and w2 share a manager, w3 has its own. *)
EXTENDS DisbursementRefinement

CONSTANTS w1, w2, w3, p1, p2

TwoProcesses == [w \in Workers |-> IF w = w3 THEN p2 ELSE p1]
=============================================================================
