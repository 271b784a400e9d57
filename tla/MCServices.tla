------------------------------ MODULE MCServices ------------------------------
(***************************************************************************)
(* The services under arbitrary clients, on small instances: those that    *)
(* decide about amounts (the approval policy, the risk score, the two      *)
(* fraud windows, the daily closing, the currency converter), the fund     *)
(* service (whose Init and Next have no other name) and the idempotency    *)
(* store.  They share no state, so a behaviour follows one of them, the    *)
(* service chosen at the start.                                            *)
(***************************************************************************)
EXTENDS PolicyEvaluator, RiskScore, VelocityWindow, SplitDetector,
        Reconciliation, MCRates, FundService, IdempotencyStore, TLC

CONSTANT Results  \* serialized results

VARIABLE service

decisionVars == <<policyVars, result, velocityVars, splitVars, recVars, rateVars>>

servicesVars == <<service, decisionVars, vars, storeVars>>

-----------------------------------------------------------------------------
(* Instances *)

\* Rules between 1 and 4, bounded or not; the evaluator also gets no rule.
MCRules ==
  {r \in [min : 1..3, max : (2..4) \cup {NoMax}, tier : {"AUTO_APPROVE", "MANAGER"}] :
     r.max = NoMax \/ r.min < r.max}

MCPolicies == UNION {[1..n -> MCRules] : n \in 0..3}

\* No history, one without spread, and one whose values lie 2.5 deviations off.
MCHistories == {<<>>, <<7>>, <<4, 4>>, <<2, 4, 6>>}

\* A cash box of 150.00 with small, middle and large differences to both sides.
MCClosings ==
  LET Request(t, f, n, coins, bank) ==
        [tenant |-> t, counts |-> [x \in {"hundreds", f} |-> IF x = f THEN n ELSE 1],
         coins |-> coins, opening |-> 1500000, replenished |-> 500000,
         disbursed |-> 500000, bank |-> bank]
  IN {Request("t1", "fifties", 1, 0, NoFeed), Request("t1", "fifties", 1, 50000, 500000),
      Request("t2", "fives", 9, 0, NoFeed), Request("t1", "fives", 8, 49999, 500000),
      Request("t2", "fifties", 2, 0, 400000), Request("t1", "quarters", 4, 0, NoFeed),
      Request("t2", "fifties", 2, 1, NoFeed)}

\* The threads that use the converter are interchangeable.
RateUserSymmetry == Permutations(RateUsers)

-----------------------------------------------------------------------------

ServicesInit ==
  /\ service \in {"policy", "risk", "velocity", "split", "closing", "currency",
                  "funds", "store"}
  /\ IF service = "policy" THEN PolicyInit ELSE PolicyInit /\ rules = <<>>
  /\ RiskInit /\ VelocityInit /\ SplitInit /\ RecInit /\ RatesInit
  /\ Init
  /\ StoreInit

Decide ==
  \/ /\ service = "policy" /\ PolicyNext
     /\ UNCHANGED <<result, velocityVars, splitVars, recVars, rateVars>>
  \/ /\ service = "risk" /\ RiskNext
     /\ UNCHANGED <<policyVars, velocityVars, splitVars, recVars, rateVars>>
  \/ /\ service = "velocity" /\ VelocityNext
     /\ UNCHANGED <<policyVars, result, splitVars, recVars, rateVars>>
  \/ /\ service = "split" /\ SplitNext
     /\ UNCHANGED <<policyVars, result, velocityVars, recVars, rateVars>>
  \/ /\ service = "closing" /\ RecNext
     /\ UNCHANGED <<policyVars, result, velocityVars, splitVars, rateVars>>
  \/ /\ service = "currency" /\ RatesNext
     /\ UNCHANGED <<policyVars, result, velocityVars, splitVars, recVars>>

ServicesNext ==
  \/ Decide /\ UNCHANGED <<service, vars, storeVars>>
  \/ /\ service = "funds" /\ Next
     /\ UNCHANGED <<service, decisionVars, storeVars>>
  \/ /\ service = "store" /\ StoreNext(Results)
     /\ UNCHANGED <<service, decisionVars, vars>>

ServicesSpec == ServicesInit /\ [][ServicesNext]_servicesVars

=============================================================================
