---------------------------- MODULE PolicyEvaluator ----------------------------
(***************************************************************************)
(* The approval policy (src/domain/workflow/policy_evaluator.py): the      *)
(* validation of a list of threshold rules, the evaluation of an amount    *)
(* and the authority of an actor.  A policy is fixed for a behaviour; the  *)
(* evaluator is built from it once and then asked about amounts.           *)
(***************************************************************************)
EXTENDS Naturals, Sequences

CONSTANTS
  Policies,    \* lists of rules [min, max, tier] the evaluator is built from
  NoMax,       \* max_amount_scaled = None
  PolicyAmounts

\* PolicyRule.__post_init__: bounds are positive and ordered.
ASSUME PoliciesAssumption ==
  \A p \in Policies :
    /\ p \in Seq([min : Nat \ {0}, max : Nat \cup {NoMax},
                  tier : {"AUTO_APPROVE", "MANAGER", "FINANCE_DIRECTOR"}])
    /\ \A i \in 1..Len(p) : p[i].max = NoMax \/ (p[i].max \in Nat /\ p[i].min < p[i].max)

ASSUME PolicyAmountsAssumption == PolicyAmounts \subseteq Nat /\ NoMax \notin Nat

VARIABLES
  rules,       \* the list passed to the constructor
  order,       \* positions of the rules in self._rules, <<>> before it is built
  evaluator,   \* "new", "ready" or "refused" (the constructor raised)
  decision     \* result of the last evaluate

policyVars == <<rules, order, evaluator, decision>>

-----------------------------------------------------------------------------

NoDecision == [amount |-> 0]

Tiers == {"AUTO_APPROVE", "MANAGER", "FINANCE_DIRECTOR"}

Authority ==
  [AUTO_APPROVE |-> 0, MANAGER |-> 1, FINANCE_DIRECTOR |-> 2]

IsActorAuthorized(actor, required) == Authority[actor] >= Authority[required]

Matches(rule, amount) ==
  /\ rule.min <= amount
  /\ rule.max # NoMax => amount < rule.max

PolicyInit ==
  /\ rules \in Policies
  /\ order = <<>>
  /\ evaluator = "new"
  /\ decision = NoDecision

-----------------------------------------------------------------------------
(* The constructor *)

\* sorted() by the lower bound is stable.
SortedOrder(s) ==
  \A i, j \in DOMAIN s :
    i < j => \/ rules[s[i]].min < rules[s[j]].min
             \/ rules[s[i]].min = rules[s[j]].min /\ s[i] < s[j]

\* Mutant: ranges may share one amount.
OverlapOffByOne(prev, rule) == prev.max # NoMax /\ rule.min + 1 < prev.max

\* Only a bounded predecessor is compared with.
Overlap(prev, rule) == prev.max # NoMax /\ rule.min < prev.max

Construct ==
  /\ evaluator = "new"
  /\ \E s \in [1..Len(rules) -> 1..Len(rules)] :
       /\ SortedOrder(s)
       /\ order' = s
       /\ evaluator' =
            IF \/ rules = <<>>
               \/ \E i \in 2..Len(rules) : Overlap(rules[s[i - 1]], rules[s[i]])
            THEN "refused" ELSE "ready"
  /\ UNCHANGED <<rules, decision>>

-----------------------------------------------------------------------------
(* evaluate; evaluate_and_auto_approve returns the same result and its flag *)

Decision(amount, tier, fallback) ==
  [amount |-> amount, tier |-> tier, auto |-> tier = "AUTO_APPROVE",
   fallback |-> fallback]

\* The first rule of the sorted list that contains the amount.
EvaluateMatched(amount) ==
  /\ evaluator = "ready"
  /\ amount > 0
  /\ \E i \in DOMAIN order :
       /\ Matches(rules[order[i]], amount)
       /\ \A j \in 1..(i - 1) : ~Matches(rules[order[j]], amount)
       /\ decision' = Decision(amount, rules[order[i]].tier, FALSE)
  /\ UNCHANGED <<rules, order, evaluator>>

\* A gap in the policy: the highest authority decides.
EvaluateFallback(amount) ==
  /\ evaluator = "ready"
  /\ amount > 0
  /\ \A i \in DOMAIN order : ~Matches(rules[order[i]], amount)
  /\ decision' = Decision(amount, "FINANCE_DIRECTOR", TRUE)
  /\ UNCHANGED <<rules, order, evaluator>>

PolicyNext ==
  \/ Construct
  \/ \E amount \in PolicyAmounts : EvaluateMatched(amount) \/ EvaluateFallback(amount)

PolicySpec == PolicyInit /\ [][PolicyNext]_policyVars

-----------------------------------------------------------------------------
(* Properties *)

Containing(amount) == {i \in DOMAIN rules : Matches(rules[i], amount)}

\* Some rule without upper bound starts no later than another rule.
Shadowing ==
  \E i, j \in DOMAIN rules :
    i # j /\ rules[i].max = NoMax /\ rules[i].min <= rules[j].min

\* What the accepted policy decides does not depend on the order in which its
\* rules were written: an amount is in at most one rule, whose tier is
\* required, or in none and goes to the finance director.  A policy whose
\* unbounded rule is not the last is excepted, since the constructor does not
\* compare with an unbounded predecessor.  No policy at all auto-approves an
\* amount, or accepts a lower authority for it, without a rule that says so.
PolicyDecisive ==
  decision # NoDecision =>
    LET in == Containing(decision.amount) IN
    /\ ~Shadowing => \/ in = {} /\ decision.tier = "FINANCE_DIRECTOR"
                     \/ \E i \in in : in = {i} /\ decision.tier = rules[i].tier
    /\ \A t \in Tiers :
         IsActorAuthorized(t, decision.tier) =>
           \/ t = "FINANCE_DIRECTOR"
           \/ \E i \in in : IsActorAuthorized(t, rules[i].tier)
    /\ decision.auto => \E i \in in : rules[i].tier = "AUTO_APPROVE"

=============================================================================
