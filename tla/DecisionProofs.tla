---------------------------- MODULE DecisionProofs ----------------------------
(***************************************************************************)
(* Theorems about the services that decide about amounts: the approval     *)
(* policy, the risk score, the daily closing, the velocity window, the     *)
(* currency converter and the split detector, for every set of policies,   *)
(* signals, requests, timestamps, rates and events.                        *)
(***************************************************************************)
EXTENDS PolicyEvaluator, RiskScore, Reconciliation, VelocityWindow, SplitDetector,
        CurrencyRates, FiniteSetTheorems, WellFoundedInduction, TLAPS

-----------------------------------------------------------------------------
(* The approval policy.  A sorted list whose neighbours do not overlap     *)
(* holds every rule once, and no amount is in two of its rules.            *)

Rule ==
  [min : Nat \ {0}, max : Nat \cup {NoMax}, tier : Tiers]

\* An evaluator that was built keeps its rules sorted and neighbours apart.
ReadyOrder ==
  /\ order \in [1..Len(rules) -> 1..Len(rules)]
  /\ SortedOrder(order)
  /\ \A i \in 2..Len(rules) : ~Overlap(rules[order[i - 1]], rules[order[i]])

PolicyInv ==
  /\ rules \in Policies
  /\ evaluator = "ready" => ReadyOrder
  /\ PolicyDecisive

-----------------------------------------------------------------------------

\* A policy is a list of well-formed rules (PolicyRule.__post_init__).
LEMMA RulesTyped ==
  ASSUME rules \in Policies
  PROVE  /\ rules \in Seq(Rule)
         /\ Len(rules) \in Nat
         /\ DOMAIN rules = 1..Len(rules)
         /\ \A i \in 1..Len(rules) : rules[i] \in Rule
<1>1. rules \in Seq(Rule)
  BY PoliciesAssumption DEF Rule, Tiers
<1>2. QED
  BY <1>1

\* The sorted list holds every rule: it has no position twice, so by counting
\* it leaves none out.
LEMMA OrderCovers ==
  ASSUME rules \in Policies, ReadyOrder, NEW k \in 1..Len(rules)
  PROVE  \E p \in 1..Len(rules) : order[p] = k
<1> DEFINE N == 1..Len(rules)
<1>1. Len(rules) \in Nat
  BY RulesTyped
<1>2. ASSUME NEW i \in N, NEW j \in N, i < j
      PROVE  order[i] # order[j]
  <2>1. order \in [N -> N] /\ DOMAIN order = N
    BY DEF ReadyOrder
  <2>2. order[i] \in Nat /\ order[j] \in Nat
    BY <2>1
  <2>3. rules[order[i]].min \in Nat
    BY <2>1, RulesTyped DEF Rule
  <2>4. QED
    BY <1>2, <2>1, <2>2, <2>3 DEF ReadyOrder, SortedOrder
<1>3. order \in Injection(N, N)
  <2>1. \A i, j \in N : order[i] = order[j] => i = j
    BY <1>1, <1>2
  <2>2. order \in [N -> N] /\ DOMAIN order = N
    BY DEF ReadyOrder
  <2>3. QED
    BY <2>1, <2>2 DEF Injection, IsInjective
<1>4. IsFiniteSet(N)
  BY <1>1, FS_Interval
<1>5. order \in Surjection(N, N)
  BY <1>3, <1>4, FS_Injection
<1>6. QED
  BY <1>5 DEF Surjection

\* Unless an unbounded rule shadows others, an amount is in one rule at most:
\* between two rules of the sorted list lies the upper bound of the first.
LEMMA RulesDisjoint ==
  ASSUME rules \in Policies, ReadyOrder, ~Shadowing, NEW a \in Nat,
         NEW p \in 1..Len(rules), NEW q \in 1..Len(rules), p < q,
         Matches(rules[order[p]], a)
  PROVE  ~Matches(rules[order[q]], a)
<1> DEFINE R(i) == rules[order[i]]
<1>0. Len(rules) \in Nat /\ p + 1 \in 1..Len(rules) /\ p + 1 \in 2..Len(rules)
  BY RulesTyped
<1>1. order \in [1..Len(rules) -> 1..Len(rules)] /\ DOMAIN order = 1..Len(rules)
  BY DEF ReadyOrder
<1>2. \A i \in 1..Len(rules) : R(i) \in Rule /\ order[i] \in DOMAIN rules
  BY <1>1, RulesTyped
<1>3. R(p).min <= R(q).min /\ order[p] # order[q]
  <2>1. order[p] \in Nat /\ order[q] \in Nat /\ R(p).min \in Nat /\ R(q).min \in Nat
    BY <1>1, <1>2 DEF Rule
  <2>2. QED
    BY <1>1, <2>1 DEF ReadyOrder, SortedOrder
<1>4. R(p).max # NoMax /\ R(p).max \in Nat
  BY <1>2, <1>3 DEF Shadowing, Rule
<1>5. R(p).max <= R(p + 1).min
  <2>1. ~Overlap(rules[order[(p + 1) - 1]], rules[order[p + 1]])
    BY <1>0 DEF ReadyOrder
  <2>2. (p + 1) - 1 = p
    OBVIOUS
  <2>3. R(p + 1).min \in Nat
    BY <1>0, <1>2 DEF Rule
  <2>4. QED
    BY <2>1, <2>2, <2>3, <1>4 DEF Overlap
<1>6. R(p + 1).min <= R(q).min
  <2>1. CASE p + 1 = q
    BY <2>1, <1>2 DEF Rule
  <2>2. CASE p + 1 < q
    <3>1. R(p + 1).min \in Nat /\ R(q).min \in Nat
      BY <1>0, <1>2 DEF Rule
    <3>2. \A i, j \in 1..Len(rules) :
            i < j => R(i).min < R(j).min \/ R(i).min = R(j).min
      BY <1>1 DEF ReadyOrder, SortedOrder
    <3>3. R(p + 1).min < R(q).min \/ R(p + 1).min = R(q).min
      BY <1>0, <2>2, <3>2
    <3>4. QED
      BY <3>1, <3>3
  <2>3. QED
    BY <2>1, <2>2, <1>0
<1>7. a < R(p).max
  BY <1>4 DEF Matches
<1>8. R(q).min \in Nat /\ R(p + 1).min \in Nat
  BY <1>0, <1>2 DEF Rule
<1>9. QED
  BY <1>4, <1>5, <1>6, <1>7, <1>8 DEF Matches

-----------------------------------------------------------------------------

\* The first match of the list is the only rule that contains the amount.
LEMMA MatchedDecides ==
  ASSUME PolicyInv, NEW a \in PolicyAmounts, EvaluateMatched(a)
  PROVE  PolicyDecisive'
<1>0. a \in Nat /\ evaluator = "ready" /\ ReadyOrder /\ rules \in Policies
  BY PolicyAmountsAssumption DEF EvaluateMatched, PolicyInv
<1>1. order \in [1..Len(rules) -> 1..Len(rules)] /\ DOMAIN order = 1..Len(rules)
  BY <1>0 DEF ReadyOrder
<1>2. PICK i \in 1..Len(rules) :
        /\ Matches(rules[order[i]], a)
        /\ \A j \in 1..(i - 1) : ~Matches(rules[order[j]], a)
        /\ decision' = Decision(a, rules[order[i]].tier, FALSE)
  BY <1>1 DEF EvaluateMatched
<1>3. /\ decision'.amount = a
      /\ decision'.tier = rules[order[i]].tier
      /\ decision'.auto = (rules[order[i]].tier = "AUTO_APPROVE")
  BY <1>2 DEF Decision
<1>4. rules' = rules
  BY DEF EvaluateMatched
<1>5. order[i] \in Containing(a)
  BY <1>0, <1>1, <1>2, RulesTyped DEF Containing
<1>6. ASSUME ~Shadowing PROVE Containing(a) = {order[i]}
  <2> SUFFICES ASSUME NEW k \in Containing(a) PROVE k = order[i]
    BY <1>5
  <2>1. k \in 1..Len(rules) /\ Matches(rules[k], a)
    BY <1>0, RulesTyped DEF Containing
  <2>2. PICK p \in 1..Len(rules) : order[p] = k
    BY <1>0, <2>1, OrderCovers
  <2>3. ~(p < i)
    BY <1>0, <1>2, <1>6, <2>1, <2>2, RulesDisjoint
  <2>4. ~(i < p)
    BY <1>0, <1>2, <1>6, <2>1, <2>2, RulesDisjoint
  <2>5. QED
    BY <2>2, <2>3, <2>4, <1>0, RulesTyped
<1>7. Containing(decision.amount)' = Containing(a)
  BY <1>3, <1>4 DEF Containing
<1>8. Shadowing' = Shadowing
  BY <1>4 DEF Shadowing
<1>9. QED
  BY <1>3, <1>4, <1>5, <1>6, <1>7, <1>8 DEF PolicyDecisive

\* Without a match no rule contains the amount, and only the finance director
\* has the authority that is asked for.
LEMMA FallbackDecides ==
  ASSUME PolicyInv, NEW a \in PolicyAmounts, EvaluateFallback(a)
  PROVE  PolicyDecisive'
<1>0. evaluator = "ready" /\ ReadyOrder /\ rules \in Policies /\ rules' = rules
  BY DEF EvaluateFallback, PolicyInv
<1>1. DOMAIN order = 1..Len(rules)
  BY <1>0 DEF ReadyOrder
<1>2. Containing(a) = {}
  <2> SUFFICES ASSUME NEW k \in Containing(a) PROVE FALSE
    OBVIOUS
  <2>1. k \in 1..Len(rules) /\ Matches(rules[k], a)
    BY <1>0, RulesTyped DEF Containing
  <2>2. PICK p \in 1..Len(rules) : order[p] = k
    BY <1>0, <2>1, OrderCovers
  <2>3. QED
    BY <1>1, <2>1, <2>2 DEF EvaluateFallback
<1>3. /\ decision'.amount = a
      /\ decision'.tier = "FINANCE_DIRECTOR"
      /\ decision'.auto = FALSE
  BY DEF EvaluateFallback, Decision
<1>4. Containing(decision.amount)' = {}
  BY <1>0, <1>2, <1>3 DEF Containing
<1>5. ASSUME NEW t \in Tiers, IsActorAuthorized(t, "FINANCE_DIRECTOR")
      PROVE  t = "FINANCE_DIRECTOR"
  BY <1>5 DEF IsActorAuthorized, Authority, Tiers
<1>6. QED
  BY <1>3, <1>4, <1>5 DEF PolicyDecisive

\* Whatever list of rules the constructor accepts, the tier an amount requires
\* is the one its rules say, independent of their order.
THEOREM PolicyIsDecisive == PolicySpec => []PolicyDecisive
<1>1. PolicyInit => PolicyInv
  BY DEF PolicyInit, PolicyInv, PolicyDecisive
<1>2. PolicyInv /\ [PolicyNext]_policyVars => PolicyInv'
  <2> SUFFICES ASSUME PolicyInv, [PolicyNext]_policyVars PROVE PolicyInv'
    OBVIOUS
  <2>1. CASE Construct
    <3>1. rules' \in Policies /\ rules' = rules /\ decision' = decision
      BY <2>1 DEF Construct, PolicyInv
    <3>2. (evaluator = "ready" => ReadyOrder)'
      BY <2>1 DEF Construct, ReadyOrder, SortedOrder, Overlap
    <3>3. PolicyDecisive'
      BY <3>1 DEF PolicyInv, PolicyDecisive, Containing, Shadowing
    <3>4. QED
      BY <3>1, <3>2, <3>3 DEF PolicyInv
  <2>2. ASSUME NEW a \in PolicyAmounts, EvaluateMatched(a) \/ EvaluateFallback(a)
        PROVE  PolicyInv'
    <3>1. PolicyDecisive'
      BY <2>2, MatchedDecides, FallbackDecides
    <3>2. UNCHANGED <<rules, order, evaluator>>
      BY <2>2 DEF EvaluateMatched, EvaluateFallback
    <3>3. QED
      BY <3>1, <3>2 DEF PolicyInv, ReadyOrder, SortedOrder
  <2>3. CASE UNCHANGED policyVars
    BY <2>3 DEF policyVars, PolicyInv, ReadyOrder, SortedOrder,
                PolicyDecisive, Containing, Shadowing
  <2>4. QED
    BY <2>1, <2>2, <2>3 DEF PolicyNext
<1>3. PolicyInv => PolicyDecisive
  BY DEF PolicyInv
<1>4. QED
  BY <1>1, <1>2, <1>3, PTL DEF PolicySpec

-----------------------------------------------------------------------------
(* The risk score *)

Weak == {"category", "amount", "velocity"}

LEMMA CountWeak ==
  ASSUME NEW S
  PROVE  Cardinality(S \cap Weak) = (IF "category" \in S THEN 1 ELSE 0)
           + (IF "amount" \in S THEN 1 ELSE 0) + (IF "velocity" \in S THEN 1 ELSE 0)
<1> DEFINE A == S \cap {"category"}
           B == S \cap {"category", "amount"}
<1>1. IsFiniteSet({}) /\ Cardinality({}) = 0
  BY FS_EmptySet
<1>2. IsFiniteSet(A) /\ Cardinality(A) = IF "category" \in S THEN 1 ELSE 0
  <2>1. CASE "category" \in S
    <3>1. A = {} \cup {"category"}
      BY <2>1
    <3>2. Cardinality({} \cup {"category"}) = 0 + 1 /\ IsFiniteSet({} \cup {"category"})
      BY <1>1, FS_AddElement
    <3>3. QED
      BY <2>1, <3>1, <3>2
  <2>2. CASE "category" \notin S
    <3>1. A = {}
      BY <2>2
    <3>2. QED
      BY <1>1, <2>2, <3>1
  <2>3. QED
    BY <2>1, <2>2
<1>3. IsFiniteSet(B) /\ Cardinality(B) = Cardinality(A) + IF "amount" \in S THEN 1 ELSE 0
  <2>1. CASE "amount" \in S
    <3>1. B = A \cup {"amount"} /\ "amount" \notin A
      BY <2>1
    <3> HIDE DEF A, B
    <3>2. QED
      BY <1>2, <2>1, <3>1, FS_AddElement
  <2>2. CASE "amount" \notin S
    <3>1. B = A
      BY <2>2
    <3> HIDE DEF A, B
    <3>2. Cardinality(A) \in Nat
      BY <1>2, FS_CardinalityType
    <3>3. QED
      BY <1>2, <2>2, <3>1, <3>2
  <2>3. QED
    BY <2>1, <2>2
<1>4. Cardinality(S \cap Weak) = Cardinality(B) + IF "velocity" \in S THEN 1 ELSE 0
  <2>1. CASE "velocity" \in S
    <3>1. S \cap Weak = B \cup {"velocity"} /\ "velocity" \notin B
      BY <2>1 DEF Weak
    <3> HIDE DEF A, B
    <3>2. QED
      BY <1>3, <2>1, <3>1, FS_AddElement
  <2>2. CASE "velocity" \notin S
    <3>1. S \cap Weak = B
      BY <2>2 DEF Weak
    <3> HIDE DEF A, B
    <3>2. Cardinality(B) \in Nat
      BY <1>3, FS_CardinalityType
    <3>3. Cardinality(B) + 0 = Cardinality(B)
      BY <3>2
    <3>4. Cardinality(S \cap Weak) = Cardinality(B)
      BY <3>1
    <3>5. QED
      BY <2>2, <3>3, <3>4
  <2>3. QED
    BY <2>1, <2>2
<1> HIDE DEF A, B
<1>5. QED
  BY <1>2, <1>3, <1>4

\* The score by the signals alone.
LEMMA ScoreOf ==
  ASSUME NEW x, NEW s, s = Triggered(x)
  PROVE  LET raw == (IF "duplicate" \in s THEN 50 ELSE 0) + (IF "split" \in s THEN 30 ELSE 0)
                      + (IF "category" \in s THEN 15 ELSE 0)
                      + (IF "amount" \in s THEN 10 ELSE 0) + (IF "velocity" \in s THEN 10 ELSE 0)
         IN Composite(x) = IF raw > 100 THEN 100 ELSE raw
<1>1. /\ Weights(x)["duplicate"] = 50 /\ Weights(x)["split"] = 30
      /\ Weights(x)["category"] = 15 /\ Weights(x)["amount"] = 10
      /\ Weights(x)["velocity"] = 10
  BY DEF Weights, WeightSplit, WeightSmurfing
<1>2. QED
  BY <1>1 DEF Composite, Points

LEMMA ScoreDecides ==
  ASSUME NEW x, Score(x)
  PROVE  BlockedExactly'
<1>p. PICK s : s = Triggered(x)
  OBVIOUS
<1> DEFINE c == Composite(x)
           D == "duplicate" \in s
           P == "split" \in s
           n == Cardinality(s \cap Weak)
<1>1. /\ result'.score = c /\ result'.level = ScoreToLevel(c)
      /\ result'.blocked = IsBlocked(ScoreToLevel(c)) /\ result'.signals = s
  BY <1>p DEF Score
<1>2. n = (IF "category" \in s THEN 1 ELSE 0) + (IF "amount" \in s THEN 1 ELSE 0)
            + (IF "velocity" \in s THEN 1 ELSE 0)
  BY CountWeak
<1>3. LET raw == (IF D THEN 50 ELSE 0) + (IF P THEN 30 ELSE 0)
                   + (IF "category" \in s THEN 15 ELSE 0)
                   + (IF "amount" \in s THEN 10 ELSE 0) + (IF "velocity" \in s THEN 10 ELSE 0)
      IN c = IF raw > 100 THEN 100 ELSE raw
  BY <1>p, ScoreOf
<1> HIDE DEF c, D, P, n
<1>4. c \in 0..100 /\ (c >= 50 <=> D \/ (P /\ n >= 2)) /\ (c >= 80 <=> D /\ (P \/ n = 3))
  BY <1>2, <1>3
<1>5. IsBlocked(ScoreToLevel(c)) <=> c >= 50
  BY <1>4 DEF ScoreToLevel, IsBlocked
<1>6. ScoreToLevel(c) = "CRITICAL" <=> c >= 80
  BY <1>4 DEF ScoreToLevel
<1>7. QED
  BY <1>1, <1>4, <1>5, <1>6 DEF BlockedExactly, Weak, D, P, n

\* For all arguments of score(): which combinations of signals block a
\* payment and which escalate it, and that no combination leaves 0..100.
THEOREM SignalsBlockExactly == RiskSpec => []BlockedExactly
<1>1. RiskInit => BlockedExactly
  BY DEF RiskInit, BlockedExactly
<1>2. BlockedExactly /\ [RiskNext]_result => BlockedExactly'
  <2> SUFFICES ASSUME BlockedExactly, [RiskNext]_result PROVE BlockedExactly'
    OBVIOUS
  <2>1. CASE result' = result
    BY <2>1 DEF BlockedExactly
  <2>2. ASSUME NEW x \in Arguments, Score(x) PROVE BlockedExactly'
    BY <2>2, ScoreDecides
  <2>3. QED
    BY <2>1, <2>2 DEF RiskNext
<1>3. QED
  BY <1>1, <1>2, PTL DEF RiskSpec

-----------------------------------------------------------------------------
(* The sign-offs of daily closings *)

\* A closing that a thread is about to store is nobody else's; its list of
\* signatures does not exist before its thread stores it.
WorkerOK(w) ==
  LET c == workers[w] IN
  c # NoWork =>
    /\ c = [at |-> c.at, id |-> c.id] /\ c.id \in 1..Len(closings)
    /\ \/ c.at = "history" /\ c.id \notin history
       \/ c.at = "signoffs" /\ c.id \in history /\ c.id \notin DOMAIN signoffs

\* What was answered for a closing, and its list once that is stored.
AnswersOK(id) ==
  /\ signed[id] \in Seq([tenant : RecTenants, signer : Signers])
  /\ \A i \in 1..Len(signed[id]) : signed[id][i].tenant = closings[id].request.tenant
  /\ id \notin DOMAIN signoffs => signed[id] = <<>>

ListOK(id) ==
  /\ signoffs[id] \in Seq(Signers)
  /\ Len(signoffs[id]) = Len(signed[id])
  /\ \A i \in 1..Len(signed[id]) : signoffs[id][i] = signed[id][i].signer

SignInv ==
  /\ \E S : closings \in Seq(S)
  /\ Len(closings) <= MaxClosings
  /\ history \subseteq 1..Len(closings)
  /\ workers = [w \in RecWorkers |-> workers[w]]
  /\ \A w \in RecWorkers : WorkerOK(w)
  /\ \A v, w \in RecWorkers :
       workers[v] # NoWork /\ workers[w] # NoWork /\ workers[v].id = workers[w].id => v = w
  /\ signoffs = [id \in DOMAIN signoffs |-> signoffs[id]]
  /\ DOMAIN signoffs \subseteq history
  /\ DOMAIN signed = 1..MaxClosings /\ signed = [id \in 1..MaxClosings |-> signed[id]]
  /\ \A id \in 1..Len(closings) : AnswersOK(id)
  /\ \A id \in (Len(closings) + 1)..MaxClosings : signed[id] = <<>>
  /\ \A id \in DOMAIN signoffs : ListOK(id)

LEMMA SignStarts ==
  ASSUME RecInit
  PROVE  SignInv
<1>1. closings \in Seq(Nat) /\ Len(closings) = 0
  BY DEF RecInit
<1>2. DOMAIN signoffs = {} /\ signoffs = [id \in DOMAIN signoffs |-> signoffs[id]]
  BY DEF RecInit
<1>3. workers = [w \in RecWorkers |-> workers[w]] /\ \A w \in RecWorkers : workers[w] = NoWork
  BY DEF RecInit
<1>4. /\ DOMAIN signed = 1..MaxClosings /\ signed = [id \in 1..MaxClosings |-> signed[id]]
      /\ \A id \in 1..MaxClosings : signed[id] = <<>>
  BY DEF RecInit
<1>5. 1..0 = {} /\ 0 + 1 = 1 /\ 0 <= MaxClosings
  BY BoundsAssumption
<1>6. history = {}
  BY DEF RecInit
<1>7. QED
  BY <1>1, <1>2, <1>3, <1>4, <1>5, <1>6 DEF SignInv, WorkerOK

LEMMA ComputeKeeps ==
  ASSUME SignInv, NEW w \in RecWorkers, NEW r, ComputeClosing(w, r)
  PROVE  SignInv'
<1> DEFINE n == Len(closings)
           c == [at |-> "history", id |-> n + 1]
<1>1. /\ closings' = Append(closings, Analyze(r)) /\ workers' = [workers EXCEPT ![w] = c]
      /\ history' = history /\ signoffs' = signoffs /\ signed' = signed
      /\ n < MaxClosings
  BY DEF ComputeClosing
<1>2. PICK S : closings \in Seq(S)
  BY DEF SignInv
<1>3. n \in Nat
  BY <1>2
<1>4. closings' \in Seq(S \cup {Analyze(r)}) /\ Len(closings') = n + 1
      /\ \A i \in 1..n : closings'[i] = closings[i]
  <2> DEFINE T == S \cup {Analyze(r)}
             a == Analyze(r)
  <2>1. closings \in Seq(T) /\ a \in T
    <3>1. closings \in [1..n -> T]
      BY <1>2
    <3>2. QED
      BY <1>3, <3>1
  <2> HIDE DEF T, a
  <2>2. closings' = Append(closings, a)
    BY <1>1 DEF a
  <2>3. Append(closings, a) \in Seq(T) /\ Len(Append(closings, a)) = n + 1
        /\ \A i \in 1..n : Append(closings, a)[i] = closings[i]
    BY <2>1
  <2>4. QED
    BY <2>2, <2>3 DEF T
<1>s. \E T : closings' \in Seq(T)
  BY <1>4
<1>5. c.at = "history" /\ c.id = n + 1 /\ c = [at |-> c.at, id |-> c.id]
  OBVIOUS
<1> HIDE DEF n, c
<1>6. 1..n \subseteq 1..(n + 1) /\ n + 1 \notin 1..n /\ n + 1 \in 1..(n + 1)
  BY <1>3
<1>7. workers'[w] = c /\ \A v \in RecWorkers : v # w => workers'[v] = workers[v]
  BY <1>1 DEF SignInv
<1>8. workers' = [v \in RecWorkers |-> workers'[v]]
  BY <1>1 DEF SignInv
<1>9. history \subseteq 1..n /\ DOMAIN signoffs \subseteq 1..n
  BY DEF SignInv, n
<1>10. ASSUME NEW v \in RecWorkers PROVE WorkerOK(v)'
  <2>1. CASE v = w
    BY <1>1, <1>4, <1>5, <1>6, <1>7, <1>9, <2>1 DEF WorkerOK
  <2>2. CASE v # w
    <3>1. WorkerOK(v) /\ workers'[v] = workers[v]
      BY <1>7, <2>2 DEF SignInv
    <3>2. QED
      BY <1>1, <1>4, <1>6, <3>1 DEF WorkerOK, n
  <2>3. QED
    BY <2>1, <2>2
<1>11. \A v \in RecWorkers : workers[v] # NoWork => workers[v].id \in 1..n
  BY DEF SignInv, WorkerOK, n
<1>12. ASSUME NEW v \in RecWorkers, NEW u \in RecWorkers, workers'[v] # NoWork,
              workers'[u] # NoWork, workers'[v].id = workers'[u].id
       PROVE  v = u
  BY <1>5, <1>6, <1>7, <1>11, <1>12 DEF SignInv
<1>13. ASSUME NEW id \in 1..Len(closings') PROVE AnswersOK(id)'
  <2>1. CASE id \in 1..n
    <3>1. AnswersOK(id) /\ closings'[id] = closings[id]
      BY <1>4, <2>1 DEF SignInv, n
    <3>2. QED
      BY <1>1, <3>1 DEF AnswersOK
  <2>2. CASE id = n + 1
    <3>1. signed[id] = <<>>
      <4>1. n + 1 \in (n + 1)..MaxClosings
        BY <1>1, <1>3, BoundsAssumption
      <4>2. QED
        BY <2>2, <4>1 DEF SignInv, n
    <3>2. signed'[id] = <<>>
      BY <1>1, <3>1
    <3>3. <<>> \in Seq([tenant : RecTenants, signer : Signers]) /\ 1..Len(<<>>) = {}
      OBVIOUS
    <3>4. QED
      BY <3>2, <3>3 DEF AnswersOK
  <2>3. QED
    BY <1>3, <1>4, <2>1, <2>2
<1>14. \A id \in DOMAIN signoffs : ListOK(id)'
  BY <1>1 DEF SignInv, ListOK
<1>15. Len(closings') <= MaxClosings
       /\ \A id \in (Len(closings') + 1)..MaxClosings : signed'[id] = <<>>
  <2>1. n + 1 <= MaxClosings /\ (n + 1 + 1)..MaxClosings \subseteq (n + 1)..MaxClosings
    BY <1>1, <1>3, BoundsAssumption
  <2>2. \A id \in (n + 1)..MaxClosings : signed[id] = <<>>
    BY DEF SignInv, n
  <2>3. QED
    BY <1>1, <1>4, <2>1, <2>2
<1>16. DOMAIN signed' = 1..MaxClosings /\ signed' = [id \in 1..MaxClosings |-> signed'[id]]
  BY <1>1 DEF SignInv
<1>17. history' \subseteq 1..Len(closings') /\ DOMAIN signoffs' \subseteq history'
       /\ signoffs' = [id \in DOMAIN signoffs' |-> signoffs'[id]]
  BY <1>1, <1>4, <1>6, <1>9 DEF SignInv
<1>18. QED
  BY <1>1, <1>s, <1>8, <1>10, <1>12, <1>13, <1>14, <1>15, <1>16, <1>17 DEF SignInv

LEMMA HistoryKeeps ==
  ASSUME SignInv, NEW w \in RecWorkers, StoreHistory(w)
  PROVE  SignInv'
<1>p. PICK id : id = workers[w].id
  OBVIOUS
<1> DEFINE c == [workers[w] EXCEPT !.at = "signoffs"]
<1>1. /\ history' = history \cup {id} /\ workers' = [workers EXCEPT ![w].at = "signoffs"]
      /\ closings' = closings /\ signoffs' = signoffs /\ signed' = signed
      /\ workers[w].at = "history"
  BY <1>p DEF StoreHistory
<1>2. /\ workers[w] # NoWork /\ workers[w] = [at |-> workers[w].at, id |-> id]
      /\ id \in 1..Len(closings) /\ id \notin history
  BY <1>p, <1>1 DEF SignInv, WorkerOK, NoWork
<1>3. c.at = "signoffs" /\ c.id = id /\ c = [at |-> c.at, id |-> c.id]
  BY <1>2
<1>4. workers'[w] = c /\ \A v \in RecWorkers : v # w => workers'[v] = workers[v]
  BY <1>1 DEF SignInv
<1>5. workers' = [v \in RecWorkers |-> workers'[v]]
  BY <1>1 DEF SignInv
<1> HIDE DEF c
<1>6. DOMAIN signoffs \subseteq history
  BY DEF SignInv
<1>7. ASSUME NEW v \in RecWorkers PROVE WorkerOK(v)'
  <2>1. CASE v = w
    BY <1>1, <1>2, <1>3, <1>4, <1>6, <2>1 DEF WorkerOK
  <2>2. CASE v # w
    <3>1. WorkerOK(v) /\ workers'[v] = workers[v]
      BY <1>4, <2>2 DEF SignInv
    <3>2. workers[v] # NoWork => workers[v].id # id
      BY <1>p, <1>2, <2>2 DEF SignInv
    <3>3. QED
      BY <1>1, <3>1, <3>2 DEF WorkerOK
  <2>3. QED
    BY <2>1, <2>2
<1>8. ASSUME NEW v \in RecWorkers, NEW u \in RecWorkers, workers'[v] # NoWork,
             workers'[u] # NoWork, workers'[v].id = workers'[u].id
      PROVE  v = u
  <2>1. \A x \in RecWorkers : workers'[x] # NoWork =>
          workers[x] # NoWork /\ workers'[x].id = workers[x].id
    BY <1>p, <1>2, <1>3, <1>4
  <2>2. QED
    BY <1>8, <2>1 DEF SignInv
<1>9. \A i \in DOMAIN signoffs : ListOK(i)'
  BY <1>1 DEF SignInv, ListOK
<1>10. \A i \in 1..Len(closings) : AnswersOK(i)'
  BY <1>1 DEF SignInv, AnswersOK
<1>11. QED
  BY <1>1, <1>2, <1>5, <1>7, <1>8, <1>9, <1>10 DEF SignInv

LEMMA SignoffsKeeps ==
  ASSUME SignInv, NEW w \in RecWorkers, StoreSignoffs(w)
  PROVE  SignInv'
<1>p. PICK id : id = workers[w].id
  OBVIOUS
<1>1. /\ signoffs' = [i \in DOMAIN signoffs \cup {id} |-> IF i = id THEN <<>> ELSE signoffs[i]]
      /\ workers' = [workers EXCEPT ![w] = NoWork] /\ workers[w].at = "signoffs"
      /\ closings' = closings /\ history' = history /\ signed' = signed
  BY <1>p DEF StoreSignoffs
<1>2. workers[w] # NoWork /\ id \in history /\ id \notin DOMAIN signoffs
  BY <1>p, <1>1 DEF SignInv, WorkerOK, NoWork
<1>3. workers'[w] = NoWork /\ \A v \in RecWorkers : v # w => workers'[v] = workers[v]
  BY <1>1 DEF SignInv
<1>4. workers' = [v \in RecWorkers |-> workers'[v]]
  BY <1>1 DEF SignInv
<1>5. DOMAIN signoffs' = DOMAIN signoffs \cup {id} /\ signoffs'[id] = <<>>
      /\ (\A i \in DOMAIN signoffs : signoffs'[i] = signoffs[i])
      /\ signoffs' = [i \in DOMAIN signoffs' |-> signoffs'[i]]
  BY <1>1, <1>2
<1>6. ASSUME NEW v \in RecWorkers PROVE WorkerOK(v)'
  <2>1. CASE v = w
    BY <1>3, <2>1 DEF WorkerOK
  <2>2. CASE v # w
    <3>1. WorkerOK(v) /\ workers'[v] = workers[v]
      BY <1>3, <2>2 DEF SignInv
    <3>2. workers[v] # NoWork => workers[v].id # id
      BY <1>p, <1>2, <2>2 DEF SignInv
    <3>3. QED
      BY <1>1, <1>5, <3>1, <3>2 DEF WorkerOK
  <2>3. QED
    BY <2>1, <2>2
<1>7. \A v, u \in RecWorkers :
        workers'[v] # NoWork /\ workers'[u] # NoWork /\ workers'[v].id = workers'[u].id => v = u
  BY <1>3 DEF SignInv
<1>8. \A i \in 1..Len(closings) : AnswersOK(i)'
  BY <1>1, <1>5 DEF SignInv, AnswersOK
<1>9. ASSUME NEW i \in DOMAIN signoffs' PROVE ListOK(i)'
  <2>1. CASE i = id
    <3>1. signed[id] = <<>>
      <4>1. id \in 1..Len(closings) /\ AnswersOK(id)
        BY <1>2 DEF SignInv
      <4>2. QED
        BY <1>2, <4>1 DEF AnswersOK
    <3>2. signed'[id] = <<>> /\ signoffs'[id] = <<>>
      BY <1>1, <1>5, <3>1
    <3>3. <<>> \in Seq(Signers) /\ 1..Len(<<>>) = {}
      OBVIOUS
    <3>4. QED
      BY <2>1, <3>2, <3>3 DEF ListOK
  <2>2. CASE i # id
    <3>1. ListOK(i) /\ signoffs'[i] = signoffs[i]
      BY <1>5, <2>2 DEF SignInv
    <3>2. QED
      BY <1>1, <3>1 DEF ListOK
  <2>3. QED
    BY <2>1, <2>2
<1>10. QED
  BY <1>1, <1>2, <1>4, <1>5, <1>6, <1>7, <1>8, <1>9 DEF SignInv

LEMMA SignOffKeeps ==
  ASSUME SignInv, NEW id, NEW tenant \in RecTenants, NEW signer \in Signers,
         SignOff(id, tenant, signer)
  PROVE  SignInv'
<1> DEFINE s == [tenant |-> tenant, signer |-> signer]
           T == [tenant : RecTenants, signer : Signers]
           old == signoffs[id]
           said == signed[id]
<1>1. /\ id \in DOMAIN signoffs /\ tenant = closings[id].request.tenant
      /\ signoffs' = [signoffs EXCEPT ![id] = Append(old, signer)]
      /\ signed' = [signed EXCEPT ![id] = Append(said, s)]
      /\ closings' = closings /\ history' = history /\ workers' = workers
  BY DEF SignOff
<1>2. s \in T /\ s.tenant = tenant /\ s.signer = signer
  OBVIOUS
<1> HIDE DEF s
<1>3. id \in 1..Len(closings) /\ id \in 1..MaxClosings
  <2>1. \E S : closings \in Seq(S)
    BY DEF SignInv
  <2>2. Len(closings) \in Nat
    BY <2>1
  <2>3. QED
    BY <1>1, <2>2, BoundsAssumption DEF SignInv
<1>4. /\ DOMAIN signoffs' = DOMAIN signoffs /\ signoffs'[id] = Append(old, signer)
      /\ \A i \in DOMAIN signoffs : i # id => signoffs'[i] = signoffs[i]
      /\ signoffs' = [i \in DOMAIN signoffs' |-> signoffs'[i]]
  BY <1>1 DEF SignInv
<1>5. /\ DOMAIN signed' = 1..MaxClosings /\ signed'[id] = Append(said, s)
      /\ \A i \in 1..MaxClosings : i # id => signed'[i] = signed[i]
      /\ signed' = [i \in 1..MaxClosings |-> signed'[i]]
  BY <1>1, <1>3 DEF SignInv
<1>6. ListOK(id) /\ AnswersOK(id)
  BY <1>1, <1>3 DEF SignInv
<1>7. /\ old \in Seq(Signers) /\ said \in Seq(T)
      /\ Len(old) = Len(said) /\ Len(said) \in Nat
      /\ \A i \in 1..Len(said) : old[i] = said[i].signer /\ said[i].tenant = tenant
  BY <1>1, <1>6 DEF ListOK, AnswersOK
<1> HIDE DEF T, old, said
<1>8. /\ Append(old, signer) \in Seq(Signers) /\ Len(Append(old, signer)) = Len(said) + 1
      /\ Append(old, signer)[Len(said) + 1] = signer
      /\ \A i \in 1..Len(said) : Append(old, signer)[i] = old[i]
  BY <1>7
<1>9. /\ Append(said, s) \in Seq(T) /\ Len(Append(said, s)) = Len(said) + 1
      /\ Append(said, s)[Len(said) + 1] = s
      /\ \A i \in 1..Len(said) : Append(said, s)[i] = said[i]
  BY <1>2, <1>7
<1>10. \A i \in 1..(Len(said) + 1) : i \in 1..Len(said) \/ i = Len(said) + 1
  BY <1>7
<1>11. ASSUME NEW i \in DOMAIN signoffs' PROVE ListOK(i)'
  <2>1. CASE i = id
    <3>1. signoffs'[i] = Append(old, signer) /\ signed'[i] = Append(said, s)
      BY <1>4, <1>5, <2>1
    <3>2. ASSUME NEW j \in 1..(Len(said) + 1)
          PROVE  Append(old, signer)[j] = Append(said, s)[j].signer
      <4>1. CASE j \in 1..Len(said)
        BY <1>7, <1>8, <1>9, <4>1
      <4>2. CASE j = Len(said) + 1
        BY <1>2, <1>8, <1>9, <4>2
      <4>3. QED
        BY <1>10, <4>1, <4>2
    <3>3. QED
      BY <1>8, <1>9, <3>1, <3>2 DEF ListOK
  <2>2. CASE i # id
    <3>1. ListOK(i) /\ signoffs'[i] = signoffs[i]
      BY <1>4, <2>2 DEF SignInv
    <3>2. i \in 1..MaxClosings
      <4>1. \E S : closings \in Seq(S)
        BY DEF SignInv
      <4>2. Len(closings) \in Nat /\ i \in 1..Len(closings)
        BY <1>4, <4>1 DEF SignInv
      <4>3. QED
        BY <4>2, BoundsAssumption DEF SignInv
    <3>3. signed'[i] = signed[i]
      BY <1>5, <2>2, <3>2
    <3>4. QED
      BY <3>1, <3>3 DEF ListOK
  <2>3. QED
    BY <2>1, <2>2
<1>12. ASSUME NEW i \in 1..MaxClosings, i # id PROVE signed'[i] = signed[i]
  BY <1>5, <1>12
<1>13. Len(closings) \in Nat
  <2>1. \E S : closings \in Seq(S)
    BY DEF SignInv
  <2>2. QED
    BY <2>1
<1>14. ASSUME NEW i \in 1..Len(closings) PROVE AnswersOK(i)'
  <2>1. CASE i = id
    <3>1. signed'[i] = Append(said, s) /\ i \in DOMAIN signoffs'
      BY <1>1, <1>4, <1>5, <2>1
    <3>2. ASSUME NEW j \in 1..(Len(said) + 1)
          PROVE  Append(said, s)[j].tenant = closings'[i].request.tenant
      <4>0. closings'[i].request.tenant = tenant
        BY <1>1, <2>1
      <4>1. CASE j \in 1..Len(said)
        BY <1>7, <1>9, <4>0, <4>1
      <4>2. CASE j = Len(said) + 1
        BY <1>2, <1>9, <4>0, <4>2
      <4>3. QED
        BY <1>10, <4>1, <4>2
    <3>3. QED
      BY <1>9, <3>1, <3>2 DEF AnswersOK, T
  <2>2. CASE i # id
    <3>1. i \in 1..MaxClosings
      BY <1>13, BoundsAssumption DEF SignInv
    <3>2. AnswersOK(i) /\ signed'[i] = signed[i]
      BY <1>12, <2>2, <3>1 DEF SignInv
    <3>3. QED
      BY <1>1, <1>4, <3>2 DEF AnswersOK
  <2>3. QED
    BY <2>1, <2>2
<1>15. ASSUME NEW i \in (Len(closings) + 1)..MaxClosings PROVE signed'[i] = <<>>
  <2>1. i \in 1..MaxClosings /\ i # id
    BY <1>3, <1>13, BoundsAssumption
  <2>2. QED
    BY <1>12, <2>1 DEF SignInv
<1>16. \A w \in RecWorkers : WorkerOK(w)'
  BY <1>1, <1>4 DEF SignInv, WorkerOK
<1>17. QED
  BY <1>1, <1>4, <1>5, <1>11, <1>14, <1>15, <1>16 DEF SignInv

\* However many threads serve closings and sign-offs, and however often a
\* signer repeats one: the list of a closing is what was answered for it, in
\* that order, from its own tenant.
THEOREM SignaturesKept == RecSpec => []SignoffsKept
<1>1. RecInit => SignInv
  BY SignStarts
<1>2. SignInv /\ [RecNext]_recVars => SignInv'
  <2> SUFFICES ASSUME SignInv, [RecNext]_recVars PROVE SignInv'
    OBVIOUS
  <2>1. ASSUME NEW w \in RecWorkers, NEW r \in Closings, ComputeClosing(w, r) PROVE SignInv'
    BY <2>1, ComputeKeeps
  <2>2. ASSUME NEW w \in RecWorkers, StoreHistory(w) PROVE SignInv'
    BY <2>2, HistoryKeeps
  <2>3. ASSUME NEW w \in RecWorkers, StoreSignoffs(w) PROVE SignInv'
    BY <2>3, SignoffsKeeps
  <2>4. ASSUME NEW id \in DOMAIN closings, NEW tenant \in RecTenants, NEW signer \in Signers,
               SignOff(id, tenant, signer)
        PROVE  SignInv'
    BY <2>4, SignOffKeeps
  <2>5. CASE UNCHANGED recVars
    BY <2>5 DEF recVars, SignInv, WorkerOK, ListOK, AnswersOK
  <2>6. QED
    BY <2>1, <2>2, <2>3, <2>4, <2>5 DEF RecNext
<1>3. SignInv => SignoffsKept
  <2> SUFFICES ASSUME SignInv PROVE SignoffsKept
    OBVIOUS
  <2>1. ASSUME NEW id \in 1..Len(closings)
        PROVE  /\ signed[id] # <<>> => id \in history /\ id \in DOMAIN signoffs
               /\ id \in DOMAIN signoffs =>
                    signoffs[id] = [i \in DOMAIN signed[id] |-> signed[id][i].signer]
               /\ \A i \in DOMAIN signed[id] :
                    signed[id][i].tenant = closings[id].request.tenant
    <3>1. AnswersOK(id) /\ DOMAIN signed[id] = 1..Len(signed[id])
      <4>1. AnswersOK(id)
        BY DEF SignInv
      <4>2. QED
        BY <4>1 DEF AnswersOK
    <3>2. signed[id] # <<>> => id \in history /\ id \in DOMAIN signoffs
      BY <3>1 DEF SignInv, AnswersOK
    <3>3. ASSUME id \in DOMAIN signoffs
          PROVE  signoffs[id] = [i \in DOMAIN signed[id] |-> signed[id][i].signer]
      <4>1. ListOK(id)
        BY <3>3 DEF SignInv
      <4>2. signoffs[id] = [i \in 1..Len(signoffs[id]) |-> signoffs[id][i]]
        BY <4>1 DEF ListOK
      <4>3. QED
        BY <3>1, <4>1, <4>2 DEF ListOK
    <3>4. QED
      BY <3>1, <3>2, <3>3 DEF AnswersOK
  <2>2. DOMAIN closings = 1..Len(closings)
    BY DEF SignInv
  <2>3. QED
    BY <2>1, <2>2 DEF SignoffsKept
<1>4. QED
  BY <1>1, <1>2, <1>3, PTL DEF RecSpec

-----------------------------------------------------------------------------
(* The velocity window *)

LEMMA LeastNumber ==
  ASSUME NEW T, T \subseteq Nat, T # {}
  PROVE  \E m \in T : \A k \in T : m <= k
<1>1. PICK m \in T : \A k \in T : ~(<<k, m>> \in OpToRel(<, Nat))
  BY NatLessThanWellFounded, WFMin
<1>2. ASSUME NEW k \in T PROVE m <= k
  <2>1. k \in Nat /\ m \in Nat
    OBVIOUS
  <2>2. ~(k < m)
    BY <1>1, <2>1 DEF OpToRel
  <2>3. QED
    BY <2>1, <2>2
<1>3. QED
  BY <1>2

Stamped == [id : Nat, ts : Nat]

\* What _evict_expired leaves: the queue from the first record that is recent
\* enough on.
LEMMA EvictDrops ==
  ASSUME NEW S, NEW w \in Seq(S), NEW now \in Nat
  PROVE  \E k \in 0..Len(w) :
           /\ Evict(w, now) \in Seq(S) /\ Len(Evict(w, now)) = Len(w) - k
           /\ \A i \in 1..(Len(w) - k) : Evict(w, now)[i] = w[i + k]
           /\ \A i \in 1..k : ~(w[i].ts + WindowLength >= now)
           /\ k < Len(w) => w[k + 1].ts + WindowLength >= now
<1> DEFINE kept == {i \in DOMAIN w : w[i].ts + WindowLength >= now}
           m == CHOOSE i \in kept : \A j \in kept : i <= j
<1>1. Len(w) \in Nat /\ DOMAIN w = 1..Len(w) /\ kept \subseteq Nat
  OBVIOUS
<1>2. CASE kept = {}
  <2>1. Evict(w, now) = <<>>
    BY <1>2 DEF Evict
  <2>2. Evict(w, now) \in Seq(S) /\ Len(Evict(w, now)) = Len(w) - Len(w)
    BY <1>1, <2>1
  <2>3. \A i \in 1..Len(w) : ~(w[i].ts + WindowLength >= now)
    BY <1>1, <1>2
  <2>4. Len(w) \in 0..Len(w) /\ ~(Len(w) < Len(w)) /\ 1..(Len(w) - Len(w)) = {}
    BY <1>1
  <2>5. QED
    BY <2>2, <2>3, <2>4
<1>3. CASE kept # {}
  <2>1. m \in kept /\ \A j \in kept : m <= j
    BY <1>1, <1>3, LeastNumber
  <2>2. Evict(w, now) = SubSeq(w, m, Len(w))
    BY <1>3 DEF Evict
  <2>3. m \in 1..Len(w) /\ w[m].ts + WindowLength >= now
    BY <1>1, <2>1
  <2>4. ASSUME NEW i \in 1..(m - 1) PROVE ~(w[i].ts + WindowLength >= now)
    <3>1. i \in DOMAIN w /\ ~(m <= i)
      BY <1>1, <2>3
    <3>2. QED
      BY <2>1, <3>1
  <2> HIDE DEF m, kept
  <2>5. /\ SubSeq(w, m, Len(w)) \in Seq(S) /\ Len(SubSeq(w, m, Len(w))) = Len(w) - m + 1
        /\ \A i \in 1..(Len(w) - m + 1) : SubSeq(w, m, Len(w))[i] = w[m + i - 1]
    BY <1>1, <2>3
  <2> DEFINE k == m - 1
  <2>6. k \in 0..Len(w) /\ Len(w) - m + 1 = Len(w) - k /\ k + 1 = m
        /\ \A i \in 1..(Len(w) - k) : m + i - 1 = i + k
    BY <1>1, <2>3
  <2> HIDE DEF k
  <2>7. \A i \in 1..k : ~(w[i].ts + WindowLength >= now)
    BY <2>4 DEF k
  <2>8. QED
    BY <2>2, <2>3, <2>5, <2>6, <2>7
<1>4. QED
  BY <1>2, <1>3

\* A window w over the records R, with greatest reference time last and n
\* records so far: in the order of their ids, and none of the last window is
\* missing.
Sound(w, R, last, n) ==
  /\ w \in Seq(Stamped) /\ R \subseteq Stamped
  /\ \A r \in R : r.id <= n
  /\ \A i \in 1..Len(w) : w[i] \in R
  /\ \A i, j \in 1..Len(w) : i < j => w[i].id < w[j].id
  /\ \A r \in R : r.ts + WindowLength >= last => \E i \in 1..Len(w) : w[i] = r

\* What holds in addition while no reference time went back.
Exact(w, last) ==
  /\ \A i \in 1..Len(w) : w[i].ts <= last /\ w[i].ts + WindowLength >= last
  /\ \A i, j \in 1..Len(w) : i < j => w[i].ts <= w[j].ts

LEMMA EvictSound ==
  ASSUME NEW w, NEW R, NEW last \in Nat, NEW n, Sound(w, R, last, n), NEW now \in Nat,
         NEW next \in Nat, next >= now, next >= last
  PROVE  Sound(Evict(w, now), R, next, n)
<1> DEFINE v == Evict(w, now)
           L == Len(w)
<1>1. w \in Seq(Stamped) /\ L \in Nat /\ WindowLength \in Nat
      /\ \A i \in 1..L : w[i].ts \in Nat
  BY WindowAssumption DEF Sound, Stamped
<1>2. PICK k \in 0..L :
        /\ v \in Seq(Stamped) /\ Len(v) = L - k
        /\ \A i \in 1..(L - k) : v[i] = w[i + k]
        /\ \A i \in 1..k : ~(w[i].ts + WindowLength >= now)
  BY <1>1, EvictDrops
<1> HIDE DEF v, L
<1>3. \A i \in 1..(L - k) : i + k \in 1..L
  BY <1>1
<1>4. \A i \in 1..Len(v) : v[i] \in R
  BY <1>2, <1>3 DEF Sound, L
<1>5. ASSUME NEW i \in 1..Len(v), NEW j \in 1..Len(v), i < j PROVE v[i].id < v[j].id
  <2>1. i + k \in 1..L /\ j + k \in 1..L /\ i + k < j + k
    BY <1>1, <1>2, <1>5
  <2>2. v[i] = w[i + k] /\ v[j] = w[j + k]
    BY <1>2
  <2>3. QED
    BY <2>1, <2>2 DEF Sound, L
<1>6. ASSUME NEW r \in R, r.ts + WindowLength >= next PROVE \E i \in 1..Len(v) : v[i] = r
  <2>1. r.ts \in Nat
    BY DEF Sound, Stamped
  <2>2. r.ts + WindowLength >= last /\ r.ts + WindowLength >= now
    BY <1>1, <1>6, <2>1
  <2>3. PICK i \in 1..L : w[i] = r
    BY <2>2 DEF Sound, L
  <2>4. i \notin 1..k
    BY <1>2, <2>2, <2>3
  <2>5. i - k \in 1..(L - k) /\ (i - k) + k = i
    BY <1>1, <2>4
  <2>6. QED
    BY <1>2, <2>3, <2>5
<1>7. QED
  BY <1>2, <1>4, <1>5, <1>6 DEF Sound, v

LEMMA EvictExact ==
  ASSUME NEW w \in Seq(Stamped), NEW last \in Nat, Exact(w, last), NEW now \in Nat, now >= last
  PROVE  Exact(Evict(w, now), now)
<1> DEFINE v == Evict(w, now)
           L == Len(w)
<1>t. \A i \in 1..L : w[i] \in Stamped
  OBVIOUS
<1>1. L \in Nat /\ WindowLength \in Nat /\ \A i \in 1..L : w[i].ts \in Nat
  <2>1. \A r \in Stamped : r.ts \in Nat
    BY DEF Stamped
  <2>2. QED
    BY <1>t, <2>1, WindowAssumption
<1>2. PICK k \in 0..L :
        /\ Len(v) = L - k
        /\ \A i \in 1..(L - k) : v[i] = w[i + k]
        /\ k < L => w[k + 1].ts + WindowLength >= now
  BY EvictDrops
<1> HIDE DEF v, L
<1>3. ASSUME NEW i \in 1..Len(v) PROVE v[i].ts <= now /\ v[i].ts + WindowLength >= now
  <2>1. i + k \in 1..L /\ k < L /\ k + 1 \in 1..L /\ v[i] = w[i + k]
    BY <1>1, <1>2
  <2>2. w[i + k].ts <= last /\ w[i + k].ts \in Nat /\ w[k + 1].ts \in Nat
    BY <1>1, <2>1 DEF Exact, L
  <2>3. w[k + 1].ts <= w[i + k].ts
    <3>1. CASE i = 1
      <4>1. i + k = k + 1
        BY <1>1, <3>1
      <4>2. QED
        BY <2>2, <4>1
    <3>2. CASE i # 1
      <4>1. k + 1 < i + k
        BY <1>1, <1>2, <3>2
      <4>2. QED
        BY <2>1, <4>1 DEF Exact, L
    <3>3. QED
      BY <3>1, <3>2
  <2>4. w[k + 1].ts + WindowLength >= now
    BY <1>2, <2>1
  <2> DEFINE a == w[k + 1].ts
             b == w[i + k].ts
  <2> HIDE DEF a, b
  <2>5. a \in Nat /\ b \in Nat /\ a <= b /\ b <= last /\ a + WindowLength >= now
    BY <2>2, <2>3, <2>4 DEF a, b
  <2>6. b <= now /\ b + WindowLength >= now
    BY <1>1, <2>5
  <2>7. QED
    BY <2>1, <2>6 DEF b
<1>4. ASSUME NEW i \in 1..Len(v), NEW j \in 1..Len(v), i < j PROVE v[i].ts <= v[j].ts
  <2>1. i + k \in 1..L /\ j + k \in 1..L /\ i + k < j + k
    BY <1>1, <1>2, <1>4
  <2>2. v[i] = w[i + k] /\ v[j] = w[j + k]
    BY <1>2
  <2>3. QED
    BY <2>1, <2>2 DEF Exact, L
<1>5. QED
  BY <1>3, <1>4 DEF Exact, v

LEMMA RecordSound ==
  ASSUME NEW w, NEW R, NEW last \in Nat, NEW n \in Nat, Sound(w, R, last, n),
         NEW r, r.id = n + 1, r \in Stamped
  PROVE  /\ Sound(Append(w, r), R \cup {r}, last, n + 1)
         /\ Len(Append(w, r)) = Len(w) + 1 /\ Append(w, r)[Len(w) + 1] = r
         /\ \A i \in 1..Len(w) : Append(w, r)[i] = w[i]
<1> DEFINE v == Append(w, r)
           L == Len(w)
<1>1. w \in Seq(Stamped) /\ L \in Nat
  BY DEF Sound
<1>2. v \in Seq(Stamped) /\ Len(v) = L + 1 /\ v[L + 1] = r /\ \A i \in 1..L : v[i] = w[i]
  BY <1>1
<1> HIDE DEF v, L
<1>3. (\A i \in 1..(L + 1) : i = L + 1 \/ i \in 1..L) /\ 1..L \subseteq 1..(L + 1)
      /\ L + 1 \in 1..(L + 1)
  BY <1>1
<1>4. \A q \in R : q.id \in Nat /\ q.id <= n /\ q.id < n + 1 /\ q.id <= n + 1
  BY DEF Sound, Stamped
<1>5. \A q \in R \cup {r} : q.id <= n + 1
  BY <1>4
<1>6. \A i \in 1..(L + 1) : v[i] \in R \cup {r}
  BY <1>2, <1>3 DEF Sound, L
<1>7. ASSUME NEW i \in 1..(L + 1), NEW j \in 1..(L + 1), i < j PROVE v[i].id < v[j].id
  <2>1. i \in 1..L
    BY <1>1, <1>7
  <2>2. CASE j \in 1..L
    BY <1>2, <1>7, <2>1, <2>2 DEF Sound, L
  <2>3. CASE j = L + 1
    <3>1. v[i] \in R
      BY <1>2, <2>1 DEF Sound, L
    <3>2. QED
      BY <1>2, <1>4, <2>3, <3>1
  <2>4. QED
    BY <1>3, <2>2, <2>3
<1>8. ASSUME NEW q \in R \cup {r}, q.ts + WindowLength >= last
      PROVE  \E i \in 1..(L + 1) : v[i] = q
  <2>1. CASE q \in R
    <3>1. PICK i \in 1..L : w[i] = q
      BY <1>8, <2>1 DEF Sound, L
    <3>2. QED
      BY <1>2, <1>3, <3>1
  <2>2. CASE q = r
    BY <1>2, <1>3, <2>2
  <2>3. QED
    BY <2>1, <2>2
<1>9. R \cup {r} \subseteq Stamped
  BY DEF Sound
<1>10. Sound(v, R \cup {r}, last, n + 1)
  BY <1>2, <1>5, <1>6, <1>7, <1>8, <1>9 DEF Sound
<1>11. QED
  BY <1>2, <1>10 DEF v, L

LEMMA RecordExact ==
  ASSUME NEW w \in Seq(Stamped), NEW r \in Stamped, Exact(w, r.ts)
  PROVE  Exact(Append(w, r), r.ts)
<1> DEFINE v == Append(w, r)
           L == Len(w)
<1>1. L \in Nat /\ WindowLength \in Nat /\ r.ts \in Nat
  BY WindowAssumption DEF Stamped
<1>2. Len(v) = L + 1 /\ v[L + 1] = r /\ \A i \in 1..L : v[i] = w[i]
  OBVIOUS
<1> HIDE DEF v, L
<1>3. \A i \in 1..(L + 1) : i = L + 1 \/ i \in 1..L
  BY <1>1
<1>4. r.ts <= r.ts /\ r.ts + WindowLength >= r.ts
  BY <1>1
<1>5. \A i \in 1..(L + 1) : v[i].ts <= r.ts /\ v[i].ts + WindowLength >= r.ts
  BY <1>2, <1>3, <1>4 DEF Exact, L
<1>6. ASSUME NEW i \in 1..(L + 1), NEW j \in 1..(L + 1), i < j PROVE v[i].ts <= v[j].ts
  <2>1. CASE j \in 1..L
    <3>1. i \in 1..L
      BY <1>1, <1>6, <2>1
    <3>2. QED
      BY <1>2, <1>6, <2>1, <3>1 DEF Exact, L
  <2>2. CASE j = L + 1
    BY <1>2, <1>5, <2>2
  <2>3. QED
    BY <1>3, <2>1, <2>2
<1>7. QED
  BY <1>2, <1>5, <1>6 DEF Exact, v

\* A window holds no record twice, so its length is its count.
LEMMA CountWindow ==
  ASSUME NEW w, NEW R, NEW last, NEW n, Sound(w, R, last, n)
  PROVE  LET W == {w[i] : i \in DOMAIN w}
         IN IsFiniteSet(W) /\ Cardinality(W) = Len(w)
<1> DEFINE I == 1..Len(w)
           W == {w[i] : i \in I}
           f == [i \in I |-> w[i]]
<1>1. Len(w) \in Nat /\ DOMAIN w = I
  BY DEF Sound
<1>2. \A i \in I : w[i].id \in Nat
  <2>1. \A r \in R : r.id \in Nat
    BY DEF Sound, Stamped
  <2>2. QED
    BY <2>1 DEF Sound
<1>3. ASSUME NEW i \in I, NEW j \in I, w[i] = w[j] PROVE i = j
  <2>1. ~(i < j) /\ ~(j < i)
    BY <1>2, <1>3 DEF Sound
  <2>2. QED
    BY <1>1, <2>1
<1>4. IsFiniteSet(I) /\ Cardinality(I) = Len(w)
  <2>1. 1 \in Int /\ Len(w) \in Int
    BY <1>1
  <2>2. IsFiniteSet(1..Len(w)) /\ Cardinality(1..Len(w)) = IF 1 > Len(w) THEN 0 ELSE Len(w) - 1 + 1
    BY <2>1, FS_Interval
  <2>3. QED
    BY <1>1, <2>2
<1>5. f \in Bijection(I, W)
  <2>1. f \in [I -> W]
    OBVIOUS
  <2>2. \A i, j \in I : f[i] = f[j] => i = j
    BY <1>3
  <2>3. \A x \in W : \E i \in I : f[i] = x
    OBVIOUS
  <2> HIDE DEF f, I, W
  <2>4. QED
    BY <2>1, <2>2, <2>3 DEF Bijection, Injection, Surjection, IsInjective
<1>6. ExistsBijection(I, W)
  BY <1>5 DEF ExistsBijection
<1> HIDE DEF f, I, W
<1>7. IsFiniteSet(W) /\ Cardinality(W) = Cardinality(I)
  BY <1>4, <1>6, FS_Bijection
<1>8. QED
  BY <1>1, <1>4, <1>7 DEF W

CustodianOK(c) ==
  /\ latest[c] \in Nat /\ inOrder[c] \in BOOLEAN
  /\ Sound(windows[c], recordsKept[c], latest[c], recorded)
  /\ inOrder[c] => Exact(windows[c], latest[c])
  /\ answer[c] = "none" => Len(windows[c]) <= MaxHourly
  /\ answer[c] = "alert" => Len(windows[c]) > MaxHourly

VelocityInv ==
  /\ recorded \in Nat
  /\ windows = [c \in VelocityCustodians |-> windows[c]]
  /\ recordsKept = [c \in VelocityCustodians |-> recordsKept[c]]
  /\ latest = [c \in VelocityCustodians |-> latest[c]]
  /\ inOrder = [c \in VelocityCustodians |-> inOrder[c]]
  /\ answer = [c \in VelocityCustodians |-> answer[c]]
  /\ \A c \in VelocityCustodians : CustodianOK(c)

LEMMA EmptyWindow ==
  ASSUME NEW n
  PROVE  Sound(<<>>, {}, 0, n) /\ Exact(<<>>, 0) /\ Len(<<>>) = 0
<1>1. <<>> \in Seq(Stamped) /\ Len(<<>>) = 0
  OBVIOUS
<1>2. QED
  BY <1>1 DEF Sound, Exact

\* The other custodians' windows stay as they are.
LEMMA OthersKept ==
  ASSUME VelocityInv, NEW c \in VelocityCustodians, NEW w, NEW a, NEW R, NEW t, NEW o,
         recorded' \in Nat, recorded <= recorded',
         windows' = [windows EXCEPT ![c] = w], answer' = [answer EXCEPT ![c] = a],
         recordsKept' = [recordsKept EXCEPT ![c] = R], latest' = [latest EXCEPT ![c] = t],
         inOrder' = [inOrder EXCEPT ![c] = o],
         t \in Nat, o \in BOOLEAN, Sound(w, R, t, recorded'), o => Exact(w, t),
         a = "none" => Len(w) <= MaxHourly, a = "alert" => Len(w) > MaxHourly
  PROVE  VelocityInv'
<1>1. windows'[c] = w /\ \A d \in VelocityCustodians : d # c => windows'[d] = windows[d]
  BY DEF VelocityInv
<1>2. answer'[c] = a /\ \A d \in VelocityCustodians : d # c => answer'[d] = answer[d]
  BY DEF VelocityInv
<1>3. recordsKept'[c] = R /\ \A d \in VelocityCustodians : d # c => recordsKept'[d] = recordsKept[d]
  BY DEF VelocityInv
<1>4. latest'[c] = t /\ \A d \in VelocityCustodians : d # c => latest'[d] = latest[d]
  BY DEF VelocityInv
<1>5. inOrder'[c] = o /\ \A d \in VelocityCustodians : d # c => inOrder'[d] = inOrder[d]
  BY DEF VelocityInv
<1>6. ASSUME NEW d \in VelocityCustodians PROVE CustodianOK(d)'
  <2>1. CASE d = c
    BY <1>1, <1>2, <1>3, <1>4, <1>5, <2>1 DEF CustodianOK
  <2>2. CASE d # c
    <3>1. CustodianOK(d) /\ recorded \in Nat
      BY DEF VelocityInv
    <3>2. \A r \in recordsKept[d] : r.id <= recorded'
      <4>1. \A r \in recordsKept[d] : r.id \in Nat /\ r.id <= recorded
        BY <3>1 DEF CustodianOK, Sound, Stamped
      <4>2. QED
        BY <3>1, <4>1
    <3>3. Sound(windows[d], recordsKept[d], latest[d], recorded')
      BY <3>1, <3>2 DEF CustodianOK, Sound
    <3>4. QED
      BY <1>1, <1>2, <1>3, <1>4, <1>5, <2>2, <3>1, <3>3 DEF CustodianOK
  <2>3. QED
    BY <2>1, <2>2
<1>7. /\ windows' = [d \in VelocityCustodians |-> windows'[d]]
      /\ recordsKept' = [d \in VelocityCustodians |-> recordsKept'[d]]
      /\ latest' = [d \in VelocityCustodians |-> latest'[d]]
      /\ inOrder' = [d \in VelocityCustodians |-> inOrder'[d]]
      /\ answer' = [d \in VelocityCustodians |-> answer'[d]]
  BY DEF VelocityInv
<1>8. QED
  BY <1>6, <1>7 DEF VelocityInv

LEMMA RecordKeeps ==
  ASSUME VelocityInv, NEW c \in VelocityCustodians, NEW now \in Times,
         RecordDisbursement(c, now)
  PROVE  VelocityInv'
<1> DEFINE r == [id |-> recorded + 1, ts |-> now]
           v == Evict(windows[c], now)
           w == Append(v, r)
           t == IF now > latest[c] THEN now ELSE latest[c]
           o == inOrder[c] /\ now >= latest[c]
           a == IF Len(w) > MaxHourly THEN "alert" ELSE "none"
           R == recordsKept[c] \cup {r}
<1>1. /\ recorded' = recorded + 1 /\ windows' = [windows EXCEPT ![c] = w]
      /\ answer' = [answer EXCEPT ![c] = a] /\ recordsKept' = [recordsKept EXCEPT ![c] = R]
      /\ latest' = [latest EXCEPT ![c] = t] /\ inOrder' = [inOrder EXCEPT ![c] = o]
  BY DEF RecordDisbursement, SeeTime
<1>2. now \in Nat /\ recorded \in Nat /\ CustodianOK(c)
  BY WindowAssumption DEF VelocityInv
<1>3. t \in Nat /\ t >= now /\ t >= latest[c] /\ latest[c] \in Nat
      /\ (now >= latest[c] => t = now)
  BY <1>2 DEF CustodianOK
<1>4. Sound(v, recordsKept[c], t, recorded)
  BY <1>2, <1>3, EvictSound DEF CustodianOK
<1>5. r \in Stamped /\ r.id = recorded + 1 /\ r.ts = now
  BY <1>2 DEF Stamped
<1> HIDE DEF r, v
<1>6. Sound(w, R, t, recorded + 1) /\ Len(w) = Len(v) + 1
  BY <1>2, <1>3, <1>4, <1>5, RecordSound
<1>7. o => Exact(w, t)
  <2> SUFFICES ASSUME o PROVE Exact(w, t)
    OBVIOUS
  <2>1. t = now /\ Exact(windows[c], latest[c]) /\ windows[c] \in Seq(Stamped)
    BY <1>2, <1>3 DEF CustodianOK, Sound
  <2>2. Exact(v, now)
    BY <1>2, <1>3, <2>1, EvictExact DEF v
  <2>3. v \in Seq(Stamped)
    BY <1>4 DEF Sound
  <2>4. Exact(w, r.ts)
    BY <1>5, <2>2, <2>3, RecordExact
  <2>5. QED
    BY <1>5, <2>1, <2>4
<1>8. Len(w) \in Nat
  BY <1>6 DEF Sound
<1>9. (a = "none" => Len(w) <= MaxHourly) /\ (a = "alert" => Len(w) > MaxHourly)
  BY <1>8, VelocityAssumption
<1>10. o \in BOOLEAN
  OBVIOUS
<1>11. recorded' \in Nat /\ recorded <= recorded'
  BY <1>1, <1>2
<1>12. Sound(w, R, t, recorded')
  BY <1>1, <1>6
<1> HIDE DEF w, t, o, a, R
<1>13. QED
  BY <1>1, <1>3, <1>7, <1>9, <1>10, <1>11, <1>12, OthersKept

LEMMA QueryKeeps ==
  ASSUME VelocityInv, NEW c \in VelocityCustodians, NEW now \in Times, QueryWindow(c, now)
  PROVE  VelocityInv'
<1> DEFINE w == Evict(windows[c], now)
           t == IF now > latest[c] THEN now ELSE latest[c]
           o == inOrder[c] /\ now >= latest[c]
<1>1. /\ recorded' = recorded /\ windows' = [windows EXCEPT ![c] = w]
      /\ answer' = [answer EXCEPT ![c] = "-"] /\ recordsKept' = recordsKept
      /\ latest' = [latest EXCEPT ![c] = t] /\ inOrder' = [inOrder EXCEPT ![c] = o]
  BY DEF QueryWindow, SeeTime
<1>2. now \in Nat /\ recorded \in Nat /\ CustodianOK(c)
  BY WindowAssumption DEF VelocityInv
<1>3. t \in Nat /\ t >= now /\ t >= latest[c] /\ latest[c] \in Nat
      /\ (now >= latest[c] => t = now)
  BY <1>2 DEF CustodianOK
<1>4. Sound(w, recordsKept[c], t, recorded)
  BY <1>2, <1>3, EvictSound DEF CustodianOK
<1>5. o => Exact(w, t)
  BY <1>2, <1>3, EvictExact DEF CustodianOK, Sound
<1>6. recordsKept' = [recordsKept EXCEPT ![c] = recordsKept[c]]
  BY <1>1 DEF VelocityInv
<1>7. o \in BOOLEAN /\ recorded' \in Nat /\ recorded <= recorded'
  BY <1>1, <1>2
<1>8. Sound(w, recordsKept[c], t, recorded')
  BY <1>1, <1>4
<1> HIDE DEF w, t, o
<1>9. QED
  BY <1>1, <1>3, <1>5, <1>6, <1>7, <1>8, OthersKept

LEMMA ClearKeeps ==
  ASSUME VelocityInv, NEW c \in VelocityCustodians, ClearCustodian(c)
  PROVE  VelocityInv'
<1>1. /\ recorded' = recorded /\ windows' = [windows EXCEPT ![c] = <<>>]
      /\ answer' = [answer EXCEPT ![c] = "-"] /\ recordsKept' = [recordsKept EXCEPT ![c] = {}]
      /\ latest' = [latest EXCEPT ![c] = 0] /\ inOrder' = [inOrder EXCEPT ![c] = TRUE]
  BY DEF ClearCustodian
<1>2. recorded \in Nat /\ recorded <= recorded
  BY DEF VelocityInv
<1>3. Sound(<<>>, {}, 0, recorded') /\ Exact(<<>>, 0)
  BY EmptyWindow
<1>4. QED
  BY <1>1, <1>2, <1>3, OthersKept

LEMMA VelocityFollows ==
  ASSUME VelocityInv
  PROVE  WindowExact
<1> SUFFICES ASSUME NEW c \in VelocityCustodians
             PROVE  /\ Recent(c) \subseteq InWindow(c)
                    /\ Cardinality(InWindow(c)) = Len(windows[c])
                    /\ answer[c] = "none" => Cardinality(Recent(c)) <= MaxHourly
                    /\ inOrder[c] => /\ InWindow(c) = Recent(c)
                                     /\ answer[c] = "alert" =>
                                          Cardinality(Recent(c)) > MaxHourly
  BY DEF WindowExact
<1>1. CustodianOK(c)
  BY DEF VelocityInv
<1>2. Sound(windows[c], recordsKept[c], latest[c], recorded) /\ windows[c] \in Seq(Stamped)
  BY <1>1 DEF CustodianOK, Sound
<1>3. DOMAIN windows[c] = 1..Len(windows[c]) /\ Len(windows[c]) \in Nat
  BY <1>2
<1>4. IsFiniteSet(InWindow(c)) /\ Cardinality(InWindow(c)) = Len(windows[c])
  BY <1>2, CountWindow DEF InWindow
<1>5. Recent(c) \subseteq InWindow(c)
  BY <1>2, <1>3 DEF Sound, Recent, InWindow
<1>6. IsFiniteSet(Recent(c)) /\ Cardinality(Recent(c)) <= Len(windows[c])
      /\ Cardinality(Recent(c)) \in Nat
  BY <1>4, <1>5, FS_Subset, FS_CardinalityType
<1>7. ASSUME inOrder[c] PROVE InWindow(c) \subseteq Recent(c)
  <2>1. \A i \in 1..Len(windows[c]) : windows[c][i] \in recordsKept[c]
          /\ windows[c][i].ts + WindowLength >= latest[c]
    BY <1>1, <1>2, <1>7 DEF CustodianOK, Sound, Exact
  <2>2. QED
    BY <1>3, <2>1 DEF InWindow, Recent
<1>8. (answer[c] = "none" => Len(windows[c]) <= MaxHourly)
      /\ (answer[c] = "alert" => Len(windows[c]) > MaxHourly)
  BY <1>1 DEF CustodianOK
<1>9. answer[c] = "none" => Cardinality(Recent(c)) <= MaxHourly
  BY <1>3, <1>6, <1>8, VelocityAssumption
<1>10. inOrder[c] => InWindow(c) = Recent(c)
  BY <1>5, <1>7
<1>11. inOrder[c] /\ answer[c] = "alert" => Cardinality(Recent(c)) > MaxHourly
  BY <1>4, <1>8, <1>10
<1>12. QED
  BY <1>4, <1>5, <1>9, <1>10, <1>11

\* For every stream of timestamps: no disbursement of the last window is
\* missing from record_and_check's count, and while timestamps never went
\* back the count is exact.
THEOREM VelocityWindowExact == VelocitySpec => []WindowExact
<1>1. VelocityInit => VelocityInv
  <2> SUFFICES ASSUME VelocityInit PROVE VelocityInv
    OBVIOUS
  <2>1. Sound(<<>>, {}, 0, recorded) /\ Exact(<<>>, 0)
    BY EmptyWindow
  <2>2. \A c \in VelocityCustodians : windows[c] = <<>> /\ recordsKept[c] = {} /\ latest[c] = 0
          /\ inOrder[c] = TRUE /\ answer[c] = "-"
    BY DEF VelocityInit
  <2>3. ASSUME NEW c \in VelocityCustodians PROVE CustodianOK(c)
    <3>1. inOrder[c] \in BOOLEAN
      BY <2>2
    <3>2. latest[c] \in Nat /\ Sound(windows[c], recordsKept[c], latest[c], recorded)
          /\ Exact(windows[c], latest[c])
      <4>1. windows[c] = <<>> /\ recordsKept[c] = {} /\ latest[c] = 0
        BY <2>2
      <4>2. 0 \in Nat
        OBVIOUS
      <4>3. QED
        BY <2>1, <4>1, <4>2, Zenon
    <3>3. answer[c] # "none" /\ answer[c] # "alert"
      BY <2>2
    <3>4. QED
      BY <3>1, <3>2, <3>3 DEF CustodianOK
  <2>4. QED
    BY <2>3 DEF VelocityInit, VelocityInv
<1>2. VelocityInv /\ [VelocityNext]_velocityVars => VelocityInv'
  <2> SUFFICES ASSUME VelocityInv, [VelocityNext]_velocityVars PROVE VelocityInv'
    OBVIOUS
  <2>1. ASSUME NEW c \in VelocityCustodians, NEW now \in Times, RecordDisbursement(c, now)
        PROVE  VelocityInv'
    BY <2>1, RecordKeeps
  <2>2. ASSUME NEW c \in VelocityCustodians, NEW now \in Times, QueryWindow(c, now)
        PROVE  VelocityInv'
    BY <2>2, QueryKeeps
  <2>3. ASSUME NEW c \in VelocityCustodians, ClearCustodian(c) PROVE VelocityInv'
    BY <2>3, ClearKeeps
  <2>4. CASE UNCHANGED velocityVars
    BY <2>4 DEF velocityVars, VelocityInv, CustodianOK
  <2>5. QED
    BY <2>1, <2>2, <2>3, <2>4 DEF VelocityNext
<1>3. VelocityInv => WindowExact
  BY VelocityFollows
<1>4. QED
  BY <1>1, <1>2, <1>3, PTL DEF VelocitySpec

-----------------------------------------------------------------------------
(* The adjusting entry *)

Pick(t) == CHOOSE x \in t : TRUE

\* The equation that defines a sum over the positions D.
SumStep(D, W, h) ==
  [t \in SUBSET D |-> IF t = {} THEN 0 ELSE h[t \ {Pick(t)}] + W[Pick(t)]]

LEMMA PickIn ==
  ASSUME NEW t, t # {}
  PROVE  Pick(t) \in t
  BY DEF Pick

\* Over no position, and over two in whichever order they are picked, it has a
\* solution, and every solution is the sum.
LEMMA SumOfNone ==
  ASSUME NEW W
  PROVE  /\ \E h : h = SumStep({}, W, h)
         /\ \A h : h = SumStep({}, W, h) => h[{}] = 0
<1> DEFINE g == [t \in {{}} |-> 0]
<1>1. SUBSET {} = {{}}
  OBVIOUS
<1>2. \A h : SumStep({}, W, h) = g
  BY <1>1 DEF SumStep
<1>3. QED
  BY <1>2

LEMMA SumOfTwo ==
  ASSUME NEW W, W[1] \in Int, W[2] \in Int
  PROVE  /\ \E h : h = SumStep({1, 2}, W, h)
         /\ \A h : h = SumStep({1, 2}, W, h) => h[{1, 2}] = W[1] + W[2]
<1>1. \E h : h = SumStep({1, 2}, W, h)
  <2> DEFINE Of(i, t) == IF i \in t THEN W[i] ELSE 0
             g == [t \in SUBSET {1, 2} |-> Of(1, t) + Of(2, t)]
  <2>1. ASSUME NEW t \in SUBSET {1, 2}
        PROVE g[t] = IF t = {} THEN 0 ELSE g[t \ {Pick(t)}] + W[Pick(t)]
    <3>1. CASE t = {}
      BY <3>1
    <3>2. CASE t # {}
      <4>p. PICK x : x = Pick(t)
        OBVIOUS
      <4>1. x \in t /\ x \in {1, 2} /\ t \ {x} \in SUBSET {1, 2}
        BY <3>2, <4>p, PickIn
      <4>2. CASE x = 1
        <5>1. g[t] = W[1] + Of(2, t) /\ g[t \ {x}] = 0 + Of(2, t) /\ Of(2, t) \in Int
          BY <4>1, <4>2
        <5>2. QED
          BY <3>2, <4>p, <4>2, <5>1
      <4>3. CASE x = 2
        <5>1. g[t] = Of(1, t) + W[2] /\ g[t \ {x}] = Of(1, t) + 0 /\ Of(1, t) \in Int
          BY <4>1, <4>3
        <5>2. QED
          BY <3>2, <4>p, <4>3, <5>1
      <4>4. QED
        BY <4>1, <4>2, <4>3
    <3>3. QED
      BY <3>1, <3>2
  <2>2. g = SumStep({1, 2}, W, g)
    BY <2>1 DEF SumStep
  <2>3. QED
    BY <2>2
<1>2. ASSUME NEW h, h = SumStep({1, 2}, W, h) PROVE h[{1, 2}] = W[1] + W[2]
  <2>1. \A t \in SUBSET {1, 2} : h[t] = IF t = {} THEN 0 ELSE h[t \ {Pick(t)}] + W[Pick(t)]
    BY <1>2 DEF SumStep
  <2>2. h[{}] = 0
    BY <2>1
  <2>3. ASSUME NEW i \in {1, 2} PROVE h[{i}] = W[i]
    <3>1. Pick({i}) = i /\ {i} \ {i} = {} /\ {i} \in SUBSET {1, 2} /\ {i} # {}
      BY PickIn
    <3>2. h[{i}] = h[{}] + W[i]
      BY <2>1, <3>1
    <3>3. QED
      BY <2>2, <3>2
  <2>4. /\ Pick({1, 2}) \in {1, 2} /\ {1, 2} \ {1} = {2} /\ {1, 2} \ {2} = {1}
        /\ {1, 2} \in SUBSET {1, 2} /\ {1, 2} # {}
    BY PickIn
  <2>5. CASE Pick({1, 2}) = 1
    <3>1. h[{1, 2}] = h[{2}] + W[1]
      BY <2>1, <2>4, <2>5
    <3>2. QED
      BY <2>3, <3>1
  <2>6. CASE Pick({1, 2}) = 2
    <3>1. h[{1, 2}] = h[{1}] + W[2]
      BY <2>1, <2>4, <2>6
    <3>2. QED
      BY <2>3, <3>1
  <2>7. QED
    BY <2>4, <2>5, <2>6
<1>3. QED
  BY <1>1, <1>2

\* The folds of the model are such sums.
TotalShare(leg, type) == IF leg.type = type THEN leg.amt ELSE 0

TotalStep(legs, type, h) ==
  [t \in SUBSET DOMAIN legs |->
     IF t = {} THEN 0 ELSE h[t \ {Pick(t)}] + TotalShare(legs[Pick(t)], type)]

EffectStep(legs, h) ==
  [t \in SUBSET DOMAIN legs |->
     IF t = {} THEN 0 ELSE h[t \ {Pick(t)}] + FundShare(legs[Pick(t)])]

LEMMA FoldsUnfold ==
  ASSUME NEW legs, NEW type
  PROVE  /\ TotalOf(legs, type) = (CHOOSE h : h = TotalStep(legs, type, h))[DOMAIN legs]
         /\ Effect(legs) = (CHOOSE h : h = EffectStep(legs, h))[DOMAIN legs]
<1>1. TotalOf(legs, type) = (CHOOSE h : h = TotalStep(legs, type, h))[DOMAIN legs]
  BY DEF TotalOf, FoldSeq, FoldFunction, FoldFunctionOnSet, MapThenFoldSet, TotalStep, Pick,
         TotalShare
<1>2. Effect(legs) = (CHOOSE h : h = EffectStep(legs, h))[DOMAIN legs]
  BY DEF Effect, FoldSeq, FoldFunction, FoldFunctionOnSet, MapThenFoldSet, EffectStep, Pick
<1>3. QED
  BY <1>1, <1>2

LEMMA EmptyBatch ==
  ASSUME NEW type
  PROVE  TotalOf(<<>>, type) = 0 /\ Effect(<<>>) = 0
<1>1. DOMAIN <<>> = {}
  OBVIOUS
<1>2. \A h : TotalStep(<<>>, type, h) = SumStep({}, <<>>, h) /\ EffectStep(<<>>, h) = SumStep({}, <<>>, h)
  <2>1. SUBSET {} = {{}}
    OBVIOUS
  <2>2. QED
    BY <1>1, <2>1 DEF TotalStep, EffectStep, SumStep
<1>3. PICK h : h = CHOOSE k : k = TotalStep(<<>>, type, k)
  OBVIOUS
<1>4. h = TotalStep(<<>>, type, h)
  BY <1>2, <1>3, SumOfNone
<1>5. PICK e : e = CHOOSE k : k = EffectStep(<<>>, k)
  OBVIOUS
<1>6. e = EffectStep(<<>>, e)
  BY <1>2, <1>5, SumOfNone
<1>7. h[{}] = 0 /\ e[{}] = 0
  BY <1>2, <1>4, <1>6, SumOfNone
<1>8. QED
  BY <1>1, <1>3, <1>5, <1>7, FoldsUnfold

LEMMA TwoLegs ==
  ASSUME NEW a, NEW b, NEW type, a.amt \in Int, b.amt \in Int
  PROVE  /\ TotalOf(<<a, b>>, type) = TotalShare(a, type) + TotalShare(b, type)
         /\ Effect(<<a, b>>) = FundShare(a) + FundShare(b)
<1>s. PICK s : s = <<a, b>>
  OBVIOUS
<1>1. DOMAIN s = {1, 2} /\ s[1] = a /\ s[2] = b
  BY <1>s
<1>2. /\ TotalShare(a, type) \in Int /\ TotalShare(b, type) \in Int
      /\ FundShare(a) \in Int /\ FundShare(b) \in Int
  BY DEF TotalShare, FundShare
<1>t. PICK T : T = [i \in {1, 2} |-> TotalShare(s[i], type)]
  OBVIOUS
<1>f. PICK F : F = [i \in {1, 2} |-> FundShare(s[i])]
  OBVIOUS
<1>3. /\ T[1] = TotalShare(a, type) /\ T[2] = TotalShare(b, type)
      /\ F[1] = FundShare(a) /\ F[2] = FundShare(b)
  BY <1>1, <1>t, <1>f
<1>4. \A t \in SUBSET {1, 2} : t # {} => /\ TotalShare(s[Pick(t)], type) = T[Pick(t)]
                                         /\ FundShare(s[Pick(t)]) = F[Pick(t)]
  BY <1>t, <1>f, PickIn
<1>5. \A h : TotalStep(s, type, h) = SumStep({1, 2}, T, h)
  BY <1>1, <1>4 DEF TotalStep, SumStep
<1>6. \A h : EffectStep(s, h) = SumStep({1, 2}, F, h)
  BY <1>1, <1>4 DEF EffectStep, SumStep
<1>7. TotalOf(s, type) = T[1] + T[2]
  <2>1. PICK h : h = CHOOSE k : k = TotalStep(s, type, k)
    OBVIOUS
  <2>2. \E k : k = TotalStep(s, type, k)
    BY <1>2, <1>3, <1>5, SumOfTwo
  <2>3. h = TotalStep(s, type, h)
    BY <2>1, <2>2
  <2>4. h[{1, 2}] = T[1] + T[2]
    BY <1>2, <1>3, <1>5, <2>3, SumOfTwo
  <2>5. QED
    BY <1>1, <2>1, <2>4, FoldsUnfold
<1>8. Effect(s) = F[1] + F[2]
  <2>1. PICK h : h = CHOOSE k : k = EffectStep(s, k)
    OBVIOUS
  <2>2. \E k : k = EffectStep(s, k)
    BY <1>2, <1>3, <1>6, SumOfTwo
  <2>3. h = EffectStep(s, h)
    BY <2>1, <2>2
  <2>4. h[{1, 2}] = F[1] + F[2]
    BY <1>2, <1>3, <1>6, <2>3, SumOfTwo
  <2>5. QED
    BY <1>1, <2>1, <2>4, FoldsUnfold
<1>9. QED
  BY <1>s, <1>3, <1>7, <1>8

\* The amounts of a closing are numbers.
LEMMA ClosingTyped ==
  ASSUME NEW r \in Closings
  PROVE  /\ TotalScaled(r) \in Int
         /\ ExpectedBalance(r) \in Int
         /\ CashVariance(r) = TotalScaled(r) - ExpectedBalance(r)
<1> DEFINE Worth(face) ==
             IF face \in DOMAIN r.counts THEN r.counts[face] * FaceValue[face] ELSE 0
<1>1. \A face \in DOMAIN FaceValue : FaceValue[face] \in Int
  BY DEF FaceValue
<1>2. \A face \in DOMAIN r.counts : r.counts[face] \in Int
  BY ClosingsAssumption
<1>3. \A face \in DOMAIN FaceValue : Worth(face) \in Int
  BY <1>1, <1>2
<1>4. DOMAIN FaceValue = {"hundreds", "fifties", "twenties", "tens", "fives", "ones", "quarters",
                          "dimes", "nickels", "pennies"}
  BY DEF FaceValue
<1>5. TotalScaled(r) = Worth("hundreds") + Worth("fifties") + Worth("twenties") + Worth("tens")
        + Worth("fives") + Worth("ones") + Worth("quarters") + Worth("dimes")
        + Worth("nickels") + Worth("pennies") + r.coins
  BY DEF TotalScaled
<1> HIDE DEF Worth
<1>6. TotalScaled(r) \in Int
  BY <1>3, <1>4, <1>5, ClosingsAssumption
<1>7. ExpectedBalance(r) \in Int
  BY ClosingsAssumption DEF ExpectedBalance
<1>8. QED
  BY <1>6, <1>7 DEF CashVariance

\* The generated entry is balanced and moves the fund by the variance.
LEMMA BatchRestores ==
  ASSUME NEW v \in Int
  PROVE  /\ Effect(AdjustmentBatch(v)) = v
         /\ TotalOf(AdjustmentBatch(v), "DEBIT") = Abs(v)
         /\ TotalOf(AdjustmentBatch(v), "CREDIT") = Abs(v)
         /\ AdjustmentBatch(v) # <<>>
<1>1. CASE v < 0
  <2>a. PICK a : a = PostingLeg("over_short", "DEBIT", -v)
    OBVIOUS
  <2>b. PICK b : b = PostingLeg("fund", "CREDIT", -v)
    OBVIOUS
  <2>1. AdjustmentBatch(v) = <<a, b>>
    BY <1>1, <2>a, <2>b DEF AdjustmentBatch
  <2>2. /\ a.acct = "over_short" /\ a.type = "DEBIT" /\ a.amt = -v
        /\ b.acct = "fund" /\ b.type = "CREDIT" /\ b.amt = -v
    BY <2>a, <2>b DEF PostingLeg
  <2>3. /\ TotalShare(a, "DEBIT") = -v /\ TotalShare(b, "DEBIT") = 0 /\ FundShare(a) = 0
        /\ TotalShare(a, "CREDIT") = 0 /\ TotalShare(b, "CREDIT") = -v /\ FundShare(b) = -(-v)
    BY <2>2 DEF TotalShare, FundShare
  <2>4. /\ Effect(<<a, b>>) = FundShare(a) + FundShare(b)
        /\ TotalOf(<<a, b>>, "DEBIT") = TotalShare(a, "DEBIT") + TotalShare(b, "DEBIT")
        /\ TotalOf(<<a, b>>, "CREDIT") = TotalShare(a, "CREDIT") + TotalShare(b, "CREDIT")
    BY <2>2, TwoLegs
  <2>5. Abs(v) = -v
    BY <1>1 DEF Abs
  <2>6. QED
    BY <2>1, <2>3, <2>4, <2>5
<1>2. CASE ~(v < 0)
  <2>a. PICK a : a = PostingLeg("fund", "DEBIT", v)
    OBVIOUS
  <2>b. PICK b : b = PostingLeg("over_short", "CREDIT", v)
    OBVIOUS
  <2>1. AdjustmentBatch(v) = <<a, b>>
    BY <1>2, <2>a, <2>b DEF AdjustmentBatch
  <2>2. /\ a.acct = "fund" /\ a.type = "DEBIT" /\ a.amt = v
        /\ b.acct = "over_short" /\ b.type = "CREDIT" /\ b.amt = v
    BY <2>a, <2>b DEF PostingLeg
  <2>3. /\ TotalShare(a, "DEBIT") = v /\ TotalShare(b, "DEBIT") = 0 /\ FundShare(a) = v
        /\ TotalShare(a, "CREDIT") = 0 /\ TotalShare(b, "CREDIT") = v /\ FundShare(b) = 0
    BY <2>2 DEF TotalShare, FundShare
  <2>4. /\ Effect(<<a, b>>) = FundShare(a) + FundShare(b)
        /\ TotalOf(<<a, b>>, "DEBIT") = TotalShare(a, "DEBIT") + TotalShare(b, "DEBIT")
        /\ TotalOf(<<a, b>>, "CREDIT") = TotalShare(a, "CREDIT") + TotalShare(b, "CREDIT")
    BY <2>2, TwoLegs
  <2>5. Abs(v) = v
    BY <1>2 DEF Abs
  <2>6. QED
    BY <2>1, <2>3, <2>4, <2>5
<1>3. QED
  BY <1>1, <1>2

\* What AdjustmentRestoresBalance says of one closing.
Restores(c) ==
  LET r == c.request
      adjusted == ExpectedBalance(r) + Effect(c.batch) = TotalScaled(r) IN
  /\ ValidateBalance([legs |-> c.batch])
  /\ adjusted <=> c.disposition # "ESCALATED_AUDIT"
  /\ c.batch = <<>> /\ c.disposition # "ESCALATED_AUDIT"
       => ExpectedBalance(r) = TotalScaled(r)
  /\ c.disposition = "AUTO_ADJUSTED" => TotalOf(c.batch, "DEBIT") <= AutoAdjustThreshold
  /\ c.status = "BALANCED" => c.batch = <<>> /\ c.disposition = "AUTO_ADJUSTED"

LEMMA AnalyzeRestores ==
  ASSUME NEW r \in Closings
  PROVE  Restores(Analyze(r))
<1>v. PICK v : v = CashVariance(r)
  OBVIOUS
<1>c. PICK c : c = Analyze(r)
  OBVIOUS
<1>1. v \in Int /\ TotalScaled(r) = ExpectedBalance(r) + v /\ ExpectedBalance(r) \in Int
  BY <1>v, ClosingTyped
<1>2. /\ c.request = r /\ c.status = Status(r) /\ c.disposition = Disposition(v)
      /\ c.batch = IF v = 0 \/ Abs(v) > ManagerThreshold THEN <<>> ELSE AdjustmentBatch(v)
  BY <1>c, <1>v DEF Analyze
<1>3. Abs(v) \in Nat /\ (Abs(v) = 0 <=> v = 0)
  BY <1>1 DEF Abs
<1>4. /\ Disposition(v) = "AUTO_ADJUSTED" <=> Abs(v) <= AutoAdjustThreshold
      /\ Disposition(v) = "ESCALATED_AUDIT" <=> Abs(v) > ManagerThreshold
  BY <1>3 DEF Disposition, AutoAdjustThreshold, ManagerThreshold
<1>5. Status(r) = "BALANCED" => v = 0
  BY <1>v, <1>3 DEF Status, Tolerance
<1>6. CASE v = 0 \/ Abs(v) > ManagerThreshold
  <2>1. c.batch = <<>>
    BY <1>2, <1>6
  <2>2. Effect(c.batch) = 0 /\ TotalOf(c.batch, "DEBIT") = 0 /\ TotalOf(c.batch, "CREDIT") = 0
    BY <2>1, EmptyBatch
  <2>3. ValidateBalance([legs |-> c.batch])
    BY <2>2 DEF ValidateBalance
  <2>4. v = 0 <=> ~(Abs(v) > ManagerThreshold)
    BY <1>3, <1>6 DEF ManagerThreshold
  <2>5. ExpectedBalance(r) + Effect(c.batch) = TotalScaled(r) <=> v = 0
    BY <1>1, <2>2
  <2>6. ExpectedBalance(r) = TotalScaled(r) <=> v = 0
    BY <1>1
  <2>7. v = 0 => Disposition(v) = "AUTO_ADJUSTED"
    BY <1>3, <1>4 DEF AutoAdjustThreshold
  <2>8. TotalOf(c.batch, "DEBIT") <= AutoAdjustThreshold
    BY <2>2 DEF AutoAdjustThreshold
  <2>9. Restores(c)
    BY <1>2, <1>4, <1>5, <2>1, <2>3, <2>4, <2>5, <2>6, <2>7, <2>8 DEF Restores
  <2>10. QED
    BY <1>c, <2>9
<1>7. CASE v # 0 /\ ~(Abs(v) > ManagerThreshold)
  <2>1. c.batch = AdjustmentBatch(v)
    BY <1>2, <1>7
  <2>2. /\ Effect(c.batch) = v /\ TotalOf(c.batch, "DEBIT") = Abs(v)
        /\ TotalOf(c.batch, "CREDIT") = Abs(v) /\ c.batch # <<>>
    BY <1>1, <2>1, BatchRestores
  <2>3. ValidateBalance([legs |-> c.batch])
    BY <2>2 DEF ValidateBalance
  <2>4. ExpectedBalance(r) + Effect(c.batch) = TotalScaled(r)
    BY <1>1, <2>2
  <2>5. Restores(c)
    BY <1>2, <1>4, <1>5, <1>7, <2>2, <2>3, <2>4 DEF Restores
  <2>6. QED
    BY <1>c, <2>5
<1>8. QED
  BY <1>6, <1>7

\* Every closing of any request: the entry it generates is balanced and takes
\* the fund to the cash that was counted, or it is escalated.
THEOREM AdjustmentsRestore == RecSpec => []AdjustmentRestoresBalance
<1> DEFINE Answers == {Analyze(r) : r \in Closings}
           Inv == closings \in Seq(Answers)
<1>1. RecInit => Inv
  BY DEF RecInit
<1>2. Inv /\ [RecNext]_recVars => Inv'
  <2> SUFFICES ASSUME Inv, [RecNext]_recVars PROVE Inv'
    OBVIOUS
  <2>1. ASSUME NEW w \in RecWorkers, NEW r \in Closings, ComputeClosing(w, r) PROVE Inv'
    <3>a. PICK a : a = Analyze(r)
      OBVIOUS
    <3>1. a \in Answers /\ closings' = Append(closings, a)
      BY <2>1, <3>a DEF ComputeClosing
    <3> HIDE DEF Answers
    <3>2. QED
      BY <3>1
  <2>2. ASSUME NEW w \in RecWorkers, StoreHistory(w) \/ StoreSignoffs(w) PROVE Inv'
    BY <2>2 DEF StoreHistory, StoreSignoffs
  <2>3. ASSUME NEW id, NEW tenant, NEW signer, SignOff(id, tenant, signer) PROVE Inv'
    BY <2>3 DEF SignOff
  <2>4. CASE UNCHANGED recVars
    BY <2>4 DEF recVars
  <2>5. QED
    BY <2>1, <2>2, <2>3, <2>4 DEF RecNext
<1>3. Inv => AdjustmentRestoresBalance
  <2> SUFFICES ASSUME Inv PROVE \A id \in DOMAIN closings : Restores(closings[id])
    BY DEF AdjustmentRestoresBalance, Restores
  <2>1. \A id \in DOMAIN closings : closings[id] \in Answers
    OBVIOUS
  <2>2. QED
    BY <2>1, AnalyzeRestores
<1>4. QED
  BY <1>1, <1>2, <1>3, PTL DEF RecSpec

-----------------------------------------------------------------------------
(* The currency converter.  The lists stay sorted and complete under one   *)
(* set_rate at a time; what a look-up reads from them is the rate in force. *)

\* A list with the rates that _rates has for the dates of D, each date once.
Lists(s, p, D) ==
  /\ s \in Seq(Dates \X Int)
  /\ \A i, j \in DOMAIN s : s[i][1] = s[j][1] => i = j
  /\ \A i \in DOMAIN s : s[i][1] \in D => s[i][2] = table[<<p[1], p[2], s[i][1]>>]
  /\ \A e \in D : table[<<p[1], p[2], e>>] # NoRate => \E i \in DOMAIN s : s[i][1] = e

Ascending(s) == \A i, j \in DOMAIN s : i < j => s[i][1] < s[j][1]

\* All but the last entry are in order: what a set_rate sorts.
NearlySorted(s) == \A i, j \in DOMAIN s : i < j /\ j < Len(s) => s[i][1] < s[j][1]

LEMMA EntryTyped ==
  ASSUME NEW s \in Seq(Dates \X Int)
  PROVE  /\ Len(s) \in Nat /\ DOMAIN s = 1..Len(s)
         /\ \A i \in DOMAIN s : s[i][1] \in Dates /\ s[i][1] \in Nat /\ s[i][2] \in Int
<1>1. ASSUME NEW i \in DOMAIN s
      PROVE  s[i][1] \in Dates /\ s[i][1] \in Nat /\ s[i][2] \in Int
  <2>1. PICK e : e = s[i]
    OBVIOUS
  <2>2. e \in Dates \X Int
    BY <2>1
  <2>3. e[1] \in Dates /\ e[2] \in Int
    BY <2>2
  <2>4. QED
    BY <2>1, <2>3, RatesAssumption
<1>2. QED
  BY <1>1

\* The last entry goes before the first one with a later date.
LEMMA OrderExists ==
  ASSUME NEW s \in Seq(Dates \X Int), NearlySorted(s),
         \A i, j \in DOMAIN s : s[i][1] = s[j][1] => i = j
  PROVE  \E f \in [DOMAIN s -> DOMAIN s] : IsOrder(f, s)
<1>n. PICK n \in Nat : n = Len(s)
  BY EntryTyped
<1>t. PICK t \in [1..n -> Nat] : \A i \in 1..n : t[i] = s[i][1]
  <2>1. [i \in 1..n |-> s[i][1]] \in [1..n -> Nat]
    BY <1>n, EntryTyped
  <2>2. QED
    BY <2>1
<1>1. DOMAIN s = 1..n
  BY <1>n, EntryTyped
<1>2. \A i, j \in 1..n : i < j /\ j < n => t[i] < t[j]
  <2>1. \A i \in 1..n : t[i] = s[i][1] /\ s[i][1] \in Nat
    BY <1>1, <1>t, EntryTyped
  <2>2. \A i, j \in 1..n : i < j /\ j < n => s[i][1] < s[j][1]
    BY <1>1, <1>n DEF NearlySorted
  <2>3. QED
    BY <2>1, <2>2
<1>3. \A i, j \in 1..n : t[i] = t[j] => i = j
  BY <1>1, <1>t
<1>4. CASE n = 0
  <2>1. [i \in DOMAIN s |-> i] \in [DOMAIN s -> DOMAIN s]
    OBVIOUS
  <2>2. IsOrder([i \in DOMAIN s |-> i], s)
    BY <1>1, <1>4 DEF IsOrder
  <2>3. QED
    BY <2>1, <2>2
<1>5. CASE n > 0
  <2> DEFINE M == {i \in 1..n : i = n \/ t[i] > t[n]}
  <2>1. n \in M /\ M \subseteq Nat
    BY <1>5
  <2>m. PICK m \in M : \A k \in M : m <= k
    BY <2>1, LeastNumber
  <2> DEFINE g == [i \in 1..n |-> IF i < m THEN i ELSE IF i = m THEN n ELSE i - 1]
  <2>2. m \in 1..n /\ (m = n \/ t[m] > t[n])
    BY <2>m
  <2>3. \A i \in 1..n : i < m => t[i] < t[n]
    <3> SUFFICES ASSUME NEW i \in 1..n, i < m PROVE t[i] < t[n]
      OBVIOUS
    <3>1. i \notin M /\ i # n
      BY <2>m, <2>2
    <3>2. ~(t[i] > t[n]) /\ t[i] # t[n]
      BY <1>3, <1>5, <3>1
    <3>3. t[i] \in Nat /\ t[n] \in Nat
      BY <1>5, <1>t
    <3>4. QED
      BY <3>2, <3>3
  <2>4. \A i \in 1..n : m <= i /\ i < n => t[n] < t[i]
    <3> SUFFICES ASSUME NEW i \in 1..n, m <= i, i < n PROVE t[n] < t[i]
      OBVIOUS
    <3>1. m < n /\ t[m] > t[n]
      BY <2>2
    <3>2. m = i \/ t[m] < t[i]
      BY <1>2, <2>2
    <3>3. t[i] \in Nat /\ t[n] \in Nat /\ t[m] \in Nat
      BY <1>5, <1>t, <2>2
    <3>4. QED
      BY <3>1, <3>2, <3>3
  <2>5. /\ \A i \in 1..n : i < m => g[i] = i
        /\ g[m] = n
        /\ \A i \in 1..n : i > m => g[i] = i - 1 /\ i - 1 \in 1..n /\ i - 1 < n
    BY <2>2, <1>5
  <2>6. g \in [1..n -> 1..n]
    BY <2>2, <1>5
  <2> HIDE DEF g, M
  <2>7. ASSUME NEW k \in 1..n PROVE \E i \in 1..n : g[i] = k
    <3>1. CASE k < m
      BY <2>5, <3>1
    <3>2. CASE k = n
      BY <2>2, <2>5, <3>2
    <3>3. CASE m <= k /\ k < n
      <4>1. k + 1 \in 1..n /\ k + 1 > m /\ (k + 1) - 1 = k
        BY <2>2, <3>3
      <4>2. QED
        BY <2>5, <4>1
    <3>4. QED
      BY <2>2, <3>1, <3>2, <3>3
  <2>8. ASSUME NEW i \in 1..n, NEW j \in 1..n, i < j PROVE t[g[i]] < t[g[j]]
    <3>1. CASE j < m
      <4>1. g[i] = i /\ g[j] = j /\ j < n
        BY <2>2, <2>5, <2>8, <3>1
      <4>2. QED
        BY <1>2, <2>8, <4>1
    <3>2. CASE j = m
      <4>1. g[i] = i /\ g[j] = n
        BY <2>5, <2>8, <3>2
      <4>2. QED
        BY <2>3, <2>8, <3>2, <4>1
    <3>3. CASE j > m
      <4>1. g[j] = j - 1 /\ j - 1 \in 1..n /\ j - 1 < n /\ m <= j - 1
        BY <2>2, <2>5, <3>3
      <4>2. CASE i < m
        BY <1>2, <2>2, <2>5, <4>1, <4>2
      <4>3. CASE i = m
        BY <2>4, <2>5, <4>1, <4>3
      <4>4. CASE i > m
        <5>1. g[i] = i - 1 /\ i - 1 \in 1..n /\ i - 1 < j - 1
          BY <2>5, <2>8, <4>4
        <5>2. QED
          BY <1>2, <4>1, <5>1
      <4>5. QED
        BY <2>2, <4>2, <4>3, <4>4
    <3>4. QED
      BY <2>2, <3>1, <3>2, <3>3
  <2>9. IsOrder(g, s)
    <3>1. \A k \in DOMAIN s : \E i \in DOMAIN s : g[i] = k
      BY <1>1, <2>7
    <3>2. ASSUME NEW i \in DOMAIN s, NEW j \in DOMAIN s, i < j PROVE s[g[i]][1] < s[g[j]][1]
      <4>1. g[i] \in 1..n /\ g[j] \in 1..n
        BY <1>1, <2>6
      <4>2. QED
        <5>1. t[g[i]] < t[g[j]]
          BY <1>1, <2>8, <3>2
        <5>2. t[g[i]] = s[g[i]][1] /\ t[g[j]] = s[g[j]][1]
          BY <1>t, <4>1
        <5>3. QED
          BY <5>1, <5>2
    <3>3. QED
      BY <3>1, <3>2 DEF IsOrder
  <2>10. QED
    BY <1>1, <2>6, <2>9
<1>6. QED
  BY <1>4, <1>5

\* sort() leaves the same entries, in the order of their dates.
LEMMA SortRights ==
  ASSUME NEW s, NEW p, Lists(s, p, Dates), NearlySorted(s)
  PROVE  Lists(ByDate(s), p, Dates) /\ Ascending(ByDate(s))
<1>1. s \in Seq(Dates \X Int) /\ \A i, j \in DOMAIN s : s[i][1] = s[j][1] => i = j
  BY DEF Lists
<1>f. PICK f \in [DOMAIN s -> DOMAIN s] :
        IsOrder(f, s) /\ ByDate(s) = [i \in DOMAIN s |-> s[f[i]]]
  <2>1. \E f \in [DOMAIN s -> DOMAIN s] : IsOrder(f, s)
    BY <1>1, OrderExists
  <2> DEFINE g == CHOOSE f \in [DOMAIN s -> DOMAIN s] : IsOrder(f, s)
  <2>2. g \in [DOMAIN s -> DOMAIN s] /\ IsOrder(g, s)
    BY <2>1
  <2>3. ByDate(s) = [i \in DOMAIN s |-> s[g[i]]]
    BY DEF ByDate
  <2> HIDE DEF g
  <2>4. QED
    BY <2>2, <2>3
<1>b. PICK b : b = ByDate(s)
  OBVIOUS
<1>2. DOMAIN b = DOMAIN s /\ \A i \in DOMAIN s : b[i] = s[f[i]] /\ f[i] \in DOMAIN s
  BY <1>f, <1>b
<1>3. ASSUME NEW i \in DOMAIN s, NEW j \in DOMAIN s, i < j PROVE b[i][1] < b[j][1]
  <2>1. s[f[i]][1] < s[f[j]][1] \/ (s[f[i]][1] = s[f[j]][1] /\ f[i] < f[j])
    BY <1>f, <1>3 DEF IsOrder
  <2>2. s[f[i]][1] = s[f[j]][1] => f[i] = f[j]
    BY <1>1, <1>2
  <2>3. f[i] \in Nat /\ f[j] \in Nat
    BY <1>1, <1>2, EntryTyped
  <2>4. QED
    BY <1>2, <2>1, <2>2, <2>3
<1>4. Ascending(b)
  BY <1>2, <1>3 DEF Ascending
<1>5. b \in Seq(Dates \X Int)
  <2>1. Len(s) \in Nat /\ DOMAIN s = 1..Len(s)
    BY <1>1, EntryTyped
  <2>2. \A i \in 1..Len(s) : s[f[i]] \in Dates \X Int
    <3>1. \A j \in DOMAIN s : s[j] \in Dates \X Int
      BY <1>1
    <3>2. QED
      BY <1>2, <2>1, <3>1
  <2>3. b = [i \in 1..Len(s) |-> s[f[i]]]
    BY <1>f, <1>b, <2>1
  <2>4. QED
    BY <2>1, <2>2, <2>3
<1>6. ASSUME NEW i \in DOMAIN b, NEW j \in DOMAIN b, b[i][1] = b[j][1] PROVE i = j
  <2>1. DOMAIN b = 1..Len(b) /\ Len(b) \in Nat /\ b[i][1] \in Nat /\ b[j][1] \in Nat
    BY <1>5, EntryTyped
  <2>2. ~(i < j) /\ ~(j < i)
    BY <1>4, <1>6, <2>1 DEF Ascending
  <2>3. QED
    BY <2>1, <2>2
<1>7. \A i \in DOMAIN b : b[i][1] \in Dates => b[i][2] = table[<<p[1], p[2], b[i][1]>>]
  BY <1>2 DEF Lists
<1>8. ASSUME NEW e \in Dates, table[<<p[1], p[2], e>>] # NoRate
      PROVE  \E i \in DOMAIN b : b[i][1] = e
  <2>1. PICK k \in DOMAIN s : s[k][1] = e
    BY <1>8 DEF Lists
  <2>2. PICK i \in DOMAIN s : f[i] = k
    BY <1>f DEF IsOrder
  <2>3. QED
    BY <1>2, <2>1, <2>2
<1>9. QED
  BY <1>4, <1>5, <1>6, <1>7, <1>8, <1>b DEF Lists

\* The rate of a date put in its place, or at the end.
LEMMA PutCompletes ==
  ASSUME NEW s, NEW p, NEW d \in Dates, NEW rate \in Int, NEW place, NEW t,
         Lists(s, p, Dates \ {d}), Ascending(s), table[<<p[1], p[2], d>>] = rate,
         place = 0 => \A i \in DOMAIN s : s[i][1] # d,
         place # 0 => place \in DOMAIN s /\ s[place][1] = d,
         t = IF place = 0 THEN Append(s, <<d, rate>>) ELSE [s EXCEPT ![place] = <<d, rate>>]
  PROVE  Lists(t, p, Dates) /\ NearlySorted(t)
<1>n. PICK n \in Nat : n = Len(s) /\ DOMAIN s = 1..n /\ s \in Seq(Dates \X Int)
  BY EntryTyped DEF Lists
<1>e. PICK e : e \in Dates \X Int /\ e = <<d, rate>> /\ e[1] = d /\ e[2] = rate
  <2>1. <<d, rate>> \in Dates \X Int
    OBVIOUS
  <2>2. <<d, rate>>[1] = d /\ <<d, rate>>[2] = rate
    OBVIOUS
  <2>3. QED
    BY <2>1, <2>2
<1>1. \A i \in 1..n : s[i][1] \in Dates
  BY <1>n, EntryTyped
<1>2. CASE place = 0
  <2>1. /\ t \in Seq(Dates \X Int) /\ Len(t) = n + 1 /\ DOMAIN t = 1..(n + 1)
        /\ t[n + 1] = e /\ \A i \in 1..n : t[i] = s[i]
    BY <1>n, <1>e, <1>2
  <2>2. \A i \in 1..(n + 1) : i \in 1..n \/ i = n + 1
    OBVIOUS
  <2>d. t[n + 1][1] = d /\ t[n + 1][2] = rate /\ \A i \in 1..n : t[i][1] # d
    BY <1>2, <1>e, <1>n, <2>1
  <2>3. ASSUME NEW i \in DOMAIN t, NEW j \in DOMAIN t, t[i][1] = t[j][1] PROVE i = j
    <3>1. CASE i \in 1..n /\ j \in 1..n
      BY <1>n, <2>1, <2>3, <3>1 DEF Lists
    <3>2. QED
      BY <2>1, <2>2, <2>d, <2>3, <3>1
  <2>4. ASSUME NEW i \in DOMAIN t PROVE t[i][2] = table[<<p[1], p[2], t[i][1]>>]
    <3>1. CASE i = n + 1
      BY <2>d, <3>1
    <3>2. CASE i \in 1..n
      <4>1. s[i][1] \in Dates \ {d}
        BY <1>1, <2>1, <2>d, <3>2
      <4>2. QED
        BY <1>n, <2>1, <3>2, <4>1 DEF Lists
    <3>3. QED
      BY <2>1, <2>2, <3>1, <3>2
  <2>5. ASSUME NEW f \in Dates, table[<<p[1], p[2], f>>] # NoRate
        PROVE  \E i \in DOMAIN t : t[i][1] = f
    <3>1. CASE f = d
      <4>1. n + 1 \in DOMAIN t
        BY <2>1
      <4>2. QED
        BY <2>d, <3>1, <4>1
    <3>2. CASE f # d
      <4>1. PICK i \in DOMAIN s : s[i][1] = f
        BY <2>5, <3>2 DEF Lists
      <4>2. i \in DOMAIN t /\ t[i] = s[i]
        BY <1>n, <2>1
      <4>3. QED
        BY <4>1, <4>2
    <3>3. QED
      BY <3>1, <3>2
  <2>6. ASSUME NEW i \in DOMAIN t, NEW j \in DOMAIN t, i < j, j < Len(t)
        PROVE  t[i][1] < t[j][1]
    <3>1. i \in 1..n /\ j \in 1..n
      <4>1. i \in 1..(n + 1) /\ j \in 1..(n + 1) /\ j < n + 1
        BY <2>1, <2>6
      <4>2. QED
        BY <2>6, <4>1
    <3>2. QED
      BY <1>n, <2>1, <2>6, <3>1 DEF Ascending
  <2>7. QED
    BY <2>1, <2>3, <2>4, <2>5, <2>6 DEF Lists, NearlySorted
<1>3. CASE place # 0
  <2>1. /\ t \in Seq(Dates \X Int) /\ DOMAIN t = 1..n
        /\ place \in 1..n /\ t[place] = e /\ \A i \in 1..n : i # place => t[i] = s[i]
    BY <1>n, <1>e, <1>3
  <2>2. \A i \in 1..n : t[i][1] = s[i][1]
    BY <1>3, <1>e, <2>1
  <2>3. \A i, j \in DOMAIN t : t[i][1] = t[j][1] => i = j
    BY <1>n, <2>1, <2>2 DEF Lists
  <2>4. ASSUME NEW i \in DOMAIN t PROVE t[i][2] = table[<<p[1], p[2], t[i][1]>>]
    <3>1. CASE i = place
      BY <1>e, <2>1, <3>1
    <3>2. CASE i # place
      <4>1. s[i][1] # d
        BY <1>3, <1>n, <2>1, <3>2 DEF Lists
      <4>2. s[i][1] \in Dates \ {d}
        BY <1>1, <2>1, <4>1
      <4>3. QED
        BY <1>n, <2>1, <3>2, <4>2 DEF Lists
    <3>3. QED
      BY <3>1, <3>2
  <2>5. ASSUME NEW f \in Dates, table[<<p[1], p[2], f>>] # NoRate
        PROVE  \E i \in DOMAIN t : t[i][1] = f
    <3>1. CASE f = d
      BY <1>e, <2>1, <3>1
    <3>2. CASE f # d
      <4>1. PICK i \in DOMAIN s : s[i][1] = f
        BY <2>5, <3>2 DEF Lists
      <4>2. QED
        BY <1>n, <2>1, <2>2, <4>1
    <3>3. QED
      BY <3>1, <3>2
  <2>6. NearlySorted(t)
    BY <1>n, <2>1, <2>2 DEF Ascending, NearlySorted
  <2>7. QED
    BY <2>1, <2>3, <2>4, <2>5, <2>6 DEF Lists
<1>4. QED
  BY <1>2, <1>3

-----------------------------------------------------------------------------

\* The newest date up to the one of the key, and else the oldest, is in force.
LEMMA InForceIs ==
  ASSUME NEW k, NEW d \in Dates, table[<<k[1], k[2], d>>] # NoRate, k[3] \in Nat,
         \/ d <= k[3] /\ \A e \in Dates : table[<<k[1], k[2], e>>] # NoRate /\ e <= k[3] => e <= d
         \/ \A e \in Dates : table[<<k[1], k[2], e>>] # NoRate => k[3] < e /\ d <= e
  PROVE  InForce(k) = table[<<k[1], k[2], d>>]
<1> DEFINE known  == {e \in Dates : table[<<k[1], k[2], e>>] # NoRate}
           past   == {e \in known : e <= k[3]}
           lastBefore == CHOOSE e \in past : \A f \in past : f <= e
           firstEver == CHOOSE e \in known : \A f \in known : e <= f
<1>1. InForce(k) = IF known = {} THEN NoRate
                   ELSE table[<<k[1], k[2], IF past # {} THEN lastBefore ELSE firstEver>>]
  BY DEF InForce
<1>2. d \in known /\ known \subseteq Nat
  BY RatesAssumption
<1>3. CASE d <= k[3] /\ \A e \in Dates : table[<<k[1], k[2], e>>] # NoRate /\ e <= k[3] => e <= d
  <2>1. d \in past /\ \A f \in past : f <= d
    BY <1>2, <1>3
  <2>2. lastBefore \in past /\ \A f \in past : f <= lastBefore
    BY <2>1
  <2>3. lastBefore \in Nat /\ d \in Nat /\ lastBefore <= d /\ d <= lastBefore
    BY <1>2, <2>1, <2>2
  <2> HIDE DEF lastBefore
  <2>4. lastBefore = d
    BY <2>3
  <2>5. past # {} /\ known # {}
    BY <1>2, <2>1
  <2> HIDE DEF past, known, firstEver
  <2>6. QED
    BY <1>1, <2>4, <2>5
<1>4. CASE \A e \in Dates : table[<<k[1], k[2], e>>] # NoRate => k[3] < e /\ d <= e
  <2>1. past = {}
    BY <1>2, <1>4
  <2>2. \A f \in known : d <= f
    BY <1>4
  <2>3. firstEver \in known /\ \A f \in known : firstEver <= f
    BY <1>2, <2>2
  <2>4. firstEver \in Nat /\ d \in Nat /\ firstEver <= d /\ d <= firstEver
    BY <1>2, <2>2, <2>3
  <2> HIDE DEF firstEver
  <2>5. firstEver = d
    BY <2>4
  <2>6. known # {}
    BY <1>2
  <2> HIDE DEF past, known, lastBefore
  <2>7. QED
    BY <1>1, <2>1, <2>5, <2>6
<1>5. QED
  BY <1>3, <1>4

\* A key has three parts.
LEMMA KeyShape ==
  ASSUME NEW k \in RateKeys
  PROVE  /\ k = <<k[1], k[2], k[3]>> /\ k[1] \in Currencies /\ k[2] \in Currencies
         /\ k[3] \in Dates /\ k[3] \in Nat
         /\ PairOf(k) \in Pairs /\ PairOf(k)[1] = k[1] /\ PairOf(k)[2] = k[2]
<1>1. k = <<k[1], k[2], k[3]>> /\ k[1] \in Currencies /\ k[2] \in Currencies /\ k[3] \in Dates
  BY DEF RateKeys
<1>2. <<k[1], k[2]>> \in Pairs
  BY <1>1 DEF Pairs
<1>3. QED
  BY <1>1, <1>2, RatesAssumption DEF PairOf

LEMMA ExactInForce ==
  ASSUME NEW k \in RateKeys, table[k] # NoRate
  PROVE  InForce(k) = table[k]
<1>1. k[3] \in Dates /\ k[3] \in Nat /\ k = <<k[1], k[2], k[3]>>
  BY KeyShape
<1>2. table[<<k[1], k[2], k[3]>>] # NoRate
  BY <1>1
<1>3. k[3] <= k[3]
  BY <1>1
<1>4. InForce(k) = table[<<k[1], k[2], k[3]>>]
  BY <1>1, <1>2, <1>3, InForceIs
<1>5. QED
  BY <1>1, <1>4

\* The list of the pair is exact and in order.
Right(p) == Lists(index[p], p, Dates) /\ Ascending(index[p])

\* Where bisect_right leads in a right list.
LEMMA EntryInForce ==
  ASSUME NEW k \in RateKeys, NEW s, s = index[PairOf(k)], Right(PairOf(k)),
         NEW i \in 0..Len(s), s # <<>>,
         i > 0 => s[i][1] <= k[3], i < Len(s) => k[3] < s[i + 1][1],
         NEW m, m = IF i = 0 THEN 1 ELSE i
  PROVE  m \in DOMAIN s /\ InForce(k) = s[m][2] /\ s[m][2] \in Int
<1>p. PICK p : p = PairOf(k) /\ p[1] = k[1] /\ p[2] = k[2]
  BY KeyShape
<1>1. Lists(s, p, Dates) /\ Ascending(s)
  BY <1>p DEF Right
<1>n. PICK n \in Nat : n = Len(s) /\ DOMAIN s = 1..n /\ s \in Seq(Dates \X Int)
  BY <1>1, EntryTyped DEF Lists
<1>2. n # 0
  BY <1>n
<1>3. m \in 1..n
  BY <1>n, <1>2
<1>4. \A j \in 1..n : s[j][1] \in Nat /\ s[j][1] \in Dates /\ s[j][2] \in Int
  BY <1>n, EntryTyped
<1>5. \A j \in 1..n : s[j][2] = table[<<k[1], k[2], s[j][1]>>]
  <2>1. \A j \in DOMAIN s : s[j][1] \in Dates => s[j][2] = table[<<p[1], p[2], s[j][1]>>]
    BY <1>1 DEF Lists
  <2>2. QED
    BY <1>n, <1>p, <1>4, <2>1
<1>d. PICK d \in Dates : d = s[m][1]
  BY <1>3, <1>4
<1>6. table[<<k[1], k[2], d>>] = s[m][2] /\ s[m][2] \in Int
  BY <1>3, <1>4, <1>5, <1>d
<1>7. table[<<k[1], k[2], d>>] # NoRate
  BY <1>6, RatesAssumption
<1>8. k[3] \in Nat /\ d \in Nat
  BY KeyShape, RatesAssumption
<1>9. ASSUME NEW e \in Dates, table[<<k[1], k[2], e>>] # NoRate
      PROVE  \E j \in 1..n : s[j][1] = e
  BY <1>1, <1>n, <1>p, <1>9 DEF Lists
<1>10. \A x, y \in 1..n : x <= y => s[x][1] <= s[y][1]
  <2>1. \A x, y \in 1..n : x < y => s[x][1] < s[y][1]
    BY <1>1, <1>n DEF Ascending
  <2>2. ASSUME NEW x \in 1..n, NEW y \in 1..n, x <= y PROVE s[x][1] <= s[y][1]
    <3>1. s[x][1] \in Nat /\ s[y][1] \in Nat
      BY <1>4
    <3>2. x = y \/ x < y
      BY <2>2
    <3>3. x < y => s[x][1] < s[y][1]
      BY <2>1
    <3>4. QED
      BY <3>1, <3>2, <3>3
  <2>3. QED
    BY <2>2
<1>11. CASE i # 0
  <2>1. d <= k[3] /\ m = i
    BY <1>n, <1>11, <1>d
  <2>2. ASSUME NEW e \in Dates, table[<<k[1], k[2], e>>] # NoRate, e <= k[3] PROVE e <= d
    <3>1. PICK j \in 1..n : s[j][1] = e
      BY <1>9, <2>2
    <3>2. CASE j <= i
      BY <1>3, <1>10, <1>d, <2>1, <3>1, <3>2
    <3>3. CASE j > i
      <4>1. i + 1 \in 1..n /\ i + 1 <= j /\ i < n
        BY <1>3, <2>1, <3>3
      <4>2. s[i + 1][1] <= e /\ k[3] < s[i + 1][1]
        BY <1>n, <1>10, <3>1, <4>1
      <4>3. s[i + 1][1] \in Nat /\ e \in Nat
        BY <1>4, <4>1, RatesAssumption
      <4>4. QED
        BY <1>8, <2>2, <4>2, <4>3
    <3>4. QED
      BY <1>3, <2>1, <3>2, <3>3
  <2>3. QED
    BY <1>3, <1>6, <1>7, <1>8, <1>n, <2>1, <2>2, InForceIs
<1>12. CASE i = 0
  <2>1. m = 1 /\ k[3] < s[1][1] /\ d = s[1][1]
    BY <1>2, <1>n, <1>12, <1>d
  <2>2. ASSUME NEW e \in Dates, table[<<k[1], k[2], e>>] # NoRate PROVE k[3] < e /\ d <= e
    <3>1. PICK j \in 1..n : s[j][1] = e
      BY <1>9, <2>2
    <3>2. s[1][1] <= e
      BY <1>3, <1>10, <2>1, <3>1
    <3>3. e \in Nat
      BY RatesAssumption
    <3>4. QED
      BY <1>8, <2>1, <3>2, <3>3
  <2>3. QED
    BY <1>3, <1>6, <1>7, <1>8, <1>n, <2>2, InForceIs
<1>13. QED
  BY <1>11, <1>12

\* A right list without entries: the pair has no rate.
LEMMA EmptyInForce ==
  ASSUME NEW k \in RateKeys, Right(PairOf(k)), index[PairOf(k)] = <<>>
  PROVE  InForce(k) = NoRate
<1>p. PICK p : p = PairOf(k) /\ p[1] = k[1] /\ p[2] = k[2]
  BY KeyShape
<1>1. Lists(<<>>, p, Dates)
  BY <1>p DEF Right
<1>2. \A e \in Dates : table[<<k[1], k[2], e>>] = NoRate
  BY <1>1, <1>p DEF Lists
<1>3. QED
  BY <1>2 DEF InForce

-----------------------------------------------------------------------------

SetterAts == {"scan", "put", "sort", "sorting", "inverse", "clear"}

IsSetter(c) ==
  /\ c = [at |-> c.at, leg |-> c.leg, key |-> c.key, rate |-> c.rate, place |-> c.place,
          taken |-> c.taken]
  /\ c.key \in RateKeys /\ c.rate \in Int
  /\ c.leg \in {"direct", "inverse"}
  /\ c.leg = "direct" => c.rate \in Nat \ {0}
  /\ c.at = "inverse" => c.leg = "direct"

\* The list of a set_rate's own pair is right but for the date it is at.
OwnList(c, s, p) ==
  /\ c.at \in {"scan", "put"} =>
       Lists(s, p, Dates \ {c.key[3]}) /\ Ascending(s) /\ table[c.key] = c.rate
  /\ c.at = "put" => /\ c.place = 0 => \A i \in DOMAIN s : s[i][1] # c.key[3]
                     /\ c.place # 0 => c.place \in DOMAIN s /\ s[c.place][1] = c.key[3]
  /\ c.at = "sort" => Lists(s, p, Dates) /\ NearlySorted(s)
  /\ c.at = "sorting" => s = <<>> /\ Lists(c.taken, p, Dates) /\ NearlySorted(c.taken)
  /\ c.at \in {"inverse", "clear"} => Lists(s, p, Dates) /\ Ascending(s)

\* The lists of the other pairs are right.
SetterOK(c) ==
  /\ \A q \in Pairs : q # PairOf(c.key) => Right(q)
  /\ OwnList(c, index[PairOf(c.key)], PairOf(c.key))

AloneInOrder ==
  /\ \A u, v \in Setting : u = v
  /\ \A u \in Setting : SetterOK(users[u])
  /\ Setting = {} => \A p \in Pairs : Right(p)

SetInv ==
  /\ table \in [RateKeys -> Int \cup {NoRate}]
  /\ index = [p \in Pairs |-> index[p]]
  /\ users = [u \in RateUsers |-> users[u]]
  /\ \A u \in Setting : IsSetter(users[u])
  /\ ~raced => AloneInOrder

LEMMA SettingAts ==
  \A u \in RateUsers : u \in Setting <=> users[u].at \in SetterAts
  BY DEF Setting, SetterAts

IsCall(c) ==
  /\ c = [at |-> c.at, amount |-> c.amount, from |-> c.from, to |-> c.to, asked |-> c.asked,
          dates |-> c.dates, leg |-> c.leg, first |-> c.first, rate |-> c.rate,
          place |-> c.place, values |-> c.values, overlap |-> c.overlap]
  /\ c.overlap \in BOOLEAN
  /\ c.leg \in {"pair", "from", "to"}

Calling(c) == c.at \in {"look", "read", "exact", "dates", "entry", "store", "answered"}

\* What a thread does.
Shapes ==
  \A v \in RateUsers : \/ users[v].at \in {"idle", "failed"}
                       \/ users[v].at \in SetterAts
                       \/ Calling(users[v]) /\ IsCall(users[v])

\* A set_rate takes a step, or ends.
LEMMA SetterMoves ==
  ASSUME SetInv, NEW u \in Setting, NEW d, users' = [users EXCEPT ![u] = d], raced' = raced,
         d.at \in SetterAts => IsSetter(d),
         table' \in [RateKeys -> Int \cup {NoRate}], index' = [p \in Pairs |-> index'[p]],
         ~raced /\ d.at \in SetterAts => SetterOK(d)',
         ~raced /\ d.at \notin SetterAts => (\A p \in Pairs : Right(p))'
  PROVE  SetInv'
<1>0. u \in RateUsers
  BY DEF Setting
<1>1. users'[u] = d /\ \A v \in RateUsers : v # u => users'[v] = users[v]
  BY <1>0 DEF SetInv
<1>2. users' = [v \in RateUsers |-> users'[v]]
  BY <1>0 DEF SetInv
<1>3. \A v \in RateUsers : v \in Setting' <=> users'[v].at \in SetterAts
  BY DEF Setting, SetterAts
<1>4. Setting' \subseteq RateUsers /\ Setting \subseteq RateUsers
  BY DEF Setting
<1>5. \A v \in Setting' : v # u => v \in Setting
  BY <1>1, <1>3, <1>4, SettingAts
<1>6. ASSUME NEW v \in Setting' PROVE IsSetter(users'[v])
  <2>1. CASE v = u
    BY <1>0, <1>1, <1>3, <2>1
  <2>2. CASE v # u
    BY <1>1, <1>4, <1>5, <2>2 DEF SetInv
  <2>3. QED
    BY <2>1, <2>2
<1>7. (\A v \in Setting : IsSetter(users[v]))'
  BY <1>6 DEF IsSetter
<1>8. ASSUME ~raced' PROVE AloneInOrder'
  <2>1. ~raced /\ AloneInOrder
    BY <1>8 DEF SetInv
  <2>2. \A v \in Setting' : v = u
    BY <1>5, <2>1 DEF AloneInOrder
  <2>3. CASE d.at \in SetterAts
    <3>1. SetterOK(d)'
      BY <2>1, <2>3
    <3>2. (\A v \in Setting : SetterOK(users[v]))'
      BY <1>1, <1>0, <2>2, <3>1
    <3>3. Setting' # {}
      BY <1>0, <1>1, <1>3, <2>3
    <3>4. QED
      BY <2>2, <3>2, <3>3 DEF AloneInOrder
  <2>4. CASE d.at \notin SetterAts
    <3>1. Setting' = {}
      BY <1>0, <1>1, <1>3, <2>2, <2>4
    <3>2. (\A p \in Pairs : Right(p))'
      BY <2>1, <2>4
    <3>3. QED
      BY <3>1, <3>2 DEF AloneInOrder
  <2>5. QED
    BY <2>3, <2>4
<1>9. QED
  BY <1>2, <1>7, <1>8 DEF SetInv

\* A rate written to _rates: the list of its pair misses it, the others do not.
LEMMA WriteTable ==
  ASSUME table \in [RateKeys -> Int \cup {NoRate}], NEW k \in RateKeys, NEW rate,
         table' = [table EXCEPT ![k] = rate], NEW s, NEW p \in Pairs, Lists(s, p, Dates)
  PROVE  /\ p # PairOf(k) => Lists(s, p, Dates)'
         /\ p = PairOf(k) => Lists(s, p, Dates \ {k[3]})'
<1>1. p[1] \in Currencies /\ p[2] \in Currencies
  BY DEF Pairs
<1>2. \A e \in Dates : <<p[1], p[2], e>> \in RateKeys
  BY <1>1 DEF RateKeys
<1>3. k = <<k[1], k[2], k[3]>> /\ PairOf(k) = <<k[1], k[2]>> /\ p = <<p[1], p[2]>>
  <2>1. k = <<k[1], k[2], k[3]>> /\ PairOf(k) = <<k[1], k[2]>>
    BY KeyShape DEF PairOf
  <2>2. p = <<p[1], p[2]>>
    BY DEF Pairs
  <2>3. QED
    BY <2>1, <2>2
<1>4. ASSUME NEW e \in Dates, p # PairOf(k) \/ e # k[3]
      PROVE  table'[<<p[1], p[2], e>>] = table[<<p[1], p[2], e>>]
  <2>1. <<p[1], p[2], e>> # k
    BY <1>3, <1>4
  <2>2. QED
    BY <1>2, <2>1
<1>5. CASE p # PairOf(k)
  BY <1>4, <1>5 DEF Lists
<1>6. CASE p = PairOf(k)
  BY <1>4, <1>6 DEF Lists
<1>7. QED
  BY <1>5, <1>6

\* So the set_rate that wrote it starts to look for its place.
LEMMA ScanBegins ==
  ASSUME table \in [RateKeys -> Int \cup {NoRate}], NEW k \in RateKeys, NEW rate \in Int,
         table' = [table EXCEPT ![k] = rate], index' = index, \A p \in Pairs : Right(p),
         NEW d, d.at = "scan", d.key = k, d.rate = rate
  PROVE  SetterOK(d)'
<1>i. PICK i : i = index
  OBVIOUS
<1>p. PICK p \in Pairs : p = PairOf(k)
  BY KeyShape
<1>1. \A q \in Pairs : Lists(i[q], q, Dates) /\ Ascending(i[q])
  BY <1>i DEF Right
<1>2. \A q \in Pairs : q # p => Lists(i[q], q, Dates)'
  BY <1>1, <1>p, WriteTable
<1>3. Lists(i[p], p, Dates \ {k[3]})'
  BY <1>1, <1>p, WriteTable
<1>4. table'[k] = rate
  OBVIOUS
<1>5. index' = i
  BY <1>i
<1>6. (\A q \in Pairs : q # p => Right(q))'
  BY <1>1, <1>2, <1>5 DEF Right, Ascending
<1>7. (Lists(index[p], p, Dates \ {k[3]}) /\ Ascending(index[p]))'
  BY <1>1, <1>3, <1>5 DEF Ascending
<1>8. QED
  BY <1>p, <1>4, <1>6, <1>7 DEF SetterOK, OwnList

LEMMA InverseTyped ==
  ASSUME NEW rate \in Nat \ {0}
  PROVE  InverseRate(rate) \in Int
<1>1. PICK x \in Int : x = RateScale * RateScale
  BY RatesAssumption
<1>2. PICK y \in Int : y = rate \div 2
  OBVIOUS
<1>3. InverseRate(rate) = (x + y) \div rate
  BY <1>1, <1>2 DEF InverseRate, RoundDiv
<1>4. QED
  BY <1>3

LEMMA WriteRateInOrder ==
  ASSUME SetInv, Shapes, NEW u \in RateUsers, NEW base \in Currencies, NEW quote \in Currencies,
         NEW d \in Dates, NEW rate \in NewRates, WriteRate(u, base, quote, d, rate)
  PROVE  SetInv'
<1>k. PICK k : k = <<base, quote, d>>
  OBVIOUS
<1>w. PICK w : w = [at |-> "scan", leg |-> "direct", key |-> k, rate |-> rate,
                    place |-> 0, taken |-> <<>>]
  OBVIOUS
<1>1. users' = [MarkOverlap EXCEPT ![u] = w] /\ index' = index
      /\ table' = [table EXCEPT ![k] = rate] /\ u \notin Setting
  BY <1>w, <1>k DEF WriteRate, Free, Setting
<1>r. raced' = (raced \/ Setting # {})
  BY DEF WriteRate
<1>2. k \in RateKeys /\ rate \in Nat \ {0} /\ rate \in Int
  BY <1>k, RatesAssumption DEF RateKeys
<1>3. MarkOverlap = [v \in RateUsers |-> MarkOverlap[v]]
  BY DEF MarkOverlap
<1>4. users'[u] = w /\ users' = [v \in RateUsers |-> users'[v]]
      /\ \A v \in RateUsers : v # u => users'[v] = MarkOverlap[v]
  BY <1>1, <1>3
<1>5. w.at = "scan" /\ w.key = k /\ w.rate = rate /\ IsSetter(w)
  BY <1>w, <1>2 DEF IsSetter
<1>6. ASSUME NEW v \in RateUsers, v # u
      PROVE  (v \in Setting' <=> v \in Setting) /\ (v \in Setting => users'[v] = users[v])
  <2>1. CASE v \in Setting
    <3>1. users'[v] = users[v]
      BY <1>4, <1>6, <2>1 DEF MarkOverlap
    <3>2. QED
      BY <2>1, <3>1 DEF Setting
  <2>2. CASE v \notin Setting
    <3>p. PICK e : e = users[v]
      OBVIOUS
    <3>1. e.at \notin SetterAts
      BY <2>2, <3>p, SettingAts
    <3>2. ASSUME e.at \in {"idle", "failed"} PROVE users'[v].at \notin SetterAts
      BY <1>4, <1>6, <2>2, <3>1, <3>2, <3>p DEF MarkOverlap
    <3>3. ASSUME Calling(e), IsCall(e) PROVE users'[v].at \notin SetterAts
      <4>1. e.at \notin {"idle", "failed"}
        BY <3>3 DEF Calling
      <4>2. users'[v] = [e EXCEPT !.overlap = TRUE]
        BY <1>4, <1>6, <2>2, <3>p, <4>1 DEF MarkOverlap
      <4>3. [e EXCEPT !.overlap = TRUE].at = e.at
        BY <3>3 DEF IsCall
      <4>4. QED
        BY <3>1, <4>2, <4>3
    <3>q. users'[v].at \notin SetterAts
      BY <3>p, <3>1, <3>2, <3>3 DEF Shapes
    <3>4. QED
      BY <2>2, <3>q DEF Setting, SetterAts
  <2>3. QED
    BY <2>1, <2>2
<1>7. ASSUME NEW v \in Setting' PROVE IsSetter(users'[v])
  <2>1. v \in RateUsers
    BY <1>7 DEF Setting
  <2>2. CASE v = u
    BY <1>4, <1>5, <2>2
  <2>3. CASE v # u
    BY <1>6, <1>7, <2>1, <2>3 DEF SetInv
  <2>4. QED
    BY <2>2, <2>3
<1>8. (\A v \in Setting : IsSetter(users[v]))'
  BY <1>7 DEF IsSetter
<1>9. ASSUME ~raced' PROVE AloneInOrder'
  <2>1. ~raced /\ Setting = {}
    BY <1>r, <1>9
  <2>2. \A p \in Pairs : Right(p)
    BY <2>1 DEF SetInv, AloneInOrder
  <2>3. u \in Setting'
    BY <1>4, <1>5 DEF Setting
  <2>4. \A v \in Setting' : v \in RateUsers
    BY DEF Setting
  <2>5. \A v \in Setting' : v = u
    BY <1>6, <2>1, <2>4
  <2>6. SetterOK(w)'
    BY <1>1, <1>2, <1>5, <2>2, ScanBegins DEF SetInv
  <2>7. (\A v \in Setting : SetterOK(users[v]))'
    BY <1>4, <2>5, <2>6
  <2>8. QED
    BY <2>3, <2>5, <2>7 DEF AloneInOrder
<1>10. /\ table' \in [RateKeys -> Int \cup {NoRate}]
       /\ index' = [p \in Pairs |-> index'[p]]
  BY <1>1, <1>2 DEF SetInv
<1>11. QED
  BY <1>4, <1>8, <1>9, <1>10 DEF SetInv

LEMMA WriteInverseInOrder ==
  ASSUME SetInv, NEW u \in RateUsers, WriteInverse(u)
  PROVE  SetInv'
<1>c. PICK c : c = users[u]
  OBVIOUS
<1>k. PICK k : k = <<c.key[2], c.key[1], c.key[3]>>
  OBVIOUS
<1>r. PICK rate : rate = InverseRate(c.rate)
  OBVIOUS
<1>d. PICK d : d = [c EXCEPT !.at = "scan", !.leg = "inverse", !.key = k, !.rate = rate]
  OBVIOUS
<1>1. /\ c.at = "inverse" /\ users' = [users EXCEPT ![u] = d] /\ index' = index
      /\ table' = [table EXCEPT ![k] = rate] /\ raced' = raced
  BY <1>c, <1>k, <1>r, <1>d DEF WriteInverse
<1>2. u \in Setting
  BY <1>1, <1>c DEF Setting
<1>3. IsSetter(c) /\ c.rate \in Nat \ {0}
  BY <1>1, <1>2, <1>c DEF SetInv, IsSetter
<1>4. k \in RateKeys /\ rate \in Int
  <2>1. c.key \in RateKeys
    BY <1>3 DEF IsSetter
  <2>2. c.key[1] \in Currencies /\ c.key[2] \in Currencies /\ c.key[3] \in Dates
    BY <2>1, KeyShape
  <2>3. QED
    BY <1>3, <1>k, <1>r, <2>2, InverseTyped DEF RateKeys
<1>5. d.at = "scan" /\ d.key = k /\ d.rate = rate /\ IsSetter(d)
  BY <1>3, <1>4, <1>d DEF IsSetter
<1>6. ASSUME ~raced PROVE SetterOK(d)'
  <2>1. SetterOK(c)
    BY <1>2, <1>6, <1>c DEF SetInv, AloneInOrder
  <2>2. \A q \in Pairs : Right(q)
    BY <1>1, <2>1 DEF SetterOK, OwnList, Right
  <2>3. QED
    BY <1>1, <1>4, <1>5, <2>2, ScanBegins DEF SetInv
<1>7. /\ table' \in [RateKeys -> Int \cup {NoRate}]
      /\ index' = [p \in Pairs |-> index'[p]]
  BY <1>1, <1>4 DEF SetInv
<1>8. QED
  BY <1>1, <1>2, <1>5, <1>6, <1>7, SetterMoves DEF SetterAts

\* A list changes, or its set_rate only takes note.
LEMMA OneListMoves ==
  ASSUME SetInv, NEW u \in Setting, NEW c, c = users[u], NEW t, NEW d, ~raced,
         table' = table, index' = [index EXCEPT ![PairOf(c.key)] = t],
         d.key = c.key, OwnList(d, t, PairOf(c.key))
  PROVE  SetterOK(d)'
<1>1. SetterOK(c) /\ IsSetter(c)
  BY DEF SetInv, AloneInOrder
<1>k. PICK k \in RateKeys : k = c.key
  BY <1>1 DEF IsSetter
<1>p. PICK p \in Pairs : p = PairOf(k)
  BY KeyShape
<1>2. index'[p] = t /\ \A q \in Pairs : q # p => index'[q] = index[q]
  BY <1>k, <1>p DEF SetInv
<1>3. \A s, q, D : Lists(s, q, D)' <=> Lists(s, q, D)
  BY DEF Lists
<1>4. ASSUME NEW q \in Pairs, q # p PROVE Right(q)'
  <2>1. Right(q)
    BY <1>1, <1>k, <1>p, <1>4 DEF SetterOK
  <2>2. PICK s : s = index[q]
    OBVIOUS
  <2>3. Lists(s, q, Dates)'
    BY <1>3, <2>1, <2>2 DEF Right
  <2>4. index'[q] = s
    BY <1>2, <1>4, <2>2
  <2>5. QED
    BY <2>1, <2>2, <2>3, <2>4 DEF Right, Ascending
<1>5. (\A q \in Pairs : q # p => Right(q))'
  BY <1>4
<1>6. OwnList(d, t, p)'
  <2>1. OwnList(d, t, p)
    BY <1>k, <1>p
  <2>2. QED
    BY <1>3, <2>1 DEF OwnList, Ascending, NearlySorted
<1>7. d.key = k
  BY <1>k
<1>8. QED
  BY <1>2, <1>5, <1>6, <1>7, <1>p DEF SetterOK

LEMMA ScanInOrder ==
  ASSUME SetInv, NEW u \in RateUsers, Scan(u)
  PROVE  SetInv'
<1>c. PICK c : c = users[u]
  OBVIOUS
<1>p. PICK p : p = PairOf(c.key)
  OBVIOUS
<1>s. PICK s : s = index[p]
  OBVIOUS
<1>i. PICK i : /\ i = 0 => \A j \in DOMAIN s : s[j][1] # c.key[3]
               /\ i # 0 => i \in DOMAIN s /\ s[i][1] = c.key[3]
               /\ users' = [users EXCEPT ![u] = [c EXCEPT !.at = "put", !.place = i]]
  <2> DEFINE found == {j \in DOMAIN s : s[j][1] = c.key[3]}
  <2>1. PICK i \in found \cup {0} :
          /\ i = 0 => found = {}
          /\ users' = [users EXCEPT ![u] = [users[u] EXCEPT !.at = "put", !.place = i]]
    BY <1>c, <1>p, <1>s DEF Scan
  <2>2. i = 0 => \A j \in DOMAIN s : s[j][1] # c.key[3]
    BY <2>1
  <2>3. i # 0 => i \in DOMAIN s /\ s[i][1] = c.key[3]
    BY <2>1
  <2>4. users' = [users EXCEPT ![u] = [c EXCEPT !.at = "put", !.place = i]]
    BY <1>c, <2>1
  <2>5. QED
    BY <2>2, <2>3, <2>4
<1>d. PICK d : d = [c EXCEPT !.at = "put", !.place = i]
  OBVIOUS
<1>1. /\ c.at = "scan" /\ table' = table /\ index' = index /\ raced' = raced
      /\ users' = [users EXCEPT ![u] = d]
  BY <1>c, <1>d, <1>i DEF Scan
<1>2. u \in Setting
  BY <1>1, <1>c DEF Setting
<1>3. IsSetter(c)
  BY <1>2, <1>c DEF SetInv
<1>4. d.at = "put" /\ d.key = c.key /\ d.rate = c.rate /\ d.place = i /\ IsSetter(d)
  BY <1>3, <1>d DEF IsSetter
<1>5. p \in Pairs
  BY <1>3, <1>p, KeyShape DEF IsSetter
<1>6. index' = [index EXCEPT ![p] = s]
  BY <1>1, <1>5, <1>s DEF SetInv
<1>7. ASSUME ~raced PROVE SetterOK(d)'
  <2>1. SetterOK(c)
    BY <1>2, <1>7, <1>c DEF SetInv, AloneInOrder
  <2>2. Lists(s, p, Dates \ {c.key[3]}) /\ Ascending(s) /\ table[c.key] = c.rate
    BY <1>1, <1>p, <1>s, <2>1 DEF SetterOK, OwnList
  <2>3. /\ d.place = 0 => \A j \in DOMAIN s : s[j][1] # c.key[3]
        /\ d.place # 0 => d.place \in DOMAIN s /\ s[d.place][1] = c.key[3]
    BY <1>4, <1>i
  <2>4. OwnList(d, s, p)
    BY <1>4, <2>2, <2>3 DEF OwnList
  <2>5. QED
    BY <1>1, <1>2, <1>4, <1>6, <1>7, <1>c, <1>p, <2>4, OneListMoves
<1>8. /\ table' \in [RateKeys -> Int \cup {NoRate}] /\ index' = [q \in Pairs |-> index'[q]]
  BY <1>1 DEF SetInv
<1>9. QED
  BY <1>1, <1>2, <1>4, <1>7, <1>8, SetterMoves DEF SetterAts

LEMMA PutInOrder ==
  ASSUME SetInv, NEW u \in RateUsers, Put(u)
  PROVE  SetInv'
<1>c. PICK c : c = users[u]
  OBVIOUS
<1>p. PICK p : p = PairOf(c.key)
  OBVIOUS
<1>s. PICK s : s = index[p]
  OBVIOUS
<1>t. PICK t : t = IF c.place = 0 THEN Append(s, <<c.key[3], c.rate>>)
                   ELSE [s EXCEPT ![c.place] = <<c.key[3], c.rate>>]
  OBVIOUS
<1>1. c.at = "put" /\ table' = table /\ raced' = raced
  BY <1>c DEF Put
<1>2. u \in Setting
  BY <1>1, <1>c DEF Setting
<1>3. IsSetter(c)
  BY <1>2, <1>c DEF SetInv
<1>4. p \in Pairs /\ p[1] = c.key[1] /\ p[2] = c.key[2] /\ c.key[3] \in Dates
      /\ c.key = <<c.key[1], c.key[2], c.key[3]>> /\ c.rate \in Int
  BY <1>3, <1>p, KeyShape DEF IsSetter
<1>5. CASE c.place > Len(s)
  <2>d. PICK d : d = Failed
    OBVIOUS
  <2>1. users' = [users EXCEPT ![u] = d] /\ index' = index
    BY <1>5, <1>c, <1>p, <1>s, <2>d DEF Put, SetFails
  <2>2. d.at = "failed"
    BY <2>d DEF Failed
  <2>3. ASSUME ~raced PROVE FALSE
    <3>1. SetterOK(c)
      BY <1>2, <2>3, <1>c DEF SetInv, AloneInOrder
    <3>2. Lists(s, p, Dates \ {c.key[3]}) /\ (c.place # 0 => c.place \in DOMAIN s)
      BY <1>1, <1>p, <1>s, <3>1 DEF SetterOK, OwnList
    <3>3. Len(s) \in Nat /\ DOMAIN s = 1..Len(s)
      BY <3>2, EntryTyped DEF Lists
    <3>4. QED
      BY <1>5, <3>2, <3>3
  <2>4. /\ table' \in [RateKeys -> Int \cup {NoRate}] /\ index' = [q \in Pairs |-> index'[q]]
    BY <1>1, <2>1 DEF SetInv
  <2>5. QED
    BY <1>1, <1>2, <2>1, <2>2, <2>3, <2>4, SetterMoves DEF SetterAts
<1>6. CASE ~(c.place > Len(s))
  <2>d. PICK d : d = [c EXCEPT !.at = "sort"]
    OBVIOUS
  <2>1. users' = [users EXCEPT ![u] = d]
    BY <1>6, <1>c, <1>p, <1>s, <2>d DEF Put
  <2>2. index' = [index EXCEPT ![p] = t]
    BY <1>6, <1>c, <1>p, <1>s, <1>t, <1>4 DEF Put, SetInv
  <2>3. d.at = "sort" /\ d.key = c.key /\ d.rate = c.rate /\ IsSetter(d)
    BY <1>3, <2>d DEF IsSetter
  <2>4. ASSUME ~raced PROVE SetterOK(d)'
    <3>1. SetterOK(c)
      BY <1>2, <2>4, <1>c DEF SetInv, AloneInOrder
    <3>2. /\ Lists(s, p, Dates \ {c.key[3]}) /\ Ascending(s) /\ table[c.key] = c.rate
          /\ c.place = 0 => \A i \in DOMAIN s : s[i][1] # c.key[3]
          /\ c.place # 0 => c.place \in DOMAIN s /\ s[c.place][1] = c.key[3]
      BY <1>1, <1>p, <1>s, <3>1 DEF SetterOK, OwnList
    <3>3. table[<<p[1], p[2], c.key[3]>>] = c.rate
      BY <1>4, <3>2
    <3>4. Lists(t, p, Dates) /\ NearlySorted(t)
      BY <1>4, <1>t, <3>2, <3>3, PutCompletes
    <3>5. OwnList(d, t, p)
      BY <2>3, <3>4 DEF OwnList
    <3>6. QED
      BY <1>1, <1>2, <1>c, <1>p, <2>2, <2>3, <2>4, <3>5, OneListMoves
  <2>5. /\ table' \in [RateKeys -> Int \cup {NoRate}] /\ index' = [q \in Pairs |-> index'[q]]
    BY <1>1, <2>2 DEF SetInv
  <2>6. QED
    BY <1>1, <1>2, <2>1, <2>3, <2>4, <2>5, SetterMoves DEF SetterAts
<1>7. QED
  BY <1>5, <1>6

LEMMA StartSortInOrder ==
  ASSUME SetInv, NEW u \in RateUsers, StartSort(u)
  PROVE  SetInv'
<1>c. PICK c : c = users[u]
  OBVIOUS
<1>p. PICK p : p = PairOf(c.key)
  OBVIOUS
<1>s. PICK s : s = index[p]
  OBVIOUS
<1>d. PICK d : d = [c EXCEPT !.at = "sorting", !.taken = s]
  OBVIOUS
<1>1. /\ c.at = "sort" /\ table' = table /\ raced' = raced
      /\ users' = [users EXCEPT ![u] = d] /\ index' = [index EXCEPT ![p] = <<>>]
  BY <1>c, <1>p, <1>s, <1>d DEF StartSort
<1>2. u \in Setting
  BY <1>1, <1>c DEF Setting
<1>3. IsSetter(c)
  BY <1>2, <1>c DEF SetInv
<1>4. d.at = "sorting" /\ d.key = c.key /\ d.rate = c.rate /\ d.taken = s /\ IsSetter(d)
  BY <1>3, <1>d DEF IsSetter
<1>5. ASSUME ~raced PROVE SetterOK(d)'
  <2>1. SetterOK(c)
    BY <1>2, <1>5, <1>c DEF SetInv, AloneInOrder
  <2>2. Lists(s, p, Dates) /\ NearlySorted(s)
    BY <1>1, <1>p, <1>s, <2>1 DEF SetterOK, OwnList
  <2>3. OwnList(d, <<>>, p)
    BY <1>4, <2>2 DEF OwnList
  <2>4. QED
    BY <1>1, <1>2, <1>4, <1>5, <1>c, <1>p, <2>3, OneListMoves
<1>6. /\ table' \in [RateKeys -> Int \cup {NoRate}] /\ index' = [q \in Pairs |-> index'[q]]
  BY <1>1 DEF SetInv
<1>7. QED
  BY <1>1, <1>2, <1>4, <1>5, <1>6, SetterMoves DEF SetterAts

LEMMA FinishSortInOrder ==
  ASSUME SetInv, NEW u \in RateUsers, FinishSort(u)
  PROVE  SetInv'
<1>c. PICK c : c = users[u]
  OBVIOUS
<1>p. PICK p : p = PairOf(c.key)
  OBVIOUS
<1>t. PICK t : t = ByDate(c.taken)
  OBVIOUS
<1>1. c.at = "sorting" /\ table' = table /\ raced' = raced /\ index' = [index EXCEPT ![p] = t]
  BY <1>c, <1>p, <1>t DEF FinishSort
<1>2. u \in Setting
  BY <1>1, <1>c DEF Setting
<1>3. IsSetter(c)
  BY <1>2, <1>c DEF SetInv
<1>4. /\ table' \in [RateKeys -> Int \cup {NoRate}] /\ index' = [q \in Pairs |-> index'[q]]
  BY <1>1 DEF SetInv
<1>5. ASSUME ~raced
      PROVE  index[p] = <<>> /\ Lists(t, p, Dates) /\ Ascending(t)
  <2>1. SetterOK(c)
    BY <1>2, <1>5, <1>c DEF SetInv, AloneInOrder
  <2>2. index[p] = <<>> /\ Lists(c.taken, p, Dates) /\ NearlySorted(c.taken)
    BY <1>1, <1>p, <2>1 DEF SetterOK, OwnList
  <2>3. QED
    BY <1>t, <2>2, SortRights
<1>6. CASE index[p] # <<>>
  <2>d. PICK d : d = Failed
    OBVIOUS
  <2>1. users' = [users EXCEPT ![u] = d]
    BY <1>6, <1>c, <1>p, <2>d DEF FinishSort, SetFails
  <2>2. d.at = "failed"
    BY <2>d DEF Failed
  <2>3. QED
    BY <1>1, <1>2, <1>4, <1>5, <1>6, <2>1, <2>2, SetterMoves DEF SetterAts
<1>7. CASE index[p] = <<>>
  <2>a. PICK a : a = IF c.leg = "direct" THEN "inverse" ELSE "clear"
    OBVIOUS
  <2>d. PICK d : d = [c EXCEPT !.at = a, !.taken = <<>>]
    OBVIOUS
  <2>1. users' = [users EXCEPT ![u] = d]
    BY <1>7, <1>c, <1>p, <2>a, <2>d DEF FinishSort
  <2>2. d.at = a /\ d.key = c.key /\ d.rate = c.rate /\ IsSetter(d)
    BY <1>3, <2>a, <2>d DEF IsSetter
  <2>3. d.at \in {"inverse", "clear"}
    BY <2>a, <2>2
  <2>4. ASSUME ~raced PROVE SetterOK(d)'
    <3>1. OwnList(d, t, p)
      BY <1>5, <2>3, <2>4 DEF OwnList
    <3>2. QED
      BY <1>1, <1>2, <1>c, <1>p, <2>2, <2>4, <3>1, OneListMoves
  <2>5. d.at \in SetterAts
    BY <2>3 DEF SetterAts
  <2>6. QED
    BY <1>1, <1>2, <1>4, <2>1, <2>2, <2>4, <2>5, SetterMoves
<1>8. QED
  BY <1>6, <1>7

LEMMA ClearCacheInOrder ==
  ASSUME SetInv, NEW u \in RateUsers, ClearCache(u)
  PROVE  SetInv'
<1>c. PICK c : c = users[u]
  OBVIOUS
<1>d. PICK d : d = NoUse
  OBVIOUS
<1>1. /\ c.at = "clear" /\ users' = [users EXCEPT ![u] = d]
      /\ table' = table /\ index' = index /\ raced' = raced
  BY <1>c, <1>d DEF ClearCache
<1>2. u \in Setting
  BY <1>1, <1>c DEF Setting
<1>3. d.at = "idle"
  BY <1>d DEF NoUse
<1>4. ASSUME ~raced PROVE (\A q \in Pairs : Right(q))'
  <2>1. SetterOK(c)
    BY <1>2, <1>4, <1>c DEF SetInv, AloneInOrder
  <2>2. \A q \in Pairs : Right(q)
    BY <1>1, <2>1 DEF SetterOK, OwnList, Right
  <2>3. QED
    BY <1>1, <2>2 DEF Right, Lists
<1>5. /\ table' \in [RateKeys -> Int \cup {NoRate}] /\ index' = [q \in Pairs |-> index'[q]]
  BY <1>1 DEF SetInv
<1>6. QED
  BY <1>1, <1>2, <1>3, <1>4, <1>5, SetterMoves DEF SetterAts

\* A conversion touches neither table nor the list.
LEMMA CallsKeepOrder ==
  ASSUME SetInv, NEW u \in RateUsers, NEW d, users' = [users EXCEPT ![u] = d],
         users[u].at \notin SetterAts, d.at \notin SetterAts,
         table' = table, index' = index, raced' = raced
  PROVE  SetInv' /\ Setting' = Setting
<1>1. users'[u] = d /\ \A v \in RateUsers : v # u => users'[v] = users[v]
  BY DEF SetInv
<1>2. users' = [v \in RateUsers |-> users'[v]]
  BY DEF SetInv
<1>3. u \notin Setting /\ u \notin Setting'
  BY <1>1 DEF Setting, SetterAts
<1>4. Setting' = Setting
  BY <1>1, <1>3 DEF Setting
<1>5. \A v \in Setting : users'[v] = users[v]
  BY <1>1, <1>3 DEF Setting
<1>6. (\A v \in Setting : IsSetter(users[v]))'
  BY <1>4, <1>5 DEF SetInv, IsSetter
<1>7. \A q : Right(q)' <=> Right(q)
  BY DEF Right, Lists
<1>8. ASSUME NEW v \in Setting, SetterOK(users[v]) PROVE (SetterOK(users[v]))'
  <2>c. PICK c : c = users[v]
    OBVIOUS
  <2>1. SetterOK(c)
    BY <1>8, <2>c
  <2>2. \A s, q, D : Lists(s, q, D)' <=> Lists(s, q, D)
    BY DEF Lists
  <2>p. PICK s, p : s = index[p] /\ p = PairOf(c.key)
    OBVIOUS
  <2>q. OwnList(c, s, p)
    BY <2>1, <2>p DEF SetterOK
  <2>r. OwnList(c, s, p)'
    BY <2>2, <2>q DEF OwnList, Ascending, NearlySorted
  <2>t. index'[p] = s
    BY <2>p
  <2>3. SetterOK(c)'
    BY <1>7, <2>1, <2>p, <2>r, <2>t DEF SetterOK
  <2>4. QED
    BY <1>5, <2>c, <2>3
<1>9. ~raced' => AloneInOrder'
  BY <1>4, <1>7, <1>8 DEF SetInv, AloneInOrder
<1>10. QED
  BY <1>2, <1>4, <1>6, <1>9 DEF SetInv

-----------------------------------------------------------------------------

\* A rate in force for a key: its own, or the cross rate of a pair without one.
Resolved(k, rate) ==
  \/ InForce(k) # NoRate /\ rate = InForce(k)
  \/ /\ InForce(k) = NoRate /\ k[1] # "USD" /\ k[2] # "USD"
     /\ rate = Scaled(InForce(<<k[1], "USD", k[3]>>), InForce(<<"USD", k[2], k[3]>>))

\* What a look-up may give: the rate of the very date, and the one in force as
\* long as the lists are in order.
Good(k, rate) ==
  /\ table[k] # NoRate => rate = table[k]
  /\ ~raced => Resolved(k, rate)

Converted(c, i) ==
  LET k == <<c.from, c.to, c.asked[i]>> IN
  /\ table[k] # NoRate => c.values[i] = Scaled(c.amount, table[k])
  /\ ~raced => c.values[i] = Scaled(c.amount, FreshRate(k))

\* Where bisect_right has led a call.
AtPlace(c) ==
  LET k == LookKey(c)
      s == index[PairOf(k)] IN
  /\ s # <<>> /\ c.place \in 0..Len(s)
  /\ c.place > 0 => s[c.place][1] <= k[3]
  /\ c.place < Len(s) => k[3] < s[c.place + 1][1]

\* A call that no set_rate overlapped has converted the dates it is past with
\* the right rates, and holds the right legs of a cross rate.
Converting(c) ==
  /\ c.from \in Currencies /\ c.to \in Currencies
  /\ c.asked \in Seq(Dates) /\ c.dates \in Seq(Dates)
  /\ c.at = "answered" <=> c.dates = <<>>
  /\ \E S : c.values \in Seq(S)
  /\ Len(c.values) + Len(c.dates) = Len(c.asked)
  /\ \A i \in 1..Len(c.dates) : c.dates[i] = c.asked[Len(c.values) + i]
  /\ \A i \in 1..Len(c.values) : Converted(c, i)
  /\ c.leg # "pair" =>
       /\ c.at # "answered" /\ c.from # "USD" /\ c.to # "USD"
       /\ table[<<c.from, c.to, Head(c.dates)>>] = NoRate
       /\ ~raced => InForce(<<c.from, c.to, Head(c.dates)>>) = NoRate
  /\ c.leg = "to" /\ ~raced => c.first = InForce(<<c.from, "USD", Head(c.dates)>>)
  /\ c.at = "store" => Good(LookKey(c), c.rate)
  /\ c.at \in {"dates", "entry"} => table[LookKey(c)] = NoRate
  /\ c.at = "entry" => AtPlace(c)

Correct(c) ==
  IF c.from = c.to
  THEN c.at = "answered" /\ c.values = [i \in DOMAIN c.asked |-> c.amount]
  ELSE Converting(c)

CallOK(c) == Calling(c) /\ ~c.overlap => Setting = {} /\ Correct(c)

CallsInv ==
  /\ cache = [k \in RateKeys |-> cache[k]]
  /\ Shapes
  /\ \A u \in RateUsers : CallOK(users[u])
  /\ Setting = {} => \A k \in RateKeys \ doubt : cache[k] # NoRate => Good(k, cache[k])

RatesInv == SetInv /\ CallsInv

\* While the tables stay, so does what is read from them.
LEMMA SameTable ==
  ASSUME table' = table, index' = index, raced' = raced, NEW c
  PROVE  /\ \A k, rate : Good(k, rate)' <=> Good(k, rate)
         /\ Correct(c)' <=> Correct(c)
<1>1. \A k : InForce(k)' = InForce(k)
  BY DEF InForce
<1>2. \A k : FreshRate(k)' = FreshRate(k)
  BY <1>1 DEF FreshRate
<1>3. \A k, rate : Good(k, rate)' <=> Good(k, rate)
  BY <1>1 DEF Good, Resolved
<1>4. \A i : Converted(c, i)' <=> Converted(c, i)
  BY <1>2 DEF Converted
<1>5. AtPlace(c)' <=> AtPlace(c)
  BY DEF AtPlace
<1>6. Converting(c)' <=> Converting(c)
  BY <1>1, <1>3, <1>4, <1>5 DEF Converting
<1>7. QED
  BY <1>3, <1>6 DEF Correct

LEMMA ResolvedIsFresh ==
  ASSUME NEW k, NEW rate, Resolved(k, rate)
  PROVE  rate = FreshRate(k)
  BY DEF Resolved, FreshRate

\* A key that a conversion looks up is a key of the tables.
LEMMA LookKeyTyped ==
  ASSUME NEW c, Converting(c), c.at # "answered", c.leg \in {"pair", "from", "to"}
  PROVE  /\ LookKey(c) \in RateKeys
         /\ Head(c.dates) \in Dates /\ c.dates # <<>>
<1>1. c.dates \in Seq(Dates) /\ c.dates # <<>> /\ c.from \in Currencies /\ c.to \in Currencies
  BY DEF Converting
<1>2. Head(c.dates) \in Dates
  BY <1>1
<1>3. QED
  BY <1>1, <1>2, RatesAssumption DEF LookKey, RateKeys

\* What get_rate_scaled's caller makes of a rate, whatever the rate.
LEMMA ReturnShape ==
  ASSUME NEW c, IsCall(c), NEW rate, NEW d, d = Return(c, rate)
  PROVE  \/ d.at = "failed" /\ d = Failed
         \/ /\ IsCall(d) /\ Calling(d) /\ d.at \notin SetterAts /\ d.overlap = c.overlap
            /\ d.from = c.from /\ d.to = c.to /\ d.asked = c.asked /\ d.amount = c.amount
<1>1. CASE c.leg = "pair" /\ rate = 0
  BY <1>1 DEF Return, Failed
<1>2. CASE c.leg = "pair" /\ rate # 0
  <2> DEFINE v == Append(c.values, Scaled(c.amount, rate))
             t == Tail(c.dates)
             a == IF Len(c.dates) = 1 THEN "answered" ELSE "look"
  <2>1. d = [c EXCEPT !.values = v, !.dates = t, !.at = a]
    BY <1>2 DEF Return
  <2>2. a \in {"answered", "look"}
    OBVIOUS
  <2> HIDE DEF v, t, a
  <2>3. QED
    BY <1>2, <2>1, <2>2 DEF IsCall, Calling, SetterAts
<1>3. CASE c.leg = "from"
  <2>1. d = [c EXCEPT !.leg = "to", !.first = rate, !.at = "look"]
    BY <1>3 DEF Return
  <2>2. QED
    BY <2>1 DEF IsCall, Calling, SetterAts
<1>4. CASE c.leg = "to"
  <2> DEFINE s == Scaled(c.first, rate)
  <2>1. d = [c EXCEPT !.leg = "pair", !.rate = s, !.at = "store"]
    BY <1>4 DEF Return
  <2> HIDE DEF s
  <2>2. QED
    BY <2>1 DEF IsCall, Calling, SetterAts
<1>5. QED
  BY <1>1, <1>2, <1>3, <1>4 DEF IsCall

LEMMA EmptyByLength ==
  ASSUME NEW S, NEW s \in Seq(S)
  PROVE  s = <<>> <=> Len(s) = 0
  OBVIOUS

LEMMA ShiftByOne ==
  ASSUME NEW n \in Nat, NEW m \in Nat, m # 0
  PROVE  /\ \A i \in 1..(m - 1) : i + 1 \in 1..m /\ n + (i + 1) = (n + 1) + i
         /\ (n + 1) + (m - 1) = n + m
         /\ m - 1 = 0 <=> m = 1
  OBVIOUS

\* The right rate for a pair: the date is converted with it.
LEMMA ReturnPair ==
  ASSUME NEW c, IsCall(c), Converting(c), c.at # "answered", c.leg = "pair",
         NEW rate, Good(LookKey(c), rate), rate # 0, NEW d, d = Return(c, rate)
  PROVE  Converting(d)
<1> DEFINE x == Scaled(c.amount, rate)
           v == Append(c.values, x)
           t == Tail(c.dates)
           a == IF Len(c.dates) = 1 THEN "answered" ELSE "look"
           n == Len(c.values)
           m == Len(c.dates)
<1>1. d = [c EXCEPT !.values = v, !.dates = t, !.at = a]
  BY DEF Return
<1>2. PICK S : c.values \in Seq(S)
  BY DEF Converting
<1>3. c.dates \in Seq(Dates) /\ c.dates # <<>> /\ n \in Nat /\ m \in Nat /\ m # 0
  <2>1. c.dates \in Seq(Dates) /\ c.dates # <<>>
    BY DEF Converting
  <2>2. QED
    BY <1>2, <2>1
<1>4. t \in Seq(Dates) /\ Len(t) = m - 1 /\ (\A i \in 1..(m - 1) : t[i] = c.dates[i + 1])
      /\ (t = <<>> <=> m = 1)
  <2>1. t \in Seq(Dates) /\ Len(t) = m - 1 /\ \A i \in 1..(m - 1) : t[i] = c.dates[i + 1]
    BY <1>3
  <2> HIDE DEF t, m
  <2>2. t = <<>> <=> Len(t) = 0
    BY <2>1, EmptyByLength
  <2>3. m - 1 = 0 <=> m = 1
    BY <1>3, ShiftByOne
  <2>4. QED
    BY <2>1, <2>2, <2>3
<1>5. /\ v \in Seq(S \cup {x}) /\ Len(v) = n + 1 /\ v[n + 1] = x
      /\ \A i \in 1..n : v[i] = c.values[i]
  <2>1. c.values \in [1..n -> S \cup {x}]
    BY <1>2
  <2>2. c.values \in Seq(S \cup {x}) /\ x \in S \cup {x}
    BY <1>3, <2>1
  <2> HIDE DEF x
  <2>3. QED
    BY <2>2
<1>v. \E T : v \in Seq(T)
  BY <1>5
<1>6. c.asked[n + 1] = Head(c.dates)
  <2>1. 1 \in 1..m /\ Head(c.dates) = c.dates[1]
    BY <1>3
  <2>2. QED
    BY <2>1 DEF Converting
<1>k. PICK k : k = <<c.from, c.to, c.asked[n + 1]>>
  OBVIOUS
<1>7. /\ table[k] # NoRate => x = Scaled(c.amount, table[k])
      /\ ~raced => x = Scaled(c.amount, FreshRate(k))
  <2>1. LookKey(c) = k
    BY <1>6, <1>k DEF LookKey
  <2>2. table[k] # NoRate => rate = table[k]
    BY <2>1 DEF Good
  <2>3. ~raced => rate = FreshRate(k)
    BY <2>1, ResolvedIsFresh DEF Good
  <2>4. QED
    BY <2>2, <2>3
<1> HIDE DEF x
<1>8. ASSUME NEW i \in 1..(n + 1)
      PROVE  LET j == <<c.from, c.to, c.asked[i]>> IN
             /\ table[j] # NoRate => v[i] = Scaled(c.amount, table[j])
             /\ ~raced => v[i] = Scaled(c.amount, FreshRate(j))
  <2>1. i = n + 1 \/ i \in 1..n
    BY <1>3
  <2>2. CASE i = n + 1
    BY <1>5, <1>7, <1>k, <2>2
  <2>3. CASE i \in 1..n
    <3>1. Converted(c, i)
      BY <2>3 DEF Converting
    <3>2. QED
      BY <1>5, <2>3, <3>1 DEF Converted
  <2>4. QED
    BY <2>1, <2>2, <2>3
<1>9. ASSUME NEW i \in 1..(m - 1) PROVE t[i] = c.asked[(n + 1) + i]
  <2>1. i + 1 \in 1..m /\ n + (i + 1) = (n + 1) + i
    <3> HIDE DEF n, m
    <3>1. QED
      BY <1>3, ShiftByOne
  <2>2. c.dates[i + 1] = c.asked[n + (i + 1)]
    BY <2>1 DEF Converting
  <2>3. QED
    BY <1>4, <2>1, <2>2
<1>10. (n + 1) + (m - 1) = Len(c.asked)
  <2>1. n + m = Len(c.asked)
    BY DEF Converting
  <2>2. (n + 1) + (m - 1) = n + m
    <3> HIDE DEF n, m
    <3>1. QED
      BY <1>3, ShiftByOne
  <2>3. QED
    BY <2>1, <2>2
<1>11. a \in {"answered", "look"} /\ (a = "answered" <=> t = <<>>)
  BY <1>4
<1> HIDE DEF v, t, a, n, m
<1>12. /\ d.values = v /\ d.dates = t /\ d.at = a /\ d.leg = "pair" /\ d.from = c.from
       /\ d.to = c.to /\ d.asked = c.asked /\ d.amount = c.amount
  BY <1>1 DEF IsCall
<1>13. c.from \in Currencies /\ c.to \in Currencies /\ c.asked \in Seq(Dates)
  BY DEF Converting
<1>14. \A i \in 1..(n + 1) : Converted(d, i)
  BY <1>8, <1>12 DEF Converted
<1>15. QED
  BY <1>4, <1>5, <1>v, <1>9, <1>10, <1>11, <1>12, <1>13, <1>14 DEF Converting

\* What the steps of a look-up keep of a call.
SameRequest(c, d) ==
  /\ d.amount = c.amount /\ d.from = c.from /\ d.to = c.to /\ d.asked = c.asked
  /\ d.dates = c.dates /\ d.values = c.values

\* The legs of the cross rate that a call holds.
LegsOK(c) ==
  /\ c.leg # "pair" =>
       /\ c.from # "USD" /\ c.to # "USD"
       /\ table[<<c.from, c.to, Head(c.dates)>>] = NoRate
       /\ ~raced => InForce(<<c.from, c.to, Head(c.dates)>>) = NoRate
  /\ c.leg = "to" /\ ~raced => c.first = InForce(<<c.from, "USD", Head(c.dates)>>)

\* A call that goes on with a look-up is as it was but for what it goes on with.
LEMMA Onward ==
  ASSUME NEW c, Converting(c), c.at # "answered", NEW d, d.at # "answered",
         SameRequest(c, d), LegsOK(d),
         d.at = "store" => Good(LookKey(d), d.rate),
         d.at \in {"dates", "entry"} => table[LookKey(d)] = NoRate,
         d.at = "entry" => AtPlace(d)
  PROVE  Converting(d)
<1>1. ASSUME NEW i \in 1..Len(d.values) PROVE Converted(d, i)
  <2>1. Converted(c, i)
    BY <1>1 DEF Converting, SameRequest
  <2>2. QED
    BY <2>1 DEF Converted, SameRequest
<1>2. /\ d.from \in Currencies /\ d.to \in Currencies
      /\ d.asked \in Seq(Dates) /\ d.dates \in Seq(Dates)
      /\ Len(d.values) + Len(d.dates) = Len(d.asked)
      /\ \A i \in 1..Len(d.dates) : d.dates[i] = d.asked[Len(d.values) + i]
  BY DEF Converting, SameRequest
<1>3. \E S : d.values \in Seq(S)
  BY DEF Converting, SameRequest
<1>4. d.at # "answered" /\ d.dates # <<>>
  BY DEF Converting, SameRequest
<1>5. QED
  BY <1>1, <1>2, <1>3, <1>4 DEF Converting, LegsOK

LEMMA SameLegs ==
  ASSUME NEW c, Converting(c), NEW d, SameRequest(c, d), d.leg = c.leg, d.first = c.first
  PROVE  LegsOK(d)
  BY DEF Converting, SameRequest, LegsOK

\* A leg of a cross rate.
LEMMA ReturnLeg ==
  ASSUME NEW c, IsCall(c), Converting(c), c.at # "answered", c.leg \in {"from", "to"},
         NEW rate, Good(LookKey(c), rate), NEW d, d = Return(c, rate)
  PROVE  Converting(d)
<1>h. PICK h : h = Head(c.dates)
  OBVIOUS
<1>1. /\ c.from # "USD" /\ c.to # "USD" /\ table[<<c.from, c.to, h>>] = NoRate
      /\ ~raced => InForce(<<c.from, c.to, h>>) = NoRate
      /\ c.leg = "to" /\ ~raced => c.first = InForce(<<c.from, "USD", h>>)
  BY <1>h DEF Converting
<1>2. CASE c.leg = "from"
  <2>1. d = [c EXCEPT !.leg = "to", !.first = rate, !.at = "look"]
    BY <1>2 DEF Return
  <2>2. LookKey(c) = <<c.from, "USD", h>>
    BY <1>h, <1>2 DEF LookKey
  <2>3. ~raced => rate = InForce(<<c.from, "USD", h>>)
    BY <2>2 DEF Good, Resolved
  <2>4. /\ d.at = "look" /\ d.leg = "to" /\ d.first = rate /\ d.from = c.from /\ d.to = c.to
        /\ d.dates = c.dates /\ SameRequest(c, d)
    BY <2>1 DEF IsCall, SameRequest
  <2>5. LegsOK(d)
    BY <1>h, <1>1, <2>3, <2>4 DEF LegsOK
  <2>6. QED
    BY <2>4, <2>5, Onward
<1>3. CASE c.leg = "to"
  <2> DEFINE s == Scaled(c.first, rate)
  <2>1. d = [c EXCEPT !.leg = "pair", !.rate = s, !.at = "store"]
    BY <1>3 DEF Return
  <2>2. LookKey(c) = <<"USD", c.to, h>>
    BY <1>h, <1>3 DEF LookKey
  <2>3. ~raced => rate = InForce(<<"USD", c.to, h>>)
    BY <2>2 DEF Good, Resolved
  <2>4. ~raced => s = Scaled(InForce(<<c.from, "USD", h>>), InForce(<<"USD", c.to, h>>))
    BY <1>1, <1>3, <2>3
  <2>5. Good(<<c.from, c.to, h>>, s)
    BY <1>1, <2>4 DEF Good, Resolved
  <2> HIDE DEF s
  <2>6. /\ d.at = "store" /\ d.leg = "pair" /\ d.rate = s /\ d.from = c.from /\ d.to = c.to
        /\ d.dates = c.dates /\ SameRequest(c, d)
    BY <2>1 DEF IsCall, SameRequest
  <2>7. LookKey(d) = <<c.from, c.to, h>>
    BY <1>h, <2>6 DEF LookKey
  <2>8. LegsOK(d)
    BY <2>6 DEF LegsOK
  <2>9. QED
    BY <2>5, <2>6, <2>7, <2>8, Onward
<1>4. QED
  BY <1>2, <1>3

\* A right rate brings a correct call to a correct call.
LEMMA ReturnGood ==
  ASSUME NEW c, IsCall(c), Correct(c), c.at \in {"read", "store"},
         NEW rate, Good(LookKey(c), rate), NEW d, d = Return(c, rate), d.at # "failed"
  PROVE  Correct(d)
<1>1. c.from # c.to /\ Converting(c) /\ c.at # "answered"
  BY DEF Correct
<1>2. d.from = c.from /\ d.to = c.to
  BY ReturnShape
<1>3. Converting(d)
  <2>1. CASE c.leg = "pair"
    <3>1. rate # 0
      BY <2>1 DEF Return, Failed
    <3>2. QED
      BY <1>1, <2>1, <3>1, ReturnPair
  <2>2. CASE c.leg \in {"from", "to"}
    BY <1>1, <2>2, ReturnLeg
  <2>3. QED
    BY <2>1, <2>2 DEF IsCall
<1>4. QED
  BY <1>1, <1>2, <1>3 DEF Correct

\* One call moves while the tables and the writers stay.
LEMMA CallMoves ==
  ASSUME RatesInv, NEW u \in RateUsers, NEW d, users' = [users EXCEPT ![u] = d],
         table' = table, index' = index, raced' = raced,
         users[u].at \notin SetterAts,
         d.at \in {"idle", "failed"} \/ (Calling(d) /\ IsCall(d)),
         Calling(d) /\ ~d.overlap => Setting = {} /\ Correct(d),
         cache' = [k \in RateKeys |-> cache'[k]],
         Setting = {} => \A k \in RateKeys \ doubt' : cache'[k] # NoRate => Good(k, cache'[k])
  PROVE  RatesInv'
<1>1. users'[u] = d /\ \A v \in RateUsers : v # u => users'[v] = users[v]
  BY DEF RatesInv, SetInv
<1>2. d.at \notin SetterAts
  BY DEF Calling, SetterAts
<1>3. SetInv' /\ Setting' = Setting
  BY <1>2, CallsKeepOrder DEF RatesInv
<1>4. ASSUME NEW v \in RateUsers PROVE (CallOK(users[v]))'
  <2>1. CASE v = u
    <3>1. Correct(d)' <=> Correct(d)
      BY SameTable
    <3>2. CallOK(d)'
      BY <1>3, <3>1 DEF CallOK
    <3>3. QED
      BY <1>1, <2>1, <3>2
  <2>2. CASE v # u
    <3>p. PICK e : e = users[v]
      OBVIOUS
    <3>1. Correct(e)' <=> Correct(e)
      BY SameTable
    <3>2. CallOK(e)
      BY <3>p DEF RatesInv, CallsInv
    <3>3. CallOK(e)'
      BY <1>3, <3>1, <3>2 DEF CallOK
    <3>4. QED
      BY <1>1, <2>2, <3>p, <3>3
  <2>3. QED
    BY <2>1, <2>2
<1>5. Shapes'
  <2>1. ASSUME NEW v \in RateUsers
        PROVE  \/ users'[v].at \in {"idle", "failed"}
               \/ users'[v].at \in SetterAts
               \/ Calling(users'[v]) /\ IsCall(users'[v])
    <3>1. CASE v = u
      BY <1>1, <3>1
    <3>2. CASE v # u
      BY <1>1, <3>2 DEF RatesInv, CallsInv, Shapes
    <3>3. QED
      BY <3>1, <3>2
  <2>2. QED
    BY <2>1 DEF Shapes, Calling, IsCall
<1>6. \A k, rate : Good(k, rate)' <=> Good(k, rate)
  BY SameTable
<1>7. (Setting = {} => \A k \in RateKeys \ doubt : cache[k] # NoRate => Good(k, cache[k]))'
  BY <1>3, <1>6
<1>8. QED
  BY <1>3, <1>4, <1>5, <1>7 DEF RatesInv, CallsInv

\* While a set_rate is under way every call is marked, and a marked call is
\* held to nothing; at its end the cache is empty, or in doubt.
LEMMA SetterKeepsCalls ==
  ASSUME RatesInv, SetInv', NEW u \in Setting, NEW d, users' = [users EXCEPT ![u] = d],
         d.at \in SetterAts \/ d.at \in {"idle", "failed"},
         cache' = [k \in RateKeys |-> cache'[k]],
         d.at \notin SetterAts => doubt' = RateKeys \/ \A k \in RateKeys : cache'[k] = NoRate
  PROVE  RatesInv'
<1>0. u \in RateUsers
  BY DEF Setting
<1>1. users'[u] = d /\ \A v \in RateUsers : v # u => users'[v] = users[v]
  BY <1>0 DEF RatesInv, SetInv
<1>2. ~Calling(d)
  BY DEF Calling, SetterAts
<1>3. ASSUME NEW v \in RateUsers PROVE (CallOK(users[v]))'
  <2>p. PICK e : e = users'[v]
    OBVIOUS
  <2>1. Calling(e) => e.overlap
    <3>1. CASE v = u
      BY <1>1, <1>2, <2>p, <3>1
    <3>2. CASE v # u
      <4>1. e = users[v]
        BY <1>1, <2>p, <3>2
      <4>2. CallOK(e)
        BY <4>1 DEF RatesInv, CallsInv
      <4>3. QED
        BY <4>2 DEF CallOK
    <3>3. QED
      BY <3>1, <3>2
  <2>2. CallOK(e)'
    BY <2>1 DEF CallOK, Calling
  <2>3. QED
    BY <2>p, <2>2
<1>4. Shapes'
  <2>1. ASSUME NEW v \in RateUsers
        PROVE  \/ users'[v].at \in {"idle", "failed"}
               \/ users'[v].at \in SetterAts
               \/ Calling(users'[v]) /\ IsCall(users'[v])
    <3>1. CASE v = u
      BY <1>1, <3>1
    <3>2. CASE v # u
      BY <1>1, <3>2 DEF RatesInv, CallsInv, Shapes
    <3>3. QED
      BY <3>1, <3>2
  <2>2. QED
    BY <2>1 DEF Shapes, Calling, IsCall
<1>5. d.at \in SetterAts => Setting' # {}
  BY <1>0, <1>1 DEF Setting, SetterAts
<1>6. (Setting = {} => \A k \in RateKeys \ doubt : cache[k] # NoRate => Good(k, cache[k]))'
  BY <1>5
<1>7. QED
  BY <1>3, <1>4, <1>6 DEF RatesInv, CallsInv

LEMMA WriteRateKeeps ==
  ASSUME RatesInv, NEW u \in RateUsers, NEW base \in Currencies, NEW quote \in Currencies,
         NEW d \in Dates, NEW rate \in NewRates, WriteRate(u, base, quote, d, rate)
  PROVE  RatesInv'
<1>w. PICK w : w = [at |-> "scan", leg |-> "direct", key |-> <<base, quote, d>>, rate |-> rate,
                    place |-> 0, taken |-> <<>>]
  OBVIOUS
<1>1. users' = [MarkOverlap EXCEPT ![u] = w] /\ cache' = cache
  BY <1>w DEF WriteRate
<1>2. MarkOverlap = [v \in RateUsers |-> MarkOverlap[v]]
  BY DEF MarkOverlap
<1>3. users'[u] = w /\ \A v \in RateUsers : v # u => users'[v] = MarkOverlap[v]
  BY <1>1, <1>2
<1>4. w.at = "scan" /\ w.at \in SetterAts
  BY <1>w DEF SetterAts
<1>5. u \in Setting'
  BY <1>3, <1>4 DEF Setting
<1>6. ASSUME NEW v \in RateUsers
      PROVE  /\ (CallOK(users[v]))'
             /\ \/ users'[v].at \in {"idle", "failed"}
                \/ users'[v].at \in SetterAts
                \/ Calling(users'[v]) /\ IsCall(users'[v])
  <2>1. CASE v = u
    <3>1. ~Calling(w)
      BY <1>4 DEF Calling
    <3>2. CallOK(w)'
      BY <3>1 DEF CallOK, Calling
    <3>3. QED
      BY <1>3, <1>4, <2>1, <3>2
  <2>2. CASE v # u
    <3>p. PICK e : e = users[v]
      OBVIOUS
    <3>1. ASSUME Calling(e), IsCall(e)
          PROVE  /\ (CallOK(users[v]))'
                 /\ Calling(users'[v]) /\ IsCall(users'[v])
      <4>f. PICK f : f = [e EXCEPT !.overlap = TRUE]
        OBVIOUS
      <4>1. users'[v] = f
        BY <1>3, <2>2, <3>p, <3>1, <4>f DEF MarkOverlap, Calling, Setting
      <4>2. IsCall(f) /\ f.overlap /\ f.at = e.at
        BY <3>1, <4>f DEF IsCall
      <4>3. Calling(f)
        BY <3>1, <4>2 DEF Calling
      <4>4. CallOK(f)'
        BY <4>2 DEF CallOK
      <4>5. QED
        BY <4>1, <4>2, <4>3, <4>4
    <3>2. ASSUME e.at \in SetterAts \/ e.at \in {"idle", "failed"}
          PROVE  (CallOK(users[v]))' /\ users'[v] = e
      <4>1. users'[v] = e
        BY <1>3, <2>2, <3>p, <3>2, SettingAts DEF MarkOverlap
      <4>2. ~Calling(e)
        BY <3>2 DEF Calling, SetterAts
      <4>3. CallOK(e)'
        BY <4>2 DEF CallOK, Calling
      <4>4. QED
        BY <4>1, <4>3
    <3>3. \/ e.at \in {"idle", "failed"}
          \/ e.at \in SetterAts
          \/ Calling(e) /\ IsCall(e)
      BY <3>p DEF RatesInv, CallsInv, Shapes
    <3>4. QED
      BY <3>1, <3>2, <3>3
  <2>3. QED
    BY <2>1, <2>2
<1>7. SetInv'
  BY WriteRateInOrder DEF RatesInv, CallsInv
<1>8. Shapes'
  BY <1>6 DEF Shapes, Calling, IsCall
<1>9. cache' = [k \in RateKeys |-> cache'[k]]
  BY <1>1 DEF RatesInv, CallsInv
<1>10. (Setting = {} => \A k \in RateKeys \ doubt : cache[k] # NoRate => Good(k, cache[k]))'
  BY <1>5
<1>11. QED
  BY <1>6, <1>7, <1>8, <1>9, <1>10 DEF RatesInv, CallsInv

LEMMA SetterStepKeeps ==
  ASSUME RatesInv, NEW u \in RateUsers,
         \/ WriteInverse(u) \/ Scan(u) \/ Put(u) \/ StartSort(u) \/ FinishSort(u)
         \/ ClearCache(u)
  PROVE  RatesInv'
<1>0. SetInv
  BY DEF RatesInv
<1>1. SetInv'
  BY <1>0, WriteInverseInOrder, ScanInOrder, PutInOrder, StartSortInOrder,
     FinishSortInOrder, ClearCacheInOrder
<1>2. u \in Setting
  BY DEF WriteInverse, Scan, Put, StartSort, FinishSort, ClearCache, Setting
<1>c. PICK c : c = users[u]
  OBVIOUS
<1>3. IsSetter(c)
  BY <1>0, <1>2, <1>c DEF SetInv
<1>4. CASE ClearCache(u)
  <2>d. PICK d : d = NoUse /\ d.at = "idle"
    <3>1. NoUse.at = "idle"
      BY DEF NoUse
    <3>2. QED
      BY <3>1
  <2>1. /\ users' = [users EXCEPT ![u] = d]
        /\ cache' = [k \in RateKeys |-> cache'[k]] /\ \A k \in RateKeys : cache'[k] = NoRate
    BY <1>4, <2>d DEF ClearCache
  <2>2. QED
    BY <1>1, <1>2, <2>d, <2>1, SetterKeepsCalls
<1>5. CASE ~ClearCache(u)
  <2>1. cache' = cache
    BY <1>5 DEF WriteInverse, Scan, Put, StartSort, FinishSort
  <2>2. cache' = [k \in RateKeys |-> cache'[k]]
    BY <2>1 DEF RatesInv, CallsInv
  <2>3. CASE SetFails(u)
    <3>d. PICK d : d = Failed /\ d.at = "failed"
      <4>1. Failed.at = "failed"
        BY DEF Failed
      <4>2. QED
        BY <4>1
    <3>1. users' = [users EXCEPT ![u] = d] /\ doubt' = RateKeys
      BY <2>3, <3>d DEF SetFails
    <3>2. QED
      BY <1>1, <1>2, <2>2, <3>d, <3>1, SetterKeepsCalls
  <2>4. ASSUME NEW d, users' = [users EXCEPT ![u] = d], d.at \in SetterAts
        PROVE  RatesInv'
    BY <1>1, <1>2, <2>2, <2>4, SetterKeepsCalls
  <2>5. CASE WriteInverse(u)
    <3>d. PICK k, rate, d :
            /\ d = [c EXCEPT !.at = "scan", !.leg = "inverse", !.key = k, !.rate = rate]
            /\ users' = [users EXCEPT ![u] = d]
      BY <1>c, <2>5 DEF WriteInverse
    <3>1. d.at = "scan"
      BY <1>3, <3>d DEF IsSetter
    <3>2. QED
      BY <2>4, <3>d, <3>1 DEF SetterAts
  <2>6. CASE Scan(u)
    <3>d. PICK i, d : /\ d = [c EXCEPT !.at = "put", !.place = i]
                      /\ users' = [users EXCEPT ![u] = d]
      BY <1>c, <2>6 DEF Scan
    <3>1. d.at = "put"
      BY <1>3, <3>d DEF IsSetter
    <3>2. QED
      BY <2>4, <3>d, <3>1 DEF SetterAts
  <2>7. CASE Put(u) /\ ~SetFails(u)
    <3>d. PICK d : d = [c EXCEPT !.at = "sort"] /\ users' = [users EXCEPT ![u] = d]
      BY <1>c, <2>7 DEF Put
    <3>1. d.at = "sort"
      BY <1>3, <3>d DEF IsSetter
    <3>2. QED
      BY <2>4, <3>d, <3>1 DEF SetterAts
  <2>8. CASE StartSort(u)
    <3>d. PICK s, d : /\ d = [c EXCEPT !.at = "sorting", !.taken = s]
                      /\ users' = [users EXCEPT ![u] = d]
      BY <1>c, <2>8 DEF StartSort
    <3>1. d.at = "sorting"
      BY <1>3, <3>d DEF IsSetter
    <3>2. QED
      BY <2>4, <3>d, <3>1 DEF SetterAts
  <2>9. CASE FinishSort(u) /\ ~SetFails(u)
    <3>a. PICK a : a = IF c.leg = "direct" THEN "inverse" ELSE "clear"
      OBVIOUS
    <3>d. PICK d : d = [c EXCEPT !.at = a, !.taken = <<>>]
      OBVIOUS
    <3>1. users' = [users EXCEPT ![u] = d]
      BY <1>c, <2>9, <3>a, <3>d DEF FinishSort
    <3>2. d.at = a
      BY <1>3, <3>d DEF IsSetter
    <3>3. d.at \in SetterAts
      BY <3>a, <3>2 DEF SetterAts
    <3>4. QED
      BY <2>4, <3>1, <3>3
  <2>10. QED
    BY <1>5, <2>3, <2>5, <2>6, <2>7, <2>8, <2>9
<1>6. QED
  BY <1>4, <1>5

LEMMA AskKeeps ==
  ASSUME RatesInv, NEW u \in RateUsers, NEW amount, NEW from, NEW to, NEW dates,
         <<from, to>> \in AskedPairs, dates \in AskedDates, Ask(u, amount, from, to, dates)
  PROVE  RatesInv'
<1>d. PICK d : d = [at |-> IF from = to THEN "answered" ELSE "look", amount |-> amount,
        from |-> from, to |-> to, asked |-> dates, dates |-> dates,
        leg |-> "pair", first |-> NoRate, rate |-> NoRate, place |-> 0,
        values |-> IF from = to THEN [i \in DOMAIN dates |-> amount] ELSE <<>>,
        overlap |-> Setting # {}]
  OBVIOUS
<1>1. /\ users' = [users EXCEPT ![u] = d] /\ table' = table /\ index' = index
      /\ cache' = cache /\ doubt' = doubt /\ raced' = raced
      /\ users[u].at \in {"idle", "answered", "failed"}
  BY <1>d DEF Ask, Free
<1>2. /\ d.at = (IF from = to THEN "answered" ELSE "look") /\ d.amount = amount
      /\ d.from = from /\ d.to = to /\ d.asked = dates /\ d.dates = dates /\ d.leg = "pair"
      /\ d.overlap = (Setting # {})
      /\ d.values = (IF from = to THEN [i \in DOMAIN dates |-> amount] ELSE <<>>)
  BY <1>d
<1>3. IsCall(d) /\ Calling(d)
  BY <1>d DEF IsCall, Calling
<1>4. from \in Currencies /\ to \in Currencies /\ dates \in Seq(Dates) /\ dates # <<>>
  BY RatesAssumption
<1>5. Correct(d)
  <2>1. CASE from = to
    BY <1>2, <2>1 DEF Correct
  <2>2. CASE from # to
    <3>1. d.values = <<>> /\ d.at = "look"
      BY <1>2, <2>2
    <3>2. <<>> \in Seq({}) /\ Len(<<>>) = 0 /\ Len(dates) \in Nat
      BY <1>4
    <3>3. \E S : d.values \in Seq(S)
      BY <3>1, <3>2
    <3>4. /\ Len(d.values) + Len(d.dates) = Len(d.asked)
          /\ \A i \in 1..Len(d.dates) : d.dates[i] = d.asked[Len(d.values) + i]
      BY <1>2, <3>1, <3>2
    <3>5. \A i \in 1..Len(d.values) : FALSE
      BY <3>1, <3>2
    <3>6. Converting(d)
      BY <1>2, <1>4, <3>1, <3>3, <3>4, <3>5 DEF Converting
    <3>7. QED
      BY <1>2, <2>2, <3>6 DEF Correct
  <2>3. QED
    BY <2>1, <2>2
<1>6. users[u].at \notin SetterAts
  BY <1>1 DEF SetterAts
<1>7. /\ cache' = [k \in RateKeys |-> cache'[k]]
      /\ Setting = {} => \A k \in RateKeys \ doubt' : cache'[k] # NoRate => Good(k, cache'[k])
  BY <1>1 DEF RatesInv, CallsInv
<1>8. QED
  BY <1>1, <1>2, <1>3, <1>5, <1>6, <1>7, CallMoves

\* A look-up that goes on without a word to the cache.
LEMMA LookMoves ==
  ASSUME RatesInv, NEW u \in RateUsers, NEW d, GoOn(u, d), users[u].at \notin SetterAts,
         d.at = "failed" \/ (Calling(d) /\ IsCall(d)),
         Calling(d) /\ ~d.overlap => Setting = {} /\ Correct(d)
  PROVE  RatesInv'
<1>1. /\ users' = [users EXCEPT ![u] = d] /\ table' = table /\ index' = index
      /\ cache' = cache /\ doubt' = doubt /\ raced' = raced
  BY DEF GoOn
<1>2. /\ cache' = [k \in RateKeys |-> cache'[k]]
      /\ Setting = {} => \A k \in RateKeys \ doubt' : cache'[k] # NoRate => Good(k, cache'[k])
  BY <1>1 DEF RatesInv, CallsInv
<1>3. QED
  BY <1>1, <1>2, CallMoves

\* A call in a look-up is correct unless it is marked.
LEMMA Looking ==
  ASSUME RatesInv, NEW u \in RateUsers, NEW c, c = users[u],
         c.at \in {"look", "read", "exact", "dates", "entry", "store"}
  PROVE  /\ IsCall(c) /\ c.at \notin SetterAts
         /\ ~c.overlap => /\ Setting = {} /\ Correct(c) /\ Converting(c) /\ c.from # c.to
                          /\ LookKey(c) \in RateKeys
<1>1. c.at \notin SetterAts /\ c.at \notin {"idle", "failed"} /\ Calling(c)
  BY DEF SetterAts, Calling
<1>2. IsCall(c)
  BY <1>1 DEF RatesInv, CallsInv, Shapes
<1>3. ASSUME ~c.overlap PROVE Setting = {} /\ Correct(c)
  BY <1>1, <1>3 DEF RatesInv, CallsInv, CallOK
<1>4. ASSUME ~c.overlap PROVE Converting(c) /\ c.from # c.to
  BY <1>3, <1>4 DEF Correct
<1>5. ASSUME ~c.overlap PROVE LookKey(c) \in RateKeys
  BY <1>2, <1>4, <1>5, LookKeyTyped DEF IsCall
<1>6. QED
  BY <1>1, <1>2, <1>3, <1>4, <1>5

LEMMA CheckCacheKeeps ==
  ASSUME RatesInv, NEW u \in RateUsers, CheckCache(u)
  PROVE  RatesInv'
<1>c. PICK c : c = users[u]
  OBVIOUS
<1>a. PICK a : a = IF cache[LookKey(c)] # NoRate THEN "read" ELSE "exact"
  OBVIOUS
<1>d. PICK d : d = [c EXCEPT !.at = a]
  OBVIOUS
<1>1. GoOn(u, d) /\ c.at = "look"
  BY <1>c, <1>a, <1>d DEF CheckCache
<1>2. /\ IsCall(c) /\ c.at \notin SetterAts
      /\ ~c.overlap => Setting = {} /\ Converting(c) /\ c.from # c.to
  BY <1>1, <1>c, Looking
<1>3. /\ IsCall(d) /\ d.at = a /\ d.overlap = c.overlap /\ SameRequest(c, d)
      /\ d.leg = c.leg /\ d.first = c.first
  BY <1>2, <1>d DEF IsCall, SameRequest
<1>4. d.at \in {"read", "exact"} /\ Calling(d)
  BY <1>3, <1>a DEF Calling
<1>5. ASSUME ~d.overlap PROVE Setting = {} /\ Correct(d)
  <2>1. Converting(c) /\ Setting = {} /\ d.from # d.to
    BY <1>2, <1>3, <1>5 DEF SameRequest
  <2>2. LegsOK(d)
    BY <1>3, <2>1, SameLegs
  <2>3. Converting(d)
    BY <1>1, <1>3, <1>4, <2>1, <2>2, Onward
  <2>4. QED
    BY <2>1, <2>3 DEF Correct
<1>6. QED
  BY <1>1, <1>2, <1>3, <1>4, <1>5, <1>c, LookMoves

LEMMA HitCacheKeeps ==
  ASSUME RatesInv, NEW u \in RateUsers, HitCache(u)
  PROVE  RatesInv'
<1>c. PICK c : c = users[u]
  OBVIOUS
<1>k. PICK k : k = LookKey(c)
  OBVIOUS
<1>r. PICK rate : rate = cache[k]
  OBVIOUS
<1>o. PICK o \in BOOLEAN : o = (c.overlap \/ k \in doubt)
  OBVIOUS
<1>e. PICK e : e = [c EXCEPT !.overlap = o]
  OBVIOUS
<1>d. PICK d : d = IF rate = NoRate THEN Failed ELSE Return(e, rate)
  OBVIOUS
<1>1. GoOn(u, d) /\ c.at = "read"
  BY <1>c, <1>k, <1>r, <1>o, <1>e, <1>d DEF HitCache
<1>2. /\ IsCall(c) /\ c.at \notin SetterAts
      /\ ~c.overlap => Setting = {} /\ Correct(c) /\ Converting(c) /\ LookKey(c) \in RateKeys
  BY <1>1, <1>c, Looking
<1>3. IsCall(e) /\ e.overlap = o
  BY <1>2, <1>e DEF IsCall
<1>4. \/ d.at = "failed"
      \/ rate # NoRate /\ IsCall(d) /\ Calling(d) /\ d.overlap = o
  BY <1>3, <1>d, ReturnShape DEF Failed
<1>5. ASSUME Calling(d), ~d.overlap PROVE Setting = {} /\ Correct(d)
  <2>1. d.at # "failed" /\ ~o /\ rate # NoRate
    BY <1>4, <1>5 DEF Calling
  <2>2. ~c.overlap /\ k \notin doubt
    BY <1>o, <2>1
  <2>3. Setting = {} /\ Correct(c) /\ k \in RateKeys
    BY <1>2, <1>k, <2>2
  <2>4. c.overlap = FALSE /\ o = FALSE
    BY <1>2, <2>1, <2>2 DEF IsCall
  <2>5. e = c
    BY <1>2, <1>e, <2>4 DEF IsCall
  <2>6. Good(k, rate)
    BY <1>r, <2>1, <2>2, <2>3 DEF RatesInv, CallsInv
  <2>7. d = Return(c, rate)
    BY <1>d, <2>1, <2>5
  <2>8. Correct(d)
    BY <1>1, <1>2, <1>k, <2>1, <2>3, <2>6, <2>7, ReturnGood
  <2>9. QED
    BY <2>3, <2>8
<1>6. QED
  BY <1>1, <1>2, <1>4, <1>5, <1>c, LookMoves

\* A rate from the tables is stored next.
LEMMA FoundKeeps ==
  ASSUME RatesInv, NEW u \in RateUsers, NEW c, IsCall(c), Calling(c), c.at # "answered",
         users[u].at \notin SetterAts,
         NEW rate, NEW d, d = Found(c, rate), GoOn(u, d),
         ~c.overlap => /\ Setting = {} /\ Converting(c) /\ c.from # c.to
                       /\ Good(LookKey(c), rate)
  PROVE  RatesInv'
<1>1. CASE rate = 0
  <2>1. d.at = "failed"
    BY <1>1 DEF Found, Failed
  <2>2. QED
    BY <2>1, LookMoves DEF Calling
<1>2. CASE rate # 0
  <2>1. d = [c EXCEPT !.at = "store", !.rate = rate]
    BY <1>2 DEF Found
  <2>2. /\ IsCall(d) /\ d.at = "store" /\ d.rate = rate /\ d.overlap = c.overlap
        /\ SameRequest(c, d) /\ d.leg = c.leg /\ d.first = c.first
    BY <2>1 DEF IsCall, SameRequest
  <2>3. Calling(d)
    BY <2>2 DEF Calling
  <2>4. LookKey(d) = LookKey(c)
    BY <2>2 DEF LookKey, SameRequest
  <2>5. ASSUME ~d.overlap PROVE Setting = {} /\ Correct(d)
    <3>1. Converting(c) /\ Setting = {} /\ d.from # d.to /\ Good(LookKey(d), d.rate)
      BY <2>2, <2>4, <2>5 DEF SameRequest
    <3>2. LegsOK(d)
      BY <2>2, <3>1, SameLegs
    <3>3. Converting(d)
      BY <2>2, <3>1, <3>2, Onward
    <3>4. QED
      BY <3>1, <3>3 DEF Correct
  <2>6. QED
    BY <2>2, <2>3, <2>5, LookMoves
<1>3. QED
  BY <1>1, <1>2

LEMMA LookExactKeeps ==
  ASSUME RatesInv, NEW u \in RateUsers, LookExact(u)
  PROVE  RatesInv'
<1>c. PICK c : c = users[u]
  OBVIOUS
<1>k. PICK k : k = LookKey(c)
  OBVIOUS
<1>1. c.at = "exact" /\ Calling(c)
  BY <1>c DEF LookExact, Calling
<1>2. /\ IsCall(c) /\ c.at \notin SetterAts
      /\ ~c.overlap => Setting = {} /\ Converting(c) /\ c.from # c.to /\ k \in RateKeys
  BY <1>1, <1>c, <1>k, Looking
<1>3. CASE table[k] # NoRate
  <2>r. PICK rate : rate = table[k]
    OBVIOUS
  <2>1. GoOn(u, Found(c, rate))
    BY <1>3, <1>c, <1>k, <2>r DEF LookExact
  <2>2. ASSUME ~c.overlap PROVE Good(k, rate)
    <3>1. InForce(k) = table[k]
      BY <1>2, <1>3, <2>2, ExactInForce
    <3>2. QED
      BY <1>3, <2>r, <3>1 DEF Good, Resolved
  <2>3. QED
    BY <1>1, <1>2, <1>c, <1>k, <2>1, <2>2, FoundKeeps
<1>4. CASE table[k] = NoRate
  <2>d. PICK d : d = [c EXCEPT !.at = "dates"]
    OBVIOUS
  <2>1. GoOn(u, d)
    BY <1>4, <1>c, <1>k, <2>d DEF LookExact
  <2>2. /\ IsCall(d) /\ d.at = "dates" /\ d.overlap = c.overlap /\ SameRequest(c, d)
        /\ d.leg = c.leg /\ d.first = c.first
    BY <1>2, <2>d DEF IsCall, SameRequest
  <2>3. Calling(d) /\ LookKey(d) = k
    BY <1>k, <2>2 DEF Calling, LookKey, SameRequest
  <2>4. ASSUME ~d.overlap PROVE Setting = {} /\ Correct(d)
    <3>1. Converting(c) /\ Setting = {} /\ d.from # d.to
      BY <1>2, <2>2, <2>4 DEF SameRequest
    <3>2. LegsOK(d)
      BY <2>2, <3>1, SameLegs
    <3>3. Converting(d)
      BY <1>1, <1>4, <2>2, <2>3, <3>1, <3>2, Onward
    <3>4. QED
      BY <3>1, <3>3 DEF Correct
  <2>5. QED
    BY <1>2, <1>c, <2>1, <2>2, <2>3, <2>4, LookMoves
<1>5. QED
  BY <1>3, <1>4

\* With no set_rate in progress, and none that raced another, the lists are right.
LEMMA ListsAtRest ==
  ASSUME RatesInv, Setting = {}, ~raced, NEW k \in RateKeys
  PROVE  Right(PairOf(k))
  BY KeyShape DEF RatesInv, SetInv, AloneInOrder

LEMMA LookDatesKeeps ==
  ASSUME RatesInv, NEW u \in RateUsers, LookDates(u)
  PROVE  RatesInv'
<1>c. PICK c : c = users[u]
  OBVIOUS
<1>k. PICK k : k = LookKey(c)
  OBVIOUS
<1>s. PICK s : s = index[PairOf(k)]
  OBVIOUS
<1>1. c.at = "dates" /\ Calling(c)
  BY <1>c DEF LookDates, Calling
<1>2. /\ IsCall(c) /\ c.at \notin SetterAts
      /\ ~c.overlap => Setting = {} /\ Converting(c) /\ c.from # c.to /\ k \in RateKeys
  BY <1>1, <1>c, <1>k, Looking
<1>3. ~c.overlap => table[k] = NoRate
  BY <1>1, <1>2, <1>k DEF Converting
<1>4. CASE s # <<>>
  <2>i. PICK i \in 0..Len(s) :
          /\ i > 0 => s[i][1] <= k[3]
          /\ i < Len(s) => k[3] < s[i + 1][1]
          /\ GoOn(u, [c EXCEPT !.at = "entry", !.place = i])
    BY <1>4, <1>c, <1>k, <1>s DEF LookDates
  <2>d. PICK d : d = [c EXCEPT !.at = "entry", !.place = i]
    OBVIOUS
  <2>1. /\ IsCall(d) /\ d.at = "entry" /\ d.place = i /\ d.overlap = c.overlap
        /\ SameRequest(c, d) /\ d.leg = c.leg /\ d.first = c.first
    BY <1>2, <2>d DEF IsCall, SameRequest
  <2>2. Calling(d) /\ LookKey(d) = k
    BY <1>k, <2>1 DEF Calling, LookKey, SameRequest
  <2>3. AtPlace(d)
    BY <1>4, <1>s, <2>i, <2>1, <2>2 DEF AtPlace
  <2>4. ASSUME ~d.overlap PROVE Setting = {} /\ Correct(d)
    <3>1. Converting(c) /\ Setting = {} /\ d.from # d.to /\ table[LookKey(d)] = NoRate
      BY <1>2, <1>3, <2>1, <2>2, <2>4 DEF SameRequest
    <3>2. LegsOK(d)
      BY <2>1, <3>1, SameLegs
    <3>3. Converting(d)
      BY <1>1, <2>1, <2>3, <3>1, <3>2, Onward
    <3>4. QED
      BY <3>1, <3>3 DEF Correct
  <2>5. GoOn(u, d)
    BY <2>i, <2>d
  <2>6. QED
    BY <1>2, <1>c, <2>1, <2>2, <2>4, <2>5, LookMoves
<1>5. CASE s = <<>> /\ "USD" \in {k[1], k[2]}
  <2>d. PICK d : d = Failed /\ d.at = "failed"
    <3>1. Failed.at = "failed"
      BY DEF Failed
    <3>2. QED
      BY <3>1
  <2>1. GoOn(u, d)
    BY <1>5, <1>c, <1>k, <1>s, <2>d DEF LookDates
  <2>2. QED
    BY <1>2, <1>c, <2>d, <2>1, LookMoves DEF Calling
<1>6. CASE s = <<>> /\ "USD" \notin {k[1], k[2]}
  <2>d. PICK d : d = [c EXCEPT !.leg = "from", !.at = "look"]
    OBVIOUS
  <2>1. GoOn(u, d)
    BY <1>6, <1>c, <1>k, <1>s, <2>d DEF LookDates
  <2>2. /\ IsCall(d) /\ d.at = "look" /\ d.overlap = c.overlap
        /\ SameRequest(c, d) /\ d.leg = "from"
    BY <1>2, <2>d DEF IsCall, SameRequest
  <2>3. Calling(d)
    BY <2>2 DEF Calling
  <2>4. c.leg = "pair"
    <3>1. c.leg = "from" => k[2] = "USD"
      BY <1>k DEF LookKey
    <3>2. c.leg = "to" => k[1] = "USD"
      BY <1>k DEF LookKey
    <3>3. QED
      BY <1>2, <1>6, <3>1, <3>2 DEF IsCall
  <2>5. k = <<d.from, d.to, Head(d.dates)>>
    BY <1>k, <2>2, <2>4 DEF LookKey, SameRequest
  <2>6. ASSUME ~d.overlap PROVE Setting = {} /\ Correct(d)
    <3>1. Converting(c) /\ Setting = {} /\ d.from # d.to /\ table[k] = NoRate /\ k \in RateKeys
      BY <1>2, <1>3, <2>2, <2>6 DEF SameRequest
    <3>2. ~raced => InForce(k) = NoRate
      BY <1>6, <1>s, <3>1, ListsAtRest, EmptyInForce
    <3>3. k[1] = d.from /\ k[2] = d.to
      BY <2>5
    <3>4. LegsOK(d)
      BY <1>6, <2>2, <2>5, <3>1, <3>2, <3>3 DEF LegsOK
    <3>5. Converting(d)
      BY <1>1, <2>2, <3>1, <3>4, Onward
    <3>6. QED
      BY <3>1, <3>5 DEF Correct
  <2>7. QED
    BY <1>2, <1>c, <2>1, <2>2, <2>3, <2>6, LookMoves
<1>7. QED
  BY <1>4, <1>5, <1>6

LEMMA ReadEntryKeeps ==
  ASSUME RatesInv, NEW u \in RateUsers, ReadEntry(u)
  PROVE  RatesInv'
<1>c. PICK c : c = users[u]
  OBVIOUS
<1>k. PICK k : k = LookKey(c)
  OBVIOUS
<1>s. PICK s : s = index[PairOf(k)]
  OBVIOUS
<1>m. PICK m : m = IF c.place = 0 THEN 1 ELSE c.place
  OBVIOUS
<1>1. c.at = "entry" /\ Calling(c)
  BY <1>c DEF ReadEntry, Calling
<1>2. /\ IsCall(c) /\ c.at \notin SetterAts
      /\ ~c.overlap => Setting = {} /\ Converting(c) /\ c.from # c.to /\ k \in RateKeys
  BY <1>1, <1>c, <1>k, Looking
<1>3. CASE m > Len(s)
  <2>d. PICK d : d = Failed /\ d.at = "failed"
    <3>1. Failed.at = "failed"
      BY DEF Failed
    <3>2. QED
      BY <3>1
  <2>1. GoOn(u, d)
    BY <1>3, <1>c, <1>k, <1>s, <1>m, <2>d DEF ReadEntry
  <2>2. QED
    BY <1>2, <1>c, <2>d, <2>1, LookMoves DEF Calling
<1>4. CASE ~(m > Len(s))
  <2>e. PICK e : e = [c EXCEPT !.place = 0]
    OBVIOUS
  <2>r. PICK rate : rate = s[m][2]
    OBVIOUS
  <2>1. GoOn(u, Found(e, rate))
    BY <1>4, <1>c, <1>k, <1>s, <1>m, <2>e, <2>r DEF ReadEntry
  <2>2. /\ IsCall(e) /\ e.at = "entry" /\ e.overlap = c.overlap /\ SameRequest(c, e)
        /\ e.leg = c.leg /\ e.first = c.first
    BY <1>1, <1>2, <2>e DEF IsCall, SameRequest
  <2>3. Calling(e) /\ LookKey(e) = k
    BY <1>k, <2>2 DEF Calling, LookKey, SameRequest
  <2>f. PICK f : f = [e EXCEPT !.at = "look"]
    OBVIOUS
  <2>4. /\ IsCall(f) /\ f.at = "look" /\ f.overlap = c.overlap /\ SameRequest(c, f)
        /\ f.leg = c.leg /\ f.first = c.first
    BY <2>2, <2>f DEF IsCall, SameRequest
  <2>5. Calling(f) /\ LookKey(f) = k
    BY <1>k, <2>4 DEF Calling, LookKey, SameRequest
  <2>6. Found(f, rate) = Found(e, rate)
    BY <2>2, <2>f DEF Found, IsCall
  <2>7. ASSUME ~f.overlap
        PROVE  Setting = {} /\ Converting(f) /\ f.from # f.to /\ Good(k, rate)
    <3>1. Converting(c) /\ Setting = {} /\ f.from # f.to /\ k \in RateKeys
      BY <1>2, <2>4, <2>7 DEF SameRequest
    <3>2. LegsOK(f)
      BY <2>4, <3>1, SameLegs
    <3>3. Converting(f)
      BY <1>1, <2>4, <3>1, <3>2, Onward
    <3>4. table[k] = NoRate /\ AtPlace(c)
      BY <1>1, <1>k, <3>1 DEF Converting
    <3>5. ASSUME ~raced PROVE Resolved(k, rate)
      <4>1. Right(PairOf(k))
        BY <3>1, <3>5, ListsAtRest
      <4>i. PICK i : i = c.place
        OBVIOUS
      <4>2. /\ s # <<>> /\ i \in 0..Len(s)
            /\ i > 0 => s[i][1] <= k[3]
            /\ i < Len(s) => k[3] < s[i + 1][1]
        BY <1>k, <1>s, <3>4, <4>i DEF AtPlace
      <4>3. InForce(k) = s[m][2] /\ s[m][2] \in Int
        BY <1>m, <1>s, <3>1, <4>1, <4>i, <4>2, EntryInForce
      <4>4. InForce(k) # NoRate /\ rate = InForce(k)
        BY <2>r, <4>3, RatesAssumption
      <4>5. QED
        BY <4>4 DEF Resolved
    <3>6. QED
      BY <3>1, <3>3, <3>4, <3>5 DEF Good
  <2>8. QED
    BY <1>2, <1>c, <2>1, <2>4, <2>5, <2>6, <2>7, FoundKeeps
<1>5. QED
  BY <1>3, <1>4

LEMMA StoreRateKeeps ==
  ASSUME RatesInv, NEW u \in RateUsers, StoreRate(u)
  PROVE  RatesInv'
<1>c. PICK c : c = users[u]
  OBVIOUS
<1>k. PICK k : k = LookKey(c)
  OBVIOUS
<1>r. PICK rate : rate = c.rate
  OBVIOUS
<1>d. PICK d : d = Return(c, rate)
  OBVIOUS
<1>1. /\ users' = [users EXCEPT ![u] = d] /\ table' = table /\ index' = index /\ raced' = raced
      /\ c.at = "store" /\ cache' = [cache EXCEPT ![k] = rate]
      /\ doubt' = IF c.overlap THEN doubt \cup {k} ELSE doubt \ {k}
  BY <1>c, <1>k, <1>r, <1>d DEF StoreRate
<1>2. /\ IsCall(c) /\ c.at \notin SetterAts
      /\ ~c.overlap => Setting = {} /\ Correct(c) /\ Converting(c)
  BY <1>1, <1>c, Looking
<1>3. ~c.overlap => Good(k, rate)
  BY <1>1, <1>2, <1>k, <1>r DEF Converting
<1>4. \/ d.at = "failed"
      \/ IsCall(d) /\ Calling(d) /\ d.overlap = c.overlap
  BY <1>2, <1>d, ReturnShape
<1>5. ASSUME Calling(d), ~d.overlap PROVE Setting = {} /\ Correct(d)
  <2>1. d.at # "failed" /\ ~c.overlap
    BY <1>4, <1>5 DEF Calling
  <2>2. Correct(d)
    BY <1>1, <1>2, <1>3, <1>k, <1>d, <2>1, ReturnGood
  <2>3. QED
    BY <1>2, <2>1, <2>2
<1>6. cache' = [j \in RateKeys |-> cache'[j]]
  BY <1>1 DEF RatesInv, CallsInv
<1>7. ASSUME Setting = {}, NEW j \in RateKeys \ doubt', cache'[j] # NoRate
      PROVE  Good(j, cache'[j])
  <2>1. CASE j = k
    <3>1. ~c.overlap
      BY <1>1, <1>7, <2>1
    <3>2. cache'[j] = rate
      BY <1>1, <1>7, <2>1 DEF RatesInv, CallsInv
    <3>3. QED
      BY <1>3, <2>1, <3>1, <3>2
  <2>2. CASE j # k
    <3>1. j \notin doubt /\ cache'[j] = cache[j]
      BY <1>1, <1>7, <2>2 DEF RatesInv, CallsInv
    <3>2. QED
      BY <1>7, <3>1 DEF RatesInv, CallsInv
  <2>3. QED
    BY <2>1, <2>2
<1>8. QED
  BY <1>1, <1>2, <1>4, <1>5, <1>6, <1>7, <1>c, CallMoves

-----------------------------------------------------------------------------

\* A right list has what IndexFaithful asks.
LEMMA RightIsFaithful ==
  ASSUME NEW p \in Pairs, Right(p)
  PROVE  /\ \A i, j \in DOMAIN index[p] : i < j => index[p][i][1] < index[p][j][1]
         /\ {index[p][i] : i \in DOMAIN index[p]} =
              {<<d, table[<<p[1], p[2], d>>]>> :
                 d \in {e \in Dates : table[<<p[1], p[2], e>>] # NoRate}}
<1>s. PICK s : s = index[p]
  OBVIOUS
<1>1. Lists(s, p, Dates) /\ Ascending(s)
  BY <1>s DEF Right
<1>2. s \in Seq(Dates \X Int)
  BY <1>1 DEF Lists
<1>3. ASSUME NEW i \in DOMAIN s
      PROVE  \E d \in {e \in Dates : table[<<p[1], p[2], e>>] # NoRate} :
               s[i] = <<d, table[<<p[1], p[2], d>>]>>
  <2>e. PICK e : e = s[i]
    OBVIOUS
  <2>1. e \in Dates \X Int
    BY <1>2, <2>e
  <2>2. e = <<e[1], e[2]>> /\ e[1] \in Dates /\ e[2] \in Int
    BY <2>1
  <2>3. e[2] = table[<<p[1], p[2], e[1]>>]
    BY <1>1, <2>e, <2>2 DEF Lists
  <2>4. table[<<p[1], p[2], e[1]>>] # NoRate
    BY <2>2, <2>3, RatesAssumption
  <2>5. QED
    BY <2>e, <2>2, <2>3, <2>4
<1>4. ASSUME NEW d \in Dates, table[<<p[1], p[2], d>>] # NoRate
      PROVE  \E i \in DOMAIN s : s[i] = <<d, table[<<p[1], p[2], d>>]>>
  <2>1. PICK i \in DOMAIN s : s[i][1] = d
    BY <1>1, <1>4 DEF Lists
  <2>2. PICK f \in Dates : s[i] = <<f, table[<<p[1], p[2], f>>]>>
    BY <1>3
  <2>3. f = d
    BY <2>1, <2>2
  <2>4. QED
    BY <2>2, <2>3
<1>5. {s[i] : i \in DOMAIN s} =
        {<<d, table[<<p[1], p[2], d>>]>> : d \in {e \in Dates : table[<<p[1], p[2], e>>] # NoRate}}
  <2>1. ASSUME NEW x \in {s[i] : i \in DOMAIN s}
        PROVE  x \in {<<d, table[<<p[1], p[2], d>>]>> :
                        d \in {e \in Dates : table[<<p[1], p[2], e>>] # NoRate}}
    BY <1>3
  <2>2. ASSUME NEW d \in {e \in Dates : table[<<p[1], p[2], e>>] # NoRate}
        PROVE  <<d, table[<<p[1], p[2], d>>]>> \in {s[i] : i \in DOMAIN s}
    BY <1>4
  <2>3. QED
    BY <2>1, <2>2
<1>6. \A i, j \in DOMAIN s : i < j => s[i][1] < s[j][1]
  BY <1>1 DEF Ascending
<1>7. QED
  BY <1>5, <1>6, <1>s

LEMMA RatesFollow ==
  ASSUME RatesInv
  PROVE  RateCacheCoherent
<1>1. Setting = {} => CacheCoherent
  BY ResolvedIsFresh DEF RatesInv, CallsInv, Good, CacheCoherent
<1>2. Setting = {} /\ ~raced => IndexFaithful
  <2> SUFFICES ASSUME Setting = {}, ~raced PROVE IndexFaithful
    OBVIOUS
  <2>1. \A p \in Pairs : Right(p)
    BY DEF RatesInv, SetInv, AloneInOrder
  <2>2. QED
    BY <2>1, RightIsFaithful DEF IndexFaithful
<1>3. ASSUME NEW u \in RateUsers, users[u].at = "answered", ~users[u].overlap
      PROVE  AnswersCurrent(users[u])
  <2>c. PICK c : c = users[u]
    OBVIOUS
  <2>1. Correct(c) /\ c.at = "answered"
    BY <1>3, <2>c DEF RatesInv, CallsInv, CallOK, Calling
  <2>2. CASE c.from = c.to
    <3>1. \A i \in DOMAIN c.asked : c.values[i] = c.amount
      BY <2>1, <2>2 DEF Correct
    <3>2. QED
      BY <2>2, <2>c, <3>1 DEF AnswersCurrent
  <2>3. CASE c.from # c.to
    <3>1. Converting(c) /\ c.dates = <<>>
      BY <2>1, <2>3 DEF Correct, Converting
    <3>2. PICK S : c.values \in Seq(S)
      BY <3>1 DEF Converting
    <3>3. c.asked \in Seq(Dates) /\ Len(c.values) + Len(c.dates) = Len(c.asked)
      BY <3>1 DEF Converting
    <3>4. Len(c.dates) = 0 /\ Len(c.values) \in Nat
      BY <3>1, <3>2
    <3>5. DOMAIN c.asked = 1..Len(c.values)
      BY <3>3, <3>4
    <3>6. \A i \in DOMAIN c.asked : Converted(c, i)
      BY <3>1, <3>5 DEF Converting
    <3>7. QED
      BY <2>3, <2>c, <3>6 DEF Converted, AnswersCurrent
  <2>4. QED
    BY <2>2, <2>3
<1>4. QED
  BY <1>1, <1>2, <1>3 DEF RateCacheCoherent

\* For any currencies, dates, rates and threads: outside calls of set_rate the
\* cache gives what _rates has for a date, a conversion that none overlaps
\* answers with it, and as long as no two calls of set_rate overlapped the
\* sorted lists hold exactly the rates of _rates and every answer is at the rate
\* in force.
THEOREM RatesKeptCoherent == RatesSpec => []RateCacheCoherent
<1>1. RatesInit => RatesInv
  <2> SUFFICES ASSUME RatesInit PROVE RatesInv
    OBVIOUS
  <2>1. \A u \in RateUsers : users[u].at = "idle"
    BY DEF RatesInit, NoUse
  <2>2. Setting = {}
    BY <2>1 DEF Setting
  <2>3. Shapes /\ \A u \in RateUsers : CallOK(users[u])
    BY <2>1 DEF Shapes, CallOK, Calling
  <2>4. /\ cache = [k \in RateKeys |-> cache[k]] /\ users = [u \in RateUsers |-> users[u]]
        /\ index = [p \in Pairs |-> index[p]]
        /\ table \in [RateKeys -> Int \cup {NoRate}]
        /\ \A k \in RateKeys : cache[k] = NoRate /\ table[k] = NoRate
        /\ \A p \in Pairs : index[p] = <<>>
    BY DEF RatesInit
  <2>5. ASSUME NEW p \in Pairs PROVE Right(p)
    <3>1. <<>> \in Seq(Dates \X Int) /\ DOMAIN <<>> = {}
      OBVIOUS
    <3>2. \A e \in Dates : <<p[1], p[2], e>> \in RateKeys
      BY DEF Pairs, RateKeys
    <3>3. Lists(<<>>, p, Dates) /\ Ascending(<<>>)
      BY <2>4, <3>1, <3>2 DEF Lists, Ascending
    <3>4. QED
      BY <2>4, <3>3 DEF Right
  <2>6. SetInv
    BY <2>2, <2>4, <2>5 DEF SetInv, AloneInOrder
  <2>7. QED
    BY <2>3, <2>4, <2>6 DEF RatesInv, CallsInv
<1>2. RatesInv /\ [RatesNext]_rateVars => RatesInv'
  <2> SUFFICES ASSUME RatesInv, [RatesNext]_rateVars PROVE RatesInv'
    OBVIOUS
  <2>1. ASSUME NEW u \in RateUsers, NEW p \in QuotedPairs, NEW d \in Dates, NEW rate \in NewRates,
               WriteRate(u, p[1], p[2], d, rate)
        PROVE  RatesInv'
    <3>1. p[1] \in Currencies /\ p[2] \in Currencies
      BY RatesAssumption
    <3>2. QED
      BY <2>1, <3>1, WriteRateKeeps
  <2>2. ASSUME NEW u \in RateUsers,
               \/ WriteInverse(u) \/ Scan(u) \/ Put(u) \/ StartSort(u) \/ FinishSort(u)
               \/ ClearCache(u)
        PROVE  RatesInv'
    BY <2>2, SetterStepKeeps
  <2>3. ASSUME NEW u \in RateUsers, NEW p \in AskedPairs, NEW dates \in AskedDates,
               NEW amount \in Money, Ask(u, amount, p[1], p[2], dates)
        PROVE  RatesInv'
    <3>1. <<p[1], p[2]>> \in AskedPairs
      BY RatesAssumption
    <3>2. QED
      BY <2>3, <3>1, AskKeeps
  <2>4. ASSUME NEW u \in RateUsers,
               \/ CheckCache(u) \/ HitCache(u) \/ LookExact(u) \/ LookDates(u)
               \/ ReadEntry(u) \/ StoreRate(u)
        PROVE  RatesInv'
    BY <2>4, CheckCacheKeeps, HitCacheKeeps, LookExactKeeps, LookDatesKeeps, ReadEntryKeeps,
       StoreRateKeeps
  <2>5. CASE UNCHANGED rateVars
    <3>1. /\ table' = table /\ index' = index /\ cache' = cache /\ users' = users
          /\ doubt' = doubt /\ raced' = raced /\ Setting' = Setting
      BY <2>5 DEF rateVars, Setting
    <3>2. \A s, q, D : Lists(s, q, D)' <=> Lists(s, q, D)
      BY <3>1 DEF Lists
    <3>3. \A q : Right(q)' <=> Right(q)
      BY <3>1, <3>2 DEF Right
    <3>4. \A c : SetterOK(c)' <=> SetterOK(c)
      BY <3>1, <3>2, <3>3 DEF SetterOK, OwnList
    <3>5. SetInv'
      <4>1. (\A u \in Setting : IsSetter(users[u]))'
        BY <3>1 DEF RatesInv, SetInv, IsSetter
      <4>2. ASSUME ~raced PROVE AloneInOrder'
        <5>1. AloneInOrder
          BY <4>2 DEF RatesInv, SetInv
        <5>2. ASSUME NEW u \in Setting PROVE (SetterOK(users[u]))'
          <6>c. PICK c : c = users[u]
            OBVIOUS
          <6>1. SetterOK(c)'
            BY <3>4, <5>1, <6>c DEF AloneInOrder
          <6>2. QED
            BY <3>1, <6>c, <6>1
        <5>3. QED
          BY <3>1, <3>3, <5>1, <5>2 DEF AloneInOrder
      <4>3. QED
        BY <3>1, <4>1, <4>2 DEF RatesInv, SetInv
    <3>6. \A k, rate : Good(k, rate)' <=> Good(k, rate)
      BY <3>1, SameTable
    <3>7. ASSUME NEW u \in RateUsers PROVE (CallOK(users[u]))'
      <4>c. PICK c : c = users[u]
        OBVIOUS
      <4>1. CallOK(c) /\ (Correct(c)' <=> Correct(c))
        BY <3>1, <4>c, SameTable DEF RatesInv, CallsInv
      <4>2. CallOK(c)'
        BY <3>1, <4>1 DEF CallOK
      <4>3. QED
        BY <3>1, <4>c, <4>2
    <3>8. Shapes'
      BY <3>1 DEF RatesInv, CallsInv, Shapes, Calling, IsCall
    <3>9. QED
      BY <3>1, <3>5, <3>6, <3>7, <3>8 DEF RatesInv, CallsInv
  <2>6. QED
    BY <2>1, <2>2, <2>3, <2>4, <2>5 DEF RatesNext
<1>3. RatesInv => RateCacheCoherent
  BY RatesFollow
<1>4. QED
  BY <1>1, <1>2, <1>3, PTL DEF RatesSpec

-----------------------------------------------------------------------------
(* The split detector.  Induction over a set of numbers gives what the     *)
(* recursive definitions of the model compute: the sum of the amounts of a *)
(* set, the events a breadth-first search reaches, the window without one  *)
(* custodian.                                                              *)

\* Induction over the numbers, for a set of them.
LEMMA SetInduction ==
  ASSUME NEW T, 0 \in T, \A n \in Nat : n \in T => n + 1 \in T
  PROVE  \A n \in Nat : n \in T
<1> DEFINE U == Nat \ T
<1>1. SUFFICES ASSUME U # {} PROVE FALSE
  OBVIOUS
<1>2. PICK m \in U : \A k \in U : m <= k
  BY <1>1, LeastNumber
<1>3. m # 0 /\ m \in Nat
  OBVIOUS
<1>4. m - 1 \in Nat /\ (m - 1) + 1 = m /\ ~(m <= m - 1)
  BY <1>3
<1>5. m - 1 \in T
  BY <1>2, <1>4
<1>6. QED
  BY <1>4, <1>5

Steps(f, N, V, v, g) ==
  /\ f \in [0..N -> V]
  /\ f[0] = v
  /\ \A n \in 1..N : f[n] = g[<<n, f[n - 1]>>]

\* A function defined step by step exists.
LEMMA StepByStep ==
  ASSUME NEW N \in Nat, NEW V, NEW v \in V, NEW g \in [Nat \X V -> V]
  PROVE  \E f : Steps(f, N, V, v, g)
<1> DEFINE Reaches(n, f) == /\ f \in [0..n -> V] /\ f[0] = v
                            /\ \A i \in 1..n : f[i] = g[<<i, f[i - 1]>>]
           T == {n \in Nat : \E f : Reaches(n, f)}
<1>1. 0 \in T
  <2>1. Reaches(0, [i \in 0..0 |-> v])
    OBVIOUS
  <2>2. QED
    BY <2>1
<1>2. ASSUME NEW n \in Nat, n \in T PROVE n + 1 \in T
  <2>1. PICK f : Reaches(n, f)
    BY <1>2
  <2> DEFINE h == [i \in 0..(n + 1) |-> IF i = n + 1 THEN g[<<n + 1, f[n]>>] ELSE f[i]]
  <2>2. f[n] \in V /\ n \in 0..n
    BY <2>1
  <2>3. g[<<n + 1, f[n]>>] \in V
    BY <2>2
  <2>4. \A i \in 0..(n + 1) : i # n + 1 => i \in 0..n
    OBVIOUS
  <2>5. h \in [0..(n + 1) -> V]
    BY <2>1, <2>3, <2>4
  <2>6. h[0] = v
    BY <2>1
  <2>7. ASSUME NEW i \in 1..(n + 1) PROVE h[i] = g[<<i, h[i - 1]>>]
    <3>1. i \in 0..(n + 1) /\ i - 1 \in 0..n /\ i - 1 # n + 1 /\ i - 1 \in 0..(n + 1)
      OBVIOUS
    <3>2. h[i - 1] = f[i - 1]
      BY <3>1
    <3>3. CASE i = n + 1
      <4>1. i - 1 = n
        BY <3>3
      <4>2. h[i] = g[<<n + 1, f[n]>>]
        BY <3>1, <3>3
      <4>3. QED
        BY <3>2, <3>3, <4>1, <4>2
    <3>4. CASE i # n + 1
      <4>1. i \in 1..n
        BY <3>4
      <4>2. h[i] = f[i]
        BY <3>1, <3>4
      <4>3. QED
        BY <2>1, <3>2, <4>1, <4>2
    <3>5. QED
      BY <3>3, <3>4
  <2>8. Reaches(n + 1, h)
    <3> HIDE DEF h
    <3>1. QED
      BY <2>5, <2>6, <2>7
  <2> HIDE DEF Reaches, h
  <2>9. QED
    BY <2>8
<1>3. N \in T
  <2> HIDE DEF T
  <2>1. QED
    BY <1>1, <1>2, SetInduction
<1>4. QED
  BY <1>3 DEF Steps

-----------------------------------------------------------------------------
(* Sums over finite sets *)

AmountStep(E, h) ==
  [t \in SUBSET E |-> IF t = {} THEN 0 ELSE Pick(t).amount + h[t \ {Pick(t)}]]

LEMMA TotalUnfolds ==
  ASSUME NEW E
  PROVE  Total(E) = (CHOOSE h : h = AmountStep(E, h))[E]
  BY DEF Total, MapThenSumSet, MapThenFoldSet, AmountStep, Pick

\* h gives the total amount of every set of events of E.
Sums(E, h) ==
  /\ h \in [SUBSET E -> Nat]
  /\ h[{}] = 0
  /\ \A t \in SUBSET E : t # {} => h[t] = Pick(t).amount + h[t \ {Pick(t)}]

LEMMA SubsetSize ==
  ASSUME NEW E, IsFiniteSet(E), NEW t \in SUBSET E
  PROVE  /\ IsFiniteSet(t) /\ Cardinality(t) \in Nat
         /\ Cardinality(t) = 0 <=> t = {}
         /\ \A x \in t : /\ t \ {x} \in SUBSET E /\ Cardinality(t) # 0
                         /\ Cardinality(t \ {x}) = Cardinality(t) - 1
<1>1. IsFiniteSet(t) /\ Cardinality(t) \in Nat
  BY FS_Subset, FS_CardinalityType
<1>2. Cardinality(t) = 0 <=> t = {}
  BY <1>1, FS_EmptySet
<1>3. \A x \in t : Cardinality(t \ {x}) = Cardinality(t) - 1
  BY <1>1, FS_RemoveElement
<1>4. QED
  BY <1>1, <1>2, <1>3

LEMMA SumsExist ==
  ASSUME NEW E, IsFiniteSet(E), \A x \in E : x.amount \in Nat
  PROVE  \E h : Sums(E, h)
<1> DEFINE UpTo(n, h) ==
             /\ h \in [SUBSET E -> Nat]
             /\ h[{}] = 0
             /\ \A t \in SUBSET E : t # {} /\ Cardinality(t) <= n
                                      => h[t] = Pick(t).amount + h[t \ {Pick(t)}]
           T == {n \in Nat : \E h : UpTo(n, h)}
<1>1. 0 \in T
  <2> DEFINE h == [t \in SUBSET E |-> 0]
  <2>1. ASSUME NEW t \in SUBSET E, t # {} PROVE ~(Cardinality(t) <= 0)
    BY <2>1, SubsetSize
  <2>2. UpTo(0, h)
    BY <2>1
  <2> HIDE DEF UpTo, h
  <2>3. QED
    BY <2>2
<1>2. ASSUME NEW n \in Nat, n \in T PROVE n + 1 \in T
  <2>1. PICK h : UpTo(n, h)
    BY <1>2
  <2> DEFINE New(t) == Pick(t).amount + h[t \ {Pick(t)}]
             g == [t \in SUBSET E |-> IF t # {} /\ Cardinality(t) = n + 1 THEN New(t) ELSE h[t]]
  <2>2. ASSUME NEW t \in SUBSET E, t # {}
        PROVE  /\ Pick(t) \in t /\ t \ {Pick(t)} \in SUBSET E /\ New(t) \in Nat
               /\ Cardinality(t) \in Nat /\ Cardinality(t \ {Pick(t)}) = Cardinality(t) - 1
    <3>1. Pick(t) \in t
      BY <2>2, PickIn
    <3>2. /\ t \ {Pick(t)} \in SUBSET E /\ Cardinality(t) \in Nat
          /\ Cardinality(t \ {Pick(t)}) = Cardinality(t) - 1
      BY <3>1, SubsetSize
    <3>3. New(t) \in Nat
      BY <2>1, <3>1, <3>2
    <3>4. QED
      BY <3>1, <3>2, <3>3
  <2>3. g \in [SUBSET E -> Nat]
    <3> HIDE DEF New
    <3>1. QED
      BY <2>1, <2>2
  <2>4. g[{}] = 0
    BY <2>1
  <2>5. ASSUME NEW t \in SUBSET E, t # {}, Cardinality(t) <= n + 1
        PROVE  g[t] = Pick(t).amount + g[t \ {Pick(t)}]
    <3>p. PICK u : u = t \ {Pick(t)}
      OBVIOUS
    <3>1. u \in SUBSET E /\ Cardinality(u) # n + 1
      BY <2>2, <2>5, <3>p
    <3>2. g[u] = h[u]
      BY <3>1
    <3>3. CASE Cardinality(t) = n + 1
      BY <2>5, <3>p, <3>2, <3>3
    <3>4. CASE Cardinality(t) # n + 1
      <4>c. PICK c \in Nat : c = Cardinality(t)
        BY <2>2, <2>5
      <4>1. Cardinality(t) <= n
        BY <2>5, <3>4, <4>c
      <4>2. h[t] = Pick(t).amount + h[u]
        BY <2>1, <2>5, <3>p, <4>1
      <4>3. QED
        BY <3>p, <3>2, <3>4, <4>2
    <3>5. QED
      BY <3>3, <3>4
  <2>6. UpTo(n + 1, g)
    <3> HIDE DEF g
    <3>1. QED
      BY <2>3, <2>4, <2>5
  <2> HIDE DEF UpTo, g
  <2>7. QED
    BY <2>6
<1>3. Cardinality(E) \in Nat /\ \A t \in SUBSET E : Cardinality(t) <= Cardinality(E)
  BY FS_CardinalityType, FS_Subset
<1>4. Cardinality(E) \in T
  <2> HIDE DEF T
  <2>1. QED
    BY <1>1, <1>2, <1>3, SetInduction
<1>5. PICK h : UpTo(Cardinality(E), h)
  BY <1>4
<1>6. Sums(E, h)
  BY <1>3, <1>5 DEF Sums
<1>7. QED
  BY <1>6

\* The total of a set is what h gives, whichever way the fold picks.
LEMMA TotalIsSum ==
  ASSUME NEW E, IsFiniteSet(E), NEW h, Sums(E, h), NEW A \in SUBSET E
  PROVE  Total(A) = h[A]
<1> DEFINE g == [t \in SUBSET A |-> h[t]]
<1>1. \A t \in SUBSET A : t \in SUBSET E
  OBVIOUS
<1>2. ASSUME NEW t \in SUBSET A
      PROVE  g[t] = IF t = {} THEN 0 ELSE Pick(t).amount + g[t \ {Pick(t)}]
  BY <1>1 DEF Sums
<1>3. g = AmountStep(A, g)
  BY <1>2 DEF AmountStep
<1> HIDE DEF g
<1>4. PICK k : k = CHOOSE f : f = AmountStep(A, f)
  OBVIOUS
<1>5. k = AmountStep(A, k)
  BY <1>3, <1>4
<1>6. \A t \in SUBSET A : k[t] = IF t = {} THEN 0 ELSE Pick(t).amount + k[t \ {Pick(t)}]
  BY <1>5 DEF AmountStep
<1> DEFINE T == {n \in Nat : \A t \in SUBSET A : Cardinality(t) = n => k[t] = h[t]}
<1>7. 0 \in T
  <2>1. \A t \in SUBSET A : Cardinality(t) = 0 => t = {}
    BY <1>1, SubsetSize
  <2>2. QED
    BY <1>6, <2>1 DEF Sums
<1>8. ASSUME NEW n \in Nat, n \in T PROVE n + 1 \in T
  <2>1. ASSUME NEW t \in SUBSET A, Cardinality(t) = n + 1 PROVE k[t] = h[t]
    <3>1. t \in SUBSET E /\ t # {}
      BY <1>1, <2>1, SubsetSize
    <3>p. PICK u : u = t \ {Pick(t)}
      OBVIOUS
    <3>2. Pick(t) \in t
      BY <3>1, PickIn
    <3>3. u \in SUBSET A /\ Cardinality(u) = Cardinality(t) - 1
      BY <3>1, <3>2, <3>p, SubsetSize
    <3>4. Cardinality(u) = n
      BY <2>1, <3>3
    <3>5. k[u] = h[u]
      BY <1>8, <3>3, <3>4
    <3>6. QED
      BY <1>6, <3>1, <3>p, <3>5 DEF Sums
  <2>2. QED
    BY <2>1
<1>9. Cardinality(A) \in T
  <2>1. Cardinality(A) \in Nat
    BY SubsetSize
  <2> HIDE DEF T
  <2>2. QED
    BY <1>7, <1>8, <2>1, SetInduction
<1>10. k[A] = h[A]
  BY <1>9
<1>11. QED
  BY <1>4, <1>10, TotalUnfolds

Additive(E, h) == \A t \in SUBSET E : \A x \in t : h[t] = h[t \ {x}] + x.amount

\* One more event adds its amount.
LEMMA SumsAdd ==
  ASSUME NEW E, IsFiniteSet(E), \A x \in E : x.amount \in Nat, NEW h, Sums(E, h)
  PROVE  Additive(E, h)
<1> DEFINE T == {n \in Nat : \A t \in SUBSET E : Cardinality(t) = n =>
                               \A x \in t : h[t] = h[t \ {x}] + x.amount}
<1>1. 0 \in T
  <2>1. \A t \in SUBSET E : Cardinality(t) = 0 => t = {}
    BY SubsetSize
  <2>2. QED
    BY <2>1
<1>2. ASSUME NEW n \in Nat, n \in T PROVE n + 1 \in T
  <2>1. ASSUME NEW t \in SUBSET E, Cardinality(t) = n + 1, NEW x \in t
        PROVE  h[t] = h[t \ {x}] + x.amount
    <3>p. PICK p : p = Pick(t)
      OBVIOUS
    <3>1. p \in t /\ p \in E /\ x \in E
      BY <3>p, PickIn
    <3>2. h[t] = p.amount + h[t \ {p}]
      BY <3>p DEF Sums
    <3>3. \A u \in SUBSET E : h[u] \in Nat
      BY DEF Sums
    <3>4. t \ {p} \in SUBSET E /\ t \ {x} \in SUBSET E /\ (t \ {p}) \ {x} \in SUBSET E
      OBVIOUS
    <3>5. CASE p = x
      BY <3>1, <3>2, <3>3, <3>4, <3>5
    <3>6. CASE p # x
      <4>1. Cardinality(t \ {p}) = n /\ Cardinality(t \ {x}) = n
        <5>1. Cardinality(t \ {p}) = Cardinality(t) - 1 /\ Cardinality(t \ {x}) = Cardinality(t) - 1
          BY <3>1, SubsetSize
        <5>2. QED
          BY <2>1, <5>1
      <4>2. x \in t \ {p} /\ p \in t \ {x} /\ (t \ {p}) \ {x} = (t \ {x}) \ {p}
        BY <3>1, <3>6
      <4>3. h[t \ {p}] = h[(t \ {p}) \ {x}] + x.amount
        BY <1>2, <3>4, <4>1, <4>2
      <4>4. h[t \ {x}] = h[(t \ {p}) \ {x}] + p.amount
        <5>1. h[t \ {x}] = h[(t \ {x}) \ {p}] + p.amount
          BY <1>2, <3>4, <4>1, <4>2
        <5>2. QED
          BY <4>2, <5>1
      <4>a. PICK a \in Nat : a = h[(t \ {p}) \ {x}]
        BY <3>3, <3>4
      <4>5. QED
        BY <3>1, <3>2, <4>3, <4>4, <4>a
    <3>7. QED
      BY <3>5, <3>6
  <2>2. QED
    BY <2>1
<1>3. ASSUME NEW t \in SUBSET E, NEW x \in t PROVE h[t] = h[t \ {x}] + x.amount
  <2>1. Cardinality(t) \in Nat
    BY SubsetSize
  <2>2. Cardinality(t) \in T
    <3> HIDE DEF T
    <3>1. QED
      BY <1>1, <1>2, <2>1, SetInduction
  <2>3. QED
    BY <2>2
<1>4. QED
  BY <1>3 DEF Additive

\* More events have a greater total, so they exceed the limits too.
LEMMA TotalMonotone ==
  ASSUME NEW E, IsFiniteSet(E), \A x \in E : x.amount \in Nat, NEW A \in SUBSET E
  PROVE  Total(A) \in Nat /\ Total(E) \in Nat /\ Total(A) <= Total(E)
<1>h. PICK h : Sums(E, h)
  BY SumsExist
<1>1. \A t \in SUBSET E : h[t] \in Nat /\ Total(t) = h[t]
  <2>1. \A t \in SUBSET E : h[t] \in Nat
    BY <1>h DEF Sums
  <2>2. \A t \in SUBSET E : Total(t) = h[t]
    BY <1>h, TotalIsSum
  <2>3. QED
    BY <2>1, <2>2
<1>2. \A t \in SUBSET E : \A x \in t : h[t] = h[t \ {x}] + x.amount
  <2>1. Additive(E, h)
    BY <1>h, SumsAdd
  <2>2. QED
    BY <2>1 DEF Additive
<1> DEFINE T == {n \in Nat : \A t \in SUBSET E : A \subseteq t /\ Cardinality(t \ A) = n => h[A] <= h[t]}
<1>3. 0 \in T
  <2>1. ASSUME NEW t \in SUBSET E, A \subseteq t, Cardinality(t \ A) = 0 PROVE h[A] <= h[t]
    <3>1. t \ A = {}
      BY <2>1, SubsetSize
    <3>2. t = A
      BY <2>1, <3>1
    <3>3. QED
      BY <1>1, <3>2
  <2>2. QED
    BY <2>1
<1>4. ASSUME NEW n \in Nat, n \in T PROVE n + 1 \in T
  <2>1. ASSUME NEW t \in SUBSET E, A \subseteq t, Cardinality(t \ A) = n + 1 PROVE h[A] <= h[t]
    <3>1. t \ A # {} /\ t \ A \in SUBSET E
      <4>1. t \ A \in SUBSET E
        OBVIOUS
      <4>2. Cardinality(t \ A) # 0
        BY <2>1
      <4>3. QED
        BY <4>1, <4>2, SubsetSize
    <3>2. PICK x : x \in t \ A
      BY <3>1
    <3>u. PICK u : u = t \ {x}
      OBVIOUS
    <3>3. u \in SUBSET E /\ A \subseteq u /\ u \ A = (t \ A) \ {x} /\ x \in E /\ x \in t
      BY <2>1, <3>2, <3>u
    <3>4. Cardinality((t \ A) \ {x}) = Cardinality(t \ A) - 1
      BY <3>1, <3>2, SubsetSize
    <3>5. Cardinality(u \ A) = n
      <4>c. PICK c : c = Cardinality(t \ A)
        OBVIOUS
      <4>1. c = n + 1 /\ Cardinality(u \ A) = c - 1
        BY <2>1, <3>3, <3>4, <4>c
      <4>2. QED
        BY <4>1
    <3>6. h[A] <= h[u]
      BY <1>4, <3>3, <3>5
    <3>7. h[t] = h[u] + x.amount
      BY <1>2, <3>3, <3>u
    <3>8. h[A] \in Nat /\ h[u] \in Nat /\ x.amount \in Nat
      BY <1>1, <3>3
    <3>9. QED
      BY <3>6, <3>7, <3>8
  <2>2. QED
    BY <2>1
<1>5. E \ A \in SUBSET E /\ E \in SUBSET E
  OBVIOUS
<1>6. Cardinality(E \ A) \in Nat
  BY <1>5, SubsetSize
<1>7. Cardinality(E \ A) \in T
  <2> HIDE DEF T
  <2>1. QED
    BY <1>3, <1>4, <1>6, SetInduction
<1>8. h[A] <= h[E]
  BY <1>5, <1>7
<1>9. QED
  BY <1>1, <1>5, <1>8

LEMMA ExceedsMonotone ==
  ASSUME NEW E, IsFiniteSet(E), \A x \in E : x.amount \in Nat, NEW A \in SUBSET E, Exceeds(A)
  PROVE  Exceeds(E)
<1>1. Cardinality(A) \in Nat /\ Cardinality(E) \in Nat /\ Cardinality(A) <= Cardinality(E)
  BY FS_Subset, FS_CardinalityType
<1>2. Total(A) \in Nat /\ Total(E) \in Nat /\ Total(A) <= Total(E)
  BY TotalMonotone
<1>3. QED
  BY <1>1, <1>2, SplitAssumption DEF Exceeds

-----------------------------------------------------------------------------
(* Clusters *)

OneStep(E, R) == R \cup {f \in E : \E g \in R : Linked(f, g)}

Closed(E, S) == \A g \in S, h \in E : Linked(g, h) => h \in S

LEMMA LinkedSymmetric ==
  ASSUME NEW e, NEW f
  PROVE  Linked(e, f) <=> Linked(f, e)
<1>1. e.marks \cap f.marks = f.marks \cap e.marks
  OBVIOUS
<1>2. QED
  BY <1>1 DEF Linked

LEMMA ClosedStays ==
  ASSUME NEW E, NEW R
  PROVE  Closed(E, R) <=> OneStep(E, R) = R
<1>1. \A f, g : Linked(f, g) <=> Linked(g, f)
  BY LinkedSymmetric
<1>2. QED
  BY <1>1 DEF Closed, OneStep

\* The breadth-first search goes through sets of events of E, each one step
\* from the one before.
LEMMA Search ==
  ASSUME NEW E, IsFiniteSet(E), NEW e \in E
  PROVE  \E r \in [0..Cardinality(E) -> SUBSET E] :
           /\ r[0] = {e}
           /\ \A n \in 1..Cardinality(E) : r[n] = OneStep(E, r[n - 1])
           /\ Cluster(E, e) = r[Cardinality(E)]
<1>n. PICK N \in Nat : N = Cardinality(E)
  BY FS_CardinalityType
<1> DEFINE Step(r) == [n \in 0..N |-> IF n = 0 THEN {e} ELSE OneStep(E, r[n - 1])]
           g == [p \in Nat \X SUBSET E |-> OneStep(E, p[2])]
<1>1. g \in [Nat \X SUBSET E -> SUBSET E]
  BY DEF OneStep
<1>2. PICK f \in [0..N -> SUBSET E] : f[0] = {e} /\ \A n \in 1..N : f[n] = g[<<n, f[n - 1]>>]
  <2>1. {e} \in SUBSET E
    OBVIOUS
  <2>2. PICK V : V = SUBSET E
    OBVIOUS
  <2> HIDE DEF g
  <2>3. g \in [Nat \X V -> V] /\ {e} \in V
    BY <1>1, <2>1, <2>2
  <2>4. \E f : Steps(f, N, V, {e}, g)
    BY <2>3, StepByStep
  <2>5. QED
    BY <2>2, <2>4 DEF Steps
<1>3. \A n \in 1..N : n - 1 \in 0..N /\ n \in Nat
  OBVIOUS
<1>4. \A n \in 1..N : f[n] = OneStep(E, f[n - 1])
  BY <1>2, <1>3
<1>5. f = Step(f)
  <2>1. \A n \in 0..N : n # 0 => n \in 1..N
    OBVIOUS
  <2>2. \A n \in 0..N : f[n] = IF n = 0 THEN {e} ELSE OneStep(E, f[n - 1])
    BY <1>2, <1>4, <2>1
  <2>3. QED
    BY <2>2
<1>6. Cluster(E, e) = (CHOOSE r : r = Step(r))[N]
  BY <1>n DEF Cluster, OneStep
<1>7. PICK r : r = CHOOSE k : k = Step(k)
  OBVIOUS
<1>8. r = Step(r)
  BY <1>5, <1>7
<1>9. r[0] = {e} /\ \A n \in 1..N : r[n] = OneStep(E, r[n - 1])
  <2>1. \A n \in 1..N : n \in 0..N /\ n # 0
    OBVIOUS
  <2>2. 0 \in 0..N
    OBVIOUS
  <2>3. QED
    BY <1>8, <2>1, <2>2
<1>10. r \in [0..N -> SUBSET E]
  <2> DEFINE T == {n \in Nat : n <= N => r[n] \in SUBSET E}
  <2>1. 0 \in T
    BY <1>9
  <2>2. ASSUME NEW n \in Nat, n \in T PROVE n + 1 \in T
    <3>1. CASE n + 1 <= N
      <4>1. n <= N /\ n + 1 \in 1..N /\ (n + 1) - 1 = n
        BY <3>1
      <4>2. r[n] \in SUBSET E /\ r[n + 1] = OneStep(E, r[n])
        BY <1>9, <2>2, <4>1
      <4>3. QED
        BY <4>2 DEF OneStep
    <3>2. QED
      BY <3>1
  <2>3. \A n \in Nat : n \in T
    <3> HIDE DEF T
    <3>1. QED
      BY <2>1, <2>2, SetInduction
  <2>4. \A n \in 0..N : r[n] \in SUBSET E
    BY <2>3
  <2>5. r = [n \in 0..N |-> r[n]]
    BY <1>8
  <2>6. QED
    BY <2>4, <2>5
<1>11. QED
  BY <1>n, <1>6, <1>7, <1>9, <1>10

LEMMA GroupByClosed ==
  ASSUME NEW E, NEW e
  PROVE  LinkedGroup(E, e) = {f \in E : \A S \in SUBSET E : e \in S /\ Closed(E, S) => f \in S}
  BY DEF LinkedGroup, Closed

\* The search finds exactly what is linked to e through others: it never
\* leaves a closed set, and as every step adds an event until nothing is
\* left to add, it has closed after as many steps as there are events.
LEMMA ClusterIsGroup ==
  ASSUME NEW E, IsFiniteSet(E), NEW e \in E
  PROVE  Cluster(E, e) = LinkedGroup(E, e)
<1>n. PICK N \in Nat : N = Cardinality(E)
  BY FS_CardinalityType
<1>1. PICK r \in [0..N -> SUBSET E] :
        /\ r[0] = {e}
        /\ \A n \in 1..N : r[n] = OneStep(E, r[n - 1])
        /\ Cluster(E, e) = r[N]
  BY <1>n, Search
<1>2. ASSUME NEW S \in SUBSET E, e \in S, Closed(E, S) PROVE r[N] \subseteq S
  <2> DEFINE T == {n \in Nat : n <= N => r[n] \subseteq S}
  <2>1. 0 \in T
    BY <1>1, <1>2
  <2>2. ASSUME NEW n \in Nat, n \in T PROVE n + 1 \in T
    <3>1. CASE n + 1 <= N
      <4>1. n <= N /\ n + 1 \in 1..N /\ (n + 1) - 1 = n
        BY <3>1
      <4>2. r[n] \subseteq S /\ r[n + 1] = OneStep(E, r[n])
        BY <1>1, <2>2, <4>1
      <4>3. OneStep(E, S) = S
        BY <1>2, ClosedStays
      <4>4. OneStep(E, r[n]) \subseteq OneStep(E, S)
        BY <4>2 DEF OneStep
      <4>5. QED
        BY <4>2, <4>3, <4>4
    <3>2. QED
      BY <3>1
  <2>3. N \in T
    <3> HIDE DEF T
    <3>1. QED
      BY <2>1, <2>2, SetInduction
  <2>4. QED
    BY <2>3
<1>3. e \in r[N] /\ Closed(E, r[N])
  <2> DEFINE T == {n \in Nat : n <= N => /\ e \in r[n]
                                         /\ Closed(E, r[n]) \/ Cardinality(r[n]) >= n + 1}
  <2>1. 0 \in T
    <3>1. Cardinality({e}) = 1
      BY FS_Singleton
    <3>2. Cardinality(r[0]) = 1 /\ e \in r[0]
      BY <1>1, <3>1, Zenon
    <3>3. PICK c : c = Cardinality(r[0])
      OBVIOUS
    <3>4. c >= 0 + 1
      BY <3>2, <3>3
    <3>5. Cardinality(r[0]) >= 0 + 1
      BY <3>3, <3>4, Zenon
    <3>6. QED
      BY <3>2, <3>5
  <2>2. ASSUME NEW n \in Nat, n \in T PROVE n + 1 \in T
    <3>1. CASE n + 1 <= N
      <4>1. n <= N /\ n + 1 \in 1..N /\ (n + 1) - 1 = n /\ n \in 0..N /\ n + 1 \in 0..N
        BY <3>1
      <4>a. PICK A \in SUBSET E : A = r[n]
        BY <1>1, <4>1
      <4>b. PICK B \in SUBSET E : B = r[n + 1]
        BY <1>1, <4>1
      <4>2. B = OneStep(E, A) /\ e \in A /\ (Closed(E, A) \/ Cardinality(A) >= n + 1)
        BY <1>1, <2>2, <4>1, <4>a, <4>b
      <4>3. e \in B /\ A \subseteq B
        BY <4>2 DEF OneStep
      <4>4. Closed(E, B) \/ Cardinality(B) >= (n + 1) + 1
        <5>1. CASE Closed(E, A)
          BY <4>2, <5>1, ClosedStays
        <5>2. CASE ~Closed(E, A)
          <6>1. A # B
            BY <4>2, <5>2, ClosedStays
          <6>2. IsFiniteSet(B)
            BY FS_Subset
          <6>3. /\ Cardinality(A) \in Nat /\ Cardinality(B) \in Nat /\ Cardinality(A) <= Cardinality(B)
                /\ Cardinality(A) # Cardinality(B)
            BY <4>3, <6>1, <6>2, FS_Subset, FS_CardinalityType
          <6>4. Cardinality(A) >= n + 1
            BY <4>2, <5>2
          <6>5. QED
            BY <6>3, <6>4
        <5>3. QED
          BY <5>1, <5>2
      <4>5. QED
        BY <4>b, <4>3, <4>4
    <3>2. QED
      BY <3>1
  <2>3. N \in T
    <3> HIDE DEF T
    <3>1. QED
      BY <2>1, <2>2, SetInduction
  <2>a. PICK A \in SUBSET E : A = r[N]
    BY <1>1
  <2>4. e \in A /\ (Closed(E, A) \/ Cardinality(A) >= N + 1)
    BY <2>3, <2>a
  <2>5. Cardinality(A) \in Nat /\ Cardinality(A) <= N
    BY <1>n, FS_Subset, FS_CardinalityType
  <2>6. QED
    BY <2>a, <2>4, <2>5
<1>4. r[N] \in SUBSET E
  BY <1>1
<1>5. QED
  BY <1>1, <1>2, <1>3, <1>4, GroupByClosed

LEMMA GroupMonotone ==
  ASSUME NEW E, NEW C \in SUBSET E, NEW e \in C
  PROVE  LinkedGroup(C, e) \subseteq LinkedGroup(E, e)
<1>1. ASSUME NEW f \in LinkedGroup(C, e), NEW S \in SUBSET E, e \in S, Closed(E, S)
      PROVE  f \in S
  <2>1. Closed(C, S \cap C) /\ e \in S \cap C /\ S \cap C \in SUBSET C
    BY <1>1 DEF Closed
  <2>2. QED
    BY <2>1, GroupByClosed
<1>2. LinkedGroup(C, e) \subseteq C
  BY DEF LinkedGroup
<1>3. QED
  BY <1>1, <1>2, GroupByClosed

\* e and the events linked to it are in its group.
LEMMA GroupHolds ==
  ASSUME NEW E, NEW e \in E
  PROVE  /\ e \in LinkedGroup(E, e) /\ LinkedGroup(E, e) \subseteq E
         /\ \A f \in E : Linked(e, f) => f \in LinkedGroup(E, e)
  BY DEF LinkedGroup

-----------------------------------------------------------------------------
(* The windows *)

SplitEvent ==
  [id : Nat, custodian : SplitCustodians, ts : Nat, amount : Nat, marks : SUBSET Marks]

\* Timestamps that never went back, the greatest one at most last.
InOrder(w, last) ==
  /\ \A i \in 1..Len(w) : w[i].ts <= last
  /\ \A i, j \in 1..Len(w) : i < j => w[i].ts <= w[j].ts

\* Eviction drops records that are too old only.
LEMMA EvictEvents ==
  ASSUME NEW w \in Seq(SplitEvent), NEW now \in Nat
  PROVE  /\ Evict(w, now) \in Seq(SplitEvent)
         /\ EventsIn(Evict(w, now)) \subseteq EventsIn(w)
         /\ \A e \in EventsIn(w) : e.ts + WindowLength >= now => e \in EventsIn(Evict(w, now))
<1> DEFINE v == Evict(w, now)
           L == Len(w)
<1>1. L \in Nat /\ DOMAIN w = 1..L
  OBVIOUS
<1>2. PICK k \in 0..L :
        /\ v \in Seq(SplitEvent) /\ Len(v) = L - k
        /\ \A i \in 1..(L - k) : v[i] = w[i + k]
        /\ \A i \in 1..k : ~(w[i].ts + WindowLength >= now)
  BY EvictDrops
<1>3. DOMAIN v = 1..(L - k)
  <2> HIDE DEF v
  <2>1. QED
    BY <1>2
<1> HIDE DEF v, L
<1>4. \A i \in 1..(L - k) : i + k \in 1..L
  BY <1>1
<1>5. EventsIn(v) \subseteq EventsIn(w)
  BY <1>1, <1>2, <1>3, <1>4 DEF EventsIn
<1>6. ASSUME NEW e \in EventsIn(w), e.ts + WindowLength >= now PROVE e \in EventsIn(v)
  <2>1. PICK i \in 1..L : w[i] = e
    BY <1>1 DEF EventsIn
  <2>2. i \notin 1..k
    BY <1>2, <1>6, <2>1
  <2>3. i - k \in 1..(L - k) /\ (i - k) + k = i
    BY <1>1, <2>2
  <2>4. v[i - k] = e
    BY <1>2, <2>1, <2>3
  <2>5. QED
    BY <1>3, <2>3, <2>4 DEF EventsIn
<1>7. QED
  BY <1>2, <1>5, <1>6 DEF v

\* In a window in order, eviction drops every record that is too old.
LEMMA EvictInOrder ==
  ASSUME NEW w \in Seq(SplitEvent), NEW last \in Nat, InOrder(w, last), NEW now \in Nat
  PROVE  /\ InOrder(Evict(w, now), last)
         /\ \A e \in EventsIn(Evict(w, now)) : e.ts <= last /\ e.ts + WindowLength >= now
<1> DEFINE v == Evict(w, now)
           L == Len(w)
<1>t. \A i \in 1..L : w[i] \in SplitEvent
  OBVIOUS
<1>1. L \in Nat /\ WindowLength \in Nat /\ \A i \in 1..L : w[i].ts \in Nat
  <2>1. \A r \in SplitEvent : r.ts \in Nat
    BY DEF SplitEvent
  <2>2. QED
    BY <1>t, <2>1, WindowAssumption
<1>2. PICK k \in 0..L :
        /\ v \in Seq(SplitEvent) /\ Len(v) = L - k
        /\ \A i \in 1..(L - k) : v[i] = w[i + k]
        /\ k < L => w[k + 1].ts + WindowLength >= now
  BY EvictDrops
<1>3. DOMAIN v = 1..Len(v)
  <2> HIDE DEF v
  <2>1. QED
    BY <1>2
<1> HIDE DEF v, L
<1>4. ASSUME NEW i \in 1..Len(v) PROVE v[i].ts <= last /\ v[i].ts + WindowLength >= now
  <2>1. i + k \in 1..L /\ k < L /\ k + 1 \in 1..L /\ v[i] = w[i + k]
    BY <1>1, <1>2
  <2>2. w[i + k].ts <= last /\ w[i + k].ts \in Nat /\ w[k + 1].ts \in Nat
    BY <1>1, <2>1 DEF InOrder, L
  <2>3. w[k + 1].ts <= w[i + k].ts
    <3>1. CASE i = 1
      <4>1. i + k = k + 1
        BY <1>1, <3>1
      <4>2. QED
        BY <2>2, <4>1
    <3>2. CASE i # 1
      <4>1. k + 1 < i + k
        BY <1>1, <1>2, <3>2
      <4>2. QED
        BY <2>1, <4>1 DEF InOrder, L
    <3>3. QED
      BY <3>1, <3>2
  <2>4. w[k + 1].ts + WindowLength >= now
    BY <1>2, <2>1
  <2> DEFINE a == w[k + 1].ts
             b == w[i + k].ts
  <2> HIDE DEF a, b
  <2>5. a \in Nat /\ b \in Nat /\ a <= b /\ b <= last /\ a + WindowLength >= now
    BY <2>2, <2>3, <2>4 DEF a, b
  <2>6. b <= last /\ b + WindowLength >= now
    BY <1>1, <2>5
  <2>7. QED
    BY <2>1, <2>6 DEF b
<1>5. ASSUME NEW i \in 1..Len(v), NEW j \in 1..Len(v), i < j PROVE v[i].ts <= v[j].ts
  <2>1. i + k \in 1..L /\ j + k \in 1..L /\ i + k < j + k
    BY <1>1, <1>2, <1>5
  <2>2. v[i] = w[i + k] /\ v[j] = w[j + k]
    BY <1>2
  <2>3. QED
    BY <2>1, <2>2 DEF InOrder, L
<1>6. QED
  BY <1>3, <1>4, <1>5 DEF InOrder, EventsIn, v

\* A record that is not older than the others goes to the end.
LEMMA AppendEvent ==
  ASSUME NEW w \in Seq(SplitEvent), NEW e \in SplitEvent
  PROVE  /\ Append(w, e) \in Seq(SplitEvent)
         /\ EventsIn(Append(w, e)) = EventsIn(w) \cup {e}
         /\ \A last \in Nat : /\ InOrder(w, last) /\ e.ts <= last
                              /\ \A f \in EventsIn(w) : f.ts <= e.ts
                              => InOrder(Append(w, e), last)
<1> DEFINE v == Append(w, e)
           L == Len(w)
<1>1. L \in Nat /\ DOMAIN w = 1..L /\ v \in Seq(SplitEvent) /\ Len(v) = L + 1 /\ DOMAIN v = 1..(L + 1)
      /\ v[L + 1] = e /\ \A i \in 1..L : v[i] = w[i]
  OBVIOUS
<1> HIDE DEF v, L
<1>2. \A i \in 1..(L + 1) : i = L + 1 \/ i \in 1..L
  BY <1>1
<1>3. \A i \in 1..L : i \in 1..(L + 1) /\ i # L + 1
  BY <1>1
<1>4. L + 1 \in 1..(L + 1)
  BY <1>1
<1>5. EventsIn(v) = EventsIn(w) \cup {e}
  BY <1>1, <1>2, <1>3, <1>4 DEF EventsIn
<1>6. ASSUME NEW last \in Nat, InOrder(w, last), e.ts <= last, \A f \in EventsIn(w) : f.ts <= e.ts
      PROVE  InOrder(v, last)
  <2>1. \A i \in 1..(L + 1) : v[i].ts <= last
    BY <1>1, <1>2, <1>6 DEF InOrder, L
  <2>2. ASSUME NEW i \in 1..(L + 1), NEW j \in 1..(L + 1), i < j PROVE v[i].ts <= v[j].ts
    <3>1. i \in 1..L
      BY <1>1, <2>2
    <3>2. CASE j = L + 1
      <4>1. w[i] \in EventsIn(w)
        BY <1>1, <3>1 DEF EventsIn
      <4>2. QED
        BY <1>1, <1>6, <3>1, <3>2, <4>1
    <3>3. CASE j \in 1..L
      BY <1>1, <1>6, <2>2, <3>1, <3>3 DEF InOrder, L
    <3>4. QED
      BY <1>2, <3>2, <3>3
  <2>3. QED
    BY <1>1, <2>1, <2>2 DEF InOrder
<1>7. QED
  BY <1>1, <1>5, <1>6 DEF v

\* clear_custodian keeps the records of the others in their order.
Keep(w, c, s, n) == IF w[n].custodian = c THEN s ELSE Append(s, w[n])

LEMMA Keeping ==
  ASSUME NEW w \in Seq(SplitEvent), NEW c, NEW N \in Nat, N = Len(w)
  PROVE  \E r : /\ Without(w, c) = r[N]
                /\ r[0] = <<>>
                /\ \A n \in 1..N : r[n] = Keep(w, c, r[n - 1], n)
<1> DEFINE Step(r) == [n \in 0..N |-> IF n = 0 THEN <<>> ELSE Keep(w, c, r[n - 1], n)]
           g == [p \in Nat \X Seq(SplitEvent) |->
                   IF p[1] \in 1..N THEN Keep(w, c, p[2], p[1]) ELSE <<>>]
<1>1. g \in [Nat \X Seq(SplitEvent) -> Seq(SplitEvent)]
  <2>1. ASSUME NEW n \in 1..N, NEW s \in Seq(SplitEvent) PROVE Keep(w, c, s, n) \in Seq(SplitEvent)
    <3>1. w[n] \in SplitEvent
      OBVIOUS
    <3>2. Append(s, w[n]) \in Seq(SplitEvent)
      BY <3>1
    <3>3. QED
      BY <3>2 DEF Keep
  <2>2. <<>> \in Seq(SplitEvent)
    OBVIOUS
  <2>3. PICK V : V = Seq(SplitEvent)
    OBVIOUS
  <2>4. \A p \in Nat \X V : p[2] \in V
    OBVIOUS
  <2>5. \A p \in Nat \X V : (IF p[1] \in 1..N THEN Keep(w, c, p[2], p[1]) ELSE <<>>) \in V
    BY <2>1, <2>2, <2>3, <2>4
  <2>6. QED
    BY <2>3, <2>5
<1>2. PICK f \in [0..N -> Seq(SplitEvent)] :
        f[0] = <<>> /\ \A n \in 1..N : f[n] = g[<<n, f[n - 1]>>]
  <2>1. PICK V : V = Seq(SplitEvent)
    OBVIOUS
  <2>2. PICK v : v = <<>>
    BY Zenon
  <2> HIDE DEF g
  <2>3. g \in [Nat \X V -> V] /\ v \in V
    BY <1>1, <2>1, <2>2
  <2>4. \E f : Steps(f, N, V, v, g)
    BY <2>3, StepByStep
  <2>5. QED
    BY <2>1, <2>2, <2>4 DEF Steps
<1>3. \A n \in 1..N : n - 1 \in 0..N /\ n \in Nat
  OBVIOUS
<1>4. \A n \in 1..N : f[n] = Keep(w, c, f[n - 1], n)
  <2>1. ASSUME NEW n \in 1..N PROVE f[n] = Keep(w, c, f[n - 1], n)
    <3>1. PICK p \in Nat \X Seq(SplitEvent) : p = <<n, f[n - 1]>>
      BY <1>2, <1>3
    <3>2. p[1] = n /\ p[2] = f[n - 1]
      BY <3>1
    <3>3. QED
      BY <1>2, <3>1, <3>2
  <2>2. QED
    BY <2>1
<1>5. f = Step(f)
  <2>1. \A n \in 0..N : n # 0 => n \in 1..N
    OBVIOUS
  <2>2. \A n \in 0..N : f[n] = IF n = 0 THEN <<>> ELSE Keep(w, c, f[n - 1], n)
    BY <1>2, <1>4, <2>1
  <2>3. QED
    BY <2>2
<1>6. Without(w, c) = (CHOOSE r : r = Step(r))[N]
  BY DEF Without, Keep
<1>7. PICK r : r = CHOOSE k : k = Step(k)
  OBVIOUS
<1>8. r = Step(r)
  BY <1>5, <1>7
<1>9. r[0] = <<>> /\ \A n \in 1..N : r[n] = Keep(w, c, r[n - 1], n)
  <2>1. \A n \in 1..N : n \in 0..N /\ n # 0
    OBVIOUS
  <2>2. 0 \in 0..N
    OBVIOUS
  <2>3. QED
    BY <1>8, <2>1, <2>2
<1>10. QED
  BY <1>6, <1>7, <1>9

LEMMA WithoutKeeps ==
  ASSUME NEW w \in Seq(SplitEvent), NEW c
  PROVE  /\ Without(w, c) \in Seq(SplitEvent)
         /\ EventsIn(Without(w, c)) = {e \in EventsIn(w) : e.custodian # c}
         /\ \A last \in Nat : InOrder(w, last) => InOrder(Without(w, c), last)
<1>n. PICK N \in Nat : N = Len(w)
  OBVIOUS
<1>w. DOMAIN w = 1..N /\ \A n \in 1..N : w[n] \in SplitEvent
  BY <1>n
<1>1. PICK r : /\ Without(w, c) = r[N]
               /\ r[0] = <<>>
               /\ \A n \in 1..N : r[n] = Keep(w, c, r[n - 1], n)
  BY <1>n, Keeping
<1> DEFINE Kept(n) == {w[i] : i \in {j \in 1..n : w[j].custodian # c}}
           T == {n \in Nat : n <= N =>
                   /\ r[n] \in Seq(SplitEvent)
                   /\ EventsIn(r[n]) = Kept(n)
                   /\ \A last \in Nat : InOrder(w, last) => InOrder(r[n], last)}
<1>2. 0 \in T
  <2>1. <<>> \in Seq(SplitEvent) /\ EventsIn(<<>>) = {} /\ \A last \in Nat : InOrder(<<>>, last)
    BY DEF EventsIn, InOrder
  <2>2. Kept(0) = {}
    OBVIOUS
  <2> HIDE DEF Kept
  <2>3. QED
    BY <1>1, <2>1, <2>2
<1>3. ASSUME NEW n \in Nat, n \in T PROVE n + 1 \in T
  <2> SUFFICES ASSUME n + 1 <= N
               PROVE  /\ r[n + 1] \in Seq(SplitEvent)
                      /\ EventsIn(r[n + 1]) = Kept(n + 1)
                      /\ \A last \in Nat : InOrder(w, last) => InOrder(r[n + 1], last)
    OBVIOUS
  <2>1. n <= N /\ n + 1 \in 1..N /\ (n + 1) - 1 = n /\ \A i \in 1..n : i \in 1..N /\ i < n + 1
    OBVIOUS
  <2>2. PICK s \in Seq(SplitEvent) : s = r[n]
    BY <1>3, <2>1
  <2>3. PICK e \in SplitEvent : e = w[n + 1]
    BY <1>w, <2>1
  <2>4. /\ EventsIn(s) = Kept(n)
        /\ \A last \in Nat : InOrder(w, last) => InOrder(s, last)
    BY <1>3, <2>1, <2>2
  <2>5. r[n + 1] = IF e.custodian = c THEN s ELSE Append(s, e)
    BY <1>1, <2>1, <2>2, <2>3 DEF Keep
  <2>6. \A i \in 1..(n + 1) : i \in 1..n \/ i = n + 1
    OBVIOUS
  <2>7. \A i \in 1..n : i \in 1..(n + 1)
    OBVIOUS
  <2>8. Kept(n + 1) = IF e.custodian = c THEN Kept(n) ELSE Kept(n) \cup {e}
    BY <2>3, <2>6, <2>7
  <2>9. CASE e.custodian = c
    <3> HIDE DEF Kept
    <3>1. QED
      BY <2>2, <2>4, <2>5, <2>8, <2>9
  <2>10. CASE e.custodian # c
    <3>1. ASSUME NEW last \in Nat, InOrder(w, last) PROVE InOrder(Append(s, e), last)
      <4>1. e.ts <= last
        BY <1>n, <2>1, <2>3, <3>1 DEF InOrder
      <4>2. \A f \in Kept(n) : f.ts <= e.ts
        BY <1>n, <2>1, <2>3, <3>1 DEF InOrder
      <4> HIDE DEF Kept
      <4>3. QED
        BY <2>4, <3>1, <4>1, <4>2, AppendEvent
    <3>2. Append(s, e) \in Seq(SplitEvent) /\ EventsIn(Append(s, e)) = EventsIn(s) \cup {e}
      BY AppendEvent
    <3> HIDE DEF Kept
    <3>3. QED
      BY <2>4, <2>5, <2>8, <2>10, <3>1, <3>2
  <2>11. QED
    BY <2>9, <2>10
<1>4. N \in T
  <2> HIDE DEF T
  <2>1. QED
    BY <1>2, <1>3, SetInduction
<1>5. Kept(N) = {e \in EventsIn(w) : e.custodian # c}
  BY <1>w DEF EventsIn
<1> HIDE DEF Kept
<1>6. QED
  BY <1>1, <1>4, <1>5

-----------------------------------------------------------------------------
(* The verdict *)

LEMMA EventsFinite ==
  ASSUME NEW w \in Seq(SplitEvent)
  PROVE  /\ IsFiniteSet(EventsIn(w)) /\ EventsIn(w) \subseteq SplitEvent
         /\ \A x \in EventsIn(w) : x.amount \in Nat
<1>n. PICK N \in Nat : N = Len(w)
  OBVIOUS
<1>1. DOMAIN w = 1..N /\ w \in [1..N -> EventsIn(w)]
  BY <1>n DEF EventsIn
<1>2. IsFiniteSet(1..N)
  BY FS_Interval
<1>3. w \in Surjection(1..N, EventsIn(w))
  BY <1>1 DEF EventsIn, Surjection
<1>4. IsFiniteSet(EventsIn(w))
  BY <1>2, <1>3, FS_Surjection
<1>5. EventsIn(w) \subseteq SplitEvent
  BY <1>n DEF EventsIn
<1>6. QED
  BY <1>4, <1>5 DEF SplitEvent

\* A set counts more than one custodian exactly if two of its events differ.
LEMMA SeveralCustodians ==
  ASSUME NEW G, IsFiniteSet(G), NEW e \in G
  PROVE  Cardinality({f.custodian : f \in G}) > 1 <=> \E f, g \in G : f.custodian # g.custodian
<1> DEFINE K == {f.custodian : f \in G}
           h == [f \in G |-> f.custodian]
<1>1. h \in Surjection(G, K)
  BY DEF Surjection
<1>2. IsFiniteSet(K) /\ e.custodian \in K
  BY <1>1, FS_Surjection
<1>3. (\E f, g \in G : f.custodian # g.custodian) <=> (\E a, b \in K : a # b)
  OBVIOUS
<1> HIDE DEF K, h
<1>4. (\E a, b \in K : a # b) <=> K # {e.custodian}
  BY <1>2
<1>5. Cardinality(K) = 1 <=> \E x : K = {x}
  BY <1>2, FS_Singleton
<1>6. (\E x : K = {x}) <=> K = {e.custodian}
  BY <1>2
<1>7. Cardinality(K) \in Nat /\ Cardinality(K) # 0
  BY <1>2, FS_CardinalityType, FS_EmptySet
<1>8. PICK n \in Nat : n = Cardinality(K)
  BY <1>7
<1>9. n > 1 <=> n # 1
  BY <1>7, <1>8
<1>10. Cardinality(K) > 1 <=> Cardinality(K) # 1
  BY <1>8, <1>9
<1>11. QED
  BY <1>3, <1>4, <1>5, <1>6, <1>10 DEF K

\* What SplitAlertExact says of a verdict v about an event with group G.
AlertOK(v, G, ord) ==
  /\ Exceeds(G) => v.alert # "none"
  /\ ord /\ v.alert # "none" =>
       /\ Exceeds(G)
       /\ v.group = G
       /\ v.smurfing <=> \E e, f \in G : e.custodian # f.custodian

\* A tenant's window that holds the current events C decides at least what
\* they decide; if it holds no others and the custodian's own events are among
\* them, exactly that.
LEMMA VerdictOK ==
  ASSUME NEW own \in Seq(SplitEvent), NEW all \in Seq(SplitEvent),
         NEW C, C \subseteq EventsIn(all), NEW e \in C, e \in EventsIn(own),
         NEW ord \in BOOLEAN,
         ord => EventsIn(all) \subseteq C /\ EventsIn(own) \subseteq C,
         ord => \A f \in EventsIn(own) : Linked(e, f)
  PROVE  Verdict(e, own, all).event = e
         /\ AlertOK(Verdict(e, own, all), LinkedGroup(C, e), ord)
<1> DEFINE A == EventsIn(all)
           O == EventsIn(own)
           G == LinkedGroup(C, e)
           H == LinkedGroup(A, e)
           v == Verdict(e, own, all)
<1>1. /\ IsFiniteSet(A) /\ IsFiniteSet(O)
      /\ \A x \in A : x.amount \in Nat
      /\ \A x \in O : x.amount \in Nat
  BY EventsFinite
<1>2. Cluster(A, e) = H /\ e \in H /\ H \subseteq A
  BY <1>1, ClusterIsGroup, GroupHolds
<1>3. G \subseteq H /\ e \in G /\ G \subseteq C
  BY GroupMonotone, GroupHolds
<1>4. IsFiniteSet(H) /\ \A x \in H : x.amount \in Nat
  BY <1>1, <1>2, FS_Subset
<1>5. ord => O \subseteq G /\ G = H
  <2>1. \A f \in C : Linked(e, f) => f \in G
    BY GroupHolds
  <2>2. ord => A = C
    OBVIOUS
  <2>3. QED
    BY <2>1, <2>2
<1>6. v = IF Len(all) >= 2 /\ Exceeds(H)
          THEN [alert |-> "cluster", event |-> e, group |-> H,
                smurfing |-> Cardinality({f.custodian : f \in H}) > 1]
          ELSE IF Exceeds(O)
          THEN [alert |-> "window", event |-> e, group |-> O, smurfing |-> FALSE]
          ELSE [alert |-> "none", event |-> e]
  BY <1>2 DEF Verdict
<1>7. Cardinality({f.custodian : f \in H}) > 1 <=> \E f, g \in H : f.custodian # g.custodian
  BY <1>2, <1>4, SeveralCustodians
<1>8. ~(Len(all) >= 2) => A = {e}
  <2>1. PICK N \in Nat : N = Len(all) /\ DOMAIN all = 1..N
    OBVIOUS
  <2>2. ~(N >= 2) => \A i \in 1..N : i = 1
    BY <2>1
  <2>3. ~(N >= 2) => \A x, y \in A : x = y
    BY <2>1, <2>2 DEF EventsIn
  <2>4. e \in A
    OBVIOUS
  <2> HIDE DEF A
  <2>5. QED
    BY <2>1, <2>3, <2>4
<1>9. Exceeds(G) => Exceeds(H)
  <2> HIDE DEF G, H
  <2>1. QED
    BY <1>3, <1>4, ExceedsMonotone
<1>10. ord /\ Exceeds(O) => Exceeds(H)
  <2> HIDE DEF O, H, G
  <2>1. QED
    BY <1>4, <1>5, ExceedsMonotone
<1>11. ~(Len(all) >= 2) /\ Exceeds(G) => Exceeds(O)
  <2>1. ~(Len(all) >= 2) => G \subseteq O
    BY <1>2, <1>3, <1>8
  <2> HIDE DEF O, H, G
  <2>2. QED
    BY <1>1, <2>1, ExceedsMonotone
<1>12. ord /\ ~(Len(all) >= 2) => O = {e} /\ G = {e}
  BY <1>3, <1>5, <1>8
<1> HIDE DEF A, O, G, H, v
<1>13. CASE Len(all) >= 2 /\ Exceeds(H)
  <2>1. /\ v.alert = "cluster" /\ v.event = e /\ v.group = H
        /\ v.smurfing = (Cardinality({f.custodian : f \in H}) > 1)
    BY <1>6, <1>13
  <2>2. QED
    BY <1>5, <1>7, <1>13, <2>1 DEF AlertOK, v, G
<1>14. CASE ~(Len(all) >= 2 /\ Exceeds(H)) /\ Exceeds(O)
  <2>1. v.alert = "window" /\ v.event = e /\ v.group = O /\ v.smurfing = FALSE
    BY <1>6, <1>14
  <2>2. ord => ~(Len(all) >= 2)
    BY <1>10, <1>14
  <2>3. ord => v.group = G /\ Exceeds(G) /\ G = {e}
    BY <1>12, <1>14, <2>1, <2>2
  <2>4. ord => ~ \E f, g \in G : f.custodian # g.custodian
    BY <2>3
  <2>5. QED
    BY <2>1, <2>3, <2>4 DEF AlertOK, v, G
<1>15. CASE ~(Len(all) >= 2 /\ Exceeds(H)) /\ ~Exceeds(O)
  <2>1. v.alert = "none" /\ v.event = e
    BY <1>6, <1>15
  <2>2. ~Exceeds(G)
    BY <1>9, <1>11, <1>15
  <2>3. QED
    BY <2>1, <2>2 DEF AlertOK, v, G
<1>16. QED
  BY <1>13, <1>14, <1>15

-----------------------------------------------------------------------------
(* The detector *)

\* A custodian's window w: events E of the custodian only.
OwnWindow(w, c, E, last, ord) ==
  /\ w \in Seq(SplitEvent)
  /\ \A e \in EventsIn(w) : e \in E /\ e.custodian = c
  /\ ord => InOrder(w, last)

\* The tenant's window w: events E, none of the last window missing.
TenantWindow(w, E, last, ord) ==
  /\ w \in Seq(SplitEvent)
  /\ EventsIn(w) \subseteq E
  /\ \A e \in E : e.ts + WindowLength >= last => e \in EventsIn(w)
  /\ ord => InOrder(w, last)

SplitInv ==
  /\ counted \in Nat /\ newest \in Nat /\ ordered \in BOOLEAN
  /\ eventsKept \subseteq SplitEvent
  /\ TenantWindow(tenantWindow, eventsKept, newest, ordered)
  /\ DOMAIN custodianWindow = SplitCustodians
  /\ \A c \in SplitCustodians : OwnWindow(custodianWindow[c], c, eventsKept, newest, ordered)
  /\ SplitAlertExact

LEMMA EmptyEvents ==
  ASSUME NEW w, w = <<>>
  PROVE  w \in Seq(SplitEvent) /\ EventsIn(w) = {} /\ \A last : InOrder(w, last)
<1>1. w \in Seq(SplitEvent) /\ Len(w) = 0 /\ DOMAIN w = {}
  OBVIOUS
<1>2. QED
  BY <1>1 DEF EventsIn, InOrder

LEMMA LaterInOrder ==
  ASSUME NEW w \in Seq(SplitEvent), NEW last \in Nat, InOrder(w, last), NEW next \in Nat, next >= last
  PROVE  InOrder(w, next)
<1>1. \A i \in 1..Len(w) : w[i] \in SplitEvent
  OBVIOUS
<1>2. \A i \in 1..Len(w) : w[i].ts \in Nat
  BY <1>1 DEF SplitEvent
<1>3. ASSUME NEW i \in 1..Len(w) PROVE w[i].ts <= next
  <2>1. PICK t \in Nat : t = w[i].ts
    BY <1>2
  <2>2. t <= last
    BY <2>1 DEF InOrder
  <2>3. t <= next
    BY <2>2
  <2>4. QED
    BY <2>1, <2>3
<1>4. QED
  BY <1>3 DEF InOrder

\* Evicting at a time now, with next the greatest time from then on.
LEMMA EvictTenant ==
  ASSUME NEW w, NEW E, E \subseteq SplitEvent, NEW last \in Nat, NEW ord \in BOOLEAN,
         TenantWindow(w, E, last, ord), NEW now \in Nat, NEW next \in Nat,
         next >= last, next >= now, NEW still \in BOOLEAN, still => ord
  PROVE  TenantWindow(Evict(w, now), E, next, still)
<1>1. w \in Seq(SplitEvent)
  BY DEF TenantWindow
<1>2. /\ Evict(w, now) \in Seq(SplitEvent)
      /\ EventsIn(Evict(w, now)) \subseteq EventsIn(w)
      /\ \A e \in EventsIn(w) : e.ts + WindowLength >= now => e \in EventsIn(Evict(w, now))
  BY <1>1, EvictEvents
<1>3. ASSUME NEW e \in E, e.ts + WindowLength >= next PROVE e \in EventsIn(Evict(w, now))
  <2>1. e.ts \in Nat /\ WindowLength \in Nat
    BY WindowAssumption DEF SplitEvent
  <2>2. e.ts + WindowLength >= last /\ e.ts + WindowLength >= now
    BY <1>3, <2>1
  <2>3. QED
    BY <1>2, <2>2 DEF TenantWindow
<1>4. still => InOrder(Evict(w, now), next)
  <2> SUFFICES ASSUME still PROVE InOrder(Evict(w, now), next)
    OBVIOUS
  <2>1. InOrder(Evict(w, now), last)
    BY <1>1, EvictInOrder DEF TenantWindow
  <2>2. QED
    BY <1>2, <2>1, LaterInOrder
<1>5. QED
  BY <1>2, <1>3, <1>4 DEF TenantWindow

LEMMA OwnLater ==
  ASSUME NEW w, NEW c, NEW E, NEW last \in Nat, NEW ord \in BOOLEAN, OwnWindow(w, c, E, last, ord),
         NEW F, E \subseteq F, NEW next \in Nat, next >= last, NEW still \in BOOLEAN, still => ord
  PROVE  OwnWindow(w, c, F, next, still)
<1>1. w \in Seq(SplitEvent)
  BY DEF OwnWindow
<1>2. still => InOrder(w, next)
  BY <1>1, LaterInOrder DEF OwnWindow
<1>3. QED
  BY <1>1, <1>2 DEF OwnWindow

LEMMA EvictOwn ==
  ASSUME NEW w, NEW c, NEW E, NEW last \in Nat, NEW ord \in BOOLEAN, OwnWindow(w, c, E, last, ord),
         NEW now \in Nat
  PROVE  OwnWindow(Evict(w, now), c, E, last, ord)
<1>1. w \in Seq(SplitEvent)
  BY DEF OwnWindow
<1>2. Evict(w, now) \in Seq(SplitEvent) /\ EventsIn(Evict(w, now)) \subseteq EventsIn(w)
  BY <1>1, EvictEvents
<1>3. ord => InOrder(Evict(w, now), last)
  BY <1>1, EvictInOrder DEF OwnWindow
<1>4. QED
  BY <1>2, <1>3 DEF OwnWindow

LEMMA NoVerdictOK ==
  ASSUME verdict' = NoVerdict
  PROVE  SplitAlertExact'
  BY DEF SplitAlertExact, NoVerdict

LEMMA GetClustersKeeps ==
  ASSUME SplitInv, NEW now \in Times, GetClusters(now)
  PROVE  SplitInv'
<1>1. now \in Nat /\ newest \in Nat /\ newest' \in Nat /\ newest' >= newest /\ newest' >= now
  BY WindowAssumption DEF SplitInv, GetClusters
<1>2. ordered' \in BOOLEAN /\ (ordered' => ordered) /\ ordered \in BOOLEAN
  BY DEF SplitInv, GetClusters
<1>3. TenantWindow(tenantWindow', eventsKept', newest', ordered')
  <2>1. TenantWindow(Evict(tenantWindow, now), eventsKept, newest', ordered')
    BY <1>1, <1>2, EvictTenant DEF SplitInv
  <2>2. QED
    BY <2>1 DEF GetClusters
<1>4. ASSUME NEW c \in SplitCustodians
      PROVE  OwnWindow(custodianWindow'[c], c, eventsKept', newest', ordered')
  <2>1. OwnWindow(custodianWindow[c], c, eventsKept, newest', ordered')
    BY <1>1, <1>2, OwnLater DEF SplitInv
  <2>2. QED
    BY <2>1 DEF GetClusters
<1>5. SplitAlertExact'
  BY NoVerdictOK DEF GetClusters
<1>6. QED
  BY <1>1, <1>2, <1>3, <1>4, <1>5 DEF SplitInv, GetClusters

LEMMA WindowSumKeeps ==
  ASSUME SplitInv, NEW d \in SplitCustodians, NEW now \in Times, WindowSum(d, now)
  PROVE  SplitInv'
<1>1. now \in Nat /\ newest \in Nat /\ ordered \in BOOLEAN
  BY WindowAssumption DEF SplitInv
<1>2. ASSUME NEW c \in SplitCustodians
      PROVE  OwnWindow(custodianWindow'[c], c, eventsKept, newest, ordered)
  <2>1. OwnWindow(custodianWindow[c], c, eventsKept, newest, ordered)
    BY DEF SplitInv
  <2>2. OwnWindow(Evict(custodianWindow[c], now), c, eventsKept, newest, ordered)
    BY <1>1, <2>1, EvictOwn
  <2>3. custodianWindow'[c] = IF c = d THEN Evict(custodianWindow[c], now) ELSE custodianWindow[c]
    BY DEF WindowSum, SplitInv
  <2>4. QED
    BY <2>1, <2>2, <2>3
<1>3. SplitAlertExact'
  BY NoVerdictOK DEF WindowSum
<1>4. DOMAIN custodianWindow' = SplitCustodians
  BY DEF WindowSum, SplitInv
<1>5. QED
  BY <1>2, <1>3, <1>4 DEF SplitInv, WindowSum

LEMMA ClearSplitKeeps ==
  ASSUME SplitInv, NEW d \in SplitCustodians, ClearSplitCustodian(d)
  PROVE  SplitInv'
<1>1. newest \in Nat /\ ordered \in BOOLEAN /\ tenantWindow \in Seq(SplitEvent)
  BY DEF SplitInv, TenantWindow
<1>2. eventsKept' = {e \in eventsKept : e.custodian # d} /\ tenantWindow' = Without(tenantWindow, d)
  BY DEF ClearSplitCustodian
<1>3. /\ Without(tenantWindow, d) \in Seq(SplitEvent)
      /\ EventsIn(Without(tenantWindow, d)) = {e \in EventsIn(tenantWindow) : e.custodian # d}
      /\ ordered => InOrder(Without(tenantWindow, d), newest)
  BY <1>1, WithoutKeeps DEF SplitInv, TenantWindow
<1>4. TenantWindow(tenantWindow', eventsKept', newest, ordered)
  BY <1>2, <1>3 DEF SplitInv, TenantWindow
<1>5. ASSUME NEW c \in SplitCustodians
      PROVE  OwnWindow(custodianWindow'[c], c, eventsKept', newest, ordered)
  <2>1. OwnWindow(custodianWindow[c], c, eventsKept, newest, ordered)
    BY DEF SplitInv
  <2>2. CASE c = d
    <3>1. custodianWindow'[c] = <<>>
      BY <2>2 DEF ClearSplitCustodian, SplitInv
    <3>2. QED
      BY <3>1, EmptyEvents DEF OwnWindow
  <2>3. CASE c # d
    <3>1. custodianWindow'[c] = custodianWindow[c]
      BY <2>3 DEF ClearSplitCustodian, SplitInv
    <3>2. QED
      BY <1>2, <2>1, <2>3, <3>1 DEF OwnWindow
  <2>4. QED
    BY <2>2, <2>3
<1>6. SplitAlertExact'
  BY NoVerdictOK DEF ClearSplitCustodian
<1>7. DOMAIN custodianWindow' = SplitCustodians
  BY DEF ClearSplitCustodian, SplitInv
<1>8. QED
  BY <1>2, <1>4, <1>5, <1>6, <1>7 DEF SplitInv, ClearSplitCustodian

LEMMA ClearTenantKeeps ==
  ASSUME SplitInv, ClearTenant
  PROVE  SplitInv'
<1>1. tenantWindow' = <<>> /\ eventsKept' = {} /\ newest' = 0 /\ ordered' = TRUE
      /\ \A c \in SplitCustodians : custodianWindow'[c] = <<>>
  BY DEF ClearTenant
<1>2. TenantWindow(tenantWindow', eventsKept', newest', ordered')
  BY <1>1, EmptyEvents DEF TenantWindow
<1>3. \A c \in SplitCustodians : OwnWindow(custodianWindow'[c], c, eventsKept', newest', ordered')
  <2>1. ASSUME NEW c \in SplitCustodians
        PROVE  OwnWindow(custodianWindow'[c], c, eventsKept', newest', ordered')
    <3>1. PICK w : w = custodianWindow'[c]
      OBVIOUS
    <3>2. w = <<>>
      BY <1>1, <3>1
    <3>3. QED
      BY <3>1, <3>2, EmptyEvents DEF OwnWindow
  <2>2. QED
    BY <2>1
<1>4. SplitAlertExact'
  BY NoVerdictOK DEF ClearTenant
<1>5. counted' \in Nat /\ newest' \in Nat /\ ordered' \in BOOLEAN /\ eventsKept' \subseteq SplitEvent
  <2>1. counted' \in Nat /\ newest' \in Nat /\ eventsKept' \subseteq SplitEvent
    BY <1>1 DEF SplitInv, ClearTenant
  <2>2. ordered' \in BOOLEAN
    BY <1>1
  <2>3. QED
    BY <2>1, <2>2
<1>6. DOMAIN custodianWindow' = SplitCustodians
  BY DEF ClearTenant
<1>7. QED
  BY <1>2, <1>3, <1>4, <1>5, <1>6 DEF SplitInv

LEMMA RecordEventKeeps ==
  ASSUME SplitInv, NEW d \in SplitCustodians, NEW now \in Times, NEW amount \in EventAmounts,
         NEW marks \in SUBSET Marks, RecordEvent(d, now, amount, marks)
  PROVE  SplitInv'
<1>1. PICK e : e = [id |-> counted + 1, custodian |-> d, ts |-> now,
                    amount |-> amount, marks |-> marks]
  OBVIOUS
<1>2. PICK ownLeft : ownLeft = Evict(custodianWindow[d], now)
  OBVIOUS
<1>3. PICK left : left = Evict(tenantWindow, now)
  OBVIOUS
<1>4. PICK own : own = Append(ownLeft, e)
  OBVIOUS
<1>5. PICK all : all = Append(left, e)
  OBVIOUS
<1>6. /\ counted' = counted + 1
      /\ custodianWindow' = [custodianWindow EXCEPT ![d] = own]
      /\ tenantWindow' = all
      /\ eventsKept' = eventsKept \cup {e}
      /\ newest' = IF now > newest THEN now ELSE newest
      /\ ordered' = (ordered /\ now >= newest)
      /\ verdict' = Verdict(e, own, all)
  BY <1>1, <1>2, <1>3, <1>4, <1>5 DEF RecordEvent
<1>7. /\ now \in Nat /\ newest \in Nat /\ newest' \in Nat /\ newest' >= newest /\ newest' >= now
      /\ (ordered' => newest' = now)
  <2>1. now \in Nat /\ newest \in Nat
    BY WindowAssumption DEF SplitInv
  <2>2. newest' \in Nat /\ newest' >= newest /\ newest' >= now
    BY <1>6, <2>1
  <2>3. now >= newest => newest' = now
    BY <1>6, <2>1
  <2>4. ordered' => now >= newest
    BY <1>6
  <2>5. QED
    BY <2>1, <2>2, <2>3, <2>4
<1>8. ordered' \in BOOLEAN /\ (ordered' => ordered) /\ ordered \in BOOLEAN
  BY <1>6 DEF SplitInv
<1>9. e \in SplitEvent /\ e.ts = now /\ e.custodian = d /\ e.amount = amount
  BY <1>1, <1>7, SplitAssumption DEF SplitInv, SplitEvent
<1>10. eventsKept \subseteq SplitEvent /\ eventsKept' \subseteq SplitEvent
  BY <1>6, <1>9 DEF SplitInv
<1>11. WindowLength \in Nat /\ \A f \in SplitEvent : f.ts \in Nat
  BY WindowAssumption DEF SplitEvent
<1>12. /\ left \in Seq(SplitEvent) /\ EventsIn(left) \subseteq eventsKept
       /\ \A f \in eventsKept : f.ts + WindowLength >= newest' => f \in EventsIn(left)
       /\ ordered' => InOrder(left, now)
  <2>1. TenantWindow(left, eventsKept, newest', ordered')
    BY <1>3, <1>7, <1>8, <1>10, EvictTenant DEF SplitInv
  <2>2. QED
    BY <1>7, <2>1 DEF TenantWindow
<1>13. ordered' => \A f \in EventsIn(left) : f.ts <= now /\ f.ts + WindowLength >= now
  <2> SUFFICES ASSUME ordered' PROVE \A f \in EventsIn(left) : f.ts <= now /\ f.ts + WindowLength >= now
    OBVIOUS
  <2>1. tenantWindow \in Seq(SplitEvent) /\ InOrder(tenantWindow, newest)
    BY <1>8 DEF SplitInv, TenantWindow
  <2>2. InOrder(tenantWindow, now)
    BY <1>7, <2>1, LaterInOrder
  <2>3. QED
    BY <1>3, <1>7, <2>1, <2>2, EvictInOrder
<1>14. /\ ownLeft \in Seq(SplitEvent)
       /\ \A f \in EventsIn(ownLeft) : f \in eventsKept /\ f.custodian = d
  <2>1. OwnWindow(ownLeft, d, eventsKept, newest, ordered)
    BY <1>2, <1>7, <1>8, EvictOwn DEF SplitInv
  <2>2. QED
    BY <2>1 DEF OwnWindow
<1>15. ordered' => /\ InOrder(ownLeft, now)
                   /\ \A f \in EventsIn(ownLeft) : f.ts <= now /\ f.ts + WindowLength >= now
  <2> SUFFICES ASSUME ordered'
               PROVE  /\ InOrder(ownLeft, now)
                      /\ \A f \in EventsIn(ownLeft) : f.ts <= now /\ f.ts + WindowLength >= now
    OBVIOUS
  <2>1. custodianWindow[d] \in Seq(SplitEvent) /\ InOrder(custodianWindow[d], newest)
    BY <1>8 DEF SplitInv, OwnWindow
  <2>2. InOrder(custodianWindow[d], now)
    BY <1>7, <2>1, LaterInOrder
  <2>3. QED
    BY <1>2, <1>7, <2>1, <2>2, EvictInOrder
<1>16. /\ all \in Seq(SplitEvent) /\ EventsIn(all) = EventsIn(left) \cup {e}
       /\ ordered' => InOrder(all, now)
  <2>1. all \in Seq(SplitEvent) /\ EventsIn(all) = EventsIn(left) \cup {e}
    BY <1>5, <1>9, <1>12, AppendEvent
  <2>2. ASSUME ordered' PROVE InOrder(all, now)
    <3>1. e.ts <= now
      BY <1>7, <1>9
    <3>2. InOrder(left, now) /\ \A f \in EventsIn(left) : f.ts <= e.ts
      BY <1>9, <1>12, <1>13, <2>2
    <3>3. QED
      BY <1>5, <1>7, <1>9, <1>12, <3>1, <3>2, AppendEvent
  <2>3. QED
    BY <2>1, <2>2
<1>17. /\ own \in Seq(SplitEvent) /\ EventsIn(own) = EventsIn(ownLeft) \cup {e}
       /\ ordered' => InOrder(own, now)
  <2>1. own \in Seq(SplitEvent) /\ EventsIn(own) = EventsIn(ownLeft) \cup {e}
    BY <1>4, <1>9, <1>14, AppendEvent
  <2>2. ASSUME ordered' PROVE InOrder(own, now)
    <3>1. e.ts <= now
      BY <1>7, <1>9
    <3>2. InOrder(ownLeft, now) /\ \A f \in EventsIn(ownLeft) : f.ts <= e.ts
      BY <1>9, <1>15, <2>2
    <3>3. QED
      BY <1>4, <1>7, <1>9, <1>14, <3>1, <3>2, AppendEvent
  <2>3. QED
    BY <2>1, <2>2
<1>18. TenantWindow(tenantWindow', eventsKept', newest', ordered')
  <2>1. TenantWindow(all, eventsKept \cup {e}, newest', ordered')
    BY <1>7, <1>12, <1>16 DEF TenantWindow
  <2>2. QED
    BY <1>6, <2>1
<1>19. ASSUME NEW c \in SplitCustodians
       PROVE  OwnWindow(custodianWindow'[c], c, eventsKept', newest', ordered')
  <2>1. CASE c = d
    <3>1. custodianWindow'[c] = own
      BY <1>6, <2>1 DEF SplitInv
    <3>2. OwnWindow(own, d, eventsKept \cup {e}, newest', ordered')
      BY <1>7, <1>9, <1>14, <1>17 DEF OwnWindow
    <3>3. QED
      BY <1>6, <2>1, <3>1, <3>2
  <2>2. CASE c # d
    <3>1. custodianWindow'[c] = custodianWindow[c]
      BY <1>6, <2>2 DEF SplitInv
    <3>2. eventsKept \subseteq eventsKept'
      BY <1>6
    <3>3. OwnWindow(custodianWindow[c], c, eventsKept', newest', ordered')
      BY <1>7, <1>8, <3>2, OwnLater DEF SplitInv
    <3>4. QED
      BY <3>1, <3>3
  <2>3. QED
    BY <2>1, <2>2
<1>20. SplitAlertExact'
  <2>1. PICK C : C = {f \in eventsKept' : f.ts + WindowLength >= newest'} \cup {e}
    OBVIOUS
  <2>2. C \subseteq EventsIn(all) /\ e \in C /\ e \in EventsIn(own)
    BY <1>6, <1>12, <1>16, <1>17, <2>1
  <2>3. ordered' => EventsIn(all) \subseteq C
    BY <1>6, <1>7, <1>12, <1>13, <1>16, <2>1
  <2>4. ordered' => EventsIn(own) \subseteq C
    BY <1>6, <1>7, <1>14, <1>15, <1>17, <2>1
  <2>5. ordered' => \A f \in EventsIn(own) : Linked(e, f)
    <3>1. ASSUME ordered', NEW f \in EventsIn(ownLeft) PROVE Linked(e, f)
      <4>1. f.custodian = e.custodian /\ f.ts <= now /\ f.ts + WindowLength >= now /\ f.ts \in Nat
        BY <1>9, <1>10, <1>11, <1>14, <1>15, <3>1
      <4>2. PICK t \in Nat : t = f.ts
        BY <4>1
      <4>3. now <= t + WindowLength /\ t <= now + WindowLength
        BY <1>7, <1>11, <4>1, <4>2
      <4>4. QED
        BY <1>9, <4>1, <4>2, <4>3 DEF Linked
    <3>2. Linked(e, e)
      <4>1. now <= now + WindowLength
        BY <1>7, <1>11
      <4>2. QED
        BY <1>9, <4>1 DEF Linked
    <3>3. QED
      BY <1>17, <3>1, <3>2
  <2>6. PICK ord \in BOOLEAN : ord = ordered'
    BY <1>8
  <2>7. Verdict(e, own, all).event = e /\ AlertOK(Verdict(e, own, all), LinkedGroup(C, e), ord)
    <3>1. /\ ord => EventsIn(all) \subseteq C /\ EventsIn(own) \subseteq C
          /\ ord => \A f \in EventsIn(own) : Linked(e, f)
      BY <2>3, <2>4, <2>5, <2>6
    <3>2. QED
      BY <1>16, <1>17, <2>2, <3>1, VerdictOK
  <2>8. verdict'.event = e /\ AlertOK(verdict', LinkedGroup(C, e), ordered')
    BY <1>6, <2>6, <2>7
  <2>9. Current(verdict.event)' = C
    BY <2>1, <2>8 DEF Current
  <2>10. LinkedGroup(Current(verdict.event), verdict.event)' = LinkedGroup(C, e)
    BY <2>8, <2>9 DEF LinkedGroup
  <2>11. QED
    BY <2>8, <2>10 DEF SplitAlertExact, AlertOK
<1>21. counted' \in Nat /\ DOMAIN custodianWindow' = SplitCustodians
  BY <1>6 DEF SplitInv
<1>22. QED
  BY <1>7, <1>8, <1>10, <1>18, <1>19, <1>20, <1>21 DEF SplitInv

\* For every set of custodians, marks, amounts and times and every limit: the
\* detector alerts on an event whenever the events linked to it in the last
\* window exceed the limits, and while time did not go back on no other, naming
\* exactly that group.
THEOREM SplitAlertsExact == SplitSpec => []SplitAlertExact
<1>1. SplitInit => SplitInv
  <2> SUFFICES ASSUME SplitInit PROVE SplitInv
    OBVIOUS
  <2>1. tenantWindow = <<>> /\ eventsKept = {} /\ newest = 0 /\ ordered = TRUE /\ counted = 0
    BY DEF SplitInit
  <2>2. TenantWindow(tenantWindow, eventsKept, newest, ordered)
    BY <2>1, EmptyEvents DEF TenantWindow
  <2>3. ASSUME NEW c \in SplitCustodians
        PROVE  OwnWindow(custodianWindow[c], c, eventsKept, newest, ordered)
    <3>1. PICK w : w = custodianWindow[c]
      OBVIOUS
    <3>2. w = <<>>
      BY <3>1 DEF SplitInit
    <3>3. QED
      BY <3>1, <3>2, EmptyEvents DEF OwnWindow
  <2>4. SplitAlertExact
    BY DEF SplitInit, SplitAlertExact
  <2>5. counted \in Nat /\ newest \in Nat /\ ordered \in BOOLEAN /\ eventsKept \subseteq SplitEvent
    <3>1. counted \in Nat /\ newest \in Nat /\ eventsKept \subseteq SplitEvent
      BY <2>1
    <3>2. ordered \in BOOLEAN
      BY <2>1
    <3>3. QED
      BY <3>1, <3>2
  <2>6. DOMAIN custodianWindow = SplitCustodians
    BY DEF SplitInit
  <2>7. QED
    BY <2>2, <2>3, <2>4, <2>5, <2>6 DEF SplitInv
<1>2. SplitInv /\ [SplitNext]_splitVars => SplitInv'
  <2> SUFFICES ASSUME SplitInv, [SplitNext]_splitVars PROVE SplitInv'
    OBVIOUS
  <2>1. ASSUME NEW c \in SplitCustodians, NEW now \in Times, NEW amount \in EventAmounts,
               NEW marks \in SUBSET Marks, RecordEvent(c, now, amount, marks)
        PROVE  SplitInv'
    BY <2>1, RecordEventKeeps
  <2>2. ASSUME NEW c \in SplitCustodians, NEW now \in Times, WindowSum(c, now) PROVE SplitInv'
    BY <2>2, WindowSumKeeps
  <2>3. ASSUME NEW c \in SplitCustodians, ClearSplitCustodian(c) PROVE SplitInv'
    BY <2>3, ClearSplitKeeps
  <2>4. ASSUME NEW now \in Times, GetClusters(now) PROVE SplitInv'
    BY <2>4, GetClustersKeeps
  <2>5. CASE ClearTenant
    BY <2>5, ClearTenantKeeps
  <2>6. CASE UNCHANGED splitVars
    <3>1. SplitAlertExact' = SplitAlertExact
      BY <2>6 DEF splitVars, SplitAlertExact, Current
    <3>2. QED
      BY <2>6, <3>1 DEF splitVars, SplitInv
  <2>7. QED
    BY <2>1, <2>2, <2>3, <2>4, <2>5, <2>6 DEF SplitNext
<1>3. SplitInv => SplitAlertExact
  BY DEF SplitInv
<1>4. QED
  BY <1>1, <1>2, <1>3, PTL DEF SplitSpec

===============================================================================
