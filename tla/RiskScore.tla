------------------------------- MODULE RiskScore -------------------------------
(***************************************************************************)
(* The composite fraud score (src/services/fraud/risk_scorer.py).  Every   *)
(* call of FraudRiskScorer.score is one step.  The z-score is compared     *)
(* with its threshold 5/2 in integers: with n past amounts of sum S the    *)
(* code's |v - mean| / std >= 5/2 is the inequality of AmountAnomaly.      *)
(***************************************************************************)
EXTENDS Integers, Sequences, SequencesExt, FiniteSets

CONSTANTS
  Absent,      \* an optional argument that is None
  Distances,   \* duplicate_hamming_distance
  Totals,      \* split_window_total_scaled
  SplitLimits, \* split_threshold_scaled
  Histories,   \* historical_amounts_scaled
  ScoreAmounts,
  HourlyCounts

VARIABLE result  \* the last RiskScoreResult with its arguments

-----------------------------------------------------------------------------
(* Thresholds and weights *)

VelocityThreshold == 3
DuplicateBitThreshold == 5
WeightSplit == 30
WeightSmurfing == 30

\* Mutant: a smurfing cluster is added to the split it is found in.
WeightsStacked(x) ==
  [duplicate |-> 50, category |-> 15, amount |-> 10, velocity |-> 10,
   split |-> WeightSplit + IF x.smurfing THEN WeightSmurfing ELSE 0]

\* A split counts as smurfing or as a plain split, not as both.
Weights(x) ==
  [duplicate |-> 50, category |-> 15, amount |-> 10, velocity |-> 10,
   split |-> IF x.smurfing THEN WeightSmurfing ELSE WeightSplit]

ScoreToLevel(score) ==
  CASE score <= 20 -> "LOW"
    [] score \in 21..49 -> "MEDIUM"
    [] score \in 50..79 -> "HIGH"
    [] OTHER -> "CRITICAL"

-----------------------------------------------------------------------------
(* Signals *)

SumSeq(s) == FoldSeq(LAMBDA a, b : a + b, 0, s)

\* abs(_compute_zscore(v, h)) >= 2.5; without spread any other value counts as
\* infinitely far away.
AmountAnomaly(v, h) ==
  LET n == Len(h)
      S == SumSeq(h)
      spread == FoldSeq(LAMBDA x, sum : sum + (n * x - S) * (n * x - S), 0, h)
  IN /\ n >= 2
     /\ IF spread = 0 THEN n * v # S
        ELSE 4 * (n - 1) * (n * v - S) * (n * v - S) >= 25 * spread

Triggered(x) ==
  {s \in {"duplicate", "split", "category", "amount", "velocity"} :
     CASE s = "duplicate" -> x.distance # Absent /\ x.distance <= DuplicateBitThreshold
       [] s = "split"     -> /\ x.total # Absent /\ x.limit # Absent
                             /\ x.total > x.limit
       [] s = "category"  -> x.category
       [] s = "amount"    -> AmountAnomaly(x.value, x.past)
       [] s = "velocity"  -> x.hourly > VelocityThreshold}

Points(x, s) == IF s \in Triggered(x) THEN Weights(x)[s] ELSE 0

\* The composite score is capped at 100.
Composite(x) ==
  LET raw == Points(x, "duplicate") + Points(x, "split") + Points(x, "category")
               + Points(x, "amount") + Points(x, "velocity")
  IN IF raw > 100 THEN 100 ELSE raw

IsBlocked(level) == level \in {"HIGH", "CRITICAL"}

-----------------------------------------------------------------------------

Arguments ==
  [distance : Distances \cup {Absent}, total : Totals \cup {Absent},
   limit : SplitLimits \cup {Absent}, past : Histories, value : ScoreAmounts,
   hourly : HourlyCounts, category : BOOLEAN, smurfing : BOOLEAN]

NoScore == [level |-> "none"]

RiskInit == result = NoScore

\* The scorer keeps nothing between calls: one call per behaviour.
Score(x) ==
  /\ result = NoScore
  /\ result' = [level |-> ScoreToLevel(Composite(x)), score |-> Composite(x),
                blocked |-> IsBlocked(ScoreToLevel(Composite(x))),
                signals |-> Triggered(x), arguments |-> x]

RiskNext == \E x \in Arguments : Score(x)

RiskSpec == RiskInit /\ [][RiskNext]_result

-----------------------------------------------------------------------------
(* Properties *)

\* Which combinations of signals hold a payment: a duplicate receipt always
\* does; without one it takes a split (smurfing included) together with two of
\* the three weaker signals.  A block with audit escalation (CRITICAL) needs a
\* duplicate together with a split or with all three weaker signals.  No
\* combination leaves the range 0..100.
BlockedExactly ==
  result # NoScore =>
    LET s    == result.signals
        weak == s \cap {"category", "amount", "velocity"} IN
    /\ result.blocked <=>
         \/ "duplicate" \in s
         \/ "split" \in s /\ Cardinality(weak) >= 2
    /\ result.level = "CRITICAL" <=>
         "duplicate" \in s /\ ("split" \in s \/ Cardinality(weak) = 3)
    /\ result.score \in 0..100

=============================================================================
