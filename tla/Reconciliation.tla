----------------------------- MODULE Reconciliation -----------------------------
(***************************************************************************)
(* The daily closing: the three-way match                                  *)
(* (src/domain/reconciliation/matcher.py), the disposition of a variance   *)
(* and its adjusting entry (variance_analyzer.py in the same directory),   *)
(* and the endpoints that keep closings and sign-offs                      *)
(* (src/api/rest/reconciliation_router.py).  The endpoints are plain       *)
(* functions that the server runs on several threads, so a closing stores  *)
(* its record and its list of signatures in two steps.                     *)
(***************************************************************************)
EXTENDS LedgerEntry, FiniteSets

CONSTANTS
  Closings,     \* DailyClosingRequests: [tenant, counts, coins, opening,
                \* replenished, disbursed, bank]
  RecTenants,
  Signers,
  RecWorkers,   \* threads of the server
  NoFeed,       \* bank_cleared_replenishments_scaled not given
  MaxClosings,  \* bound: closings per behaviour
  MaxSignoffs   \* bound: sign-offs answered per closing

ASSUME BoundsAssumption == MaxClosings \in Nat /\ MaxSignoffs \in Nat

\* The request model refuses negative numbers.
ASSUME ClosingsAssumption ==
  \A r \in Closings :
    /\ r.opening \in Nat /\ r.replenished \in Nat /\ r.disbursed \in Nat /\ r.coins \in Nat
    /\ \A face \in DOMAIN r.counts : r.counts[face] \in Nat

VARIABLES
  closings,     \* the closings computed so far; their position is their id
  history,      \* ids in _history
  signoffs,     \* _signoffs: id -> signatures, for the ids that have a list
  workers,      \* closings between computation and answer
  signed        \* history: what was answered SIGNED, by closing, in order

recVars == <<closings, history, signoffs, workers, signed>>

-----------------------------------------------------------------------------
(* Counting and matching *)

AutoAdjustThreshold == 50000
ManagerThreshold == 500000
Tolerance == 0

FaceValue ==
  [hundreds |-> 1000000, fifties |-> 500000, twenties |-> 200000,
   tens |-> 100000, fives |-> 50000, ones |-> 10000, quarters |-> 2500,
   dimes |-> 1000, nickels |-> 500, pennies |-> 100]

Abs(n) == IF n < 0 THEN -n ELSE n

\* DenominationBreakdown.total_scaled; denominations not counted are 0.
TotalScaled(r) ==
  LET Worth(face) ==
        IF face \in DOMAIN r.counts THEN r.counts[face] * FaceValue[face] ELSE 0
  IN Worth("hundreds") + Worth("fifties") + Worth("twenties") + Worth("tens")
       + Worth("fives") + Worth("ones") + Worth("quarters") + Worth("dimes")
       + Worth("nickels") + Worth("pennies") + r.coins

ExpectedBalance(r) == r.opening + r.replenished - r.disbursed

CashVariance(r) == TotalScaled(r) - ExpectedBalance(r)

BankVariance(r) == IF r.bank = NoFeed THEN 0 ELSE r.bank - r.replenished

\* reconcile: the bank's variance outranks that of the cash box.
Status(r) ==
  CASE Abs(BankVariance(r)) > Tolerance -> "DISCREPANCY_PENDING_AUDIT"
    [] Abs(CashVariance(r)) <= Tolerance -> "BALANCED"
    [] CashVariance(r) > 0 -> "VARIANCE_OVER"
    [] OTHER -> "VARIANCE_SHORT"

-----------------------------------------------------------------------------
(* The adjusting entry *)

\* Mutant: a shortage is posted like an overage.
OneSidedBatch(v) ==
  <<PostingLeg("fund", "DEBIT", Abs(v)), PostingLeg("over_short", "CREDIT", Abs(v))>>

\* generate_adjustment_batch for a variance that is not zero.
AdjustmentBatch(v) ==
  IF v < 0
  THEN <<PostingLeg("over_short", "DEBIT", -v), PostingLeg("fund", "CREDIT", -v)>>
  ELSE <<PostingLeg("fund", "DEBIT", v), PostingLeg("over_short", "CREDIT", v)>>

Disposition(v) ==
  IF Abs(v) <= AutoAdjustThreshold THEN "AUTO_ADJUSTED"
  ELSE IF Abs(v) <= ManagerThreshold THEN "PENDING_APPROVAL"
  ELSE "ESCALATED_AUDIT"

\* analyze: no batch for a zero variance and for an escalated one.
Analyze(r) ==
  LET v == CashVariance(r) IN
  [request |-> r, status |-> Status(r), disposition |-> Disposition(v),
   batch |-> IF v = 0 \/ Abs(v) > ManagerThreshold THEN <<>> ELSE AdjustmentBatch(v)]

-----------------------------------------------------------------------------
(* The endpoints *)

NoWork == [at |-> "idle"]

RecInit ==
  /\ closings = <<>>
  /\ history = {}
  /\ signoffs = [id \in {} |-> <<>>]
  /\ workers = [w \in RecWorkers |-> NoWork]
  /\ signed = [id \in 1..MaxClosings |-> <<>>]

\* submit_daily_closing up to the response it will give.  Both tenants come
\* from the one request, so reconcile does not raise.
ComputeClosing(w, r) ==
  /\ workers[w] = NoWork
  /\ Len(closings) < MaxClosings
  /\ closings' = Append(closings, Analyze(r))
  /\ workers' = [workers EXCEPT ![w] = [at |-> "history", id |-> Len(closings) + 1]]
  /\ UNCHANGED <<history, signoffs, signed>>

StoreHistory(w) ==
  /\ workers[w].at = "history"
  /\ history' = history \cup {workers[w].id}
  /\ workers' = [workers EXCEPT ![w].at = "signoffs"]
  /\ UNCHANGED <<closings, signoffs, signed>>

\* _signoffs[id] = [], and the answer.
StoreSignoffs(w) ==
  LET id == workers[w].id IN
  /\ workers[w].at = "signoffs"
  /\ signoffs' = [i \in DOMAIN signoffs \cup {id} |-> IF i = id THEN <<>> ELSE signoffs[i]]
  /\ workers' = [workers EXCEPT ![w] = NoWork]
  /\ UNCHANGED <<closings, history, signed>>

\* Mutant: a missing list is created (setdefault).
SignOffSetdefault(id, tenant, signer) ==
  /\ id \in history
  /\ tenant = closings[id].request.tenant
  /\ signoffs' = [i \in DOMAIN signoffs \cup {id} |->
       IF i # id THEN signoffs[i]
       ELSE Append(IF id \in DOMAIN signoffs THEN signoffs[id] ELSE <<>>, signer)]
  /\ signed' = [signed EXCEPT ![id] = Append(@, [tenant |-> tenant, signer |-> signer])]
  /\ UNCHANGED <<closings, history, workers>>

\* sign_off_reconciliation.  An unknown id (404), another tenant (403) and a
\* closing whose list is not stored yet (a KeyError) leave everything as it is.
\* Nothing asks whether the signer signed before: a retry is appended again.
SignOff(id, tenant, signer) ==
  /\ id \in history
  /\ tenant = closings[id].request.tenant
  /\ id \in DOMAIN signoffs
  /\ signoffs' = [signoffs EXCEPT ![id] = Append(@, signer)]
  /\ signed' = [signed EXCEPT ![id] = Append(@, [tenant |-> tenant, signer |-> signer])]
  /\ UNCHANGED <<closings, history, workers>>

RecNext ==
  \/ \E w \in RecWorkers :
       \/ \E r \in Closings : ComputeClosing(w, r)
       \/ StoreHistory(w)
       \/ StoreSignoffs(w)
  \/ \E id \in DOMAIN closings, tenant \in RecTenants, signer \in Signers :
       /\ Len(signed[id]) < MaxSignoffs
       /\ SignOff(id, tenant, signer)

RecSpec == RecInit /\ [][RecNext]_recVars

-----------------------------------------------------------------------------
(* Properties *)

\* What a leg, and a batch, add to the fund's balance (an asset account).
FundShare(leg) ==
  IF leg.acct # "fund" THEN 0 ELSE IF leg.type = "DEBIT" THEN leg.amt ELSE -leg.amt

Effect(legs) == FoldSeq(LAMBDA leg, sum : sum + FundShare(leg), 0, legs)

\* A generated entry is balanced and takes the fund from the expected balance
\* to the cash that was counted; a closing without one either had no variance
\* or is escalated.  Only what is below the auto-adjust limit needs nobody,
\* and a closing that reads BALANCED has nothing to adjust.
AdjustmentRestoresBalance ==
  \A id \in DOMAIN closings :
    LET c == closings[id]
        r == c.request
        adjusted == ExpectedBalance(r) + Effect(c.batch) = TotalScaled(r) IN
    /\ ValidateBalance([legs |-> c.batch])
    /\ adjusted <=> c.disposition # "ESCALATED_AUDIT"
    /\ c.batch = <<>> /\ c.disposition # "ESCALATED_AUDIT"
         => ExpectedBalance(r) = TotalScaled(r)
    /\ c.disposition = "AUTO_ADJUSTED" => TotalOf(c.batch, "DEBIT") <= AutoAdjustThreshold
    /\ c.status = "BALANCED" => c.batch = <<>> /\ c.disposition = "AUTO_ADJUSTED"

\* The list of a closing holds every signature that was answered for it, a
\* repeated one as often as it was answered, in that order and each from the
\* closing's own tenant, although the closing can be found before its list of
\* signatures exists.
SignoffsKept ==
  \A id \in DOMAIN closings :
    /\ signed[id] # <<>> => id \in history /\ id \in DOMAIN signoffs
    /\ id \in DOMAIN signoffs =>
         signoffs[id] = [i \in DOMAIN signed[id] |-> signed[id][i].signer]
    /\ \A i \in DOMAIN signed[id] : signed[id][i].tenant = closings[id].request.tenant

=============================================================================
