------------------------------ MODULE FundService ------------------------------
(***************************************************************************)
(* FundService (src/domain/funds/service.py): tenant-scoped funds and the  *)
(* float that custodians hold of them, as called by the REST and gRPC      *)
(* handlers.  Every operation runs under one lock, so it is one action; a  *)
(* call that raises (unknown fund, insufficient float, amount out of       *)
(* range) changes nothing and has none.  MaxAmount stands for 2^63 - 1.    *)
(***************************************************************************)
EXTENDS Naturals, FiniteSets

CONSTANTS
  Tenants, Funds, Custodians,
  MaxAmount,  \* largest amount the API accepts (int64 maximum)
  NoTenant    \* owner of a fund that does not exist

ASSUME FundAssumption ==
  /\ MaxAmount \in Nat
  /\ NoTenant \notin Tenants

VARIABLES
  owner,      \* the tenant a fund was created for
  available,  \* available_amount_scaled of each fund
  balances,   \* _balances: float per tenant, fund and custodian
  initial,    \* history: the amount a fund was created with
  spent       \* history: what was disbursed from a fund

vars == <<owner, available, balances, initial, spent>>

Accounts == Tenants \X Funds \X Custodians

\* _validate_amount
ValidAmount(a, allowZero) == a \in Nat /\ a <= MaxAmount /\ (a = 0 => allowZero)

\* Mutant: the lookup is not scoped to the tenant.
FundExistsAnywhere(t, f) == owner[f] # NoTenant

\* _get_fund finds a fund only under the tenant it was created for.
FundExists(t, f) == owner[f] = t

TypeOK ==
  /\ owner \in [Funds -> Tenants \cup {NoTenant}]
  /\ available \in [Funds -> Nat]
  /\ balances \in [Accounts -> Nat]
  /\ initial \in [Funds -> Nat]
  /\ spent \in [Funds -> Nat]

Init ==
  /\ owner = [f \in Funds |-> NoTenant]
  /\ available = [f \in Funds |-> 0]
  /\ balances = [k \in Accounts |-> 0]
  /\ initial = [f \in Funds |-> 0]
  /\ spent = [f \in Funds |-> 0]

CreateFund(t, f, a) ==
  /\ ValidAmount(a, TRUE)
  /\ owner[f] = NoTenant  \* fund_id is a fresh uuid4
  /\ owner' = [owner EXCEPT ![f] = t]
  /\ available' = [available EXCEPT ![f] = a]
  /\ initial' = [initial EXCEPT ![f] = a]
  /\ UNCHANGED <<balances, spent>>

\* Mutants: the fund is not debited; the fund's amount is not checked.
AllocateFloatUndebited(t, f, c, a) ==
  /\ ValidAmount(a, FALSE)
  /\ FundExists(t, f)
  /\ available[f] >= a
  /\ balances' = [balances EXCEPT ![<<t, f, c>>] = @ + a]
  /\ UNCHANGED <<owner, available, initial, spent>>

AllocateFloatUnchecked(t, f, c, a) ==
  /\ ValidAmount(a, FALSE)
  /\ FundExists(t, f)
  /\ available' = [available EXCEPT ![f] = @ - a]
  /\ balances' = [balances EXCEPT ![<<t, f, c>>] = @ + a]
  /\ UNCHANGED <<owner, initial, spent>>

AllocateFloat(t, f, c, a) ==
  /\ ValidAmount(a, FALSE)
  /\ FundExists(t, f)
  /\ available[f] >= a
  /\ available' = [available EXCEPT ![f] = @ - a]
  /\ balances' = [balances EXCEPT ![<<t, f, c>>] = @ + a]
  /\ UNCHANGED <<owner, initial, spent>>

\* Mutant: the comparison is off by one.
IssueDisbursementOffByOne(t, f, c, a) ==
  /\ ValidAmount(a, FALSE)
  /\ FundExists(t, f)
  /\ balances[<<t, f, c>>] + 1 >= a
  /\ balances' = [balances EXCEPT ![<<t, f, c>>] = @ - a]
  /\ spent' = [spent EXCEPT ![f] = @ + a]
  /\ UNCHANGED <<owner, available, initial>>

IssueDisbursement(t, f, c, a) ==
  /\ ValidAmount(a, FALSE)
  /\ FundExists(t, f)
  /\ balances[<<t, f, c>>] >= a
  /\ balances' = [balances EXCEPT ![<<t, f, c>>] = @ - a]
  /\ spent' = [spent EXCEPT ![f] = @ + a]
  /\ UNCHANGED <<owner, available, initial>>

Next ==
  \E t \in Tenants, f \in Funds, a \in 0..MaxAmount :
    \/ CreateFund(t, f, a)
    \/ \E c \in Custodians : AllocateFloat(t, f, c, a) \/ IssueDisbursement(t, f, c, a)

Spec == Init /\ [][Next]_vars

-----------------------------------------------------------------------------
(* Properties *)

\* The float of a fund, unit by unit: each account holds one unit per count of
\* its balance, so that the sum of the balances is the number of units.
FloatUnits(f) ==
  UNION {{k} \X (1..balances[k]) : k \in {k \in Accounts : k[2] = f}}

FloatOf(f) == Cardinality(FloatUnits(f))

\* Money is neither made nor lost: what a fund was created with is what it has
\* available, plus the float its custodians hold, plus what they disbursed.
Conservation ==
  \A f \in Funds : available[f] + FloatOf(f) + spent[f] = initial[f]

\* Only the initial amount is checked against the int64 maximum of the protobuf
\* messages; no order of allocations lets a balance, or the float of a whole
\* fund, outgrow it.
FitsInt64 ==
  \A f \in Funds : available[f] <= MaxAmount /\ FloatOf(f) <= MaxAmount

\* Float exists only under the tenant that owns the fund: no call of another
\* tenant creates or moves a balance of it.
TenantIsolation ==
  \A k \in Accounts : balances[k] > 0 => owner[k[2]] = k[1]
=============================================================================
