------------------------------ MODULE FundProofs ------------------------------
(***************************************************************************)
(* Theorems about FundService, for any tenants, funds, custodians and      *)
(* amounts.  That money is conserved rests on what one call does to the    *)
(* units of float: an allocation adds as many as it takes from the fund, a *)
(* disbursement removes as many as it spends, of one account of one fund.  *)
(***************************************************************************)
EXTENDS FundService, FiniteSetTheorems, TLAPS

\* No balance is ever negative: TypeOK is inductive because every subtraction
\* is guarded by the comparison made under the same lock.
THEOREM NoOverdraft == Spec => []TypeOK
<1>1. Init => TypeOK
  BY DEF Init, TypeOK
<1>2. TypeOK /\ [Next]_vars => TypeOK'
  <2> SUFFICES ASSUME TypeOK, [Next]_vars PROVE TypeOK'
    OBVIOUS
  <2> USE DEF TypeOK, ValidAmount
  <2>1. ASSUME NEW t \in Tenants, NEW f \in Funds, NEW a \in 0..MaxAmount,
               CreateFund(t, f, a)
        PROVE  TypeOK'
    BY <2>1 DEF CreateFund
  <2>2. ASSUME NEW t \in Tenants, NEW f \in Funds, NEW a \in 0..MaxAmount,
               NEW c \in Custodians, AllocateFloat(t, f, c, a)
        PROVE  TypeOK'
    <3>1. <<t, f, c>> \in Accounts
      BY DEF Accounts
    <3>2. available' \in [Funds -> Nat]
      BY <2>2 DEF AllocateFloat
    <3>3. balances' \in [Accounts -> Nat]
      BY <2>2, <3>1 DEF AllocateFloat
    <3>4. QED
      BY <2>2, <3>2, <3>3 DEF AllocateFloat
  <2>3. ASSUME NEW t \in Tenants, NEW f \in Funds, NEW a \in 0..MaxAmount,
               NEW c \in Custodians, IssueDisbursement(t, f, c, a)
        PROVE  TypeOK'
    <3>1. <<t, f, c>> \in Accounts
      BY DEF Accounts
    <3>2. balances' \in [Accounts -> Nat]
      BY <2>3, <3>1 DEF IssueDisbursement
    <3>3. QED
      BY <2>3, <3>2 DEF IssueDisbursement
  <2>4. CASE UNCHANGED vars
    BY <2>4 DEF vars
  <2>5. QED
    BY <2>1, <2>2, <2>3, <2>4 DEF Next
<1>3. QED
  BY <1>1, <1>2, PTL DEF Spec

\* A fund never changes hands: it is created once, for one tenant.
LEMMA OwnerIsFixed ==
  ASSUME TypeOK, [Next]_vars, NEW f \in Funds, owner[f] # NoTenant
  PROVE  owner'[f] = owner[f]
  BY DEF TypeOK, Next, CreateFund, AllocateFloat, IssueDisbursement, vars

\* Float exists only under the tenant that owns the fund, whatever other
\* tenants call.
THEOREM Isolation == Spec => []TenantIsolation
<1>1. Init => TenantIsolation
  BY DEF Init, TenantIsolation
<1>2. TypeOK /\ TenantIsolation /\ [Next]_vars => TenantIsolation'
  <2> SUFFICES ASSUME TypeOK, TenantIsolation, [Next]_vars,
                      NEW k \in Accounts, balances'[k] > 0
               PROVE  owner'[k[2]] = k[1]
    BY DEF TenantIsolation
  <2>0. k[2] \in Funds /\ k[1] \in Tenants
    BY DEF Accounts
  <2>1. balances[k] > 0 => owner'[k[2]] = k[1]
    BY <2>0, OwnerIsFixed, FundAssumption DEF TenantIsolation
  <2>2. ASSUME NEW t \in Tenants, NEW f \in Funds, NEW a \in 0..MaxAmount,
               NEW c \in Custodians, AllocateFloat(t, f, c, a)
        PROVE  owner'[k[2]] = k[1]
    <3>1. CASE k = <<t, f, c>>
      BY <2>2, <3>1 DEF AllocateFloat, FundExists
    <3>2. CASE k # <<t, f, c>>
      <4>1. balances'[k] = balances[k]
        BY <2>2, <3>2 DEF AllocateFloat, TypeOK
      <4>2. QED
        BY <2>1, <4>1
    <3>3. QED
      BY <3>1, <3>2
  <2>3. ASSUME NEW t \in Tenants, NEW f \in Funds, NEW a \in 0..MaxAmount,
               NEW c \in Custodians, IssueDisbursement(t, f, c, a)
        PROVE  owner'[k[2]] = k[1]
    <3>1. CASE k = <<t, f, c>>
      BY <2>3, <3>1 DEF IssueDisbursement, FundExists
    <3>2. CASE k # <<t, f, c>>
      <4>1. balances'[k] = balances[k]
        BY <2>3, <3>2 DEF IssueDisbursement, TypeOK
      <4>2. QED
        BY <2>1, <4>1
    <3>3. QED
      BY <3>1, <3>2
  <2>4. CASE UNCHANGED balances
    BY <2>1, <2>4
  <2>5. QED
    BY <2>2, <2>3, <2>4 DEF Next, CreateFund, vars
<1>3. QED
  BY <1>1, <1>2, NoOverdraft, PTL DEF Spec

-----------------------------------------------------------------------------
(* Conservation of money *)

\* The units numbered m to n of an account.
Slice(k, m, n) == {k} \X (m..n)

\* The units of a fund under given balances.
UnitsOf(f, bal) == UNION {Slice(k, 1, bal[k]) : k \in {k \in Accounts : k[2] = f}}

LEMMA UnitsNow ==
  ASSUME NEW f
  PROVE  FloatUnits(f) = UnitsOf(f, balances) /\ FloatUnits(f)' = UnitsOf(f, balances')
  BY DEF FloatUnits, UnitsOf, Slice

LEMMA SliceSize ==
  ASSUME NEW k, NEW m \in Nat, NEW a \in Nat
  PROVE  IsFiniteSet(Slice(k, m + 1, m + a)) /\ Cardinality(Slice(k, m + 1, m + a)) = a
<1>1. IsFiniteSet({k}) /\ Cardinality({k}) = 1
  BY FS_Singleton
<1>2. m + 1 \in Int /\ m + a \in Int
  OBVIOUS
<1>3. IsFiniteSet((m + 1)..(m + a))
      /\ Cardinality((m + 1)..(m + a)) = IF m + 1 > m + a THEN 0 ELSE (m + a) - (m + 1) + 1
  BY <1>2, FS_Interval
<1>4. Cardinality((m + 1)..(m + a)) = a
  BY <1>3
<1>5. IsFiniteSet({k} \X ((m + 1)..(m + a)))
      /\ Cardinality({k} \X ((m + 1)..(m + a))) = 1 * Cardinality((m + 1)..(m + a))
  BY <1>1, <1>3, FS_Product
<1>6. QED
  BY <1>4, <1>5 DEF Slice

\* A fund whose accounts do not change keeps its units.
LEMMA OtherFunds ==
  ASSUME NEW f, \A k \in Accounts : k[2] = f => balances'[k] = balances[k]
  PROVE  FloatUnits(f)' = FloatUnits(f)
  BY DEF FloatUnits

\* One account goes from less to more: read forwards, an allocation; read
\* backwards, a disbursement.
Raised(less, more, acct, a) ==
  /\ less \in [Accounts -> Nat] /\ acct \in Accounts /\ a \in Nat
  /\ more = [less EXCEPT ![acct] = @ + a]

\* The fund of the account then has as many more units.
LEMMA SliceApart ==
  ASSUME NEW f, NEW acct, acct[2] = f, NEW a, NEW less, NEW more,
         Raised(less, more, acct, a),
         IsFiniteSet(UnitsOf(f, less)) \/ IsFiniteSet(UnitsOf(f, more))
  PROVE  /\ IsFiniteSet(UnitsOf(f, less)) /\ IsFiniteSet(UnitsOf(f, more))
         /\ Cardinality(UnitsOf(f, more)) = Cardinality(UnitsOf(f, less)) + a
<1> DEFINE U == UnitsOf(f, less)
           V == UnitsOf(f, more)
           n == less[acct]
           S == Slice(acct, n + 1, n + a)
<1>0. /\ \A u : u \in U <=> \E k \in Accounts : k[2] = f /\ u \in Slice(k, 1, less[k])
      /\ \A u : u \in V <=> \E k \in Accounts : k[2] = f /\ u \in Slice(k, 1, more[k])
  BY DEF UnitsOf
<1>2. IsFiniteSet(U) \/ IsFiniteSet(V)
  OBVIOUS
<1> HIDE DEF U, V
<1>1. n \in Nat /\ more[acct] = n + a /\ \A k \in Accounts : k # acct => more[k] = less[k]
  BY DEF Raised
<1>r. acct \in Accounts /\ a \in Nat
  BY DEF Raised
<1>3. \A u : u \in Slice(acct, 1, n + a) <=> u \in Slice(acct, 1, n) \/ u \in S
  BY <1>1, <1>r DEF Slice
<1>4. V = U \cup S
  <2>1. ASSUME NEW u \in V PROVE u \in U \cup S
    <3>1. PICK k \in Accounts : k[2] = f /\ u \in Slice(k, 1, more[k])
      BY <1>0
    <3>2. CASE k = acct
      <4>1. u \in Slice(acct, 1, n) \/ u \in S
        BY <1>1, <1>3, <3>1, <3>2
      <4>2. QED
        BY <1>0, <3>1, <3>2, <4>1
    <3>3. CASE k # acct
      BY <1>0, <1>1, <3>1, <3>3
    <3>4. QED
      BY <3>2, <3>3
  <2>2. ASSUME NEW u \in U PROVE u \in V
    <3>1. PICK k \in Accounts : k[2] = f /\ u \in Slice(k, 1, less[k])
      BY <1>0
    <3>2. u \in Slice(k, 1, more[k])
      BY <1>1, <1>3, <1>r, <3>1
    <3>3. QED
      BY <1>0, <3>1, <3>2
  <2>3. S \subseteq V
    BY <1>0, <1>1, <1>3, <1>r
  <2>4. QED
    BY <2>1, <2>2, <2>3
<1>5. U \cap S = {}
  <2> SUFFICES ASSUME NEW u \in U, u \in S PROVE FALSE
    OBVIOUS
  <2>1. PICK k \in Accounts : k[2] = f /\ u \in Slice(k, 1, less[k])
    BY <1>0
  <2>2. u[1] = acct /\ u[2] \in (n + 1)..(n + a)
    BY DEF Slice
  <2>3. u[1] = k /\ u[2] \in 1..less[k]
    BY <2>1 DEF Slice
  <2>4. QED
    BY <1>1, <1>r, <2>2, <2>3
<1>6. IsFiniteSet(S) /\ Cardinality(S) = a
  BY <1>1, <1>r, SliceSize
<1> HIDE DEF S, n
<1>7. IsFiniteSet(U)
  <2>1. U \in SUBSET V
    BY <1>4
  <2>2. QED
    BY <1>2, <2>1, FS_Subset
<1>8. IsFiniteSet(V) /\ Cardinality(V) = Cardinality(U) + Cardinality(S) - Cardinality({})
  BY <1>4, <1>5, <1>6, <1>7, FS_Union
<1>10. Cardinality(U) \in Nat /\ Cardinality({}) = 0
  BY <1>7, FS_CardinalityType, FS_EmptySet
<1>11. QED
  BY <1>6, <1>7, <1>8, <1>10, <1>r DEF U, V

\* Conservation, the bound on what a fund is created with, and that a fund
\* which was not created holds nothing.
FundHolds(f) ==
  /\ IsFiniteSet(FloatUnits(f))
  /\ available[f] + FloatOf(f) + spent[f] = initial[f]
  /\ initial[f] <= MaxAmount
  /\ owner[f] = NoTenant => available[f] = 0 /\ spent[f] = 0 /\ FloatUnits(f) = {}

MoneyInv == \A f \in Funds : FundHolds(f)

LEMMA InitMoney == Init => MoneyInv
<1> SUFFICES ASSUME Init, NEW f \in Funds PROVE FundHolds(f)
  BY DEF MoneyInv
<1>1. FloatUnits(f) = {}
  <2>1. \A k \in Accounts : 1..balances[k] = {}
    BY DEF Init
  <2>2. QED
    BY <2>1 DEF FloatUnits
<1>2. IsFiniteSet(FloatUnits(f)) /\ FloatOf(f) = 0
  BY <1>1, FS_EmptySet DEF FloatOf
<1>3. QED
  BY <1>1, <1>2, FundAssumption DEF Init, FundHolds

LEMMA AllocateMoney ==
  ASSUME TypeOK, MoneyInv, NEW t \in Tenants, NEW f \in Funds, NEW c \in Custodians,
         NEW a \in 0..MaxAmount, AllocateFloat(t, f, c, a), NEW g \in Funds
  PROVE  FundHolds(g)'
<1> DEFINE acct == <<t, f, c>>
<1>1. acct \in Accounts /\ acct[2] = f /\ a \in Nat
  BY FundAssumption DEF Accounts
<1>2. /\ available' = [available EXCEPT ![f] = @ - a] /\ available[f] >= a
      /\ balances' = [balances EXCEPT ![acct] = @ + a]
      /\ UNCHANGED <<owner, initial, spent>> /\ owner[f] = t
  BY DEF AllocateFloat, FundExists
<1>3. FundHolds(g)
  BY DEF MoneyInv
<1> HIDE DEF acct
<1>4. CASE g # f
  <2>1. FloatUnits(g)' = FloatUnits(g)
    BY <1>1, <1>2, <1>4, OtherFunds DEF TypeOK
  <2>2. available'[g] = available[g]
    BY <1>2, <1>4 DEF TypeOK
  <2>3. QED
    BY <1>2, <1>3, <2>1, <2>2 DEF FundHolds, FloatOf
<1>5. CASE g = f
  <2>1. FloatUnits(f) = UnitsOf(f, balances) /\ FloatUnits(f)' = UnitsOf(f, balances')
    BY UnitsNow
  <2>3. IsFiniteSet(FloatUnits(f))
    BY <1>3, <1>5 DEF FundHolds
  <2>4. /\ IsFiniteSet(FloatUnits(f)') /\ IsFiniteSet(FloatUnits(f))
        /\ Cardinality(FloatUnits(f)') = Cardinality(FloatUnits(f)) + a
    <3>1. Raised(balances, balances', acct, a)
      BY <1>1, <1>2 DEF TypeOK, Raised
    <3>2. QED
      BY <1>1, <2>1, <2>3, <3>1, SliceApart
  <2>5. Cardinality(FloatUnits(f)) \in Nat
    BY <2>3, FS_CardinalityType
  <2>6. available'[f] = available[f] - a /\ available[f] \in Nat /\ spent[f] \in Nat
    BY <1>2 DEF TypeOK
  <2>7. owner'[f] # NoTenant
    BY <1>2, FundAssumption
  <2>8. available'[f] + FloatOf(f)' + spent'[f] = initial'[f]
    BY <1>1, <1>2, <1>3, <1>5, <2>4, <2>5, <2>6 DEF FundHolds, FloatOf
  <2>9. QED
    BY <1>2, <1>3, <1>5, <2>4, <2>7, <2>8 DEF FundHolds
<1>6. QED
  BY <1>4, <1>5

LEMMA DisburseMoney ==
  ASSUME TypeOK, MoneyInv, NEW t \in Tenants, NEW f \in Funds, NEW c \in Custodians,
         NEW a \in 0..MaxAmount, IssueDisbursement(t, f, c, a), NEW g \in Funds
  PROVE  FundHolds(g)'
<1> DEFINE acct == <<t, f, c>>
<1>1. acct \in Accounts /\ acct[2] = f /\ a \in Nat
  BY FundAssumption DEF Accounts
<1>2. /\ spent' = [spent EXCEPT ![f] = @ + a] /\ balances[acct] >= a
      /\ balances' = [balances EXCEPT ![acct] = @ - a]
      /\ UNCHANGED <<owner, available, initial>> /\ owner[f] = t
  BY DEF IssueDisbursement, FundExists
<1>3. FundHolds(g)
  BY DEF MoneyInv
<1> HIDE DEF acct
<1>4. CASE g # f
  <2>1. FloatUnits(g)' = FloatUnits(g)
    BY <1>1, <1>2, <1>4, OtherFunds DEF TypeOK
  <2>2. spent'[g] = spent[g]
    BY <1>2, <1>4 DEF TypeOK
  <2>3. QED
    BY <1>2, <1>3, <2>1, <2>2 DEF FundHolds, FloatOf
<1>5. CASE g = f
  <2>1. FloatUnits(f) = UnitsOf(f, balances) /\ FloatUnits(f)' = UnitsOf(f, balances')
    BY UnitsNow
  <2>3. IsFiniteSet(FloatUnits(f))
    BY <1>3, <1>5 DEF FundHolds
  <2>4. balances' \in [Accounts -> Nat] /\ balances = [balances' EXCEPT ![acct] = @ + a]
    <3>1. balances[acct] \in Nat /\ balances'[acct] = balances[acct] - a
      BY <1>1, <1>2 DEF TypeOK
    <3>2. balances'[acct] \in Nat /\ balances[acct] = balances'[acct] + a
      BY <1>1, <1>2, <3>1
    <3>3. QED
      BY <1>1, <1>2, <3>2 DEF TypeOK
  <2>5. /\ IsFiniteSet(FloatUnits(f)') /\ IsFiniteSet(FloatUnits(f))
        /\ Cardinality(FloatUnits(f)) = Cardinality(FloatUnits(f)') + a
    <3>1. Raised(balances', balances, acct, a)
      BY <1>1, <2>4 DEF Raised
    <3>2. QED
      BY <1>1, <2>1, <2>3, <3>1, SliceApart
  <2>6. Cardinality(FloatUnits(f)') \in Nat
    BY <2>5, FS_CardinalityType
  <2>7. spent'[f] = spent[f] + a /\ available[f] \in Nat /\ spent[f] \in Nat
    BY <1>2 DEF TypeOK
  <2>8. owner'[f] # NoTenant
    BY <1>2, FundAssumption
  <2>9. available'[f] + FloatOf(f)' + spent'[f] = initial'[f]
    BY <1>1, <1>2, <1>3, <1>5, <2>5, <2>6, <2>7 DEF FundHolds, FloatOf
  <2>10. QED
    BY <1>2, <1>3, <1>5, <2>5, <2>8, <2>9 DEF FundHolds
<1>6. QED
  BY <1>4, <1>5

LEMMA NextMoney == TypeOK /\ MoneyInv /\ [Next]_vars => MoneyInv'
<1> SUFFICES ASSUME TypeOK, MoneyInv, [Next]_vars, NEW g \in Funds PROVE FundHolds(g)'
  BY DEF MoneyInv
<1>1. FundHolds(g)
  BY DEF MoneyInv
<1>2. ASSUME NEW t \in Tenants, NEW f \in Funds, NEW a \in 0..MaxAmount, CreateFund(t, f, a)
      PROVE  FundHolds(g)'
  <2>1. FloatUnits(g)' = FloatUnits(g)
    BY <1>2 DEF CreateFund, FloatUnits
  <2>2. CASE g # f
    BY <1>1, <1>2, <2>1, <2>2 DEF CreateFund, TypeOK, FundHolds, FloatOf
  <2>3. CASE g = f
    <3>1. available'[g] = a /\ initial'[g] = a /\ owner'[g] = t /\ spent'[g] = 0
      BY <1>1, <1>2, <2>3 DEF CreateFund, TypeOK, FundHolds
    <3>2. FloatUnits(g) = {} /\ FloatOf(g) = 0
      BY <1>1, <1>2, <2>3, FS_EmptySet DEF CreateFund, FundHolds, FloatOf
    <3>3. owner'[g] # NoTenant /\ a \in Nat /\ a <= MaxAmount
      BY <3>1, FundAssumption
    <3>4. QED
      BY <2>1, <3>1, <3>2, <3>3, FS_EmptySet DEF FundHolds, FloatOf
  <2>4. QED
    BY <2>2, <2>3
<1>3. CASE UNCHANGED vars
  BY <1>1, <1>3 DEF vars, FundHolds, FloatOf, FloatUnits
<1>4. QED
  BY <1>2, <1>3, AllocateMoney, DisburseMoney DEF Next

LEMMA MoneyInvariant == Spec => [](TypeOK /\ MoneyInv)
  BY InitMoney, NextMoney, NoOverdraft, PTL DEF Spec

\* Money is neither made nor lost by any sequence of calls, for any number of
\* tenants, funds and custodians.
THEOREM MoneyConserved == Spec => []Conservation
<1>1. MoneyInv => Conservation
  BY DEF MoneyInv, FundHolds, Conservation
<1>2. QED
  BY <1>1, MoneyInvariant, PTL

\* Although only the initial amount is checked, nothing outgrows the int64
\* maximum: available and float are parts of it.
THEOREM NothingOverflows == Spec => []FitsInt64
<1>1. ASSUME TypeOK, MoneyInv, NEW f \in Funds
      PROVE  available[f] <= MaxAmount /\ FloatOf(f) <= MaxAmount
  <2>1. FundHolds(f)
    BY <1>1 DEF MoneyInv
  <2>2. FloatOf(f) \in Nat
    BY <2>1, FS_CardinalityType DEF FundHolds, FloatOf
  <2>3. available[f] \in Nat /\ spent[f] \in Nat /\ initial[f] \in Nat
    BY <1>1 DEF TypeOK
  <2>4. QED
    BY <2>1, <2>2, <2>3, FundAssumption DEF FundHolds
<1>2. TypeOK /\ MoneyInv => FitsInt64
  BY <1>1 DEF FitsInt64
<1>3. QED
  BY <1>2, MoneyInvariant, PTL
=============================================================================
