------------------------------ MODULE StoresProofs ------------------------------
(***************************************************************************)
(* Theorems about the stores whose clients race without a common lock, for *)
(* any number of clients, keys and amounts:                                *)
(*   - what a version that a client read from the balance cache is worth   *)
(*     as long as its entry is only updated, never rewritten;              *)
(*   - what the issuing adapters owe an idempotency key;                   *)
(*   - that the expense form and its draft queue lose nothing, and submit  *)
(*     nothing twice without one of the recorded causes.                   *)
(***************************************************************************)
EXTENDS BalanceCache, IssuingAdapters, OfflineDrafts, TLAPS

-----------------------------------------------------------------------------
(* The optimistic versions of the balance cache *)

ReadType ==
  [at : {"read"}, balance : Nat, version : Nat \ {0}, recreated : BOOLEAN]

\* The two keys exist together, and versions start at 1.
KeysPaired ==
  \/ balanceKey = NoKey /\ versionKey = NoKey
  \/ balanceKey \in Nat /\ versionKey \in Nat \ {0}

\* The version a client read is behind the key's, or stands for its balance.
ReadHolds(c) ==
  clients[c].at = "read" =>
    /\ clients[c] \in ReadType
    /\ \/ clients[c].recreated
       \/ balanceKey = NoKey
       \/ clients[c].version < versionKey
       \/ clients[c].version = versionKey /\ clients[c].balance = balanceKey

AnswerHolds(c) ==
  clients[c].at = "answered" =>
    /\ (clients[c].outcome = "ok") = clients[c].wrote
    /\ clients[c].wrote => clients[c].matches

CacheInv ==
  /\ KeysPaired
  /\ clients = [c \in Clients |-> clients[c]]
  /\ \A c \in Clients : ReadHolds(c) /\ AnswerHolds(c)

-----------------------------------------------------------------------------

\* Marking the reads as outdated keeps what is known of every client, whatever
\* happens to the keys.
LEMMA RecreatedHolds ==
  ASSUME CacheInv, NEW c \in Clients
  PROVE  /\ Recreated[c].at = clients[c].at
         /\ Recreated[c].at = "read" => Recreated[c] \in ReadType /\ Recreated[c].recreated
         /\ Recreated[c].at = "answered" => Recreated[c] = clients[c]
<1>1. CASE clients[c].at = "read"
  <2>1. clients[c] \in ReadType
    BY <1>1 DEF CacheInv, ReadHolds
  <2>2. Recreated[c] = [clients[c] EXCEPT !.recreated = TRUE]
    BY <1>1 DEF Recreated
  <2>3. QED
    BY <2>1, <2>2 DEF ReadType
<1>2. CASE clients[c].at # "read"
  BY <1>2 DEF Recreated
<1>3. QED
  BY <1>1, <1>2

\* A read takes the pair the keys hold now.
LEMMA GetHolds ==
  ASSUME CacheInv, NEW c \in Clients, GetBalance(c)
  PROVE  CacheInv'
<1> USE CacheAssumption
<1>1. KeysPaired'
  BY DEF GetBalance, CacheInv, KeysPaired
<1>2. clients' = [d \in Clients |-> clients'[d]]
  BY DEF GetBalance, CacheInv
<1>3. ASSUME NEW d \in Clients PROVE ReadHolds(d)' /\ AnswerHolds(d)'
  <2>1. CASE d # c
    <3>1. clients'[d] = clients[d] /\ UNCHANGED <<balanceKey, versionKey>>
      BY <2>1 DEF GetBalance, CacheInv
    <3>2. QED
      BY <3>1 DEF CacheInv, ReadHolds, AnswerHolds
  <2>2. CASE d = c /\ balanceKey = NoKey
    <3>1. clients'[d] = [at |-> "miss"]
      BY <2>2 DEF GetBalance, CacheInv
    <3>2. QED
      BY <3>1 DEF ReadHolds, AnswerHolds
  <2>3. CASE d = c /\ balanceKey # NoKey
    <3>1. balanceKey \in Nat /\ versionKey \in Nat \ {0} /\ versionKey # NoKey
      BY <2>3 DEF CacheInv, KeysPaired
    <3>2. clients'[d] = [at |-> "read", balance |-> balanceKey,
                         version |-> versionKey, recreated |-> FALSE]
      BY <2>3, <3>1 DEF GetBalance, CacheInv
    <3>3. UNCHANGED <<balanceKey, versionKey>>
      BY DEF GetBalance
    <3>4. ReadHolds(d)'
      BY <3>1, <3>2, <3>3 DEF ReadHolds, ReadType
    <3>5. AnswerHolds(d)'
      BY <3>2 DEF AnswerHolds
    <3>6. QED
      BY <3>4, <3>5
  <2>4. QED
    BY <2>1, <2>2, <2>3
<1>4. QED
  BY <1>1, <1>2, <1>3 DEF CacheInv

\* A fill outdates every read.
LEMMA SetHolds ==
  ASSUME CacheInv, NEW c \in Clients, NEW amount \in Fills,
         NEW version \in FillVersions, SetBalance(c, amount, version)
  PROVE  CacheInv'
<1>1. KeysPaired'
  BY CacheAssumption DEF SetBalance, KeysPaired
<1>2. Recreated = [d \in Clients |-> Recreated[d]]
  BY DEF Recreated
<1>3. clients' = [d \in Clients |-> clients'[d]]
  BY <1>2 DEF SetBalance
<1>4. ASSUME NEW d \in Clients PROVE ReadHolds(d)' /\ AnswerHolds(d)'
  <2>1. CASE d = c
    <3>1. clients'[d] = NoRead
      BY <1>2, <2>1 DEF SetBalance
    <3>2. QED
      BY <3>1 DEF NoRead, ReadHolds, AnswerHolds
  <2>2. CASE d # c
    <3>1. clients'[d] = Recreated[d]
      BY <1>2, <2>2 DEF SetBalance
    <3>2. ReadHolds(d)'
      BY <3>1, RecreatedHolds DEF ReadHolds
    <3>3. AnswerHolds(d)'
      BY <3>1, RecreatedHolds DEF AnswerHolds, CacheInv
    <3>4. QED
      BY <3>2, <3>3
  <2>3. QED
    BY <2>1, <2>2
<1>5. QED
  BY <1>1, <1>3, <1>4 DEF CacheInv

\* Without keys, no version matches a read.
LEMMA InvalidateHolds ==
  ASSUME CacheInv, InvalidateCache
  PROVE  CacheInv'
  BY DEF InvalidateCache, CacheInv, KeysPaired, ReadHolds, AnswerHolds

\* The script writes unless it answers with -1 or -2, which no balance it
\* writes can be.
LEMMA ReplyTellsWrite ==
  ASSUME CacheInv, NEW delta \in Int, NEW expected \in Int
  PROVE  LET reply  == ScriptReply(delta, expected)
             writes == ~VersionConflict(expected) /\ OrZero(balanceKey) + delta >= 0 IN
         /\ (Outcome(reply) = "ok") = writes
         /\ writes => /\ reply[1] = OrZero(balanceKey) + delta
                      /\ reply[1] \in Nat
                      /\ reply[2] = OrZero(versionKey) + 1
                      /\ reply[2] \in Nat \ {0}
<1>1. OrZero(balanceKey) \in Nat /\ OrZero(versionKey) \in Nat
  BY CacheAssumption DEF CacheInv, KeysPaired, OrZero
<1>2. CASE VersionConflict(expected)
  BY <1>1, <1>2 DEF ScriptReply, Outcome
<1>3. CASE ~VersionConflict(expected) /\ OrZero(balanceKey) + delta < 0
  BY <1>1, <1>3 DEF ScriptReply, Outcome
<1>4. CASE ~VersionConflict(expected) /\ OrZero(balanceKey) + delta >= 0
  BY <1>1, <1>4 DEF ScriptReply, Outcome
<1>5. QED
  BY <1>1, <1>2, <1>3, <1>4

\* A mutation, with the version its client read or with none.
LEMMA IncrementHolds ==
  ASSUME CacheInv, NEW c \in Clients, NEW delta \in Deltas, NEW expected \in Int,
         expected = -1 \/ (clients[c].at = "read" /\ expected = clients[c].version),
         AtomicIncrement(c, delta, expected)
  PROVE  CacheInv'
<1> DEFINE reply  == ScriptReply(delta, expected)
           writes == ~VersionConflict(expected) /\ OrZero(balanceKey) + delta >= 0
           others == IF writes /\ balanceKey = NoKey THEN Recreated ELSE clients
           matched == \/ expected = -1
                      \/ clients[c].recreated
                      \/ clients[c].balance = balanceKey
           answer == [at |-> "answered", outcome |-> Outcome(reply), wrote |-> writes,
                      matches |-> matched]
<1>0. delta \in Int
  BY CacheAssumption
<1>1. clients' = [others EXCEPT ![c] = answer]
  BY DEF AtomicIncrement
<1>2. IF writes THEN balanceKey' = reply[1] /\ versionKey' = reply[2]
                ELSE UNCHANGED <<balanceKey, versionKey>>
  BY DEF AtomicIncrement
<1>3. /\ (Outcome(reply) = "ok") = writes
      /\ writes => /\ reply[1] \in Nat
                   /\ reply[2] = OrZero(versionKey) + 1
                   /\ reply[2] \in Nat \ {0}
  BY <1>0, ReplyTellsWrite
<1> HIDE DEF reply, writes, matched
<1>4. KeysPaired'
  <2>1. CASE writes
    BY <1>2, <1>3, <2>1 DEF KeysPaired
  <2>2. CASE ~writes
    BY <1>2, <2>2 DEF KeysPaired, CacheInv
  <2>3. QED
    BY <2>1, <2>2
<1>5. others = [d \in Clients |-> others[d]]
  BY DEF Recreated, CacheInv
<1>6. clients' = [d \in Clients |-> clients'[d]]
  BY <1>1, <1>5
<1>7. clients'[c] = answer /\ \A d \in Clients : d # c => clients'[d] = others[d]
  BY <1>1, <1>5
<1>8. ReadHolds(c)' /\ AnswerHolds(c)'
  <2>1. ASSUME writes, expected # -1
        PROVE  clients[c].recreated \/ clients[c].balance = balanceKey
    <3>1. clients[c].at = "read" /\ expected = clients[c].version /\ clients[c] \in ReadType
      BY <2>1 DEF CacheInv, ReadHolds
    <3>2. OrZero(versionKey) = clients[c].version /\ clients[c].version \in Nat \ {0}
      BY <2>1, <3>1 DEF writes, VersionConflict, ReadType
    <3>3. versionKey # NoKey /\ versionKey = clients[c].version
      BY <3>2 DEF OrZero
    <3>4. balanceKey # NoKey
      BY <3>3, CacheAssumption DEF CacheInv, KeysPaired
    <3>5. QED
      BY <3>1, <3>2, <3>3, <3>4 DEF CacheInv, ReadHolds
  <2>2. clients'[c].at = "answered" /\ clients'[c].outcome = Outcome(reply)
    BY <1>7
  <2>3. clients'[c].wrote = writes
    BY <1>7
  <2>4. clients'[c].matches = matched
    BY <1>7
  <2>5. writes => matched
    BY <2>1 DEF matched
  <2>6. QED
    BY <1>3, <2>2, <2>3, <2>4, <2>5 DEF ReadHolds, AnswerHolds
<1>9. ASSUME NEW d \in Clients, d # c PROVE ReadHolds(d)' /\ AnswerHolds(d)'
  <2>1. CASE writes /\ balanceKey = NoKey
    <3>1. clients'[d] = Recreated[d]
      BY <1>7, <1>9, <2>1
    <3>2. ReadHolds(d)'
      BY <3>1, RecreatedHolds DEF ReadHolds
    <3>3. AnswerHolds(d)'
      BY <3>1, RecreatedHolds DEF AnswerHolds, CacheInv
    <3>4. QED
      BY <3>2, <3>3
  <2>2. CASE writes /\ balanceKey # NoKey
    <3>1. clients'[d] = clients[d]
      BY <1>7, <1>9, <2>2
    <3>2. versionKey \in Nat /\ versionKey # NoKey
      BY <2>2, CacheAssumption DEF CacheInv, KeysPaired
    <3>3. versionKey' = versionKey + 1
      BY <1>2, <1>3, <2>2, <3>2 DEF OrZero
    <3>4. ReadHolds(d)'
      <4>1. SUFFICES ASSUME clients[d].at = "read", ~clients[d].recreated
                     PROVE  clients[d].version < versionKey'
        BY <3>1 DEF ReadHolds, CacheInv
      <4>2. clients[d].version \in Nat /\ clients[d].version <= versionKey
        BY <2>2, <3>2, <4>1 DEF CacheInv, ReadHolds, ReadType
      <4>3. QED
        BY <3>2, <3>3, <4>2
    <3>5. AnswerHolds(d)'
      BY <3>1 DEF CacheInv, AnswerHolds
    <3>6. QED
      BY <3>4, <3>5
  <2>3. CASE ~writes
    <3>1. clients'[d] = clients[d] /\ UNCHANGED <<balanceKey, versionKey>>
      BY <1>2, <1>7, <1>9, <2>3
    <3>2. QED
      BY <3>1 DEF CacheInv, ReadHolds, AnswerHolds
  <2>4. QED
    BY <2>1, <2>2, <2>3
<1>10. QED
  BY <1>4, <1>6, <1>8, <1>9 DEF CacheInv

-----------------------------------------------------------------------------

\* A mutation that named a version was applied to the balance its client read,
\* unless the entry was written anew in between, and its caller is told so.
THEOREM VersionsProtectReads == CacheSpec => []VersionedIncrementSawRead
<1>1. CacheInit => CacheInv
  BY DEF CacheInit, CacheInv, KeysPaired, ReadHolds, AnswerHolds, NoRead
<1>2. CacheInv /\ [CacheNext]_cacheVars => CacheInv'
  <2> SUFFICES ASSUME CacheInv, [CacheNext]_cacheVars PROVE CacheInv'
    OBVIOUS
  <2>1. ASSUME NEW c \in Clients, NEW delta \in Deltas, clients[c].at = "read",
               AtomicIncrement(c, delta, clients[c].version)
        PROVE  CacheInv'
    <3>1. clients[c].version \in Int
      BY <2>1 DEF CacheInv, ReadHolds, ReadType
    <3>2. QED
      BY <2>1, <3>1, IncrementHolds
  <2>2. ASSUME NEW c \in Clients, NEW delta \in Deltas, AtomicIncrement(c, delta, -1)
        PROVE  CacheInv'
    BY <2>2, IncrementHolds
  <2>3. CASE UNCHANGED cacheVars
    BY <2>3 DEF cacheVars, CacheInv, KeysPaired, ReadHolds, AnswerHolds
  <2>4. QED
    BY <2>1, <2>2, <2>3, GetHolds, SetHolds, InvalidateHolds DEF CacheNext
<1>3. CacheInv => VersionedIncrementSawRead
  BY DEF CacheInv, AnswerHolds, VersionedIncrementSawRead
<1>4. QED
  BY <1>1, <1>2, <1>3, PTL DEF CacheSpec

-----------------------------------------------------------------------------
(* The issuing adapters *)

Result == [request : Requests, status : {"active", "cancelled"}]

CallType ==
  [at : {"idle"}] \cup [at : {"issue"}, request : Requests]
    \cup [at : {"answered"}, request : Requests, result : 1..Len(issuedLog)]

Under(r, k) == Keyed(r) /\ IndexKey(r) = k

Issuing(c, k) == callers[c].at = "issue" /\ Under(callers[c].request, k)

IssuedUnder(i, k) == Under(issuedLog[i].request, k)

AdaptersTyped ==
  /\ adapter \in AdapterKinds
  /\ issuedLog \in Seq(Result)
  /\ index \in [IndexKeys -> 0..Len(issuedLog)]
  /\ callers \in [Callers -> CallType]

\* What the index names was issued under the key.
IndexNames(k) == index[k] # 0 => IssuedUnder(index[k], k)

\* While calls with the key did not overlap, one caller at most is issuing,
\* and only before the key is known; nothing else was issued under it.
KeyOnce(k) ==
  \/ k \in overlapping
  \/ /\ \A c, d \in Callers : Issuing(c, k) /\ Issuing(d, k) => c = d
     /\ \A c \in Callers : Issuing(c, k) => index[k] = 0
     /\ \A i \in 1..Len(issuedLog) : IssuedUnder(i, k) => index[k] = i

AdaptersInv ==
  /\ AdaptersTyped
  /\ \A k \in IndexKeys : IndexNames(k) /\ KeyOnce(k)
  /\ AnswerFitsKey

-----------------------------------------------------------------------------

LEMMA CallFields ==
  ASSUME AdaptersTyped, NEW c \in Callers
  PROVE  /\ callers[c].at = "issue" => callers[c].request \in Requests
         /\ callers[c].at = "answered" => /\ callers[c].request \in Requests
                                          /\ callers[c].result \in 1..Len(issuedLog)
<1>1. callers[c] \in CallType
  BY DEF AdaptersTyped
<1>2. QED
  BY <1>1 DEF CallType

LEMMA IssuedFields ==
  ASSUME AdaptersTyped, NEW i \in 1..Len(issuedLog)
  PROVE  issuedLog[i] \in Result /\ issuedLog[i].request \in Requests
<1>1. issuedLog[i] \in Result
  BY DEF AdaptersTyped
<1>2. QED
  BY <1>1 DEF Result

LEMMA KeyInIndex ==
  ASSUME NEW r \in Requests, Keyed(r)
  PROVE  IndexKey(r) \in IndexKeys
  BY DEF IndexKeys

\* The amount is the last piece of the key material, whatever the colons.
LEMMA MaterialTellsAmount ==
  ASSUME NEW o \in Order, NEW p \in Order, KeyMaterial(o) = KeyMaterial(p)
  PROVE  o.amount = p.amount
<1> DEFINE Front(x) == x.tenant \o x.reference \o x.fund
<1>1. ASSUME NEW x \in Order
      PROVE  KeyMaterial(x)[Len(KeyMaterial(x))] = x.amount
  <2>1. /\ x.tenant \in Seq(Pieces \cup Nat) /\ x.reference \in Seq(Pieces \cup Nat)
        /\ x.fund \in Seq(Pieces \cup Nat) /\ x.amount \in Nat
    BY DEF Order, Text
  <2>2. Front(x) \in Seq(Pieces \cup Nat)
    BY <2>1
  <2> HIDE DEF Front
  <2>3. (Front(x) \o <<x.amount>>)[Len(Front(x) \o <<x.amount>>)] = x.amount
    BY <2>1, <2>2
  <2>4. QED
    BY <2>3 DEF KeyMaterial, Front
<1>2. QED
  BY <1>1

\* Where the elements of joined sequences stand.
LEMMA Joined ==
  ASSUME NEW S, NEW s \in Seq(S), NEW t \in Seq(S)
  PROVE  /\ s \o t \in Seq(S) /\ Len(s \o t) = Len(s) + Len(t)
         /\ \A i \in 1..Len(s) : (s \o t)[i] = s[i]
         /\ Len(t) >= 1 => (s \o t)[Len(s) + 1] = t[1]
<1>1. s \o t \in Seq(S) /\ Len(s \o t) = Len(s) + Len(t)
  OBVIOUS
<1>2. \A i \in 1..Len(s) : (s \o t)[i] = s[i]
  OBVIOUS
<1>3. Len(t) >= 1 => (s \o t)[Len(s) + 1] = t[1]
  OBVIOUS
<1>4. QED
  BY <1>1, <1>2, <1>3

\* Two texts without a colon are the same when their piece is.
LEMMA SamePiece ==
  ASSUME NEW S, NEW s \in Seq(S), NEW t \in Seq(S), Len(s) = Len(t), Len(s) <= 1,
         Len(s) = 1 => s[1] = t[1]
  PROVE  s = t
<1>1. \A i \in 1..Len(s) : s[i] = t[i]
  OBVIOUS
<1>2. QED
  BY <1>1

\* Without colons it tells every text.
LEMMA PlainMaterialTells ==
  ASSUME NEW o \in Order, NEW p \in Order, KeyMaterial(o) = KeyMaterial(p),
         Plain(o), Plain(p)
  PROVE  o = p
<1> DEFINE S == Pieces \cup Nat
           Pair(x) == x.tenant \o x.reference
           Front(x) == Pair(x) \o x.fund
<1>1. ASSUME NEW x \in Order, Plain(x)
      PROVE  /\ KeyMaterial(x)[1] = x.tenant[1] /\ KeyMaterial(x)[2] = x.reference[1]
             /\ Len(KeyMaterial(x)) = Len(x.fund) + 3
             /\ Len(x.fund) = 1 => KeyMaterial(x)[3] = x.fund[1]
  <2>1. /\ x.tenant \in Seq(S) /\ x.reference \in Seq(S) /\ x.fund \in Seq(S)
        /\ <<x.amount>> \in Seq(S) /\ Len(<<x.amount>>) = 1 /\ Len(x.fund) \in Nat
    BY DEF Order, Text
  <2>2. Len(x.tenant) = 1 /\ Len(x.reference) = 1 /\ Len(x.fund) <= 1
    BY <1>1 DEF Plain
  <2>3. /\ Pair(x) \in Seq(S) /\ Len(Pair(x)) = 2
        /\ Pair(x)[1] = x.tenant[1] /\ Pair(x)[2] = x.reference[1]
    <3>1. /\ Pair(x) \in Seq(S) /\ Len(Pair(x)) = Len(x.tenant) + Len(x.reference)
          /\ \A i \in 1..Len(x.tenant) : Pair(x)[i] = x.tenant[i]
          /\ Len(x.reference) >= 1 => Pair(x)[Len(x.tenant) + 1] = x.reference[1]
      BY <2>1, Joined
    <3> HIDE DEF Pair, S
    <3>2. QED
      BY <2>2, <3>1
  <2> HIDE DEF Pair
  <2>4. /\ Front(x) \in Seq(S) /\ Len(Front(x)) = Len(x.fund) + 2
        /\ Front(x)[1] = Pair(x)[1] /\ Front(x)[2] = Pair(x)[2]
        /\ Len(x.fund) = 1 => Front(x)[3] = x.fund[1]
    <3>1. /\ Front(x) \in Seq(S) /\ Len(Front(x)) = Len(Pair(x)) + Len(x.fund)
          /\ \A i \in 1..Len(Pair(x)) : Front(x)[i] = Pair(x)[i]
          /\ Len(x.fund) >= 1 => Front(x)[Len(Pair(x)) + 1] = x.fund[1]
      <4> HIDE DEF S
      <4>1. Pair(x) \in Seq(S) /\ x.fund \in Seq(S)
        BY <2>1, <2>3
      <4>2. PICK m : m = Pair(x)
        OBVIOUS
      <4>3. Front(x) = m \o x.fund
        BY <4>2 DEF Front
      <4> HIDE DEF Front
      <4>4. QED
        BY <4>1, <4>2, <4>3, Joined
    <3> HIDE DEF Front, S
    <3>2. QED
      BY <2>1, <2>3, <3>1
  <2>5. KeyMaterial(x) = Front(x) \o <<x.amount>>
    BY DEF KeyMaterial, Pair
  <2> HIDE DEF Front
  <2>6. /\ Len(KeyMaterial(x)) = Len(x.fund) + 3
        /\ \A i \in 1..Len(Front(x)) : KeyMaterial(x)[i] = Front(x)[i]
    BY <2>1, <2>4, <2>5
  <2>7. QED
    BY <2>1, <2>3, <2>4, <2>6
<1>2. /\ o.tenant \in Seq(Pieces) /\ o.reference \in Seq(Pieces) /\ o.fund \in Seq(Pieces)
      /\ p.tenant \in Seq(Pieces) /\ p.reference \in Seq(Pieces) /\ p.fund \in Seq(Pieces)
  BY DEF Order, Text
<1>3. Len(o.fund) = Len(p.fund)
  BY <1>1, <1>2
<1>4. o.tenant[1] = p.tenant[1] /\ o.reference[1] = p.reference[1]
      /\ (Len(o.fund) = 1 => o.fund[1] = p.fund[1])
  BY <1>1, <1>3
<1>5. o.tenant = p.tenant
  BY <1>2, <1>4, SamePiece DEF Plain
<1>6. o.reference = p.reference
  BY <1>2, <1>4, SamePiece DEF Plain
<1>7. o.fund = p.fund
  BY <1>2, <1>3, <1>4, SamePiece DEF Plain
<1>8. o.amount = p.amount
  BY MaterialTellsAmount
<1>9. QED
  BY <1>5, <1>6, <1>7, <1>8 DEF Order

\* Requests that share an entry of the dictionary fit each other's result.
LEMMA SharedKeyFits ==
  ASSUME adapter \in AdapterKinds, NEW r \in Requests, NEW q \in Requests,
         Keyed(r), IndexKey(q) = IndexKey(r)
  PROVE  ResultFits(r, q)
<1>1. EffectiveKey(q) = EffectiveKey(r) /\ (adapter = "card" => q.order.tenant = r.order.tenant)
  BY DEF IndexKey
<1>2. CASE r.key # NoKeyGiven
  BY <1>1, <1>2 DEF ResultFits
<1>3. CASE r.key = NoKeyGiven
  <2>1. DerivesKey /\ EffectiveKey(r) = KeyMaterial(r.order)
    BY <1>3, BuiltKeyFresh DEF Keyed, EffectiveKey
  <2>2. /\ r.order \in CardOrders \cup DocumentOrders
        /\ q.order \in CardOrders \cup DocumentOrders
        /\ q.key \in {NoKeyGiven} \cup Keys
    BY <2>1 DEF Requests, Orders
  <2>3. q.key = NoKeyGiven
    <3>1. SUFFICES ASSUME q.key # NoKeyGiven PROVE FALSE
      OBVIOUS
    <3>2. q.key # BuiltKey => q.key = KeyMaterial(r.order)
      BY <1>1, <2>1, <3>1 DEF EffectiveKey
    <3>3. QED
      BY <2>2, <3>1, <3>2, DerivedKeysFresh, BuiltKeyFresh
  <2>4. KeyMaterial(q.order) = KeyMaterial(r.order)
    BY <1>1, <2>1, <2>3 DEF EffectiveKey
  <2>5. r.order \in Order /\ q.order \in Order
    BY <2>2, OrdersAssumption
  <2>6. QED
    BY <1>1, <2>4, <2>5, MaterialTellsAmount, PlainMaterialTells DEF ResultFits
<1>4. QED
  BY <1>2, <1>3

\* The adapter of a behaviour does not change, nor do its keys.
LEMMA SameKeys ==
  ASSUME UNCHANGED adapter
  PROVE  /\ Requests' = Requests
         /\ IndexKeys' = IndexKeys
         /\ Result' = Result
         /\ \A c, k : Issuing(c, k)' <=> callers'[c].at = "issue" /\ Under(callers'[c].request, k)
         /\ \A i, k : IssuedUnder(i, k)' <=> Under(issuedLog'[i].request, k)
         /\ \A k : IndexNames(k)' <=> (index'[k] # 0 => Under(issuedLog'[index'[k]].request, k))
<1>1. Requests' = Requests
  BY DEF Requests, Orders, DerivesKey
<1>2. IndexKeys' = IndexKeys
  BY <1>1 DEF IndexKeys, IndexKey, Keyed, EffectiveKey, DerivesKey
<1>3. Result' = Result
  BY <1>1 DEF Result
<1>4. \A c, k : Issuing(c, k)' <=> callers'[c].at = "issue" /\ Under(callers'[c].request, k)
  BY DEF Issuing, Under, IndexKey, Keyed, EffectiveKey, DerivesKey
<1>5. \A i, k : IssuedUnder(i, k)' <=> Under(issuedLog'[i].request, k)
  BY DEF IssuedUnder, Under, IndexKey, Keyed, EffectiveKey, DerivesKey
<1>6. \A k : IndexNames(k)' <=> (index'[k] # 0 => Under(issuedLog'[index'[k]].request, k))
  BY DEF IndexNames, IssuedUnder, Under, IndexKey, Keyed, EffectiveKey, DerivesKey
<1>7. QED
  BY <1>1, <1>2, <1>3, <1>4, <1>5, <1>6

\* The look-ups change nothing that was issued.
LEMMA LookupKeeps ==
  ASSUME AdaptersInv, NEW c \in Callers, NEW r \in Requests,
         RefuseUnbalanced(c, r) \/ AnswerExisting(c, r) \/ FindNone(c, r)
  PROVE  AdaptersInv'
<1>1. UNCHANGED <<adapter, index, issuedLog>> /\ overlapping \subseteq overlapping'
  BY DEF RefuseUnbalanced, AnswerExisting, FindNone
<1>2. /\ Requests' = Requests /\ IndexKeys' = IndexKeys /\ Result' = Result
      /\ \A d, k : Issuing(d, k)' <=> callers'[d].at = "issue" /\ Under(callers'[d].request, k)
      /\ \A i, k : IssuedUnder(i, k)' <=> IssuedUnder(i, k)
  BY <1>1, SameKeys DEF IssuedUnder
<1>3. CallType' = CallType
  BY <1>1, <1>2 DEF CallType
<1>4. callers'[c] \in CallType /\ callers' = [callers EXCEPT ![c] = callers'[c]]
  <2>1. CASE RefuseUnbalanced(c, r)
    BY <2>1 DEF RefuseUnbalanced, AdaptersInv, AdaptersTyped, CallType, NoCaller
  <2>2. CASE AnswerExisting(c, r)
    <3>1. index[IndexKey(r)] \in 1..Len(issuedLog)
      BY <2>2, KeyInIndex DEF AnswerExisting, AdaptersInv, AdaptersTyped
    <3>2. QED
      BY <2>2, <3>1 DEF AnswerExisting, AdaptersInv, AdaptersTyped, CallType
  <2>3. CASE FindNone(c, r)
    BY <2>3 DEF FindNone, AdaptersInv, AdaptersTyped, CallType
  <2>4. QED
    BY <2>1, <2>2, <2>3
<1>5. AdaptersTyped'
  BY <1>1, <1>2, <1>3, <1>4 DEF AdaptersInv, AdaptersTyped
<1>6. ASSUME NEW k \in IndexKeys PROVE IndexNames(k)'
  BY <1>1, <1>2 DEF AdaptersInv, IndexNames
<1>7. ASSUME NEW k \in IndexKeys PROVE KeyOnce(k)'
  <2> SUFFICES ASSUME k \notin overlapping' PROVE KeyOnce(k)'
    BY DEF KeyOnce
  <2>1. k \notin overlapping /\ KeyOnce(k)
    BY <1>1 DEF AdaptersInv
  <2>2. \A d \in Callers : d # c => (Issuing(d, k)' <=> Issuing(d, k))
    BY <1>2, <1>4 DEF AdaptersInv, AdaptersTyped, Issuing
  <2>3. CASE ~Issuing(c, k)'
    BY <1>1, <1>2, <2>1, <2>2, <2>3 DEF KeyOnce
  <2>4. CASE Issuing(c, k)'
    <3>1. FindNone(c, r) /\ Under(r, k)
      <4>1. ~RefuseUnbalanced(c, r) /\ ~AnswerExisting(c, r)
        BY <1>2, <2>4 DEF RefuseUnbalanced, AnswerExisting, NoCaller, AdaptersInv, AdaptersTyped
      <4>2. FindNone(c, r)
        BY <4>1
      <4>3. callers'[c].request = r
        BY <4>2 DEF FindNone, AdaptersInv, AdaptersTyped
      <4>4. QED
        BY <1>2, <2>4, <4>2, <4>3
    <3>2. index[k] = 0
      BY <3>1 DEF FindNone, Under
    <3>3. \A d \in Callers : ~Issuing(d, k)
      BY <3>1 DEF FindNone, Under, Issuing
    <3>4. \A d, e \in Callers : Issuing(d, k)' /\ Issuing(e, k)' => d = e
      BY <2>2, <3>3
    <3>5. \A i \in 1..Len(issuedLog) : IssuedUnder(i, k) => index[k] = i
      BY <2>1 DEF KeyOnce
    <3>6. QED
      BY <1>1, <1>2, <3>2, <3>4, <3>5 DEF KeyOnce
  <2>5. QED
    BY <2>3, <2>4
<1>8. AnswerFitsKey'
  <2> SUFFICES ASSUME NEW d \in Callers, callers'[d].at = "answered"
               PROVE  ResultFits(callers[d].request, issuedLog[callers[d].result].request)'
    BY DEF AnswerFitsKey
  <2>1. CASE d # c
    BY <1>1, <1>4, <2>1 DEF AdaptersInv, AdaptersTyped, AnswerFitsKey, ResultFits
  <2>2. CASE d = c
    <3>1. AnswerExisting(c, r)
      BY <2>2 DEF RefuseUnbalanced, FindNone, NoCaller, AdaptersInv, AdaptersTyped
    <3>2. callers'[c].request = r /\ callers'[c].result = index[IndexKey(r)]
      BY <3>1 DEF AnswerExisting, AdaptersInv, AdaptersTyped
    <3>3. Keyed(r) /\ IndexKey(r) \in IndexKeys /\ index[IndexKey(r)] # 0
      BY <3>1, KeyInIndex DEF AnswerExisting
    <3>4. index[IndexKey(r)] \in 1..Len(issuedLog)
      BY <3>3 DEF AdaptersInv, AdaptersTyped
    <3>5. IndexKey(issuedLog[index[IndexKey(r)]].request) = IndexKey(r)
      BY <3>3 DEF AdaptersInv, IndexNames, IssuedUnder, Under
    <3>6. issuedLog[index[IndexKey(r)]].request \in Requests
      BY <3>4, IssuedFields DEF AdaptersInv
    <3>7. adapter \in AdapterKinds
      BY DEF AdaptersInv, AdaptersTyped
    <3>8. ResultFits(r, issuedLog[index[IndexKey(r)]].request)
      BY <3>3, <3>5, <3>6, <3>7, SharedKeyFits
    <3>9. QED
      BY <1>1, <2>2, <3>2, <3>8 DEF ResultFits
  <2>3. QED
    BY <2>1, <2>2
<1>9. QED
  BY <1>2, <1>5, <1>6, <1>7, <1>8 DEF AdaptersInv

\* Issuing stores the result under its key and appends it.
LEMMA IssueKeeps ==
  ASSUME AdaptersInv, NEW c \in Callers, Issue(c)
  PROVE  AdaptersInv'
<1> DEFINE r == callers[c].request
           n == Len(issuedLog) + 1
<1>1. UNCHANGED <<adapter, overlapping>> /\ callers[c].at = "issue"
  BY DEF Issue
<1>2. r \in Requests /\ Len(issuedLog) \in Nat
  BY <1>1, CallFields DEF AdaptersInv, AdaptersTyped
<1>3. /\ Requests' = Requests /\ IndexKeys' = IndexKeys /\ Result' = Result
      /\ \A d, k : Issuing(d, k)' <=> callers'[d].at = "issue" /\ Under(callers'[d].request, k)
      /\ \A i, k : IssuedUnder(i, k)' <=> Under(issuedLog'[i].request, k)
      /\ \A k : IndexNames(k)' <=> (index'[k] # 0 => Under(issuedLog'[index'[k]].request, k))
  BY <1>1, SameKeys
<1>4. /\ issuedLog' \in Seq(Result) /\ Len(issuedLog') = n
      /\ issuedLog'[n].request = r
      /\ \A i \in 1..Len(issuedLog) : issuedLog'[i] = issuedLog[i]
  <2>1. [request |-> r, status |-> "active"] \in Result
    BY <1>2 DEF Result
  <2>2. issuedLog \in Seq(Result)
    BY DEF AdaptersInv, AdaptersTyped
  <2>3. QED
    BY <2>1, <2>2 DEF Issue
<1>5. callers' = [callers EXCEPT ![c] = [at |-> "answered", request |-> r, result |-> n]]
  BY DEF Issue
<1>6. /\ callers'[c] = [at |-> "answered", request |-> r, result |-> n]
      /\ \A d \in Callers : d # c => callers'[d] = callers[d]
  BY <1>5 DEF AdaptersInv, AdaptersTyped
<1>7. AdaptersTyped'
  <2>1. index' \in [IndexKeys -> 0..n]
    <3>1. index \in [IndexKeys -> 0..n]
      <4>1. index \in [IndexKeys -> 0..Len(issuedLog)]
        BY DEF AdaptersInv, AdaptersTyped
      <4>2. QED
        BY <1>2, <4>1
    <3>2. n \in 0..n
      BY <1>2
    <3>3. index' = IF Keyed(r) THEN [index EXCEPT ![IndexKey(r)] = n] ELSE index
      BY DEF Issue
    <3>4. QED
      BY <3>1, <3>2, <3>3
  <2>2. ASSUME NEW d \in Callers PROVE callers'[d] \in CallType'
    <3>1. CASE d = c
      BY <1>2, <1>3, <1>4, <1>6, <3>1 DEF CallType
    <3>2. CASE d # c
      <4>1. callers[d] \in CallType /\ callers'[d] = callers[d]
        BY <1>6, <3>2 DEF AdaptersInv, AdaptersTyped
      <4>2. QED
        BY <1>2, <1>3, <1>4, <4>1 DEF CallType
    <3>3. QED
      BY <3>1, <3>2
  <2>3. callers' \in [Callers -> CallType']
    BY <1>5, <2>2 DEF AdaptersInv, AdaptersTyped
  <2>4. QED
    BY <1>1, <1>3, <1>4, <2>1, <2>3 DEF AdaptersInv, AdaptersTyped
<1>8. ASSUME NEW k \in IndexKeys PROVE IndexNames(k)' /\ KeyOnce(k)'
  <2>1. index[k] \in 0..Len(issuedLog) /\ IndexNames(k) /\ KeyOnce(k)
    BY DEF AdaptersInv, AdaptersTyped
  <2>2. \A i \in 1..Len(issuedLog) : IssuedUnder(i, k)' <=> IssuedUnder(i, k)
    BY <1>3, <1>4 DEF IssuedUnder
  <2>3. ASSUME NEW i \in 1..n, i \notin 1..Len(issuedLog)
        PROVE  IssuedUnder(i, k)' <=> Under(r, k)
    <3>1. i = n
      BY <1>2, <2>3
    <3>2. QED
      BY <1>3, <1>4, <3>1
  <2>4. \A d \in Callers : Issuing(d, k)' <=> d # c /\ Issuing(d, k)
    <3>1. ASSUME NEW d \in Callers, d # c PROVE Issuing(d, k)' <=> Issuing(d, k)
      BY <1>3, <1>6, <3>1 DEF Issuing
    <3>2. ~Issuing(c, k)'
      BY <1>3, <1>6
    <3>3. QED
      BY <3>1, <3>2
  <2>5. CASE Under(r, k)
    <3>1. index'[k] = n
      BY <2>5 DEF Issue, Under, AdaptersInv, AdaptersTyped
    <3>2. IndexNames(k)'
      BY <1>3, <1>4, <2>5, <3>1
    <3>3. ASSUME k \notin overlapping PROVE KeyOnce(k)'
      <4>1. Issuing(c, k)
        BY <1>1, <2>5 DEF Issuing
      <4>2. index[k] = 0 /\ \A d \in Callers : Issuing(d, k) => d = c
        BY <2>1, <3>3, <4>1 DEF KeyOnce
      <4>3. \A d \in Callers : ~Issuing(d, k)'
        BY <2>4, <4>2
      <4>4. \A i \in 1..Len(issuedLog) : ~IssuedUnder(i, k)
        <5>1. \A i \in 1..Len(issuedLog) : IssuedUnder(i, k) => index[k] = i
          BY <2>1, <3>3 DEF KeyOnce
        <5>2. QED
          BY <1>2, <4>2, <5>1
      <4>5. \A i \in 1..n : IssuedUnder(i, k)' => i = n
        BY <1>2, <2>2, <2>3, <4>4
      <4>6. QED
        BY <1>4, <3>1, <4>3, <4>5 DEF KeyOnce
    <3>4. QED
      BY <1>1, <3>2, <3>3 DEF KeyOnce
  <2>6. CASE ~Under(r, k)
    <3>1. index'[k] = index[k]
      BY <2>6 DEF Issue, Under, AdaptersInv, AdaptersTyped
    <3>2. IndexNames(k)'
      <4>1. index[k] # 0 => index[k] \in 1..Len(issuedLog)
        BY <1>2, <2>1
      <4>2. QED
        BY <1>3, <1>4, <2>1, <3>1, <4>1 DEF IndexNames, IssuedUnder
    <3>3. ASSUME k \notin overlapping PROVE KeyOnce(k)'
      <4>1. \A d, e \in Callers : Issuing(d, k)' /\ Issuing(e, k)' => d = e
        BY <2>1, <2>4, <3>3 DEF KeyOnce
      <4>2. \A d \in Callers : Issuing(d, k)' => index'[k] = 0
        BY <2>1, <2>4, <3>1, <3>3 DEF KeyOnce
      <4>3. \A i \in 1..Len(issuedLog) : IssuedUnder(i, k)' => index'[k] = i
        BY <2>1, <2>2, <3>1, <3>3 DEF KeyOnce
      <4>4. \A i \in 1..n : IssuedUnder(i, k)' => index'[k] = i
        BY <1>2, <2>3, <2>6, <4>3
      <4>5. QED
        BY <1>4, <4>1, <4>2, <4>4 DEF KeyOnce
    <3>4. QED
      BY <1>1, <3>2, <3>3 DEF KeyOnce
  <2>7. QED
    BY <2>5, <2>6
<1>9. AnswerFitsKey'
  <2> SUFFICES ASSUME NEW d \in Callers, callers'[d].at = "answered"
               PROVE  ResultFits(callers[d].request, issuedLog[callers[d].result].request)'
    BY DEF AnswerFitsKey
  <2>1. CASE d = c
    BY <1>4, <1>6, <2>1 DEF ResultFits
  <2>2. CASE d # c
    <3>1. callers'[d] = callers[d] /\ callers[d].result \in 1..Len(issuedLog)
      BY <1>6, <2>2, CallFields DEF AdaptersInv
    <3>2. issuedLog'[callers'[d].result] = issuedLog[callers[d].result]
      BY <1>4, <3>1
    <3>3. QED
      BY <1>1, <3>1, <3>2 DEF AdaptersInv, AnswerFitsKey, ResultFits
  <2>3. QED
    BY <2>1, <2>2
<1>10. QED
  BY <1>3, <1>7, <1>8, <1>9 DEF AdaptersInv

\* A cancelled card keeps its number, its request and its key.
LEMMA CancelKeeps ==
  ASSUME AdaptersInv, NEW j \in DOMAIN issuedLog, CancelCard(j)
  PROVE  AdaptersInv'
<1>1. UNCHANGED <<adapter, index, callers, overlapping>>
  BY DEF CancelCard
<1>2. issuedLog \in Seq(Result) /\ DOMAIN issuedLog = 1..Len(issuedLog) /\ Len(issuedLog) \in Nat
  BY DEF AdaptersInv, AdaptersTyped
<1>3. issuedLog' = [issuedLog EXCEPT ![j].status = "cancelled"]
  BY DEF CancelCard
<1>4. issuedLog[j] \in Result /\ [issuedLog[j] EXCEPT !.status = "cancelled"] \in Result
  <2>1. issuedLog[j] \in Result
    BY <1>2
  <2>2. QED
    BY <2>1 DEF Result
<1>5. issuedLog' \in Seq(Result) /\ Len(issuedLog') = Len(issuedLog)
  BY <1>2, <1>3, <1>4
<1>6. \A i \in 1..Len(issuedLog) : issuedLog'[i].request = issuedLog[i].request
  BY <1>2, <1>3, <1>4 DEF Result
<1>7. /\ Requests' = Requests /\ IndexKeys' = IndexKeys /\ Result' = Result
      /\ \A d, k : Issuing(d, k)' <=> Issuing(d, k)
      /\ \A i, k : IssuedUnder(i, k)' <=> Under(issuedLog'[i].request, k)
  BY <1>1, SameKeys DEF Issuing
<1>8. AdaptersTyped'
  BY <1>1, <1>5, <1>7 DEF AdaptersInv, AdaptersTyped, CallType
<1>9. ASSUME NEW k \in IndexKeys PROVE IndexNames(k)' /\ KeyOnce(k)'
  <2>1. \A i \in 1..Len(issuedLog) : IssuedUnder(i, k)' <=> IssuedUnder(i, k)
    BY <1>6, <1>7 DEF IssuedUnder
  <2>2. index[k] # 0 => index[k] \in 1..Len(issuedLog)
    BY <1>2 DEF AdaptersInv, AdaptersTyped
  <2>3. IndexNames(k)'
    BY <1>1, <2>1, <2>2 DEF AdaptersInv, IndexNames
  <2>4. KeyOnce(k)'
    BY <1>1, <1>5, <1>7, <2>1 DEF AdaptersInv, KeyOnce
  <2>5. QED
    BY <2>3, <2>4
<1>10. AnswerFitsKey'
  <2>1. \A d \in Callers : callers[d].at = "answered" => callers[d].result \in 1..Len(issuedLog)
    BY CallFields DEF AdaptersInv
  <2>2. QED
    BY <1>1, <1>6, <2>1 DEF AdaptersInv, AnswerFitsKey, ResultFits
<1>11. QED
  BY <1>7, <1>8, <1>9, <1>10 DEF AdaptersInv

-----------------------------------------------------------------------------

LEMMA AdaptersInvariant == AdaptersSpec => []AdaptersInv
<1>1. AdaptersInit => AdaptersInv
  <2> SUFFICES ASSUME AdaptersInit PROVE AdaptersInv
    OBVIOUS
  <2>1. AdaptersTyped
    BY DEF AdaptersInit, AdaptersTyped, CallType, NoCaller
  <2>2. \A k \in IndexKeys : IndexNames(k) /\ KeyOnce(k)
    BY DEF AdaptersInit, IndexNames, KeyOnce, Issuing, NoCaller
  <2>3. AnswerFitsKey
    BY DEF AdaptersInit, AnswerFitsKey, NoCaller
  <2>4. QED
    BY <2>1, <2>2, <2>3 DEF AdaptersInv
<1>2. AdaptersInv /\ [AdaptersNext]_adapterVars => AdaptersInv'
  <2> SUFFICES ASSUME AdaptersInv, [AdaptersNext]_adapterVars PROVE AdaptersInv'
    OBVIOUS
  <2>1. CASE UNCHANGED adapterVars
    <3>1. UNCHANGED <<adapter, index, issuedLog, callers, overlapping>>
      BY <2>1 DEF adapterVars
    <3>2. /\ IndexKeys' = IndexKeys /\ Result' = Result /\ Requests' = Requests
          /\ \A c, k : Issuing(c, k)' <=> Issuing(c, k)
          /\ \A i, k : IssuedUnder(i, k)' <=> IssuedUnder(i, k)
      BY <3>1, SameKeys DEF Issuing, IssuedUnder
    <3>3. AdaptersTyped' /\ AnswerFitsKey'
      BY <3>1, <3>2 DEF AdaptersInv, AdaptersTyped, CallType, AnswerFitsKey, ResultFits
    <3>4. QED
      BY <3>1, <3>2, <3>3 DEF AdaptersInv, IndexNames, KeyOnce
  <2>2. ASSUME NEW c \in Callers,
               CreateVirtualCard(c) \/ InitiateTransfer(c) \/ PostJournalEntry(c)
        PROVE  AdaptersInv'
    BY <2>2, IssueKeeps DEF CreateVirtualCard, InitiateTransfer, PostJournalEntry
  <2>3. QED
    BY <2>1, <2>2, LookupKeeps, CancelKeeps DEF AdaptersNext
<1>3. QED
  BY <1>1, <1>2, PTL DEF AdaptersSpec

\* Cards, transfers and journal entries are issued once per key, cancelled
\* cards included, unless two calls with the key overlapped.
THEOREM OnePerKey == AdaptersSpec => []IssuedOncePerKey
<1>1. AdaptersInv => IssuedOncePerKey
  <2> SUFFICES ASSUME AdaptersInv, NEW i \in DOMAIN issuedLog, NEW j \in DOMAIN issuedLog,
                      i # j, Keyed(issuedLog[i].request), Keyed(issuedLog[j].request),
                      IndexKey(issuedLog[i].request) = IndexKey(issuedLog[j].request)
               PROVE  IndexKey(issuedLog[i].request) \in overlapping
    BY DEF IssuedOncePerKey
  <2> DEFINE k == IndexKey(issuedLog[i].request)
  <2>1. i \in 1..Len(issuedLog) /\ j \in 1..Len(issuedLog) /\ issuedLog[i].request \in Requests
    BY IssuedFields DEF AdaptersInv, AdaptersTyped
  <2>2. KeyOnce(k)
    BY <2>1, KeyInIndex DEF AdaptersInv
  <2>3. IssuedUnder(i, k) /\ IssuedUnder(j, k)
    BY DEF IssuedUnder, Under
  <2>4. QED
    BY <2>1, <2>2, <2>3 DEF KeyOnce
<1>2. QED
  BY <1>1, AdaptersInvariant, PTL

\* No two calls with one key are past the look-up at the same time.
SerialCalls ==
  \A k \in IndexKeys : \A c, d \in Callers : Issuing(c, k) /\ Issuing(d, k) => c = d

LEMMA SerialNeverOverlaps ==
  ASSUME SerialCalls', overlapping = {}, AdaptersInv, [AdaptersNext]_adapterVars
  PROVE  overlapping' = {}
<1>1. CASE overlapping' = overlapping
  BY <1>1
<1>2. ASSUME NEW c \in Callers, NEW r \in Requests, FindNone(c, r)
     PROVE  overlapping' = {}
  <2>1. SUFFICES ASSUME NEW d \in Callers, Keyed(r), callers[d].at = "issue",
                        IndexKey(callers[d].request) = IndexKey(r)
                 PROVE  FALSE
    BY <1>2 DEF FindNone
  <2>k. PICK k : k = IndexKey(r)
    OBVIOUS
  <2>2. k \in IndexKeys /\ callers[d].request \in Requests
    BY <2>1, <2>k, CallFields DEF IndexKeys, AdaptersInv
  <2>3. Keyed(callers[d].request)
    BY <2>1, <2>2 DEF IndexKey, Keyed, AdaptersInv, AdaptersTyped
  <2>4. d # c
    BY <1>2, <2>1 DEF FindNone
  <2>5. adapter' = adapter
    BY <1>2 DEF FindNone
  <2>6. /\ callers'[d] = callers[d]
        /\ callers'[c] = [at |-> "issue", request |-> r]
    BY <1>2, <2>4 DEF FindNone, AdaptersInv, AdaptersTyped
  <2>7. (Issuing(c, k))' /\ (Issuing(d, k))' /\ k \in IndexKeys'
    <3>1. Under(r, k) /\ Under(callers[d].request, k)
      BY <2>1, <2>3, <2>k DEF Under
    <3>2. QED
      BY <2>1, <2>2, <2>5, <2>6, <3>1, SameKeys
  <2>8. QED
    BY <2>2, <2>4, <2>7 DEF SerialCalls
<1>3. QED
  BY <1>1, <1>2
  DEF AdaptersNext, adapterVars, RefuseUnbalanced, AnswerExisting, CreateVirtualCard,
      InitiateTransfer, PostJournalEntry, Issue, CancelCard

\* Only overlapping calls with one key make an adapter issue twice: where such
\* calls take turns, cards, transfers and journal entries are issued once per
\* key.
THEOREM SerialIssuesOnce ==
  AdaptersSpec /\ []SerialCalls
    => [](\A i, j \in DOMAIN issuedLog :
            LET r == issuedLog[i].request
                q == issuedLog[j].request IN
            Keyed(r) /\ Keyed(q) /\ IndexKey(r) = IndexKey(q) => i = j)
<1> DEFINE Apart == overlapping = {}
           Once == \A i, j \in DOMAIN issuedLog :
                     LET r == issuedLog[i].request
                         q == issuedLog[j].request IN
                     Keyed(r) /\ Keyed(q) /\ IndexKey(r) = IndexKey(q) => i = j
<1>1. AdaptersInit => Apart
  BY DEF AdaptersInit
<1>2. AdaptersInv /\ Apart /\ SerialCalls' /\ [AdaptersNext]_adapterVars => Apart'
  BY SerialNeverOverlaps
<1>3. IssuedOncePerKey /\ Apart => Once
  BY DEF IssuedOncePerKey
<1> HIDE DEF Apart, Once
<1>4. AdaptersSpec /\ []SerialCalls => []Once
  BY <1>1, <1>2, <1>3, AdaptersInvariant, OnePerKey, PTL DEF AdaptersSpec
<1>5. QED
  BY <1>4 DEF Once

\* A card stays in its tenant, and a key left to the adapter fixes the amount,
\* and the whole order where no text has a colon.
THEOREM AnswersFitKeys == AdaptersSpec => []AnswerFitsKey
<1>1. AdaptersInv => AnswerFitsKey
  BY DEF AdaptersInv
<1>2. QED
  BY <1>1, AdaptersInvariant, PTL

-----------------------------------------------------------------------------
(* The expense form and the draft queue *)

TaskType ==
  [at : {"idle", "list"}]
    \cup [at : {"send", "delete"}, draft : Expenses, left : SUBSET Expenses]

FormState == {"blank", "sending", "saving", "done", "abandoned"}

Busy(s) == tasks[s].at \in {"send", "delete"}

DraftsTyped ==
  /\ form \in [Expenses -> FormState]
  /\ drafts \subseteq Expenses
  /\ shown \subseteq Expenses
  /\ tasks \in [Syncs -> TaskType]
  /\ server \in [Expenses -> Nat]
  /\ \A s \in Syncs : Busy(s) => tasks[s].draft \notin tasks[s].left

-----------------------------------------------------------------------------
(* What the shared steps do to the tasks *)

\* A task that is not idle or listing has a draft and the rest of its batch.
LEMMA BusyFields ==
  ASSUME DraftsTyped, NEW s \in Syncs, Busy(s)
  PROVE  /\ tasks[s] \in [at : {"send", "delete"}, draft : Expenses, left : SUBSET Expenses]
         /\ tasks[s].draft \in Expenses
         /\ tasks[s].left \subseteq Expenses
         /\ tasks[s].draft \notin tasks[s].left
         /\ InHand(s) = tasks[s].left \cup {tasks[s].draft}
<1>1. tasks[s] \in TaskType
  BY DEF DraftsTyped
<1>2. tasks[s] \in [at : {"send", "delete"}, draft : Expenses, left : SUBSET Expenses]
  BY <1>1 DEF TaskType, Busy
<1>3. QED
  BY <1>2 DEF DraftsTyped, Busy, InHand

\* The loop goes on with what is left of its batch, and other syncs do not move.
LEMMA NextDraftEffect ==
  ASSUME DraftsTyped, NEW s \in Syncs, Busy(s), NextDraft(s)
  PROVE  /\ tasks' \in [Syncs -> TaskType]
         /\ \A r \in Syncs : r # s => tasks'[r] = tasks[r]
         /\ InHand(s)' = tasks[s].left
         /\ tasks'[s].at # "delete"
         /\ Busy(s)' => tasks'[s].draft \notin tasks'[s].left
<1> USE BusyFields
<1>1. CASE tasks[s].left = {} /\ tasks' = [tasks EXCEPT ![s] = NoTask]
  BY <1>1 DEF DraftsTyped, TaskType, NoTask, InHand, Busy
<1>2. CASE \E e \in tasks[s].left :
             tasks' = [tasks EXCEPT ![s] =
               [at |-> "send", draft |-> e, left |-> tasks[s].left \ {e}]]
  <2>1. PICK e \in tasks[s].left :
             tasks' = [tasks EXCEPT ![s] =
               [at |-> "send", draft |-> e, left |-> tasks[s].left \ {e}]]
    BY <1>2
  <2>2. [at |-> "send", draft |-> e, left |-> tasks[s].left \ {e}] \in TaskType
    BY DEF TaskType
  <2>3. tasks'[s] = [at |-> "send", draft |-> e, left |-> tasks[s].left \ {e}]
    BY <2>1 DEF DraftsTyped
  <2>4. tasks' \in [Syncs -> TaskType] /\ \A r \in Syncs : r # s => tasks'[r] = tasks[r]
    BY <2>1, <2>2 DEF DraftsTyped
  <2>5. InHand(s)' = tasks[s].left
    BY <2>3 DEF InHand
  <2>6. QED
    BY <2>3, <2>4, <2>5 DEF Busy
<1>3. QED
  BY <1>1, <1>2 DEF NextDraft

\* A sync takes its whole batch in hand, and other syncs do not move.
LEMMA WorkOnEffect ==
  ASSUME DraftsTyped, NEW s \in Syncs, NEW batch \in SUBSET Expenses, WorkOn(s, batch)
  PROVE  /\ tasks' \in [Syncs -> TaskType]
         /\ \A r \in Syncs : r # s => tasks'[r] = tasks[r]
         /\ InHand(s)' = batch
         /\ tasks'[s].at # "delete"
         /\ Busy(s)' => tasks'[s].draft \notin tasks'[s].left
<1>1. PICK e \in batch :
        tasks' = [tasks EXCEPT ![s] = [at |-> "send", draft |-> e, left |-> batch \ {e}]]
  BY DEF WorkOn
<1>2. [at |-> "send", draft |-> e, left |-> batch \ {e}] \in TaskType
  BY DEF TaskType
<1>3. tasks'[s] = [at |-> "send", draft |-> e, left |-> batch \ {e}]
  BY <1>1 DEF DraftsTyped
<1>4. tasks' \in [Syncs -> TaskType] /\ \A r \in Syncs : r # s => tasks'[r] = tasks[r]
  BY <1>1, <1>2 DEF DraftsTyped
<1>5. InHand(s)' = batch
  BY <1>3 DEF InHand
<1>6. QED
  BY <1>3, <1>4, <1>5 DEF Busy

\* The answered draft is up for deletion; the batch in hand is the same.
LEMMA SentEffect ==
  ASSUME DraftsTyped, NEW s \in Syncs, SyncSent(s)
  PROVE  /\ tasks' \in [Syncs -> TaskType]
         /\ \A r \in Syncs : r # s => tasks'[r] = tasks[r]
         /\ InHand(s)' = InHand(s)
         /\ tasks'[s].at = "delete"
         /\ tasks'[s].draft = tasks[s].draft
         /\ tasks'[s].left = tasks[s].left
<1>1. Busy(s)
  BY DEF SyncSent, Busy
<1>2. tasks[s] \in [at : {"send", "delete"}, draft : Expenses, left : SUBSET Expenses]
  BY <1>1, BusyFields
<1>3. tasks'[s] = [tasks[s] EXCEPT !.at = "delete"] /\ \A r \in Syncs : r # s => tasks'[r] = tasks[r]
  BY DEF SyncSent, DraftsTyped
<1>4. tasks'[s] \in [at : {"send", "delete"}, draft : Expenses, left : SUBSET Expenses]
  BY <1>2, <1>3
<1>5. tasks' \in [Syncs -> TaskType]
  BY <1>4 DEF SyncSent, DraftsTyped, TaskType
<1>6. /\ tasks'[s].at = "delete"
      /\ tasks'[s].draft = tasks[s].draft
      /\ tasks'[s].left = tasks[s].left
  BY <1>2, <1>3
<1>7. InHand(s)' = InHand(s)
  BY <1>1, <1>6 DEF InHand, Busy
<1>8. QED
  BY <1>3, <1>5, <1>6, <1>7

\* One more request at the server, for one expense.
LEMMA TakeEffect ==
  ASSUME DraftsTyped, NEW e \in Expenses, Take(e)
  PROVE  /\ server' \in [Expenses -> Nat]
         /\ server'[e] = server[e] + 1
         /\ \A f \in Expenses : f # e => server'[f] = server[f]
  BY DEF Take, DraftsTyped

-----------------------------------------------------------------------------
(* Types *)

\* The form's steps, and the discard button, keep the types.
LEMMA FormTyped ==
  ASSUME DraftsTyped, NEW e \in Expenses,
         \/ SubmitForm(e) \/ FormSent(e) \/ FormFailed(e) \/ SaveDraft(e)
         \/ SaveFails(e) \/ DiscardDraft(e)
  PROVE  DraftsTyped'
<1>1. server' \in [Expenses -> Nat]
  BY TakeEffect DEF SubmitForm, FormSent, FormFailed, SaveDraft, SaveFails, DiscardDraft, DraftsTyped
<1>2. form' \in [Expenses -> FormState]
  BY DEF SubmitForm, FormSent, FormFailed, SaveDraft, SaveFails, DiscardDraft, DraftsTyped, FormState
<1>3. drafts' \subseteq Expenses /\ shown' \subseteq Expenses
  BY DEF SubmitForm, FormSent, FormFailed, SaveDraft, SaveFails, DiscardDraft, DraftsTyped
<1>4. tasks' = tasks
  BY DEF SubmitForm, FormSent, FormFailed, SaveDraft, SaveFails, DiscardDraft
<1>5. QED
  BY <1>1, <1>2, <1>3, <1>4 DEF DraftsTyped, Busy

\* The page-wide steps keep the types.
LEMMA PageTyped ==
  ASSUME DraftsTyped, LoadDrafts \/ GoOffline \/ ClosePage
  PROVE  DraftsTyped'
<1>1. server' \in [Expenses -> Nat] /\ drafts' \subseteq Expenses /\ shown' \subseteq Expenses
  BY DEF LoadDrafts, GoOffline, ClosePage, DraftsTyped
<1>2. form' \in [Expenses -> FormState]
  BY DEF LoadDrafts, GoOffline, ClosePage, DraftsTyped, FormState
<1>3. tasks' \in [Syncs -> TaskType] /\ \A s \in Syncs : Busy(s)' => tasks'[s] = tasks[s]
  BY DEF LoadDrafts, GoOffline, ClosePage, DraftsTyped, TaskType, NoTask, Busy
<1>4. QED
  BY <1>1, <1>2, <1>3 DEF DraftsTyped, Busy

\* Starting a sync: nothing is in hand before or after.
LEMMA StartEffect ==
  ASSUME DraftsTyped, NEW s \in Syncs, GoOnline(s) \/ SyncAll(s)
  PROVE  /\ tasks' \in [Syncs -> TaskType]
         /\ \A r \in Syncs : r # s => tasks'[r] = tasks[r]
         /\ ~Busy(s) /\ ~Busy(s)' /\ InHand(s) = {} /\ InHand(s)' = {}
         /\ UNCHANGED <<form, drafts, shown, server, discarded, doubtful>>
  BY DEF GoOnline, SyncAll, DraftsTyped, TaskType, NoTask, Busy, InHand

\* The syncs keep the types.
LEMMA SyncTyped ==
  ASSUME DraftsTyped, NEW s \in Syncs,
         \/ GoOnline(s) \/ SyncAll(s) \/ ListDrafts(s) \/ SyncSingle(s) \/ SyncSent(s)
         \/ SyncFailed(s) \/ SyncDelete(s) \/ DeleteFails(s)
  PROVE  DraftsTyped'
<1>1. form' = form /\ shown' = shown /\ drafts' \subseteq drafts
  BY DEF GoOnline, SyncAll, ListDrafts, SyncSingle, SyncSent, SyncFailed, SyncDelete, DeleteFails
<1>2. server' \in [Expenses -> Nat]
  <2>1. CASE SyncSent(s) \/ SyncFailed(s)
    BY <2>1, BusyFields, TakeEffect DEF SyncSent, SyncFailed, Busy, DraftsTyped
  <2>2. CASE ~(SyncSent(s) \/ SyncFailed(s))
    BY <2>2 DEF GoOnline, SyncAll, ListDrafts, SyncSingle, SyncDelete, DeleteFails, DraftsTyped
  <2>3. QED
    BY <2>1, <2>2
<1>3. /\ tasks' \in [Syncs -> TaskType]
      /\ \A r \in Syncs : r # s => tasks'[r] = tasks[r]
      /\ Busy(s)' => tasks'[s].draft \notin tasks'[s].left
  <2>1. CASE GoOnline(s) \/ SyncAll(s)
    BY <2>1, StartEffect
  <2>2. CASE ListDrafts(s)
    <3>1. CASE WorkOn(s, drafts)
      BY <3>1, WorkOnEffect DEF DraftsTyped
    <3>2. CASE tasks' = [tasks EXCEPT ![s] = NoTask]
      BY <3>2 DEF DraftsTyped, TaskType, NoTask, Busy
    <3>3. QED
      BY <2>2, <3>1, <3>2 DEF ListDrafts
  <2>3. CASE SyncSingle(s)
    <3>1. PICK e \in shown : WorkOn(s, {e})
      BY <2>3 DEF SyncSingle
    <3>2. {e} \in SUBSET Expenses
      BY DEF DraftsTyped
    <3>3. QED
      BY <3>1, <3>2, WorkOnEffect
  <2>4. CASE SyncSent(s)
    BY <2>4, SentEffect, BusyFields DEF SyncSent, Busy
  <2>5. CASE SyncFailed(s) \/ SyncDelete(s) \/ DeleteFails(s)
    BY <2>5, NextDraftEffect DEF SyncFailed, SyncDelete, DeleteFails, Busy
  <2>6. QED
    BY <2>1, <2>2, <2>3, <2>4, <2>5
<1>4. ASSUME NEW r \in Syncs, Busy(r)' PROVE tasks'[r].draft \notin tasks'[r].left
  BY <1>3, <1>4 DEF DraftsTyped, Busy
<1>5. QED
  BY <1>1, <1>2, <1>3, <1>4 DEF DraftsTyped

\* Every step keeps the types.
LEMMA DraftsTypedStep ==
  ASSUME DraftsTyped, [DraftsNext]_draftVars
  PROVE  DraftsTyped'
<1>1. CASE UNCHANGED draftVars
  BY <1>1 DEF draftVars, DraftsTyped, Busy
<1>2. QED
  BY <1>1, FormTyped, PageTyped, SyncTyped DEF DraftsNext

\* The first page has the types.
LEMMA DraftsTypedInit == DraftsInit => DraftsTyped
  BY DEF DraftsInit, DraftsTyped, TaskType, NoTask, Busy, FormState

-----------------------------------------------------------------------------
(* Nothing is lost *)

KeptInv ==
  /\ \A s \in Syncs : tasks[s].at = "delete" => server[tasks[s].draft] > 0
  /\ SubmissionKept

\* Every step keeps each finished expense somewhere: a draft goes only when the
\* server has answered for it or the user says so.
LEMMA KeptStep ==
  ASSUME DraftsTyped, KeptInv, [DraftsNext]_draftVars
  PROVE  KeptInv'
<1>1. ASSUME NEW e \in Expenses,
             \/ SubmitForm(e) \/ FormSent(e) \/ FormFailed(e) \/ SaveDraft(e)
             \/ SaveFails(e) \/ DiscardDraft(e)
      PROVE  KeptInv'
  <2>1. tasks' = tasks /\ \A f \in Expenses : server'[f] >= server[f] /\ server'[f] \in Nat
    BY <1>1, TakeEffect
    DEF SubmitForm, FormSent, FormFailed, SaveDraft, SaveFails, DiscardDraft, DraftsTyped
  <2>2. ASSUME NEW s \in Syncs, tasks[s].at = "delete" PROVE server'[tasks[s].draft] > 0
    BY <2>1, <2>2, BusyFields DEF KeptInv, Busy, DraftsTyped
  <2>3. ASSUME NEW f \in Expenses, form'[f] = "done"
        PROVE  server'[f] > 0 \/ f \in drafts' \cup discarded'
    <3>1. CASE f # e
      <4>1. form[f] = "done" /\ drafts \cup discarded \subseteq drafts' \cup discarded'
        BY <1>1, <2>3, <3>1
        DEF SubmitForm, FormSent, FormFailed, SaveDraft, SaveFails, DiscardDraft, DraftsTyped
      <4>2. QED
        BY <2>1, <4>1 DEF KeptInv, SubmissionKept, DraftsTyped
    <3>2. CASE f = e /\ (FormSent(e) \/ SaveDraft(e) \/ DiscardDraft(e))
      BY <2>3, <3>2, TakeEffect DEF FormSent, SaveDraft, DiscardDraft, DraftsTyped
    <3>3. CASE f = e /\ (SubmitForm(e) \/ FormFailed(e) \/ SaveFails(e))
      BY <2>3, <3>3 DEF SubmitForm, FormFailed, SaveFails, DraftsTyped
    <3>4. QED
      BY <1>1, <3>1, <3>2, <3>3
  <2>4. QED
    BY <2>1, <2>2, <2>3 DEF KeptInv, SubmissionKept
<1>2. ASSUME LoadDrafts \/ GoOffline \/ ClosePage PROVE KeptInv'
  <2>1. /\ UNCHANGED <<server, drafts, discarded>>
        /\ \A f \in Expenses : form'[f] = "done" => form[f] = "done"
        /\ \A s \in Syncs : tasks'[s].at = "delete" => tasks'[s] = tasks[s]
    BY <1>2 DEF LoadDrafts, GoOffline, ClosePage, NoTask, DraftsTyped
  <2>2. QED
    BY <2>1 DEF KeptInv, SubmissionKept
<1>3. ASSUME NEW s \in Syncs, GoOnline(s) \/ SyncAll(s) \/ ListDrafts(s) \/ SyncSingle(s)
      PROVE  KeptInv'
  <2>1. UNCHANGED <<form, server, drafts, discarded>>
    BY <1>3 DEF GoOnline, SyncAll, ListDrafts, SyncSingle
  <2>2. tasks'[s].at # "delete" /\ \A r \in Syncs : r # s => tasks'[r] = tasks[r]
    <3>1. CASE GoOnline(s) \/ SyncAll(s)
      BY <3>1, StartEffect DEF Busy
    <3>2. CASE ListDrafts(s)
      BY <3>2, WorkOnEffect DEF ListDrafts, DraftsTyped, NoTask
    <3>3. CASE SyncSingle(s)
      <4>1. PICK e \in shown : WorkOn(s, {e})
        BY <3>3 DEF SyncSingle
      <4>2. {e} \in SUBSET Expenses
        BY DEF DraftsTyped
      <4>3. QED
        BY <4>1, <4>2, WorkOnEffect
    <3>4. QED
      BY <1>3, <3>1, <3>2, <3>3
  <2>3. QED
    BY <2>1, <2>2 DEF KeptInv, SubmissionKept
<1>4. ASSUME NEW s \in Syncs, SyncSent(s) PROVE KeptInv'
  <2>1. tasks[s].draft \in Expenses /\ Take(tasks[s].draft)
    BY <1>4, BusyFields DEF SyncSent, Busy
  <2>2. server'[tasks[s].draft] > 0 /\ \A f \in Expenses : server[f] > 0 => server'[f] > 0
    BY <2>1, TakeEffect DEF DraftsTyped
  <2>3. ASSUME NEW r \in Syncs, tasks'[r].at = "delete" PROVE server'[tasks'[r].draft] > 0
    <3>1. CASE r = s
      BY <1>4, <2>2, <3>1, SentEffect
    <3>2. CASE r # s
      BY <1>4, <2>2, <2>3, <3>2, SentEffect, BusyFields DEF KeptInv, Busy
    <3>3. QED
      BY <3>1, <3>2
  <2>4. QED
    BY <1>4, <2>2, <2>3 DEF KeptInv, SubmissionKept, SyncSent
<1>5. ASSUME NEW s \in Syncs, SyncFailed(s) \/ SyncDelete(s) \/ DeleteFails(s)
      PROVE  KeptInv'
  <2>1. /\ tasks[s].draft \in Expenses
        /\ tasks'[s].at # "delete"
        /\ \A r \in Syncs : r # s => tasks'[r] = tasks[r]
    BY <1>5, BusyFields, NextDraftEffect DEF SyncFailed, SyncDelete, DeleteFails, Busy
  <2>2. \A f \in Expenses : server[f] > 0 => server'[f] > 0
    BY <1>5, <2>1, TakeEffect DEF SyncFailed, SyncDelete, DeleteFails, DraftsTyped
  <2>3. ASSUME NEW r \in Syncs, tasks'[r].at = "delete" PROVE server'[tasks'[r].draft] > 0
    BY <2>1, <2>2, <2>3, BusyFields DEF KeptInv, Busy
  <2>4. ASSUME NEW f \in Expenses, form[f] = "done"
        PROVE  server'[f] > 0 \/ f \in drafts' \cup discarded'
    <3>1. CASE f # tasks[s].draft \/ ~SyncDelete(s)
      BY <1>5, <2>2, <2>4, <3>1
      DEF KeptInv, SubmissionKept, SyncFailed, SyncDelete, DeleteFails
    <3>2. CASE f = tasks[s].draft /\ SyncDelete(s)
      BY <3>2 DEF KeptInv, SyncDelete
    <3>3. QED
      BY <3>1, <3>2
  <2>5. form' = form
    BY <1>5 DEF SyncFailed, SyncDelete, DeleteFails
  <2>6. QED
    BY <2>3, <2>4, <2>5 DEF KeptInv, SubmissionKept
<1>6. CASE UNCHANGED draftVars
  BY <1>6 DEF draftVars, KeptInv, SubmissionKept
<1>7. QED
  BY <1>1, <1>2, <1>3, <1>4, <1>5, <1>6 DEF DraftsNext

\* An expense whose form handler finished reached the server, waits as a draft
\* or was discarded by the user, whatever syncs, failures and closed pages do.
THEOREM NothingLost == DraftsSpec => []SubmissionKept
<1>1. DraftsInit => KeptInv
  BY DEF DraftsInit, KeptInv, SubmissionKept, NoTask
<1>2. KeptInv => SubmissionKept
  BY DEF KeptInv
<1>3. QED
  BY <1>1, <1>2, DraftsTypedInit, DraftsTypedStep, KeptStep, PTL DEF DraftsSpec

-----------------------------------------------------------------------------
(* Nothing is sent twice *)

\* What holds of an expense no recorded cause has touched: one sync at most
\* has it in hand, and once it is at the server its draft is about to be
\* deleted or gone.
Settled(e) ==
  /\ server[e] <= 1
  /\ form[e] # "done" =>
       /\ server[e] = 0
       /\ e \notin drafts
       /\ \A s \in Syncs : e \notin InHand(s)
  /\ \A s, r \in Syncs : e \in InHand(s) /\ e \in InHand(r) => s = r
  /\ server[e] = 1 =>
       /\ \A s \in Syncs : e \in InHand(s) => tasks[s].at = "delete" /\ tasks[s].draft = e
       /\ e \in drafts => \E s \in Syncs : e \in InHand(s)

OnceInv == \A e \in Expenses : e \in doubtful \/ Settled(e)

\* An expense whose state does not change, but for fewer drafts, stays settled.
LEMMA UntouchedSettled ==
  ASSUME NEW e \in Expenses, Settled(e), UNCHANGED <<tasks>>,
         server'[e] = server[e],
         form'[e] = form[e] \/ (form[e] # "done" /\ form'[e] # "done"),
         e \in drafts' => e \in drafts
  PROVE  Settled(e)'
  BY DEF Settled, InHand

\* The steps of a sync on one expense that is not doubtful: its hold on it may
\* only be given up, and not while the draft exists and the server has it.
LEMMA ReleaseSettled ==
  ASSUME NEW e \in Expenses, Settled(e), NEW s \in Syncs,
         server'[e] = server[e], form'[e] = form[e],
         e \in drafts' => e \in drafts,
         \A r \in Syncs : r # s => tasks'[r] = tasks[r],
         e \in InHand(s)' => e \in InHand(s) /\ server[e] # 1,
         server[e] = 1 /\ e \in drafts' => e \notin InHand(s)
  PROVE  Settled(e)'
<1>1. \A r \in Syncs : r # s => InHand(r)' = InHand(r)
  BY DEF InHand
<1>2. QED
  BY <1>1 DEF Settled

\* The form sends an expense only while it is nowhere else.
LEMMA FormOnce ==
  ASSUME DraftsTyped, OnceInv, NEW e \in Expenses,
         \/ SubmitForm(e) \/ FormSent(e) \/ FormFailed(e) \/ SaveDraft(e)
         \/ SaveFails(e) \/ DiscardDraft(e)
  PROVE  OnceInv'
<1> SUFFICES ASSUME NEW f \in Expenses, f \notin doubtful'
             PROVE  Settled(f)'
  BY DEF OnceInv
<1>1. f \notin doubtful /\ Settled(f) /\ UNCHANGED tasks
  BY DEF SubmitForm, FormSent, FormFailed, SaveDraft, SaveFails, DiscardDraft, OnceInv
<1>2. CASE f # e
  <2>1. form'[f] = form[f] /\ (f \in drafts' => f \in drafts)
    BY <1>2 DEF SubmitForm, FormSent, FormFailed, SaveDraft, SaveFails, DiscardDraft, DraftsTyped
  <2>2. server'[f] = server[f]
    BY <1>2, TakeEffect DEF SubmitForm, FormSent, FormFailed, SaveDraft, SaveFails, DiscardDraft
  <2>3. QED
    BY <1>1, <2>1, <2>2, UntouchedSettled
<1>3. CASE f = e /\ (SubmitForm(e) \/ SaveFails(e) \/ DiscardDraft(e))
  <2>1. /\ server' = server
        /\ f \in drafts' => f \in drafts
        /\ form'[f] = form[f] \/ (form[f] # "done" /\ form'[f] # "done")
    BY <1>3 DEF SubmitForm, SaveFails, DiscardDraft, DraftsTyped
  <2>2. QED
    BY <1>1, <2>1, UntouchedSettled
<1>4. CASE f = e /\ FormFailed(e)
  <2>1. server' = server
    BY <1>4 DEF FormFailed
  <2>2. f \in drafts' => f \in drafts
    BY <1>4 DEF FormFailed
  <2>3. form[f] # "done" /\ form'[f] # "done"
    BY <1>4 DEF FormFailed, DraftsTyped
  <2>4. QED
    BY <1>1, <2>1, <2>2, <2>3, UntouchedSettled
<1>5. CASE f = e /\ (FormSent(e) \/ SaveDraft(e))
  <2>1. form[e] # "done" /\ form'[e] = "done"
    BY <1>5 DEF FormSent, SaveDraft, DraftsTyped
  <2>2. server[e] = 0 /\ e \notin drafts /\ \A s \in Syncs : e \notin InHand(s)
    BY <1>1, <1>5, <2>1 DEF Settled
  <2>3. \A s \in Syncs : InHand(s)' = InHand(s)
    BY <1>1 DEF InHand
  <2>4. CASE FormSent(e)
    <3>1. server'[e] = 1 /\ drafts' = drafts
      BY <2>2, <2>4, TakeEffect DEF FormSent
    <3>2. QED
      BY <1>5, <2>1, <2>2, <2>3, <3>1 DEF Settled
  <2>5. CASE SaveDraft(e)
    BY <1>5, <2>1, <2>2, <2>3, <2>5 DEF Settled, SaveDraft
  <2>6. QED
    BY <1>5, <2>4, <2>5
<1>6. QED
  BY <1>2, <1>3, <1>4, <1>5

\* Closing the page makes doubtful what was between answer and deletion.
LEMMA PageOnce ==
  ASSUME DraftsTyped, OnceInv, LoadDrafts \/ GoOffline \/ ClosePage
  PROVE  OnceInv'
<1> SUFFICES ASSUME NEW f \in Expenses, f \notin doubtful'
             PROVE  Settled(f)'
  BY DEF OnceInv
<1>1. f \notin doubtful /\ Settled(f) /\ UNCHANGED <<server, drafts>>
  BY DEF LoadDrafts, GoOffline, ClosePage, OnceInv
<1>2. CASE LoadDrafts \/ GoOffline
  <2>1. UNCHANGED <<form, tasks>>
    BY <1>2 DEF LoadDrafts, GoOffline
  <2>2. QED
    BY <1>1, <2>1, UntouchedSettled
<1>3. CASE ClosePage
  <2>1. \A s \in Syncs : InHand(s)' = {}
    BY <1>3 DEF ClosePage, NoTask, InHand
  <2>2. form'[f] # "done" => form[f] # "done"
    BY <1>3 DEF ClosePage
  <2>3. \A s \in Syncs : tasks[s].at = "delete" => tasks[s].draft # f
    BY <1>3 DEF ClosePage
  <2>4. server[f] = 1 => f \notin drafts
    BY <1>1, <2>3 DEF Settled
  <2>5. QED
    BY <1>1, <2>1, <2>2, <2>4 DEF Settled
<1>4. QED
  BY <1>2, <1>3

\* Taking a batch in hand: what another sync holds, or is no draft any more,
\* becomes doubtful; the rest cannot be at the server yet.
LEMMA WorkOnOnce ==
  ASSUME DraftsTyped, OnceInv, NEW s \in Syncs, ~Busy(s),
         NEW batch \in SUBSET Expenses, WorkOn(s, batch),
         UNCHANGED <<form, drafts, server>>
  PROVE  OnceInv'
<1> SUFFICES ASSUME NEW f \in Expenses, f \notin doubtful'
             PROVE  Settled(f)'
  BY DEF OnceInv
<1>1. f \notin doubtful /\ Settled(f)
  BY DEF WorkOn, OnceInv
<1>2. f \in batch => f \in drafts /\ \A r \in Syncs : f \notin InHand(r)
  BY DEF WorkOn
<1>3. InHand(s)' = batch /\ \A r \in Syncs : r # s => InHand(r)' = InHand(r)
  BY WorkOnEffect DEF InHand
<1>4. InHand(s) = {}
  BY DEF Busy, InHand
<1>5. CASE f \in batch
  <2>1. server[f] = 0 /\ form[f] = "done"
    BY <1>1, <1>2, <1>5 DEF Settled, DraftsTyped
  <2>2. QED
    BY <1>2, <1>3, <1>5, <2>1 DEF Settled
<1>6. CASE f \notin batch
  <2>1. \A r \in Syncs : f \in InHand(r)' => r # s /\ f \in InHand(r) /\ tasks'[r] = tasks[r]
    BY <1>3, <1>6, WorkOnEffect
  <2>2. \A r \in Syncs : f \in InHand(r) => r # s /\ f \in InHand(r)'
    BY <1>3, <1>4
  <2>3. QED
    BY <1>1, <2>1, <2>2 DEF Settled
<1>7. QED
  BY <1>5, <1>6

\* Only the one holder of an expense sends it, and only if it was not sent.
LEMMA SentOnce ==
  ASSUME DraftsTyped, OnceInv, NEW s \in Syncs, SyncSent(s)
  PROVE  OnceInv'
<1> SUFFICES ASSUME NEW f \in Expenses, f \notin doubtful'
             PROVE  Settled(f)'
  BY DEF OnceInv
<1> DEFINE d == tasks[s].draft
<1>1. f \notin doubtful /\ Settled(f) /\ UNCHANGED <<form, drafts>>
  BY DEF SyncSent, OnceInv
<1>2. d \in Expenses /\ d \in InHand(s) /\ Take(d) /\ tasks[s].at = "send"
  BY BusyFields DEF SyncSent, Busy
<1>3. \A r \in Syncs : InHand(r)' = InHand(r)
  BY SentEffect DEF InHand
<1>4. CASE f = d
  <2>1. server[f] = 0
    BY <1>1, <1>2, <1>4 DEF Settled, DraftsTyped
  <2>2. server'[f] = 1
    BY <1>2, <1>4, <2>1, TakeEffect
  <2>3. form[f] = "done" /\ \A r \in Syncs : f \in InHand(r) => r = s
    BY <1>1, <1>2, <1>4 DEF Settled
  <2>4. tasks'[s].at = "delete" /\ tasks'[s].draft = f
    BY <1>4, SentEffect
  <2>5. QED
    BY <1>1, <1>2, <1>3, <1>4, <2>2, <2>3, <2>4 DEF Settled
<1>5. CASE f # d
  <2>1. server'[f] = server[f]
    BY <1>2, <1>5, TakeEffect
  <2>2. \A r \in Syncs : r # s => tasks'[r] = tasks[r]
    BY SentEffect
  <2>3. server[f] = 1 => f \notin InHand(s)
    BY <1>1, <1>2 DEF Settled
  <2>4. QED
    BY <1>1, <1>3, <2>1, <2>2, <2>3 DEF Settled
<1>6. QED
  BY <1>4, <1>5

\* The ends of a turn of the loop: the failed submission, the deleted draft
\* and the failed deletion.
LEMMA TurnOnce ==
  ASSUME DraftsTyped, OnceInv, NEW s \in Syncs,
         SyncFailed(s) \/ SyncDelete(s) \/ DeleteFails(s)
  PROVE  OnceInv'
<1> SUFFICES ASSUME NEW f \in Expenses, f \notin doubtful'
             PROVE  Settled(f)'
  BY DEF OnceInv
<1> DEFINE d == tasks[s].draft
<1>1. f \notin doubtful /\ Settled(f) /\ form'[f] = form[f] /\ (f \in drafts' => f \in drafts)
  BY DEF SyncFailed, SyncDelete, DeleteFails, OnceInv
<1>2. Busy(s) /\ NextDraft(s) /\ d \in Expenses
  BY BusyFields DEF SyncFailed, SyncDelete, DeleteFails, Busy
<1>3. /\ \A r \in Syncs : r # s => tasks'[r] = tasks[r]
      /\ InHand(s)' = tasks[s].left
      /\ InHand(s) = tasks[s].left \cup {d} /\ d \notin tasks[s].left
  BY <1>2, NextDraftEffect, BusyFields
<1>4. server'[f] = server[f]
  <2>1. CASE SyncFailed(s)
    BY <1>2, <2>1, TakeEffect DEF SyncFailed
  <2>2. CASE SyncDelete(s) \/ DeleteFails(s)
    BY <2>2 DEF SyncDelete, DeleteFails
  <2>3. QED
    BY <2>1, <2>2
<1>5. f \in InHand(s)' => f \in InHand(s) /\ server[f] # 1
  BY <1>1, <1>3 DEF Settled
<1>6. server[f] = 1 /\ f \in drafts' => f \notin InHand(s)
  BY <1>1 DEF Settled, SyncFailed, SyncDelete, DeleteFails
<1>7. QED
  BY <1>1, <1>3, <1>4, <1>5, <1>6, ReleaseSettled

\* Starting a sync, with or without drafts to send.
LEMMA StartOnce ==
  ASSUME DraftsTyped, OnceInv, NEW s \in Syncs,
         GoOnline(s) \/ SyncAll(s) \/ ListDrafts(s) \/ SyncSingle(s)
  PROVE  OnceInv'
<1>1. ~Busy(s) /\ UNCHANGED <<form, drafts, server>>
  BY DEF GoOnline, SyncAll, ListDrafts, SyncSingle, NoTask, Busy
<1>2. ASSUME UNCHANGED doubtful, InHand(s)' = {},
             \A r \in Syncs : r # s => tasks'[r] = tasks[r]
      PROVE  OnceInv'
  <2>1. InHand(s) = {}
    BY <1>1 DEF Busy, InHand
  <2>2. ASSUME NEW f \in Expenses, Settled(f) PROVE Settled(f)'
    BY <1>1, <1>2, <2>1, <2>2, ReleaseSettled
  <2>3. QED
    BY <1>2, <2>2 DEF OnceInv
<1>3. CASE GoOnline(s) \/ SyncAll(s)
  BY <1>2, <1>3, StartEffect
<1>4. CASE ListDrafts(s)
  <2>1. CASE WorkOn(s, drafts)
    BY <1>1, <2>1, WorkOnOnce DEF DraftsTyped
  <2>2. CASE tasks' = [tasks EXCEPT ![s] = NoTask] /\ UNCHANGED doubtful
    BY <1>2, <2>2 DEF DraftsTyped, NoTask, InHand
  <2>3. QED
    BY <1>4, <2>1, <2>2 DEF ListDrafts
<1>5. CASE SyncSingle(s)
  <2>1. PICK e \in shown : WorkOn(s, {e})
    BY <1>5 DEF SyncSingle
  <2>2. {e} \in SUBSET Expenses
    BY DEF DraftsTyped
  <2>3. QED
    BY <1>1, <2>1, <2>2, WorkOnOnce
<1>6. QED
  BY <1>3, <1>4, <1>5

\* The server has two requests of one expense only after a lost answer, a
\* failed or interrupted deletion, or two syncs at work on the same draft.
THEOREM SentAtMostOnce == DraftsSpec => []SubmittedOnce
<1>1. DraftsInit => OnceInv
  BY DEF DraftsInit, OnceInv, Settled, InHand, NoTask
<1>2. ASSUME DraftsTyped, OnceInv, [DraftsNext]_draftVars PROVE OnceInv'
  <2>1. CASE UNCHANGED draftVars
    <3>1. \A e \in Expenses : Settled(e) => Settled(e)'
      BY <2>1, UntouchedSettled DEF draftVars
    <3>2. QED
      BY <1>2, <2>1, <3>1 DEF OnceInv, draftVars
  <2>2. QED
    BY <1>2, <2>1, FormOnce, PageOnce, StartOnce, SentOnce, TurnOnce DEF DraftsNext
<1>3. DraftsTyped /\ OnceInv => SubmittedOnce
  BY DEF DraftsTyped, OnceInv, Settled, SubmittedOnce
<1>4. QED
  BY <1>1, <1>2, <1>3, DraftsTypedInit, DraftsTypedStep, PTL DEF DraftsSpec
=============================================================================
