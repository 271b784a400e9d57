---------------------------- MODULE IssuingAdapters ----------------------------
(***************************************************************************)
(* The adapters that issue something once per idempotency key: virtual     *)
(* cards (src/infrastructure/adapters/card_issuer.py), ACH transfers       *)
(* (src/infrastructure/banking/plaid_adapter.py) and journal entries       *)
(* (src/infrastructure/erp/sap_adapter.py and netsuite_adapter.py).  All   *)
(* of them look the key up in a dictionary, build the result and store it, *)
(* without a lock.  A text is the sequence of its pieces between colons,   *)
(* so that joining texts with ":" is concatenation: ("a:b", "c") and       *)
(* ("a", "b:c") join to the same text.  A digest of a text is the text.    *)
(***************************************************************************)
EXTENDS Naturals, Sequences, FiniteSets

CONSTANTS
  Pieces,         \* texts without a colon
  CardOrders,     \* what cards are requested for
  DocumentOrders, \* what transfers and journal entries are made for
  Keys,           \* idempotency keys passed by callers
  NoKeyGiven,     \* idempotency_key not passed
  BuiltKey,       \* the key build_replenishment_entry gives its entry
  Callers,        \* threads
  MaxIssued       \* bound: results issued

Text == Seq(Pieces)

\* reference is the custodian_id of a card, else the reference_document; only
\* cards have a fund_id.
Order == [tenant : Text, reference : Text, fund : Text, amount : Nat]

ASSUME OrdersAssumption ==
  /\ CardOrders \subseteq Order
  /\ DocumentOrders \subseteq Order

\* The text a missing key is the digest of; the amount comes last.
KeyMaterial(r) == r.tenant \o r.reference \o r.fund \o <<r.amount>>

\* No caller passes a digest of its own that equals a derived key.
ASSUME DerivedKeysFresh ==
  Keys \cap {KeyMaterial(o) : o \in CardOrders \cup DocumentOrders} = {}

ASSUME BuiltKeyFresh == BuiltKey \notin Keys \cup {NoKeyGiven}

VARIABLES
  adapter,     \* the adapter the behaviour is about; they share nothing
  index,       \* key -> number of the result, 0 if missing
  issuedLog,   \* results in the order of issue (_cards_by_id, _sync_log)
  callers,     \* each thread's call
  overlapping  \* history: keys with two calls at once

adapterVars == <<adapter, index, issuedLog, callers, overlapping>>

-----------------------------------------------------------------------------
(* Requests *)

AdapterKinds == {"card", "ach", "sap", "netsuite"}

DerivesKey == adapter \in {"card", "ach"}

Orders == IF adapter = "card" THEN CardOrders ELSE DocumentOrders

\* A request is an order with a key, and for journal entries with the outcome
\* of validate_balance; build_replenishment_entry makes balanced ones.
Requests ==
  IF DerivesKey
  THEN [order : Orders, key : {NoKeyGiven} \cup Keys, balanced : {TRUE}]
  ELSE [order : Orders, key : {NoKeyGiven} \cup Keys, balanced : BOOLEAN]
         \cup [order : Orders, key : {BuiltKey}, balanced : {TRUE}]

\* Mutant: the derived key leaves the tenant out.
EffectiveKeyWithoutTenant(r) ==
  IF r.key = NoKeyGiven /\ DerivesKey
  THEN r.order.reference \o r.order.fund \o <<r.order.amount>>
  ELSE IF r.key = BuiltKey THEN r.order.reference ELSE r.key

\* The key the adapter sees: cards and transfers derive a missing one, a built
\* journal entry has its bare reference, others go with what they were given.
EffectiveKey(r) ==
  IF r.key = NoKeyGiven /\ DerivesKey THEN KeyMaterial(r.order)
  ELSE IF r.key = BuiltKey THEN r.order.reference ELSE r.key

\* The dictionary key: only cards are kept per tenant.
IndexKey(r) ==
  IF adapter = "card" THEN <<r.order.tenant, EffectiveKey(r)>> ELSE <<EffectiveKey(r)>>

Keyed(r) == EffectiveKey(r) # NoKeyGiven

IndexKeys == {IndexKey(r) : r \in {q \in Requests : Keyed(q)}}

-----------------------------------------------------------------------------
(* Calls *)

NoCaller == [at |-> "idle"]

AdaptersInit ==
  /\ adapter \in AdapterKinds
  /\ index = [k \in IndexKeys |-> 0]
  /\ issuedLog = <<>>
  /\ callers = [c \in Callers |-> NoCaller]
  /\ overlapping = {}

\* validate_balance raises before the key is looked at.
RefuseUnbalanced(c, r) ==
  /\ callers[c].at # "issue"
  /\ ~r.balanced
  /\ callers' = [callers EXCEPT ![c] = NoCaller]
  /\ UNCHANGED <<adapter, index, issuedLog, overlapping>>

\* The key is known: the stored result is the answer.
AnswerExisting(c, r) ==
  /\ callers[c].at # "issue"
  /\ r.balanced
  /\ Keyed(r)
  /\ index[IndexKey(r)] # 0
  /\ callers' = [callers EXCEPT ![c] =
       [at |-> "answered", request |-> r, result |-> index[IndexKey(r)]]]
  /\ UNCHANGED <<adapter, index, issuedLog, overlapping>>

\* The key is new, or there is none: a result will be built.
FindNone(c, r) ==
  /\ callers[c].at # "issue"
  /\ r.balanced
  /\ Keyed(r) => index[IndexKey(r)] = 0
  /\ callers' = [callers EXCEPT ![c] = [at |-> "issue", request |-> r]]
  /\ overlapping' = overlapping \cup
       {IndexKey(r) : d \in {d \in Callers : /\ Keyed(r)
                                            /\ callers[d].at = "issue"
                                            /\ IndexKey(callers[d].request) = IndexKey(r)}}
  /\ UNCHANGED <<adapter, index, issuedLog>>

\* The result is built, stored under its key and logged.
Issue(c) ==
  LET r == callers[c].request IN
  /\ callers[c].at = "issue"
  /\ Len(issuedLog) < MaxIssued
  /\ issuedLog' = Append(issuedLog, [request |-> r, status |-> "active"])
  /\ index' = IF Keyed(r) THEN [index EXCEPT ![IndexKey(r)] = Len(issuedLog) + 1]
                          ELSE index
  /\ callers' = [callers EXCEPT ![c] =
       [at |-> "answered", request |-> r, result |-> Len(issuedLog) + 1]]
  /\ UNCHANGED <<adapter, overlapping>>

CreateVirtualCard(c) == adapter = "card" /\ Issue(c)

InitiateTransfer(c) == adapter = "ach" /\ Issue(c)

PostJournalEntry(c) == adapter \in {"sap", "netsuite"} /\ Issue(c)

\* Mutant: cancelling forgets the key of the card.
CancelForgets(i) ==
  /\ adapter = "card"
  /\ issuedLog[i].status = "active"
  /\ issuedLog' = [issuedLog EXCEPT ![i].status = "cancelled"]
  /\ index' = [index EXCEPT ![IndexKey(issuedLog[i].request)] = 0]
  /\ UNCHANGED <<adapter, callers, overlapping>>

\* cancel_card replaces the card found by its id.  The replacement is also
\* stored under the bare idempotency key, which no look-up uses: the entry
\* under (tenant, key) keeps showing the card as it was issued.
CancelCard(i) ==
  /\ adapter = "card"
  /\ issuedLog[i].status = "active"
  /\ issuedLog' = [issuedLog EXCEPT ![i].status = "cancelled"]
  /\ UNCHANGED <<adapter, index, callers, overlapping>>

AdaptersNext ==
  \/ \E c \in Callers, r \in Requests :
       RefuseUnbalanced(c, r) \/ AnswerExisting(c, r) \/ FindNone(c, r)
  \/ \E c \in Callers :
       CreateVirtualCard(c) \/ InitiateTransfer(c) \/ PostJournalEntry(c)
  \/ \E i \in DOMAIN issuedLog : CancelCard(i)

AdaptersSpec == AdaptersInit /\ [][AdaptersNext]_adapterVars

-----------------------------------------------------------------------------
(* Properties *)

\* One result is issued per key, also after a card of that key was cancelled,
\* unless two calls with the key overlapped.
IssuedOncePerKey ==
  \A i, j \in DOMAIN issuedLog :
    LET r == issuedLog[i].request
        q == issuedLog[j].request IN
    i # j /\ Keyed(r) /\ Keyed(q) /\ IndexKey(r) = IndexKey(q)
      => IndexKey(r) \in overlapping

\* An order without a colon in its texts.
Plain(o) == Len(o.tenant) = 1 /\ Len(o.reference) = 1 /\ Len(o.fund) <= 1

\* What a result may have been issued for when request r is answered with it.
ResultFits(r, q) ==
  /\ adapter = "card" => q.order.tenant = r.order.tenant
  /\ r.key = NoKeyGiven => q.order.amount = r.order.amount
  /\ r.key = NoKeyGiven /\ Plain(r.order) /\ Plain(q.order) => q.order = r.order

\* A card never leaves its tenant, whatever key is passed.  A key left to the
\* adapter fixes the amount, and the whole order when no text has a colon in it.
AnswerFitsKey ==
  \A c \in Callers :
    callers[c].at = "answered" =>
      ResultFits(callers[c].request, issuedLog[callers[c].result].request)

\* reliability-lockdown-checklist.md:117 "No cross-tenant read or write path
\* exists in core financial operations": an answer is a result of the caller's
\* own tenant.  The keys build_replenishment_entry gives, and joined texts with
\* colons, are shared by tenants.
AnswersStayInTenant ==
  \A c \in Callers :
    callers[c].at = "answered" =>
      issuedLog[callers[c].result].request.order.tenant = callers[c].request.order.tenant

=============================================================================
