# PettyFlow in TLA+

PettyFlow is a multi-tenant petty-cash service: custodians hold float of a
fund, submit expenses for approval, and are paid by virtual card, mobile money
or ACH. This directory models the parts of it that move money or decide about
it, checks them with TLC on small instances and proves the central invariants
with TLAPS for every instance. Paths below are relative to the repository root.

## 1. The system

| Part | State | Operations | Hard behaviour |
|---|---|---|---|
| Idempotency store `src/infrastructure/idempotency/store.py` | two SQLite tables, durable, shared by processes | reserve (with purge), complete, fail, abandon, claim and abandon of provider events | several processes, expiry, rows settled by someone else |
| Disbursement manager `src/domain/wallet/disbursement_manager.py` | results and audit log, in memory | disburse_float, ingest_provider_event | crash between payment and completion, duplicates, statements that raise |
| Card and mobile-money adapters `src/infrastructure/adapters/` | dictionaries by (tenant, key), in memory | create_virtual_card, cancel_card, disburse | check-then-act without a lock, memory lost in a crash |
| Settlement rules `src/domain/wallet/settlement.py` | none | validate_settlement_transition | validated against a state the caller passes |
| Approval workflow `src/domain/workflow/{service,state_machine}.py` | requests with trails, subscribers, one lock | submit, approve, reject, disburse, subscribe, unsubscribe | events and responses built after the lock is released |
| Approval REST API `src/api/rest/approval_router.py` | WebSocket connections | one endpoint per operation, live feed | pool threads, a callback that needs an event loop |
| Policy evaluator `src/domain/workflow/policy_evaluator.py` | a list of rules, sorted | constructor check, evaluate, authority of an actor | gaps, overlaps, boundaries, rules in any order |
| Fund service `src/domain/funds/service.py`, its REST and gRPC handlers | funds and custodian balances | create_fund, allocate_float, issue_disbursement | conservation, int64, tenant scope |
| WORM audit log `src/infrastructure/audit`, evidence `src/services/fraud/evidence_sealer.py` | a hash chain per tenant, receipts | append, verify, seal, verify sealed | append computes its link before it appends, without a lock |
| Ledger `src/domain/ledger` | a hash chain of balanced batches | append, verify | the same |
| Balance cache `src/infrastructure/cache` | balance and version per account in Redis | get, set, Lua increment, invalidate | optimistic versions that restart |
| Fraud services `src/services/fraud` | sliding windows, linked events | record and check, score | timestamps out of order, window boundaries |
| Reconciliation `src/domain/reconciliation`, `src/api/rest/reconciliation_router.py` | closings, signatures | match, classify, adjust, sign off | a closing visible before its list of signatures |
| Currency `src/domain/currency` | rates by pair and date, a sorted list per pair, cache of resolved rates | set_rate, convert, revalue | a conversion that stores what a set_rate has just replaced; two set_rate calls on one list |
| Banking and ERP adapters `src/infrastructure/{banking,erp}` | dictionaries by key | transfer, post | keys not scoped to a tenant, check-then-act |
| Migration engine `src/infrastructure/migrations` | schema_migrations | dry run, apply, rollback | savepoints left open, failing statements and commits, crashes |
| PWA `src/static` | offline drafts in IndexedDB | submit, sync, discard | concurrent syncs, lost responses, closed pages |
| Security, telemetry, OCR, analytics | none of their own that a protocol depends on | single calls | - |

Interactions: the manager calls the store and the adapters and writes the audit
log; provider callbacks go through the same store. The approval API calls the
workflow service, which calls the policy evaluator and broadcasts events to
subscribers, the WebSocket bridge among them. The fund service stands alone: an
approval that reaches DISBURSED calls neither the fund service nor the manager.

What makes the parts correct: a key is paid at most once and has one answer; a
callback takes effect once; an approval trail is a path of the state machine
that nothing overtakes or reopens; money in a fund is conserved; a chain detects
every alteration and nothing else; an adapter issues once per key; a cache never
serves a stale value; a migration is whole or absent; an expense entered in the
browser is neither lost nor sent twice. PROJECT.json
lists, line by line, what endangers this (`hazards`) and the properties that
would notice.

## 2. Modules

| Module | Models |
|---|---|
| `IdempotencyStore` | both tables and the statements on them; extended by the next two |
| `DisbursementManager` | disburse_float by several workers of several processes, with the adapters, crashes, locked databases and expiry |
| `OncePerKey` | abstract: what disburse_float promises for a key |
| `DisbursementRefinement` | the refinement mapping from the manager to `OncePerKey` |
| `ProviderEvents` | ingest_provider_event and the settlement rules |
| `ApprovalWorkflow` | state machine, service, subscribers, REST endpoints, bridge to the feed |
| `FundService` | funds, float and disbursements |
| `AuditChain` | append_event of several threads, verification, alteration of an entry, sealing of evidence |
| `LedgerEntry`, `LedgerChain` | balanced batches; append_transaction of several threads and verification |
| `BalanceCache` | both Redis keys of an account and clients that read, decide and mutate |
| `IssuingAdapters` | cards, ACH transfers and journal entries: the key each request gets, look-up, issue, cancellation |
| `Migrations` | dry run, apply and rollback, statement by statement, with named savepoints and a failure or crash anywhere |
| `OfflineDrafts` | the expense form, the draft store and concurrent syncs |
| `PolicyEvaluator` | constructor, first-match evaluation, authority |
| `RiskScore` | the composite fraud score |
| `SlidingWindow`, `VelocityWindow`, `SplitDetector` | the queue both detectors keep; hourly velocity; linked events |
| `Reconciliation` | three-way match, disposition, adjusting entry, closings and sign-offs |
| `CurrencyRates` | set_rate, convert and revalue_amount on the table, the sorted lists and the cache they share |
| `IdempotencyProofs`, `DisbursementProofs`, `ProviderProofs`, `ApprovalProofs`, `FundProofs` | theorems about the module of that name |
| `ChainProofs` | theorems about `AuditChain`, `LedgerChain` and `Migrations` |
| `StoresProofs` | theorems about `BalanceCache`, `IssuingAdapters` and `OfflineDrafts` |
| `DecisionProofs` | theorems about the six modules that decide about amounts |
| `MC*` | instances for TLC; `MCStores` holds seven components, `MCServices` eight |

### State and abstraction

- A *slot* is a primary key (tenant_id, idempotency_key); an *event* is
  (tenant_id, provider, event_id). SHA-256 is taken as injective, so a payload
  is its own fingerprint. `created_at` is reduced to membership in the overdue
  sets; `AgeRecord` and `AgeEvent` let a row outlive the retention window, and
  the next reserve() deletes it, whatever its status, unless a fingerprint
  conflict rolls the transaction back.
- `DisbursementManager` cuts disburse_float at every call that leaves process
  memory: reserve, adapter lookup, provider effect, complete or abandon, and the
  final record. `adapter`, `audit` and `trail` belong to a process and vanish in
  `Crash`; the store and `issued`, the money moved at the provider, stay. `Busy`
  actions are `sqlite3.OperationalError`. The mock providers are the code's
  only ones; that a provider call may raise, without having moved money, is
  taken from the exceptions the adapters document.
- The audit log of `DisbursementManager` is a set of events per process, and
  appending to it is one step: what is asked of it there is whether an event was
  written. Races inside its hash chain are the subject of `AuditChain`.
- `ProviderEvents` splits claim_provider_event at its two statements. The store
  lock keeps them together inside a process (`LockFree`), nothing does between
  processes, and the loser's INSERT raises `IntegrityError`. Locked-database
  errors are not modelled there.
- `ApprovalWorkflow` splits transition() into the append to the trail and the
  assignment of the state, because responses are read without the lock. Calls
  that raise change nothing and have no action. The amount is its tier, an input
  of `Submit`. `trail[i].role` is the authority the caller claimed: the code
  keeps it in the event, not in the trail.
- `FundService` operations hold one lock from the first read to the last write,
  so each is one action. `MaxAmount` stands for 2^63 - 1.
- `AuditChain` and `LedgerChain` take HMAC-SHA256 as an injective term over the
  fields it covers. `AuditChain` keeps lists in a heap, since a thread goes on
  with the list it read when another thread replaces it under the tenant.
- `BalanceCache`: the Lua script, a MULTI pipeline and a DEL are atomic in Redis
  and one action each. Versions filled in count from 1. set_balance also accepts
  0, which the script cannot tell from a missing key; no caller passes it.
  Balances are exact integers in the model. Lua's numbers are doubles that
  `tostring` writes with 14 digits, so the model speaks of scaled balances
  below 10^14; larger ones the script would round.
- `IssuingAdapters`: the four adapters have the same shape and differ in how a
  request comes to its key and in whether the tenant is part of the index. Cards
  and transfers derive a missing key from fields joined with ":", unescaped. A
  text is therefore the sequence of its pieces between colons, so that joining is
  concatenation and two orders can have the same key; the hash is taken as
  injective. `build_replenishment_entry` of both ERP adapters makes the bare
  reference the key (`BuiltKey`). cancel_card also stores the card under the bare
  key, which nothing reads.
- `Migrations` keeps the open savepoints with their names and what the connection
  saw when each was set. ROLLBACK TO keeps its mark, so a failed call, and every
  dry run, leaves the transaction open, and the next call works inside it. There
  RELEASE only drops the call's mark and the commit() after it is what commits;
  when that one raises (`CommitFails`), the handler's ROLLBACK TO names a
  savepoint that is gone, or one that an earlier failure left.
- `OfflineDrafts`: every await is a point where other tasks run. The submit
  endpoint takes no key, so each processed request is one more on `server`.
- `RiskScore` compares the z-score with its threshold in integers, after
  multiplying out the mean and the deviation, so no rounding is left out of the
  decision; the code computes it in floating point.
- `SplitDetector`: merchant id, normalised merchant name and receipt hash of an
  event are its *marks*; two events with a common mark are linked. The clusters
  of a tenant are modelled by the one of the event just recorded, which is the
  one record_and_check looks for.
- `CurrencyRates` has `_rates`, `_rate_index` and `_rate_cache` as three tables
  and a step for each access, since no lock joins them: the scan of a list, the
  write into it, and the sort, during which CPython's list is empty; the test of
  the cache and the read after it; the search of the dates and the read of the
  entry. An index or a key that is gone by then raises and ends the call.
  `RateScale` (10 in the runs) stands for the code's decimal scale; rounding half
  up is kept. In a cross rate the same cache and tables serve both legs.
- `Reconciliation`: sign_off_reconciliation does not ask who signed before, so a
  repeated sign-off is appended again, in the model as in the code.

Several properties are conditional on a history variable (`raced`, `contended`,
`overlapping`, `recreated`, `doubtful`, `doubt`, `overlap`, `inOrder`, `ordered`)
or on `Shadowing`. Each names an interleaving or an input the code takes no
measure against, as narrowly as the model can tell: the property says that
nothing else goes wrong, and what still holds in those cases. What goes wrong in
the excused cases is therefore followed by the model and not reported by a run:
a forked or lost audit or ledger chain when appends overlap (`raced`,
`contended`), a version that names another balance after an entry was written
anew (`recreated`), a second result when two calls with one key overlap
(`overlapping`), a second submission after a lost answer or by a second sync
(`doubtful`), alerts for records that are no longer recent when timestamps went
back, and outdated rates after calls of set_rate that overlapped. For most of
them a theorem with the word `Serial`, or one listed in section 4, states what
is true without the exception.

Operators whose comment begins with "Mutant" are deliberate defects. No
specification uses them; each exists to show that some property would fail.

## 3. Runs

| Run | Instance | Checks |
|---|---|---|
| `disbursement` | 3 workers in 2 processes, 1 key, a card and a mobile payload, 3 calls, 1 crash, 1 locked statement, 1 expiry | effects against purges, single flight, canonical and truthful answers, no orphaned reservation |
| `disbursement_once` | the same without expiry, fair | refinement of `OncePerKey`; reservations settle |
| `disbursement_expiry` | 1 worker, 1 crash, 1 expiry | **violated**: `UnansweredPaidOnce` |
| `disbursement_audit` | 1 worker, 1 locked statement | **violated**: `EffectIsAudited` |
| `approval` | 2 threads, 1 request, 1 extra listener, a weak and a strong role, fair | trail, authority, finality, responses, events, announcement |
| `approval_authority` | 1 thread, a weak and a strong role or none | **violated**: `ApprovalsAuthorised` |
| `approval_feed` | 1 pool thread, fair | **violated**: `LiveFeedPushes` |
| `provider_unknown` | 1 worker, 2 deliveries | **violated**: `ReplayedWasAccepted` |
| `stores`: chain | 2 tenants, 2 writers, 3 entries, 1 alteration each | verdicts exact, sealed evidence keeps verifying |
| `stores`: ledger | 2 posters, 3 blocks, 4 batches (balanced, empty, unbalanced, another tenant's) | verdicts exact, books balanced |
| `stores`: cache | 2 clients, 2 deltas, 2 fills with 2 versions, versions to 4 | a versioned mutation saw the balance it changed |
| `stores`: adapters | 4 adapters; 5 orders of 2 or 3 tenants whose texts differ in one place or only in where the colon is; 1 passed key, a built one or none; 2 callers, 2 results | issued once per key; an answer fits its key |
| `stores`: migrations | 2 versions of 2 tables, both undoable, 3 marks | what is committed, and between calls what the connection sees, is whole and matches the log |
| `stores`: drafts | 2 expenses, 2 syncs, 2 copies | nothing lost, nothing twice |
| `stores`: callbacks | 3 workers in 2 processes, 1 event, 3 payloads, 4 deliveries, 1 crash, 1 expiry | accepted once, claims accounted for |
| `adapters` | the orders of `stores`, no passed key | **violated**: `AnswersStayInTenant` |
| `services`: policy | all lists of up to 3 rules between 1 and 4 | decision independent of the rules' order |
| `services`: risk | thresholds and one below each, 4 histories | blocked and critical combinations |
| `services`: velocity | 2 custodians, 4 records at 4 times in any order | nothing recent missing, exact when ordered |
| `services`: split | 2 custodians, 1 mark or none, 3 events at 4 times | alert exactly on the linked group |
| `services`: closing | 7 requests of 2 tenants, 2 workers, 2 signers, 2 closings, 3 sign-offs each | adjusting entry restores the count, signatures kept in order |
| `services`: currency | 3 currencies, 2 dates, 2 rates, 2 users, 2 changes | cache, lists and answers agree with the table |
| `services`: funds | 2 tenants, 2 funds, 2 custodians, amounts to 3 | conservation, int64, tenant isolation |
| `services`: store | 2 keys, 2 payloads, 2 results, 1 event, 2 expiries; arbitrary clients | rows well formed, terminal results immutable |
| `conversion` | the currencies and dates of `services`, 1 user | **violated**: `ConversionFloors` |

The components of `stores` share no state, nor do those of `services`. A
behaviour follows one of them: `part`, or `service`, is chosen in the initial
state and the others stay in theirs. This is the union of separate state spaces,
not their product, and every property is checked on all of it. In `services` the
two users of the converter are interchangeable, which the run uses as symmetry:
they are model values that nothing tells apart, and none of the properties is
about liveness.

Bounds. Keys do not interact except through the purge, which touches every
overdue row; the store in `services` has two keys for that, the other runs one.
Three workers in two processes give a pair that shares adapters and a lock and a
pair that does not. Three calls allow an original, a concurrent duplicate and a later retry;
one crash, one locked statement and one expiry can fall anywhere among them.
Every fault is bounded by a named constant in its action's guard. Requests do
not share anything but the lock and the subscribers, so one request and two
threads show all races on it; a request has at most three transitions.
In `stores` and `services` two threads are enough for every race the components
have, since each of them is between two calls; three entries, blocks or events
are the least with a predecessor and a successor, or a link through a third.
`CHECK_DEADLOCK FALSE` is set where the bounds, or spent funds, end the run.

Fairness. `DisbursementManager` and `ApprovalWorkflow` assume weak fairness of a
thread's own steps inside a call: no step of disburse_float waits for another
call, since SQLite answers or raises within its busy timeout, and the service
lock is taken only finitely often. No fairness is assumed of callers, faults or
time. `ReservationsSettle`, and `ReservationHeld`, which is what it rests on, hold only
while nothing crashed and no statement was refused, because the code has no
recovery but expiry.

### What the violated properties show

1. `reserve()` purges rows in progress. After a crash between payment and
   `complete()` the expired row takes the only trace of the payment along, and a
   retry pays again. `docs/reliability-lockdown-checklist.md:72` promises
   "never a second financial effect".
2. `complete()` is outside the try block of `disburse_float`. If it raises, money
   has moved and no audit event says so (checklist line 64). `PaymentsAreAudited`
   shows that nothing else can cause this but a crash or a purge.
3. `on_workflow_event` drops the event when its thread has no running loop, which
   is the case for every REST endpoint (`ADR-009`, line 64). Two theorems bound
   this: without loops the feed stays silent for good (`FeedIsSilentOffLoops`);
   on threads with a loop it misses nothing (`FeedIsCompleteOnLoops`).
4. An unknown settlement status raises between claim and release, so the
   redelivery is answered as a replay of an event nobody accepted (checklist
   line 74). The same answer is possible when a redelivery is looked up while a
   first delivery is about to be rejected. If neither happens, and no process
   crashes, a replay is always of an event that was accepted or is being decided
   (`ReplaysOfLegalCallbacks`).
5. `approve_request` verifies the authority of a caller only when the caller
   names a role. Who names none approves a request of any tier, and nothing asks
   again before it is disbursed. The checklist (lines 102 and 111) and `ADR-009`
   (line 18) promise the opposite for every transition. `DisbursementApprovedOnce`
   says what is left: one approval, and no named role above its tier.
6. Transfers are found by their key alone. Tenant "a" with reference "b:c" and
   tenant "a:b" with reference "c" derive the same key, and two tenants that
   post a replenishment entry under one reference have the same key in the ERP
   adapters; the second is answered with the result of the first (checklist
   lines 117 and 121). `AnswersFitKeys` bounds it: cards stay in their tenant,
   and a derived key without colons in its fields stands for one order.
7. `convert` adds half a unit before it divides. `ADR-007` (line 22) states the
   plain floor division; the method's own docstring states what the code does.

Another promise that the code breaks has no run: `apply_migration` is to be atomic
(`engine.py:208`). After a dry run, or a failed call, it works in a transaction
that is still open; when its commit() then raises, its savepoint has already been
released, the handler's ROLLBACK TO raises in turn, and the work stays in the open
transaction until the next commit writes it. `Migrations` has these steps, its
history variable `stranded` marks the case, and `SchemaMatchesLog` says what
survives it: what is left there is still a whole migration.

## 4. Theorems

Every safety property of the passing runs is also a theorem: `PROJECT.json`
pairs each theorem with its property. The runs show it on the instances above,
the theorems for any number of workers, processes, keys, requests and amounts,
and for bounds of any size.

### Assumptions

The modules name what they assume of their constants, and TLC evaluates it on
every run. Apart from types, finite sets of workers and a `None` that is no
value, these are what the code enforces where the values enter:

| Assumption | Why the code justifies it |
|---|---|
| `PoliciesAssumption` | `PolicyRule.__post_init__` refuses other rules |
| `BatchAssumption` | the constructor of a ledger entry refuses an amount that is not positive |
| `ClosingsAssumption` | the request model of a closing has `ge=0` on these fields |
| `SplitAssumption` | `TransactionEvent` and the detector refuse what is not positive |
| `RatesAssumption` | callers name a currency pair and a date, and a rate that scales to a positive number; `USD` is the pivot of the code |
| `MigrationAssumption` | two migrations create different tables, as the repository's own do |
| `OrdersAssumption` | orders have a tenant, a reference, for cards a fund, and an amount; the texts are any |
| `DerivedKeysFresh` | no caller passes a key equal to a digest of an order; used by `AnswersFitKeys` only |
| `BuiltKeyFresh` | tells the requests of `build_replenishment_entry` from the others |
| `BoundsAssumption` | the bounds of `Reconciliation` are numbers |
| `ForgedAssumption` | an altered payload differs from every original one |

Some theorems have a hypothesis of their own, in their statement. Each names the
condition under which a promise that the code breaks in general is kept:

| Theorem | Hypothesis | Without it |
|---|---|---|
| `KeepsThePromise` | `MaxAgeings = 0`: nothing expires | `disbursement_expiry` |
| `SerialVerdict`, `SerialLedgerVerdict` | appends to a log, or postings, never overlap | forked chains: the exceptions in `VerdictExact` and `LedgerSound` |
| `SerialIssuesOnce` | calls with one key never overlap | the exception in `IssuedOncePerKey` |
| `ReplaysOfLegalCallbacks` | every callback is known and legal | `provider_unknown` |
| `FeedIsCompleteOnLoops`, `FeedIsSilentOffLoops` | every thread, or none, runs a loop | `approval_feed` |

The serial hypotheses are formulas `[]Serial...` about the behaviour, which say
when the next call may begin; the model is not restricted.

### Store, disbursement and callbacks

- `IdempotencyProofs`: `StoreTypeCorrect`, `StoreRowsWellFormed` and
  `TerminalRowsImmutable`, for arbitrary clients and any set `R` of results.
  Types and well-formed rows are inductive together only, since `complete()`
  keeps the fingerprint it finds.
- `DisbursementProofs`
  - `TypeCorrect`: `TypeOK`, from `TypeInv`, which adds what a worker's
    locals are at each location and that rows are well formed.
  - `OneEffectPerRow`: `EffectsNeedPurges`. The property is not inductive: a
    worker about to pay is not counted. `EffectsBacked` counts it: the workers
    between reservation and payment, plus the payments, are at most the rows
    the key has had (its row, if any, plus its purges). The argument is about
    cardinalities of `Spenders(s)`, which gains a member only with a new row.
  - `OneHolder` and `AnswersAgree`: `SingleFlight` and `CanonicalAnswer`, from
    `UnpurgedOK`: while a key was never purged, its holder, its row and its
    answers agree in payload and result.
  - `AnswersTellTheTruth`: `AnswerMatchesEffect`, from `TruthOK`: a key that is
    free, or that a worker may still pay under, is untouched at the provider and
    in every adapter, and a result about to be stored or stored is true.
  - `KeepsThePromise`: the manager implements `OncePerKey`. `PromiseInv` joins
    the invariants above; each action is then a step of the promise for the key
    it works on, or leaves what callers see as it was.
  - `KeepsThePromiseUntilPurge`: `OncePerKeyUntilPurge`, with expiry and no
    hypothesis. For each key by itself, every step is a step of `OncePerKey`
    with that one key, or a stutter, unless the key's row has been purged by
    its end. `KeyInv` is `PromiseInv` without the claim that nothing expires;
    purges only grow (`PurgesGrow`), and a `reserve()` that purges other keys
    leaves this one's row alone (`PurgeSpares`).
  - `ReservationsAreHeld`: `ReservationHeld`, inductive with the types. A worker
    that leaves its reservation unsettled was refused by the store, so the row
    in flight is not its own and has another keeper.
  - `PaymentsAreAudited`: a payment is followed by its audit event or by a call
    that has yet to write it, while no fault happened and the key was not
    purged. From `UnpurgedOK`: until then, `complete()` always matches.
- `ProviderProofs`: `EventsAcceptedOnce` counts like `EffectsBacked`: the workers
  that decide about an event, plus its acceptances, are at most the rows it has
  had. `RejectedCallbacksRetry` (`ClaimsAccountedFor`) is inductive with the
  types: whoever deletes the row of a rejected callback is the one whose claim
  it was. `ReplaysOfLegalCallbacks` follows: a row met by a redelivery is
  accounted for, and who decides then accepts. `TypeCorrect`.

### Approval and funds

- `ApprovalProofs`: `NoApprovalBypass`, `DisbursementApprovedOnce`
  and `TerminalForever`, from `WorkflowInv`: types, ownership of the lock, the trail
  as a path, the stage of the trail in each state (which excludes a second
  approval), and the authority of each approval. `RepliesAccountForState` and
  `EventsNeverBehind` are about reads without the lock: `ReadersInv` says of each
  place where a thread has read a state that the trail reaches this state at the
  thread's own entry or later, and trails only grow. `TypeCorrect`.
  `AnnouncementsSurvive` and `BridgeHearsAll` are what can be proved of the
  announcements without fairness: in every step an event on its way to a
  subscribed listener arrives or stays on its way, and every committed
  transition was handed to the bridge or is about to be. With `FeedWired`, which
  relates the live feed to what the bridge was handed, they give
  `FeedIsCompleteOnLoops` and `FeedIsSilentOffLoops`.
- `FundProofs`: `NoOverdraft`, `Isolation`, and `MoneyConserved` and
  `NothingOverflows` from `MoneyInv`. The float of a fund is the cardinality of
  the set of its units; an allocation adds a disjoint slice to that set and a
  disbursement takes one away, so no induction over a sum is needed.

### Chains and migrations (`ChainProofs`)

- `IntegrityVerdictExact` and `EvidenceKept`, from `ChainInv`: the heap is well
  formed, no list belongs to two tenants, an altered list has an entry whose hash
  does not fit, and, of a tenant whose appends did not overlap (`Quiet`), one
  writer at most is under way and holds the list the tenant reads.
  `SerialVerdict`: where appends take turns, the verdicts are exact without
  exception.
- `LedgerKeptSound`, from `LedgerInv`: a block is as it was appended, or its first
  amount was turned negative, which no later alteration undoes; without
  overlapping appends every block links to its predecessor. That the books
  balance is stated block by block. `SerialLedgerVerdict`: where postings take
  turns, exactly the unchanged chains verify.
- `SchemaKeptWhole`, from `MigrationsInv`: the committed state is whole, every
  open mark stands for a whole state, the one on disk unless a commit failed
  behind a released savepoint, and what is left of a script would turn the tables
  of the connection into those of the finished migration. Each path out of a call
  then leaves a whole state: a mark restored, the work committed, or, where
  ROLLBACK TO finds no mark, the work of a script that had run to its end.

### Cache, adapters and drafts (`StoresProofs`)

- `VersionsProtectReads`. Inductive: the two keys exist together, and a version
  a client holds is behind the key's or stands for the balance read with it,
  unless the entry is gone or was written anew.
- `OnePerKey` and `AnswersFitKeys`. Inductive: of a key without overlapping
  calls at most one caller is issuing, and then nothing is indexed; everything
  issued under it is what the index names; and what the index names was issued
  under that key. `SerialIssuesOnce`: where calls with one key take turns, there
  is no exception to the first. For the second: the amount is the last element of
  the key material, so equal keys mean equal amounts, and of texts of one piece
  equal concatenations mean equal texts.
- `NothingLost` and `SentAtMostOnce`. Inductive for the first: a sync about to
  delete a draft has its answer. For the second, of an expense that is not
  doubtful (`Settled`): one sync at most has it in hand, and once it is at the
  server that sync is about to delete it or the draft is gone.

### Decisions (`DecisionProofs`)

- `PolicyIsDecisive`, from what the constructor establishes: the list is sorted
  by lower bounds and neighbours are apart. It holds no rule twice, so by
  counting it leaves none out; and with every unbounded rule last, an amount in
  two rules would be in two neighbours.
- `SignalsBlockExactly`: the score depends on the duplicate, the split and how
  many of the three weak signals there are; each case is compared with the
  thresholds.
- `SignaturesKept`, from `SignInv`: a closing being stored belongs to one thread,
  its list of signatures does not exist before that thread stores it, and the
  list is, entry by entry, what was answered SIGNED.
- `AdjustmentsRestore`: each sum over the legs of an entry is a fold, so a
  `CHOOSE` of a function that satisfies the fold's equation. For the entries the
  code builds, with no leg or two, such a function is given and any other agrees
  with it; the rest is arithmetic on the variance.
- `VelocityWindowExact`, from `VelocityInv`. For any order of timestamps (`Sound`)
  the queue has the records in order of arrival and misses no recent one; while
  no time went back (`Exact`) it is sorted and holds only recent ones. What an
  eviction leaves follows from the least index that is recent enough.
- `RatesKeptCoherent`, from `RatesInv`, which has two halves. `SetInv` follows one
  set_rate through its steps: while no two have overlapped, every list but the one
  in work holds the dates and rates of the table in strict order; that one lacks,
  or has out of place, only the entry in hand, and is empty while it is sorted,
  with its entries in `taken`. That a stable sort exists and leaves the same
  entries in order is proved for sequences of any length (`OrderExists`,
  `SortRights`). `CallsInv` says that a rate which is cached, or which a call
  carries, is the one in force, unless a set_rate is under way or has overlapped
  the call, and then the call or the key is marked. Overlapping calls of set_rate
  cost only the second half of each claim: a date with a rate of its own is still
  answered from the table.
- `SplitAlertsExact`, from `SplitInv`, which keeps of both windows what
  `VelocityInv` keeps of one. It rests on three facts about the model's recursive
  functions, each proved by induction over a set of numbers (`SetInduction`,
  `StepByStep`). The total amount of a finite set is additive, hence monotone
  (`TotalMonotone`). A breadth-first search reaches exactly what every closed
  set around the event has in common (`ClusterIsGroup`): it never leaves a
  closed set, and each step that does not close it adds an event, so it has
  closed after as many steps as there are events. And clear_custodian keeps the
  records of the others in order (`WithoutKeeps`). A larger window then gives a
  larger group, so no group over the limits goes unnoticed; with ordered
  timestamps the window is the current events and the group is theirs.

### Only model-checked

Liveness under fairness (`ReservationsSettle`, `TransitionsAnnounced`) is out of
the prover's reach, as are `ENABLED` and the fairness formulas themselves; their
safety cores, `ReservationsAreHeld` and `AnnouncementsSurvive`, are proved. The
violated properties are refuted; for most of them the theorems above say when, or
how far, the code keeps them.

## 5. What is left

The models stand for more than a third of the implementation's lines, the ones
that move money, decide about it or keep its evidence. Two hazards in
`PROJECT.json`, both in `ingest_provider_event`, have no property, with the
reason.

### Not modelled

- `src/infrastructure/security`, `src/infrastructure/observability`: cryptography,
  token checks and metrics; single calls without a protocol.
- OCR, receipts and `services/fraud/perceptual_hash.py`: image processing and
  numeric code on single inputs.
- `services/fraud/category_anomaly.py`: an average per custodian and category.
- Analytics, reports and `generate_pdf.py`: read-only aggregation and layout.
- Database connections, discovery of migration files and rewriting of SQL: I/O
  and text.
- List, summary and status endpoints: they only read.
- A shortened audit log. The docstring of `tamper_log.py` (line 8) claims that
  truncation is detected; verify_integrity sees only the entries that are left
  and no record of how many there were. The model alters entries and removes
  none.
- A discrepancy between the bank's figure and the system's without a difference
  in cash: `Status` reports it, but `AdjustmentRestoresBalance` is about cash.
- The user interface and the asset cache of the service worker.
