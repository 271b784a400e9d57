--------------------------- MODULE IdempotencyStore ---------------------------
(***************************************************************************)
(* The durable SQLite store behind disburse_float and                      *)
(* ingest_provider_event (src/infrastructure/idempotency/store.py): the    *)
(* tables idempotency_records and provider_events and the statements that  *)
(* change them.  A slot stands for a primary key (tenant_id,               *)
(* idempotency_key); an event for (tenant_id, provider, event_id).  SHA-256 *)
(* fingerprints are taken as injective, so a payload is its own            *)
(* fingerprint.  created_at is abstracted to whether the row is older than *)
(* the retention window: rows in the overdue sets are.                     *)
(***************************************************************************)
EXTENDS Naturals

CONSTANTS
  Slots,          \* (tenant_id, idempotency_key) primary keys
  Payloads,       \* request payloads, standing for their fingerprints
  EventIds,       \* (tenant_id, provider, event_id) primary keys
  EventPayloads,  \* provider payloads, standing for their fingerprints
  None,           \* absence of a value
  MaxAgeings      \* bound: rows that may outlive the retention window

ASSUME StoreAssumption ==
  /\ MaxAgeings \in Nat
  /\ None \notin Payloads \cup EventPayloads

VARIABLES
  records,        \* the table idempotency_records
  events,         \* the table provider_events: payload fingerprint or None
  overdueRecords, \* slots whose row has created_at < now - retention
  overdueEvents,  \* events whose row has created_at < now - retention
  ageings,        \* how many rows outlived the window so far (bounded)
  purges          \* history: how often the row of a slot was purged

storeVars ==
  <<records, events, overdueRecords, overdueEvents, ageings, purges>>

-----------------------------------------------------------------------------
(* Rows *)

Statuses == {"absent", "in_progress", "completed", "failed"}

\* R is the set of serialized results (result_json).
Record(R) ==
  [fingerprint : Payloads \cup {None},
   status      : Statuses,
   result      : R \cup {None}]

NoRecord == [fingerprint |-> None, status |-> "absent", result |-> None]

Reservation(x) == [fingerprint |-> x, status |-> "in_progress", result |-> None]

StoreTypeOK(R) ==
  /\ records \in [Slots -> Record(R)]
  /\ events \in [EventIds -> EventPayloads \cup {None}]
  /\ overdueRecords \in SUBSET Slots
  /\ overdueEvents \in SUBSET EventIds
  /\ ageings \in 0..MaxAgeings
  /\ purges \in [Slots -> Nat]

StoreInit ==
  /\ records = [s \in Slots |-> NoRecord]
  /\ events = [e \in EventIds |-> None]
  /\ overdueRecords = {}
  /\ overdueEvents = {}
  /\ ageings = 0
  /\ purges = [s \in Slots |-> 0]

-----------------------------------------------------------------------------
(* reserve(): one BEGIN IMMEDIATE transaction.  It first deletes every      *)
(* overdue row of both tables, whatever its status; a fingerprint conflict  *)
(* rolls the deletions back.                                                *)

\* Mutant: a reservation in flight does not count as a row.
LiveTerminalOnly(s) ==
  records[s].status \in {"completed", "failed"} /\ s \notin overdueRecords

Live(s) == records[s].status # "absent" /\ s \notin overdueRecords

PurgedRecords ==
  [s \in Slots |-> IF s \in overdueRecords THEN NoRecord ELSE records[s]]

PurgeRest ==
  /\ events' = [e \in EventIds |-> IF e \in overdueEvents THEN None ELSE events[e]]
  /\ overdueRecords' = {}
  /\ overdueEvents' = {}
  /\ purges' = [s \in Slots |->
                  IF s \in overdueRecords THEN purges[s] + 1 ELSE purges[s]]
  /\ UNCHANGED ageings

ReserveConflict(s, x) ==
  /\ Live(s)
  /\ records[s].fingerprint # x
  /\ UNCHANGED storeVars

\* Mutant: the stored fingerprint is not compared.
ReserveExistingAny(s, x) ==
  /\ Live(s)
  /\ records' = PurgedRecords
  /\ PurgeRest

ReserveExisting(s, x) ==
  /\ Live(s)
  /\ records[s].fingerprint = x
  /\ records' = PurgedRecords
  /\ PurgeRest

ReserveNew(s, x) ==
  /\ ~Live(s)
  /\ records' = [PurgedRecords EXCEPT ![s] = Reservation(x)]
  /\ PurgeRest

-----------------------------------------------------------------------------
(* complete(), fail(), abandon(): single UPDATE or DELETE statements whose  *)
(* WHERE clause asks for the fingerprint and status 'in_progress', and for  *)
(* nothing that says who made the reservation.                              *)

\* Mutant: the WHERE clause does not ask for status 'in_progress'.
ResolvableAnyStatus(s, x) == records[s].fingerprint = x

Resolvable(s, x) ==
  /\ records[s].status = "in_progress"
  /\ records[s].fingerprint = x

Resolve(s, x, st, r) ==
  /\ Resolvable(s, x)
  /\ records' = [records EXCEPT ![s] =
                    [fingerprint |-> x, status |-> st, result |-> r]]
  /\ UNCHANGED <<events, overdueRecords, overdueEvents, ageings, purges>>

\* Mutant: result_json is not set.
FailWithoutResult(s, x, r) == Resolve(s, x, "failed", None)

Complete(s, x, r) == Resolve(s, x, "completed", r)

Fail(s, x, r) == Resolve(s, x, "failed", r)

\* rowcount # 1: IdempotencyConflictError
ResolveConflict(s, x) == ~Resolvable(s, x) /\ UNCHANGED storeVars

Abandon(s, x) ==
  /\ records' = IF Resolvable(s, x)
                THEN [records EXCEPT ![s] = NoRecord] ELSE records
  /\ overdueRecords' = IF Resolvable(s, x)
                       THEN overdueRecords \ {s} ELSE overdueRecords
  /\ UNCHANGED <<events, overdueEvents, ageings, purges>>

-----------------------------------------------------------------------------
(* claim_provider_event() is a SELECT and then an INSERT, two autocommitted *)
(* statements; abandon_provider_event() is an unconditional DELETE.         *)

EventUnseen(e) == events[e] = None

\* Mutant: INSERT OR REPLACE.
InsertEventOrReplace(e, x) ==
  /\ events' = [events EXCEPT ![e] = x]
  /\ UNCHANGED <<records, overdueRecords, overdueEvents, ageings, purges>>

InsertEvent(e, x) ==
  /\ EventUnseen(e)
  /\ events' = [events EXCEPT ![e] = x]
  /\ UNCHANGED <<records, overdueRecords, overdueEvents, ageings, purges>>

\* the primary key already exists: sqlite3.IntegrityError
InsertEventDuplicate(e) == ~EventUnseen(e) /\ UNCHANGED storeVars

AbandonEvent(e) ==
  /\ events' = [events EXCEPT ![e] = None]
  /\ overdueEvents' = overdueEvents \ {e}
  /\ UNCHANGED <<records, overdueRecords, ageings, purges>>

-----------------------------------------------------------------------------
(* Time: a row outlives the retention window.                               *)

AgeRecord(s) ==
  /\ ageings < MaxAgeings
  /\ Live(s)
  /\ overdueRecords' = overdueRecords \cup {s}
  /\ ageings' = ageings + 1
  /\ UNCHANGED <<records, events, overdueEvents, purges>>

AgeEvent(e) ==
  /\ ageings < MaxAgeings
  /\ ~EventUnseen(e)
  /\ e \notin overdueEvents
  /\ overdueEvents' = overdueEvents \cup {e}
  /\ ageings' = ageings + 1
  /\ UNCHANGED <<records, events, overdueRecords, purges>>

-----------------------------------------------------------------------------
(* Arbitrary clients: any API call, in any order, storing results in R.     *)

ReserveCall(s, x) ==
  ReserveConflict(s, x) \/ ReserveExisting(s, x) \/ ReserveNew(s, x)

StoreNext(R) ==
  \/ \E s \in Slots, x \in Payloads : ReserveCall(s, x) \/ Abandon(s, x)
  \/ \E s \in Slots, x \in Payloads, r \in R : Complete(s, x, r)
  \/ \E s \in Slots, x \in Payloads, r \in R : Fail(s, x, r)
  \/ \E s \in Slots, x \in Payloads : ResolveConflict(s, x)
  \/ \E e \in EventIds, x \in EventPayloads :
       InsertEvent(e, x) \/ InsertEventDuplicate(e)
  \/ \E e \in EventIds : AbandonEvent(e) \/ AgeEvent(e)
  \/ \E s \in Slots : AgeRecord(s)

-----------------------------------------------------------------------------
(* Properties *)

\* A terminal result is canonical: once complete() or fail() stored it, no
\* call of any client changes the row, except a reserve() that purges it
\* after the retention window.
TerminalResultImmutable ==
  [][\A s \in Slots :
       records[s].status \in {"completed", "failed"}
         => \/ records'[s] = records[s]
            \/ s \in overdueRecords /\ purges'[s] = purges[s] + 1]_storeVars

\* A result exists exactly in the terminal rows, a payload in every row, and
\* only rows that exist can be overdue: no reserve/abandon/purge order leaves
\* a half-written row or a stale age behind.
RowsWellFormed ==
  /\ \A s \in Slots :
       /\ (records[s].result # None) <=> (records[s].status \in {"completed", "failed"})
       /\ (records[s].fingerprint = None) <=> (records[s].status = "absent")
       /\ s \in overdueRecords => records[s].status # "absent"
  /\ \A e \in overdueEvents : events[e] # None
=============================================================================
