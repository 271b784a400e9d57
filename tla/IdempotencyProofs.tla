--------------------------- MODULE IdempotencyProofs ---------------------------
(***************************************************************************)
(* Theorems about the idempotency store, for any keys, payloads, results   *)
(* and retention window, under any calls of any clients; and the lemmas    *)
(* about its statements that the proofs of its clients use.                *)
(***************************************************************************)
EXTENDS IdempotencyStore, TLAPS

-----------------------------------------------------------------------------
(* The statements keep the tables typed *)

\* reserve() as it conflicts, finds a row or inserts one.
LEMMA ReserveTyped ==
  ASSUME NEW R, NEW s \in Slots, NEW x \in Payloads, StoreTypeOK(R), ReserveCall(s, x)
  PROVE  StoreTypeOK(R)'
<1>1. CASE ReserveConflict(s, x)
  BY <1>1 DEF ReserveConflict, StoreTypeOK, storeVars
<1>2. CASE ReserveExisting(s, x) \/ ReserveNew(s, x)
  <2>1. PurgedRecords \in [Slots -> Record(R)]
    BY DEF StoreTypeOK, PurgedRecords, Record, NoRecord, Statuses
  <2>2. Reservation(x) \in Record(R)
    BY DEF Reservation, Record, Statuses
  <2>3. records' \in [Slots -> Record(R)]
    BY <1>2, <2>1, <2>2 DEF ReserveExisting, ReserveNew
  <2>4. PurgeRest
    BY <1>2 DEF ReserveExisting, ReserveNew
  <2>5. QED
    BY <2>3, <2>4 DEF PurgeRest, StoreTypeOK
<1>3. QED
  BY <1>1, <1>2 DEF ReserveCall

\* complete() and fail()
LEMMA ResolveTyped ==
  ASSUME NEW R, NEW s \in Slots, NEW x \in Payloads, NEW r \in R, StoreTypeOK(R),
         Complete(s, x, r) \/ Fail(s, x, r)
  PROVE  StoreTypeOK(R)'
<1>1. PICK st \in Statuses : Resolve(s, x, st, r)
  BY DEF Complete, Fail, Statuses
<1>2. QED
  BY <1>1 DEF Resolve, StoreTypeOK, Record

LEMMA AbandonTyped ==
  ASSUME NEW R, NEW s \in Slots, NEW x \in Payloads, StoreTypeOK(R), Abandon(s, x)
  PROVE  StoreTypeOK(R)'
<1>1. NoRecord \in Record(R)
  BY DEF NoRecord, Record, Statuses
<1>2. QED
  BY <1>1 DEF Abandon, StoreTypeOK

LEMMA AgeTyped ==
  ASSUME NEW R, NEW s \in Slots, StoreTypeOK(R), AgeRecord(s)
  PROVE  StoreTypeOK(R)'
  BY StoreAssumption DEF AgeRecord, StoreTypeOK

\* The statements on provider_events
LEMMA EventTyped ==
  ASSUME NEW R, NEW e \in EventIds, NEW x \in EventPayloads, StoreTypeOK(R),
         InsertEvent(e, x) \/ AbandonEvent(e) \/ AgeEvent(e)
  PROVE  StoreTypeOK(R)'
  BY StoreAssumption DEF InsertEvent, AbandonEvent, AgeEvent, StoreTypeOK

LEMMA InitStoreTyped ==
  ASSUME NEW R, StoreInit
  PROVE  StoreTypeOK(R)
  BY StoreAssumption DEF StoreInit, StoreTypeOK, Record, NoRecord, Statuses

-----------------------------------------------------------------------------
(* The statements keep the rows well formed *)

\* What a row says of itself: a result exactly when terminal, a payload exactly
\* when it exists.
RowOK(row) ==
  /\ (row.result # None) <=> (row.status \in {"completed", "failed"})
  /\ (row.fingerprint = None) <=> (row.status = "absent")

\* RowsWellFormed, one table at a time.
RowsOverdue ==
  /\ \A s \in Slots : RowOK(records[s])
  /\ \A s \in Slots : s \in overdueRecords => records[s].status # "absent"
  /\ \A e \in overdueEvents : events[e] # None

LEMMA WellFormedParts == RowsWellFormed <=> RowsOverdue
  BY DEF RowsWellFormed, RowsOverdue, RowOK

LEMMA ReserveWellFormed ==
  ASSUME NEW R, NEW s \in Slots, NEW x \in Payloads, StoreTypeOK(R),
         RowsWellFormed, ReserveCall(s, x)
  PROVE  RowsWellFormed'
<1>1. CASE ReserveConflict(s, x)
  BY <1>1 DEF ReserveConflict, RowsWellFormed, storeVars
<1>2. CASE ReserveExisting(s, x) \/ ReserveNew(s, x)
  <2>1. \A t \in Slots : records'[t] \in {NoRecord, records[t], Reservation(x)}
    BY <1>2 DEF ReserveExisting, ReserveNew, PurgedRecords
  <2>2. RowOK(NoRecord) /\ RowOK(Reservation(x))
    BY StoreAssumption DEF RowOK, NoRecord, Reservation
  <2>3. \A t \in Slots : RowOK(records'[t])
    BY <2>1, <2>2, WellFormedParts DEF RowsOverdue
  <2>4. overdueRecords' = {} /\ overdueEvents' = {}
    BY <1>2 DEF ReserveExisting, ReserveNew, PurgeRest
  <2>5. QED
    BY <2>3, <2>4 DEF RowsWellFormed, RowOK
<1>3. QED
  BY <1>1, <1>2 DEF ReserveCall

LEMMA ResolveWellFormed ==
  ASSUME NEW R, None \notin R, NEW s \in Slots, NEW x \in Payloads, NEW r \in R,
         StoreTypeOK(R), RowsWellFormed, Complete(s, x, r) \/ Fail(s, x, r)
  PROVE  RowsWellFormed'
<1>1. PICK st \in {"completed", "failed"} : Resolve(s, x, st, r)
  BY DEF Complete, Fail
<1> DEFINE row == [fingerprint |-> x, status |-> st, result |-> r]
<1>2. RowOK(row) /\ row.status # "absent"
  BY StoreAssumption DEF RowOK
<1>3. records' = [records EXCEPT ![s] = row]
      /\ UNCHANGED <<events, overdueRecords, overdueEvents>>
  BY <1>1 DEF Resolve
<1> HIDE DEF row
<1>4. \A t \in Slots : records'[t] = IF t = s THEN row ELSE records[t]
  BY <1>3 DEF StoreTypeOK
<1>5. RowsOverdue
  BY WellFormedParts
<1>6. RowsOverdue'
  BY <1>2, <1>3, <1>4, <1>5 DEF RowsOverdue
<1>7. QED
  BY <1>6 DEF RowsWellFormed, RowsOverdue, RowOK

LEMMA AbandonWellFormed ==
  ASSUME NEW R, NEW s \in Slots, NEW x \in Payloads, StoreTypeOK(R),
         RowsWellFormed, Abandon(s, x)
  PROVE  RowsWellFormed'
<1>1. RowOK(NoRecord)
  BY StoreAssumption DEF RowOK, NoRecord
<1>2. \A t \in Slots : \/ records'[t] = records[t]
                       \/ records'[t] = NoRecord /\ t \notin overdueRecords'
  BY DEF Abandon, StoreTypeOK
<1>3. overdueRecords' \subseteq overdueRecords
      /\ UNCHANGED <<events, overdueEvents>>
  BY DEF Abandon
<1>4. RowsOverdue
  BY WellFormedParts
<1>5. RowsOverdue'
  BY <1>1, <1>2, <1>3, <1>4 DEF RowsOverdue
<1>6. QED
  BY <1>5 DEF RowsWellFormed, RowsOverdue, RowOK

LEMMA AgeWellFormed ==
  ASSUME NEW s \in Slots, RowsWellFormed, AgeRecord(s)
  PROVE  RowsWellFormed'
  BY DEF RowsWellFormed, AgeRecord, Live

LEMMA EventWellFormed ==
  ASSUME NEW R, NEW e \in EventIds, NEW x \in EventPayloads, StoreTypeOK(R),
         RowsWellFormed, InsertEvent(e, x) \/ AbandonEvent(e) \/ AgeEvent(e)
  PROVE  RowsWellFormed'
<1>1. UNCHANGED <<records, overdueRecords>>
  BY DEF InsertEvent, AbandonEvent, AgeEvent
<1>2. \A d \in overdueEvents' : events'[d] # None
  BY StoreAssumption
  DEF InsertEvent, AbandonEvent, AgeEvent, RowsWellFormed, StoreTypeOK, EventUnseen
<1>3. QED
  BY <1>1, <1>2 DEF RowsWellFormed

LEMMA InitWellFormed == StoreInit => RowsWellFormed
  BY DEF StoreInit, RowsWellFormed, NoRecord

-----------------------------------------------------------------------------
(* Any clients *)

LEMMA StoreStep ==
  ASSUME NEW R, None \notin R, StoreTypeOK(R), RowsWellFormed, [StoreNext(R)]_storeVars
  PROVE  StoreTypeOK(R)' /\ RowsWellFormed'
<1>1. ASSUME NEW s \in Slots, NEW x \in Payloads, ReserveCall(s, x)
     PROVE  StoreTypeOK(R)' /\ RowsWellFormed'
  BY <1>1, ReserveTyped, ReserveWellFormed
<1>2. ASSUME NEW s \in Slots, NEW x \in Payloads, Abandon(s, x)
     PROVE  StoreTypeOK(R)' /\ RowsWellFormed'
  BY <1>2, AbandonTyped, AbandonWellFormed
<1>3. ASSUME NEW s \in Slots, NEW x \in Payloads, NEW r \in R,
             Complete(s, x, r) \/ Fail(s, x, r)
     PROVE  StoreTypeOK(R)' /\ RowsWellFormed'
  BY <1>3, ResolveTyped, ResolveWellFormed
<1>4. ASSUME NEW e \in EventIds, NEW x \in EventPayloads, InsertEvent(e, x)
     PROVE  StoreTypeOK(R)' /\ RowsWellFormed'
  BY <1>4, EventTyped, EventWellFormed
<1>5. ASSUME NEW e \in EventIds, AbandonEvent(e) \/ AgeEvent(e)
     PROVE  StoreTypeOK(R)' /\ RowsWellFormed'
  <2>1. StoreTypeOK(R)'
    BY <1>5, StoreAssumption DEF AbandonEvent, AgeEvent, StoreTypeOK
  <2>2. UNCHANGED <<records, overdueRecords>>
        /\ \A d \in overdueEvents' : events'[d] # None
    BY <1>5 DEF AbandonEvent, AgeEvent, RowsWellFormed, StoreTypeOK, EventUnseen
  <2>3. QED
    BY <2>1, <2>2 DEF RowsWellFormed
<1>6. ASSUME NEW s \in Slots, AgeRecord(s)
     PROVE  StoreTypeOK(R)' /\ RowsWellFormed'
  BY <1>6, AgeTyped, AgeWellFormed
<1>7. CASE UNCHANGED storeVars
  BY <1>7 DEF storeVars, StoreTypeOK, RowsWellFormed
<1>8. QED
  BY <1>1, <1>2, <1>3, <1>4, <1>5, <1>6, <1>7
  DEF StoreNext, ResolveConflict, InsertEventDuplicate

\* Every call of any client leaves both tables and the ages and purges of their
\* rows with their types.
THEOREM StoreTypeCorrect ==
  ASSUME NEW CONSTANT R, None \notin R
  PROVE  StoreInit /\ [][StoreNext(R)]_storeVars => []StoreTypeOK(R)
<1> DEFINE Inv == StoreTypeOK(R) /\ RowsWellFormed
<1>1. StoreInit => Inv
  BY InitStoreTyped, InitWellFormed
<1>2. Inv /\ [StoreNext(R)]_storeVars => Inv'
  BY StoreStep
<1>3. Inv => StoreTypeOK(R)
  OBVIOUS
<1>4. QED
  BY <1>1, <1>2, <1>3, PTL

\* No sequence of API calls of any clients leaves a half-written row, a result
\* on a row that is not terminal, or the age of a row that is gone.
THEOREM StoreRowsWellFormed ==
  ASSUME NEW CONSTANT R, None \notin R
  PROVE  StoreInit /\ [][StoreNext(R)]_storeVars => []RowsWellFormed
<1> DEFINE Inv == StoreTypeOK(R) /\ RowsWellFormed
<1>1. StoreInit => Inv
  BY InitStoreTyped, InitWellFormed
<1>2. Inv /\ [StoreNext(R)]_storeVars => Inv'
  BY StoreStep
<1>3. Inv => RowsWellFormed
  OBVIOUS
<1>4. QED
  BY <1>1, <1>2, <1>3, PTL

\* Whatever clients call, a stored terminal result is changed by nothing but the
\* purge of its row after the retention window.
THEOREM TerminalRowsImmutable ==
  ASSUME NEW CONSTANT R, None \notin R
  PROVE  StoreInit /\ [][StoreNext(R)]_storeVars => TerminalResultImmutable
<1> DEFINE Inv == StoreTypeOK(R) /\ RowsWellFormed
<1>1. StoreInit => Inv
  BY InitStoreTyped, InitWellFormed
<1>2. Inv /\ [StoreNext(R)]_storeVars => Inv'
  BY StoreStep
<1> DEFINE Kept == \A s \in Slots :
                     records[s].status \in {"completed", "failed"}
                       => \/ records'[s] = records[s]
                          \/ s \in overdueRecords /\ purges'[s] = purges[s] + 1
<1>3. Inv /\ [StoreNext(R)]_storeVars => [Kept]_storeVars
  <2> SUFFICES ASSUME StoreTypeOK(R), StoreNext(R), NEW t \in Slots,
                      records[t].status \in {"completed", "failed"}
               PROVE  \/ records'[t] = records[t]
                      \/ t \in overdueRecords /\ purges'[t] = purges[t] + 1
    OBVIOUS
  <2>1. ASSUME NEW s \in Slots, NEW x \in Payloads, ReserveCall(s, x)
       PROVE  \/ records'[t] = records[t]
              \/ t \in overdueRecords /\ purges'[t] = purges[t] + 1
    BY <2>1 DEF ReserveCall, ReserveConflict, ReserveExisting, ReserveNew, PurgedRecords,
                PurgeRest, Live, storeVars, StoreTypeOK
  <2>2. ASSUME NEW s \in Slots, NEW x \in Payloads, Abandon(s, x)
       PROVE  records'[t] = records[t]
    BY <2>2 DEF Abandon, Resolvable, StoreTypeOK
  <2>3. ASSUME NEW s \in Slots, NEW x \in Payloads, NEW r \in R,
               Complete(s, x, r) \/ Fail(s, x, r)
       PROVE  records'[t] = records[t]
    BY <2>3 DEF Complete, Fail, Resolve, Resolvable, StoreTypeOK
  <2>4. QED
    BY <2>1, <2>2, <2>3
    DEF StoreNext, ResolveConflict, InsertEvent, InsertEventDuplicate, AbandonEvent,
        AgeEvent, AgeRecord, storeVars
<1>4. QED
  BY <1>1, <1>2, <1>3, PTL DEF TerminalResultImmutable
=============================================================================
