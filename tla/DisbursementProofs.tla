--------------------------- MODULE DisbursementProofs ---------------------------
(***************************************************************************)
(* Theorems about disburse_float, for any number of workers, processes,    *)
(* keys, payloads, calls, crashes, locked-database errors and purges.      *)
(***************************************************************************)
EXTENDS DisbursementRefinement, IdempotencyProofs, FiniteSetTheorems, TLAPS

-----------------------------------------------------------------------------
(* The inductive invariant *)

\* What the locals of a call in flight hold.
LocalsOK ==
  \A w \in Workers :
    /\ pc[w] # "idle" => /\ slot[w] \in Slots
                         /\ payload[w] \in Payloads
                         /\ call[w] \in 1..MaxCalls
    /\ pc[w] \in {"reuse", "complete", "record"} => result[w] \in Result

\* A completed row has its result; the manager never calls fail().
RowsOK ==
  \A s \in Slots :
    /\ records[s].status # "failed"
    /\ records[s].status = "completed" => records[s].result \in Result

\* Workers that may still pay under s, or are about to release its row.
Spenders(s) ==
  {w \in Workers : slot[w] = s /\ pc[w] \in {"lookup", "issue", "abandon"}}

RowCount(s) == IF records[s].status = "absent" THEN 0 ELSE 1

\* Every worker that may pay and every payment made is backed by the row of the
\* key, as it is now or as a purge deleted it.
EffectsBacked ==
  \A s \in Slots :
    Cardinality(Spenders(s)) + Len(issued[s]) <= RowCount(s) + purges[s]

\* Workers about to answer a caller for s.
Tellers(s) == {w \in Workers : slot[w] = s /\ pc[w] \in {"reuse", "record"}}

\* The row of s is completed and holds result r for payload x.
Canonical(s, x, r) ==
  /\ records[s].status = "completed"
  /\ records[s].fingerprint = x
  /\ records[s].result = r

\* Whoever holds the key holds it alone and its row is theirs, and what callers
\* were or will be told is what the row says.
KeyOK(s) ==
  /\ \A w \in Holders(s) : Resolvable(s, payload[w]) /\ \A v \in Holders(s) : v = w
  /\ \A w \in Tellers(s) : Canonical(s, payload[w], result[w])
  /\ \A a \in answers[s] : Canonical(s, a.payload, a.result)

UnpurgedOK == \A s \in Slots : purges[s] = 0 => KeyOK(s)

TypeInv == TypeOK /\ LocalsOK /\ RowsOK

-----------------------------------------------------------------------------
(* Type correctness *)

LEMMA InitTyped == Init => TypeInv
<1> SUFFICES ASSUME Init PROVE TypeInv
  OBVIOUS
<1> USE DEF Init, StoreInit
<1>1. StoreTypeOK(Result)
  BY StoreAssumption DEF StoreTypeOK, Record, NoRecord, Statuses
<1>2. TypeOK
  BY <1>1, ManagerAssumption DEF TypeOK, Locations, EmptyAdapters
<1>3. LocalsOK /\ RowsOK
  BY DEF LocalsOK, RowsOK, NoRecord
<1>4. QED
  BY <1>2, <1>3 DEF TypeInv

\* A call that ends leaves typed locals behind.
LEMMA LeaveTyped ==
  ASSUME TypeInv, NEW w \in Workers, Leave(w)
  PROVE  /\ pc' \in [Workers -> Locations]
         /\ slot' \in [Workers -> Slots \cup {None}]
         /\ payload' \in [Workers -> Payloads \cup {None}]
         /\ call' \in [Workers -> 0..MaxCalls]
         /\ result' \in [Workers -> Result \cup {None}]
         /\ LocalsOK'
<1>1. pc' \in [Workers -> Locations]
  BY DEF TypeInv, TypeOK, Leave, Locations
<1>2. call' \in [Workers -> 0..MaxCalls]
  BY ManagerAssumption DEF TypeInv, TypeOK, Leave
<1>3. LocalsOK'
  BY DEF TypeInv, TypeOK, LocalsOK, Leave
<1>4. QED
  BY <1>1, <1>2, <1>3 DEF TypeInv, TypeOK, Leave

LEMMA AuditTyped ==
  ASSUME TypeInv, NEW w \in Workers, pc[w] # "idle",
         NEW type \in AuditTypes, AppendEvent(w, type)
  PROVE  audit' \in [Processes -> SUBSET AuditEvent]
<1>1. [type |-> type, slot |-> slot[w], call |-> call[w]] \in AuditEvent
  BY DEF TypeInv, LocalsOK, AuditEvent
<1>2. QED
  BY <1>1, ManagerAssumption DEF TypeInv, TypeOK, AppendEvent

LEMMA AnswerTyped ==
  ASSUME TypeInv, NEW w \in Workers, pc[w] \in {"reuse", "record"}, Answer(w)
  PROVE  answers' \in [Slots -> SUBSET [payload : Payloads, result : Result]]
<1>1. [payload |-> payload[w], result |-> result[w]]
        \in [payload : Payloads, result : Result]
  BY DEF TypeInv, LocalsOK
<1>2. QED
  BY <1>1 DEF TypeInv, TypeOK, LocalsOK, Answer

\* The adapter's answer becomes a typed result.
LEMMA BuildTyped ==
  ASSUME TypeInv, NEW w \in Workers, pc[w] # "idle",
         NEW entry \in AdapterEntry, BuildResult(w, entry)
  PROVE  result' \in [Workers -> Result \cup {None}] /\ result'[w] \in Result
<1>1. [call |-> call[w], effect |-> entry.effect, status |-> entry.status] \in Result
  BY DEF TypeInv, LocalsOK, AdapterEntry, Result
<1>2. QED
  BY <1>1 DEF TypeInv, TypeOK, BuildResult

LEMMA RememberTyped ==
  ASSUME TypeInv, NEW w \in Workers, pc[w] # "idle",
         NEW entry \in AdapterEntry, Remember(w, entry)
  PROVE  adapter' \in [Processes -> [Channels -> [Slots -> AdapterEntry \cup {NoEntry}]]]
<1>1. ProcessOf[w] \in Processes /\ ChannelOf(payload[w]) \in Channels
  BY ManagerAssumption DEF ChannelOf, Channels
<1>2. QED
  BY <1>1 DEF TypeInv, TypeOK, Remember

LEMMA RowsReserved ==
  ASSUME TypeInv, NEW s \in Slots, NEW x \in Payloads,
         ReserveConflict(s, x) \/ ReserveExisting(s, x) \/ ReserveNew(s, x)
  PROVE  RowsOK'
<1>1. CASE ReserveConflict(s, x)
  BY <1>1 DEF TypeInv, RowsOK, ReserveConflict, storeVars
<1>2. CASE ReserveExisting(s, x) \/ ReserveNew(s, x)
  <2>1. \A t \in Slots : records'[t] \in {NoRecord, records[t], Reservation(x)}
    BY <1>2 DEF ReserveExisting, ReserveNew, PurgedRecords
  <2>2. QED
    BY <2>1 DEF TypeInv, RowsOK, NoRecord, Reservation
<1>3. QED
  BY <1>1, <1>2

LEMMA NextTyped == TypeInv /\ [Next]_vars => TypeInv'
<1> SUFFICES ASSUME TypeInv, [Next]_vars PROVE TypeInv'
  OBVIOUS
<1> USE DEF TypeInv, Goto, At
<1>1. ASSUME NEW w \in Workers, NEW s \in Slots, NEW x \in Payloads, Call(w, s, x)
     PROVE  TypeInv'
  <2>1. StoreTypeOK(Result)'
    BY <1>1 DEF Call, TypeOK, StoreTypeOK, storeVars
  <2>2. TypeOK'
    BY <1>1, <2>1, ManagerAssumption DEF Call, TypeOK, Locations, memoryVars, historyVars
  <2>3. LocalsOK'
    BY <1>1, ManagerAssumption DEF Call, TypeOK, LocalsOK
  <2>4. RowsOK'
    BY <1>1 DEF Call, RowsOK, storeVars
  <2>5. QED
    BY <2>1, <2>2, <2>3, <2>4
<1>2. ASSUME NEW w \in Workers, ReserveOwned(w) PROVE TypeInv'
  <2>1. slot[w] \in Slots /\ payload[w] \in Payloads
    BY <1>2 DEF ReserveOwned, LocalsOK
  <2>2. StoreTypeOK(Result)' /\ RowsOK'
    BY <1>2, <2>1, ReserveTyped, RowsReserved DEF ReserveCall, ReserveOwned, TypeOK
  <2>3. TypeOK'
    BY <1>2, <2>2 DEF ReserveOwned, TypeOK, Locations, memoryVars, boundVars, historyVars
  <2>4. LocalsOK'
    BY <1>2, <2>2 DEF ReserveOwned, TypeOK, LocalsOK
  <2>5. QED
    BY <2>1, <2>2, <2>3, <2>4
<1>3. ASSUME NEW w \in Workers, ReserveRefused(w) PROVE TypeInv'
  <2>1. slot[w] \in Slots /\ payload[w] \in Payloads
    BY <1>3 DEF ReserveRefused, LocalsOK
  <2>2. StoreTypeOK(Result)' /\ RowsOK'
    BY <1>3, <2>1, ReserveTyped, RowsReserved DEF ReserveCall, ReserveRefused, TypeOK
  <2>3. TypeOK'
    BY <1>3, <2>2 DEF ReserveRefused, TypeOK, Locations, memoryVars, boundVars, historyVars
  <2>4. LocalsOK'
    BY <1>3, <2>2 DEF ReserveRefused, TypeOK, LocalsOK
  <2>5. QED
    BY <2>1, <2>2, <2>3, <2>4
<1>4. ASSUME NEW w \in Workers, ReserveTerminal(w) PROVE TypeInv'
  <2>1. slot[w] \in Slots /\ payload[w] \in Payloads
    BY <1>4 DEF ReserveTerminal, LocalsOK
  <2>2. StoreTypeOK(Result)' /\ RowsOK'
    BY <1>4, <2>1, ReserveTyped, RowsReserved DEF ReserveCall, ReserveTerminal, TypeOK
  <2>3. records[slot[w]].result \in Result
    BY <1>4, <2>1 DEF ReserveTerminal, ReserveExisting, Live, RowsOK, TypeOK, StoreTypeOK, Record, Statuses
  <2>4. TypeOK'
    BY <1>4, <2>2, <2>3 DEF ReserveTerminal, TypeOK, Locations, memoryVars, boundVars, historyVars
  <2>5. LocalsOK'
    BY <1>4, <2>3 DEF ReserveTerminal, TypeOK, LocalsOK
  <2>6. QED
    BY <2>1, <2>2, <2>3, <2>4, <2>5
<1>5. ASSUME NEW w \in Workers, ReserveInFlight(w) PROVE TypeInv'
  <2>1. slot[w] \in Slots /\ payload[w] \in Payloads
    BY <1>5 DEF ReserveInFlight, LocalsOK
  <2>2. StoreTypeOK(Result)' /\ RowsOK'
    BY <1>5, <2>1, ReserveTyped, RowsReserved DEF ReserveCall, ReserveInFlight, TypeOK
  <2>3. TypeOK' /\ LocalsOK'
    BY <1>5, <2>2, LeaveTyped DEF ReserveInFlight, TypeOK, memoryVars, boundVars, historyVars
  <2>4. QED
    BY <2>1, <2>2, <2>3
<1>6. ASSUME NEW w \in Workers, ReserveBusy(w) PROVE TypeInv'
  <2>1. StoreTypeOK(Result)'
    BY <1>6 DEF ReserveBusy, TypeOK, StoreTypeOK, storeVars
  <2>2. TypeOK'
    BY <1>6, <2>1, ManagerAssumption DEF ReserveBusy, TypeOK, Locations, memoryVars, historyVars
  <2>3. LocalsOK' /\ RowsOK'
    BY <1>6 DEF ReserveBusy, TypeOK, LocalsOK, RowsOK, storeVars
  <2>4. QED
    BY <2>1, <2>2, <2>3
<1>7. ASSUME NEW w \in Workers, AuditConflict(w) PROVE TypeInv'
  <2>1. StoreTypeOK(Result)' /\ RowsOK'
    BY <1>7 DEF AuditConflict, TypeOK, StoreTypeOK, RowsOK, storeVars
  <2>2. audit' \in [Processes -> SUBSET AuditEvent]
    BY <1>7, AuditTyped DEF AuditConflict, AuditTypes
  <2>3. TypeOK' /\ LocalsOK'
    BY <1>7, <2>1, <2>2, LeaveTyped DEF AuditConflict, TypeOK, boundVars, historyVars
  <2>4. QED
    BY <2>1, <2>2, <2>3
<1>8. ASSUME NEW w \in Workers, AuditFailure(w) PROVE TypeInv'
  <2>1. StoreTypeOK(Result)' /\ RowsOK'
    BY <1>8 DEF AuditFailure, TypeOK, StoreTypeOK, RowsOK, storeVars
  <2>2. audit' \in [Processes -> SUBSET AuditEvent]
    BY <1>8, AuditTyped DEF AuditFailure, AuditTypes
  <2>3. TypeOK' /\ LocalsOK'
    BY <1>8, <2>1, <2>2, LeaveTyped DEF AuditFailure, TypeOK, boundVars, historyVars
  <2>4. QED
    BY <2>1, <2>2, <2>3
<1>9. ASSUME NEW w \in Workers, ReuseResult(w) PROVE TypeInv'
  <2>1. StoreTypeOK(Result)' /\ RowsOK'
    BY <1>9 DEF ReuseResult, TypeOK, StoreTypeOK, RowsOK, storeVars
  <2>2. audit' \in [Processes -> SUBSET AuditEvent]
    BY <1>9, AuditTyped DEF ReuseResult, AuditTypes
  <2>3. answers' \in [Slots -> SUBSET [payload : Payloads, result : Result]]
    BY <1>9, AnswerTyped DEF ReuseResult
  <2>4. TypeOK' /\ LocalsOK'
    BY <1>9, <2>1, <2>2, <2>3, LeaveTyped DEF ReuseResult, TypeOK, boundVars
  <2>5. QED
    BY <2>1, <2>2, <2>3, <2>4
<1>10. ASSUME NEW w \in Workers, RecordResult(w) PROVE TypeInv'
  <2>1. StoreTypeOK(Result)' /\ RowsOK'
    BY <1>10 DEF RecordResult, TypeOK, StoreTypeOK, RowsOK, storeVars
  <2>2. audit' \in [Processes -> SUBSET AuditEvent]
    BY <1>10, AuditTyped DEF RecordResult, AuditTypes
  <2>3. answers' \in [Slots -> SUBSET [payload : Payloads, result : Result]]
    BY <1>10, AnswerTyped DEF RecordResult
  <2>4. trail' \in [Processes -> SUBSET (Slots \X Result)]
    BY <1>10, ManagerAssumption DEF RecordResult, TypeOK, LocalsOK
  <2>5. TypeOK' /\ LocalsOK'
    BY <1>10, <2>1, <2>2, <2>3, <2>4, LeaveTyped DEF RecordResult, TypeOK, boundVars
  <2>6. QED
    BY <2>1, <2>2, <2>3, <2>4, <2>5
<1>11. ASSUME NEW w \in Workers, AdapterHit(w) PROVE TypeInv'
  <2>1. StoreTypeOK(Result)' /\ RowsOK'
    BY <1>11 DEF AdapterHit, TypeOK, StoreTypeOK, RowsOK, storeVars
  <2>2. ChannelOf(payload[w]) \in Channels
    BY DEF ChannelOf, Channels
  <2>3. EntryOf(w) \in AdapterEntry
    <3>1. slot[w] \in Slots /\ ProcessOf[w] \in Processes
      BY <1>11, ManagerAssumption DEF AdapterHit, LocalsOK
    <3>2. EntryOf(w) \in AdapterEntry \cup {NoEntry}
      BY <2>2, <3>1 DEF EntryOf, TypeOK
    <3>3. QED
      BY <1>11, <3>2 DEF AdapterHit
  <2>4. result' \in [Workers -> Result \cup {None}] /\ result'[w] \in Result
    BY <1>11, <2>3, BuildTyped DEF AdapterHit
  <2>5. TypeOK'
    BY <1>11, <2>1, <2>4 DEF AdapterHit, TypeOK, Locations, memoryVars, boundVars, historyVars
  <2>6. LocalsOK'
    BY <1>11, <2>4 DEF AdapterHit, BuildResult, TypeOK, LocalsOK
  <2>7. QED
    BY <2>1, <2>2, <2>3, <2>4, <2>5, <2>6
<1>12. ASSUME NEW w \in Workers, AdapterMiss(w) PROVE TypeInv'
  <2>1. StoreTypeOK(Result)' /\ RowsOK'
    BY <1>12 DEF AdapterMiss, TypeOK, StoreTypeOK, RowsOK, storeVars
  <2>2. TypeOK'
    BY <1>12, <2>1 DEF AdapterMiss, TypeOK, Locations, memoryVars, boundVars, historyVars
  <2>3. LocalsOK'
    BY <1>12 DEF AdapterMiss, TypeOK, LocalsOK
  <2>4. QED
    BY <2>1, <2>2, <2>3
<1>13. ASSUME NEW w \in Workers, AdapterRaise(w) PROVE TypeInv'
  <2>1. StoreTypeOK(Result)' /\ RowsOK'
    BY <1>13 DEF AdapterRaise, TypeOK, StoreTypeOK, RowsOK, storeVars
  <2>2. TypeOK'
    BY <1>13, <2>1 DEF AdapterRaise, TypeOK, Locations, memoryVars, boundVars, historyVars
  <2>3. LocalsOK'
    BY <1>13 DEF AdapterRaise, TypeOK, LocalsOK
  <2>4. QED
    BY <2>1, <2>2, <2>3
<1>14. ASSUME NEW w \in Workers, AdapterIssue(w) PROVE TypeInv'
  <2> DEFINE entry == [effect |-> Len(issued[slot[w]]) + 1, status |-> "completed"]
  <2>1. StoreTypeOK(Result)' /\ RowsOK'
    BY <1>14 DEF AdapterIssue, TypeOK, StoreTypeOK, RowsOK, storeVars
  <2>2. entry \in AdapterEntry
    BY <1>14 DEF AdapterIssue, AdapterEntry, ResultStatuses, TypeOK, LocalsOK
  <2>3. result' \in [Workers -> Result \cup {None}] /\ result'[w] \in Result
    BY <1>14, <2>2, BuildTyped DEF AdapterIssue
  <2>4. adapter' \in [Processes -> [Channels -> [Slots -> AdapterEntry \cup {NoEntry}]]]
    BY <1>14, <2>2, RememberTyped DEF AdapterIssue
  <2>5. issued' \in [Slots -> Seq(Payloads)]
    BY <1>14 DEF AdapterIssue, TypeOK, LocalsOK
  <2>6. TypeOK'
    BY <1>14, <2>1, <2>3, <2>4, <2>5 DEF AdapterIssue, TypeOK, Locations, boundVars
  <2>7. LocalsOK'
    BY <1>14, <2>3 DEF AdapterIssue, BuildResult, TypeOK, LocalsOK
  <2>8. QED
    BY <2>1, <2>2, <2>3, <2>4, <2>5, <2>6, <2>7
<1>15. ASSUME NEW w \in Workers, AdapterDeclined(w) PROVE TypeInv'
  <2> DEFINE entry == [effect |-> 0, status |-> "failed"]
  <2>1. StoreTypeOK(Result)' /\ RowsOK'
    BY <1>15 DEF AdapterDeclined, TypeOK, StoreTypeOK, RowsOK, storeVars
  <2>2. entry \in AdapterEntry
    BY <1>15 DEF AdapterDeclined, AdapterEntry, ResultStatuses, TypeOK, LocalsOK
  <2>3. result' \in [Workers -> Result \cup {None}] /\ result'[w] \in Result
    BY <1>15, <2>2, BuildTyped DEF AdapterDeclined
  <2>4. adapter' \in [Processes -> [Channels -> [Slots -> AdapterEntry \cup {NoEntry}]]]
    BY <1>15, <2>2, RememberTyped DEF AdapterDeclined
  <2>5. TypeOK'
    BY <1>15, <2>1, <2>3, <2>4 DEF AdapterDeclined, TypeOK, Locations, boundVars, historyVars
  <2>6. LocalsOK'
    BY <1>15, <2>3 DEF AdapterDeclined, BuildResult, TypeOK, LocalsOK
  <2>7. QED
    BY <2>1, <2>2, <2>3, <2>4, <2>5, <2>6
<1>16. ASSUME NEW w \in Workers, AbandonReservation(w) PROVE TypeInv'
  <2>1. slot[w] \in Slots /\ payload[w] \in Payloads
    BY <1>16 DEF AbandonReservation, LocalsOK
  <2>2. StoreTypeOK(Result)'
    BY <1>16, <2>1, AbandonTyped DEF AbandonReservation, TypeOK
  <2>3. RowsOK'
    BY <1>16, <2>1 DEF AbandonReservation, Abandon, RowsOK, NoRecord, TypeOK, StoreTypeOK
  <2>4. TypeOK'
    BY <1>16, <2>2 DEF AbandonReservation, TypeOK, Locations, memoryVars, boundVars, historyVars
  <2>5. LocalsOK'
    BY <1>16 DEF AbandonReservation, TypeOK, LocalsOK
  <2>6. QED
    BY <2>1, <2>2, <2>3, <2>4, <2>5
<1>17. ASSUME NEW w \in Workers, CompleteReservation(w) PROVE TypeInv'
  <2>1. slot[w] \in Slots /\ payload[w] \in Payloads /\ result[w] \in Result
    BY <1>17 DEF CompleteReservation, LocalsOK
  <2>2. StoreTypeOK(Result)'
    BY <1>17, <2>1, ResolveTyped DEF CompleteReservation, TypeOK
  <2>3. RowsOK'
    BY <1>17, <2>1 DEF CompleteReservation, Complete, Resolve, RowsOK, TypeOK, StoreTypeOK
  <2>4. TypeOK'
    BY <1>17, <2>2 DEF CompleteReservation, TypeOK, Locations, memoryVars, boundVars, historyVars
  <2>5. LocalsOK'
    BY <1>17 DEF CompleteReservation, TypeOK, LocalsOK
  <2>6. QED
    BY <2>1, <2>2, <2>3, <2>4, <2>5
<1>18. ASSUME NEW w \in Workers, CompleteRefused(w) PROVE TypeInv'
  <2>1. StoreTypeOK(Result)' /\ RowsOK'
    BY <1>18 DEF CompleteRefused, ResolveConflict, TypeOK, StoreTypeOK, RowsOK, storeVars
  <2>2. TypeOK' /\ LocalsOK'
    BY <1>18, <2>1, LeaveTyped DEF CompleteRefused, TypeOK, memoryVars, boundVars, historyVars
  <2>3. QED
    BY <2>1, <2>2
<1>19. ASSUME NEW w \in Workers, SettleBusy(w) PROVE TypeInv'
  <2>1. StoreTypeOK(Result)' /\ RowsOK'
    BY <1>19 DEF SettleBusy, TypeOK, StoreTypeOK, RowsOK, storeVars
  <2>2. TypeOK' /\ LocalsOK'
    BY <1>19, <2>1, LeaveTyped, ManagerAssumption DEF SettleBusy, TypeOK, memoryVars, historyVars
  <2>3. QED
    BY <2>1, <2>2
<1>20. ASSUME NEW p \in Processes, Crash(p) PROVE TypeInv'
  <2>1. StoreTypeOK(Result)' /\ RowsOK'
    BY <1>20 DEF Crash, TypeOK, StoreTypeOK, RowsOK, storeVars
  <2>2. EmptyAdapters \in [Channels -> [Slots -> AdapterEntry \cup {NoEntry}]]
    BY DEF EmptyAdapters
  <2>3. pc' \in [Workers -> Locations] /\ call' \in [Workers -> 0..MaxCalls]
    BY <1>20, ManagerAssumption DEF Crash, TypeOK, Locations
  <2>4. TypeOK'
    BY <1>20, <2>1, <2>2, <2>3, ManagerAssumption DEF Crash, TypeOK, historyVars
  <2>5. LocalsOK'
    BY <1>20 DEF Crash, TypeOK, LocalsOK
  <2>6. QED
    BY <2>1, <2>2, <2>3, <2>4, <2>5
<1>21. ASSUME NEW s \in Slots, Age(s) PROVE TypeInv'
  <2>1. StoreTypeOK(Result)'
    BY <1>21, AgeTyped DEF Age, TypeOK
  <2>2. TypeOK'
    BY <1>21, <2>1 DEF Age, TypeOK, workerVars, memoryVars, boundVars, historyVars
  <2>3. LocalsOK' /\ RowsOK'
    BY <1>21 DEF Age, AgeRecord, LocalsOK, RowsOK, workerVars
  <2>4. QED
    BY <2>1, <2>2, <2>3
<1>22. CASE UNCHANGED vars
  <2>1. TypeOK'
    BY <1>22 DEF vars, TypeOK, StoreTypeOK, storeVars, workerVars, memoryVars, boundVars, historyVars
  <2>2. LocalsOK' /\ RowsOK'
    BY <1>22 DEF vars, LocalsOK, RowsOK, storeVars, workerVars
  <2>3. QED
    BY <2>1, <2>2
<1>23. QED
  BY <1>1, <1>2, <1>3, <1>4, <1>5, <1>6, <1>7, <1>8, <1>9, <1>10, <1>11, <1>12, <1>13, <1>14, <1>15, <1>16, <1>17, <1>18, <1>19, <1>20, <1>21, <1>22 DEF Next, Step

\* Every variable keeps its type in every behaviour of disburse_float; in
\* particular a stored or answered result is always a complete one, although
\* result, row and adapter entry are written by different steps.
THEOREM TypeCorrect == Spec => []TypeOK
<1>1. TypeInv => TypeOK
  BY DEF TypeInv
<1>2. QED
  BY InitTyped, NextTyped, <1>1, PTL DEF Spec

-----------------------------------------------------------------------------
(* Sets of workers and their size *)

LEMMA WorkerSetSize ==
  ASSUME NEW T \in SUBSET Workers
  PROVE  IsFiniteSet(T) /\ Cardinality(T) \in Nat
  BY ManagerAssumption, FS_Subset, FS_CardinalityType

LEMMA SmallerSet ==
  ASSUME NEW T \in SUBSET Workers, NEW S \in SUBSET T
  PROVE  Cardinality(S) <= Cardinality(T)
  BY WorkerSetSize, FS_Subset

LEMMA OneMore ==
  ASSUME NEW T \in SUBSET Workers, NEW w \in Workers, NEW S \in SUBSET (T \cup {w})
  PROVE  Cardinality(S) <= Cardinality(T) + 1
<1>1. Cardinality(T \cup {w}) <= Cardinality(T) + 1
  BY WorkerSetSize, FS_AddElement
<1>2. Cardinality(S) <= Cardinality(T \cup {w})
  BY SmallerSet
<1>3. QED
  BY <1>1, <1>2, WorkerSetSize

LEMMA OneLess ==
  ASSUME NEW T \in SUBSET Workers, NEW w \in T, NEW S \in SUBSET (T \ {w})
  PROVE  Cardinality(S) + 1 <= Cardinality(T)
<1>1. Cardinality(T \ {w}) = Cardinality(T) - 1
  BY WorkerSetSize, FS_RemoveElement
<1>2. Cardinality(S) <= Cardinality(T \ {w})
  BY SmallerSet
<1>3. QED
  BY <1>1, <1>2, WorkerSetSize
-----------------------------------------------------------------------------
(* At most one effect per row that ever existed *)

\* The rows a key has and had: what EffectsBacked weighs payments against.
Backing(s) == RowCount(s) + purges[s]

LEMMA InitBacked == Init => EffectsBacked
<1> SUFFICES ASSUME Init, NEW s \in Slots
             PROVE  Cardinality(Spenders(s)) + Len(issued[s]) <= RowCount(s) + purges[s]
  BY DEF EffectsBacked
<1>1. Spenders(s) = {}
  BY DEF Init, Spenders
<1>2. Cardinality(Spenders(s)) = 0
  BY <1>1, FS_EmptySet
<1>3. QED
  BY <1>2 DEF Init, StoreInit, RowCount, NoRecord

LEMMA BackingTyped ==
  ASSUME TypeInv, TypeInv', NEW s \in Slots
  PROVE  /\ Cardinality(Spenders(s)) \in Nat /\ Cardinality(Spenders(s)') \in Nat
         /\ Backing(s) \in Nat /\ Backing(s)' \in Nat /\ Len(issued[s]) \in Nat
<1>1. Spenders(s) \in SUBSET Workers /\ Spenders(s)' \in SUBSET Workers
  BY DEF Spenders
<1>2. Cardinality(Spenders(s)) \in Nat /\ Cardinality(Spenders(s)') \in Nat
  BY <1>1, WorkerSetSize
<1>3. purges[s] \in Nat /\ purges'[s] \in Nat /\ Len(issued[s]) \in Nat
  BY DEF TypeInv, TypeOK, StoreTypeOK
<1>4. QED
  BY <1>2, <1>3 DEF Backing, RowCount

\* A step that adds no spender, pays nothing and costs no backing is harmless.
LEMMA BackedByLess ==
  ASSUME TypeInv, TypeInv', EffectsBacked, UNCHANGED issued,
         \A s \in Slots : Spenders(s)' \subseteq Spenders(s),
         \A s \in Slots : Backing(s) <= Backing(s)'
  PROVE  EffectsBacked'
<1> SUFFICES ASSUME NEW s \in Slots
             PROVE  Cardinality(Spenders(s)') + Len(issued'[s]) <= Backing(s)'
  BY DEF EffectsBacked, Backing
<1>1. Spenders(s) \in SUBSET Workers /\ Spenders(s)' \in SUBSET Spenders(s)
  BY DEF Spenders
<1>2. Cardinality(Spenders(s)') <= Cardinality(Spenders(s))
  BY <1>1, SmallerSet
<1>3. Cardinality(Spenders(s)) + Len(issued[s]) <= Backing(s)
  BY DEF EffectsBacked, Backing
<1>4. QED
  BY <1>2, <1>3, BackingTyped

\* A purge turns a row into purged backing; reserving only adds to it.
LEMMA ReserveBacks ==
  ASSUME TypeInv, NEW s \in Slots, NEW x \in Payloads,
         ReserveConflict(s, x) \/ ReserveExisting(s, x)
  PROVE  \A t \in Slots : Backing(t) <= Backing(t)'
<1>1. CASE ReserveConflict(s, x)
  BY <1>1 DEF ReserveConflict, storeVars, Backing, RowCount, TypeInv, TypeOK, StoreTypeOK
<1>2. CASE ReserveExisting(s, x)
  BY <1>2 DEF ReserveExisting, PurgeRest, PurgedRecords, NoRecord, Backing, RowCount,
              TypeInv, TypeOK, StoreTypeOK
<1>3. QED
  BY <1>1, <1>2

LEMMA ReserveNewBacks ==
  ASSUME TypeInv, NEW s \in Slots, NEW x \in Payloads, ReserveNew(s, x)
  PROVE  /\ Backing(s) + 1 <= Backing(s)'
         /\ \A t \in Slots : Backing(t) <= Backing(t)'
<1>1. \A t \in Slots : purges'[t] = IF t \in overdueRecords THEN purges[t] + 1 ELSE purges[t]
  BY DEF ReserveNew, PurgeRest
<1>2. \A t \in Slots \ {s} : records'[t] = IF t \in overdueRecords THEN NoRecord ELSE records[t]
  BY DEF ReserveNew, PurgedRecords
<1>3. records'[s] = Reservation(x)
  BY DEF ReserveNew, PurgedRecords
<1>4. s \notin overdueRecords => records[s].status = "absent"
  BY DEF ReserveNew, Live
<1>5. purges \in [Slots -> Nat]
  BY DEF TypeInv, TypeOK, StoreTypeOK
<1>6. Backing(s) + 1 <= Backing(s)'
  BY <1>1, <1>3, <1>4, <1>5 DEF Backing, RowCount, Reservation
<1>7. \A t \in Slots \ {s} : Backing(t) <= Backing(t)'
  BY <1>1, <1>2, <1>5 DEF Backing, RowCount, NoRecord
<1>8. Backing(s) \in Nat /\ Backing(s)' \in Nat
  BY <1>1, <1>5 DEF Backing, RowCount
<1>9. QED
  BY <1>6, <1>7, <1>8

LEMMA NextBacked == TypeInv /\ TypeInv' /\ EffectsBacked /\ [Next]_vars => EffectsBacked'
<1> SUFFICES ASSUME TypeInv, TypeInv', EffectsBacked, [Next]_vars PROVE EffectsBacked'
  OBVIOUS
<1> DEFINE Harmless == /\ UNCHANGED issued
                       /\ \A s \in Slots : Spenders(s)' \subseteq Spenders(s)
                       /\ \A s \in Slots : Backing(s) <= Backing(s)'
<1>h. Harmless => EffectsBacked'
  BY BackedByLess
<1>t. /\ pc \in [Workers -> Locations] /\ slot \in [Workers -> Slots \cup {None}]
      /\ purges \in [Slots -> Nat] /\ records \in [Slots -> Record(Result)]
      /\ issued \in [Slots -> Seq(Payloads)]
  BY DEF TypeInv, TypeOK, StoreTypeOK
<1>b. UNCHANGED storeVars => \A s \in Slots : Backing(s) <= Backing(s)'
  BY <1>t DEF storeVars, Backing, RowCount
<1> USE DEF Goto, At
<1>1. ASSUME NEW w \in Workers, NEW s \in Slots, NEW x \in Payloads, Call(w, s, x)
      PROVE  Harmless
  BY <1>1, <1>b, <1>t DEF Call, Spenders, historyVars
<1>2. ASSUME NEW w \in Workers, ReserveOwned(w) PROVE EffectsBacked'
  <2>1. slot[w] \in Slots /\ payload[w] \in Payloads
    BY <1>2 DEF ReserveOwned, TypeInv, LocalsOK
  <2>2. /\ \A t \in Slots : t = slot[w] => Backing(t) + 1 <= Backing(t)'
        /\ \A t \in Slots : Backing(t) <= Backing(t)'
    BY <1>2, <2>1, ReserveNewBacks DEF ReserveOwned
  <2> SUFFICES ASSUME NEW s \in Slots
               PROVE  Cardinality(Spenders(s)') + Len(issued'[s]) <= Backing(s)'
    BY DEF EffectsBacked, Backing
  <2>3. Spenders(s) \in SUBSET Workers /\ Spenders(s)' \in SUBSET Workers
    BY DEF Spenders
  <2>4. /\ Cardinality(Spenders(s)) \in Nat /\ Cardinality(Spenders(s)') \in Nat
        /\ Backing(s) \in Nat /\ Backing(s)' \in Nat /\ Len(issued[s]) \in Nat
    BY BackingTyped
  <2>5. Cardinality(Spenders(s)) + Len(issued[s]) <= Backing(s)
    BY DEF EffectsBacked, Backing
  <2>6. issued'[s] = issued[s]
    BY <1>2 DEF ReserveOwned, historyVars
  <2>7. CASE s = slot[w]
    <3>1. Spenders(s)' \in SUBSET (Spenders(s) \cup {w})
      BY <1>2, <1>t DEF ReserveOwned, Spenders
    <3>2. Cardinality(Spenders(s)') <= Cardinality(Spenders(s)) + 1
      BY <2>3, <3>1, OneMore
    <3>3. Backing(s) + 1 <= Backing(s)'
      BY <2>2, <2>7
    <3>4. QED
      BY <2>4, <2>5, <2>6, <3>2, <3>3
  <2>8. CASE s # slot[w]
    <3>1. Spenders(s)' \in SUBSET Spenders(s)
      BY <1>2, <1>t, <2>8 DEF ReserveOwned, Spenders
    <3>2. Cardinality(Spenders(s)') <= Cardinality(Spenders(s))
      BY <2>3, <3>1, SmallerSet
    <3>3. QED
      BY <2>2, <2>4, <2>5, <2>6, <3>2
  <2>9. QED
    BY <2>7, <2>8
<1>3. ASSUME NEW w \in Workers, AdapterIssue(w) PROVE EffectsBacked'
  <2> SUFFICES ASSUME NEW s \in Slots
               PROVE  Cardinality(Spenders(s)') + Len(issued'[s]) <= Backing(s)'
    BY DEF EffectsBacked, Backing
  <2>1. Spenders(s) \in SUBSET Workers /\ Spenders(s)' \in SUBSET Workers
    BY DEF Spenders
  <2>2. /\ Cardinality(Spenders(s)) \in Nat /\ Cardinality(Spenders(s)') \in Nat
        /\ Backing(s) \in Nat /\ Backing(s)' \in Nat /\ Len(issued[s]) \in Nat
    BY BackingTyped
  <2>3. Cardinality(Spenders(s)) + Len(issued[s]) <= Backing(s)
    BY DEF EffectsBacked, Backing
  <2>4. Backing(s) <= Backing(s)'
    BY <1>3, <1>b DEF AdapterIssue
  <2>5. CASE s = slot[w]
    <3>1. w \in Spenders(s) /\ Spenders(s)' \in SUBSET (Spenders(s) \ {w})
      BY <1>3, <1>t, <2>5 DEF AdapterIssue, Spenders
    <3>2. Cardinality(Spenders(s)') + 1 <= Cardinality(Spenders(s))
      BY <2>1, <3>1, OneLess
    <3>3. payload[w] \in Payloads
      BY <1>3 DEF AdapterIssue, TypeInv, LocalsOK
    <3>4. issued'[s] = Append(issued[s], payload[w])
      BY <1>3, <1>t, <2>5 DEF AdapterIssue
    <3>5. Len(issued'[s]) = Len(issued[s]) + 1
      BY <1>t, <3>3, <3>4
    <3>6. QED
      BY <2>2, <2>3, <2>4, <3>2, <3>5
  <2>6. CASE s # slot[w]
    <3>1. Spenders(s)' \in SUBSET Spenders(s)
      BY <1>3, <1>t, <2>6 DEF AdapterIssue, Spenders
    <3>2. Cardinality(Spenders(s)') <= Cardinality(Spenders(s))
      BY <2>1, <3>1, SmallerSet
    <3>3. issued'[s] = issued[s]
      BY <1>3, <1>t, <2>6 DEF AdapterIssue
    <3>4. QED
      BY <2>2, <2>3, <2>4, <3>2, <3>3
  <2>7. QED
    BY <2>5, <2>6
<1>4. ASSUME NEW w \in Workers, AbandonReservation(w) PROVE EffectsBacked'
  <2> SUFFICES ASSUME NEW s \in Slots
               PROVE  Cardinality(Spenders(s)') + Len(issued'[s]) <= Backing(s)'
    BY DEF EffectsBacked, Backing
  <2>1. Spenders(s) \in SUBSET Workers /\ Spenders(s)' \in SUBSET Workers
    BY DEF Spenders
  <2>2. /\ Cardinality(Spenders(s)) \in Nat /\ Cardinality(Spenders(s)') \in Nat
        /\ Backing(s) \in Nat /\ Backing(s)' \in Nat /\ Len(issued[s]) \in Nat
    BY BackingTyped
  <2>3. Cardinality(Spenders(s)) + Len(issued[s]) <= Backing(s)
    BY DEF EffectsBacked, Backing
  <2>4. issued'[s] = issued[s]
    BY <1>4 DEF AbandonReservation, historyVars
  <2>5. CASE s = slot[w]
    <3>1. w \in Spenders(s) /\ Spenders(s)' \in SUBSET (Spenders(s) \ {w})
      BY <1>4, <1>t, <2>5 DEF AbandonReservation, Spenders
    <3>2. Cardinality(Spenders(s)') + 1 <= Cardinality(Spenders(s))
      BY <2>1, <3>1, OneLess
    <3>3. Backing(s) <= Backing(s)' + 1
      BY <1>4, <1>t DEF AbandonReservation, Abandon, Backing, RowCount
    <3>4. QED
      BY <2>2, <2>3, <2>4, <3>2, <3>3
  <2>6. CASE s # slot[w]
    <3>1. Spenders(s)' \in SUBSET Spenders(s)
      BY <1>4, <1>t, <2>6 DEF AbandonReservation, Spenders
    <3>2. Cardinality(Spenders(s)') <= Cardinality(Spenders(s))
      BY <2>1, <3>1, SmallerSet
    <3>3. Backing(s) <= Backing(s)'
      BY <1>4, <1>t, <2>6 DEF AbandonReservation, Abandon, Backing, RowCount
    <3>4. QED
      BY <2>2, <2>3, <2>4, <3>2, <3>3
  <2>7. QED
    BY <2>5, <2>6
<1>5. ASSUME NEW w \in Workers, ReserveRefused(w) PROVE Harmless
  <2>1. slot[w] \in Slots /\ payload[w] \in Payloads
    BY <1>5 DEF ReserveRefused, TypeInv, LocalsOK
  <2>2. \A s \in Slots : Backing(s) <= Backing(s)'
    BY <1>5, <2>1, ReserveBacks DEF ReserveRefused
  <2>3. QED
    BY <1>5, <2>2, <1>t DEF ReserveRefused, Spenders, historyVars
<1>6. ASSUME NEW w \in Workers, ReserveInFlight(w) PROVE Harmless
  <2>1. slot[w] \in Slots /\ payload[w] \in Payloads
    BY <1>6 DEF ReserveInFlight, TypeInv, LocalsOK
  <2>2. \A s \in Slots : Backing(s) <= Backing(s)'
    BY <1>6, <2>1, ReserveBacks DEF ReserveInFlight
  <2>3. QED
    BY <1>6, <2>2, <1>t DEF ReserveInFlight, Leave, Spenders, historyVars
<1>7. ASSUME NEW w \in Workers, ReserveTerminal(w) PROVE Harmless
  <2>1. slot[w] \in Slots /\ payload[w] \in Payloads
    BY <1>7 DEF ReserveTerminal, TypeInv, LocalsOK
  <2>2. \A s \in Slots : Backing(s) <= Backing(s)'
    BY <1>7, <2>1, ReserveBacks DEF ReserveTerminal
  <2>3. QED
    BY <1>7, <2>2, <1>t DEF ReserveTerminal, Spenders, historyVars
<1>8. ASSUME NEW w \in Workers, ReserveBusy(w) PROVE Harmless
  BY <1>8, <1>b, <1>t DEF ReserveBusy, Spenders, historyVars
<1>9. ASSUME NEW w \in Workers, AuditConflict(w) PROVE Harmless
  BY <1>9, <1>b, <1>t DEF AuditConflict, Leave, Spenders, historyVars
<1>10. ASSUME NEW w \in Workers, ReuseResult(w) PROVE Harmless
  BY <1>10, <1>b, <1>t DEF ReuseResult, Leave, Spenders, historyVars
<1>11. ASSUME NEW w \in Workers, AdapterHit(w) PROVE Harmless
  BY <1>11, <1>b, <1>t DEF AdapterHit, Spenders, historyVars
<1>12. ASSUME NEW w \in Workers, AdapterMiss(w) PROVE Harmless
  BY <1>12, <1>b, <1>t DEF AdapterMiss, Spenders, historyVars
<1>13. ASSUME NEW w \in Workers, AdapterDeclined(w) PROVE Harmless
  BY <1>13, <1>b, <1>t DEF AdapterDeclined, Spenders, historyVars
<1>14. ASSUME NEW w \in Workers, AdapterRaise(w) PROVE Harmless
  BY <1>14, <1>b, <1>t DEF AdapterRaise, Spenders, historyVars
<1>15. ASSUME NEW w \in Workers, AuditFailure(w) PROVE Harmless
  BY <1>15, <1>b, <1>t DEF AuditFailure, Leave, Spenders, historyVars
<1>16. ASSUME NEW w \in Workers, SettleBusy(w) PROVE Harmless
  BY <1>16, <1>b, <1>t DEF SettleBusy, Leave, Spenders, historyVars
<1>17. ASSUME NEW w \in Workers, RecordResult(w) PROVE Harmless
  BY <1>17, <1>b, <1>t DEF RecordResult, Leave, Spenders, historyVars
<1>18. ASSUME NEW w \in Workers, CompleteRefused(w) PROVE Harmless
  BY <1>18, <1>b, <1>t DEF CompleteRefused, ResolveConflict, Leave, Spenders, historyVars
<1>19. ASSUME NEW w \in Workers, CompleteReservation(w) PROVE Harmless
  <2>1. \A s \in Slots : Backing(s) <= Backing(s)'
    BY <1>19, <1>t DEF CompleteReservation, Complete, Resolve, Resolvable, Backing, RowCount
  <2>2. QED
    BY <1>19, <2>1, <1>t DEF CompleteReservation, Spenders, historyVars
<1>20. ASSUME NEW p \in Processes, Crash(p) PROVE Harmless
  BY <1>20, <1>b, <1>t DEF Crash, Spenders, historyVars
<1>21. ASSUME NEW s \in Slots, Age(s) PROVE Harmless
  <2>1. \A t \in Slots : Backing(t) <= Backing(t)'
    BY <1>21, <1>t DEF Age, AgeRecord, Backing, RowCount
  <2>2. QED
    BY <1>21, <2>1 DEF Age, Spenders, workerVars, historyVars
<1>22. CASE UNCHANGED vars
  BY <1>22, <1>b, <1>h DEF vars, Spenders, workerVars, historyVars
<1>23. QED
  BY <1>h, <1>1, <1>2, <1>3, <1>4, <1>5, <1>6, <1>7, <1>8, <1>9, <1>10, <1>11, <1>12, <1>13, <1>14, <1>15, <1>16, <1>17, <1>18, <1>19, <1>20, <1>21, <1>22 DEF Next, Step

\* No retry, concurrent duplicate, crash, declined or failed attempt or
\* locked-database error makes disburse_float pay a key twice: a second
\* provider effect needs a purge of the key's row.
THEOREM OneEffectPerRow == Spec => []EffectsNeedPurges
<1>1. TypeInv /\ EffectsBacked => EffectsNeedPurges
  <2> SUFFICES ASSUME TypeInv, EffectsBacked, NEW s \in Slots
               PROVE  Len(issued[s]) <= 1 + purges[s]
    BY DEF EffectsNeedPurges
  <2>1. Cardinality(Spenders(s)) \in Nat
    BY WorkerSetSize DEF Spenders
  <2>2. Len(issued[s]) \in Nat /\ purges[s] \in Nat
    BY DEF TypeInv, TypeOK, StoreTypeOK
  <2>3. QED
    BY <2>1, <2>2 DEF EffectsBacked, RowCount
<1>2. Init => TypeInv /\ EffectsBacked
  BY InitTyped, InitBacked
<1>3. TypeInv /\ EffectsBacked /\ [Next]_vars => (TypeInv /\ EffectsBacked)'
  BY NextTyped, NextBacked
<1>4. QED
  BY <1>1, <1>2, <1>3, PTL DEF Spec

-----------------------------------------------------------------------------
(* One holder and one answer per key, until a purge *)

\* A step that keeps the row, the answers and the locals of the holders and
\* tellers of s, and adds none, keeps KeyOK(s).
LEMMA KeyUndisturbed ==
  ASSUME NEW s \in Slots, KeyOK(s), records'[s] = records[s], answers'[s] = answers[s],
         \A w \in Workers :
           slot'[w] = s /\ pc'[w] \in {"lookup", "issue", "abandon", "complete",
                                       "reuse", "record"}
             => /\ slot[w] = s /\ payload'[w] = payload[w]
                /\ (w \in Holders(s)' => w \in Holders(s))
                /\ (w \in Tellers(s)' => w \in Tellers(s) /\ result'[w] = result[w])
  PROVE  KeyOK(s)'
<1>1. \A w \in Holders(s)' : w \in Holders(s) /\ payload'[w] = payload[w]
  BY DEF Holders
<1>2. \A w \in Tellers(s)' : /\ w \in Tellers(s) /\ payload'[w] = payload[w]
                            /\ result'[w] = result[w]
  BY DEF Tellers
<1>3. QED
  BY <1>1, <1>2 DEF KeyOK, Resolvable, Canonical

\* Without a purge of s, a reservation leaves every existing row of s alone.
LEMMA RowOfUnpurged ==
  ASSUME TypeInv, NEW s \in Slots, NEW t \in Slots, NEW x \in Payloads, purges'[s] = 0,
         ReserveConflict(t, x) \/ ReserveExisting(t, x) \/ ReserveNew(t, x)
  PROVE  /\ purges[s] = 0
         /\ ReserveConflict(t, x) \/ ReserveExisting(t, x) \/ s # t
              => records'[s] = records[s]
         /\ ReserveNew(t, x) /\ s = t
              => records[s].status = "absent" /\ records'[s] = Reservation(x)
<1>1. purges \in [Slots -> Nat]
  BY DEF TypeInv, TypeOK, StoreTypeOK
<1>2. CASE ReserveConflict(t, x)
  BY <1>2 DEF ReserveConflict, ReserveNew, storeVars
<1>3. CASE ReserveExisting(t, x)
  <2>1. purges[s] = 0 /\ s \notin overdueRecords
    BY <1>1, <1>3 DEF ReserveExisting, PurgeRest
  <2>2. QED
    BY <1>3, <2>1 DEF ReserveExisting, ReserveNew, PurgedRecords
<1>4. CASE ReserveNew(t, x)
  <2>1. purges[s] = 0 /\ s \notin overdueRecords
    BY <1>1, <1>4 DEF ReserveNew, PurgeRest
  <2>2. QED
    BY <1>4, <2>1 DEF ReserveConflict, ReserveExisting, ReserveNew, PurgedRecords, Live
<1>5. QED
  BY <1>2, <1>3, <1>4

LEMMA InitUnpurged == Init => UnpurgedOK
  BY DEF Init, UnpurgedOK, KeyOK, Holders, Tellers

LEMMA NextUnpurged == TypeInv /\ UnpurgedOK /\ [Next]_vars => UnpurgedOK'
<1> SUFFICES ASSUME TypeInv, UnpurgedOK, [Next]_vars, NEW s \in Slots, purges'[s] = 0
             PROVE  KeyOK(s)'
  BY DEF UnpurgedOK
<1>t. /\ pc \in [Workers -> Locations] /\ slot \in [Workers -> Slots \cup {None}]
      /\ payload \in [Workers -> Payloads \cup {None}]
      /\ result \in [Workers -> Result \cup {None}]
      /\ records \in [Slots -> Record(Result)]
      /\ answers \in [Slots -> SUBSET [payload : Payloads, result : Result]]
  BY DEF TypeInv, TypeOK, StoreTypeOK
<1>k. purges[s] = 0 => KeyOK(s)
  BY DEF UnpurgedOK
<1> USE DEF Goto, At
<1>1. ASSUME NEW w \in Workers, NEW t \in Slots, NEW x \in Payloads, Call(w, t, x)
     PROVE  KeyOK(s)'
  BY <1>1, <1>k, <1>t, KeyUndisturbed DEF Call, storeVars, historyVars, Holders, Tellers
<1>2. ASSUME NEW w \in Workers, ReserveOwned(w) PROVE KeyOK(s)'
  <2>1. slot[w] \in Slots /\ payload[w] \in Payloads
    BY <1>2 DEF ReserveOwned, TypeInv, LocalsOK
  <2>2. KeyOK(s)
    BY <1>2, <2>1, <1>k, RowOfUnpurged DEF ReserveOwned
  <2>3. CASE s # slot[w]
    <3>1. records'[s] = records[s]
      BY <1>2, <2>1, <2>3, RowOfUnpurged DEF ReserveOwned
    <3>2. QED
      BY <1>2, <1>t, <2>2, <2>3, <3>1, KeyUndisturbed
      DEF ReserveOwned, historyVars, Holders, Tellers
  <2>4. CASE s = slot[w]
    <3>1. records[s].status = "absent" /\ records'[s] = Reservation(payload[w])
      BY <1>2, <2>1, <2>4, RowOfUnpurged DEF ReserveOwned
    <3>2. Holders(s) = {} /\ Tellers(s) = {} /\ answers[s] = {}
      BY <2>2, <3>1 DEF KeyOK, Resolvable, Canonical
    <3>3. Holders(s)' = {w} /\ Tellers(s)' = {} /\ answers'[s] = {}
      BY <1>2, <1>t, <2>4, <3>2 DEF ReserveOwned, historyVars, Holders, Tellers
    <3>4. payload'[w] = payload[w]
      BY <1>2 DEF ReserveOwned
    <3>5. QED
      BY <3>1, <3>3, <3>4 DEF KeyOK, Resolvable, Reservation
  <2>5. QED
    BY <2>3, <2>4
<1>3. ASSUME NEW w \in Workers, ReserveRefused(w) PROVE KeyOK(s)'
  <2>1. slot[w] \in Slots /\ payload[w] \in Payloads
    BY <1>3 DEF ReserveRefused, TypeInv, LocalsOK
  <2>2. KeyOK(s) /\ records'[s] = records[s]
    BY <1>3, <2>1, <1>k, RowOfUnpurged DEF ReserveRefused
  <2>3. QED
    BY <1>3, <1>t, <2>2, KeyUndisturbed DEF ReserveRefused, historyVars, Holders, Tellers
<1>4. ASSUME NEW w \in Workers, ReserveInFlight(w) PROVE KeyOK(s)'
  <2>1. slot[w] \in Slots /\ payload[w] \in Payloads
    BY <1>4 DEF ReserveInFlight, TypeInv, LocalsOK
  <2>2. KeyOK(s) /\ records'[s] = records[s]
    BY <1>4, <2>1, <1>k, RowOfUnpurged DEF ReserveInFlight
  <2>3. QED
    BY <1>4, <1>t, <2>2, KeyUndisturbed DEF ReserveInFlight, Leave, historyVars, Holders, Tellers
<1>5. ASSUME NEW w \in Workers, ReserveTerminal(w) PROVE KeyOK(s)'
  <2>1. slot[w] \in Slots /\ payload[w] \in Payloads
    BY <1>5 DEF ReserveTerminal, TypeInv, LocalsOK
  <2>2. KeyOK(s) /\ records'[s] = records[s] /\ answers'[s] = answers[s]
    BY <1>5, <2>1, <1>k, RowOfUnpurged DEF ReserveTerminal, historyVars
  <2>3. \A v \in Holders(s)' : v \in Holders(s) /\ payload'[v] = payload[v]
    BY <1>5, <1>t DEF ReserveTerminal, Holders
  <2>4. \A v \in Tellers(s)' : /\ payload'[v] = payload[v]
                              /\ \/ v \in Tellers(s) /\ result'[v] = result[v]
                                 \/ v = w /\ s = slot[w]
    BY <1>5, <1>t DEF ReserveTerminal, Tellers
  <2>5. s = slot[w] => Canonical(s, payload[w], result'[w])
    BY <1>5, <1>t, <2>1
    DEF ReserveTerminal, ReserveExisting, Live, Canonical, TypeInv, RowsOK, Record, Statuses
  <2>6. QED
    BY <2>2, <2>3, <2>4, <2>5 DEF KeyOK, Resolvable, Canonical
<1>6. ASSUME NEW w \in Workers, ReserveBusy(w) PROVE KeyOK(s)'
  BY <1>6, <1>k, <1>t, KeyUndisturbed DEF ReserveBusy, storeVars, historyVars, Holders, Tellers
<1>7. ASSUME NEW w \in Workers, AuditConflict(w) PROVE KeyOK(s)'
  BY <1>7, <1>k, <1>t, KeyUndisturbed DEF AuditConflict, Leave, storeVars, historyVars, Holders, Tellers
<1>8. ASSUME NEW w \in Workers, AdapterMiss(w) PROVE KeyOK(s)'
  BY <1>8, <1>k, <1>t, KeyUndisturbed DEF AdapterMiss, storeVars, historyVars, Holders, Tellers
<1>9. ASSUME NEW w \in Workers, AdapterRaise(w) PROVE KeyOK(s)'
  BY <1>9, <1>k, <1>t, KeyUndisturbed DEF AdapterRaise, storeVars, historyVars, Holders, Tellers
<1>10. ASSUME NEW w \in Workers, AuditFailure(w) PROVE KeyOK(s)'
  BY <1>10, <1>k, <1>t, KeyUndisturbed DEF AuditFailure, Leave, storeVars, historyVars, Holders, Tellers
<1>11. ASSUME NEW w \in Workers, SettleBusy(w) PROVE KeyOK(s)'
  BY <1>11, <1>k, <1>t, KeyUndisturbed DEF SettleBusy, Leave, storeVars, historyVars, Holders, Tellers
<1>12. ASSUME NEW w \in Workers, AdapterHit(w) PROVE KeyOK(s)'
  BY <1>12, <1>k, <1>t, KeyUndisturbed DEF AdapterHit, BuildResult, storeVars, historyVars, Holders, Tellers
<1>13. ASSUME NEW w \in Workers, AdapterDeclined(w) PROVE KeyOK(s)'
  BY <1>13, <1>k, <1>t, KeyUndisturbed DEF AdapterDeclined, BuildResult, storeVars, historyVars, Holders, Tellers
<1>14. ASSUME NEW w \in Workers, AdapterIssue(w) PROVE KeyOK(s)'
  BY <1>14, <1>k, <1>t, KeyUndisturbed DEF AdapterIssue, BuildResult, storeVars, Holders, Tellers
<1>15. ASSUME NEW w \in Workers, ReuseResult(w) PROVE KeyOK(s)'
  <2>1. slot[w] \in Slots
    BY <1>15 DEF ReuseResult, TypeInv, LocalsOK
  <2>2. KeyOK(s) /\ records'[s] = records[s]
    BY <1>15, <1>k DEF ReuseResult, storeVars
  <2>3. \A v \in Holders(s)' : v \in Holders(s) /\ payload'[v] = payload[v]
    BY <1>15, <1>t DEF ReuseResult, Leave, Holders
  <2>4. \A v \in Tellers(s)' : /\ v \in Tellers(s) /\ payload'[v] = payload[v]
                              /\ result'[v] = result[v]
    BY <1>15, <1>t DEF ReuseResult, Leave, Tellers
  <2>5. s = slot[w] => Canonical(s, payload[w], result[w])
    BY <1>15, <2>2 DEF ReuseResult, KeyOK, Tellers
  <2> DEFINE answer == [payload |-> payload[w], result |-> result[w]]
  <2>6. answers'[s] = IF s = slot[w] THEN answers[s] \cup {answer} ELSE answers[s]
    <3>1. answers' = [answers EXCEPT ![slot[w]] = @ \cup {answer}]
      BY <1>15 DEF ReuseResult, Answer
    <3> HIDE DEF answer
    <3>2. QED
      BY <3>1, <1>t, <2>1
  <2>7. \A a \in answers'[s] : Canonical(s, a.payload, a.result)
    BY <2>2, <2>5, <2>6 DEF KeyOK
  <2>8. QED
    BY <2>2, <2>3, <2>4, <2>7 DEF KeyOK, Resolvable, Canonical
<1>16. ASSUME NEW w \in Workers, RecordResult(w) PROVE KeyOK(s)'
  <2>1. slot[w] \in Slots
    BY <1>16 DEF RecordResult, TypeInv, LocalsOK
  <2>2. KeyOK(s) /\ records'[s] = records[s]
    BY <1>16, <1>k DEF RecordResult, storeVars
  <2>3. \A v \in Holders(s)' : v \in Holders(s) /\ payload'[v] = payload[v]
    BY <1>16, <1>t DEF RecordResult, Leave, Holders
  <2>4. \A v \in Tellers(s)' : /\ v \in Tellers(s) /\ payload'[v] = payload[v]
                              /\ result'[v] = result[v]
    BY <1>16, <1>t DEF RecordResult, Leave, Tellers
  <2>5. s = slot[w] => Canonical(s, payload[w], result[w])
    BY <1>16, <2>2 DEF RecordResult, KeyOK, Tellers
  <2> DEFINE answer == [payload |-> payload[w], result |-> result[w]]
  <2>6. answers'[s] = IF s = slot[w] THEN answers[s] \cup {answer} ELSE answers[s]
    <3>1. answers' = [answers EXCEPT ![slot[w]] = @ \cup {answer}]
      BY <1>16 DEF RecordResult, Answer
    <3> HIDE DEF answer
    <3>2. QED
      BY <3>1, <1>t, <2>1
  <2>7. \A a \in answers'[s] : Canonical(s, a.payload, a.result)
    BY <2>2, <2>5, <2>6 DEF KeyOK
  <2>8. QED
    BY <2>2, <2>3, <2>4, <2>7 DEF KeyOK, Resolvable, Canonical
<1>17. ASSUME NEW w \in Workers, AbandonReservation(w) PROVE KeyOK(s)'
  <2>1. slot[w] \in Slots
    BY <1>17 DEF AbandonReservation, TypeInv, LocalsOK
  <2>2. KeyOK(s) /\ answers'[s] = answers[s]
    BY <1>17, <1>k DEF AbandonReservation, Abandon, historyVars
  <2>3. CASE s # slot[w]
    <3>1. records'[s] = records[s]
      BY <1>17, <1>t, <2>1, <2>3 DEF AbandonReservation, Abandon
    <3>2. QED
      BY <1>17, <1>t, <2>2, <2>3, <3>1, KeyUndisturbed DEF AbandonReservation, Holders, Tellers
  <2>4. CASE s = slot[w]
    <3>1. w \in Holders(s)
      BY <1>17, <2>4 DEF AbandonReservation, Holders
    <3>2. Tellers(s) = {} /\ answers[s] = {}
      BY <2>2, <3>1 DEF KeyOK, Resolvable, Canonical
    <3>3. Holders(s)' = {}
      BY <1>17, <1>t, <2>2, <2>4, <3>1 DEF AbandonReservation, Holders, KeyOK
    <3>4. Tellers(s)' = {}
      BY <1>17, <1>t, <3>2 DEF AbandonReservation, Tellers
    <3>5. QED
      BY <2>2, <3>2, <3>3, <3>4 DEF KeyOK
  <2>5. QED
    BY <2>3, <2>4
<1>18. ASSUME NEW w \in Workers, CompleteReservation(w) PROVE KeyOK(s)'
  <2>1. slot[w] \in Slots
    BY <1>18 DEF CompleteReservation, TypeInv, LocalsOK
  <2>2. KeyOK(s) /\ answers'[s] = answers[s]
    BY <1>18, <1>k DEF CompleteReservation, Complete, Resolve, historyVars
  <2>3. CASE s # slot[w]
    <3>1. records'[s] = records[s]
      BY <1>18, <1>t, <2>1, <2>3 DEF CompleteReservation, Complete, Resolve
    <3>2. QED
      BY <1>18, <1>t, <2>2, <2>3, <3>1, KeyUndisturbed DEF CompleteReservation, Holders, Tellers
  <2>4. CASE s = slot[w]
    <3>1. w \in Holders(s)
      BY <1>18, <2>4 DEF CompleteReservation, Holders
    <3>2. Tellers(s) = {} /\ answers[s] = {}
      BY <2>2, <3>1 DEF KeyOK, Resolvable, Canonical
    <3>3. Holders(s)' = {}
      BY <1>18, <1>t, <2>2, <2>4, <3>1 DEF CompleteReservation, Holders, KeyOK
    <3>4. \A v \in Tellers(s)' : v = w
      BY <1>18, <1>t, <3>2 DEF CompleteReservation, Tellers
    <3>5. Canonical(s, payload[w], result[w])'
      BY <1>18, <1>t, <2>1, <2>4 DEF CompleteReservation, Complete, Resolve, Canonical
    <3>6. QED
      BY <2>2, <3>2, <3>3, <3>4, <3>5 DEF KeyOK
  <2>5. QED
    BY <2>3, <2>4
<1>19. ASSUME NEW w \in Workers, CompleteRefused(w) PROVE KeyOK(s)'
  BY <1>19, <1>k, <1>t, KeyUndisturbed
  DEF CompleteRefused, ResolveConflict, Leave, storeVars, historyVars, Holders, Tellers
<1>20. ASSUME NEW p \in Processes, Crash(p) PROVE KeyOK(s)'
  BY <1>20, <1>k, <1>t, KeyUndisturbed DEF Crash, storeVars, historyVars, Holders, Tellers
<1>21. ASSUME NEW t \in Slots, Age(t) PROVE KeyOK(s)'
  BY <1>21, <1>k, <1>t, KeyUndisturbed
  DEF Age, AgeRecord, workerVars, historyVars, Holders, Tellers
<1>22. CASE UNCHANGED vars
  BY <1>22, <1>k, <1>t, KeyUndisturbed
  DEF vars, storeVars, workerVars, historyVars, Holders, Tellers
<1>23. QED
  BY <1>1, <1>2, <1>3, <1>4, <1>5, <1>6, <1>7, <1>8, <1>9, <1>10, <1>11, <1>12, <1>13, <1>14, <1>15, <1>16, <1>17, <1>18, <1>19, <1>20, <1>21, <1>22 DEF Next, Step

LEMMA UnpurgedInvariant == Spec => [](TypeInv /\ UnpurgedOK)
  BY InitTyped, NextTyped, InitUnpurged, NextUnpurged, PTL DEF Spec

\* Until its row is purged, a key is worked on by at most one worker of all
\* processes between reserve() and the settlement.
THEOREM OneHolder == Spec => []SingleFlight
<1>1. UnpurgedOK => SingleFlight
  BY DEF UnpurgedOK, KeyOK, SingleFlight
<1>2. QED
  BY UnpurgedInvariant, <1>1, PTL

\* Until its row is purged, every answer given for a key in any process is the
\* one result its row holds, given for the payload the row was reserved with.
THEOREM AnswersAgree == Spec => []CanonicalAnswer
<1>1. UnpurgedOK => CanonicalAnswer
  BY DEF UnpurgedOK, KeyOK, Canonical, CanonicalAnswer
<1>2. QED
  BY UnpurgedInvariant, <1>1, PTL

-----------------------------------------------------------------------------
(* What a result says of the money moved, until a purge *)

\* Nothing was paid under s and no adapter of any process remembers s.
Untouched(s) ==
  /\ issued[s] = <<>>
  /\ \A p \in Processes, c \in Channels : adapter[p][c][s] = NoEntry

\* Result r, for payload x, is true of what the provider did under s.
Reports(s, x, r) ==
  IF r.status = "completed"
  THEN r.effect \in 1..Len(issued[s]) /\ issued[s][r.effect] = x
  ELSE issued[s] = <<>>

\* A key that is free or that a worker may still pay under is untouched; a
\* result about to be stored, and a stored one, is true.
Truth(s) ==
  /\ records[s].status = "absent" => Untouched(s)
  /\ \A w \in Spenders(s) : Untouched(s)
  /\ \A w \in Workers :
       slot[w] = s /\ pc[w] = "complete" => Reports(s, payload[w], result[w])
  /\ records[s].status = "completed"
       => Reports(s, records[s].fingerprint, records[s].result)

TruthOK == \A s \in Slots : purges[s] = 0 => Truth(s)

\* A step that pays nothing under s, remembers nothing about s, and adds no
\* spender, result or completed row of s keeps Truth(s).
LEMMA TruthKept ==
  ASSUME NEW s \in Slots, Truth(s), issued'[s] = issued[s],
         \A p \in Processes, c \in Channels :
           adapter'[p][c][s] \in {adapter[p][c][s], NoEntry},
         records'[s].status = "absent" \/ Spenders(s)' # {}
           => records[s].status = "absent" \/ Spenders(s) # {},
         records'[s].status = "completed" => records'[s] = records[s],
         \A w \in Workers :
           slot'[w] = s /\ pc'[w] = "complete"
             => /\ slot[w] = s /\ pc[w] = "complete"
                /\ payload'[w] = payload[w] /\ result'[w] = result[w]
  PROVE  Truth(s)'
<1>1. records'[s].status = "absent" \/ Spenders(s)' # {} => Untouched(s)'
  BY DEF Truth, Untouched
<1>2. \A x, r : Reports(s, x, r)' <=> Reports(s, x, r)
  BY DEF Reports
<1>3. \A w \in Workers :
        slot'[w] = s /\ pc'[w] = "complete" => Reports(s, payload[w], result[w])'
  BY <1>2 DEF Truth, Reports
<1>4. records'[s].status = "completed"
        => Reports(s, records[s].fingerprint, records[s].result)'
  BY <1>2 DEF Truth, Reports
<1>5. QED
  BY <1>1, <1>3, <1>4 DEF Truth

LEMMA InitTruth == Init => TruthOK
  BY DEF Init, StoreInit, NoRecord, EmptyAdapters, TruthOK, Truth, Untouched, Spenders

LEMMA NextTruth == TypeInv /\ UnpurgedOK /\ TruthOK /\ [Next]_vars => TruthOK'
<1> SUFFICES ASSUME TypeInv, UnpurgedOK, TruthOK, [Next]_vars,
                    NEW s \in Slots, purges'[s] = 0
             PROVE  Truth(s)'
  BY DEF TruthOK
<1>t. /\ pc \in [Workers -> Locations] /\ slot \in [Workers -> Slots \cup {None}]
      /\ payload \in [Workers -> Payloads \cup {None}]
      /\ result \in [Workers -> Result \cup {None}]
      /\ records \in [Slots -> Record(Result)]
      /\ issued \in [Slots -> Seq(Payloads)]
      /\ adapter \in [Processes -> [Channels -> [Slots -> AdapterEntry \cup {NoEntry}]]]
  BY DEF TypeInv, TypeOK, StoreTypeOK
<1>k. purges[s] = 0 => KeyOK(s) /\ Truth(s)
  BY DEF UnpurgedOK, TruthOK
<1>a. UNCHANGED adapter => \A p \in Processes, c \in Channels :
                             adapter'[p][c][s] \in {adapter[p][c][s], NoEntry}
  OBVIOUS
<1> USE DEF Goto, At
<1>1. ASSUME NEW w \in Workers, NEW t \in Slots, NEW x \in Payloads, Call(w, t, x)
     PROVE  Truth(s)'
  BY <1>1, <1>k, <1>t, <1>a, TruthKept DEF Call, storeVars, memoryVars, historyVars, Spenders
<1>2. ASSUME NEW w \in Workers, ReserveOwned(w) PROVE Truth(s)'
  <2>1. slot[w] \in Slots /\ payload[w] \in Payloads
    BY <1>2 DEF ReserveOwned, TypeInv, LocalsOK
  <2>2. Truth(s)
    BY <1>2, <2>1, <1>k, RowOfUnpurged DEF ReserveOwned
  <2>3. \/ s # slot[w] /\ records'[s] = records[s]
        \/ s = slot[w] /\ records[s].status = "absent" /\ records'[s] = Reservation(payload[w])
    BY <1>2, <2>1, RowOfUnpurged DEF ReserveOwned
  <2>4. records'[s].status = "absent" \/ Spenders(s)' # {}
          => records[s].status = "absent" \/ Spenders(s) # {}
    BY <1>2, <1>t, <2>3 DEF ReserveOwned, Reservation, Spenders
  <2>5. records'[s].status = "completed" => records'[s] = records[s]
    BY <2>3 DEF Reservation
  <2>6. QED
    BY <1>2, <1>t, <1>a, <2>2, <2>4, <2>5, TruthKept
    DEF ReserveOwned, memoryVars, historyVars
<1>3. ASSUME NEW w \in Workers, ReserveRefused(w) PROVE Truth(s)'
  <2>1. slot[w] \in Slots /\ payload[w] \in Payloads
    BY <1>3 DEF ReserveRefused, TypeInv, LocalsOK
  <2>2. Truth(s) /\ records'[s] = records[s]
    BY <1>3, <2>1, <1>k, RowOfUnpurged DEF ReserveRefused
  <2>3. QED
    BY <1>3, <1>t, <1>a, <2>2, TruthKept DEF ReserveRefused, memoryVars, historyVars, Spenders
<1>4. ASSUME NEW w \in Workers, ReserveInFlight(w) PROVE Truth(s)'
  <2>1. slot[w] \in Slots /\ payload[w] \in Payloads
    BY <1>4 DEF ReserveInFlight, TypeInv, LocalsOK
  <2>2. Truth(s) /\ records'[s] = records[s]
    BY <1>4, <2>1, <1>k, RowOfUnpurged DEF ReserveInFlight
  <2>3. QED
    BY <1>4, <1>t, <1>a, <2>2, TruthKept
    DEF ReserveInFlight, Leave, memoryVars, historyVars, Spenders
<1>5. ASSUME NEW w \in Workers, ReserveTerminal(w) PROVE Truth(s)'
  <2>1. slot[w] \in Slots /\ payload[w] \in Payloads
    BY <1>5 DEF ReserveTerminal, TypeInv, LocalsOK
  <2>2. Truth(s) /\ records'[s] = records[s]
    BY <1>5, <2>1, <1>k, RowOfUnpurged DEF ReserveTerminal
  <2>3. QED
    BY <1>5, <1>t, <1>a, <2>2, TruthKept DEF ReserveTerminal, memoryVars, historyVars, Spenders
<1>6. ASSUME NEW w \in Workers, ReserveBusy(w) PROVE Truth(s)'
  BY <1>6, <1>k, <1>t, <1>a, TruthKept DEF ReserveBusy, storeVars, memoryVars, historyVars, Spenders
<1>7. ASSUME NEW w \in Workers, AuditConflict(w) PROVE Truth(s)'
  BY <1>7, <1>k, <1>t, <1>a, TruthKept DEF AuditConflict, Leave, storeVars, historyVars, Spenders
<1>8. ASSUME NEW w \in Workers, ReuseResult(w) PROVE Truth(s)'
  BY <1>8, <1>k, <1>t, <1>a, TruthKept DEF ReuseResult, Leave, storeVars, Spenders
<1>9. ASSUME NEW w \in Workers, RecordResult(w) PROVE Truth(s)'
  BY <1>9, <1>k, <1>t, <1>a, TruthKept DEF RecordResult, Leave, storeVars, Spenders
<1>10. ASSUME NEW w \in Workers, AdapterMiss(w) PROVE Truth(s)'
  BY <1>10, <1>k, <1>t, <1>a, TruthKept DEF AdapterMiss, storeVars, memoryVars, historyVars, Spenders
<1>11. ASSUME NEW w \in Workers, AdapterRaise(w) PROVE Truth(s)'
  BY <1>11, <1>k, <1>t, <1>a, TruthKept DEF AdapterRaise, storeVars, memoryVars, historyVars, Spenders
<1>12. ASSUME NEW w \in Workers, AuditFailure(w) PROVE Truth(s)'
  BY <1>12, <1>k, <1>t, <1>a, TruthKept DEF AuditFailure, Leave, storeVars, historyVars, Spenders
<1>13. ASSUME NEW w \in Workers, SettleBusy(w) PROVE Truth(s)'
  BY <1>13, <1>k, <1>t, <1>a, TruthKept DEF SettleBusy, Leave, storeVars, memoryVars, historyVars, Spenders
<1>14. ASSUME NEW w \in Workers, CompleteRefused(w) PROVE Truth(s)'
  BY <1>14, <1>k, <1>t, <1>a, TruthKept DEF CompleteRefused, ResolveConflict, Leave, storeVars, memoryVars, historyVars, Spenders
<1>15. ASSUME NEW w \in Workers, AbandonReservation(w) PROVE Truth(s)'
  <2>1. slot[w] \in Slots /\ Truth(s)
    BY <1>15, <1>k DEF AbandonReservation, Abandon, TypeInv, LocalsOK
  <2>2. \/ records'[s] = records[s]
        \/ s = slot[w] /\ records'[s] = NoRecord
    BY <1>15, <1>t, <2>1 DEF AbandonReservation, Abandon
  <2>3. s = slot[w] => Spenders(s) # {}
    BY <1>15 DEF AbandonReservation, Spenders
  <2>4. Spenders(s)' \subseteq Spenders(s)
    BY <1>15, <1>t DEF AbandonReservation, Spenders
  <2>5. records'[s].status = "absent" \/ Spenders(s)' # {}
          => records[s].status = "absent" \/ Spenders(s) # {}
    BY <2>2, <2>3, <2>4
  <2>6. records'[s].status = "completed" => records'[s] = records[s]
    BY <2>2 DEF NoRecord
  <2>7. QED
    BY <1>15, <1>t, <1>a, <2>1, <2>5, <2>6, TruthKept
    DEF AbandonReservation, memoryVars, historyVars
<1>16. ASSUME NEW w \in Workers, AdapterHit(w) PROVE Truth(s)'
  <2>1. slot[w] \in Slots /\ Truth(s) /\ records'[s] = records[s]
    BY <1>16, <1>k DEF AdapterHit, storeVars, TypeInv, LocalsOK
  <2>2. ProcessOf[w] \in Processes /\ ChannelOf(payload[w]) \in Channels
    BY ManagerAssumption DEF ChannelOf, Channels
  <2>3. s # slot[w]
    <3> SUFFICES ASSUME s = slot[w] PROVE FALSE
      OBVIOUS
    <3>1. w \in Spenders(s)
      BY <1>16 DEF AdapterHit, Spenders
    <3>2. QED
      BY <1>16, <2>1, <2>2, <3>1 DEF AdapterHit, EntryOf, Truth, Untouched
  <2>4. QED
    BY <1>16, <1>t, <1>a, <2>1, <2>3, TruthKept
    DEF AdapterHit, BuildResult, storeVars, memoryVars, historyVars, Spenders
<1>17. ASSUME NEW w \in Workers, AdapterIssue(w) PROVE Truth(s)'
  <2> DEFINE entry == [effect |-> Len(issued[slot[w]]) + 1, status |-> "completed"]
             r == [call |-> call[w], effect |-> entry.effect, status |-> entry.status]
  <2>1. /\ slot[w] \in Slots /\ KeyOK(s) /\ Truth(s)
        /\ records'[s] = records[s]
    BY <1>17, <1>k DEF AdapterIssue, storeVars, TypeInv, LocalsOK
  <2>2. CASE s # slot[w]
    <3>1. ProcessOf[w] \in Processes /\ ChannelOf(payload[w]) \in Channels
      BY ManagerAssumption DEF ChannelOf, Channels
    <3> HIDE DEF entry
    <3>2. Remember(w, entry)
      BY <1>17 DEF AdapterIssue, entry
    <3>3. \A p \in Processes, c \in Channels : adapter'[p][c][s] = adapter[p][c][s]
      BY <1>t, <2>1, <2>2, <3>1, <3>2 DEF Remember
    <3>4. issued'[s] = issued[s]
      BY <1>17, <1>t, <2>1, <2>2 DEF AdapterIssue, historyVars
    <3>5. Spenders(s)' \subseteq Spenders(s)
      BY <1>17, <1>t DEF AdapterIssue, Spenders
    <3>6. \A v \in Workers : slot'[v] = s /\ pc'[v] = "complete"
            => /\ slot[v] = s /\ pc[v] = "complete"
               /\ payload'[v] = payload[v] /\ result'[v] = result[v]
      BY <1>17, <1>t, <2>2 DEF AdapterIssue, BuildResult
    <3>7. QED
      BY <2>1, <3>3, <3>4, <3>5, <3>6, TruthKept
  <2>3. CASE s = slot[w]
    <3>1. w \in Holders(s) /\ w \in Spenders(s)
      BY <1>17, <2>3 DEF AdapterIssue, Holders, Spenders
    <3>2. issued[s] = <<>> /\ records[s].status = "in_progress"
      BY <2>1, <3>1 DEF KeyOK, Resolvable, Truth, Untouched
    <3>3. Holders(s) = {w}
      BY <2>1, <3>1 DEF KeyOK
    <3>4. Spenders(s)' = {}
      BY <1>17, <1>t, <3>3 DEF AdapterIssue, Holders, Spenders
    <3>5. \A v \in Workers : slot'[v] = s /\ pc'[v] = "complete" => v = w
      BY <1>17, <1>t, <3>3 DEF AdapterIssue, Holders
    <3>6. result'[w] = r /\ payload'[w] = payload[w]
      BY <1>17, <1>t DEF AdapterIssue, BuildResult
    <3>7. issued'[s] = <<payload[w]>>
      BY <1>17, <1>t, <2>1, <2>3, <3>2 DEF AdapterIssue
    <3>8. Reports(s, payload[w], result[w])'
      BY <2>3, <3>2, <3>6, <3>7 DEF Reports
    <3>9. QED
      BY <2>1, <3>2, <3>4, <3>5, <3>8 DEF Truth
  <2>4. QED
    BY <2>2, <2>3
<1>18. ASSUME NEW w \in Workers, AdapterDeclined(w) PROVE Truth(s)'
  <2> DEFINE entry == [effect |-> 0, status |-> "failed"]
             r == [call |-> call[w], effect |-> entry.effect, status |-> entry.status]
  <2>1. /\ slot[w] \in Slots /\ KeyOK(s) /\ Truth(s)
        /\ records'[s] = records[s]
    BY <1>18, <1>k DEF AdapterDeclined, storeVars, TypeInv, LocalsOK
  <2>2. CASE s # slot[w]
    <3>1. ProcessOf[w] \in Processes /\ ChannelOf(payload[w]) \in Channels
      BY ManagerAssumption DEF ChannelOf, Channels
    <3> HIDE DEF entry
    <3>2. Remember(w, entry)
      BY <1>18 DEF AdapterDeclined, entry
    <3>3. \A p \in Processes, c \in Channels : adapter'[p][c][s] = adapter[p][c][s]
      BY <1>t, <2>1, <2>2, <3>1, <3>2 DEF Remember
    <3>4. issued'[s] = issued[s]
      BY <1>18, <1>t, <2>1, <2>2 DEF AdapterDeclined, historyVars
    <3>5. Spenders(s)' \subseteq Spenders(s)
      BY <1>18, <1>t DEF AdapterDeclined, Spenders
    <3>6. \A v \in Workers : slot'[v] = s /\ pc'[v] = "complete"
            => /\ slot[v] = s /\ pc[v] = "complete"
               /\ payload'[v] = payload[v] /\ result'[v] = result[v]
      BY <1>18, <1>t, <2>2 DEF AdapterDeclined, BuildResult
    <3>7. QED
      BY <2>1, <3>3, <3>4, <3>5, <3>6, TruthKept
  <2>3. CASE s = slot[w]
    <3>1. w \in Holders(s) /\ w \in Spenders(s)
      BY <1>18, <2>3 DEF AdapterDeclined, Holders, Spenders
    <3>2. issued[s] = <<>> /\ records[s].status = "in_progress"
      BY <2>1, <3>1 DEF KeyOK, Resolvable, Truth, Untouched
    <3>3. Holders(s) = {w}
      BY <2>1, <3>1 DEF KeyOK
    <3>4. Spenders(s)' = {}
      BY <1>18, <1>t, <3>3 DEF AdapterDeclined, Holders, Spenders
    <3>5. \A v \in Workers : slot'[v] = s /\ pc'[v] = "complete" => v = w
      BY <1>18, <1>t, <3>3 DEF AdapterDeclined, Holders
    <3>6. result'[w] = r /\ payload'[w] = payload[w]
      BY <1>18, <1>t DEF AdapterDeclined, BuildResult
    <3>7. issued'[s] = <<>>
      BY <1>18, <1>t, <2>1, <2>3, <3>2 DEF AdapterDeclined, historyVars
    <3>8. Reports(s, payload[w], result[w])'
      BY <2>3, <3>2, <3>6, <3>7 DEF Reports
    <3>9. QED
      BY <2>1, <3>2, <3>4, <3>5, <3>8 DEF Truth
  <2>4. QED
    BY <2>2, <2>3
<1>19. ASSUME NEW w \in Workers, CompleteReservation(w) PROVE Truth(s)'
  <2>1. slot[w] \in Slots /\ KeyOK(s) /\ Truth(s)
    BY <1>19, <1>k DEF CompleteReservation, Complete, Resolve, TypeInv, LocalsOK
  <2>2. Spenders(s)' \subseteq Spenders(s)
    BY <1>19, <1>t DEF CompleteReservation, Spenders
  <2>3. CASE s # slot[w]
    <3>1. records'[s] = records[s]
      BY <1>19, <1>t, <2>1, <2>3 DEF CompleteReservation, Complete, Resolve
    <3>2. QED
      BY <1>19, <1>t, <1>a, <2>1, <2>2, <3>1, TruthKept
      DEF CompleteReservation, memoryVars, historyVars
  <2>4. CASE s = slot[w]
    <3>1. w \in Holders(s)
      BY <1>19, <2>4 DEF CompleteReservation, Holders
    <3>2. Holders(s) = {w}
      BY <2>1, <3>1 DEF KeyOK
    <3>3. Spenders(s) = {}
      BY <1>19, <3>2 DEF CompleteReservation, Holders, Spenders
    <3>4. \A v \in Workers : ~(slot'[v] = s /\ pc'[v] = "complete")
      BY <1>19, <1>t, <3>2 DEF CompleteReservation, Holders
    <3>5. Reports(s, payload[w], result[w])
      BY <1>19, <2>1, <2>4 DEF CompleteReservation, Truth
    <3>6. /\ records'[s].status = "completed" /\ records'[s].result = result[w]
          /\ records'[s].fingerprint = payload[w] /\ issued'[s] = issued[s]
      BY <1>19, <1>t, <2>1, <2>4 DEF CompleteReservation, Complete, Resolve, historyVars
    <3>7. Reports(s, records[s].fingerprint, records[s].result)'
      BY <3>5, <3>6 DEF Reports
    <3>8. QED
      BY <2>2, <3>3, <3>4, <3>6, <3>7 DEF Truth
  <2>5. QED
    BY <2>3, <2>4
<1>20. ASSUME NEW p \in Processes, Crash(p) PROVE Truth(s)'
  <2>1. \A q \in Processes, c \in Channels : adapter'[q][c][s] \in {adapter[q][c][s], NoEntry}
    BY <1>20, <1>t DEF Crash, EmptyAdapters
  <2>2. QED
    BY <1>20, <1>k, <1>t, <2>1, TruthKept DEF Crash, storeVars, historyVars, Spenders
<1>21. ASSUME NEW t \in Slots, Age(t) PROVE Truth(s)'
  BY <1>21, <1>k, <1>t, <1>a, TruthKept
  DEF Age, AgeRecord, workerVars, memoryVars, historyVars, Spenders
<1>22. CASE UNCHANGED vars
  BY <1>22, <1>k, <1>t, <1>a, TruthKept
  DEF vars, storeVars, workerVars, memoryVars, historyVars, Spenders
<1>23. QED
  BY <1>1, <1>2, <1>3, <1>4, <1>5, <1>6, <1>7, <1>8, <1>9, <1>10, <1>11, <1>12, <1>13, <1>14, <1>15, <1>16, <1>17, <1>18, <1>19, <1>20, <1>21, <1>22 DEF Next, Step

LEMMA TruthInvariant == Spec => [](TypeInv /\ UnpurgedOK /\ TruthOK)
  BY InitTyped, NextTyped, InitUnpurged, NextUnpurged, InitTruth, NextTruth, PTL DEF Spec

\* Until the key's row is purged, an answer "completed" names an effect the
\* provider made for the payload of the request it answers, and an answer
\* "failed" is given only where no money moved, in every process.
THEOREM AnswersTellTheTruth == Spec => []AnswerMatchesEffect
<1>1. UnpurgedOK /\ TruthOK => AnswerMatchesEffect
  <2> SUFFICES ASSUME UnpurgedOK, TruthOK, NEW s \in Slots, purges[s] = 0,
                      NEW a \in answers[s]
               PROVE  IF a.result.status = "completed"
                      THEN /\ a.result.effect \in 1..Len(issued[s])
                           /\ issued[s][a.result.effect] = a.payload
                      ELSE issued[s] = <<>>
    BY DEF AnswerMatchesEffect
  <2>1. Canonical(s, a.payload, a.result)
    BY DEF UnpurgedOK, KeyOK
  <2>2. QED
    BY <2>1 DEF TruthOK, Truth, Reports, Canonical
<1>2. QED
  BY TruthInvariant, <1>1, PTL

-----------------------------------------------------------------------------
(* No reservation is orphaned *)

HolderLocations == {"lookup", "issue", "abandon", "complete"}

\* w has yet to settle the row of s, and its statement will match that row.
Settles(w, s) == w \in Holders(s) /\ Resolvable(s, payload[w])

Faultless == crashes + busy = 0

\* A step that touches neither the row nor the locals of the worker that will
\* settle it leaves it in charge.
LEMMA StillSettles ==
  ASSUME NEW s \in Slots, NEW v \in Workers, Settles(v, s),
         records'[s] = records[s], slot'[v] = slot[v], payload'[v] = payload[v],
         pc'[v] \in HolderLocations
  PROVE  Settles(v, s)'
<1>1. (v \in Holders(s))'
  BY DEF Settles, Holders, HolderLocations
<1>2. Resolvable(s, payload[v])'
  BY DEF Settles, Resolvable
<1>3. QED
  BY <1>1, <1>2 DEF Settles

LEMMA InitHeld == Init => ReservationHeld
  BY DEF Init, StoreInit, NoRecord, ReservationHeld

LEMMA NextHeld == TypeInv /\ ReservationHeld /\ [Next]_vars => ReservationHeld'
<1> SUFFICES ASSUME TypeInv, ReservationHeld, [Next]_vars,
                    NEW s \in Slots, records'[s].status = "in_progress", Faultless'
             PROVE  \E w \in Workers : Settles(w, s)'
  BY DEF ReservationHeld, Settles, Holders, Faultless
<1>t. /\ pc \in [Workers -> Locations]
      /\ slot \in [Workers -> Slots \cup {None}]
      /\ payload \in [Workers -> Payloads \cup {None}]
      /\ records \in [Slots -> Record(Result)]
      /\ crashes \in Nat /\ busy \in Nat
  BY ManagerAssumption DEF TypeInv, TypeOK, StoreTypeOK
<1>l. \A w \in Workers : pc[w] # "idle" => slot[w] \in Slots /\ payload[w] \in Payloads
  BY DEF TypeInv, LocalsOK
<1>h. ASSUME records[s].status = "in_progress", Faultless
      PROVE  \E v \in Workers : Settles(v, s) /\ pc[v] \in HolderLocations /\ slot[v] = s
  BY <1>h DEF ReservationHeld, Faultless, Settles, Holders, HolderLocations
\* The row is as it was, and the only worker that moves was not its keeper or
\* stays on its way to settle it.
<1>k. ASSUME NEW w \in Workers, records'[s] = records[s], UNCHANGED <<crashes, busy>>,
             \A v \in Workers \ {w} :
               pc'[v] = pc[v] /\ slot'[v] = slot[v] /\ payload'[v] = payload[v],
             \/ ~Settles(w, s)
             \/ pc'[w] \in HolderLocations /\ UNCHANGED <<slot, payload>>
     PROVE  \E v \in Workers : Settles(v, s)'
  <2>1. records[s].status = "in_progress" /\ Faultless
    BY <1>k DEF Faultless
  <2>2. PICK v \in Workers : Settles(v, s) /\ pc[v] \in HolderLocations
    BY <1>h, <2>1
  <2>3. /\ slot'[v] = slot[v] /\ payload'[v] = payload[v]
        /\ pc'[v] \in HolderLocations
    BY <1>k, <2>2
  <2>4. QED
    BY <1>k, <2>2, <2>3, StillSettles
<1> USE DEF At, Goto, Leave
<1>1. ASSUME NEW w \in Workers, NEW t \in Slots, NEW x \in Payloads, Call(w, t, x)
     PROVE  \E v \in Workers : Settles(v, s)'
  <2>1. ~Settles(w, s)
    BY <1>1 DEF Call, Settles, Holders
  <2>2. QED
    BY <1>1, <1>k, <1>t, <2>1 DEF Call, storeVars
<1>2. ASSUME NEW w \in Workers, ReserveOwned(w) PROVE \E v \in Workers : Settles(v, s)'
  <2>1. slot[w] \in Slots /\ payload[w] \in Payloads
    BY <1>2, <1>l DEF ReserveOwned
  <2>2. /\ pc'[w] = "lookup" /\ UNCHANGED <<slot, payload, crashes, busy>>
        /\ \A v \in Workers \ {w} : pc'[v] = pc[v]
    BY <1>2, <1>t DEF ReserveOwned, boundVars
  <2>3. records' = [PurgedRecords EXCEPT ![slot[w]] = Reservation(payload[w])]
    BY <1>2 DEF ReserveOwned, ReserveNew
  <2>4. CASE slot[w] = s
    <3>1. records'[s] = Reservation(payload[w])
      BY <2>1, <2>3, <2>4 DEF PurgedRecords
    <3>2. QED
      BY <2>2, <2>4, <3>1 DEF Settles, Holders, Resolvable, Reservation
  <2>5. CASE slot[w] # s
    <3>1. records'[s] = records[s]
      BY <2>3, <2>5 DEF PurgedRecords, NoRecord
    <3>2. ~Settles(w, s)
      BY <2>5 DEF Settles, Holders
    <3>3. QED
      BY <1>k, <2>2, <3>1, <3>2
  <2>6. QED
    BY <2>4, <2>5
<1>3. ASSUME NEW w \in Workers, ReserveRefused(w) \/ ReserveInFlight(w) \/ ReserveTerminal(w)
     PROVE  \E v \in Workers : Settles(v, s)'
  <2>1. ~Settles(w, s)
    BY <1>3 DEF ReserveRefused, ReserveInFlight, ReserveTerminal, Settles, Holders
  <2>2. records'[s] = records[s]
    BY <1>3 DEF ReserveRefused, ReserveInFlight, ReserveTerminal, ReserveConflict,
                ReserveExisting, storeVars, PurgedRecords, NoRecord
  <2>3. /\ UNCHANGED <<crashes, busy>>
        /\ \A v \in Workers \ {w} :
             pc'[v] = pc[v] /\ slot'[v] = slot[v] /\ payload'[v] = payload[v]
    BY <1>3, <1>t DEF ReserveRefused, ReserveInFlight, ReserveTerminal, boundVars
  <2>4. QED
    BY <1>k, <2>1, <2>2, <2>3
<1>4. ASSUME NEW w \in Workers,
             AuditConflict(w) \/ ReuseResult(w) \/ AuditFailure(w) \/ RecordResult(w)
     PROVE  \E v \in Workers : Settles(v, s)'
  <2>1. ~Settles(w, s)
    BY <1>4 DEF AuditConflict, ReuseResult, AuditFailure, RecordResult, Settles, Holders
  <2>2. /\ records'[s] = records[s] /\ UNCHANGED <<crashes, busy>>
        /\ \A v \in Workers \ {w} :
             pc'[v] = pc[v] /\ slot'[v] = slot[v] /\ payload'[v] = payload[v]
    BY <1>4, <1>t
    DEF AuditConflict, ReuseResult, AuditFailure, RecordResult, boundVars, storeVars
  <2>3. QED
    BY <1>k, <2>1, <2>2
<1>5. ASSUME NEW w \in Workers,
             \/ AdapterHit(w) \/ AdapterMiss(w) \/ AdapterIssue(w) \/ AdapterDeclined(w)
             \/ AdapterRaise(w)
     PROVE  \E v \in Workers : Settles(v, s)'
  <2>1. /\ UNCHANGED <<records, slot, payload, crashes, busy>>
        /\ pc'[w] \in HolderLocations
        /\ \A v \in Workers \ {w} : pc'[v] = pc[v]
    BY <1>5, <1>t
    DEF AdapterHit, AdapterMiss, AdapterIssue, AdapterDeclined, AdapterRaise, boundVars,
        storeVars, HolderLocations
  <2>2. QED
    BY <1>k, <2>1
<1>6. ASSUME NEW w \in Workers, AbandonReservation(w)
     PROVE  \E v \in Workers : Settles(v, s)'
  <2>1. /\ UNCHANGED <<slot, payload, crashes, busy>>
        /\ \A v \in Workers \ {w} : pc'[v] = pc[v]
    BY <1>6, <1>t DEF AbandonReservation, boundVars
  <2>2. records'[s] = records[s] /\ ~Settles(w, s)
    BY <1>6, <1>t DEF AbandonReservation, Abandon, NoRecord, Settles, Holders
  <2>3. QED
    BY <1>k, <2>1, <2>2
<1>7. ASSUME NEW w \in Workers, CompleteReservation(w)
     PROVE  \E v \in Workers : Settles(v, s)'
  <2>1. /\ UNCHANGED <<slot, payload, crashes, busy>>
        /\ \A v \in Workers \ {w} : pc'[v] = pc[v]
    BY <1>7, <1>t DEF CompleteReservation, boundVars
  <2>2. records'[s] = records[s] /\ ~Settles(w, s)
    BY <1>7, <1>t DEF CompleteReservation, Complete, Resolve, Settles, Holders
  <2>3. QED
    BY <1>k, <2>1, <2>2
<1>8. ASSUME NEW w \in Workers, CompleteRefused(w)
     PROVE  \E v \in Workers : Settles(v, s)'
  <2>1. /\ records'[s] = records[s] /\ UNCHANGED <<crashes, busy>>
        /\ \A v \in Workers \ {w} :
             pc'[v] = pc[v] /\ slot'[v] = slot[v] /\ payload'[v] = payload[v]
    BY <1>8, <1>t DEF CompleteRefused, ResolveConflict, boundVars, storeVars
  <2>2. ~Settles(w, s)
    BY <1>8 DEF CompleteRefused, ResolveConflict, Settles, Holders
  <2>3. QED
    BY <1>k, <2>1, <2>2
<1>9. ASSUME NEW w \in Workers, ReserveBusy(w) \/ SettleBusy(w) PROVE FALSE
  BY <1>9, <1>t DEF ReserveBusy, SettleBusy, Faultless
<1>10. ASSUME NEW p \in Processes, Crash(p) PROVE FALSE
  BY <1>10, <1>t DEF Crash, Faultless
<1>11. ASSUME UNCHANGED <<records, pc, slot, payload, crashes, busy>>
      PROVE  \E v \in Workers : Settles(v, s)'
  <2>1. records[s].status = "in_progress" /\ Faultless
    BY <1>11 DEF Faultless
  <2>2. PICK v \in Workers : Settles(v, s) /\ pc[v] \in HolderLocations
    BY <1>h, <2>1
  <2>3. QED
    BY <1>11, <2>2, StillSettles
<1>12. ASSUME NEW t \in Slots, Age(t) PROVE UNCHANGED <<records, pc, slot, payload, crashes, busy>>
  BY <1>12 DEF Age, AgeRecord, workerVars, boundVars
<1>13. CASE UNCHANGED vars
  BY <1>11, <1>13 DEF vars, storeVars, workerVars, boundVars
<1>14. QED
  BY <1>1, <1>2, <1>3, <1>4, <1>5, <1>6, <1>7, <1>8, <1>9, <1>10, <1>11, <1>12, <1>13
  DEF Next, Step

\* While no process crashed and no statement was refused, every row in flight
\* has a call that will settle it: whatever the adapters raise and however
\* purges hand a key on, disburse_float itself never strands a reservation.
THEOREM ReservationsAreHeld == Spec => []ReservationHeld
<1>1. Init => TypeInv /\ ReservationHeld
  BY InitTyped, InitHeld
<1>2. TypeInv /\ ReservationHeld /\ [Next]_vars => TypeInv' /\ ReservationHeld'
  BY NextTyped, NextHeld
<1>3. QED
  BY <1>1, <1>2, PTL DEF Spec

-----------------------------------------------------------------------------
(* The rows disburse_float leaves behind *)

LEMMA NextWellFormed == TypeInv /\ RowsWellFormed /\ [Next]_vars => RowsWellFormed'
<1> SUFFICES ASSUME TypeInv, RowsWellFormed, [Next]_vars PROVE RowsWellFormed'
  OBVIOUS
<1>t. StoreTypeOK(Result)
  BY DEF TypeInv, TypeOK
<1>u. UNCHANGED storeVars => RowsWellFormed'
  BY DEF storeVars, RowsWellFormed
<1> USE DEF At
<1>1. ASSUME NEW w \in Workers,
             ReserveOwned(w) \/ ReserveRefused(w) \/ ReserveInFlight(w) \/ ReserveTerminal(w)
     PROVE  RowsWellFormed'
  <2>1. slot[w] \in Slots /\ payload[w] \in Payloads
    BY <1>1 DEF ReserveOwned, ReserveRefused, ReserveInFlight, ReserveTerminal,
                TypeInv, LocalsOK
  <2>2. ReserveCall(slot[w], payload[w])
    BY <1>1 DEF ReserveOwned, ReserveRefused, ReserveInFlight, ReserveTerminal, ReserveCall
  <2>3. QED
    BY <1>t, <2>1, <2>2, ReserveWellFormed
<1>2. ASSUME NEW w \in Workers, AbandonReservation(w) PROVE RowsWellFormed'
  BY <1>2, <1>t, AbandonWellFormed DEF AbandonReservation, TypeInv, LocalsOK
<1>3. ASSUME NEW w \in Workers, CompleteReservation(w) PROVE RowsWellFormed'
  <2>1. slot[w] \in Slots /\ payload[w] \in Payloads /\ result[w] \in Result
    BY <1>3 DEF CompleteReservation, TypeInv, LocalsOK
  <2>2. QED
    BY <1>3, <1>t, <2>1, NoneAssumption, ResolveWellFormed DEF CompleteReservation
<1>4. ASSUME NEW s \in Slots, Age(s) PROVE RowsWellFormed'
  BY <1>4, AgeWellFormed DEF Age
<1>5. QED
  BY <1>u, <1>1, <1>2, <1>3, <1>4
  DEF Next, Step, Call, ReserveBusy, SettleBusy, Crash, AuditConflict, ReuseResult,
      AdapterHit, AdapterMiss, AdapterIssue, AdapterDeclined, AdapterRaise, AuditFailure,
      CompleteRefused, ResolveConflict, RecordResult, vars

-----------------------------------------------------------------------------
(* disburse_float implements OncePerKey *)

\* No row outlives the retention window.
NothingOverdue == overdueRecords = {} /\ \A s \in Slots : purges[s] = 0

\* What holds of every key whose row was never purged, and of every row.
KeyInv == TypeInv /\ UnpurgedOK /\ EffectsBacked /\ TruthOK /\ RowsWellFormed

PromiseInv == KeyInv /\ NothingOverdue

LEMMA NextNothingOverdue ==
  ASSUME MaxAgeings = 0, TypeInv, NothingOverdue, [Next]_vars
  PROVE  NothingOverdue'
<1>1. UNCHANGED <<overdueRecords, purges>> => NothingOverdue'
  BY DEF NothingOverdue
<1>2. PurgeRest => NothingOverdue'
  BY DEF NothingOverdue, PurgeRest
<1>3. ASSUME NEW w \in Workers, AbandonReservation(w) PROVE NothingOverdue'
  BY <1>3 DEF AbandonReservation, Abandon, NothingOverdue
<1>4. ASSUME NEW s \in Slots, Age(s) PROVE FALSE
  BY <1>4 DEF Age, AgeRecord, TypeInv, TypeOK, StoreTypeOK
<1>5. QED
  BY <1>1, <1>2, <1>3, <1>4
  DEF Next, Step, Call, ReserveBusy, SettleBusy, Crash, AuditConflict, ReuseResult,
      AdapterHit, AdapterMiss, AdapterIssue, AdapterDeclined, AdapterRaise, AuditFailure,
      CompleteRefused, ResolveConflict, RecordResult, vars, storeVars,
      ReserveOwned, ReserveNew, ReserveRefused, ReserveConflict, ReserveInFlight,
      ReserveTerminal, ReserveExisting, CompleteReservation, Complete, Resolve

LEMMA InitPromise == Init => PromiseInv /\ Promise!Init
<1> SUFFICES ASSUME Init PROVE PromiseInv /\ Promise!Init
  OBVIOUS
<1>1. TypeInv /\ UnpurgedOK /\ EffectsBacked /\ TruthOK
  BY InitTyped, InitUnpurged, InitBacked, InitTruth
<1>2. RowsWellFormed /\ NothingOverdue
  BY InitWellFormed DEF Init, StoreInit, NothingOverdue
<1>3. Promise!Init
  BY DEF Init, StoreInit, NoRecord, PhaseOf, Promise!Init
<1>4. QED
  BY <1>1, <1>2, <1>3 DEF PromiseInv, KeyInv

LEMMA NextPromiseInv ==
  ASSUME MaxAgeings = 0, PromiseInv, [Next]_vars
  PROVE  PromiseInv'
<1>1. TypeInv' /\ UnpurgedOK' /\ EffectsBacked' /\ TruthOK'
  BY NextTyped, NextUnpurged, NextBacked, NextTruth DEF PromiseInv, KeyInv
<1>2. RowsWellFormed' /\ NothingOverdue'
  BY NextWellFormed, NextNothingOverdue DEF PromiseInv, KeyInv
<1>3. QED
  BY <1>1, <1>2 DEF PromiseInv, KeyInv

\* What the mapped variables are made of.
promised == <<records, issued, answers>>

LEMMA PromiseStutter ==
  ASSUME UNCHANGED promised PROVE UNCHANGED Promise!vars
  BY DEF promised, Promise!vars

\* A stored result, or one about to be stored, says whether the key was paid.
LEMMA ReportsPaid ==
  ASSUME KeyInv, NEW s \in Slots, purges[s] = 0, NEW x, NEW r, Reports(s, x, r)
  PROVE  (r.status = "completed") <=> (Len(issued[s]) = 1)
<1>1. Len(issued[s]) \in Nat /\ Len(issued[s]) <= 1
  <2>1. Cardinality(Spenders(s)) \in Nat
    BY WorkerSetSize DEF Spenders
  <2>2. Len(issued[s]) \in Nat /\ purges[s] = 0
    BY DEF KeyInv, TypeInv, TypeOK
  <2>3. QED
    BY <2>1, <2>2 DEF KeyInv, EffectsBacked, RowCount
<1>2. issued[s] = <<>> => Len(issued[s]) = 0
  OBVIOUS
<1>3. CASE r.status = "completed"
  <2>1. r.effect \in 1..Len(issued[s])
    BY <1>3 DEF Reports
  <2> DEFINE n == Len(issued[s])
  <2>2. n \in Nat /\ n <= 1 /\ r.effect \in 1..n
    BY <1>1, <2>1
  <2> HIDE DEF n
  <2>3. n = 1
    BY <2>2
  <2>4. QED
    BY <1>3, <2>3 DEF n
<1>4. CASE r.status # "completed"
  BY <1>2, <1>4 DEF Reports
<1>5. QED
  BY <1>3, <1>4

LEMMA Phases ==
  /\ PhaseOf("absent") = "free"
  /\ PhaseOf("in_progress") = "reserved"
  /\ PhaseOf("completed") = "settled"
  BY DEF PhaseOf

LEMMA NextPromise ==
  ASSUME PromiseInv, [Next]_vars
  PROVE  [Promise!Next]_(Promise!vars)
<1>t. /\ records \in [Slots -> Record(Result)]
      /\ issued \in [Slots -> Seq(Payloads)]
      /\ answers \in [Slots -> SUBSET [payload : Payloads, result : Result]]
  BY DEF PromiseInv, KeyInv, TypeInv, TypeOK, StoreTypeOK
<1>k. \A s \in Slots : purges[s] = 0 /\ KeyOK(s) /\ Truth(s)
  BY DEF PromiseInv, KeyInv, UnpurgedOK, TruthOK, NothingOverdue
<1>s. UNCHANGED promised => UNCHANGED Promise!vars
  BY PromiseStutter
<1>p. overdueRecords = {} /\ PurgedRecords = records
  BY <1>t DEF PromiseInv, KeyInv, NothingOverdue, PurgedRecords
<1>l. \A w \in Workers : pc[w] # "idle" => slot[w] \in Slots /\ payload[w] \in Payloads
  BY DEF PromiseInv, KeyInv, TypeInv, LocalsOK
<1> USE DEF At
<1>1. ASSUME NEW w \in Workers, ReserveOwned(w) PROVE Promise!Reserve(slot[w])
  <2>1. slot[w] \in Slots
    BY <1>1, <1>l DEF ReserveOwned
  <2>2. records[slot[w]].status = "absent"
    BY <1>1, <1>p DEF ReserveOwned, ReserveNew, Live
  <2>3. records[slot[w]].result = None
    BY <2>1, <2>2 DEF PromiseInv, KeyInv, RowsWellFormed
  <2>4. records' = [records EXCEPT ![slot[w]] = Reservation(payload[w])]
    BY <1>1, <1>p DEF ReserveOwned, ReserveNew
  <2>5. UNCHANGED <<issued, answers>>
    BY <1>1 DEF ReserveOwned, historyVars
  <2>6. \A s \in Slots : records'[s] = IF s = slot[w] THEN Reservation(payload[w]) ELSE records[s]
    BY <1>t, <2>4
  <2>7. \A s \in Slots : records'[s].result = records[s].result
    BY <2>3, <2>6 DEF Reservation
  <2>8. [s \in Slots |-> PhaseOf(records'[s].status)]
          = [[s \in Slots |-> PhaseOf(records[s].status)] EXCEPT ![slot[w]] = "reserved"]
    <3>1. \A s \in Slots : PhaseOf(records'[s].status)
            = IF s = slot[w] THEN "reserved" ELSE PhaseOf(records[s].status)
      BY <2>6, Phases DEF Reservation
    <3>2. QED
      BY <2>1, <3>1
  <2>9. QED
    BY <2>1, <2>2, <2>5, <2>7, <2>8, Phases DEF Promise!Reserve
<1>2. ASSUME NEW w \in Workers, AbandonReservation(w) PROVE Promise!Release(slot[w])
  <2>1. slot[w] \in Slots
    BY <1>2, <1>l DEF AbandonReservation
  <2>2. w \in Holders(slot[w]) /\ w \in Spenders(slot[w])
    BY <1>2 DEF AbandonReservation, Holders, Spenders
  <2>3. Resolvable(slot[w], payload[w]) /\ records[slot[w]].status = "in_progress"
    BY <1>k, <2>1, <2>2 DEF KeyOK, Resolvable
  <2>4. Len(issued[slot[w]]) = 0
    BY <1>k, <2>1, <2>2 DEF Truth, Untouched
  <2>5. records[slot[w]].result = None
    BY <2>1, <2>3 DEF PromiseInv, KeyInv, RowsWellFormed
  <2>6. \A s \in Slots : records'[s] = IF s = slot[w] THEN NoRecord ELSE records[s]
    BY <1>2, <1>t, <2>3 DEF AbandonReservation, Abandon
  <2>7. UNCHANGED <<issued, answers>>
    BY <1>2 DEF AbandonReservation, historyVars
  <2>8. \A s \in Slots : records'[s].result = records[s].result
    BY <2>5, <2>6 DEF NoRecord
  <2>9. [s \in Slots |-> PhaseOf(records'[s].status)]
          = [[s \in Slots |-> PhaseOf(records[s].status)] EXCEPT ![slot[w]] = "free"]
    <3>1. \A s \in Slots : PhaseOf(records'[s].status)
            = IF s = slot[w] THEN "free" ELSE PhaseOf(records[s].status)
      BY <2>6, Phases DEF NoRecord
    <3>2. QED
      BY <2>1, <3>1
  <2>10. QED
    BY <2>1, <2>3, <2>4, <2>7, <2>8, <2>9, Phases DEF Promise!Release
<1>3. ASSUME NEW w \in Workers, AdapterIssue(w) PROVE Promise!Pay(slot[w])
  <2>1. slot[w] \in Slots
    BY <1>3, <1>l DEF AdapterIssue
  <2>2. w \in Holders(slot[w]) /\ w \in Spenders(slot[w])
    BY <1>3 DEF AdapterIssue, Holders, Spenders
  <2>3. records[slot[w]].status = "in_progress"
    BY <1>k, <2>1, <2>2 DEF KeyOK, Resolvable
  <2>4. issued[slot[w]] = <<>> /\ Len(issued[slot[w]]) = 0
    BY <1>k, <2>1, <2>2 DEF Truth, Untouched
  <2>5. UNCHANGED <<records, answers>>
    BY <1>3 DEF AdapterIssue, storeVars
  <2>6. \A s \in Slots : Len(issued'[s]) = IF s = slot[w] THEN 1 ELSE Len(issued[s])
    BY <1>3, <1>t, <2>1, <2>4 DEF AdapterIssue
  <2>7. QED
    BY <2>1, <2>3, <2>4, <2>5, <2>6, Phases DEF Promise!Pay
<1>4. ASSUME NEW w \in Workers, CompleteReservation(w) PROVE Promise!Settle(slot[w])
  <2>1. slot[w] \in Slots /\ result[w] \in Result
    BY <1>4, <1>l DEF CompleteReservation, PromiseInv, KeyInv, TypeInv, LocalsOK
  <2>2. records[slot[w]].status = "in_progress"
    BY <1>4 DEF CompleteReservation, Complete, Resolve, Resolvable
  <2>3. (result[w].status = "completed") <=> (Len(issued[slot[w]]) = 1)
    BY <1>4, <1>k, <2>1, ReportsPaid DEF CompleteReservation, Truth, PromiseInv
  <2>4. UNCHANGED <<issued, answers>>
    BY <1>4 DEF CompleteReservation, historyVars
  <2>5. /\ \A s \in Slots : s # slot[w] => records'[s] = records[s]
        /\ records'[slot[w]].result = result[w]
        /\ records'[slot[w]].status = "completed"
    BY <1>4, <1>t, <2>1 DEF CompleteReservation, Complete, Resolve
  <2>6. [s \in Slots |-> PhaseOf(records'[s].status)]
          = [[s \in Slots |-> PhaseOf(records[s].status)] EXCEPT ![slot[w]] = "settled"]
    BY <2>1, <2>5, Phases
  <2>7. [s \in Slots |-> records'[s].result]
          = [[s \in Slots |-> records[s].result] EXCEPT ![slot[w]] = records'[slot[w]].result]
    BY <2>1, <2>5
  <2>8. QED
    BY <2>1, <2>2, <2>3, <2>4, <2>5, <2>6, <2>7, Phases DEF Promise!Settle
<1>5. ASSUME NEW w \in Workers, ReuseResult(w) \/ RecordResult(w)
     PROVE  Promise!Tell(slot[w])
  <2>1. slot[w] \in Slots
    BY <1>5, <1>l DEF ReuseResult, RecordResult
  <2>2. w \in Tellers(slot[w])
    BY <1>5 DEF ReuseResult, RecordResult, Tellers
  <2>3. records[slot[w]].status = "completed" /\ records[slot[w]].result = result[w]
    BY <1>k, <2>1, <2>2 DEF KeyOK, Canonical
  <2>4. UNCHANGED <<records, issued>> /\ Answer(w)
    BY <1>5 DEF ReuseResult, RecordResult, storeVars
  <2> DEFINE answer == [payload |-> payload[w], result |-> result[w]]
  <2>5. answer.result = result[w]
    OBVIOUS
  <2>6. answers' = [answers EXCEPT ![slot[w]] = @ \cup {answer}]
    BY <2>4 DEF Answer
  <2> HIDE DEF answer
  <2>7. \A s \in Slots : answers'[s] = IF s = slot[w] THEN answers[s] \cup {answer} ELSE answers[s]
    BY <1>t, <2>1, <2>6
  <2>8. \A s \in Slots :
          {a.result : a \in answers'[s]}
            = IF s = slot[w] THEN {a.result : a \in answers[s]} \cup {result[w]}
                             ELSE {a.result : a \in answers[s]}
    <3> SUFFICES ASSUME NEW s \in Slots
                 PROVE  {a.result : a \in answers'[s]}
                          = IF s = slot[w] THEN {a.result : a \in answers[s]} \cup {result[w]}
                                           ELSE {a.result : a \in answers[s]}
      OBVIOUS
    <3>1. CASE s = slot[w]
      <4>1. {a.result : a \in answers[s] \cup {answer}}
              = {a.result : a \in answers[s]} \cup {answer.result}
        OBVIOUS
      <4>2. QED
        BY <2>5, <2>7, <3>1, <4>1
    <3>2. CASE s # slot[w]
      BY <2>7, <3>2
    <3>3. QED
      BY <3>1, <3>2
  <2>9. QED
    BY <2>1, <2>3, <2>4, <2>8, Phases DEF Promise!Tell
<1>6. ASSUME NEW w \in Workers, ReserveRefused(w) \/ ReserveInFlight(w) \/ ReserveTerminal(w)
     PROVE  UNCHANGED promised
  BY <1>6, <1>p
  DEF ReserveRefused, ReserveConflict, ReserveInFlight, ReserveTerminal, ReserveExisting,
      storeVars, historyVars, promised
<1>7. ASSUME NEW s \in Slots, Age(s) PROVE UNCHANGED promised
  BY <1>7 DEF Age, AgeRecord, historyVars, promised
<1>8. ASSUME NEW w \in Workers,
             \/ ReserveBusy(w) \/ SettleBusy(w) \/ AuditConflict(w) \/ AdapterHit(w)
             \/ AdapterMiss(w) \/ AdapterDeclined(w) \/ AdapterRaise(w) \/ AuditFailure(w)
             \/ CompleteRefused(w)
     PROVE  UNCHANGED promised
  BY <1>8
  DEF ReserveBusy, SettleBusy, AuditConflict, AdapterHit, AdapterMiss, AdapterDeclined,
      AdapterRaise, AuditFailure, CompleteRefused, ResolveConflict, storeVars, historyVars,
      promised
<1>9. ASSUME NEW w \in Workers, NEW s \in Slots, NEW x \in Payloads, Call(w, s, x)
     PROVE  UNCHANGED promised
  BY <1>9 DEF Call, storeVars, historyVars, promised
<1>10. ASSUME NEW p \in Processes, Crash(p) PROVE UNCHANGED promised
  BY <1>10 DEF Crash, storeVars, historyVars, promised
<1>11. CASE UNCHANGED vars
  BY <1>11, <1>s DEF vars, storeVars, historyVars, promised
<1>12. ASSUME NEW w \in Workers, Step(w)
      PROVE  Promise!Next \/ UNCHANGED Promise!vars
  <2>1. CASE \/ ReserveOwned(w) \/ AbandonReservation(w) \/ AdapterIssue(w)
             \/ CompleteReservation(w) \/ ReuseResult(w) \/ RecordResult(w)
    <3>1. slot[w] \in Slots
      BY <1>l, <2>1 DEF ReserveOwned, AbandonReservation, AdapterIssue,
                        CompleteReservation, ReuseResult, RecordResult
    <3>2. CASE ReserveOwned(w)
      BY <1>1, <3>1, <3>2 DEF Promise!Next
    <3>3. CASE AbandonReservation(w)
      BY <1>2, <3>1, <3>3 DEF Promise!Next
    <3>4. CASE AdapterIssue(w)
      <4>1. Promise!Pay(slot[w])
        BY <1>3, <3>4
      <4>2. \E k \in Slots : Promise!Pay(k)
        BY <3>1, <4>1, Zenon DEF Promise!Pay
      <4>3. QED
        BY <4>2 DEF Promise!Next
    <3>5. CASE CompleteReservation(w)
      <4>1. Promise!Settle(slot[w])
        BY <1>4, <3>5
      <4>2. \E k \in Slots : Promise!Settle(k)
        BY <3>1, <4>1, Zenon DEF Promise!Settle
      <4>3. QED
        BY <4>2 DEF Promise!Next
    <3>6. CASE ReuseResult(w) \/ RecordResult(w)
      <4>1. Promise!Tell(slot[w])
        BY <1>5, <3>6
      <4>2. \E k \in Slots : Promise!Tell(k)
        BY <3>1, <4>1, Zenon DEF Promise!Tell
      <4>3. QED
        BY <4>2 DEF Promise!Next
    <3>7. QED
      BY <2>1, <3>2, <3>3, <3>4, <3>5, <3>6
  <2>2. QED
    BY <1>s, <1>6, <1>8, <1>12, <2>1 DEF Step
<1>13. QED
  BY <1>s, <1>7, <1>8, <1>9, <1>10, <1>11, <1>12 DEF Next

\* As long as no row outlives the retention window, disburse_float keeps the
\* promise of OncePerKey for any number of workers, processes, calls, crashes
\* and locked-database errors: each of its steps is a Reserve, Release, Pay,
\* Settle or Tell of the key it works on, or changes nothing callers can see.
THEOREM KeepsThePromise ==
  ASSUME MaxAgeings = 0
  PROVE  Spec => ImplementsOncePerKey
<1>1. Init => PromiseInv /\ Promise!Init
  BY InitPromise
<1>2. PromiseInv /\ [Next]_vars => PromiseInv'
  BY NextPromiseInv
<1>3. PromiseInv /\ [Next]_vars => [Promise!Next]_(Promise!vars)
  BY NextPromise
<1>4. QED
  BY <1>1, <1>2, <1>3, PTL DEF Spec, ImplementsOncePerKey, Promise!Spec

-----------------------------------------------------------------------------
(* Each key apart, with rows that outlive the retention window *)

LEMMA InitKey == Init => KeyInv /\ \A k \in Slots : KeyPromise(k)!Init
<1> SUFFICES ASSUME Init PROVE KeyInv /\ \A k \in Slots : KeyPromise(k)!Init
  OBVIOUS
<1>1. KeyInv
  BY InitTyped, InitUnpurged, InitBacked, InitTruth, InitWellFormed DEF KeyInv, Init
<1>2. ASSUME NEW k \in Slots PROVE KeyPromise(k)!Init
  BY DEF Init, StoreInit, NoRecord, PhaseOf, KeyPromise!Init
<1>3. QED
  BY <1>1, <1>2

LEMMA NextKeyInv == KeyInv /\ [Next]_vars => KeyInv'
  BY NextTyped, NextUnpurged, NextBacked, NextTruth, NextWellFormed DEF KeyInv

\* What callers can see of k did not change.
KeyUntouched(k) ==
  records'[k] = records[k] /\ issued'[k] = issued[k] /\ answers'[k] = answers[k]

LEMMA KeyStutter ==
  ASSUME NEW k \in Slots, KeyUntouched(k) PROVE UNCHANGED KeyPromise(k)!vars
  BY DEF KeyUntouched, KeyPromise!vars

\* Purges are only counted up.
LEMMA PurgesGrow ==
  ASSUME TypeInv, [Next]_vars, NEW k \in Slots, purges'[k] = 0
  PROVE  purges[k] = 0
<1>t. purges \in [Slots -> Nat]
  BY DEF TypeInv, TypeOK, StoreTypeOK
<1>1. UNCHANGED purges => purges[k] = 0
  OBVIOUS
<1>2. PurgeRest => purges[k] = 0
  BY <1>t DEF PurgeRest
<1>3. QED
  BY <1>1, <1>2
  DEF Next, Step, Call, ReserveBusy, SettleBusy, Crash, AuditConflict, ReuseResult,
      AdapterHit, AdapterMiss, AdapterIssue, AdapterDeclined, AdapterRaise, AuditFailure,
      CompleteRefused, ResolveConflict, RecordResult, vars, storeVars,
      ReserveOwned, ReserveNew, ReserveRefused, ReserveConflict, ReserveInFlight,
      ReserveTerminal, ReserveExisting, CompleteReservation, Complete, Resolve,
      AbandonReservation, Abandon, Age, AgeRecord

\* A reserve() that does not purge the row of k leaves it as it was, unless it
\* inserts it.
LEMMA PurgeSpares ==
  ASSUME TypeInv, NEW k \in Slots, purges'[k] = 0, PurgeRest
  PROVE  k \notin overdueRecords /\ PurgedRecords[k] = records[k]
  BY DEF TypeInv, TypeOK, StoreTypeOK, PurgeRest, PurgedRecords

LEMMA NextKeyPromise ==
  ASSUME KeyInv, [Next]_vars, NEW k \in Slots, purges'[k] = 0
  PROVE  [KeyPromise(k)!Next]_(KeyPromise(k)!vars)
<1>t. /\ records \in [Slots -> Record(Result)]
      /\ issued \in [Slots -> Seq(Payloads)]
      /\ answers \in [Slots -> SUBSET [payload : Payloads, result : Result]]
  BY DEF KeyInv, TypeInv, TypeOK, StoreTypeOK
<1>k. purges[k] = 0 /\ KeyOK(k) /\ Truth(k)
  BY PurgesGrow DEF KeyInv, UnpurgedOK, TruthOK
<1>s. KeyUntouched(k) => UNCHANGED KeyPromise(k)!vars
  BY KeyStutter
<1>p. PurgeRest => k \notin overdueRecords /\ PurgedRecords[k] = records[k]
  BY PurgeSpares DEF KeyInv
<1>l. \A w \in Workers : pc[w] # "idle" => slot[w] \in Slots /\ payload[w] \in Payloads
  BY DEF KeyInv, TypeInv, LocalsOK
<1>a. /\ KeyPromise(k)!Reserve(k) => KeyPromise(k)!Next
      /\ KeyPromise(k)!Release(k) => KeyPromise(k)!Next
      /\ KeyPromise(k)!Pay(k) => KeyPromise(k)!Next
      /\ KeyPromise(k)!Settle(k) => KeyPromise(k)!Next
      /\ KeyPromise(k)!Tell(k) => KeyPromise(k)!Next
  BY DEF KeyPromise!Next
<1> USE DEF At
<1>1. ASSUME NEW w \in Workers, ReserveOwned(w)
     PROVE  KeyPromise(k)!Reserve(k) \/ KeyUntouched(k)
  <2>1. slot[w] \in Slots
    BY <1>1, <1>l DEF ReserveOwned
  <2>2. UNCHANGED <<issued, answers>> /\ PurgeRest
    BY <1>1 DEF ReserveOwned, ReserveNew, historyVars
  <2>3. records' = [PurgedRecords EXCEPT ![slot[w]] = Reservation(payload[w])]
    BY <1>1 DEF ReserveOwned, ReserveNew
  <2>4. CASE slot[w] # k
    <3>1. records'[k] = records[k]
      BY <1>p, <2>1, <2>2, <2>3, <2>4 DEF PurgedRecords
    <3>2. QED
      BY <2>2, <3>1 DEF KeyUntouched
  <2>5. CASE slot[w] = k
    <3>1. records[k].status = "absent"
      BY <1>1, <1>p, <2>2, <2>5 DEF ReserveOwned, ReserveNew, Live
    <3>2. records[k].result = None
      BY <3>1 DEF KeyInv, RowsWellFormed
    <3>3. records'[k] = Reservation(payload[w])
      BY <2>3, <2>5 DEF PurgedRecords
    <3>4. records'[k].status = "in_progress" /\ records'[k].result = records[k].result
      BY <3>2, <3>3 DEF Reservation
    <3>5. QED
      BY <2>2, <3>1, <3>4, Phases DEF KeyPromise!Reserve
  <2>6. QED
    BY <2>4, <2>5
<1>2. ASSUME NEW w \in Workers, AbandonReservation(w)
     PROVE  KeyPromise(k)!Release(k) \/ KeyUntouched(k)
  <2>1. slot[w] \in Slots
    BY <1>2, <1>l DEF AbandonReservation
  <2>2. UNCHANGED <<issued, answers>>
    BY <1>2 DEF AbandonReservation, historyVars
  <2>3. CASE slot[w] # k
    BY <1>2, <1>t, <2>2, <2>3 DEF AbandonReservation, Abandon, KeyUntouched
  <2>4. CASE slot[w] = k
    <3>1. w \in Holders(k) /\ w \in Spenders(k)
      BY <1>2, <2>4 DEF AbandonReservation, Holders, Spenders
    <3>2. Resolvable(k, payload[w]) /\ records[k].status = "in_progress"
      BY <1>k, <3>1 DEF KeyOK, Resolvable
    <3>3. Len(issued[k]) = 0
      BY <1>k, <3>1 DEF Truth, Untouched
    <3>4. records[k].result = None
      BY <3>2 DEF KeyInv, RowsWellFormed
    <3>5. records'[k] = NoRecord
      BY <1>2, <1>t, <2>4, <3>2 DEF AbandonReservation, Abandon
    <3>6. records'[k].status = "absent" /\ records'[k].result = records[k].result
      BY <3>4, <3>5 DEF NoRecord
    <3>7. QED
      BY <2>2, <3>2, <3>3, <3>6, Phases DEF KeyPromise!Release
  <2>5. QED
    BY <2>3, <2>4
<1>3. ASSUME NEW w \in Workers, AdapterIssue(w)
     PROVE  KeyPromise(k)!Pay(k) \/ KeyUntouched(k)
  <2>1. slot[w] \in Slots
    BY <1>3, <1>l DEF AdapterIssue
  <2>2. UNCHANGED <<records, answers>>
    BY <1>3 DEF AdapterIssue, storeVars
  <2>3. CASE slot[w] # k
    BY <1>3, <1>t, <2>2, <2>3 DEF AdapterIssue, KeyUntouched
  <2>4. CASE slot[w] = k
    <3>1. w \in Holders(k) /\ w \in Spenders(k)
      BY <1>3, <2>4 DEF AdapterIssue, Holders, Spenders
    <3>2. records[k].status = "in_progress"
      BY <1>k, <3>1 DEF KeyOK, Resolvable
    <3>3. issued[k] = <<>> /\ Len(issued[k]) = 0
      BY <1>k, <3>1 DEF Truth, Untouched
    <3>4. Len(issued'[k]) = 1
      BY <1>3, <1>t, <2>1, <2>4, <3>3 DEF AdapterIssue
    <3>5. QED
      BY <2>2, <3>2, <3>3, <3>4, Phases DEF KeyPromise!Pay
  <2>5. QED
    BY <2>3, <2>4
<1>4. ASSUME NEW w \in Workers, CompleteReservation(w)
     PROVE  KeyPromise(k)!Settle(k) \/ KeyUntouched(k)
  <2>1. slot[w] \in Slots /\ result[w] \in Result
    BY <1>4, <1>l DEF CompleteReservation, KeyInv, TypeInv, LocalsOK
  <2>2. UNCHANGED <<issued, answers>>
    BY <1>4 DEF CompleteReservation, historyVars
  <2>3. CASE slot[w] # k
    BY <1>4, <1>t, <2>2, <2>3 DEF CompleteReservation, Complete, Resolve, KeyUntouched
  <2>4. CASE slot[w] = k
    <3>1. records[k].status = "in_progress"
      BY <1>4, <2>4 DEF CompleteReservation, Complete, Resolve, Resolvable
    <3>2. (result[w].status = "completed") <=> (Len(issued[k]) = 1)
      BY <1>4, <1>k, <2>4, ReportsPaid DEF CompleteReservation, Truth
    <3>3. records'[k].result = result[w] /\ records'[k].status = "completed"
      BY <1>4, <1>t, <2>4 DEF CompleteReservation, Complete, Resolve
    <3>4. QED
      BY <2>1, <2>2, <3>1, <3>2, <3>3, Phases DEF KeyPromise!Settle
  <2>5. QED
    BY <2>3, <2>4
<1>5. ASSUME NEW w \in Workers, ReuseResult(w) \/ RecordResult(w)
     PROVE  KeyPromise(k)!Tell(k) \/ KeyUntouched(k)
  <2>1. slot[w] \in Slots
    BY <1>5, <1>l DEF ReuseResult, RecordResult
  <2>2. UNCHANGED <<records, issued>> /\ Answer(w)
    BY <1>5 DEF ReuseResult, RecordResult, storeVars
  <2>3. CASE slot[w] # k
    BY <1>t, <2>2, <2>3 DEF Answer, KeyUntouched
  <2>4. CASE slot[w] = k
    <3>1. w \in Tellers(k)
      BY <1>5, <2>4 DEF ReuseResult, RecordResult, Tellers
    <3>2. records[k].status = "completed" /\ records[k].result = result[w]
      BY <1>k, <3>1 DEF KeyOK, Canonical
    <3> DEFINE answer == [payload |-> payload[w], result |-> result[w]]
    <3>3. answer.result = result[w]
      OBVIOUS
    <3>4. answers' = [answers EXCEPT ![k] = @ \cup {answer}]
      BY <2>2, <2>4 DEF Answer
    <3> HIDE DEF answer
    <3>5. answers'[k] = answers[k] \cup {answer}
      BY <1>t, <3>4
    <3>6. {a.result : a \in answers[k] \cup {answer}}
            = {a.result : a \in answers[k]} \cup {answer.result}
      OBVIOUS
    <3>7. {a.result : a \in answers'[k]} = {a.result : a \in answers[k]} \cup {result[w]}
      BY <3>3, <3>5, <3>6
    <3>8. QED
      BY <2>2, <3>2, <3>7, Phases DEF KeyPromise!Tell
  <2>5. QED
    BY <2>3, <2>4
<1>6. ASSUME NEW w \in Workers, ReserveRefused(w) \/ ReserveInFlight(w) \/ ReserveTerminal(w)
     PROVE  KeyUntouched(k)
  BY <1>6, <1>p
  DEF ReserveRefused, ReserveConflict, ReserveInFlight, ReserveTerminal, ReserveExisting,
      storeVars, historyVars, KeyUntouched
<1>7. ASSUME NEW s \in Slots, Age(s) PROVE KeyUntouched(k)
  BY <1>7 DEF Age, AgeRecord, historyVars, KeyUntouched
<1>8. ASSUME NEW w \in Workers,
             \/ ReserveBusy(w) \/ SettleBusy(w) \/ AuditConflict(w) \/ AdapterHit(w)
             \/ AdapterMiss(w) \/ AdapterDeclined(w) \/ AdapterRaise(w) \/ AuditFailure(w)
             \/ CompleteRefused(w)
     PROVE  KeyUntouched(k)
  BY <1>8
  DEF ReserveBusy, SettleBusy, AuditConflict, AdapterHit, AdapterMiss, AdapterDeclined,
      AdapterRaise, AuditFailure, CompleteRefused, ResolveConflict, storeVars, historyVars,
      KeyUntouched
<1>9. ASSUME NEW w \in Workers, NEW s \in Slots, NEW x \in Payloads, Call(w, s, x)
     PROVE  KeyUntouched(k)
  BY <1>9 DEF Call, storeVars, historyVars, KeyUntouched
<1>10. ASSUME NEW p \in Processes, Crash(p) PROVE KeyUntouched(k)
  BY <1>10 DEF Crash, storeVars, historyVars, KeyUntouched
<1>11. CASE UNCHANGED vars
  BY <1>11, <1>s DEF vars, storeVars, historyVars, KeyUntouched
<1>12. ASSUME NEW w \in Workers, Step(w)
      PROVE  KeyPromise(k)!Next \/ KeyUntouched(k)
  BY <1>a, <1>1, <1>2, <1>3, <1>4, <1>5, <1>6, <1>8, <1>12 DEF Step
<1>13. QED
  BY <1>s, <1>7, <1>8, <1>9, <1>10, <1>11, <1>12 DEF Next

\* Expiry included: up to the first purge of its own row every key is treated as
\* OncePerKey says, for any number of workers, processes, calls, crashes, locked
\* databases and purges of other keys.  Only losing its own row can break the
\* promise of a key.
THEOREM KeepsThePromiseUntilPurge == Spec => OncePerKeyUntilPurge
<1> DEFINE KeyStep == \A k \in Slots :
             purges'[k] = 0 => [KeyPromise(k)!Next]_(KeyPromise(k)!vars)
           KeyInit == \A k \in Slots : KeyPromise(k)!Init
<1>1. Init => KeyInv /\ KeyInit
  BY InitKey
<1>2. KeyInv /\ [Next]_vars => KeyInv'
  BY NextKeyInv
<1>3. KeyInv /\ [Next]_vars => [KeyStep]_vars
  BY NextKeyPromise
<1> HIDE DEF KeyStep, KeyInit
<1>4. Spec => KeyInit /\ [][KeyStep]_vars
  BY <1>1, <1>2, <1>3, PTL DEF Spec
<1>5. QED
  BY <1>4 DEF OncePerKeyUntilPurge, KeyStep, KeyInit

-----------------------------------------------------------------------------
(* What it takes to pay without an audit event *)

\* A call that paid, or found the payment, and has yet to write its event.
Telling(s) == {w \in Workers : slot[w] = s /\ pc[w] \in {"complete", "record"}}

CanonicalEvents(p, s) ==
  {e \in audit[p] : e.slot = s /\ e.type = "DISBURSEMENT_CANONICAL_RESULT"}

Audited(s) == \E p \in Processes : CanonicalEvents(p, s) # {}

\* Money that moved under a key whose row was never purged is in the audit log
\* of a process, or a call is about to enter it, unless a process crashed or the
\* database refused a statement.
FaultlessEffectsAudited ==
  \A s \in Slots :
    purges[s] = 0 /\ Faultless /\ issued[s] # <<>> => Telling(s) # {} \/ Audited(s)

LEMMA InitAudited == Init => FaultlessEffectsAudited
  BY DEF Init, FaultlessEffectsAudited

\* An audit log to which events are only appended keeps what it tells.
LEMMA StillAudited ==
  ASSUME TypeInv, NEW s \in Slots, Audited(s),
         \/ UNCHANGED audit
         \/ \E w \in Workers, type \in AuditTypes : AppendEvent(w, type)
  PROVE  Audited(s)'
<1>1. PICK p \in Processes : CanonicalEvents(p, s) # {}
  BY DEF Audited
<1>2. audit[p] \subseteq audit'[p]
  BY DEF TypeInv, TypeOK, AppendEvent
<1>3. CanonicalEvents(p, s)' # {}
  BY <1>1, <1>2 DEF CanonicalEvents
<1>4. QED
  BY <1>3 DEF Audited

LEMMA NextAudited ==
  TypeInv /\ UnpurgedOK /\ FaultlessEffectsAudited /\ [Next]_vars => FaultlessEffectsAudited'
<1> SUFFICES ASSUME TypeInv, UnpurgedOK, FaultlessEffectsAudited, [Next]_vars,
                    NEW s \in Slots, purges'[s] = 0, Faultless', issued'[s] # <<>>
             PROVE  Telling(s)' # {} \/ Audited(s)'
  BY DEF FaultlessEffectsAudited
<1>t. /\ pc \in [Workers -> Locations]
      /\ slot \in [Workers -> Slots \cup {None}]
      /\ crashes \in Nat /\ busy \in Nat
      /\ audit \in [Processes -> SUBSET AuditEvent]
      /\ issued \in [Slots -> Seq(Payloads)]
  BY ManagerAssumption DEF TypeInv, TypeOK
<1>l. \A w \in Workers : pc[w] # "idle" => slot[w] \in Slots
  BY DEF TypeInv, LocalsOK
<1>p. purges[s] = 0
  BY PurgesGrow
<1>h. ASSUME issued'[s] = issued[s], UNCHANGED <<crashes, busy>>
      PROVE  Telling(s) # {} \/ Audited(s)
  BY <1>h, <1>p DEF FaultlessEffectsAudited, Faultless
<1>s. ASSUME NEW v \in Telling(s), slot'[v] = slot[v], pc'[v] \in {"complete", "record"}
      PROVE  Telling(s)' # {}
  BY <1>s DEF Telling
\* Whoever was about to tell still is, unless it is the worker that moves.
<1>k. ASSUME NEW w \in Workers, issued'[s] = issued[s], UNCHANGED <<crashes, busy>>,
             \A v \in Workers \ {w} : pc'[v] = pc[v] /\ slot'[v] = slot[v],
             \/ w \notin Telling(s)
             \/ pc'[w] \in {"complete", "record"} /\ slot'[w] = slot[w],
             \/ UNCHANGED audit
             \/ \E type \in AuditTypes : AppendEvent(w, type)
      PROVE  Telling(s)' # {} \/ Audited(s)'
  <2>1. CASE Audited(s)
    BY <1>k, <2>1, StillAudited
  <2>2. ASSUME NEW v \in Telling(s) PROVE Telling(s)' # {}
    <3>1. slot'[v] = slot[v] /\ pc'[v] \in {"complete", "record"}
      BY <1>k, <2>2 DEF Telling
    <3>2. QED
      BY <1>s, <3>1
  <2>3. QED
    BY <1>h, <1>k, <2>1, <2>2
<1> USE DEF At, Goto, Leave
<1>1. ASSUME NEW w \in Workers, NEW t \in Slots, NEW x \in Payloads, Call(w, t, x)
      PROVE  Telling(s)' # {} \/ Audited(s)'
  <2>1. w \notin Telling(s)
    BY <1>1 DEF Call, Telling
  <2>2. QED
    BY <1>1, <1>k, <1>t, <2>1 DEF Call, memoryVars, historyVars
<1>2. ASSUME NEW w \in Workers,
             \/ ReserveOwned(w) \/ ReserveRefused(w) \/ ReserveInFlight(w)
             \/ ReserveTerminal(w) \/ AdapterMiss(w) \/ AdapterRaise(w)
             \/ AbandonReservation(w)
      PROVE  Telling(s)' # {} \/ Audited(s)'
  <2>1. w \notin Telling(s)
    BY <1>2 DEF ReserveOwned, ReserveRefused, ReserveInFlight, ReserveTerminal,
                AdapterMiss, AdapterRaise, AbandonReservation, Telling
  <2>2. /\ UNCHANGED <<issued, crashes, busy, audit>>
        /\ \A v \in Workers \ {w} : pc'[v] = pc[v] /\ slot'[v] = slot[v]
    BY <1>2, <1>t
    DEF ReserveOwned, ReserveRefused, ReserveInFlight, ReserveTerminal, AdapterMiss,
        AdapterRaise, AbandonReservation, memoryVars, boundVars, historyVars
  <2>3. QED
    BY <1>k, <2>1, <2>2
<1>3. ASSUME NEW w \in Workers, AuditConflict(w) \/ ReuseResult(w) \/ AuditFailure(w)
      PROVE  Telling(s)' # {} \/ Audited(s)'
  <2>1. w \notin Telling(s)
    BY <1>3 DEF AuditConflict, ReuseResult, AuditFailure, Telling
  <2>2. /\ UNCHANGED <<issued, crashes, busy>>
        /\ \A v \in Workers \ {w} : pc'[v] = pc[v] /\ slot'[v] = slot[v]
    BY <1>3, <1>t DEF AuditConflict, ReuseResult, AuditFailure, boundVars, historyVars
  <2>3. \E type \in AuditTypes : AppendEvent(w, type)
    BY <1>3 DEF AuditConflict, ReuseResult, AuditFailure, AuditTypes
  <2>4. QED
    BY <1>k, <2>1, <2>2, <2>3
<1>4. ASSUME NEW w \in Workers, AdapterHit(w) \/ AdapterDeclined(w) \/ CompleteReservation(w)
      PROVE  Telling(s)' # {} \/ Audited(s)'
  <2>1. /\ UNCHANGED <<issued, slot, crashes, busy, audit>>
        /\ pc'[w] \in {"complete", "record"}
        /\ \A v \in Workers \ {w} : pc'[v] = pc[v]
    BY <1>4, <1>t DEF AdapterHit, AdapterDeclined, CompleteReservation, memoryVars,
                      boundVars, historyVars
  <2>2. QED
    BY <1>k, <2>1
\* The worker that pays is the one that will tell.
<1>5. ASSUME NEW w \in Workers, AdapterIssue(w)
      PROVE  Telling(s)' # {} \/ Audited(s)'
  <2>1. /\ UNCHANGED <<slot, crashes, busy, audit>>
        /\ pc' = [pc EXCEPT ![w] = "complete"]
        /\ issued' = [issued EXCEPT ![slot[w]] = Append(@, payload[w])]
    BY <1>5 DEF AdapterIssue, boundVars
  <2>2. CASE slot[w] = s
    <3>1. w \in Telling(s)'
      BY <1>t, <2>1, <2>2 DEF Telling
    <3>2. QED
      BY <3>1
  <2>3. CASE slot[w] # s
    <3>1. issued'[s] = issued[s]
      BY <1>t, <2>1, <2>3
    <3>2. pc'[w] = "complete" /\ \A v \in Workers \ {w} : pc'[v] = pc[v]
      BY <1>t, <2>1
    <3>3. QED
      BY <1>k, <2>1, <3>1, <3>2
  <2>4. QED
    BY <2>2, <2>3
\* The row of a key that was never purged is its holder's: complete() matches.
<1>6. ASSUME NEW w \in Workers, CompleteRefused(w)
      PROVE  Telling(s)' # {} \/ Audited(s)'
  <2>1. ASSUME w \in Telling(s) PROVE FALSE
    <3>1. w \in Holders(s)
      BY <1>6, <2>1 DEF CompleteRefused, Telling, Holders
    <3>2. Resolvable(s, payload[w])
      BY <1>p, <3>1 DEF UnpurgedOK, KeyOK
    <3>3. ~Resolvable(s, payload[w])
      BY <1>6, <2>1 DEF CompleteRefused, ResolveConflict, Telling
    <3>4. QED
      BY <3>2, <3>3
  <2>2. /\ UNCHANGED <<issued, crashes, busy, audit>>
        /\ \A v \in Workers \ {w} : pc'[v] = pc[v] /\ slot'[v] = slot[v]
    BY <1>6, <1>t DEF CompleteRefused, memoryVars, boundVars, historyVars
  <2>3. QED
    BY <1>k, <2>1, <2>2
<1>7. ASSUME NEW w \in Workers, RecordResult(w)
      PROVE  Telling(s)' # {} \/ Audited(s)'
  <2>1. /\ UNCHANGED <<issued, crashes, busy>>
        /\ AppendEvent(w, "DISBURSEMENT_CANONICAL_RESULT")
        /\ \A v \in Workers \ {w} : pc'[v] = pc[v] /\ slot'[v] = slot[v]
    BY <1>7, <1>t DEF RecordResult, boundVars
  <2>2. CASE slot[w] = s
    <3>1. ProcessOf[w] \in Processes
      BY ManagerAssumption
    <3> DEFINE event == [type |-> "DISBURSEMENT_CANONICAL_RESULT", slot |-> slot[w],
                         call |-> call[w]]
    <3>2. event \in audit'[ProcessOf[w]]
      BY <1>t, <2>1, <3>1 DEF AppendEvent
    <3>3. event \in CanonicalEvents(ProcessOf[w], s)'
      BY <2>2, <3>2 DEF CanonicalEvents
    <3>4. QED
      BY <3>1, <3>3 DEF Audited
  <2>3. CASE slot[w] # s
    <3>1. w \notin Telling(s)
      BY <2>3 DEF Telling
    <3>2. "DISBURSEMENT_CANONICAL_RESULT" \in AuditTypes
      BY DEF AuditTypes
    <3>3. QED
      BY <1>k, <2>1, <3>1, <3>2
  <2>4. QED
    BY <2>2, <2>3
<1>8. ASSUME NEW w \in Workers, ReserveBusy(w) \/ SettleBusy(w) PROVE FALSE
  BY <1>8, <1>t DEF ReserveBusy, SettleBusy, Faultless
<1>9. ASSUME NEW p \in Processes, Crash(p) PROVE FALSE
  BY <1>9, <1>t DEF Crash, Faultless
<1>10. ASSUME UNCHANGED <<issued, pc, slot, crashes, busy, audit>>
       PROVE  Telling(s)' # {} \/ Audited(s)'
  <2>1. Telling(s) # {} \/ Audited(s)
    BY <1>10, <1>h
  <2>2. QED
    BY <1>10, <2>1, StillAudited DEF Telling
<1>11. ASSUME NEW t \in Slots, Age(t) PROVE UNCHANGED <<issued, pc, slot, crashes, busy, audit>>
  BY <1>11 DEF Age, workerVars, memoryVars, boundVars, historyVars
<1>12. CASE UNCHANGED vars
  BY <1>10, <1>12 DEF vars, workerVars, memoryVars, boundVars, historyVars
<1>13. QED
  BY <1>1, <1>2, <1>3, <1>4, <1>5, <1>6, <1>7, <1>8, <1>9, <1>10, <1>11, <1>12
  DEF Next, Step

\* The audit log misses a payment only after a fault: while no process crashed,
\* the database refused no statement and the row of the key was not purged,
\* every payment is followed by its DISBURSEMENT_CANONICAL_RESULT event, or by a
\* call that has yet to write it.
THEOREM PaymentsAreAudited == Spec => []FaultlessEffectsAudited
<1>1. Init => TypeInv /\ UnpurgedOK /\ FaultlessEffectsAudited
  BY InitTyped, InitUnpurged, InitAudited
<1>2. TypeInv /\ UnpurgedOK /\ FaultlessEffectsAudited /\ [Next]_vars
        => TypeInv' /\ UnpurgedOK' /\ FaultlessEffectsAudited'
  BY NextTyped, NextUnpurged, NextAudited
<1>3. QED
  BY <1>1, <1>2, PTL DEF Spec
=============================================================================
