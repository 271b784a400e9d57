---------------------------- MODULE ProviderProofs ----------------------------
(***************************************************************************)
(* Theorems about ingest_provider_event, for any number of workers,        *)
(* processes, events, payloads, callbacks, crashes and purges.             *)
(***************************************************************************)
EXTENDS ProviderEvents, IdempotencyProofs, FiniteSetTheorems, TLAPS

-----------------------------------------------------------------------------
(* The inductive invariant *)

\* What the locals of a callback in work hold.
LocalsOK ==
  \A w \in Workers :
    pc[w] # "idle" => /\ event[w] \in EventIds
                      /\ payload[w] \in EventPayloads
                      /\ current[w] \in SettlementStates

TypeInv == TypeOK /\ LocalsOK

\* The row of e as it is now, and the rows of e that purges deleted.
Backing(e) == (IF events[e] = None THEN 0 ELSE 1) + eventPurges[e]

\* Every worker that may still accept e and every acceptance of e is backed by
\* a row of its own.
ClaimsBacked ==
  \A e \in EventIds : Cardinality(Deciding(e)) + Len(accepted[e]) <= Backing(e)

-----------------------------------------------------------------------------
(* Type correctness *)

LEMMA InitTyped == Init => TypeInv
<1> SUFFICES ASSUME Init PROVE TypeInv
  OBVIOUS
<1>1. StoreTypeOK({})
  BY InitStoreTyped DEF Init
<1>2. QED
  BY <1>1, EventAssumption DEF Init, TypeInv, TypeOK, LocalsOK, Locations

\* A worker that moves on keeps typed locals, and so does one that is done.
LEMMA GotoTyped ==
  ASSUME TypeInv, NEW w \in Workers, pc[w] # "idle", NEW l \in Locations, Goto(w, l)
  PROVE  /\ pc' \in [Workers -> Locations] /\ LocalsOK'
         /\ UNCHANGED <<event, payload, current, calls, crashes>>
  BY DEF TypeInv, TypeOK, LocalsOK, Goto

LEMMA LeaveTyped ==
  ASSUME TypeInv, NEW w \in Workers, Leave(w)
  PROVE  /\ pc' \in [Workers -> Locations]
         /\ event' \in [Workers -> EventIds \cup {None}]
         /\ payload' \in [Workers -> EventPayloads \cup {None}]
         /\ current' \in [Workers -> SettlementStates \cup {None}]
         /\ LocalsOK'
         /\ UNCHANGED <<calls, crashes>>
<1>1. "idle" \in Locations
  BY DEF Locations
<1>2. pc' \in [Workers -> Locations]
  BY <1>1 DEF TypeInv, TypeOK, Leave
<1>3. LocalsOK'
  BY DEF TypeInv, TypeOK, LocalsOK, Leave
<1>4. QED
  BY <1>2, <1>3 DEF TypeInv, TypeOK, Leave

LEMMA NextTyped == TypeInv /\ [Next]_vars => TypeInv'
<1> SUFFICES ASSUME TypeInv, [Next]_vars PROVE TypeInv'
  OBVIOUS
<1> USE DEF TypeInv
<1>s. UNCHANGED storeVars => StoreTypeOK({})'
  BY DEF TypeOK, StoreTypeOK, storeVars
<1>l. /\ {"select", "insert", "replay", "validate", "release", "accept"} \subseteq Locations
      /\ "idle" \in Locations
  BY DEF Locations
<1>1. ASSUME NEW w \in Workers, NEW e \in EventIds, NEW x \in EventPayloads,
             NEW from \in CurrentStates, Ingest(w, e, x, from)
     PROVE  TypeInv'
  <2>1. from \in SettlementStates
    BY EventAssumption
  <2>2. TypeOK'
    BY <1>1, <1>s, <1>l, <2>1, EventAssumption DEF Ingest, TypeOK, historyVars
  <2>3. LocalsOK'
    BY <1>1, <2>1 DEF Ingest, TypeOK, LocalsOK
  <2>4. QED
    BY <2>2, <2>3
<1>2. ASSUME NEW w \in Workers, SelectNone(w) PROVE TypeInv'
  BY <1>2, <1>s, <1>l, GotoTyped DEF SelectNone, Select, TypeOK, historyVars
<1>3. ASSUME NEW w \in Workers, SelectReplay(w) PROVE TypeInv'
  BY <1>3, <1>s, <1>l, GotoTyped DEF SelectReplay, Select, TypeOK, historyVars
<1>4. ASSUME NEW w \in Workers, SelectConflict(w) PROVE TypeInv'
  BY <1>4, <1>s, LeaveTyped DEF SelectConflict, Select, TypeOK, historyVars
<1>5. ASSUME NEW w \in Workers, Claim(w) PROVE TypeInv'
  <2>1. event[w] \in EventIds /\ payload[w] \in EventPayloads
    BY <1>5 DEF Claim, LocalsOK
  <2>2. StoreTypeOK({})'
    BY <1>5, <2>1, EventTyped DEF Claim, TypeOK
  <2>3. QED
    BY <1>5, <1>l, <2>2, GotoTyped DEF Claim, TypeOK, historyVars
<1>6. ASSUME NEW w \in Workers, ClaimRaced(w) PROVE TypeInv'
  BY <1>6, <1>s, LeaveTyped DEF ClaimRaced, InsertEventDuplicate, TypeOK, historyVars
<1>7. ASSUME NEW w \in Workers, AnswerReplay(w) PROVE TypeInv'
  <2>1. event[w] \in EventIds
    BY <1>7 DEF AnswerReplay, LocalsOK
  <2>2. QED
    BY <1>7, <1>s, <2>1, LeaveTyped DEF AnswerReplay, TypeOK
<1>8. ASSUME NEW w \in Workers, StatusUnknown(w) PROVE TypeInv'
  BY <1>8, <1>s, LeaveTyped DEF StatusUnknown, TypeOK, historyVars
<1>9. ASSUME NEW w \in Workers, Validate(w) PROVE TypeInv'
  <2>1. PICK l \in Locations : Goto(w, l)
    BY <1>9, <1>l DEF Validate
  <2>2. QED
    BY <1>9, <1>s, <2>1, GotoTyped DEF Validate, TypeOK, historyVars
<1>10. ASSUME NEW w \in Workers, ReleaseClaim(w) PROVE TypeInv'
  <2>1. event[w] \in EventIds /\ payload[w] \in EventPayloads
    BY <1>10 DEF ReleaseClaim, LocalsOK
  <2>2. StoreTypeOK({})'
    BY <1>10, <2>1, EventTyped DEF ReleaseClaim, TypeOK
  <2>3. QED
    BY <1>10, <2>2, LeaveTyped DEF ReleaseClaim, TypeOK, historyVars
<1>11. ASSUME NEW w \in Workers, Accept(w) PROVE TypeInv'
  <2>1. event[w] \in EventIds /\ payload[w] \in EventPayloads
    BY <1>11 DEF Accept, LocalsOK
  <2>2. accepted' \in [EventIds -> Seq(EventPayloads)]
    BY <1>11, <2>1 DEF Accept, TypeOK
  <2>3. QED
    BY <1>11, <1>s, <2>2, LeaveTyped DEF Accept, TypeOK
<1>12. CASE OtherReserve
  <2>1. PICK s \in Slots, x \in Payloads : ReserveExisting(s, x) \/ ReserveNew(s, x)
    BY <1>12 DEF OtherReserve
  <2>2. StoreTypeOK({})'
    BY <2>1, ReserveTyped DEF ReserveCall, TypeOK
  <2>3. eventPurges' \in [EventIds -> Nat]
    BY <1>12 DEF OtherReserve, TypeOK
  <2>4. QED
    BY <1>12, <2>2, <2>3 DEF OtherReserve, TypeOK, LocalsOK, workerVars
<1>13. CASE Age
  <2>1. PICK e \in EventIds : AgeEvent(e)
    BY <1>13 DEF Age
  <2>2. StoreTypeOK({})'
    BY <2>1, StoreAssumption DEF AgeEvent, StoreTypeOK, TypeOK
  <2>3. QED
    BY <1>13, <2>2 DEF Age, TypeOK, LocalsOK, workerVars, historyVars
<1>14. ASSUME NEW p \in Processes, Crash(p) PROVE TypeInv'
  <2>1. TypeOK'
    BY <1>14, <1>s, <1>l, EventAssumption DEF Crash, TypeOK, historyVars
  <2>2. LocalsOK'
    BY <1>14 DEF Crash, LocalsOK
  <2>3. QED
    BY <2>1, <2>2
<1>15. CASE UNCHANGED vars
  BY <1>15, <1>s DEF vars, TypeOK, LocalsOK, workerVars, historyVars
<1>16. QED
  BY <1>1, <1>2, <1>3, <1>4, <1>5, <1>6, <1>7, <1>8, <1>9, <1>10, <1>11, <1>12, <1>13, <1>14, <1>15 DEF Next, Step

LEMMA TypeInvariant == Spec => []TypeInv
  BY InitTyped, NextTyped, PTL DEF Spec

\* Every table, local and history variable of ingest_provider_event keeps its
\* type whatever callbacks, crashes and purges do.
THEOREM TypeCorrect == Spec => []TypeOK
  BY TypeInvariant, PTL DEF TypeInv

-----------------------------------------------------------------------------
(* Counting workers *)

LEMMA WorkerSetSize ==
  ASSUME NEW T \in SUBSET Workers
  PROVE  IsFiniteSet(T) /\ Cardinality(T) \in Nat
  BY EventAssumption, FS_Subset, FS_CardinalityType

\* The numbers that are compared are natural numbers.
LEMMA CountsTyped ==
  ASSUME TypeInv, NEW e \in EventIds
  PROVE  /\ Cardinality(Deciding(e)) \in Nat
         /\ Len(accepted[e]) \in Nat
         /\ Backing(e) \in Nat
<1>1. Deciding(e) \in SUBSET Workers
  BY DEF Deciding
<1>2. accepted[e] \in Seq(EventPayloads) /\ eventPurges[e] \in Nat
  BY DEF TypeInv, TypeOK
<1>3. QED
  BY <1>1, <1>2, WorkerSetSize DEF Backing

LEMMA NextCountsTyped ==
  ASSUME TypeInv', NEW e \in EventIds
  PROVE  /\ Cardinality(Deciding(e)') \in Nat
         /\ Len(accepted'[e]) \in Nat
         /\ Backing(e)' \in Nat
<1>1. Deciding(e)' \in SUBSET Workers
  BY DEF Deciding
<1>2. accepted'[e] \in Seq(EventPayloads) /\ eventPurges'[e] \in Nat
  BY DEF TypeInv, TypeOK
<1>3. QED
  BY <1>1, <1>2, WorkerSetSize DEF Backing

-----------------------------------------------------------------------------
(* Every acceptance has its row *)

\* A step that adds nobody who decides about e, accepts nothing and takes no
\* backing away.
LEMMA BackedByLess ==
  ASSUME TypeInv, TypeInv', ClaimsBacked, NEW e \in EventIds,
         Deciding(e)' \subseteq Deciding(e), accepted'[e] = accepted[e],
         Backing(e) <= Backing(e)'
  PROVE  Cardinality(Deciding(e)') + Len(accepted'[e]) <= Backing(e)'
<1>1. Cardinality(Deciding(e)') <= Cardinality(Deciding(e))
  BY WorkerSetSize, FS_Subset DEF Deciding
<1>2. Cardinality(Deciding(e)) + Len(accepted[e]) <= Backing(e)
  BY DEF ClaimsBacked
<1>3. /\ Cardinality(Deciding(e)) \in Nat /\ Len(accepted[e]) \in Nat /\ Backing(e) \in Nat
      /\ Cardinality(Deciding(e)') \in Nat /\ Backing(e)' \in Nat
  BY CountsTyped, NextCountsTyped
<1>4. QED
  BY <1>1, <1>2, <1>3

\* A worker that decided: one less that counts.
LEMMA BackedByOneLess ==
  ASSUME TypeInv, TypeInv', ClaimsBacked, NEW e \in EventIds, NEW w \in Deciding(e),
         Deciding(e)' \subseteq Deciding(e) \ {w},
         Len(accepted'[e]) + Backing(e) <= Len(accepted[e]) + Backing(e)' + 1
  PROVE  Cardinality(Deciding(e)') + Len(accepted'[e]) <= Backing(e)'
<1>1. IsFiniteSet(Deciding(e)) /\ IsFiniteSet(Deciding(e) \ {w})
  BY WorkerSetSize DEF Deciding
<1>2. Cardinality(Deciding(e) \ {w}) = Cardinality(Deciding(e)) - 1
  BY <1>1, FS_RemoveElement
<1>3. Cardinality(Deciding(e)') <= Cardinality(Deciding(e) \ {w})
  BY <1>1, FS_Subset
<1>4. Cardinality(Deciding(e)) + Len(accepted[e]) <= Backing(e)
  BY DEF ClaimsBacked
<1>5. /\ Cardinality(Deciding(e)) \in Nat /\ Len(accepted[e]) \in Nat /\ Backing(e) \in Nat
      /\ Cardinality(Deciding(e)') \in Nat /\ Len(accepted'[e]) \in Nat /\ Backing(e)' \in Nat
  BY CountsTyped, NextCountsTyped
<1>6. Cardinality(Deciding(e) \ {w}) \in Int
  BY <1>2, <1>5
<1>7. QED
  BY <1>2, <1>3, <1>4, <1>5, <1>6

\* A worker that claimed: one more that counts, and one more row.
LEMMA BackedByOneMore ==
  ASSUME TypeInv, TypeInv', ClaimsBacked, NEW e \in EventIds, NEW w \in Workers,
         Deciding(e)' \subseteq Deciding(e) \cup {w},
         accepted'[e] = accepted[e], Backing(e) + 1 <= Backing(e)'
  PROVE  Cardinality(Deciding(e)') + Len(accepted'[e]) <= Backing(e)'
<1>1. IsFiniteSet(Deciding(e)) /\ IsFiniteSet(Deciding(e) \cup {w})
  BY WorkerSetSize DEF Deciding
<1>2. Cardinality(Deciding(e) \cup {w}) <= Cardinality(Deciding(e)) + 1
  BY <1>1, FS_AddElement, FS_CardinalityType
<1>3. Cardinality(Deciding(e)') <= Cardinality(Deciding(e) \cup {w})
  BY <1>1, FS_Subset
<1>4. Cardinality(Deciding(e)) + Len(accepted[e]) <= Backing(e)
  BY DEF ClaimsBacked
<1>5. /\ Cardinality(Deciding(e)) \in Nat /\ Len(accepted[e]) \in Nat /\ Backing(e) \in Nat
      /\ Cardinality(Deciding(e)') \in Nat /\ Backing(e)' \in Nat
      /\ Cardinality(Deciding(e) \cup {w}) \in Nat
  BY <1>1, CountsTyped, NextCountsTyped, FS_CardinalityType
<1>6. QED
  BY <1>2, <1>3, <1>4, <1>5

LEMMA InitBacked == Init => ClaimsBacked
<1> SUFFICES ASSUME Init, NEW e \in EventIds
             PROVE  Cardinality(Deciding(e)) + Len(accepted[e]) <= Backing(e)
  BY DEF ClaimsBacked
<1>1. Deciding(e) = {} /\ Len(accepted[e]) = 0 /\ Backing(e) = 0
  BY DEF Init, StoreInit, Deciding, Backing
<1>2. QED
  BY <1>1, FS_EmptySet

LEMMA NextBacked == TypeInv /\ TypeInv' /\ ClaimsBacked /\ [Next]_vars => ClaimsBacked'
<1> SUFFICES ASSUME TypeInv, TypeInv', ClaimsBacked, [Next]_vars, NEW e \in EventIds
             PROVE  Cardinality(Deciding(e)') + Len(accepted'[e]) <= Backing(e)'
  BY DEF ClaimsBacked
<1> DEFINE Goal == Cardinality(Deciding(e)') + Len(accepted'[e]) <= Backing(e)'
<1>t. /\ pc \in [Workers -> Locations] /\ event \in [Workers -> EventIds \cup {None}]
      /\ payload \in [Workers -> EventPayloads \cup {None}]
      /\ events \in [EventIds -> EventPayloads \cup {None}]
      /\ accepted \in [EventIds -> Seq(EventPayloads)]
      /\ eventPurges \in [EventIds -> Nat]
  BY DEF TypeInv, TypeOK, StoreTypeOK
<1>f. ASSUME UNCHANGED <<events, eventPurges, accepted>>,
             Deciding(e)' \subseteq Deciding(e)
     PROVE  Goal
  <2>1. Backing(e) <= Backing(e)'
    BY <1>f, <1>t DEF Backing
  <2>2. QED
    BY <1>f, <2>1, BackedByLess
<1>g. ASSUME UNCHANGED <<events, eventPurges, accepted>>, NEW w \in Workers, Leave(w)
     PROVE  Goal
  <2>1. Deciding(e)' \subseteq Deciding(e)
    BY <1>g, <1>t DEF Leave, Deciding
  <2>2. QED
    BY <1>f, <1>g, <2>1
<1>1. ASSUME NEW w \in Workers, NEW d \in EventIds, NEW x \in EventPayloads,
             NEW from \in CurrentStates, Ingest(w, d, x, from)
     PROVE  Goal
  <2>1. Deciding(e)' \subseteq Deciding(e)
    BY <1>1, <1>t DEF Ingest, Deciding
  <2>2. QED
    BY <1>1, <1>f, <2>1 DEF Ingest, storeVars, historyVars
<1>2. ASSUME NEW w \in Workers, SelectNone(w) \/ SelectReplay(w) \/ Validate(w)
     PROVE  Goal
  <2>1. Deciding(e)' \subseteq Deciding(e)
    BY <1>2, <1>t DEF SelectNone, SelectReplay, Validate, Select, Goto, Deciding
  <2>2. QED
    BY <1>2, <1>f, <2>1
    DEF SelectNone, SelectReplay, Validate, Select, storeVars, historyVars
<1>3. ASSUME NEW w \in Workers,
             SelectConflict(w) \/ ClaimRaced(w) \/ AnswerReplay(w) \/ StatusUnknown(w)
     PROVE  Goal
  BY <1>3, <1>g
  DEF SelectConflict, ClaimRaced, AnswerReplay, StatusUnknown, Select,
      InsertEventDuplicate, storeVars, historyVars
<1>4. ASSUME NEW w \in Workers, Claim(w) PROVE Goal
  <2>1. event[w] \in EventIds /\ payload[w] \in EventPayloads
    BY <1>4 DEF Claim, TypeInv, LocalsOK
  <2>2. UNCHANGED <<accepted, eventPurges, event>>
    BY <1>4 DEF Claim, Goto, historyVars
  <2>3. CASE e = event[w]
    <3>1. Backing(e) + 1 <= Backing(e)'
      BY <1>4, <1>t, <2>1, <2>2, <2>3, StoreAssumption
      DEF Claim, InsertEvent, EventUnseen, Backing
    <3>2. Deciding(e)' \subseteq Deciding(e) \cup {w}
      BY <1>4, <1>t DEF Claim, Goto, Deciding
    <3>3. QED
      BY <2>2, <3>1, <3>2, BackedByOneMore
  <2>4. CASE e # event[w]
    <3>1. Backing(e) <= Backing(e)'
      BY <1>4, <1>t, <2>1, <2>2, <2>4 DEF Claim, InsertEvent, Backing
    <3>2. Deciding(e)' \subseteq Deciding(e)
      BY <1>4, <1>t, <2>4 DEF Claim, Goto, Deciding
    <3>3. QED
      BY <2>2, <3>1, <3>2, BackedByLess
  <2>5. QED
    BY <2>3, <2>4
<1>5. ASSUME NEW w \in Workers, ReleaseClaim(w) PROVE Goal
  <2>1. event[w] \in EventIds
    BY <1>5 DEF ReleaseClaim, TypeInv, LocalsOK
  <2>2. UNCHANGED <<accepted, eventPurges>>
    BY <1>5 DEF ReleaseClaim, historyVars
  <2>3. CASE e = event[w]
    <3>1. Backing(e) <= Backing(e)' + 1
      BY <1>5, <1>t, <2>1, <2>2, <2>3 DEF ReleaseClaim, AbandonEvent, Backing
    <3>2. w \in Deciding(e) /\ Deciding(e)' \subseteq Deciding(e) \ {w}
      BY <1>5, <1>t, <2>3 DEF ReleaseClaim, Leave, Deciding
    <3>3. Len(accepted'[e]) + Backing(e) <= Len(accepted[e]) + Backing(e)' + 1
      BY <2>2, <3>1, CountsTyped, NextCountsTyped
    <3>4. QED
      BY <3>2, <3>3, BackedByOneLess
  <2>4. CASE e # event[w]
    <3>1. Backing(e) <= Backing(e)'
      BY <1>5, <1>t, <2>1, <2>2, <2>4 DEF ReleaseClaim, AbandonEvent, Backing
    <3>2. Deciding(e)' \subseteq Deciding(e)
      BY <1>5, <1>t DEF ReleaseClaim, Leave, Deciding
    <3>3. QED
      BY <2>2, <3>1, <3>2, BackedByLess
  <2>5. QED
    BY <2>3, <2>4
<1>6. ASSUME NEW w \in Workers, Accept(w) PROVE Goal
  <2>1. event[w] \in EventIds /\ payload[w] \in EventPayloads
    BY <1>6 DEF Accept, TypeInv, LocalsOK
  <2>2. UNCHANGED <<events, eventPurges>>
    BY <1>6 DEF Accept, storeVars
  <2>3. Backing(e)' = Backing(e)
    BY <2>2 DEF Backing
  <2>4. CASE e = event[w]
    <3>1. w \in Deciding(e) /\ Deciding(e)' \subseteq Deciding(e) \ {w}
      BY <1>6, <1>t, <2>4 DEF Accept, Leave, Deciding
    <3>2. Len(accepted'[e]) = Len(accepted[e]) + 1
      BY <1>6, <1>t, <2>1, <2>4 DEF Accept
    <3>3. Len(accepted'[e]) + Backing(e) <= Len(accepted[e]) + Backing(e)' + 1
      BY <2>3, <3>2, CountsTyped, NextCountsTyped
    <3>4. QED
      BY <3>1, <3>3, BackedByOneLess
  <2>5. CASE e # event[w]
    <3>1. accepted'[e] = accepted[e]
      BY <1>6, <1>t, <2>1, <2>5 DEF Accept
    <3>2. Deciding(e)' \subseteq Deciding(e)
      BY <1>6, <1>t DEF Accept, Leave, Deciding
    <3>3. QED
      BY <2>3, <3>1, <3>2, BackedByLess, CountsTyped, NextCountsTyped
  <2>6. QED
    BY <2>4, <2>5
<1>7. CASE OtherReserve
  <2>1. PurgeRest
    BY <1>7 DEF OtherReserve, ReserveExisting, ReserveNew
  <2>2. Backing(e) <= Backing(e)'
    BY <1>7, <1>t, <2>1 DEF OtherReserve, PurgeRest, Backing
  <2>3. Deciding(e)' \subseteq Deciding(e) /\ accepted'[e] = accepted[e]
    BY <1>7 DEF OtherReserve, workerVars, Deciding
  <2>4. QED
    BY <2>2, <2>3, BackedByLess
<1>8. CASE Age
  BY <1>8, <1>f DEF Age, AgeEvent, workerVars, historyVars, Deciding
<1>9. ASSUME NEW p \in Processes, Crash(p) PROVE Goal
  <2>1. Deciding(e)' \subseteq Deciding(e)
    BY <1>9 DEF Crash, Deciding
  <2>2. QED
    BY <1>9, <1>f, <2>1 DEF Crash, storeVars, historyVars
<1>10. CASE UNCHANGED vars
  BY <1>10, <1>f DEF vars, storeVars, workerVars, historyVars, Deciding
<1>11. QED
  BY <1>1, <1>2, <1>3, <1>4, <1>5, <1>6, <1>7, <1>8, <1>9, <1>10 DEF Next, Step

\* A callback takes effect once: racing workers of any processes, redeliveries,
\* rejected attempts and crashes never get an event accepted a second time
\* unless its row was purged in between.
THEOREM EventsAcceptedOnce == Spec => []AcceptedOnce
<1>1. TypeInv /\ ClaimsBacked => AcceptedOnce
  <2> SUFFICES ASSUME TypeInv, ClaimsBacked, NEW e \in EventIds
               PROVE  Len(accepted[e]) <= 1 + eventPurges[e]
    BY DEF AcceptedOnce
  <2>1. Cardinality(Deciding(e)) + Len(accepted[e]) <= Backing(e)
    BY DEF ClaimsBacked
  <2>2. eventPurges[e] \in Nat
    BY DEF TypeInv, TypeOK
  <2>3. Backing(e) <= 1 + eventPurges[e]
    BY <2>2 DEF Backing
  <2>4. QED
    BY <2>1, <2>2, <2>3, CountsTyped, NextCountsTyped
<1>2. Init => TypeInv /\ ClaimsBacked
  BY InitTyped, InitBacked
<1>3. TypeInv /\ ClaimsBacked /\ [Next]_vars => (TypeInv /\ ClaimsBacked)'
  BY NextTyped, NextBacked
<1>4. QED
  BY <1>1, <1>2, <1>3, PTL DEF Spec

-----------------------------------------------------------------------------
(* Every row that a redelivery meets has been decided or is being decided *)

LEMMA InitAccounted == Init => ClaimsAccountedFor
  BY DEF Init, StoreInit, ClaimsAccountedFor

\* The row of e is of an accepted payload or of a claim being decided.
Accounted(e) ==
  \/ \E i \in DOMAIN accepted[e] : accepted[e][i] = events[e]
  \/ \E w \in Deciding(e) : payload[w] = events[e]

\* A step that keeps the row of e, what was accepted of e and whoever decides
\* about its row keeps the row accounted for.
LEMMA AccountedKept ==
  ASSUME NEW e \in EventIds, Accounted(e), events'[e] = events[e],
         accepted'[e] = accepted[e],
         \A w \in Deciding(e) : payload[w] = events[e]
           => w \in Deciding(e)' /\ payload'[w] = payload[w]
  PROVE  Accounted(e)'
<1>1. CASE \E i \in DOMAIN accepted[e] : accepted[e][i] = events[e]
  BY <1>1 DEF Accounted
<1>2. CASE \E w \in Deciding(e) : payload[w] = events[e]
  BY <1>2 DEF Accounted
<1>3. QED
  BY <1>1, <1>2 DEF Accounted

LEMMA NextAccounted == TypeInv /\ ClaimsAccountedFor /\ [Next]_vars => ClaimsAccountedFor'
<1> SUFFICES ASSUME TypeInv, ClaimsAccountedFor, [Next]_vars, NEW e \in EventIds,
                    crashes' = 0, events'[e] # None, StatusOf[events'[e]] # None
             PROVE  Accounted(e)'
  BY DEF ClaimsAccountedFor, Accounted
<1>t. /\ pc \in [Workers -> Locations] /\ event \in [Workers -> EventIds \cup {None}]
      /\ payload \in [Workers -> EventPayloads \cup {None}]
      /\ events \in [EventIds -> EventPayloads \cup {None}]
      /\ accepted \in [EventIds -> Seq(EventPayloads)]
      /\ crashes \in Nat
  BY DEF TypeInv, TypeOK, StoreTypeOK
<1>a. crashes = 0 /\ events'[e] = events[e] => Accounted(e)
  BY DEF ClaimsAccountedFor, Accounted
<1>1. ASSUME NEW w \in Workers, NEW d \in EventIds, NEW x \in EventPayloads,
             NEW from \in CurrentStates, Ingest(w, d, x, from)
     PROVE  Accounted(e)'
  BY <1>1, <1>a, <1>t, AccountedKept DEF Ingest, storeVars, historyVars, Deciding
<1>2. ASSUME NEW w \in Workers, SelectNone(w) \/ SelectReplay(w) \/ Validate(w)
     PROVE  Accounted(e)'
  <2>1. /\ events'[e] = events[e] /\ accepted'[e] = accepted[e] /\ crashes' = crashes
        /\ UNCHANGED <<event, payload>>
    BY <1>2 DEF SelectNone, SelectReplay, Validate, Select, Goto, storeVars, historyVars
  <2>2. Deciding(e) \subseteq Deciding(e)'
    BY <1>2, <1>t DEF SelectNone, SelectReplay, Validate, Select, Goto, Deciding
  <2>3. QED
    BY <1>a, <2>1, <2>2, AccountedKept
<1>3. ASSUME NEW w \in Workers, SelectConflict(w) \/ ClaimRaced(w) \/ AnswerReplay(w)
     PROVE  Accounted(e)'
  <2>1. /\ events'[e] = events[e] /\ accepted'[e] = accepted[e] /\ crashes' = crashes
        /\ pc[w] \in {"select", "insert", "replay"} /\ Leave(w)
    BY <1>3 DEF SelectConflict, ClaimRaced, AnswerReplay, Select, InsertEventDuplicate,
                Leave, storeVars, historyVars
  <2>2. \A v \in Deciding(e) : v \in Deciding(e)' /\ payload'[v] = payload[v]
    BY <1>t, <2>1 DEF Leave, Deciding
  <2>3. QED
    BY <1>a, <2>1, <2>2, AccountedKept
<1>4. ASSUME NEW w \in Workers, StatusUnknown(w) PROVE Accounted(e)'
  <2>1. /\ events'[e] = events[e] /\ accepted'[e] = accepted[e] /\ crashes' = crashes
        /\ payload[w] # events[e]
    BY <1>4 DEF StatusUnknown, Leave, storeVars, historyVars
  <2>2. \A v \in Deciding(e) : payload[v] = events[e]
          => v \in Deciding(e)' /\ payload'[v] = payload[v]
    BY <1>4, <1>t, <2>1 DEF StatusUnknown, Leave, Deciding
  <2>3. QED
    BY <1>a, <2>1, <2>2, AccountedKept
<1>5. ASSUME NEW w \in Workers, Claim(w) PROVE Accounted(e)'
  <2>1. event[w] \in EventIds /\ payload[w] \in EventPayloads
    BY <1>5 DEF Claim, TypeInv, LocalsOK
  <2>2. CASE e = event[w]
    <3>1. events'[e] = payload'[w]
      BY <1>5, <1>t, <2>2 DEF Claim, InsertEvent, Goto
    <3>2. w \in Deciding(e)'
      BY <1>5, <1>t, <2>2 DEF Claim, Goto, Deciding
    <3>3. QED
      BY <3>1, <3>2 DEF Accounted
  <2>3. CASE e # event[w]
    <3>1. /\ events'[e] = events[e] /\ accepted'[e] = accepted[e] /\ crashes' = crashes
          /\ UNCHANGED <<event, payload>>
      BY <1>5, <1>t, <2>1, <2>3 DEF Claim, InsertEvent, Goto, historyVars
    <3>2. Deciding(e) \subseteq Deciding(e)'
      BY <1>5, <1>t DEF Claim, Goto, Deciding
    <3>3. QED
      BY <1>a, <3>1, <3>2, AccountedKept
  <2>4. QED
    BY <2>2, <2>3
<1>6. ASSUME NEW w \in Workers, ReleaseClaim(w) PROVE Accounted(e)'
  <2>1. event[w] \in EventIds
    BY <1>6 DEF ReleaseClaim, TypeInv, LocalsOK
  <2>2. e # event[w]
    BY <1>6, <1>t DEF ReleaseClaim, AbandonEvent
  <2>3. events'[e] = events[e] /\ accepted'[e] = accepted[e] /\ crashes' = crashes
    BY <1>6, <1>t, <2>1, <2>2 DEF ReleaseClaim, AbandonEvent, Leave, historyVars
  <2>4. \A v \in Deciding(e) : v \in Deciding(e)' /\ payload'[v] = payload[v]
    BY <1>6, <1>t, <2>2 DEF ReleaseClaim, Leave, Deciding
  <2>5. QED
    BY <1>a, <2>3, <2>4, AccountedKept
<1>7. ASSUME NEW w \in Workers, Accept(w) PROVE Accounted(e)'
  <2>1. event[w] \in EventIds /\ payload[w] \in EventPayloads
    BY <1>7 DEF Accept, TypeInv, LocalsOK
  <2>2. events'[e] = events[e] /\ crashes' = crashes
    BY <1>7 DEF Accept, Leave, storeVars
  <2>3. Accounted(e)
    BY <1>a, <2>2
  <2>4. CASE e = event[w]
    <3>1. accepted'[e] = Append(accepted[e], payload[w])
      BY <1>7, <1>t, <2>4 DEF Accept
    <3>2. /\ Len(accepted'[e]) = Len(accepted[e]) + 1
          /\ accepted'[e][Len(accepted[e]) + 1] = payload[w]
          /\ \A i \in 1..Len(accepted[e]) : accepted'[e][i] = accepted[e][i]
          /\ accepted'[e] \in Seq(EventPayloads)
      BY <1>t, <2>1, <3>1
    <3>3. /\ DOMAIN accepted[e] = 1..Len(accepted[e])
          /\ DOMAIN accepted'[e] = 1..Len(accepted'[e])
          /\ Len(accepted[e]) \in Nat
      BY <1>t, <3>2
    <3>4. CASE \E i \in DOMAIN accepted[e] : accepted[e][i] = events[e]
      BY <2>2, <3>2, <3>3, <3>4 DEF Accounted
    <3>5. CASE payload[w] = events[e]
      BY <2>2, <3>2, <3>3, <3>5 DEF Accounted
    <3>6. CASE \E v \in Deciding(e) : v # w /\ payload[v] = events[e]
      <4>1. PICK v \in Deciding(e) : v # w /\ payload[v] = events[e]
        BY <3>6
      <4>2. v \in Deciding(e)' /\ payload'[v] = payload[v]
        BY <1>7, <1>t, <4>1 DEF Accept, Leave, Deciding
      <4>3. QED
        BY <2>2, <4>1, <4>2 DEF Accounted
    <3>7. QED
      BY <2>3, <3>4, <3>5, <3>6 DEF Accounted
  <2>5. CASE e # event[w]
    <3>1. accepted'[e] = accepted[e]
      BY <1>7, <1>t, <2>1, <2>5 DEF Accept
    <3>2. \A v \in Deciding(e) : v \in Deciding(e)' /\ payload'[v] = payload[v]
      BY <1>7, <1>t, <2>5 DEF Accept, Leave, Deciding
    <3>3. QED
      BY <2>2, <2>3, <3>1, <3>2, AccountedKept
  <2>6. QED
    BY <2>4, <2>5
<1>8. CASE OtherReserve
  <2>1. events' = [d \in EventIds |-> IF d \in overdueEvents THEN None ELSE events[d]]
    BY <1>8 DEF OtherReserve, ReserveExisting, ReserveNew, PurgeRest
  <2>2. events'[e] = events[e]
    BY <2>1
  <2>3. QED
    BY <1>8, <1>a, <2>2, AccountedKept DEF OtherReserve, workerVars, Deciding
<1>9. CASE Age
  BY <1>9, <1>a, AccountedKept DEF Age, AgeEvent, workerVars, historyVars, Deciding
<1>10. ASSUME NEW p \in Processes, Crash(p) PROVE FALSE
  BY <1>10, <1>t DEF Crash
<1>11. CASE UNCHANGED vars
  BY <1>11, <1>a, AccountedKept DEF vars, storeVars, workerVars, historyVars, Deciding
<1>12. QED
  BY <1>1, <1>2, <1>3, <1>4, <1>5, <1>6, <1>7, <1>8, <1>9, <1>10, <1>11 DEF Next, Step

\* While no process crashed, a row that a redelivery is answered from is the row
\* of an accepted payload, of a claim still being decided, or of a payload with
\* a status the service does not know, whatever the unconditional DELETE of a
\* release and the purges did to the table in between.
THEOREM RejectedCallbacksRetry == Spec => []ClaimsAccountedFor
  BY InitTyped, NextTyped, InitAccounted, NextAccounted, PTL DEF Spec

-----------------------------------------------------------------------------
(* What an answer "replayed" can rest on *)

\* Every status is known and every callback is a legal transition from every
\* state callers pass.
NoneRejected ==
  \A x \in EventPayloads, from \in CurrentStates :
    StatusOf[x] # None /\ ValidTransition(from, StatusOf[x])

\* The event was accepted or is still being decided.
Handled(e) == accepted[e] # <<>> \/ Deciding(e) # {}

\* No callback was refused.
Unrefused ==
  \A w \in Workers : pc[w] # "release" /\ (pc[w] # "idle" => current[w] \in CurrentStates)

\* The event was answered as a replay, or a worker is about to.
Answered(e) == e \in replayed \/ \E w \in Workers : pc[w] = "replay" /\ event[w] = e

ReplaysHandled == crashes = 0 => \A e \in EventIds : Answered(e) => Handled(e)

LEMMA NextUnrefused ==
  ASSUME NoneRejected, TypeInv, Unrefused, [Next]_vars
  PROVE  Unrefused'
<1>t. /\ pc \in [Workers -> Locations]
      /\ current \in [Workers -> SettlementStates \cup {None}]
  BY DEF TypeInv, TypeOK
<1>1. ASSUME NEW w \in Workers, NEW e \in EventIds, NEW x \in EventPayloads,
             NEW from \in CurrentStates, Ingest(w, e, x, from)
      PROVE  Unrefused'
  BY <1>1, <1>t DEF Ingest, Unrefused
<1>2. ASSUME NEW w \in Workers, SelectNone(w) \/ SelectReplay(w) \/ Claim(w)
      PROVE  Unrefused'
  BY <1>2, <1>t DEF SelectNone, SelectReplay, Claim, Select, Goto, Unrefused
<1>3. ASSUME NEW w \in Workers, Validate(w) PROVE Unrefused'
  <2>1. payload[w] \in EventPayloads /\ current[w] \in CurrentStates
    BY <1>3 DEF Validate, TypeInv, LocalsOK, Unrefused
  <2>2. Goto(w, "accept")
    BY <1>3, <2>1 DEF Validate, NoneRejected
  <2>3. QED
    BY <1>t, <2>1, <2>2 DEF Goto, Unrefused
<1>4. ASSUME NEW w \in Workers, Leave(w) PROVE Unrefused'
  BY <1>4, <1>t DEF Leave, Unrefused
<1>5. ASSUME NEW p \in Processes, Crash(p) PROVE Unrefused'
  BY <1>5, <1>t DEF Crash, Unrefused
<1>6. ASSUME UNCHANGED workerVars PROVE Unrefused'
  BY <1>6 DEF workerVars, Unrefused
<1>7. ASSUME NEW w \in Workers, Step(w)
      PROVE  Leave(w) \/ SelectNone(w) \/ SelectReplay(w) \/ Claim(w) \/ Validate(w)
  BY <1>7 DEF Step, SelectConflict, ClaimRaced, AnswerReplay, StatusUnknown, ReleaseClaim,
              Accept
<1>8. OtherReserve \/ Age \/ UNCHANGED vars => UNCHANGED workerVars
  BY DEF OtherReserve, Age, vars
<1>9. QED
  BY <1>1, <1>2, <1>3, <1>4, <1>5, <1>6, <1>7, <1>8 DEF Next

\* Where nothing is refused and no process crashes, who decides accepts.
LEMMA HandledStays ==
  ASSUME NoneRejected, TypeInv, Unrefused, [Next]_vars, crashes' = 0,
         NEW e \in EventIds, Handled(e)
  PROVE  Handled(e)'
<1>t. /\ pc \in [Workers -> Locations] /\ event \in [Workers -> EventIds \cup {None}]
      /\ payload \in [Workers -> EventPayloads \cup {None}]
      /\ accepted \in [EventIds -> Seq(EventPayloads)]
      /\ crashes \in Nat
  BY DEF TypeInv, TypeOK
\* Who was deciding is not the worker that moves, or decides on.
<1>k. ASSUME accepted' = accepted,
             \A v \in Deciding(e) : event'[v] = event[v]
                                    /\ pc'[v] \in {"validate", "release", "accept"}
      PROVE  Handled(e)'
  <2>1. Deciding(e) \subseteq Deciding(e)'
    BY <1>k DEF Deciding
  <2>2. QED
    BY <1>k, <2>1 DEF Handled
<1>1. ASSUME NEW w \in Workers, NEW d \in EventIds, NEW x \in EventPayloads,
             NEW from \in CurrentStates, Ingest(w, d, x, from)
      PROVE  Handled(e)'
  BY <1>1, <1>k, <1>t DEF Ingest, historyVars, Deciding
<1>2. ASSUME NEW w \in Workers,
             SelectNone(w) \/ SelectReplay(w) \/ Claim(w) \/ Validate(w)
      PROVE  Handled(e)'
  <2>1. accepted' = accepted /\ UNCHANGED event
    BY <1>2 DEF SelectNone, SelectReplay, Claim, Validate, Goto, historyVars
  <2>2. \A v \in Deciding(e) : pc'[v] \in {"validate", "release", "accept"}
    BY <1>2, <1>t DEF SelectNone, SelectReplay, Claim, Validate, Select, Goto, Deciding
  <2>3. QED
    BY <1>k, <2>1, <2>2
<1>3. ASSUME NEW w \in Workers, SelectConflict(w) \/ ClaimRaced(w) \/ AnswerReplay(w)
      PROVE  Handled(e)'
  <2>1. accepted' = accepted /\ pc[w] \in {"select", "insert", "replay"} /\ Leave(w)
    BY <1>3 DEF SelectConflict, ClaimRaced, AnswerReplay, Select, historyVars
  <2>2. QED
    BY <1>k, <1>t, <2>1 DEF Leave, Deciding
<1>4. ASSUME NEW w \in Workers, StatusUnknown(w) \/ ReleaseClaim(w) PROVE FALSE
  <2>1. pc[w] = "validate" => payload[w] \in EventPayloads /\ current[w] \in CurrentStates
    BY DEF TypeInv, LocalsOK, Unrefused
  <2>2. QED
    BY <1>4, <2>1 DEF StatusUnknown, ReleaseClaim, NoneRejected, Unrefused
<1>5. ASSUME NEW w \in Workers, Accept(w) PROVE Handled(e)'
  <2>1. /\ event[w] \in EventIds /\ payload[w] \in EventPayloads
        /\ accepted' = [accepted EXCEPT ![event[w]] = Append(@, payload[w])]
    BY <1>5 DEF Accept, TypeInv, LocalsOK
  <2>2. CASE event[w] = e
    <3>1. accepted'[e] = Append(accepted[e], payload[w])
      BY <1>t, <2>1, <2>2
    <3>2. accepted[e] \in Seq(EventPayloads)
      BY <1>t
    <3>3. accepted'[e] # <<>>
      BY <2>1, <3>1, <3>2
    <3>4. QED
      BY <3>3 DEF Handled
  <2>3. CASE event[w] # e
    <3>1. accepted'[e] = accepted[e]
      BY <1>t, <2>1, <2>3
    <3>2. \A v \in Deciding(e) : v \in Deciding(e)'
      BY <1>5, <1>t, <2>3 DEF Accept, Leave, Deciding
    <3>3. QED
      BY <3>1, <3>2 DEF Handled
  <2>4. QED
    BY <2>2, <2>3
<1>6. ASSUME NEW p \in Processes, Crash(p) PROVE FALSE
  BY <1>6, <1>t DEF Crash
<1>7. CASE OtherReserve \/ Age \/ UNCHANGED vars
  BY <1>7, <1>k DEF OtherReserve, Age, vars, workerVars, historyVars, Deciding
<1>8. QED
  BY <1>1, <1>2, <1>3, <1>4, <1>5, <1>6, <1>7 DEF Next, Step

\* Only a SELECT that finds the row of the same payload starts a replay.
LEMMA AnswersArise ==
  ASSUME TypeInv, [Next]_vars, NEW e \in EventIds, Answered(e)', crashes' = 0
  PROVE  Answered(e) \/ \E w \in Workers : SelectReplay(w) /\ event[w] = e
<1>t. /\ pc \in [Workers -> Locations] /\ event \in [Workers -> EventIds \cup {None}]
      /\ crashes \in Nat
  BY DEF TypeInv, TypeOK
<1>1. ASSUME NEW w \in Workers, NEW d \in EventIds, NEW x \in EventPayloads,
             NEW from \in CurrentStates, Ingest(w, d, x, from)
      PROVE  Answered(e)
  BY <1>1, <1>t DEF Ingest, historyVars, Answered
<1>2. ASSUME NEW w \in Workers, SelectNone(w) \/ Claim(w) \/ Validate(w)
      PROVE  Answered(e)
  BY <1>2, <1>t DEF SelectNone, Claim, Validate, Goto, historyVars, Answered
<1>3. ASSUME NEW w \in Workers,
             \/ SelectConflict(w) \/ ClaimRaced(w) \/ StatusUnknown(w) \/ ReleaseClaim(w)
             \/ Accept(w)
      PROVE  Answered(e)
  <2>1. Leave(w) /\ UNCHANGED replayed
    BY <1>3 DEF SelectConflict, ClaimRaced, StatusUnknown, ReleaseClaim, Accept, historyVars
  <2>2. QED
    BY <1>t, <2>1 DEF Leave, Answered
<1>4. ASSUME NEW w \in Workers, AnswerReplay(w) PROVE Answered(e)
  BY <1>4, <1>t DEF AnswerReplay, Leave, Answered
<1>5. ASSUME NEW w \in Workers, SelectReplay(w), event[w] # e PROVE Answered(e)
  BY <1>5, <1>t DEF SelectReplay, Goto, historyVars, Answered
<1>6. ASSUME NEW p \in Processes, Crash(p) PROVE FALSE
  BY <1>6, <1>t DEF Crash
<1>7. CASE OtherReserve \/ Age \/ UNCHANGED vars
  BY <1>7 DEF OtherReserve, Age, vars, workerVars, historyVars, Answered
<1>8. QED
  BY <1>1, <1>2, <1>3, <1>4, <1>5, <1>6, <1>7 DEF Next, Step

LEMMA NextReplays ==
  ASSUME NoneRejected, TypeInv, Unrefused, ClaimsAccountedFor, ReplaysHandled,
         [Next]_vars
  PROVE  ReplaysHandled'
<1> SUFFICES ASSUME crashes' = 0, NEW e \in EventIds, Answered(e)' PROVE Handled(e)'
  BY DEF ReplaysHandled
<1>0. crashes = 0
  <2>1. crashes \in Nat
    BY DEF TypeInv, TypeOK
  <2>2. QED
    BY <2>1 DEF Next, Ingest, Step, SelectNone, SelectReplay, SelectConflict, Claim,
                ClaimRaced, AnswerReplay, StatusUnknown, Validate, ReleaseClaim, Accept,
                Goto, Leave, Crash, OtherReserve, Age, vars
<1>1. CASE Answered(e)
  BY <1>0, <1>1, HandledStays DEF ReplaysHandled
<1>2. ASSUME NEW w \in Workers, SelectReplay(w), event[w] = e PROVE Handled(e)'
  <2>1. payload[w] \in EventPayloads /\ events[e] = payload[w]
    BY <1>2 DEF SelectReplay, Select, TypeInv, LocalsOK
  <2>2. events[e] # None /\ StatusOf[events[e]] # None
    <3>1. payload[w] # None
      BY <2>1, StoreAssumption
    <3>2. \E from \in CurrentStates : TRUE
      BY <1>2 DEF SelectReplay, Select, Unrefused
    <3>3. QED
      BY <2>1, <3>1, <3>2 DEF NoneRejected
  <2>3. Handled(e)
    <3>1. \/ \E i \in DOMAIN accepted[e] : accepted[e][i] = events[e]
          \/ \E v \in Deciding(e) : payload[v] = events[e]
      BY <1>0, <2>2 DEF ClaimsAccountedFor
    <3>2. QED
      BY <3>1 DEF Handled
  <2>4. QED
    BY <2>3, HandledStays
<1>3. QED
  BY <1>1, <1>2, AnswersArise

\* "Replayed" means what the checklist says wherever nothing else went wrong:
\* if every callback delivered is a known, legal transition, then, while no
\* process crashed, an event answered as an identical replay was accepted or is
\* still being decided, whatever processes race on the claim and however often
\* its row was purged.
THEOREM ReplaysOfLegalCallbacks ==
  NoneRejected /\ Spec => [](crashes = 0 => ReplayedWasAccepted)
<1> SUFFICES ASSUME NoneRejected PROVE Spec => [](crashes = 0 => ReplayedWasAccepted)
  OBVIOUS
<1> DEFINE Inv == TypeInv /\ Unrefused /\ ClaimsAccountedFor /\ ReplaysHandled
<1>1. Init => Inv
  <2>1. Init => Unrefused /\ ReplaysHandled
    BY DEF Init, Unrefused, ReplaysHandled, Answered
  <2>2. QED
    BY <2>1, InitTyped, InitAccounted
<1>2. Inv /\ [Next]_vars => Inv'
  BY NextTyped, NextUnrefused, NextAccounted, NextReplays
<1>3. Inv => (crashes = 0 => ReplayedWasAccepted)
  BY DEF ReplaysHandled, ReplayedWasAccepted, Answered, Handled, TypeInv, TypeOK
<1> HIDE DEF Inv
<1>4. QED
  BY <1>1, <1>2, <1>3, PTL DEF Spec
=============================================================================
