---------------------------- MODULE ProviderEvents ----------------------------
(***************************************************************************)
(* DisbursementManager.ingest_provider_event                               *)
(* (src/domain/wallet/disbursement_manager.py) with the settlement         *)
(* transition rules of settlement.py: provider callbacks are claimed in    *)
(* the provider_events table, validated, and accepted or released.  claim  *)
(* is a SELECT and an INSERT that only the store's per-process lock keeps  *)
(* together, so workers of two processes race on the primary key.          *)
(***************************************************************************)
EXTENDS IdempotencyStore, Sequences, FiniteSets

CONSTANTS
  Workers,        \* threads that ingest callbacks
  Processes,      \* service processes, each with its own store lock
  ProcessOf,      \* the process a worker belongs to
  StatusOf,       \* the status field of a payload; None: missing or unknown
  CurrentStates,  \* settlement states callers pass as current_state
  MaxCalls,       \* bound: callbacks ingested
  MaxCrashes      \* bound: process crashes

VARIABLES
  pc, event, payload, current,  \* each worker's place and arguments
  calls, crashes,               \* the bounded counters
  accepted,                     \* history: PROVIDER_EVENT_ACCEPTED, per event
  replayed,                     \* history: events answered as a replay
  eventPurges                   \* history: how often an event row was purged

workerVars == <<pc, event, payload, current>>
historyVars == <<accepted, replayed, eventPurges>>
vars == <<storeVars, workerVars, calls, crashes, historyVars>>

-----------------------------------------------------------------------------
(* Settlement states *)

SettlementStates ==
  {"pending", "processing", "completed", "failed", "reversed", "manual_review"}

AllowedTransitions ==
  [pending       |-> {"processing", "failed", "manual_review"},
   processing    |-> {"completed", "failed", "manual_review"},
   completed     |-> {"reversed"},
   failed        |-> {"pending", "manual_review"},
   reversed      |-> {},
   manual_review |-> {"pending", "completed", "failed", "reversed"}]

\* validate_settlement_transition; a repeated state is allowed only if listed.
ValidTransition(from, to) == to \in AllowedTransitions[from]

ASSUME EventAssumption ==
  /\ MaxCalls \in Nat /\ MaxCrashes \in Nat
  /\ IsFiniteSet(Workers)
  /\ ProcessOf \in [Workers -> Processes]
  /\ StatusOf \in [EventPayloads -> SettlementStates \cup {None}]
  /\ CurrentStates \subseteq SettlementStates

Locations == {"idle", "select", "insert", "replay", "validate", "release", "accept"}

TypeOK ==
  /\ StoreTypeOK({})
  /\ pc \in [Workers -> Locations]
  /\ event \in [Workers -> EventIds \cup {None}]
  /\ payload \in [Workers -> EventPayloads \cup {None}]
  /\ current \in [Workers -> SettlementStates \cup {None}]
  /\ calls \in 0..MaxCalls
  /\ crashes \in 0..MaxCrashes
  /\ accepted \in [EventIds -> Seq(EventPayloads)]
  /\ replayed \in SUBSET EventIds
  /\ eventPurges \in [EventIds -> Nat]

Init ==
  /\ StoreInit
  /\ pc = [w \in Workers |-> "idle"]
  /\ event = [w \in Workers |-> None]
  /\ payload = [w \in Workers |-> None]
  /\ current = [w \in Workers |-> None]
  /\ calls = 0 /\ crashes = 0
  /\ accepted = [e \in EventIds |-> <<>>]
  /\ replayed = {}
  /\ eventPurges = [e \in EventIds |-> 0]

-----------------------------------------------------------------------------
(* Steps of a worker *)

Goto(w, l) ==
  /\ pc' = [pc EXCEPT ![w] = l]
  /\ UNCHANGED <<event, payload, current, calls, crashes>>

Leave(w) ==
  /\ pc' = [pc EXCEPT ![w] = "idle"]
  /\ event' = [event EXCEPT ![w] = None]
  /\ payload' = [payload EXCEPT ![w] = None]
  /\ current' = [current EXCEPT ![w] = None]
  /\ UNCHANGED <<calls, crashes>>

\* The store's RLock: held between the SELECT and the INSERT of a claim.
LockFree(p) == \A v \in Workers : ProcessOf[v] = p => pc[v] # "insert"

Ingest(w, e, x, from) ==
  /\ pc[w] = "idle"
  /\ calls < MaxCalls
  /\ calls' = calls + 1
  /\ pc' = [pc EXCEPT ![w] = "select"]
  /\ event' = [event EXCEPT ![w] = e]
  /\ payload' = [payload EXCEPT ![w] = x]
  /\ current' = [current EXCEPT ![w] = from]
  /\ UNCHANGED <<storeVars, crashes, historyVars>>

Select(w) == pc[w] = "select" /\ LockFree(ProcessOf[w]) /\ UNCHANGED storeVars

SelectNone(w) ==
  /\ Select(w)
  /\ EventUnseen(event[w])
  /\ Goto(w, "insert")
  /\ UNCHANGED historyVars

SelectReplay(w) ==
  /\ Select(w)
  /\ events[event[w]] = payload[w]
  /\ Goto(w, "replay")
  /\ UNCHANGED historyVars

\* ProviderEventConflictError
SelectConflict(w) ==
  /\ Select(w)
  /\ events[event[w]] \notin {None, payload[w]}
  /\ Leave(w)
  /\ UNCHANGED historyVars

Claim(w) ==
  /\ pc[w] = "insert"
  /\ InsertEvent(event[w], payload[w])
  /\ Goto(w, "validate")
  /\ UNCHANGED historyVars

\* Another process inserted first: sqlite3.IntegrityError
ClaimRaced(w) ==
  /\ pc[w] = "insert"
  /\ InsertEventDuplicate(event[w])
  /\ Leave(w)
  /\ UNCHANGED historyVars

AnswerReplay(w) ==
  /\ pc[w] = "replay"
  /\ replayed' = replayed \cup {event[w]}
  /\ Leave(w)
  /\ UNCHANGED <<storeVars, accepted, eventPurges>>

\* SettlementState(payload["status"]) raises before the try block.
StatusUnknown(w) ==
  /\ pc[w] = "validate"
  /\ StatusOf[payload[w]] = None
  /\ Leave(w)
  /\ UNCHANGED <<storeVars, historyVars>>

Validate(w) ==
  /\ pc[w] = "validate"
  /\ StatusOf[payload[w]] # None
  /\ Goto(w, IF ValidTransition(current[w], StatusOf[payload[w]])
             THEN "accept" ELSE "release")
  /\ UNCHANGED <<storeVars, historyVars>>

\* Mutant: a rejected callback keeps its claim.
ReleaseClaimKeeps(w) ==
  /\ pc[w] = "release"
  /\ LockFree(ProcessOf[w])
  /\ Leave(w)
  /\ UNCHANGED <<storeVars, historyVars>>

ReleaseClaim(w) ==
  /\ pc[w] = "release"
  /\ LockFree(ProcessOf[w])
  /\ AbandonEvent(event[w])
  /\ Leave(w)
  /\ UNCHANGED historyVars

\* Mutant: the status is recorded in place of the payload.
AcceptStatus(w) ==
  /\ pc[w] = "accept"
  /\ accepted' = [accepted EXCEPT ![event[w]] = Append(@, StatusOf[payload[w]])]
  /\ Leave(w)
  /\ UNCHANGED <<storeVars, replayed, eventPurges>>

Accept(w) ==
  /\ pc[w] = "accept"
  /\ accepted' = [accepted EXCEPT ![event[w]] = Append(@, payload[w])]
  /\ Leave(w)
  /\ UNCHANGED <<storeVars, replayed, eventPurges>>

-----------------------------------------------------------------------------
(* The environment *)

\* Any disburse_float reserves a key and thereby purges overdue callbacks.
OtherReserve ==
  /\ \E s \in Slots, x \in Payloads : ReserveExisting(s, x) \/ ReserveNew(s, x)
  /\ eventPurges' = [e \in EventIds |-> IF e \in overdueEvents
                                        THEN eventPurges[e] + 1 ELSE eventPurges[e]]
  /\ UNCHANGED <<workerVars, calls, crashes, accepted, replayed>>

Age ==
  /\ \E e \in EventIds : AgeEvent(e)
  /\ UNCHANGED <<workerVars, calls, crashes, historyVars>>

Crash(p) ==
  LET survives(w) == ProcessOf[w] # p
  IN  /\ crashes < MaxCrashes /\ crashes' = crashes + 1
      /\ pc' = [w \in Workers |-> IF survives(w) THEN pc[w] ELSE "idle"]
      /\ event' = [w \in Workers |-> IF survives(w) THEN event[w] ELSE None]
      /\ payload' = [w \in Workers |-> IF survives(w) THEN payload[w] ELSE None]
      /\ current' = [w \in Workers |-> IF survives(w) THEN current[w] ELSE None]
      /\ UNCHANGED <<storeVars, calls, historyVars>>

Step(w) ==
  \/ SelectNone(w) \/ SelectReplay(w) \/ SelectConflict(w)
  \/ Claim(w) \/ ClaimRaced(w) \/ AnswerReplay(w)
  \/ StatusUnknown(w) \/ Validate(w) \/ ReleaseClaim(w) \/ Accept(w)

Next ==
  \/ \E w \in Workers, e \in EventIds, x \in EventPayloads, from \in CurrentStates :
       Ingest(w, e, x, from)
  \/ \E w \in Workers : Step(w)
  \/ \E p \in Processes : Crash(p)
  \/ OtherReserve
  \/ Age

Spec == Init /\ [][Next]_vars

-----------------------------------------------------------------------------
(* Properties *)

\* A callback takes effect once: racing workers of any processes, redeliveries,
\* rejected attempts and crashes never get an event accepted a second time
\* unless its row was purged in between.
AcceptedOnce ==
  \A e \in EventIds : Len(accepted[e]) <= 1 + eventPurges[e]

\* Workers that claimed e and have not decided about it.
Deciding(e) ==
  {w \in Workers : event[w] = e /\ pc[w] \in {"validate", "release", "accept"}}

\* A callback that failed validation can be delivered again: while no process
\* crashed, a row whose status the service knows is the row of an accepted
\* payload or of a claim that is still being decided, whatever purges, racing
\* claims and releases of other workers did to it.
ClaimsAccountedFor ==
  \A e \in EventIds :
    crashes = 0 /\ events[e] # None /\ StatusOf[events[e]] # None =>
      \/ \E i \in DOMAIN accepted[e] : accepted[e][i] = events[e]
      \/ \E w \in Deciding(e) : payload[w] = events[e]

\* The checklist's "unknown ... settlement states have explicit retry and
\* operator-handling outcomes": a delivery answered as an identical replay
\* repeats an event that was accepted or that is still being decided.
ReplayedWasAccepted ==
  \A e \in replayed : accepted[e] # <<>> \/ Deciding(e) # {}
=============================================================================
