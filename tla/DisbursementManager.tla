-------------------------- MODULE DisbursementManager --------------------------
(***************************************************************************)
(* DisbursementManager.disburse_float                                      *)
(* (src/domain/wallet/disbursement_manager.py) run by several workers of   *)
(* several processes that share one idempotency database.  A call is       *)
(*                                                                         *)
(*   reserve -> adapter lookup -> provider effect -> complete -> record    *)
(*                                                                         *)
(* and every arrow is a point where another worker may run, the process    *)
(* may crash, or SQLite may raise "database is locked".  The adapters'     *)
(* idempotency dictionaries and the audit log live in process memory; the  *)
(* store and the money moved at the provider survive a crash.              *)
(***************************************************************************)
EXTENDS IdempotencyStore, Sequences, FiniteSets

CONSTANTS
  Workers,       \* threads that call disburse_float
  Processes,     \* service processes, each with its own manager and adapters
  ProcessOf,     \* the process a worker belongs to
  CardPayloads,  \* payloads whose channel is VIRTUAL_CARD; others are mobile/ACH
  MaxCalls,      \* bound: calls of disburse_float
  MaxCrashes,    \* bound: process crashes
  MaxBusy        \* bound: store statements that raise OperationalError

ASSUME ManagerAssumption ==
  /\ MaxCalls \in Nat /\ MaxCrashes \in Nat /\ MaxBusy \in Nat
  /\ IsFiniteSet(Workers)
  /\ ProcessOf \in [Workers -> Processes]
  /\ CardPayloads \subseteq Payloads

VARIABLES
  pc,       \* where each worker is in disburse_float
  slot,     \* its request's (tenant_id, idempotency_key)
  payload,  \* its request's payload
  call,     \* its disbursement_id
  result,   \* the adapter's answer, or the stored result it reuses
  adapter,  \* per process and channel: the adapter's idempotency dictionary
  audit,    \* per process: the events of the in-memory WORM audit log
  trail,    \* per process: _results and _audit_trail
  calls, crashes, busy,  \* the bounded counters
  issued,   \* history: payloads of the effects made at the provider, per slot
  answers   \* history: results returned to callers, per slot

-----------------------------------------------------------------------------
(* Values *)

ResultStatuses == {"completed", "failed"}

\* A FloatDisbursementResult: the disbursement_id of the call that built it,
\* the provider effect it reports (0: none) and its status.
Result == [call : 1..MaxCalls, effect : Nat, status : ResultStatuses]

ASSUME NoneAssumption == None \notin Slots \cup Payloads \cup Result

Channels == {"card", "mobile"}

ChannelOf(x) == IF x \in CardPayloads THEN "card" ELSE "mobile"

\* An entry of CardIssuerAdapter._issued_cards or MobileMoneyAdapter._disbursements.
AdapterEntry == [effect : Nat, status : ResultStatuses]

NoEntry == [effect |-> 0, status |-> "none"]

AuditTypes == {"DISBURSEMENT_IDEMPOTENCY_CONFLICT", "DISBURSEMENT_RESULT_REUSED",
               "DISBURSEMENT_DOWNSTREAM_FAILURE", "DISBURSEMENT_CANONICAL_RESULT"}

AuditEvent == [type : AuditTypes, slot : Slots, call : 1..MaxCalls]

\* Points of disburse_float; "idle" is outside it.
Locations == {"idle", "reserve", "conflict", "reuse", "lookup", "issue",
              "abandon", "auditFailure", "complete", "record"}

workerVars == <<pc, slot, payload, call, result>>
memoryVars == <<adapter, audit, trail>>
boundVars == <<calls, crashes, busy>>
historyVars == <<issued, answers>>
vars == <<storeVars, workerVars, memoryVars, boundVars, historyVars>>

TypeOK ==
  /\ StoreTypeOK(Result)
  /\ pc \in [Workers -> Locations]
  /\ slot \in [Workers -> Slots \cup {None}]
  /\ payload \in [Workers -> Payloads \cup {None}]
  /\ call \in [Workers -> 0..MaxCalls]
  /\ result \in [Workers -> Result \cup {None}]
  /\ adapter \in [Processes -> [Channels -> [Slots -> AdapterEntry \cup {NoEntry}]]]
  /\ audit \in [Processes -> SUBSET AuditEvent]
  /\ trail \in [Processes -> SUBSET (Slots \X Result)]
  /\ calls \in 0..MaxCalls
  /\ crashes \in 0..MaxCrashes
  /\ busy \in 0..MaxBusy
  /\ issued \in [Slots -> Seq(Payloads)]
  /\ answers \in [Slots -> SUBSET [payload : Payloads, result : Result]]

EmptyAdapters == [c \in Channels |-> [s \in Slots |-> NoEntry]]

Init ==
  /\ StoreInit
  /\ pc = [w \in Workers |-> "idle"]
  /\ slot = [w \in Workers |-> None]
  /\ payload = [w \in Workers |-> None]
  /\ call = [w \in Workers |-> 0]
  /\ result = [w \in Workers |-> None]
  /\ adapter = [p \in Processes |-> EmptyAdapters]
  /\ audit = [p \in Processes |-> {}]
  /\ trail = [p \in Processes |-> {}]
  /\ calls = 0 /\ crashes = 0 /\ busy = 0
  /\ issued = [s \in Slots |-> <<>>]
  /\ answers = [s \in Slots |-> {}]

-----------------------------------------------------------------------------
(* Steps of a worker *)

Goto(w, l) == pc' = [pc EXCEPT ![w] = l]

At(w, l) == pc[w] = l

\* The call ends, by return or by an exception, and its locals are gone.
Leave(w) ==
  /\ pc' = [pc EXCEPT ![w] = "idle"]
  /\ slot' = [slot EXCEPT ![w] = None]
  /\ payload' = [payload EXCEPT ![w] = None]
  /\ call' = [call EXCEPT ![w] = 0]
  /\ result' = [result EXCEPT ![w] = None]

AppendEvent(w, type) ==
  audit' = [audit EXCEPT ![ProcessOf[w]] =
              @ \cup {[type |-> type, slot |-> slot[w], call |-> call[w]]}]

Answer(w) ==
  answers' = [answers EXCEPT ![slot[w]] =
                @ \cup {[payload |-> payload[w], result |-> result[w]]}]

\* disburse_float is entered with a request; the fingerprint is computed.
Call(w, s, x) ==
  /\ At(w, "idle")
  /\ calls < MaxCalls
  /\ calls' = calls + 1
  /\ Goto(w, "reserve")
  /\ slot' = [slot EXCEPT ![w] = s]
  /\ payload' = [payload EXCEPT ![w] = x]
  /\ call' = [call EXCEPT ![w] = calls + 1]
  /\ UNCHANGED <<storeVars, result, memoryVars, crashes, busy, historyVars>>

\* get_or_reserve() inserted the row: this worker owns the key.
ReserveOwned(w) ==
  /\ At(w, "reserve")
  /\ ReserveNew(slot[w], payload[w])
  /\ Goto(w, "lookup")
  /\ UNCHANGED <<slot, payload, call, result, memoryVars, boundVars, historyVars>>

\* get_or_reserve() raised IdempotencyConflictError.
ReserveRefused(w) ==
  /\ At(w, "reserve")
  /\ ReserveConflict(slot[w], payload[w])
  /\ Goto(w, "conflict")
  /\ UNCHANGED <<slot, payload, call, result, memoryVars, boundVars, historyVars>>

\* get_or_reserve() returned a row: in flight (IdempotencyInProgressError) or
\* terminal, whose result is reused.
ReserveInFlight(w) ==
  /\ At(w, "reserve")
  /\ ReserveExisting(slot[w], payload[w])
  /\ records[slot[w]].status = "in_progress"
  /\ Leave(w)
  /\ UNCHANGED <<memoryVars, boundVars, historyVars>>

\* Mutant: a row in flight is not told from a terminal one.
ReserveTerminalUnchecked(w) ==
  /\ At(w, "reserve")
  /\ ReserveExisting(slot[w], payload[w])
  /\ result' = [result EXCEPT ![w] = records[slot[w]].result]
  /\ Goto(w, "reuse")
  /\ UNCHANGED <<slot, payload, call, memoryVars, boundVars, historyVars>>

ReserveTerminal(w) ==
  /\ At(w, "reserve")
  /\ ReserveExisting(slot[w], payload[w])
  /\ records[slot[w]].status # "in_progress"
  /\ result' = [result EXCEPT ![w] = records[slot[w]].result]
  /\ Goto(w, "reuse")
  /\ UNCHANGED <<slot, payload, call, memoryVars, boundVars, historyVars>>

\* BEGIN IMMEDIATE raised OperationalError: handled like a conflict.
ReserveBusy(w) ==
  /\ At(w, "reserve")
  /\ busy < MaxBusy /\ busy' = busy + 1
  /\ Goto(w, "conflict")
  /\ UNCHANGED <<storeVars, slot, payload, call, result, memoryVars,
                 calls, crashes, historyVars>>

AuditConflict(w) ==
  /\ At(w, "conflict")
  /\ AppendEvent(w, "DISBURSEMENT_IDEMPOTENCY_CONFLICT")
  /\ Leave(w)
  /\ UNCHANGED <<storeVars, adapter, trail, boundVars, historyVars>>

ReuseResult(w) ==
  /\ At(w, "reuse")
  /\ AppendEvent(w, "DISBURSEMENT_RESULT_REUSED")
  /\ Answer(w)
  /\ Leave(w)
  /\ UNCHANGED <<storeVars, adapter, trail, boundVars, issued>>

-----------------------------------------------------------------------------
(* The adapters: create_virtual_card() and disburse() look their dictionary *)
(* up and, on a miss, execute and insert; no lock covers the two.           *)

EntryOf(w) == adapter[ProcessOf[w]][ChannelOf(payload[w])][slot[w]]

BuildResult(w, entry) ==
  result' = [result EXCEPT ![w] = [call |-> call[w], effect |-> entry.effect,
                                   status |-> entry.status]]

AdapterHit(w) ==
  /\ At(w, "lookup")
  /\ EntryOf(w) # NoEntry
  /\ BuildResult(w, EntryOf(w))
  /\ Goto(w, "complete")
  /\ UNCHANGED <<storeVars, slot, payload, call, memoryVars, boundVars, historyVars>>

AdapterMiss(w) ==
  /\ At(w, "lookup")
  /\ EntryOf(w) = NoEntry
  /\ Goto(w, "issue")
  /\ UNCHANGED <<storeVars, slot, payload, call, result, memoryVars, boundVars,
                 historyVars>>

Remember(w, entry) ==
  adapter' = [adapter EXCEPT ![ProcessOf[w]][ChannelOf(payload[w])][slot[w]] = entry]

\* Mutant: the provider's answer is lost and handled like a failure.
AdapterIssueTimesOut(w) ==
  /\ At(w, "issue")
  /\ issued' = [issued EXCEPT ![slot[w]] = Append(@, payload[w])]
  /\ Goto(w, "abandon")
  /\ UNCHANGED <<storeVars, slot, payload, call, result, memoryVars, boundVars, answers>>

\* The provider executes the disbursement: money moves.
AdapterIssue(w) ==
  LET entry == [effect |-> Len(issued[slot[w]]) + 1, status |-> "completed"]
  IN  /\ At(w, "issue")
      /\ issued' = [issued EXCEPT ![slot[w]] = Append(@, payload[w])]
      /\ Remember(w, entry)
      /\ BuildResult(w, entry)
      /\ Goto(w, "complete")
      /\ UNCHANGED <<storeVars, slot, payload, call, audit, trail, boundVars, answers>>

\* Mutant: a failed provider status is reported as completed.
AdapterDeclinedAsCompleted(w) ==
  LET entry == [effect |-> 0, status |-> "completed"]
  IN  /\ At(w, "issue")
      /\ ChannelOf(payload[w]) = "mobile"
      /\ Remember(w, entry)
      /\ BuildResult(w, entry)
      /\ Goto(w, "complete")
      /\ UNCHANGED <<storeVars, slot, payload, call, audit, trail, boundVars, historyVars>>

\* disburse() answers FAILED: no money moved, the result is kept all the same.
AdapterDeclined(w) ==
  LET entry == [effect |-> 0, status |-> "failed"]
  IN  /\ At(w, "issue")
      /\ ChannelOf(payload[w]) = "mobile"
      /\ Remember(w, entry)
      /\ BuildResult(w, entry)
      /\ Goto(w, "complete")
      /\ UNCHANGED <<storeVars, slot, payload, call, audit, trail, boundVars, historyVars>>

\* Mutant: the adapter call is not in a try block.
AdapterRaiseUncaught(w) ==
  /\ pc[w] \in {"lookup", "issue"}
  /\ Leave(w)
  /\ UNCHANGED <<storeVars, memoryVars, boundVars, historyVars>>

\* Building the adapter's request or the provider call raises: nothing moved.
AdapterRaise(w) ==
  /\ pc[w] \in {"lookup", "issue"}
  /\ Goto(w, "abandon")
  /\ UNCHANGED <<storeVars, slot, payload, call, result, memoryVars, boundVars,
                 historyVars>>

-----------------------------------------------------------------------------
(* Settling the reservation *)

\* The except branch: abandon() and then the audit event.
AbandonReservation(w) ==
  /\ At(w, "abandon")
  /\ Abandon(slot[w], payload[w])
  /\ Goto(w, "auditFailure")
  /\ UNCHANGED <<slot, payload, call, result, memoryVars, boundVars, historyVars>>

AuditFailure(w) ==
  /\ At(w, "auditFailure")
  /\ AppendEvent(w, "DISBURSEMENT_DOWNSTREAM_FAILURE")
  /\ Leave(w)
  /\ UNCHANGED <<storeVars, adapter, trail, boundVars, historyVars>>

CompleteReservation(w) ==
  /\ At(w, "complete")
  /\ Complete(slot[w], payload[w], result[w])
  /\ Goto(w, "record")
  /\ UNCHANGED <<slot, payload, call, result, memoryVars, boundVars, historyVars>>

\* complete() raised IdempotencyConflictError: it is outside the try block, so
\* the call ends without result, audit event or clean-up.
CompleteRefused(w) ==
  /\ At(w, "complete")
  /\ ResolveConflict(slot[w], payload[w])
  /\ Leave(w)
  /\ UNCHANGED <<memoryVars, boundVars, historyVars>>

\* Mutant: a failed complete() releases the reservation.
SettleBusyReleases(w) ==
  /\ pc[w] \in {"complete", "abandon"}
  /\ busy < MaxBusy /\ busy' = busy + 1
  /\ Abandon(slot[w], payload[w])
  /\ Leave(w)
  /\ UNCHANGED <<memoryVars, calls, crashes, historyVars>>

\* complete() or abandon() raised OperationalError ("database is locked").
SettleBusy(w) ==
  /\ pc[w] \in {"complete", "abandon"}
  /\ busy < MaxBusy /\ busy' = busy + 1
  /\ Leave(w)
  /\ UNCHANGED <<storeVars, memoryVars, calls, crashes, historyVars>>

\* _record_idempotent_result(), the audit event and the return: process memory
\* only, so nothing but a crash, which erases both, could come between them.
RecordResult(w) ==
  /\ At(w, "record")
  /\ trail' = [trail EXCEPT ![ProcessOf[w]] = @ \cup {<<slot[w], result[w]>>}]
  /\ AppendEvent(w, "DISBURSEMENT_CANONICAL_RESULT")
  /\ Answer(w)
  /\ Leave(w)
  /\ UNCHANGED <<storeVars, adapter, boundVars, issued>>

-----------------------------------------------------------------------------
(* Faults and time *)

\* A process dies and is restarted: its calls and its memory are gone.
Crash(p) ==
  LET survives(w) == ProcessOf[w] # p
  IN  /\ crashes < MaxCrashes /\ crashes' = crashes + 1
      /\ pc' = [w \in Workers |-> IF survives(w) THEN pc[w] ELSE "idle"]
      /\ slot' = [w \in Workers |-> IF survives(w) THEN slot[w] ELSE None]
      /\ payload' = [w \in Workers |-> IF survives(w) THEN payload[w] ELSE None]
      /\ call' = [w \in Workers |-> IF survives(w) THEN call[w] ELSE 0]
      /\ result' = [w \in Workers |-> IF survives(w) THEN result[w] ELSE None]
      /\ adapter' = [adapter EXCEPT ![p] = EmptyAdapters]
      /\ audit' = [audit EXCEPT ![p] = {}]
      /\ trail' = [trail EXCEPT ![p] = {}]
      /\ UNCHANGED <<storeVars, calls, busy, historyVars>>

Age(s) ==
  /\ AgeRecord(s)
  /\ UNCHANGED <<workerVars, memoryVars, boundVars, historyVars>>

Step(w) ==
  \/ ReserveOwned(w) \/ ReserveRefused(w) \/ ReserveInFlight(w) \/ ReserveTerminal(w)
  \/ AuditConflict(w) \/ ReuseResult(w)
  \/ AdapterHit(w) \/ AdapterMiss(w) \/ AdapterIssue(w) \/ AdapterDeclined(w)
  \/ AdapterRaise(w) \/ AbandonReservation(w) \/ AuditFailure(w)
  \/ CompleteReservation(w) \/ CompleteRefused(w) \/ RecordResult(w)

Next ==
  \/ \E w \in Workers, s \in Slots, x \in Payloads : Call(w, s, x)
  \/ \E w \in Workers : Step(w)
  \/ \E w \in Workers : ReserveBusy(w) \/ SettleBusy(w)
  \/ \E p \in Processes : Crash(p)
  \/ \E s \in Slots : Age(s)

Spec == Init /\ [][Next]_vars

\* A thread inside disburse_float keeps running: nothing in it waits on
\* another call (the store answers or raises within SQLite's busy timeout).
Fairness == \A w \in Workers : WF_vars(Step(w))

FairSpec == Spec /\ Fairness

-----------------------------------------------------------------------------
(* Properties *)

\* Workers that own a reservation of s and have not settled it.
Holders(s) ==
  {w \in Workers : slot[w] = s
                   /\ pc[w] \in {"lookup", "issue", "abandon", "complete"}}

\* A second provider effect under one idempotency key needs a purge of that
\* key's row: retries, concurrent duplicates, crashes and locked-database
\* errors alone never make disburse_float pay twice.
EffectsNeedPurges ==
  \A s \in Slots : Len(issued[s]) <= 1 + purges[s]

\* While the row was never purged, at most one worker of all processes is
\* between reserve() and the settlement of the key.
SingleFlight ==
  \A s \in Slots :
    purges[s] = 0 => \A v, w \in Holders(s) : v = w

\* "A second call with the same key returns the original result": until a
\* purge, every answer given for a key, first or reused, in any process, is
\* the one result the store holds for it, given for the stored payload.
CanonicalAnswer ==
  \A s \in Slots :
    purges[s] = 0 =>
      \A a \in answers[s] :
        /\ records[s].status = "completed"
        /\ a.result = records[s].result
        /\ a.payload = records[s].fingerprint

\* Until a purge, a result answered as completed names a provider effect that
\* was made, for the payload of the very request it answers; one answered as
\* failed is given only where no money ever moved under the key.
AnswerMatchesEffect ==
  \A s \in Slots :
    purges[s] = 0 =>
      \A a \in answers[s] :
        IF a.result.status = "completed"
        THEN /\ a.result.effect \in 1..Len(issued[s])
             /\ issued[s][a.result.effect] = a.payload
        ELSE issued[s] = <<>>

\* The reliability checklist's "a repeated business action returns the original
\* result or a safe retriable status, never a second financial effect": a key
\* that no caller ever got a result for was paid at most once.
UnansweredPaidOnce ==
  \A s \in Slots : answers[s] = {} => Len(issued[s]) <= 1

\* The checklist's "audit chain records canonical results ... and downstream
\* failures": once no call works on a key that money moved under, the audit log
\* of the process that paid tells so.
EffectIsAudited ==
  \A s \in Slots :
    issued[s] # <<>> /\ (\A w \in Workers : slot[w] # s)
      => \E p \in Processes : \E e \in audit[p] :
           /\ e.slot = s
           /\ e.type \in {"DISBURSEMENT_CANONICAL_RESULT",
                          "DISBURSEMENT_DOWNSTREAM_FAILURE"}

\* No reservation is orphaned in a process that lives: unless a process crashed
\* or the database refused a statement, every row in flight has a worker that
\* has yet to settle it and whose complete() or abandon() will match the row,
\* even where purges handed the key from one call to another.
ReservationHeld ==
  \A s \in Slots :
    (records[s].status = "in_progress" /\ crashes + busy = 0)
      => \E w \in Holders(s) : Resolvable(s, payload[w])

\* No reservation leaks in a process that lives: unless a process crashes or the
\* database refuses a statement, every reservation is eventually completed or
\* released.
ReservationsSettle ==
  \A s \in Slots :
    (records[s].status = "in_progress" /\ crashes + busy = 0)
      ~> (records[s].status # "in_progress" \/ crashes + busy > 0)
=============================================================================
