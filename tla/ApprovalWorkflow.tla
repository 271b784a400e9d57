--------------------------- MODULE ApprovalWorkflow ---------------------------
(***************************************************************************)
(* ApprovalWorkflowService (src/domain/workflow/service.py) over the       *)
(* finite-state machine of state_machine.py, called by the threads that    *)
(* serve the REST endpoints of approval_router.py.  The service lock       *)
(* covers the transition only: the event sent to the subscribers and the   *)
(* response sent to the caller are built after it is released, from the    *)
(* shared mutable request object.  A call that raises (unknown request,    *)
(* blank notes, insufficient role, invalid transition) changes nothing, so *)
(* it has no action.  An amount is abstracted to the tier that the policy  *)
(* evaluator gives it, a request id to (tenant_id, request_id).            *)
(***************************************************************************)
EXTENDS Naturals, Sequences

CONSTANTS
  Requests,     \* (tenant_id, request_id) keys
  Threads,      \* threads that call the service
  LoopThreads,  \* those of them that run an asyncio event loop
  Listeners,    \* subscriber callbacks other than the WebSocket bridge
  Roles,        \* actor roles that callers give
  Bridge,       \* on_workflow_event, the callback that feeds the WebSockets
  None          \* absence of a value

ASSUME WorkflowAssumption ==
  /\ LoopThreads \subseteq Threads
  /\ Bridge \notin Listeners
  /\ None \notin Threads

VARIABLES
  requests,     \* _requests: state, required tier and audit trail
  subscribers,  \* _subscribers, in order of registration
  lock,         \* the thread inside the service lock between two writes
  pc,           \* where each thread is in its call
  about,        \* the transition a thread made: request, trail entry, event
  todo,         \* listeners still to be called by the thread's _broadcast
  reply,        \* the response the thread builds or built last
  delivered,    \* history: events each listener was called with
  feed          \* history: events handed to the WebSocket connections

vars == <<requests, subscribers, lock, pc, about, todo, reply, delivered, feed>>

-----------------------------------------------------------------------------
(* The finite-state machine *)

States == {"DRAFT", "PENDING", "APPROVED", "REJECTED", "DISBURSED"}

FSMEvents == {"SUBMIT", "APPROVE", "REJECT", "DISBURSE", "CANCEL"}

\* Mutant: a rejected request can be approved after all.
TransitionTableReopens ==
  {<<"DRAFT", "SUBMIT", "PENDING">>, <<"DRAFT", "CANCEL", "REJECTED">>,
   <<"PENDING", "APPROVE", "APPROVED">>, <<"PENDING", "REJECT", "REJECTED">>,
   <<"REJECTED", "APPROVE", "APPROVED">>, <<"APPROVED", "DISBURSE", "DISBURSED">>}

TransitionTable ==
  {<<"DRAFT", "SUBMIT", "PENDING">>, <<"DRAFT", "CANCEL", "REJECTED">>,
   <<"PENDING", "APPROVE", "APPROVED">>, <<"PENDING", "REJECT", "REJECTED">>,
   <<"APPROVED", "DISBURSE", "DISBURSED">>}

TerminalStates == {"REJECTED", "DISBURSED"}

CanTransition(state, event) ==
  \E to \in States : <<state, event, to>> \in TransitionTable

NextState(state, event) ==
  CHOOSE to \in States : <<state, event, to>> \in TransitionTable

\* A StateTransitionRecord; role is the authority the caller claimed.
TrailEntry(state, event, role) ==
  [from |-> state, event |-> event, to |-> NextState(state, event), role |-> role]

-----------------------------------------------------------------------------
(* Tiers and roles *)

Tiers == {"AUTO_APPROVE", "MANAGER", "FINANCE_DIRECTOR"}

TierLevel(tier) ==
  CASE tier = "AUTO_APPROVE" -> 0
    [] tier = "MANAGER" -> 1
    [] tier = "FINANCE_DIRECTOR" -> 2

RoleLevel(role) ==
  CASE role \in {"MANAGER", "LINE_MANAGER", "FINANCE_MANAGER"} -> 1
    [] role \in {"FINANCE_DIRECTOR", "CFO", "DIRECTOR", "ADMIN"} -> 2
    [] OTHER -> 0

\* What the trail may record as the actor's authority: a role, no role at all,
\* or SYSTEM_AUTO_APPROVER.
NoRole == "NO_ROLE"
System == "SYSTEM_AUTO_APPROVER"
Authorities == Roles \cup {NoRole, System}

\* Mutant: the comparison is the wrong way round.
VerifyRoleAuthoritySwapped(tier, role) == RoleLevel(role) <= TierLevel(tier)

VerifyRoleAuthority(tier, role) == RoleLevel(role) >= TierLevel(tier)

-----------------------------------------------------------------------------
(* State *)

Entry == [from : States, event : FSMEvents, to : States, role : Authorities]

Request == [state : States \cup {"ABSENT"}, tier : Tiers, trail : Seq(Entry)]

EventTypes == {"REQUEST_AUTO_APPROVED", "REQUEST_SUBMITTED", "REQUEST_APPROVED",
               "REQUEST_REJECTED", "REQUEST_DISBURSED", "NO_EVENT"}

\* A WorkflowEvent: what it is about and the state it reports; a read-only call
\* has NO_EVENT.
WorkflowEvent ==
  [type : EventTypes, request : Requests, entry : Nat,
   state : States \cup {"ABSENT"}]

Locations == {"idle", "commit", "build", "snapshot", "deliver", "fetch",
              "respond", "respondTrail"}

Reply == [request : Requests, state : States \cup {"ABSENT", None}, trail : Seq(Entry)]

Callbacks == Listeners \cup {Bridge}

TypeOK ==
  /\ requests \in [Requests -> Request]
  /\ subscribers \in Seq(Callbacks)
  /\ lock \in Threads \cup {None}
  /\ pc \in [Threads -> Locations]
  /\ about \in [Threads -> WorkflowEvent \cup {None}]
  /\ todo \in [Threads -> Seq(Callbacks)]
  /\ reply \in [Threads -> Reply \cup {None}]
  /\ delivered \in [Callbacks -> SUBSET WorkflowEvent]
  /\ feed \in SUBSET WorkflowEvent

Init ==
  /\ requests = [r \in Requests |->
                   [state |-> "ABSENT", tier |-> "AUTO_APPROVE", trail |-> <<>>]]
  /\ subscribers = <<Bridge>>
  /\ lock = None
  /\ pc = [t \in Threads |-> "idle"]
  /\ about = [t \in Threads |-> None]
  /\ todo = [t \in Threads |-> <<>>]
  /\ reply = [t \in Threads |-> None]
  /\ delivered = [l \in Callbacks |-> {}]
  /\ feed = {}

-----------------------------------------------------------------------------
(* Transitions, under the service lock *)

Goto(t, l) == pc' = [pc EXCEPT ![t] = l]

Begin(t) == pc[t] = "idle" /\ lock = None

\* The event about the n-th trail entry of r; its state is read later.
Announce(t, type, r, n) ==
  about' = [about EXCEPT ![t] =
              [type |-> type, request |-> r, entry |-> n, state |-> "ABSENT"]]

SubmitEntry == TrailEntry("DRAFT", "SUBMIT", NoRole)
AutoApproveEntry == TrailEntry("PENDING", "APPROVE", System)

\* submit_request: the DRAFT is submitted, auto-approved when the tier allows
\* it and the caller asked for it, and only then published in _requests.
Submit(t, r, tier, auto) ==
  LET approved == tier = "AUTO_APPROVE" /\ auto
  IN  /\ Begin(t)
      /\ requests[r].state = "ABSENT"
      /\ requests' = [requests EXCEPT ![r] =
           [state |-> IF approved THEN "APPROVED" ELSE "PENDING",
            tier  |-> tier,
            trail |-> IF approved THEN <<SubmitEntry, AutoApproveEntry>>
                                  ELSE <<SubmitEntry>>]]
      /\ Announce(t, IF approved THEN "REQUEST_AUTO_APPROVED" ELSE "REQUEST_SUBMITTED",
                  r, IF approved THEN 2 ELSE 1)
      /\ Goto(t, "build")
      /\ UNCHANGED <<subscribers, lock, todo, reply, delivered, feed>>

\* Mutant: transition() runs outside the lock.
AppendRecordUnlocked(t, r, event, type, role) ==
  /\ Begin(t)
  /\ CanTransition(requests[r].state, event)
  /\ requests' = [requests EXCEPT ![r].trail =
                    Append(@, TrailEntry(requests[r].state, event, role))]
  /\ Announce(t, type, r, Len(requests[r].trail) + 1)
  /\ Goto(t, "commit")
  /\ UNCHANGED <<subscribers, lock, todo, reply, delivered, feed>>

\* transition(): the record is appended first ...
AppendRecord(t, r, event, type, role) ==
  /\ Begin(t)
  /\ CanTransition(requests[r].state, event)
  /\ requests' = [requests EXCEPT ![r].trail =
                    Append(@, TrailEntry(requests[r].state, event, role))]
  /\ lock' = t
  /\ Announce(t, type, r, Len(requests[r].trail) + 1)
  /\ Goto(t, "commit")
  /\ UNCHANGED <<subscribers, todo, reply, delivered, feed>>

\* ... and the state is set next; lock-free readers may run in between.
Commit(t) ==
  LET r == about[t].request
  IN  /\ pc[t] = "commit"
      /\ requests' = [requests EXCEPT ![r].state =
                        requests[r].trail[about[t].entry].to]
      /\ lock' = None
      /\ Goto(t, "build")
      /\ UNCHANGED <<subscribers, about, todo, reply, delivered, feed>>

\* approve_request: the role is verified only if the caller gives one.
Approve(t, r, role) ==
  /\ role # NoRole => VerifyRoleAuthority(requests[r].tier, role)
  /\ AppendRecord(t, r, "APPROVE", "REQUEST_APPROVED", role)

\* Mutant: an event type the subscribers do not know.
RejectAsCancelled(t, r, role) ==
  AppendRecord(t, r, "REJECT", "REQUEST_CANCELLED", role)

\* reject_request takes a role and never looks at it.
Reject(t, r, role) == AppendRecord(t, r, "REJECT", "REQUEST_REJECTED", role)

Disburse(t, r) == AppendRecord(t, r, "DISBURSE", "REQUEST_DISBURSED", NoRole)

-----------------------------------------------------------------------------
(* Events, without the lock *)

\* Mutant: the event reports the state before the transition.
BuildEventBefore(t) ==
  /\ pc[t] = "build"
  /\ about' = [about EXCEPT ![t].state =
                 requests[about[t].request].trail[about[t].entry].from]
  /\ Goto(t, "snapshot")
  /\ UNCHANGED <<requests, subscribers, lock, todo, reply, delivered, feed>>

\* The WorkflowEvent reads request.state, whatever it is by now.
BuildEvent(t) ==
  /\ pc[t] = "build"
  /\ about' = [about EXCEPT ![t].state = requests[about[t].request].state]
  /\ Goto(t, "snapshot")
  /\ UNCHANGED <<requests, subscribers, lock, todo, reply, delivered, feed>>

\* The submit endpoint responds at once, the others fetch the metadata first.
AfterBroadcast(t) ==
  IF about[t].type \in {"REQUEST_SUBMITTED", "REQUEST_AUTO_APPROVED"}
  THEN "respond" ELSE "fetch"

\* _broadcast copies the subscriber list under the lock ...
SnapshotListeners(t) ==
  /\ pc[t] = "snapshot"
  /\ lock = None
  /\ todo' = [todo EXCEPT ![t] = subscribers]
  /\ Goto(t, IF subscribers = <<>> THEN AfterBroadcast(t) ELSE "deliver")
  /\ UNCHANGED <<requests, subscribers, lock, about, reply, delivered, feed>>

\* Mutant: a listener that raises ends the broadcast.
DeliverAborts(t) ==
  /\ pc[t] = "deliver"
  /\ delivered' = [delivered EXCEPT ![Head(todo[t])] = @ \cup {about[t]}]
  /\ todo' = [todo EXCEPT ![t] = <<>>]
  /\ Goto(t, AfterBroadcast(t))
  /\ UNCHANGED <<requests, subscribers, lock, about, reply, feed>>

\* ... and calls them one by one; exceptions are swallowed, so a listener that
\* raises has been called all the same.  The bridge schedules the WebSocket
\* broadcast on the running loop; where there is none, get_running_loop raises
\* RuntimeError and the event is dropped.
Deliver(t) ==
  LET l == Head(todo[t])
  IN  /\ pc[t] = "deliver"
      /\ delivered' = [delivered EXCEPT ![l] = @ \cup {about[t]}]
      /\ feed' = IF l = Bridge /\ t \in LoopThreads
                 THEN feed \cup {about[t]} ELSE feed
      /\ todo' = [todo EXCEPT ![t] = Tail(@)]
      /\ Goto(t, IF Tail(todo[t]) = <<>> THEN AfterBroadcast(t) ELSE "deliver")
      /\ UNCHANGED <<requests, subscribers, lock, about, reply>>

Subscribe(t, l) ==
  /\ Begin(t)
  /\ \A i \in DOMAIN subscribers : subscribers[i] # l
  /\ subscribers' = Append(subscribers, l)
  /\ UNCHANGED <<requests, lock, pc, about, todo, reply, delivered, feed>>

\* list.remove: the first occurrence is taken out.
Unsubscribe(t, l) ==
  /\ Begin(t)
  /\ \E i \in DOMAIN subscribers :
       /\ subscribers[i] = l
       /\ \A j \in 1..(i - 1) : subscribers[j] # l
       /\ subscribers' = SubSeq(subscribers, 1, i - 1)
                           \o SubSeq(subscribers, i + 1, Len(subscribers))
  /\ UNCHANGED <<requests, lock, pc, about, todo, reply, delivered, feed>>

-----------------------------------------------------------------------------
(* Responses, without the lock: _to_response_dto reads state, then trail *)

\* The POST endpoints fetch the metadata through get_request first.
FetchMetadata(t) ==
  /\ pc[t] = "fetch"
  /\ lock = None
  /\ Goto(t, "respond")
  /\ UNCHANGED <<requests, subscribers, lock, about, todo, reply, delivered, feed>>

\* GET /{request_id}: get_request returns the shared object.
GetRequest(t, r) ==
  /\ Begin(t)
  /\ requests[r].state # "ABSENT"
  /\ Announce(t, "NO_EVENT", r, 0)
  /\ Goto(t, "respond")
  /\ UNCHANGED <<requests, subscribers, lock, todo, reply, delivered, feed>>

ReadState(t) ==
  LET r == about[t].request
  IN  /\ pc[t] = "respond"
      /\ reply' = [reply EXCEPT ![t] =
                     [request |-> r, state |-> requests[r].state, trail |-> <<>>]]
      /\ Goto(t, "respondTrail")
      /\ UNCHANGED <<requests, subscribers, lock, about, todo, delivered, feed>>

\* Mutant: the response leaves out the latest entry.
ReadTrailTruncated(t) ==
  LET trail == requests[about[t].request].trail
  IN  /\ pc[t] = "respondTrail"
      /\ reply' = [reply EXCEPT ![t].trail = SubSeq(trail, 1, Len(trail) - 1)]
      /\ about' = [about EXCEPT ![t] = None]
      /\ Goto(t, "idle")
      /\ UNCHANGED <<requests, subscribers, lock, todo, delivered, feed>>

ReadTrail(t) ==
  /\ pc[t] = "respondTrail"
  /\ reply' = [reply EXCEPT ![t].trail = requests[about[t].request].trail]
  /\ about' = [about EXCEPT ![t] = None]
  /\ Goto(t, "idle")
  /\ UNCHANGED <<requests, subscribers, lock, todo, delivered, feed>>

-----------------------------------------------------------------------------

Continue(t) ==
  \/ Commit(t) \/ BuildEvent(t) \/ SnapshotListeners(t) \/ Deliver(t)
  \/ FetchMetadata(t) \/ ReadState(t) \/ ReadTrail(t)

Invoke(t) ==
  \/ \E r \in Requests, tier \in Tiers, auto \in BOOLEAN : Submit(t, r, tier, auto)
  \/ \E r \in Requests, role \in Roles \cup {NoRole} : Approve(t, r, role)
  \/ \E r \in Requests, role \in Roles \cup {NoRole} : Reject(t, r, role)
  \/ \E r \in Requests : Disburse(t, r) \/ GetRequest(t, r)
  \/ \E l \in Listeners : Subscribe(t, l) \/ Unsubscribe(t, l)

Next == \E t \in Threads : Invoke(t) \/ Continue(t)

Spec == Init /\ [][Next]_vars

\* A thread that is inside a call runs on.  Weak fairness is enough although
\* some steps wait for the lock: a request has at most three transitions, so
\* the lock is taken only finitely often.
Fairness == \A t \in Threads : WF_vars(Continue(t))

FairSpec == Spec /\ Fairness

-----------------------------------------------------------------------------
(* Properties *)

\* The request a thread is between append and assignment of.
MidTransition(r) == lock # None /\ about[lock].request = r

\* A path of the transition table that starts in DRAFT: each entry is a
\* transition of the table and continues the one before.
IsPath(trail) ==
  \A i \in 1..Len(trail) :
    /\ <<trail[i].from, trail[i].event, trail[i].to>> \in TransitionTable
    /\ trail[i].from = IF i = 1 THEN "DRAFT" ELSE trail[i - 1].to

\* The state that the trail of r leads to, or comes from while its last entry
\* is being applied.
TrailState(r) ==
  LET trail == requests[r].trail
      last == trail[Len(trail)]
  IN  IF trail = <<>> THEN "ABSENT" ELSE IF MidTransition(r) THEN last.from ELSE last.to

\* No approval bypass and no inconsistent trail under concurrent calls
\* (ADR-002): every trail is a path of the transition table and the request is
\* in the state its trail leads to.
TrailIsPath ==
  \A r \in Requests :
    IsPath(requests[r].trail) /\ requests[r].state = TrailState(r)

\* No post-rejection or post-disbursement mutation (ADR-002): in a terminal
\* state neither state nor trail of a request ever changes again.
TerminalIsFinal ==
  [][\A r \in Requests :
       requests[r].state \in TerminalStates => requests'[r] = requests[r]]_vars

Approvals(r) ==
  {i \in DOMAIN requests[r].trail : requests[r].trail[i].event = "APPROVE"}

\* Funds are disbursed only after exactly one approval, whatever calls race.
\* The system approves nothing but the auto-approve tier, and a caller who
\* claims a role approves nothing above it; a caller who claims none is not
\* held to any tier, see ApprovalsAuthorised.
DisbursedWasApproved ==
  \A r \in Requests :
    /\ \A i, j \in Approvals(r) : i = j
    /\ \A i \in Approvals(r) :
         LET role == requests[r].trail[i].role IN
         /\ role = System => requests[r].tier = "AUTO_APPROVE"
         /\ role \notin {System, NoRole} => RoleLevel(role) >= TierLevel(requests[r].tier)
    /\ requests[r].state = "DISBURSED" => Approvals(r) # {}

\* The checklist's "ApprovalPolicyEvaluator and WorkflowStateMachine enforce
\* tier authorization ... for all transitions": every approval is one of the
\* system in the auto-approve tier or one of a sufficient role.
ApprovalsAuthorised ==
  \A r \in Requests : \A i \in Approvals(r) :
    LET role == requests[r].trail[i].role IN
    \/ role = System /\ requests[r].tier = "AUTO_APPROVE"
    \/ role # System /\ RoleLevel(role) >= TierLevel(requests[r].tier)

\* A response is read without the lock, state before trail, while transition()
\* writes trail before state: the state a caller is told is always accounted
\* for by an entry of the trail it is told.
ReplyAccountsForState ==
  \A t \in Threads :
    pc[t] = "idle" /\ reply[t] # None =>
      \E i \in DOMAIN reply[t].trail : reply[t].trail[i].to = reply[t].state

\* An event built after the lock was released may report a later state than
\* its own transition's, but never an earlier one or one of another branch.
EventNotBehind ==
  \A l \in Callbacks : \A e \in delivered[l] :
    \E i \in e.entry..Len(requests[e.request].trail) :
      requests[e.request].trail[i].to = e.state

Subscribed(l) == \E k \in DOMAIN subscribers : subscribers[k] = l

\* Every committed transition is eventually announced to every listener that
\* is subscribed when it commits, unless that listener unsubscribes: no lock,
\* concurrent call or (un)subscription of another listener loses it.
TransitionsAnnounced ==
  \A r \in Requests, i \in 1..3, l \in Callbacks :
    (/\ Subscribed(l)
     /\ \E t \in Threads : pc[t] = "build" /\ about[t].request = r /\ about[t].entry = i)
      ~> (~Subscribed(l) \/ \E e \in delivered[l] : e.request = r /\ e.entry = i)

\* ADR-009: the WebSocket feed broadcasts a WORKFLOW_EVENT "upon any domain
\* transition".
LiveFeedPushes ==
  \A r \in Requests, i \in 1..3 :
    (Len(requests[r].trail) >= i)
      ~> \E e \in feed : e.request = r /\ e.entry >= i
=============================================================================
