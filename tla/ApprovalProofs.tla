---------------------------- MODULE ApprovalProofs ----------------------------
(***************************************************************************)
(* Theorems about the approval workflow, for any number of requests,       *)
(* threads, listeners and roles.                                           *)
(***************************************************************************)
EXTENDS ApprovalWorkflow, SequenceTheorems, TLAPS

-----------------------------------------------------------------------------
(* The inductive invariant *)

\* The part of the state that the transitions depend on.
CoreTyped ==
  /\ requests \in [Requests -> Request]
  /\ lock \in Threads \cup {None}
  /\ pc \in [Threads -> Locations]
  /\ about \in [Threads -> WorkflowEvent \cup {None}]
  /\ \A t \in Threads : pc[t] # "idle" => about[t] \in WorkflowEvent

\* Exactly the thread inside transition() holds the lock, and the entry it
\* appended is the last one of its request.
LockOK ==
  \A t \in Threads :
    /\ lock = t <=> pc[t] = "commit"
    /\ lock = t => LET trail == requests[about[t].request].trail
                   IN  trail # <<>> /\ about[t].entry = Len(trail)

\* The state the n-th entry of a trail starts from.
StageOf == <<"DRAFT", "PENDING", "APPROVED">>

\* A request has at most three transitions and makes them in this order.
IsStaged(trail) ==
  /\ Len(trail) <= 3
  /\ \A i \in 1..Len(trail) : trail[i].from = StageOf[i]

TrailStaged == \A r \in Requests : IsStaged(requests[r].trail)

\* An approval in the trail was given with authority.
IsAuthorised(trail, tier) ==
  \A i \in 1..Len(trail) :
    trail[i].event = "APPROVE" =>
      \/ trail[i].role = NoRole
      \/ trail[i].role = System /\ tier = "AUTO_APPROVE"
      \/ trail[i].role \in Roles /\ RoleLevel(trail[i].role) >= TierLevel(tier)

ApprovalAuthorised ==
  \A r \in Requests : IsAuthorised(requests[r].trail, requests[r].tier)

WorkflowInv == CoreTyped /\ LockOK /\ TrailIsPath /\ TrailStaged /\ ApprovalAuthorised

-----------------------------------------------------------------------------
(* The transition table *)

LEMMA Stages ==
  StageOf[1] = "DRAFT" /\ StageOf[2] = "PENDING" /\ StageOf[3] = "APPROVED"
  BY DEF StageOf

LEMMA NextStateInTable ==
  ASSUME NEW state, NEW event, CanTransition(state, event)
  PROVE  /\ <<state, event, NextState(state, event)>> \in TransitionTable
         /\ NextState(state, event) \in States
  BY DEF CanTransition, NextState

LEMMA TableTyped ==
  ASSUME NEW state, NEW event, NEW to, <<state, event, to>> \in TransitionTable
  PROVE  /\ state \in States /\ event \in FSMEvents /\ to \in States
         /\ state \notin TerminalStates /\ state # "ABSENT"
  BY DEF TransitionTable, States, FSMEvents, TerminalStates

LEMMA EntryTyped ==
  ASSUME NEW state, NEW event, NEW role \in Authorities, CanTransition(state, event)
  PROVE  TrailEntry(state, event, role) \in Entry
  BY NextStateInTable, TableTyped DEF TrailEntry, Entry

LEMMA SubmitEntries ==
  /\ SubmitEntry = [from |-> "DRAFT", event |-> "SUBMIT", to |-> "PENDING", role |-> NoRole]
  /\ AutoApproveEntry = [from |-> "PENDING", event |-> "APPROVE", to |-> "APPROVED",
                         role |-> System]
<1>1. CanTransition("DRAFT", "SUBMIT") /\ CanTransition("PENDING", "APPROVE")
  BY DEF CanTransition, TransitionTable, States
<1>2. NextState("DRAFT", "SUBMIT") = "PENDING"
  BY <1>1, NextStateInTable DEF TransitionTable
<1>3. NextState("PENDING", "APPROVE") = "APPROVED"
  BY <1>1, NextStateInTable DEF TransitionTable
<1>4. QED
  BY <1>2, <1>3 DEF SubmitEntry, AutoApproveEntry, TrailEntry

-----------------------------------------------------------------------------
(* Steps that leave requests and lock alone *)

LEMMA RequestsUndisturbed ==
  ASSUME WorkflowInv, UNCHANGED <<requests, lock>>, CoreTyped',
         \A t \in Threads : pc'[t] = "commit" <=> pc[t] = "commit",
         \A t \in Threads : pc[t] = "commit" => about'[t] = about[t]
  PROVE  WorkflowInv'
<1>1. LockOK'
  BY DEF WorkflowInv, LockOK
<1>2. lock \in Threads => about'[lock] = about[lock]
  BY DEF WorkflowInv, LockOK
<1>3. \A r \in Requests : MidTransition(r)' <=> MidTransition(r)
  BY <1>2 DEF MidTransition, WorkflowInv, CoreTyped
<1>4. TrailIsPath'
  BY <1>3 DEF WorkflowInv, TrailIsPath, TrailState
<1>5. TrailStaged' /\ ApprovalAuthorised'
  BY DEF WorkflowInv, TrailStaged, ApprovalAuthorised
<1>6. QED
  BY <1>1, <1>4, <1>5 DEF WorkflowInv

\* A call goes on without a transition.
LEMMA CallGoesOn ==
  ASSUME WorkflowInv, NEW t \in Threads, NEW l \in Locations \ {"commit"},
         pc[t] # "commit", Goto(t, l), UNCHANGED <<requests, lock>>,
         about' \in [Threads -> WorkflowEvent \cup {None}],
         \A u \in Threads \ {t} : about'[u] = about[u],
         l # "idle" => about'[t] \in WorkflowEvent
  PROVE  WorkflowInv'
<1>1. CoreTyped'
  BY DEF WorkflowInv, CoreTyped, Goto
<1>2. \A u \in Threads : pc'[u] = "commit" <=> pc[u] = "commit"
  BY DEF WorkflowInv, CoreTyped, Goto
<1>3. \A u \in Threads : pc[u] = "commit" => about'[u] = about[u]
  OBVIOUS
<1>4. QED
  BY <1>1, <1>2, <1>3, RequestsUndisturbed

-----------------------------------------------------------------------------
(* The transitions *)

\* What the invariant asks of one request that no thread is changing.
RequestOK(q) ==
  /\ q \in Request
  /\ q.trail # <<>>
  /\ IsPath(q.trail) /\ IsStaged(q.trail) /\ IsAuthorised(q.trail, q.tier)
  /\ q.state = q.trail[Len(q.trail)].to

LEMMA SubmittedOK ==
  ASSUME NEW tier \in Tiers
  PROVE  RequestOK([state |-> "PENDING", tier |-> tier, trail |-> <<SubmitEntry>>])
<1> DEFINE trail == <<SubmitEntry>>
<1>1. SubmitEntry \in Entry
  BY SubmitEntries DEF Entry, States, FSMEvents, Authorities
<1>2. Len(trail) = 1 /\ trail[1] = SubmitEntry /\ trail \in Seq(Entry) /\ trail # <<>>
  BY <1>1
<1> HIDE DEF trail
<1>3. IsPath(trail)
  BY <1>2, SubmitEntries DEF IsPath, TransitionTable
<1>4. IsStaged(trail)
  BY <1>2, SubmitEntries, Stages DEF IsStaged
<1>5. IsAuthorised(trail, tier)
  BY <1>2, SubmitEntries DEF IsAuthorised
<1>6. trail[Len(trail)].to = "PENDING"
  BY <1>2, SubmitEntries
<1>7. RequestOK([state |-> "PENDING", tier |-> tier, trail |-> trail])
  BY <1>2, <1>3, <1>4, <1>5, <1>6 DEF RequestOK, Request, States
<1>8. QED
  BY <1>7 DEF trail

LEMMA AutoApprovedOK ==
  RequestOK([state |-> "APPROVED", tier |-> "AUTO_APPROVE",
             trail |-> <<SubmitEntry, AutoApproveEntry>>])
<1> DEFINE trail == <<SubmitEntry, AutoApproveEntry>>
<1>1. SubmitEntry \in Entry /\ AutoApproveEntry \in Entry
  BY SubmitEntries DEF Entry, States, FSMEvents, Authorities
<1>2. /\ Len(trail) = 2 /\ trail[1] = SubmitEntry /\ trail[2] = AutoApproveEntry
      /\ trail \in Seq(Entry) /\ trail # <<>>
  BY <1>1
<1> HIDE DEF trail
<1>3. IsPath(trail)
  BY <1>2, SubmitEntries DEF IsPath, TransitionTable
<1>4. IsStaged(trail)
  BY <1>2, SubmitEntries, Stages DEF IsStaged
<1>5. IsAuthorised(trail, "AUTO_APPROVE")
  BY <1>2, SubmitEntries DEF IsAuthorised
<1>6. trail[Len(trail)].to = "APPROVED"
  BY <1>2, SubmitEntries
<1>7. RequestOK([state |-> "APPROVED", tier |-> "AUTO_APPROVE", trail |-> trail])
  BY <1>2, <1>3, <1>4, <1>5, <1>6 DEF RequestOK, Request, States, Tiers
<1>8. QED
  BY <1>7 DEF trail

LEMMA SubmitKeeps ==
  ASSUME WorkflowInv, NEW t \in Threads, NEW r \in Requests, NEW tier \in Tiers,
         NEW auto \in BOOLEAN, Submit(t, r, tier, auto)
  PROVE  WorkflowInv'
<1> DEFINE new == requests'[r]
<1>t. CoreTyped /\ LockOK /\ TrailIsPath /\ TrailStaged /\ ApprovalAuthorised
  BY DEF WorkflowInv
<1>1. /\ pc[t] = "idle" /\ lock = None /\ lock' = None
      /\ pc' = [pc EXCEPT ![t] = "build"]
      /\ \A q \in Requests \ {r} : requests'[q] = requests[q]
  BY <1>t DEF Submit, Begin, Goto, CoreTyped
<1>2. RequestOK(new)
  <2>1. CASE tier = "AUTO_APPROVE" /\ auto
    <3>1. new = [state |-> "APPROVED", tier |-> "AUTO_APPROVE",
                 trail |-> <<SubmitEntry, AutoApproveEntry>>]
      BY <1>t, <2>1 DEF Submit, CoreTyped
    <3>2. QED
      BY <3>1, AutoApprovedOK
  <2>2. CASE ~(tier = "AUTO_APPROVE" /\ auto)
    <3>1. new = [state |-> "PENDING", tier |-> tier, trail |-> <<SubmitEntry>>]
      BY <1>t, <2>2 DEF Submit, CoreTyped
    <3>2. QED
      BY <3>1, SubmittedOK
  <2>3. QED
    BY <2>1, <2>2
<1>3. requests' \in [Requests -> Request]
  BY <1>t, <1>1, <1>2 DEF Submit, CoreTyped, RequestOK
<1>4. /\ about' \in [Threads -> WorkflowEvent \cup {None}]
      /\ about'[t] \in WorkflowEvent
      /\ \A u \in Threads \ {t} : about'[u] = about[u]
  BY <1>t DEF CoreTyped, Submit, Announce, WorkflowEvent, EventTypes
<1>5. CoreTyped'
  BY <1>1, <1>3, <1>4, <1>t DEF CoreTyped, Locations
<1>6. LockOK'
  BY <1>1, <1>t, WorkflowAssumption DEF LockOK, CoreTyped
<1>7. TrailIsPath'
  <2>1. ASSUME NEW q \in Requests \ {r} PROVE TrailState(q)' = TrailState(q)
    BY <1>1 DEF TrailState, MidTransition
  <2>2. new.state = TrailState(r)'
    BY <1>1, <1>2 DEF RequestOK, TrailState, MidTransition
  <2>3. QED
    BY <1>1, <1>2, <1>t, <2>1, <2>2 DEF TrailIsPath, RequestOK
<1>8. TrailStaged' /\ ApprovalAuthorised'
  BY <1>1, <1>2, <1>t DEF TrailStaged, ApprovalAuthorised, RequestOK
<1>9. QED
  BY <1>5, <1>6, <1>7, <1>8 DEF WorkflowInv

\* A trail that ends in a state with a successor can be continued: it has at
\* most two entries, and the next one starts at the next stage.
LEMMA NextStage ==
  ASSUME NEW trail \in Seq(Entry), trail # <<>>, IsPath(trail), IsStaged(trail),
         NEW event, CanTransition(trail[Len(trail)].to, event)
  PROVE  Len(trail) <= 2 /\ trail[Len(trail)].to = StageOf[Len(trail) + 1]
<1> DEFINE n == Len(trail)
           last == trail[n]
<1>1. n \in 1..3
  <2>1. n \in Nat /\ n # 0
    OBVIOUS
  <2>2. n <= 3
    BY DEF IsStaged
  <2> HIDE DEF n
  <2>3. QED
    BY <2>1, <2>2
<1>2. <<last.from, last.event, last.to>> \in TransitionTable
  BY <1>1 DEF IsPath
<1>3. last.from = StageOf[n]
  BY <1>1 DEF IsStaged
<1>4. last.to \notin TerminalStates
  BY NextStateInTable, TableTyped
<1>5. CASE n = 1
  <2>1. last.from = "DRAFT"
    BY <1>3, <1>5, Stages
  <2>2. last.to = "PENDING"
    BY <1>2, <1>4, <2>1 DEF TransitionTable, TerminalStates
  <2>3. QED
    BY <1>5, <2>2, Stages
<1>6. CASE n = 2
  <2>1. last.from = "PENDING"
    BY <1>3, <1>6, Stages
  <2>2. last.to = "APPROVED"
    BY <1>2, <1>4, <2>1 DEF TransitionTable, TerminalStates
  <2>3. QED
    BY <1>6, <2>2, Stages
<1>7. CASE n = 3
  <2>1. last.from = "APPROVED"
    BY <1>3, <1>7, Stages
  <2>2. last.to = "DISBURSED"
    BY <1>2, <2>1 DEF TransitionTable
  <2>3. QED
    BY <1>4, <2>2 DEF TerminalStates
<1>8. QED
  BY <1>1, <1>5, <1>6, <1>7

\* longer continues a good trail by one transition made with authority.
Continues(longer, trail, tier, event, role) ==
  /\ trail \in Seq(Entry) /\ trail # <<>>
  /\ IsPath(trail) /\ IsStaged(trail) /\ IsAuthorised(trail, tier)
  /\ CanTransition(trail[Len(trail)].to, event)
  /\ role \in Roles \cup {NoRole}
  /\ event = "APPROVE" => role = NoRole \/ RoleLevel(role) >= TierLevel(tier)
  /\ longer = Append(trail, TrailEntry(trail[Len(trail)].to, event, role))

LEMMA ContinuedTrail ==
  ASSUME NEW longer, NEW trail, NEW tier, NEW event, NEW role,
         Continues(longer, trail, tier, event, role)
  PROVE  /\ longer \in Seq(Entry) /\ Len(longer) = Len(trail) + 1 /\ longer # <<>>
         /\ longer[Len(longer)].from = trail[Len(trail)].to
         /\ IsPath(longer) /\ IsStaged(longer) /\ IsAuthorised(longer, tier)
<1> USE DEF Continues
<1> DEFINE n == Len(trail)
           entry == TrailEntry(trail[n].to, event, role)
<1>1. entry \in Entry
  BY EntryTyped DEF Authorities
<1>2. entry.from = trail[n].to /\ entry.event = event /\ entry.role = role
      /\ entry.to = NextState(trail[n].to, event)
  BY DEF TrailEntry
<1>3. <<entry.from, entry.event, entry.to>> \in TransitionTable
  BY <1>2, NextStateInTable
<1>4. n \in Nat /\ n # 0
  OBVIOUS
<1> HIDE DEF entry
<1>5. longer \in Seq(Entry) /\ Len(longer) = n + 1
  BY <1>1 DEF entry
<1>6. longer[n + 1] = entry /\ \A i \in 1..n : longer[i] = trail[i]
  BY <1>1 DEF entry
<1>7. \A i \in 1..Len(longer) : i \in 1..n \/ i = n + 1
  BY <1>4, <1>5
<1>8. IsPath(longer)
  <2> SUFFICES ASSUME NEW i \in 1..Len(longer)
               PROVE  /\ <<longer[i].from, longer[i].event, longer[i].to>> \in TransitionTable
                      /\ longer[i].from = IF i = 1 THEN "DRAFT" ELSE longer[i - 1].to
    BY DEF IsPath
  <2>1. CASE i \in 1..n
    <3>1. longer[i] = trail[i]
      BY <1>6, <2>1
    <3>2. i # 1 => longer[i - 1] = trail[i - 1]
      BY <1>4, <1>6, <2>1
    <3>3. QED
      BY <2>1, <3>1, <3>2 DEF IsPath
  <2>2. CASE i = n + 1
    <3>1. i # 1 /\ i - 1 = n /\ n \in 1..n
      BY <1>4, <2>2
    <3>2. longer[i] = entry /\ longer[i - 1] = trail[n]
      BY <1>6, <2>2, <3>1
    <3>3. QED
      BY <1>2, <1>3, <3>1, <3>2
  <2>3. QED
    BY <1>7, <2>1, <2>2
<1>9. IsStaged(longer)
  <2>1. n <= 2 /\ entry.from = StageOf[n + 1]
    BY <1>2, NextStage
  <2>2. QED
    BY <1>4, <1>5, <1>6, <1>7, <2>1 DEF IsStaged
<1>10. IsAuthorised(longer, tier)
  <2> SUFFICES ASSUME NEW i \in 1..Len(longer), longer[i].event = "APPROVE"
               PROVE  \/ longer[i].role = NoRole
                      \/ longer[i].role = System /\ tier = "AUTO_APPROVE"
                      \/ /\ longer[i].role \in Roles
                         /\ RoleLevel(longer[i].role) >= TierLevel(tier)
    BY DEF IsAuthorised
  <2>1. CASE i \in 1..n
    <3>1. longer[i] = trail[i]
      BY <1>6, <2>1
    <3>2. QED
      BY <2>1, <3>1 DEF IsAuthorised
  <2>2. CASE i = n + 1
    <3>1. longer[i] = entry
      BY <1>6, <2>2
    <3>2. QED
      BY <1>2, <3>1
  <2>3. QED
    BY <1>7, <2>1, <2>2
<1>11. longer # <<>> /\ longer[Len(longer)].from = trail[n].to
  BY <1>2, <1>4, <1>5, <1>6
<1>12. QED
  BY <1>5, <1>8, <1>9, <1>10, <1>11

LEMMA AppendKeeps ==
  ASSUME WorkflowInv, NEW t \in Threads, NEW r \in Requests,
         NEW event \in FSMEvents, NEW type \in EventTypes,
         NEW role \in Roles \cup {NoRole},
         event = "APPROVE" => role = NoRole \/ RoleLevel(role) >= TierLevel(requests[r].tier),
         AppendRecord(t, r, event, type, role)
  PROVE  WorkflowInv'
<1> DEFINE trail == requests[r].trail
           state == requests[r].state
           longer == Append(trail, TrailEntry(state, event, role))
<1>t. CoreTyped /\ LockOK /\ TrailIsPath /\ TrailStaged /\ ApprovalAuthorised
  BY DEF WorkflowInv
<1>1. /\ pc[t] = "idle" /\ lock = None /\ lock' = t
      /\ pc' = [pc EXCEPT ![t] = "commit"]
      /\ CanTransition(state, event)
  BY DEF AppendRecord, Begin, Goto
<1>2. trail # <<>> /\ state = trail[Len(trail)].to
  <2>1. state # "ABSENT"
    BY <1>1, NextStateInTable, TableTyped
  <2>2. ~MidTransition(r)
    BY <1>1 DEF MidTransition
  <2>3. QED
    BY <2>1, <2>2, <1>t DEF TrailIsPath, TrailState
<1>3. trail \in Seq(Entry)
  BY <1>t DEF CoreTyped, Request
<1>4. /\ longer \in Seq(Entry) /\ Len(longer) = Len(trail) + 1 /\ longer # <<>>
      /\ longer[Len(longer)].from = state
      /\ IsPath(longer) /\ IsStaged(longer) /\ IsAuthorised(longer, requests[r].tier)
  <2>1. IsPath(trail) /\ IsStaged(trail) /\ IsAuthorised(trail, requests[r].tier)
    BY <1>t DEF TrailIsPath, TrailStaged, ApprovalAuthorised
  <2>2. CanTransition(trail[Len(trail)].to, event)
    BY <1>1, <1>2
  <2>3. longer = Append(trail, TrailEntry(trail[Len(trail)].to, event, role))
    BY <1>2
  <2> DEFINE tier == requests[r].tier
  <2>4. event = "APPROVE" => role = NoRole \/ RoleLevel(role) >= TierLevel(tier)
    OBVIOUS
  <2>5. /\ IsPath(trail) /\ IsStaged(trail) /\ IsAuthorised(trail, tier)
        /\ trail # <<>> /\ trail \in Seq(Entry)
    BY <1>2, <1>3, <2>1
  <2>6. Continues(longer, trail, tier, event, role)
    BY <2>2, <2>3, <2>4, <2>5 DEF Continues
  <2> HIDE DEF trail, state, longer, tier
  <2>7. /\ longer \in Seq(Entry) /\ Len(longer) = Len(trail) + 1 /\ longer # <<>>
        /\ longer[Len(longer)].from = trail[Len(trail)].to
        /\ IsPath(longer) /\ IsStaged(longer) /\ IsAuthorised(longer, tier)
    BY <2>6, ContinuedTrail
  <2>8. QED
    BY <2>7, <1>2 DEF tier
<1>5. /\ requests'[r] = [requests[r] EXCEPT !.trail = longer]
      /\ \A q \in Requests \ {r} : requests'[q] = requests[q]
  BY <1>t DEF AppendRecord, CoreTyped
<1>6. /\ requests'[r].trail = longer /\ requests'[r].state = state
      /\ requests'[r].tier = requests[r].tier
  BY <1>t, <1>5 DEF CoreTyped, Request
<1>7. requests' \in [Requests -> Request]
  BY <1>t, <1>4 DEF AppendRecord, CoreTyped, Request
<1>8. about'[t] = [type |-> type, request |-> r, entry |-> Len(trail) + 1,
                   state |-> "ABSENT"]
  BY <1>t DEF AppendRecord, Announce, CoreTyped
<1>9. Len(trail) + 1 \in Nat
  BY <1>3
<1>10. /\ about' \in [Threads -> WorkflowEvent \cup {None}]
       /\ about'[t] \in WorkflowEvent
       /\ \A u \in Threads \ {t} : about'[u] = about[u]
  BY <1>t, <1>9 DEF CoreTyped, AppendRecord, Announce, WorkflowEvent
<1>11. CoreTyped'
  BY <1>1, <1>7, <1>10, <1>t DEF CoreTyped, Locations
<1> HIDE DEF longer
<1>12. LockOK'
  <2>1. \A u \in Threads : lock' = u <=> pc'[u] = "commit"
    BY <1>1, <1>t, WorkflowAssumption DEF LockOK, CoreTyped
  <2>2. about'[t].request = r /\ about'[t].entry = Len(longer)
    BY <1>4, <1>8
  <2>3. QED
    BY <1>1, <1>4, <1>6, <2>1, <2>2 DEF LockOK
<1>13. TrailIsPath'
  <2>1. MidTransition(r)'
    BY <1>1, <1>8, WorkflowAssumption DEF MidTransition
  <2>2. TrailState(r)' = state
    BY <1>4, <1>6, <2>1 DEF TrailState
  <2>3. ASSUME NEW q \in Requests \ {r} PROVE TrailState(q)' = TrailState(q)
    <3>1. ~MidTransition(q) /\ ~MidTransition(q)'
      BY <1>1, <1>8 DEF MidTransition
    <3>2. QED
      BY <1>5, <3>1 DEF TrailState
  <2>4. QED
    BY <1>4, <1>5, <1>6, <1>t, <2>2, <2>3 DEF TrailIsPath
<1>14. TrailStaged' /\ ApprovalAuthorised'
  BY <1>4, <1>5, <1>6, <1>t DEF TrailStaged, ApprovalAuthorised
<1>15. QED
  BY <1>11, <1>12, <1>13, <1>14 DEF WorkflowInv

LEMMA CommitKeeps ==
  ASSUME WorkflowInv, NEW t \in Threads, Commit(t)
  PROVE  WorkflowInv'
<1> DEFINE r == about[t].request
           trail == requests[r].trail
<1>t. CoreTyped /\ LockOK /\ TrailIsPath /\ TrailStaged /\ ApprovalAuthorised
  BY DEF WorkflowInv
<1>1. /\ lock = t /\ lock' = None
      /\ pc' = [pc EXCEPT ![t] = "build"] /\ about' = about
      /\ pc[t] = "commit"
  BY <1>t DEF Commit, Goto, LockOK
<1>2. about[t] \in WorkflowEvent /\ r \in Requests
  BY <1>1, <1>t DEF CoreTyped, WorkflowEvent
<1>3. trail # <<>> /\ about[t].entry = Len(trail) /\ trail \in Seq(Entry)
  BY <1>1, <1>2, <1>t DEF LockOK, CoreTyped, Request
<1>4. trail[Len(trail)] \in Entry
  BY <1>3
<1>5. /\ requests'[r] = [requests[r] EXCEPT !.state = trail[Len(trail)].to]
      /\ \A q \in Requests \ {r} : requests'[q] = requests[q]
  BY <1>2, <1>3, <1>t DEF Commit, CoreTyped
<1>6. /\ requests'[r].trail = trail /\ requests'[r].tier = requests[r].tier
      /\ requests'[r].state = trail[Len(trail)].to
  BY <1>2, <1>5, <1>t DEF CoreTyped, Request
<1>7. requests' \in [Requests -> Request]
  <2>1. trail[Len(trail)].to \in States
    BY <1>4 DEF Entry
  <2>2. requests' = [requests EXCEPT ![r].state = trail[Len(trail)].to]
    BY <1>3 DEF Commit
  <2>3. QED
    BY <2>1, <2>2, <1>t DEF CoreTyped, Request
<1>8. CoreTyped'
  BY <1>1, <1>2, <1>7, <1>t DEF CoreTyped, Locations
<1>9. LockOK'
  BY <1>1, <1>t, WorkflowAssumption DEF LockOK, CoreTyped
<1>10. TrailIsPath'
  <2>1. TrailState(r)' = trail[Len(trail)].to
    <3>1. \A q \in Requests : ~MidTransition(q)'
      BY <1>1 DEF MidTransition
    <3>2. ASSUME NEW q \in Requests, q = r PROVE TrailState(q)' = trail[Len(trail)].to
      BY <1>3, <1>6, <3>1, <3>2 DEF TrailState
    <3>3. r' = r
      BY <1>1
    <3>4. QED
      BY <1>2, <3>2, <3>3
  <2>2. ASSUME NEW q \in Requests, q # r PROVE TrailState(q)' = TrailState(q)
    <3>1. ~MidTransition(q) /\ ~MidTransition(q)'
      BY <1>1, <2>2 DEF MidTransition
    <3>2. requests'[q] = requests[q]
      BY <1>5, <2>2
    <3>3. QED
      BY <3>1, <3>2 DEF TrailState
  <2>3. QED
    BY <1>1, <1>5, <1>6, <1>t, <2>1, <2>2 DEF TrailIsPath
<1>11. TrailStaged' /\ ApprovalAuthorised'
  BY <1>5, <1>6, <1>t DEF TrailStaged, ApprovalAuthorised
<1>12. QED
  BY <1>8, <1>9, <1>10, <1>11 DEF WorkflowInv

-----------------------------------------------------------------------------
(* All steps *)

LEMMA InitWorkflow == Init => WorkflowInv
<1> SUFFICES ASSUME Init PROVE WorkflowInv
  OBVIOUS
<1> USE DEF Init
<1>1. CoreTyped
  BY DEF CoreTyped, Request, Tiers, Locations
<1>2. LockOK
  BY WorkflowAssumption DEF LockOK
<1>3. \A r \in Requests : requests[r].trail = <<>> /\ requests[r].state = "ABSENT"
  OBVIOUS
<1>4. TrailIsPath
  <2>1. IsPath(<<>>)
    BY DEF IsPath
  <2>2. \A r \in Requests : TrailState(r) = "ABSENT"
    BY <1>3 DEF TrailState
  <2>3. QED
    BY <1>3, <2>1, <2>2 DEF TrailIsPath
<1>5. TrailStaged /\ ApprovalAuthorised
  BY <1>3 DEF TrailStaged, IsStaged, ApprovalAuthorised, IsAuthorised
<1>6. QED
  BY <1>1, <1>2, <1>4, <1>5 DEF WorkflowInv

LEMMA NextWorkflow == WorkflowInv /\ [Next]_vars => WorkflowInv'
<1> SUFFICES ASSUME WorkflowInv, [Next]_vars PROVE WorkflowInv'
  OBVIOUS
<1>t. CoreTyped
  BY DEF WorkflowInv
<1>1. ASSUME NEW t \in Threads, NEW r \in Requests, NEW tier \in Tiers, NEW auto \in BOOLEAN,
             Submit(t, r, tier, auto)
      PROVE  WorkflowInv'
  BY <1>1, SubmitKeeps
<1>2. ASSUME NEW t \in Threads, NEW r \in Requests, NEW role \in Roles \cup {NoRole},
             Approve(t, r, role) \/ Reject(t, r, role) \/ Disburse(t, r)
      PROVE  WorkflowInv'
  <2>1. CASE Approve(t, r, role)
    <3>1. role = NoRole \/ RoleLevel(role) >= TierLevel(requests[r].tier)
      BY <2>1 DEF Approve, VerifyRoleAuthority
    <3>2. AppendRecord(t, r, "APPROVE", "REQUEST_APPROVED", role)
      BY <2>1 DEF Approve
    <3>3. QED
      BY <3>1, <3>2, AppendKeeps DEF FSMEvents, EventTypes
  <2>2. CASE Reject(t, r, role)
    BY <2>2, AppendKeeps DEF Reject, FSMEvents, EventTypes
  <2>3. CASE Disburse(t, r)
    BY <2>3, AppendKeeps DEF Disburse, FSMEvents, EventTypes
  <2>4. QED
    BY <1>2, <2>1, <2>2, <2>3
<1>3. ASSUME NEW t \in Threads, Commit(t) PROVE WorkflowInv'
  BY <1>3, CommitKeeps
<1>4. ASSUME NEW t \in Threads, NEW r \in Requests, GetRequest(t, r) PROVE WorkflowInv'
  <2>1. /\ about' \in [Threads -> WorkflowEvent \cup {None}] /\ about'[t] \in WorkflowEvent
        /\ \A u \in Threads \ {t} : about'[u] = about[u]
    BY <1>4, <1>t DEF GetRequest, Announce, CoreTyped, WorkflowEvent, EventTypes
  <2>2. pc[t] # "commit" /\ Goto(t, "respond") /\ UNCHANGED <<requests, lock>>
    BY <1>4 DEF GetRequest, Begin
  <2>3. QED
    BY <2>1, <2>2, CallGoesOn DEF Locations
<1>5. ASSUME NEW t \in Threads, BuildEvent(t) PROVE WorkflowInv'
  <2>1. about[t] \in WorkflowEvent /\ about[t].request \in Requests
    BY <1>5, <1>t DEF BuildEvent, CoreTyped, WorkflowEvent
  <2>2. requests[about[t].request].state \in States \cup {"ABSENT"}
    BY <2>1, <1>t DEF CoreTyped, Request
  <2>3. /\ about' \in [Threads -> WorkflowEvent \cup {None}] /\ about'[t] \in WorkflowEvent
        /\ \A u \in Threads \ {t} : about'[u] = about[u]
    BY <1>5, <2>1, <2>2, <1>t DEF BuildEvent, CoreTyped, WorkflowEvent
  <2>4. pc[t] # "commit" /\ Goto(t, "snapshot") /\ UNCHANGED <<requests, lock>>
    BY <1>5 DEF BuildEvent
  <2>5. QED
    BY <2>3, <2>4, CallGoesOn DEF Locations
<1>6. ASSUME NEW t \in Threads,
             SnapshotListeners(t) \/ Deliver(t) \/ FetchMetadata(t) \/ ReadState(t)
      PROVE  WorkflowInv'
  <2>1. about[t] \in WorkflowEvent /\ about' = about
    BY <1>6, <1>t DEF SnapshotListeners, Deliver, FetchMetadata, ReadState, CoreTyped
  <2>2. AfterBroadcast(t) \in {"respond", "fetch"}
    BY DEF AfterBroadcast
  <2>3. pc[t] # "commit" /\ UNCHANGED <<requests, lock>>
    BY <1>6 DEF SnapshotListeners, Deliver, FetchMetadata, ReadState
  <2>4. \E l \in {"deliver", "respond", "fetch", "respondTrail"} : Goto(t, l)
    BY <1>6, <2>2 DEF SnapshotListeners, Deliver, FetchMetadata, ReadState
  <2>5. PICK l \in {"deliver", "respond", "fetch", "respondTrail"} : Goto(t, l)
    BY <2>4
  <2>6. l \in Locations \ {"commit"}
    BY DEF Locations
  <2>7. about' \in [Threads -> WorkflowEvent \cup {None}] /\ about'[t] \in WorkflowEvent
    BY <2>1, <1>t DEF CoreTyped
  <2>8. QED
    BY <2>1, <2>3, <2>5, <2>6, <2>7, CallGoesOn
<1>7. ASSUME NEW t \in Threads, ReadTrail(t) PROVE WorkflowInv'
  <2>1. /\ about' \in [Threads -> WorkflowEvent \cup {None}]
        /\ \A u \in Threads \ {t} : about'[u] = about[u]
    BY <1>7, <1>t DEF ReadTrail, CoreTyped
  <2>2. pc[t] # "commit" /\ Goto(t, "idle") /\ UNCHANGED <<requests, lock>>
    BY <1>7 DEF ReadTrail
  <2>3. QED
    BY <2>1, <2>2, CallGoesOn DEF Locations
<1>8. CASE UNCHANGED <<requests, lock, pc, about>>
  BY <1>8, <1>t, RequestsUndisturbed DEF CoreTyped
<1>9. ASSUME NEW t \in Threads, NEW l \in Listeners, Subscribe(t, l) \/ Unsubscribe(t, l)
      PROVE  WorkflowInv'
  BY <1>8, <1>9 DEF Subscribe, Unsubscribe
<1>10. CASE UNCHANGED vars
  BY <1>8, <1>10 DEF vars
<1>11. QED
  BY <1>1, <1>2, <1>3, <1>4, <1>5, <1>6, <1>7, <1>9, <1>10 DEF Next, Invoke, Continue

LEMMA WorkflowInvariant == Spec => []WorkflowInv
  BY InitWorkflow, NextWorkflow, PTL DEF Spec
-----------------------------------------------------------------------------
(* The theorems *)

\* Whatever calls run concurrently, no approval is bypassed and the trail of
\* every request explains its state.
THEOREM NoApprovalBypass == Spec => []TrailIsPath
<1>1. WorkflowInv => TrailIsPath
  BY DEF WorkflowInv
<1>2. QED
  BY WorkflowInvariant, <1>1, PTL

\* Funds are disbursed only after exactly one approval, in which no claimed
\* role reaches above its tier and the system none but its own; it says nothing
\* about the tier of an approval by a caller who claims no role.
THEOREM DisbursementApprovedOnce == Spec => []DisbursedWasApproved
<1>1. WorkflowInv => DisbursedWasApproved
  <2> SUFFICES ASSUME WorkflowInv, NEW r \in Requests
               PROVE  /\ \A i, j \in Approvals(r) : i = j
                      /\ \A i \in Approvals(r) :
                           LET role == requests[r].trail[i].role IN
                           /\ role = System => requests[r].tier = "AUTO_APPROVE"
                           /\ role \notin {System, NoRole} =>
                                RoleLevel(role) >= TierLevel(requests[r].tier)
                      /\ requests[r].state = "DISBURSED" => Approvals(r) # {}
    BY DEF DisbursedWasApproved
  <2> DEFINE trail == requests[r].trail
             n == Len(trail)
             approvals == {i \in DOMAIN trail : trail[i].event = "APPROVE"}
  <2>1. trail \in Seq(Entry) /\ DOMAIN trail = 1..n /\ n \in Nat
    BY DEF WorkflowInv, CoreTyped, Request
  <2>2. IsPath(trail) /\ IsStaged(trail) /\ IsAuthorised(trail, requests[r].tier)
        /\ requests[r].state = TrailState(r)
    BY DEF WorkflowInv, TrailIsPath, TrailStaged, ApprovalAuthorised
  <2>3. requests[r].state = "DISBURSED" =>
          n # 0 /\ (trail[n].from = "DISBURSED" \/ trail[n].to = "DISBURSED")
    BY <2>1, <2>2 DEF TrailState
  <2>4. n <= 3 /\ \A i \in 1..n : trail[i].from = StageOf[i]
    BY <2>2 DEF IsStaged
  <2>5. \A i \in 1..n : /\ <<trail[i].from, trail[i].event, trail[i].to>> \in TransitionTable
                        /\ trail[i].from = IF i = 1 THEN "DRAFT" ELSE trail[i - 1].to
    BY <2>2 DEF IsPath
  <2>6. \A i \in approvals :
          \/ trail[i].role = NoRole
          \/ trail[i].role = System /\ requests[r].tier = "AUTO_APPROVE"
          \/ trail[i].role \in Roles
             /\ RoleLevel(trail[i].role) >= TierLevel(requests[r].tier)
    BY <2>1, <2>2 DEF IsAuthorised
  <2> HIDE DEF trail, n
  <2>7. \A i \in approvals : i = 2
    <3> SUFFICES ASSUME NEW i \in 1..n, trail[i].event = "APPROVE" PROVE i = 2
      BY <2>1
    <3>1. trail[i].from = "PENDING"
      BY <2>5 DEF TransitionTable
    <3>2. i = 1 \/ i = 2 \/ i = 3
      BY <2>1, <2>4
    <3>3. QED
      BY <2>4, <3>1, <3>2, Stages
  <2>8. requests[r].state = "DISBURSED" => 2 \in approvals
    <3> SUFFICES ASSUME requests[r].state = "DISBURSED" PROVE 2 \in approvals
      OBVIOUS
    <3>1. n \in 1..n
      BY <2>1, <2>3
    <3>2. trail[n].from = "APPROVED"
      BY <2>3, <2>5, <3>1 DEF TransitionTable
    <3>3. n = 1 \/ n = 2 \/ n = 3
      BY <2>1, <2>3, <2>4
    <3>4. n = 3
      BY <2>4, <3>1, <3>2, <3>3, Stages
    <3>5. trail[2].to = "APPROVED" /\ 2 \in 1..n
      BY <2>5, <3>1, <3>2, <3>4
    <3>6. trail[2].event = "APPROVE"
      BY <2>5, <3>5 DEF TransitionTable
    <3>7. QED
      BY <2>1, <3>5, <3>6
  <2>9. Approvals(r) = approvals
    BY DEF Approvals, trail
  <2>10. ASSUME NEW role, role = System, RoleLevel(role) >= TierLevel(requests[r].tier)
         PROVE  requests[r].tier = "AUTO_APPROVE"
    <3>1. RoleLevel(role) = 0
      BY <2>10 DEF RoleLevel, System
    <3>2. requests[r].tier \in Tiers
      BY DEF WorkflowInv, CoreTyped, Request
    <3>3. QED
      BY <2>10, <3>1, <3>2 DEF Tiers, TierLevel
  <2>11. ASSUME NEW i \in approvals
         PROVE  /\ trail[i].role = System => requests[r].tier = "AUTO_APPROVE"
                /\ trail[i].role \notin {System, NoRole} =>
                     RoleLevel(trail[i].role) >= TierLevel(requests[r].tier)
    <3>1. System # NoRole
      BY DEF System, NoRole
    <3> HIDE DEF approvals
    <3>2. QED
      BY <2>6, <2>10, <3>1
  <2> HIDE DEF approvals
  <2>12. \A i, j \in approvals : i = j
    BY <2>7
  <2>13. QED
    BY <2>8, <2>9, <2>11, <2>12 DEF trail
<1>2. QED
  BY WorkflowInvariant, <1>1, PTL

\* In a terminal state neither the state nor the trail of a request changes.
THEOREM TerminalForever == Spec => TerminalIsFinal
<1> DEFINE Final == \A r \in Requests :
                      requests[r].state \in TerminalStates => requests'[r] = requests[r]
<1>1. WorkflowInv /\ [Next]_vars => Final
  <2> SUFFICES ASSUME WorkflowInv, [Next]_vars, NEW r \in Requests,
                      requests[r].state \in TerminalStates
               PROVE  requests'[r] = requests[r]
    OBVIOUS
  <2>t. requests \in [Requests -> Request]
    BY DEF WorkflowInv, CoreTyped
  <2>1. ASSUME NEW t \in Threads, NEW q \in Requests, NEW tier \in Tiers, NEW auto \in BOOLEAN,
               Submit(t, q, tier, auto)
        PROVE  requests'[r] = requests[r]
    <3>1. q # r
      BY <2>1 DEF Submit, TerminalStates
    <3>2. QED
      BY <2>1, <2>t, <3>1 DEF Submit
  <2>2. ASSUME NEW t \in Threads, NEW q \in Requests, NEW event, NEW type, NEW role,
               AppendRecord(t, q, event, type, role)
        PROVE  requests'[r] = requests[r]
    <3>1. CanTransition(requests[q].state, event)
      BY <2>2 DEF AppendRecord
    <3>2. requests[q].state \notin TerminalStates
      BY <3>1, NextStateInTable, TableTyped
    <3>3. QED
      BY <2>2, <2>t, <3>2 DEF AppendRecord
  <2>3. ASSUME NEW t \in Threads, Commit(t) PROVE requests'[r] = requests[r]
    <3>1. about[t].request # r
      <4> SUFFICES ASSUME about[t].request = r PROVE FALSE
        OBVIOUS
      <4>1. lock = t /\ requests[r].trail # <<>>
        BY <2>3 DEF Commit, WorkflowInv, LockOK
      <4>2. MidTransition(r)
        BY <4>1, WorkflowAssumption DEF MidTransition
      <4>3. requests[r].state = requests[r].trail[Len(requests[r].trail)].from
        BY <4>1, <4>2 DEF WorkflowInv, TrailIsPath, TrailState
      <4>4. requests[r].trail \in Seq(Entry) /\ IsPath(requests[r].trail)
        BY <2>t DEF Request, WorkflowInv, TrailIsPath
      <4>5. Len(requests[r].trail) \in 1..Len(requests[r].trail)
        BY <4>1, <4>4
      <4>6. QED
        BY <4>3, <4>4, <4>5, TableTyped DEF IsPath
    <3>2. QED
      BY <2>3, <2>t, <3>1 DEF Commit
  <2>4. CASE UNCHANGED requests
    BY <2>4
  <2>5. QED
    BY <2>1, <2>2, <2>3, <2>4
    DEF Next, Invoke, Continue, Approve, Reject, Disburse, GetRequest, Subscribe, Unsubscribe,
        BuildEvent, SnapshotListeners, Deliver, FetchMetadata, ReadState, ReadTrail, vars
<1>2. QED
  BY <1>1, WorkflowInvariant, PTL DEF Spec, TerminalIsFinal

-----------------------------------------------------------------------------
(* Type correctness of the listeners, the responses and the histories *)

FeedTyped ==
  /\ subscribers \in Seq(Callbacks)
  /\ todo \in [Threads -> Seq(Callbacks)]
  /\ reply \in [Threads -> Reply \cup {None}]
  /\ delivered \in [Callbacks -> SUBSET WorkflowEvent]
  /\ feed \in SUBSET WorkflowEvent
  /\ \A t \in Threads : pc[t] = "deliver" => todo[t] # <<>>
  /\ \A t \in Threads : pc[t] = "respondTrail" => reply[t] \in Reply

\* A thread that goes on moves alone.
LEMMA MovesAlone ==
  ASSUME CoreTyped, NEW t \in Threads, NEW l, Goto(t, l)
  PROVE  pc'[t] = l /\ \A u \in Threads \ {t} : pc'[u] = pc[u]
  BY DEF CoreTyped, Goto

LEMMA InitFeed == Init => FeedTyped
<1> SUFFICES ASSUME Init PROVE FeedTyped
  OBVIOUS
<1>1. subscribers \in Seq(Callbacks)
  BY DEF Init, Callbacks
<1>2. QED
  BY <1>1 DEF Init, FeedTyped

LEMMA NextFeed == WorkflowInv /\ FeedTyped /\ [Next]_vars => FeedTyped'
<1> SUFFICES ASSUME WorkflowInv, FeedTyped, [Next]_vars PROVE FeedTyped'
  OBVIOUS
<1>t. CoreTyped
  BY DEF WorkflowInv
<1>1. ASSUME NEW t \in Threads, NEW l \in Locations \ {"deliver", "respondTrail"}, Goto(t, l),
             UNCHANGED <<subscribers, todo, reply, delivered, feed>>
      PROVE  FeedTyped'
  BY <1>1, <1>t DEF CoreTyped, FeedTyped, Goto
<1>2. ASSUME NEW t \in Threads, NEW r \in Requests, NEW tier \in Tiers, NEW auto \in BOOLEAN,
             Submit(t, r, tier, auto)
      PROVE  FeedTyped'
  BY <1>1, <1>2 DEF Submit, Locations
<1>3. ASSUME NEW t \in Threads, NEW r \in Requests, NEW role \in Roles \cup {NoRole},
             Approve(t, r, role) \/ Reject(t, r, role) \/ Disburse(t, r)
      PROVE  FeedTyped'
  <2>1. Goto(t, "commit") /\ UNCHANGED <<subscribers, todo, reply, delivered, feed>>
    BY <1>3 DEF Approve, Reject, Disburse, AppendRecord
  <2>2. QED
    BY <1>1, <2>1 DEF Locations
<1>4. ASSUME NEW t \in Threads, NEW r \in Requests, GetRequest(t, r) PROVE FeedTyped'
  BY <1>1, <1>4 DEF GetRequest, Locations
<1>5. ASSUME NEW t \in Threads, Commit(t) \/ BuildEvent(t) \/ FetchMetadata(t)
      PROVE  FeedTyped'
  BY <1>1, <1>5 DEF Commit, BuildEvent, FetchMetadata, Locations
<1>6. ASSUME NEW t \in Threads, SnapshotListeners(t) PROVE FeedTyped'
  <2>1. AfterBroadcast(t) \in {"respond", "fetch"}
    BY DEF AfterBroadcast
  <2>2. /\ todo' = [todo EXCEPT ![t] = subscribers]
        /\ UNCHANGED <<subscribers, reply, delivered, feed>>
    BY <1>6 DEF SnapshotListeners
  <2>3. /\ pc'[t] # "respondTrail" /\ (pc'[t] = "deliver" => subscribers # <<>>)
        /\ \A u \in Threads \ {t} : pc'[u] = pc[u]
    BY <1>6, <1>t, <2>1, MovesAlone DEF SnapshotListeners
  <2>4. QED
    BY <2>2, <2>3 DEF FeedTyped
<1>7. ASSUME NEW t \in Threads, Deliver(t) PROVE FeedTyped'
  <2> DEFINE l == Head(todo[t])
  <2>1. todo[t] \in Seq(Callbacks) /\ todo[t] # <<>>
    BY <1>7 DEF Deliver, FeedTyped
  <2>2. l \in Callbacks /\ Tail(todo[t]) \in Seq(Callbacks)
    BY <2>1
  <2>3. about[t] \in WorkflowEvent
    BY <1>7, <1>t DEF Deliver, CoreTyped
  <2>4. AfterBroadcast(t) \in {"respond", "fetch"}
    BY DEF AfterBroadcast
  <2>5. /\ pc'[t] # "respondTrail" /\ (pc'[t] = "deliver" => Tail(todo[t]) # <<>>)
        /\ \A u \in Threads \ {t} : pc'[u] = pc[u]
    BY <1>7, <1>t, <2>4, MovesAlone DEF Deliver
  <2>6. /\ delivered' = [delivered EXCEPT ![l] = @ \cup {about[t]}]
        /\ feed' \in {feed, feed \cup {about[t]}}
        /\ todo' = [todo EXCEPT ![t] = Tail(@)]
        /\ UNCHANGED <<subscribers, reply>>
    BY <1>7 DEF Deliver
  <2> HIDE DEF l
  <2>7. delivered' \in [Callbacks -> SUBSET WorkflowEvent]
    BY <2>2, <2>3, <2>6 DEF FeedTyped
  <2>8. feed' \in SUBSET WorkflowEvent
    BY <2>3, <2>6 DEF FeedTyped
  <2>9. todo' \in [Threads -> Seq(Callbacks)]
    BY <2>2, <2>6 DEF FeedTyped
  <2>10. \A u \in Threads : pc'[u] = "deliver" => todo'[u] # <<>>
    BY <2>5, <2>6 DEF FeedTyped
  <2>11. \A u \in Threads : pc'[u] = "respondTrail" => reply'[u] \in Reply
    BY <2>5, <2>6 DEF FeedTyped
  <2>12. QED
    BY <2>6, <2>7, <2>8, <2>9, <2>10, <2>11 DEF FeedTyped
<1>8. ASSUME NEW t \in Threads, ReadState(t) PROVE FeedTyped'
  <2> DEFINE r == about[t].request
             answer == [request |-> r, state |-> requests[r].state, trail |-> <<>>]
  <2>1. r \in Requests
    BY <1>8, <1>t DEF ReadState, CoreTyped, WorkflowEvent
  <2>2. answer \in Reply
    BY <2>1, <1>t DEF CoreTyped, Request, Reply
  <2>3. reply' = [reply EXCEPT ![t] = answer] /\ UNCHANGED <<subscribers, todo, delivered, feed>>
    BY <1>8 DEF ReadState
  <2> HIDE DEF answer
  <2>4. pc'[t] = "respondTrail" /\ \A u \in Threads \ {t} : pc'[u] = pc[u]
    BY <1>8, <1>t, MovesAlone DEF ReadState
  <2>5. QED
    BY <2>2, <2>3, <2>4 DEF FeedTyped
<1>9. ASSUME NEW t \in Threads, ReadTrail(t) PROVE FeedTyped'
  <2>1. about[t].request \in Requests /\ reply[t] \in Reply
    BY <1>9, <1>t DEF ReadTrail, CoreTyped, WorkflowEvent, FeedTyped
  <2>2. [reply[t] EXCEPT !.trail = requests[about[t].request].trail] \in Reply
    BY <2>1, <1>t DEF CoreTyped, Request, Reply
  <2>3. reply' \in [Threads -> Reply \cup {None}] /\ \A u \in Threads \ {t} : reply'[u] = reply[u]
    BY <1>9, <2>2 DEF ReadTrail, FeedTyped
  <2>4. pc'[t] = "idle" /\ \A u \in Threads \ {t} : pc'[u] = pc[u]
    BY <1>9, <1>t, MovesAlone DEF ReadTrail
  <2>5. QED
    BY <1>9, <2>3, <2>4 DEF ReadTrail, FeedTyped
<1>10. ASSUME NEW t \in Threads, NEW l \in Listeners, Subscribe(t, l) PROVE FeedTyped'
  <2>1. subscribers' \in Seq(Callbacks)
    BY <1>10 DEF Subscribe, FeedTyped, Callbacks
  <2>2. QED
    BY <1>10, <2>1 DEF Subscribe, FeedTyped
<1>11. ASSUME NEW t \in Threads, NEW l \in Listeners, Unsubscribe(t, l) PROVE FeedTyped'
  <2>1. PICK i \in DOMAIN subscribers :
          subscribers' = SubSeq(subscribers, 1, i - 1)
                           \o SubSeq(subscribers, i + 1, Len(subscribers))
    BY <1>11 DEF Unsubscribe
  <2>2. subscribers \in Seq(Callbacks) /\ i \in 1..Len(subscribers) /\ Len(subscribers) \in Nat
    BY DEF FeedTyped
  <2>3. /\ SubSeq(subscribers, 1, i - 1) \in Seq(Callbacks)
        /\ SubSeq(subscribers, i + 1, Len(subscribers)) \in Seq(Callbacks)
    BY <2>2, SubSeqProperties
  <2>4. subscribers' \in Seq(Callbacks)
    BY <2>1, <2>3, ConcatProperties
  <2>5. QED
    BY <1>11, <2>4 DEF Unsubscribe, FeedTyped
<1>12. CASE UNCHANGED vars
  BY <1>12 DEF vars, FeedTyped
<1>13. QED
  BY <1>2, <1>3, <1>4, <1>5, <1>6, <1>7, <1>8, <1>9, <1>10, <1>11, <1>12
  DEF Next, Invoke, Continue

\* Requests, listeners, responses and histories keep their types under all
\* interleavings of the endpoints' threads.
THEOREM TypeCorrect == Spec => []TypeOK
<1>1. WorkflowInv /\ FeedTyped => TypeOK
  BY DEF WorkflowInv, CoreTyped, FeedTyped, TypeOK
<1>2. QED
  BY InitWorkflow, NextWorkflow, InitFeed, NextFeed, <1>1, PTL DEF Spec

-----------------------------------------------------------------------------
(* What lock-free readers see: events and responses *)

\* The trail reaches the state at its n-th entry or later.
Since(trail, n, state) == \E i \in n..Len(trail) : trail[i].to = state

\* A thread that will announce or answer is about a published request; the
\* state it will read, has read or has answered is one the trail accounts for.
ReaderOK(t) ==
  LET r == about[t].request
      n == about[t].entry
  IN  /\ pc[t] \in {"build", "snapshot", "deliver", "fetch", "respond"} =>
           requests[r].state # "ABSENT"
      /\ pc[t] \in {"commit", "build", "snapshot", "deliver"} => n # 0
      /\ pc[t] = "build" => Since(requests[r].trail, n, requests[r].state)
      /\ pc[t] \in {"snapshot", "deliver"} => Since(requests[r].trail, n, about[t].state)
      /\ pc[t] = "respondTrail" => Since(requests[r].trail, 1, reply[t].state)
      /\ pc[t] = "idle" /\ reply[t] # None =>
           \E i \in DOMAIN reply[t].trail : reply[t].trail[i].to = reply[t].state

ReadersInv ==
  /\ \A r \in Requests :
       requests[r].state # "ABSENT" => Since(requests[r].trail, 1, requests[r].state)
  /\ \A t \in Threads : ReaderOK(t)
  /\ \A l \in Callbacks : \A e \in delivered[l] :
       e.entry # 0 /\ Since(requests[e.request].trail, e.entry, e.state)

\* All that a step can do to a request: nothing, publish it, append the record
\* of a transition, or assign the state that the last record leads to.
Moves(r) ==
  LET old == requests[r]
      new == requests'[r]
  IN  \/ new = old
      \/ old.trail = <<>> /\ new.state # "ABSENT" /\ Since(new.trail, Len(new.trail), new.state)
         /\ Len(new.trail) \in Nat \ {0}
      \/ /\ new.state = old.state /\ Len(new.trail) = Len(old.trail) + 1
         /\ \A i \in 1..Len(old.trail) : new.trail[i] = old.trail[i]
      \/ /\ new.trail = old.trail /\ old.trail # <<>>
         /\ new.state = old.trail[Len(old.trail)].to /\ new.state # "ABSENT"

LEMMA RequestsMove ==
  ASSUME WorkflowInv, [Next]_vars, NEW r \in Requests
  PROVE  Moves(r)
<1>t. requests \in [Requests -> Request] /\ CoreTyped
  BY DEF WorkflowInv, CoreTyped
<1>0. requests[r].trail \in Seq(Entry) /\ Len(requests[r].trail) \in Nat
  BY <1>t DEF Request
<1>1. ASSUME NEW t \in Threads, NEW q \in Requests, NEW tier \in Tiers, NEW auto \in BOOLEAN,
             Submit(t, q, tier, auto)
      PROVE  Moves(r)
  <2>1. CASE q # r
    BY <1>1, <1>t, <2>1 DEF Submit, Moves
  <2>2. CASE q = r
    <3>1. requests[r].trail = <<>>
      <4> SUFFICES ASSUME requests[r].trail # <<>> PROVE FALSE
        OBVIOUS
      <4> DEFINE last == requests[r].trail[Len(requests[r].trail)]
      <4>1. last \in Entry
        BY <1>0
      <4>2. requests[r].state = last.from \/ requests[r].state = last.to
        BY DEF WorkflowInv, TrailIsPath, TrailState
      <4>3. QED
        BY <1>1, <2>2, <4>1, <4>2 DEF Submit, Entry, States
    <3>2. CASE tier = "AUTO_APPROVE" /\ auto
      <4>1. requests'[r] = [state |-> "APPROVED", tier |-> tier,
                            trail |-> <<SubmitEntry, AutoApproveEntry>>]
        BY <1>1, <1>t, <2>2, <3>2 DEF Submit
      <4>2. RequestOK(requests'[r]) /\ Len(requests'[r].trail) = 2
        BY <4>1, <3>2, AutoApprovedOK
      <4>3. requests'[r].trail[2].to = requests'[r].state /\ 2 \in 2..2
        BY <4>2 DEF RequestOK
      <4>4. Since(requests'[r].trail, Len(requests'[r].trail), requests'[r].state)
        BY <4>2, <4>3 DEF Since
      <4>5. QED
        BY <3>1, <4>1, <4>2, <4>4 DEF Moves
    <3>3. CASE ~(tier = "AUTO_APPROVE" /\ auto)
      <4>1. requests'[r] = [state |-> "PENDING", tier |-> tier, trail |-> <<SubmitEntry>>]
        BY <1>1, <1>t, <2>2, <3>3 DEF Submit
      <4>2. RequestOK(requests'[r]) /\ Len(requests'[r].trail) = 1
        BY <4>1, SubmittedOK
      <4>3. requests'[r].trail[1].to = requests'[r].state /\ 1 \in 1..1
        BY <4>2 DEF RequestOK
      <4>4. Since(requests'[r].trail, Len(requests'[r].trail), requests'[r].state)
        BY <4>2, <4>3 DEF Since
      <4>5. QED
        BY <3>1, <4>1, <4>2, <4>4 DEF Moves
    <3>4. QED
      BY <3>2, <3>3
  <2>3. QED
    BY <2>1, <2>2
<1>2. ASSUME NEW t \in Threads, NEW q \in Requests, NEW event, NEW type, NEW role \in Authorities,
             AppendRecord(t, q, event, type, role)
      PROVE  Moves(r)
  <2> DEFINE entry == TrailEntry(requests[q].state, event, role)
  <2>1. entry \in Entry
    BY <1>2, EntryTyped DEF AppendRecord
  <2> HIDE DEF entry
  <2>2. requests' = [requests EXCEPT ![q].trail = Append(@, entry)]
    BY <1>2 DEF AppendRecord, entry
  <2>3. CASE q # r
    BY <1>t, <2>2, <2>3 DEF Moves
  <2>4. CASE q = r
    <3>1. requests'[r] = [requests[r] EXCEPT !.trail = Append(requests[r].trail, entry)]
      BY <1>t, <2>2, <2>4
    <3>2. requests'[r].state = requests[r].state
          /\ requests'[r].trail = Append(requests[r].trail, entry)
      BY <1>t, <3>1 DEF Request
    <3>3. QED
      BY <1>0, <2>1, <3>2 DEF Moves
  <2>5. QED
    BY <2>3, <2>4
<1>3. ASSUME NEW t \in Threads, Commit(t) PROVE Moves(r)
  <2> DEFINE q == about[t].request
             trail == requests[q].trail
  <2>1. lock = t /\ q \in Requests
    BY <1>3, <1>t DEF Commit, WorkflowInv, LockOK, CoreTyped, WorkflowEvent
  <2>2. trail # <<>> /\ about[t].entry = Len(trail) /\ trail \in Seq(Entry)
    BY <2>1, <1>t DEF WorkflowInv, LockOK, Request
  <2>3. trail[Len(trail)] \in Entry
    BY <2>2
  <2>4. trail[Len(trail)].to # "ABSENT"
    BY <2>3 DEF Entry, States
  <2>5. requests' = [requests EXCEPT ![q].state = trail[Len(trail)].to]
    BY <1>3, <2>2 DEF Commit
  <2>6. CASE q # r
    BY <1>t, <2>1, <2>5, <2>6 DEF Moves
  <2>7. CASE q = r
    <3>1. requests'[r].trail = requests[r].trail /\ requests'[r].state = trail[Len(trail)].to
      BY <1>t, <2>5, <2>7 DEF Request
    <3>2. QED
      BY <2>2, <2>4, <2>7, <3>1 DEF Moves
  <2>8. QED
    BY <2>6, <2>7
<1>4. CASE UNCHANGED requests
  BY <1>4 DEF Moves
<1>5. ASSUME NEW t \in Threads, NEW q \in Requests, NEW role \in Roles \cup {NoRole},
             Approve(t, q, role) \/ Reject(t, q, role) \/ Disburse(t, q)
      PROVE  Moves(r)
  BY <1>2, <1>5 DEF Approve, Reject, Disburse, Authorities
<1>6. QED
  BY <1>1, <1>3, <1>4, <1>5
  DEF Next, Invoke, Continue, GetRequest, Subscribe, Unsubscribe,
      BuildEvent, SnapshotListeners, Deliver, FetchMetadata, ReadState, ReadTrail, vars

\* A trail never loses what it accounts for, and a published request stays
\* published.
LEMMA NothingForgotten ==
  ASSUME WorkflowInv, [Next]_vars, NEW r \in Requests
  PROVE  /\ \A n \in Nat \ {0} : \A state :
              Since(requests[r].trail, n, state) => Since(requests'[r].trail, n, state)
         /\ \A n \in Nat \ {0} :
              Since(requests[r].trail, n, requests[r].state) =>
                Since(requests'[r].trail, n, requests'[r].state)
         /\ requests[r].state # "ABSENT" => requests'[r].state # "ABSENT"
<1> DEFINE k == Len(requests[r].trail)
<1>1. Moves(r)
  BY RequestsMove
<1>2. k \in Nat /\ requests[r].trail \in Seq(Entry)
  BY DEF WorkflowInv, CoreTyped, Request
<1>3. CASE requests'[r] = requests[r]
  BY <1>3 DEF Since
<1>4. CASE /\ requests[r].trail = <<>> /\ requests'[r].state # "ABSENT"
           /\ Since(requests'[r].trail, Len(requests'[r].trail), requests'[r].state)
  <2>1. \A n \in Nat \ {0} : \A state : ~Since(requests[r].trail, n, state)
    BY <1>4 DEF Since
  <2>2. QED
    BY <1>4, <2>1
<1>5. CASE /\ requests'[r].state = requests[r].state /\ Len(requests'[r].trail) = k + 1
           /\ \A i \in 1..k : requests'[r].trail[i] = requests[r].trail[i]
  <2> HIDE DEF k
  <2>1. ASSUME NEW n \in Nat \ {0}, NEW state, Since(requests[r].trail, n, state)
        PROVE  Since(requests'[r].trail, n, state)
    <3>1. PICK i \in n..k : requests[r].trail[i].to = state
      BY <2>1 DEF Since, k
    <3>2. i \in n..(k + 1) /\ i \in 1..k
      BY <1>2, <3>1
    <3>3. QED
      BY <1>5, <3>1, <3>2 DEF Since
  <2>2. QED
    BY <1>5, <2>1
<1>6. CASE /\ requests'[r].trail = requests[r].trail /\ requests[r].trail # <<>>
           /\ requests'[r].state = requests[r].trail[Len(requests[r].trail)].to
           /\ requests'[r].state # "ABSENT"
  <2>1. ASSUME NEW n \in Nat \ {0}, NEW state, Since(requests[r].trail, n, state)
        PROVE  k \in n..k
    BY <1>2, <2>1 DEF Since
  <2>2. \A n \in Nat \ {0} : \A state :
          Since(requests[r].trail, n, state) => Since(requests'[r].trail, n, state)
    BY <1>6 DEF Since
  <2>3. ASSUME NEW n \in Nat \ {0}, Since(requests[r].trail, n, requests[r].state)
        PROVE  Since(requests'[r].trail, n, requests'[r].state)
    <3>1. k \in n..k
      BY <2>1, <2>3
    <3>2. QED
      BY <1>6, <3>1 DEF Since
  <2>4. QED
    BY <1>6, <2>2, <2>3
<1>7. QED
  BY <1>1, <1>3, <1>4, <1>5, <1>6 DEF Moves

\* The state of a published request is accounted for by its trail.
LEMMA NextAccounted ==
  ASSUME WorkflowInv, ReadersInv, [Next]_vars, NEW r \in Requests,
         requests'[r].state # "ABSENT"
  PROVE  Since(requests'[r].trail, 1, requests'[r].state)
<1>1. Moves(r) /\ (requests[r].state # "ABSENT" => Since(requests[r].trail, 1, requests[r].state))
  BY RequestsMove DEF ReadersInv
<1>2. CASE requests[r].state # "ABSENT"
  BY <1>1, <1>2, NothingForgotten
<1>3. CASE requests[r].state = "ABSENT"
  <2>1. requests[r].trail \in Seq(Entry) /\ Len(requests[r].trail) \in Nat
    BY DEF WorkflowInv, CoreTyped, Request
  <2>2. CASE requests[r].trail = <<>>
    <3>1. Len(requests'[r].trail) \in Nat \ {0}
          /\ Since(requests'[r].trail, Len(requests'[r].trail), requests'[r].state)
      BY <1>1, <1>3, <2>2 DEF Moves
    <3>2. QED
      BY <3>1 DEF Since
  <2>3. CASE requests[r].trail # <<>>
    <3>1. /\ requests'[r].trail = requests[r].trail
          /\ requests'[r].state = requests[r].trail[Len(requests[r].trail)].to
      BY <1>1, <1>3, <2>3 DEF Moves
    <3>2. Len(requests[r].trail) \in 1..Len(requests[r].trail)
      BY <2>1, <2>3
    <3>3. QED
      BY <3>1, <3>2 DEF Since
  <2>4. QED
    BY <2>2, <2>3
<1>4. QED
  BY <1>2, <1>3

\* A thread that does not move keeps its promise whatever the others do.
LEMMA ReaderKept ==
  ASSUME WorkflowInv, ReadersInv, [Next]_vars, NEW t \in Threads,
         pc'[t] = pc[t], about'[t] = about[t], reply'[t] = reply[t]
  PROVE  ReaderOK(t)'
<1> DEFINE r == about[t].request
           n == about[t].entry
<1>1. ReaderOK(t)
  BY DEF ReadersInv
<1>2. CASE pc[t] = "idle"
  BY <1>1, <1>2 DEF ReaderOK
<1>3. CASE pc[t] # "idle"
  <2>1. r \in Requests /\ n \in Nat /\ 1 \in Nat \ {0}
    BY <1>3 DEF WorkflowInv, CoreTyped, WorkflowEvent
  <2>2. /\ \A m \in Nat \ {0} : \A state :
             Since(requests[r].trail, m, state) => Since(requests'[r].trail, m, state)
        /\ \A m \in Nat \ {0} :
             Since(requests[r].trail, m, requests[r].state) =>
               Since(requests'[r].trail, m, requests'[r].state)
        /\ requests[r].state # "ABSENT" => requests'[r].state # "ABSENT"
    BY <2>1, NothingForgotten
  <2>3. QED
    BY <1>1, <1>3, <2>1, <2>2 DEF ReaderOK
<1>4. QED
  BY <1>2, <1>3

\* A step of a thread keeps the invariant when it keeps it for that thread and
\* for the event it delivers.
LEMMA ReadersKept ==
  ASSUME WorkflowInv, FeedTyped, ReadersInv, [Next]_vars, NEW t \in Threads,
         \A u \in Threads \ {t} : pc'[u] = pc[u] /\ about'[u] = about[u] /\ reply'[u] = reply[u],
         ReaderOK(t)',
         \A l \in Callbacks : \A e \in delivered'[l] \ delivered[l] :
            pc[t] = "deliver" /\ e = about[t]
  PROVE  ReadersInv'
<1>1. \A r \in Requests :
        requests'[r].state # "ABSENT" => Since(requests'[r].trail, 1, requests'[r].state)
  BY NextAccounted
<1>2. \A u \in Threads : ReaderOK(u)'
  BY ReaderKept
<1>3. ASSUME NEW l \in Callbacks, NEW e \in delivered'[l]
      PROVE  e.entry # 0 /\ Since(requests'[e.request].trail, e.entry, e.state)
  <2>1. e \in WorkflowEvent /\ e.entry # 0 /\ Since(requests[e.request].trail, e.entry, e.state)
    <3>1. CASE e \in delivered[l]
      BY <3>1 DEF ReadersInv, FeedTyped
    <3>2. CASE e \notin delivered[l]
      <4>1. pc[t] = "deliver" /\ e = about[t]
        BY <3>2
      <4>2. QED
        BY <4>1 DEF ReadersInv, ReaderOK, WorkflowInv, CoreTyped
    <3>3. QED
      BY <3>1, <3>2
  <2>2. e.request \in Requests /\ e.entry \in Nat \ {0}
    BY <2>1 DEF WorkflowEvent
  <2>3. QED
    BY <2>1, <2>2, NothingForgotten
<1>4. QED
  BY <1>1, <1>2, <1>3 DEF ReadersInv

LEMMA InitReaders == Init => ReadersInv
  BY DEF Init, ReadersInv, ReaderOK

LEMMA NextReaders ==
  WorkflowInv /\ FeedTyped /\ ReadersInv /\ [Next]_vars => ReadersInv'
<1> SUFFICES ASSUME WorkflowInv, FeedTyped, ReadersInv, [Next]_vars PROVE ReadersInv'
  OBVIOUS
<1>t. CoreTyped
  BY DEF WorkflowInv
<1>1. ASSUME NEW t \in Threads, NEW r \in Requests, NEW tier \in Tiers, NEW auto \in BOOLEAN,
             Submit(t, r, tier, auto)
      PROVE  ReadersInv'
  <2>1. pc'[t] = "build" /\ \A u \in Threads \ {t} : pc'[u] = pc[u]
    BY <1>1, <1>t, MovesAlone DEF Submit
  <2>2. /\ about'[t].request = r /\ about'[t].entry = Len(requests'[r].trail)
        /\ about'[t].entry # 0 /\ requests'[r].state # "ABSENT"
    BY <1>1, <1>t DEF Submit, Announce, CoreTyped
  <2>3. \A u \in Threads \ {t} : about'[u] = about[u]
    BY <1>1, <1>t DEF Submit, Announce, CoreTyped
  <2>4. requests[r].state = "ABSENT" /\ reply' = reply /\ delivered' = delivered
    BY <1>1 DEF Submit
  <2>5. Since(requests'[r].trail, Len(requests'[r].trail), requests'[r].state)
    <3>1. Moves(r)
      BY RequestsMove
    <3>2. requests[r].trail \in Seq(Entry)
      BY <1>t DEF CoreTyped, Request
    <3>3. \A k \in Nat : k \in k..k
      OBVIOUS
    <3>4. requests[r].trail # <<>> =>
            Since(requests[r].trail, Len(requests[r].trail),
                  requests[r].trail[Len(requests[r].trail)].to)
      BY <3>2, <3>3 DEF Since
    <3>5. QED
      BY <2>2, <2>4, <3>1, <3>4 DEF Moves
  <2>6. ReaderOK(t)'
    BY <2>1, <2>2, <2>5 DEF ReaderOK
  <2>7. QED
    BY <2>1, <2>3, <2>4, <2>6, ReadersKept
<1>2. ASSUME NEW t \in Threads, NEW r \in Requests, NEW role \in Roles \cup {NoRole},
             Approve(t, r, role) \/ Reject(t, r, role) \/ Disburse(t, r)
      PROVE  ReadersInv'
  <2>1. PICK event, type, by : AppendRecord(t, r, event, type, by)
    BY <1>2 DEF Approve, Reject, Disburse
  <2>2. pc'[t] = "commit" /\ \A u \in Threads \ {t} : pc'[u] = pc[u]
    BY <2>1, <1>t, MovesAlone DEF AppendRecord
  <2>3. requests[r].trail \in Seq(Entry)
    BY <1>t DEF CoreTyped, Request
  <2>4. about'[t].entry # 0 /\ \A u \in Threads \ {t} : about'[u] = about[u]
    BY <2>1, <2>3, <1>t DEF AppendRecord, Announce, CoreTyped
  <2>5. reply' = reply /\ delivered' = delivered
    BY <2>1 DEF AppendRecord
  <2>6. ReaderOK(t)'
    BY <2>2, <2>4 DEF ReaderOK
  <2>7. QED
    BY <2>2, <2>4, <2>5, <2>6, ReadersKept
<1>3. ASSUME NEW t \in Threads, Commit(t) PROVE ReadersInv'
  <2> DEFINE r == about[t].request
             trail == requests[r].trail
  <2>1. pc'[t] = "build" /\ \A u \in Threads \ {t} : pc'[u] = pc[u]
    BY <1>3, <1>t, MovesAlone DEF Commit
  <2>2. about' = about /\ reply' = reply /\ delivered' = delivered
    BY <1>3 DEF Commit
  <2>3. r \in Requests /\ trail \in Seq(Entry) /\ trail # <<>> /\ about[t].entry = Len(trail)
    BY <1>3, <1>t DEF Commit, CoreTyped, WorkflowEvent, Request, WorkflowInv, LockOK
  <2>4. Len(trail) \in Nat /\ Len(trail) # 0 /\ trail[Len(trail)] \in Entry
    BY <2>3
  <2>5. requests'[r].trail = trail /\ requests'[r].state = trail[Len(trail)].to
    BY <1>3, <1>t, <2>3 DEF Commit, CoreTyped, Request
  <2>6. requests'[r].state # "ABSENT"
    BY <2>4, <2>5 DEF Entry, States
  <2>7. Since(requests'[r].trail, about[t].entry, requests'[r].state)
    BY <2>3, <2>4, <2>5 DEF Since
  <2>8. ReaderOK(t)'
    BY <2>1, <2>2, <2>3, <2>4, <2>6, <2>7 DEF ReaderOK
  <2>9. QED
    BY <2>1, <2>2, <2>8, ReadersKept
<1>4. ASSUME NEW t \in Threads, BuildEvent(t) PROVE ReadersInv'
  <2>1. pc'[t] = "snapshot" /\ \A u \in Threads \ {t} : pc'[u] = pc[u]
    BY <1>4, <1>t, MovesAlone DEF BuildEvent
  <2>2. about[t] \in WorkflowEvent /\ ReaderOK(t) /\ pc[t] = "build"
    BY <1>4, <1>t DEF BuildEvent, CoreTyped, ReadersInv
  <2>3. /\ about'[t].request = about[t].request /\ about'[t].entry = about[t].entry
        /\ about'[t].state = requests[about[t].request].state
        /\ \A u \in Threads \ {t} : about'[u] = about[u]
    BY <1>4, <1>t, <2>2 DEF BuildEvent, CoreTyped, WorkflowEvent
  <2>4. requests' = requests /\ reply' = reply /\ delivered' = delivered
    BY <1>4 DEF BuildEvent
  <2>5. ReaderOK(t)'
    BY <2>1, <2>2, <2>3, <2>4 DEF ReaderOK
  <2>6. QED
    BY <2>1, <2>3, <2>4, <2>5, ReadersKept
<1>5. ASSUME NEW t \in Threads, SnapshotListeners(t) \/ Deliver(t) \/ FetchMetadata(t)
      PROVE  ReadersInv'
  <2>1. AfterBroadcast(t) \in {"respond", "fetch"}
    BY DEF AfterBroadcast
  <2>2. \E l \in {"deliver", "respond", "fetch"} :
          Goto(t, l) /\ (l = "deliver" => pc[t] \in {"snapshot", "deliver"})
    BY <1>5, <2>1 DEF SnapshotListeners, Deliver, FetchMetadata
  <2>3. PICK l \in {"deliver", "respond", "fetch"} :
          Goto(t, l) /\ (l = "deliver" => pc[t] \in {"snapshot", "deliver"})
    BY <2>2
  <2>4. pc'[t] = l /\ \A u \in Threads \ {t} : pc'[u] = pc[u]
    BY <2>3, <1>t, MovesAlone
  <2>5. requests' = requests /\ about' = about /\ reply' = reply
    BY <1>5 DEF SnapshotListeners, Deliver, FetchMetadata
  <2>6. ReaderOK(t) /\ pc[t] \in {"snapshot", "deliver", "fetch"}
    BY <1>5 DEF ReadersInv, SnapshotListeners, Deliver, FetchMetadata
  <2>7. ReaderOK(t)'
    BY <2>3, <2>4, <2>5, <2>6 DEF ReaderOK
  <2>8. \A c \in Callbacks : \A e \in delivered'[c] \ delivered[c] :
          pc[t] = "deliver" /\ e = about[t]
    <3>1. CASE Deliver(t)
      BY <3>1 DEF Deliver, FeedTyped
    <3>2. CASE SnapshotListeners(t) \/ FetchMetadata(t)
      BY <3>2 DEF SnapshotListeners, FetchMetadata
    <3>3. QED
      BY <1>5, <3>1, <3>2
  <2>9. QED
    BY <2>4, <2>5, <2>7, <2>8, ReadersKept
<1>6. ASSUME NEW t \in Threads, NEW r \in Requests, GetRequest(t, r) PROVE ReadersInv'
  <2>1. pc'[t] = "respond" /\ \A u \in Threads \ {t} : pc'[u] = pc[u]
    BY <1>6, <1>t, MovesAlone DEF GetRequest
  <2>2. about'[t].request = r /\ \A u \in Threads \ {t} : about'[u] = about[u]
    BY <1>6, <1>t DEF GetRequest, Announce, CoreTyped
  <2>3. /\ requests[r].state # "ABSENT"
        /\ requests' = requests /\ reply' = reply /\ delivered' = delivered
    BY <1>6 DEF GetRequest
  <2>4. ReaderOK(t)'
    BY <2>1, <2>2, <2>3 DEF ReaderOK
  <2>5. QED
    BY <2>1, <2>2, <2>3, <2>4, ReadersKept
<1>7. ASSUME NEW t \in Threads, ReadState(t) PROVE ReadersInv'
  <2> DEFINE r == about[t].request
  <2>1. pc'[t] = "respondTrail" /\ \A u \in Threads \ {t} : pc'[u] = pc[u]
    BY <1>7, <1>t, MovesAlone DEF ReadState
  <2>2. r \in Requests /\ requests[r].state # "ABSENT"
    BY <1>7, <1>t DEF ReadState, CoreTyped, WorkflowEvent, ReadersInv, ReaderOK
  <2>3. reply'[t].state = requests[r].state /\ \A u \in Threads \ {t} : reply'[u] = reply[u]
    BY <1>7 DEF ReadState, FeedTyped
  <2>4. requests' = requests /\ about' = about /\ delivered' = delivered
    BY <1>7 DEF ReadState
  <2>5. Since(requests[r].trail, 1, requests[r].state)
    BY <2>2 DEF ReadersInv
  <2>6. ReaderOK(t)'
    BY <2>1, <2>3, <2>4, <2>5 DEF ReaderOK
  <2>7. QED
    BY <2>1, <2>3, <2>4, <2>6, ReadersKept
<1>8. ASSUME NEW t \in Threads, ReadTrail(t) PROVE ReadersInv'
  <2> DEFINE trail == requests[about[t].request].trail
  <2>1. pc'[t] = "idle" /\ \A u \in Threads \ {t} : pc'[u] = pc[u]
    BY <1>8, <1>t, MovesAlone DEF ReadTrail
  <2>2. reply[t] \in Reply /\ Since(trail, 1, reply[t].state)
    BY <1>8 DEF ReadTrail, FeedTyped, ReadersInv, ReaderOK
  <2>3. trail \in Seq(Entry)
    BY <1>8, <1>t DEF ReadTrail, CoreTyped, WorkflowEvent, Request
  <2>4. /\ reply'[t].state = reply[t].state /\ reply'[t].trail = trail
        /\ \A u \in Threads \ {t} : reply'[u] = reply[u]
    BY <1>8, <2>2 DEF ReadTrail, FeedTyped, Reply
  <2>5. /\ requests' = requests /\ delivered' = delivered
        /\ \A u \in Threads \ {t} : about'[u] = about[u]
    BY <1>8, <1>t DEF ReadTrail, CoreTyped
  <2>6. \E i \in DOMAIN trail : trail[i].to = reply[t].state
    BY <2>2, <2>3 DEF Since
  <2>7. ReaderOK(t)'
    BY <2>1, <2>4, <2>6 DEF ReaderOK
  <2>8. QED
    BY <2>1, <2>4, <2>5, <2>7, ReadersKept
<1>9. ASSUME NEW t \in Threads, NEW l \in Listeners, Subscribe(t, l) \/ Unsubscribe(t, l)
      PROVE  ReadersInv'
  <2>1. UNCHANGED <<requests, pc, about, reply, delivered>>
    BY <1>9 DEF Subscribe, Unsubscribe
  <2>2. QED
    BY <2>1 DEF ReadersInv, ReaderOK
<1>10. CASE UNCHANGED vars
  BY <1>10 DEF vars, ReadersInv, ReaderOK
<1>11. QED
  BY <1>1, <1>2, <1>3, <1>4, <1>5, <1>6, <1>7, <1>8, <1>9, <1>10 DEF Next, Invoke, Continue

LEMMA ReadersInvariant == Spec => []ReadersInv
  BY InitWorkflow, NextWorkflow, InitFeed, NextFeed, InitReaders, NextReaders, PTL DEF Spec

\* Although a response reads state and trail without the lock, the state a
\* caller is told is accounted for by the trail it is told.
THEOREM RepliesAccountForState == Spec => []ReplyAccountsForState
<1>1. ReadersInv => ReplyAccountsForState
  BY DEF ReadersInv, ReaderOK, ReplyAccountsForState
<1>2. QED
  BY <1>1, ReadersInvariant, PTL

\* No listener is ever told a state that lies before the transition its event
\* announces or on another branch.
THEOREM EventsNeverBehind == Spec => []EventNotBehind
<1>1. ReadersInv => EventNotBehind
  BY DEF ReadersInv, Since, EventNotBehind
<1>2. QED
  BY <1>1, ReadersInvariant, PTL
-----------------------------------------------------------------------------
(* No announcement is lost *)

\* The broadcast of thread t has yet to call listener l.
Awaits(t, l) ==
  \/ pc[t] \in {"build", "snapshot"}
  \/ pc[t] = "deliver" /\ \E k \in 1..Len(todo[t]) : todo[t][k] = l

\* Thread t is about to announce the i-th transition of r to l.
Carries(t, l, r, i) == Awaits(t, l) /\ about[t].request = r /\ about[t].entry = i

OnItsWay(l, r, i) == \E t \in Threads : Carries(t, l, r, i)

Told(l, r, i) == \E e \in delivered[l] : e.request = r /\ e.entry = i

\* An event on its way to a subscribed listener reaches it or stays on its way:
\* no lock, other call, subscription, unsubscription of another listener or
\* exception of a listener drops it.
AnnouncementKept ==
  \A l \in Callbacks, r \in Requests, i \in Nat :
    Subscribed(l) /\ OnItsWay(l, r, i) => (Told(l, r, i) \/ OnItsWay(l, r, i))'

\* A thread moves its own call only.
LEMMA OthersWait ==
  ASSUME WorkflowInv, FeedTyped, NEW t \in Threads, Invoke(t) \/ Continue(t),
         NEW u \in Threads \ {t}
  PROVE  pc'[u] = pc[u] /\ about'[u] = about[u] /\ todo'[u] = todo[u]
<1>t. /\ pc \in [Threads -> Locations]
      /\ about \in [Threads -> WorkflowEvent \cup {None}]
      /\ todo \in [Threads -> Seq(Callbacks)]
  BY DEF WorkflowInv, CoreTyped, FeedTyped
<1>1. pc' = pc \/ \E l : pc' = [pc EXCEPT ![t] = l]
  BY DEF Invoke, Continue, Submit, Approve, Reject, Disburse, GetRequest, Subscribe, Unsubscribe,
         AppendRecord, Commit, BuildEvent, SnapshotListeners, Deliver, FetchMetadata, ReadState,
         ReadTrail, Goto
<1>2. about' = about \/ \E e : about' = [about EXCEPT ![t] = e]
  BY DEF Invoke, Continue, Submit, Approve, Reject, Disburse, GetRequest, Subscribe, Unsubscribe,
         AppendRecord, Commit, BuildEvent, SnapshotListeners, Deliver, FetchMetadata, ReadState,
         ReadTrail, Announce
<1>3. todo' = todo \/ \E e : todo' = [todo EXCEPT ![t] = e]
  BY DEF Invoke, Continue, Submit, Approve, Reject, Disburse, GetRequest, Subscribe, Unsubscribe,
         AppendRecord, Commit, BuildEvent, SnapshotListeners, Deliver, FetchMetadata, ReadState,
         ReadTrail
<1>4. QED
  BY <1>t, <1>1, <1>2, <1>3

\* What a listener was told it stays told.
LEMMA ToldForGood ==
  ASSUME WorkflowInv, FeedTyped, [Next]_vars, NEW l \in Callbacks
  PROVE  delivered[l] \subseteq delivered'[l]
<1>1. CASE delivered' = delivered
  BY <1>1
<1>2. ASSUME NEW t \in Threads, Deliver(t) PROVE delivered[l] \subseteq delivered'[l]
  BY <1>2 DEF Deliver, FeedTyped
<1>3. QED
  BY <1>1, <1>2
  DEF Next, Invoke, Continue, Submit, Approve, Reject, Disburse, GetRequest, Subscribe,
      Unsubscribe, AppendRecord, Commit, BuildEvent, SnapshotListeners, FetchMetadata, ReadState,
      ReadTrail, vars

\* The thread that carries an event to a subscribed listener goes on carrying
\* it until it calls the listener.
LEMMA CarriedOn ==
  ASSUME WorkflowInv, FeedTyped, [Next]_vars, NEW l \in Callbacks, NEW r \in Requests,
         NEW i \in Nat, NEW t \in Threads, Carries(t, l, r, i), Subscribed(l)
  PROVE  Told(l, r, i)' \/ Carries(t, l, r, i)'
<1>t. CoreTyped /\ FeedTyped
  BY DEF WorkflowInv
<1>0. pc[t] \in {"build", "snapshot", "deliver"} /\ about[t].request = r /\ about[t].entry = i
  BY DEF Carries, Awaits
<1>1. CASE UNCHANGED <<pc, about, todo>>
  BY <1>1 DEF Carries, Awaits
<1>2. ASSUME NEW u \in Threads, u # t, Invoke(u) \/ Continue(u)
     PROVE  Carries(t, l, r, i)'
  <2>1. pc'[t] = pc[t] /\ about'[t] = about[t] /\ todo'[t] = todo[t]
    BY <1>2, <1>t, OthersWait
  <2>2. QED
    BY <2>1 DEF Carries, Awaits
<1>3. ASSUME BuildEvent(t) PROVE Carries(t, l, r, i)'
  <2>1. about[t] \in WorkflowEvent
    BY <1>0, <1>t DEF CoreTyped
  <2>2. about' = [about EXCEPT ![t].state = requests[about[t].request].state]
        /\ pc' = [pc EXCEPT ![t] = "snapshot"]
    BY <1>3 DEF BuildEvent, Goto
  <2>3. about'[t] = [about[t] EXCEPT !.state = requests[about[t].request].state]
        /\ pc'[t] = "snapshot"
    BY <1>t, <2>2 DEF CoreTyped
  <2>4. about'[t].request = about[t].request /\ about'[t].entry = about[t].entry
    BY <2>1, <2>3 DEF WorkflowEvent
  <2>5. QED
    BY <1>0, <2>3, <2>4 DEF Carries, Awaits
<1>4. ASSUME SnapshotListeners(t) PROVE Carries(t, l, r, i)'
  <2>1. PICK k \in DOMAIN subscribers : subscribers[k] = l
    BY DEF Subscribed
  <2>2. k \in 1..Len(subscribers) /\ subscribers # <<>>
    BY <1>t, <2>1 DEF FeedTyped
  <2>3. todo'[t] = subscribers /\ pc'[t] = "deliver" /\ about' = about
    BY <1>4, <1>t, <2>2 DEF SnapshotListeners, Goto, CoreTyped, FeedTyped
  <2>4. QED
    BY <1>0, <2>1, <2>2, <2>3 DEF Carries, Awaits
<1>5. ASSUME Deliver(t) PROVE Told(l, r, i)' \/ Carries(t, l, r, i)'
  <2>1. PICK k \in 1..Len(todo[t]) : todo[t][k] = l
    BY <1>5 DEF Carries, Awaits, Deliver
  <2>2. todo[t] \in Seq(Callbacks) /\ todo[t] # <<>>
    BY <1>5, <1>t DEF Deliver, FeedTyped
  <2>3. CASE k = 1
    <3>1. Head(todo[t]) = l
      BY <2>1, <2>2, <2>3
    <3>2. delivered' = [delivered EXCEPT ![l] = @ \cup {about[t]}]
      BY <1>5, <3>1 DEF Deliver
    <3>3. about[t] \in delivered'[l]
      BY <1>t, <3>2 DEF FeedTyped
    <3>4. QED
      BY <1>0, <3>3 DEF Told
  <2>4. CASE k # 1
    <3>1. /\ k - 1 \in 1..Len(Tail(todo[t])) /\ Tail(todo[t])[k - 1] = l
          /\ Tail(todo[t]) # <<>>
      BY <2>1, <2>2, <2>4
    <3>2. todo'[t] = Tail(todo[t]) /\ pc'[t] = "deliver" /\ about' = about
      BY <1>5, <1>t, <3>1 DEF Deliver, Goto, CoreTyped, FeedTyped
    <3>3. QED
      BY <1>0, <3>1, <3>2 DEF Carries, Awaits
  <2>5. QED
    BY <2>3, <2>4
<1>6. ASSUME Invoke(t) PROVE FALSE
  BY <1>0, <1>6
  DEF Invoke, Submit, Approve, Reject, Disburse, GetRequest, Subscribe, Unsubscribe,
      AppendRecord, Begin
<1>7. ASSUME Continue(t) PROVE Told(l, r, i)' \/ Carries(t, l, r, i)'
  BY <1>0, <1>3, <1>4, <1>5, <1>7 DEF Continue, Commit, FetchMetadata, ReadState, ReadTrail
<1>8. QED
  BY <1>1, <1>2, <1>6, <1>7 DEF Next, vars

LEMMA AnnouncementStep ==
  ASSUME WorkflowInv, FeedTyped, [Next]_vars
  PROVE  AnnouncementKept
<1> SUFFICES ASSUME NEW l \in Callbacks, NEW r \in Requests, NEW i \in Nat,
                    Subscribed(l), OnItsWay(l, r, i)
             PROVE  (Told(l, r, i) \/ OnItsWay(l, r, i))'
  BY DEF AnnouncementKept
<1>1. PICK t \in Threads : Carries(t, l, r, i)
  BY DEF OnItsWay
<1>2. QED
  BY <1>1, CarriedOn DEF OnItsWay

\* _broadcast runs without the lock on a copy of the subscriber list; whatever
\* interleaves with it, an event of a committed transition is not lost before
\* every listener that was subscribed when the copy was made has been called.
THEOREM AnnouncementsSurvive == Spec => [][AnnouncementKept]_vars
  BY InitWorkflow, NextWorkflow, InitFeed, NextFeed, AnnouncementStep, PTL DEF Spec

-----------------------------------------------------------------------------
(* The WebSocket bridge hears of every transition *)

\* A transition is committed once transition() has set the state it leads to.
Committed(r, i) ==
  /\ i \in 1..Len(requests[r].trail)
  /\ i = Len(requests[r].trail) => ~MidTransition(r)

\* submit_request announces an auto-approved request by its approval only.
Unannounced(r, i) ==
  i = 1 /\ Len(requests[r].trail) >= 2 /\ requests[r].trail[2].role = System

\* Every committed transition of every request was handed to on_workflow_event,
\* or the thread that made it has yet to do so.
BridgeHears ==
  \A r \in Requests, i \in Nat :
    Committed(r, i) /\ ~Unannounced(r, i) => Told(Bridge, r, i) \/ OnItsWay(Bridge, r, i)

BridgeInv == Subscribed(Bridge) /\ BridgeHears

LEMMA BridgeStays ==
  ASSUME WorkflowInv, FeedTyped, Subscribed(Bridge), [Next]_vars
  PROVE  Subscribed(Bridge)'
<1>0. PICK k \in 1..Len(subscribers) : subscribers[k] = Bridge
  BY DEF Subscribed, FeedTyped
<1>t. subscribers \in Seq(Callbacks) /\ Len(subscribers) \in Nat
  BY DEF FeedTyped
<1>1. CASE subscribers' = subscribers
  BY <1>1 DEF Subscribed
<1>2. ASSUME NEW t \in Threads, NEW l \in Listeners, Subscribe(t, l)
     PROVE  Subscribed(Bridge)'
  <2>1. subscribers' = Append(subscribers, l)
    BY <1>2 DEF Subscribe
  <2>2. k \in DOMAIN subscribers' /\ subscribers'[k] = Bridge
    BY <1>0, <1>t, <2>1
  <2>3. QED
    BY <2>2 DEF Subscribed
<1>3. ASSUME NEW t \in Threads, NEW l \in Listeners, Unsubscribe(t, l)
     PROVE  Subscribed(Bridge)'
  <2>0. DOMAIN subscribers = 1..Len(subscribers)
    BY <1>t
  <2>1. PICK i \in 1..Len(subscribers) :
          /\ subscribers[i] = l
          /\ subscribers' = SubSeq(subscribers, 1, i - 1)
                              \o SubSeq(subscribers, i + 1, Len(subscribers))
    BY <1>3, <2>0, Zenon DEF Unsubscribe
  <2>2. i # k
    BY <1>0, <2>1, WorkflowAssumption
  <2> DEFINE before == SubSeq(subscribers, 1, i - 1)
             after == SubSeq(subscribers, i + 1, Len(subscribers))
  <2>3. /\ before \in Seq(Callbacks) /\ Len(before) = i - 1
        /\ \A j \in 1..(i - 1) : before[j] = subscribers[j]
    BY <1>t, <2>1, SubSeqProperties
  <2>4. /\ after \in Seq(Callbacks) /\ Len(after) = Len(subscribers) - i
        /\ \A j \in 1..(Len(subscribers) - i) : after[j] = subscribers[i + j]
    BY <1>t, <2>1, SubSeqProperties
  <2> HIDE DEF before, after
  <2>5. subscribers' = before \o after
    BY <2>1 DEF before, after
  <2>6. \E j \in DOMAIN subscribers' : subscribers'[j] = Bridge
    <3>1. CASE k < i
      <4>1. k \in 1..Len(before) /\ before[k] = Bridge
        BY <1>0, <2>1, <2>3, <3>1
      <4>2. k \in DOMAIN (before \o after) /\ (before \o after)[k] = Bridge
        BY <2>3, <2>4, <4>1
      <4>3. QED
        BY <2>5, <4>2
    <3>2. CASE k > i
      <4>1. k - i \in 1..Len(after) /\ after[k - i] = Bridge
        BY <1>0, <1>t, <2>1, <2>4, <3>2
      <4>2. k - 1 \in DOMAIN (before \o after) /\ (before \o after)[k - 1] = Bridge
        BY <1>0, <2>1, <2>3, <2>4, <4>1
      <4>3. QED
        BY <2>5, <4>2
    <3>3. k < i \/ k > i
      <4>1. k \in Int /\ i \in Int
        BY <1>0, <1>t, <2>1
      <4>2. QED
        BY <2>2, <4>1
    <3>4. QED
      BY <3>1, <3>2, <3>3
  <2>7. QED
    BY <2>6 DEF Subscribed
<1>4. QED
  BY <1>1, <1>2, <1>3
  DEF Next, Invoke, Continue, Submit, Approve, Reject, Disburse, GetRequest,
      AppendRecord, Commit, BuildEvent, SnapshotListeners, Deliver, FetchMetadata, ReadState,
      ReadTrail, vars

\* What a transition that was committed before the step owes is still paid.
LEMMA HeardBefore ==
  ASSUME WorkflowInv, FeedTyped, BridgeInv, [Next]_vars, NEW r \in Requests, NEW i \in Nat,
         Committed(r, i), ~Unannounced(r, i)
  PROVE  (Told(Bridge, r, i) \/ OnItsWay(Bridge, r, i))'
<1>b. Bridge \in Callbacks
  BY DEF Callbacks
<1>1. CASE Told(Bridge, r, i)
  BY <1>1, <1>b, ToldForGood DEF Told
<1>2. CASE OnItsWay(Bridge, r, i)
  BY <1>2, <1>b, AnnouncementStep DEF AnnouncementKept, BridgeInv
<1>3. QED
  BY <1>1, <1>2 DEF BridgeInv, BridgeHears

\* A thread that has just committed a transition carries its event.
LEMMA FreshlyCarried ==
  ASSUME NEW t \in Threads, NEW r, NEW i, pc'[t] = "build", about'[t].request = r,
         about'[t].entry = i
  PROVE  OnItsWay(Bridge, r, i)'
<1>1. Carries(t, Bridge, r, i)'
  BY DEF Carries, Awaits
<1>2. QED
  BY <1>1 DEF OnItsWay

LEMMA NextHears ==
  ASSUME WorkflowInv, FeedTyped, BridgeInv, [Next]_vars
  PROVE  BridgeHears'
<1> SUFFICES ASSUME NEW r \in Requests, NEW i \in Nat, Committed(r, i)', ~Unannounced(r, i)'
             PROVE  (Told(Bridge, r, i) \/ OnItsWay(Bridge, r, i))'
  BY DEF BridgeHears
<1> DEFINE Heard == Told(Bridge, r, i) \/ OnItsWay(Bridge, r, i)
<1>t. /\ CoreTyped
      /\ requests \in [Requests -> Request]
      /\ about \in [Threads -> WorkflowEvent \cup {None}]
      /\ pc \in [Threads -> Locations]
  BY DEF WorkflowInv, CoreTyped
<1>0. requests[r].trail \in Seq(Entry) /\ Len(requests[r].trail) \in Nat
  BY <1>t DEF Request
<1>1. ASSUME requests'[r] = requests[r], MidTransition(r) => MidTransition(r)'
     PROVE  Heard'
  BY <1>1, HeardBefore DEF Committed, Unannounced
<1>2. ASSUME NEW t \in Threads, NEW q \in Requests, NEW tier \in Tiers, NEW auto \in BOOLEAN,
             Submit(t, q, tier, auto)
     PROVE  Heard'
  <2>1. lock = None /\ lock' = None
    BY <1>2 DEF Submit, Begin
  <2>2. CASE q # r
    <3>1. requests'[r] = requests[r] /\ ~MidTransition(r)
      BY <1>2, <1>t, <2>1, <2>2 DEF Submit, MidTransition
    <3>2. QED
      BY <1>1, <3>1
  <2>3. CASE q = r
    <3>1. pc'[t] = "build"
      BY <1>2, <1>t DEF Submit, Goto
    <3>2. CASE tier = "AUTO_APPROVE" /\ auto
      <4>1. requests'[r].trail = <<SubmitEntry, AutoApproveEntry>>
        BY <1>2, <1>t, <2>3, <3>2 DEF Submit
      <4>2. Len(requests'[r].trail) = 2 /\ requests'[r].trail[2].role = System
        BY <4>1 DEF AutoApproveEntry, TrailEntry
      <4>3. i = 2
        BY <4>2 DEF Committed, Unannounced
      <4>4. about'[t].request = r /\ about'[t].entry = 2
        BY <1>2, <1>t, <2>3, <3>2 DEF Submit, Announce
      <4>5. QED
        BY <3>1, <4>3, <4>4, FreshlyCarried
    <3>3. CASE ~(tier = "AUTO_APPROVE" /\ auto)
      <4>1. requests'[r].trail = <<SubmitEntry>>
        BY <1>2, <1>t, <2>3, <3>3 DEF Submit
      <4>2. i = 1
        BY <4>1 DEF Committed
      <4>3. about'[t].request = r /\ about'[t].entry = 1
        BY <1>2, <1>t, <2>3, <3>3 DEF Submit, Announce
      <4>4. QED
        BY <3>1, <4>2, <4>3, FreshlyCarried
    <3>4. QED
      BY <3>2, <3>3
  <2>4. QED
    BY <2>2, <2>3
<1>3. ASSUME NEW t \in Threads, NEW q \in Requests, NEW event, NEW type, NEW role \in Authorities,
             AppendRecord(t, q, event, type, role)
     PROVE  Heard'
  <2>1. lock = None /\ lock' = t /\ ~MidTransition(r)
    BY <1>3 DEF AppendRecord, Begin, MidTransition
  <2>2. CASE q # r
    <3>1. requests'[r] = requests[r]
      BY <1>3, <1>t, <2>2 DEF AppendRecord
    <3>2. QED
      BY <1>1, <2>1, <3>1
  <2>3. CASE q = r
    <3> DEFINE entry == TrailEntry(requests[q].state, event, role)
    <3>1. entry \in Entry
      BY <1>3, EntryTyped DEF AppendRecord
    <3>2. requests' = [requests EXCEPT ![q].trail = Append(@, entry)]
      BY <1>3 DEF AppendRecord
    <3> HIDE DEF entry
    <3>3. requests'[r] = [requests[r] EXCEPT !.trail = Append(requests[r].trail, entry)]
      BY <1>t, <2>3, <3>2
    <3>4. requests'[r].trail = Append(requests[r].trail, entry)
      BY <1>t, <3>3 DEF Request
    <3>5. /\ Len(requests'[r].trail) = Len(requests[r].trail) + 1
          /\ \A j \in 1..Len(requests[r].trail) : requests'[r].trail[j] = requests[r].trail[j]
      BY <1>0, <3>1, <3>4
    <3>6. MidTransition(r)'
      BY <1>3, <1>t, <2>1, <2>3, WorkflowAssumption DEF AppendRecord, Announce, MidTransition
    <3>7. i \in 1..Len(requests[r].trail)
      BY <1>0, <3>5, <3>6 DEF Committed
    <3>8. ~Unannounced(r, i)
      BY <1>0, <3>5 DEF Unannounced
    <3>9. QED
      BY <2>1, <3>7, <3>8, HeardBefore DEF Committed
  <2>4. QED
    BY <2>2, <2>3
<1>4. ASSUME NEW t \in Threads, Commit(t) PROVE Heard'
  <2> DEFINE q == about[t].request
  <2>1. lock = t /\ q \in Requests /\ about[t].entry = Len(requests[q].trail)
    BY <1>4, <1>t DEF Commit, WorkflowInv, LockOK, CoreTyped, WorkflowEvent
  <2>2. \E st : requests' = [requests EXCEPT ![q].state = st]
    BY <1>4 DEF Commit
  <2>3. requests'[r].trail = requests[r].trail
    BY <1>t, <2>2 DEF Request
  <2>4. CASE q = r /\ i = Len(requests[r].trail)
    <3>1. pc'[t] = "build" /\ about' = about
      BY <1>4, <1>t DEF Commit, Goto
    <3>2. QED
      BY <2>1, <2>4, <3>1, FreshlyCarried
  <2>5. CASE ~(q = r /\ i = Len(requests[r].trail))
    <3>1. i = Len(requests[r].trail) => ~MidTransition(r)
      BY <2>1, <2>5 DEF MidTransition
    <3>2. Committed(r, i) /\ ~Unannounced(r, i)
      BY <2>3, <3>1 DEF Committed, Unannounced
    <3>3. QED
      BY <3>2, HeardBefore
  <2>6. QED
    BY <2>4, <2>5
<1>5. ASSUME UNCHANGED <<requests, lock>>,
             \A t \in Threads : pc[t] = "commit" => about'[t] = about[t]
     PROVE  Heard'
  <2>1. MidTransition(r) => MidTransition(r)'
    BY <1>5, <1>t DEF MidTransition, WorkflowInv, LockOK, CoreTyped
  <2>2. QED
    BY <1>1, <1>5, <2>1
<1>6. ASSUME NEW t \in Threads,
             \/ \E q \in Requests : GetRequest(t, q)
             \/ \E l \in Listeners : Subscribe(t, l) \/ Unsubscribe(t, l)
             \/ BuildEvent(t) \/ SnapshotListeners(t) \/ Deliver(t)
             \/ FetchMetadata(t) \/ ReadState(t) \/ ReadTrail(t)
     PROVE  Heard'
  <2>1. pc[t] # "commit" /\ UNCHANGED <<requests, lock>>
    BY <1>6 DEF GetRequest, Subscribe, Unsubscribe, Begin, BuildEvent, SnapshotListeners,
                Deliver, FetchMetadata, ReadState, ReadTrail
  <2>2. \A u \in Threads \ {t} : about'[u] = about[u]
    BY <1>6, OthersWait DEF Invoke, Continue
  <2>3. QED
    BY <1>5, <2>1, <2>2
<1>7. ASSUME NEW t \in Threads, NEW q \in Requests, NEW role \in Roles \cup {NoRole},
             Approve(t, q, role) \/ Reject(t, q, role) \/ Disburse(t, q)
     PROVE  Heard'
  BY <1>3, <1>7 DEF Approve, Reject, Disburse, Authorities
<1>8. ASSUME UNCHANGED vars PROVE Heard'
  BY <1>5, <1>8 DEF vars
<1> HIDE DEF Heard
<1>9. Heard'
  <2>1. ASSUME NEW t \in Threads, Invoke(t) PROVE Heard'
    BY <1>2, <1>6, <1>7, <2>1, Zenon DEF Invoke
  <2>2. ASSUME NEW t \in Threads, Continue(t) PROVE Heard'
    BY <1>4, <1>6, <2>2, Zenon DEF Continue
  <2>3. CASE Next
    BY <2>1, <2>2, <2>3, Zenon DEF Next
  <2>4. QED
    BY <1>8, <2>3
<1>10. QED
  BY <1>9 DEF Heard

LEMMA InitBridge == Init => BridgeInv
<1> SUFFICES ASSUME Init PROVE BridgeInv
  OBVIOUS
<1>1. Subscribed(Bridge)
  <2>1. subscribers = <<Bridge>> /\ 1 \in DOMAIN <<Bridge>>
    BY DEF Init
  <2>2. QED
    BY <2>1 DEF Subscribed
<1>2. BridgeHears
  BY DEF Init, BridgeHears, Committed
<1>3. QED
  BY <1>1, <1>2 DEF BridgeInv

\* on_workflow_event is told of every transition: for any number of threads,
\* requests and listeners, each committed transition (an auto-approval counts
\* as one) was handed to the bridge or is about to be, so that only the bridge
\* itself can drop an event.
THEOREM BridgeHearsAll == Spec => []BridgeHears
<1>1. Init => WorkflowInv /\ FeedTyped /\ BridgeInv
  BY InitWorkflow, InitFeed, InitBridge
<1>2. WorkflowInv /\ FeedTyped /\ BridgeInv /\ [Next]_vars
        => WorkflowInv' /\ FeedTyped' /\ BridgeInv'
  BY NextWorkflow, NextFeed, BridgeStays, NextHears DEF BridgeInv
<1>3. BridgeInv => BridgeHears
  BY DEF BridgeInv
<1>4. QED
  BY <1>1, <1>2, <1>3, PTL DEF Spec

-----------------------------------------------------------------------------
(* What the live feed hinges on: the thread that makes the transition *)

\* What the WebSockets get of the events handed to the bridge, where every
\* thread runs an event loop and where none does.
FeedWired ==
  /\ LoopThreads = Threads => feed = delivered[Bridge]
  /\ LoopThreads = {} => feed = {}

\* Every committed transition was broadcast, or its thread has yet to do so.
FeedComplete ==
  \A r \in Requests, i \in Nat :
    Committed(r, i) /\ ~Unannounced(r, i)
      => (\E e \in feed : e.request = r /\ e.entry = i) \/ OnItsWay(Bridge, r, i)

LEMMA InitWired == Init => FeedWired
  BY DEF Init, FeedWired, Callbacks

LEMMA NextWired == FeedTyped /\ FeedWired /\ [Next]_vars => FeedWired'
<1> SUFFICES ASSUME FeedTyped, FeedWired, [Next]_vars PROVE FeedWired'
  OBVIOUS
<1>1. ASSUME UNCHANGED <<delivered, feed>> PROVE FeedWired'
  BY <1>1 DEF FeedWired
<1>2. ASSUME NEW t \in Threads, Deliver(t) PROVE FeedWired'
  <2> DEFINE l == Head(todo[t])
  <2>1. /\ delivered' = [delivered EXCEPT ![l] = @ \cup {about[t]}]
        /\ feed' = IF l = Bridge /\ t \in LoopThreads THEN feed \cup {about[t]} ELSE feed
    BY <1>2 DEF Deliver
  <2>2. delivered \in [Callbacks -> SUBSET WorkflowEvent] /\ Bridge \in Callbacks
    BY DEF FeedTyped, Callbacks
  <2> HIDE DEF l
  <2>3. CASE l = Bridge
    BY <2>1, <2>2, <2>3 DEF FeedWired
  <2>4. CASE l # Bridge
    BY <2>1, <2>2, <2>4 DEF FeedWired
  <2>5. QED
    BY <2>3, <2>4
<1>3. ASSUME NEW t \in Threads, Invoke(t) PROVE UNCHANGED <<delivered, feed>>
  BY <1>3 DEF Invoke, Submit, Approve, Reject, Disburse, AppendRecord, GetRequest,
              Subscribe, Unsubscribe
<1>4. ASSUME NEW t \in Threads, Continue(t)
      PROVE  Deliver(t) \/ UNCHANGED <<delivered, feed>>
  BY <1>4 DEF Continue, Commit, BuildEvent, SnapshotListeners, FetchMetadata, ReadState,
              ReadTrail
<1>5. CASE UNCHANGED vars
  BY <1>1, <1>5 DEF vars
<1>6. QED
  BY <1>1, <1>2, <1>3, <1>4, <1>5 DEF Next

LEMMA FeedInvariant == Spec => [](FeedTyped /\ FeedWired)
<1>1. Init => WorkflowInv /\ FeedTyped /\ FeedWired
  BY InitWorkflow, InitFeed, InitWired
<1>2. WorkflowInv /\ FeedTyped /\ FeedWired /\ [Next]_vars
        => WorkflowInv' /\ FeedTyped' /\ FeedWired'
  BY NextWorkflow, NextFeed, NextWired
<1>3. QED
  BY <1>1, <1>2, PTL DEF Spec

\* Were every transition made on a thread with a running event loop, the live
\* feed would miss none: each was broadcast or is about to be.
THEOREM FeedIsCompleteOnLoops == LoopThreads = Threads /\ Spec => []FeedComplete
<1> SUFFICES ASSUME LoopThreads = Threads PROVE Spec => []FeedComplete
  OBVIOUS
<1>1. FeedTyped /\ FeedWired /\ BridgeHears => FeedComplete
  BY DEF FeedWired, BridgeHears, FeedComplete, Told
<1>2. QED
  BY <1>1, FeedInvariant, BridgeHearsAll, PTL

\* The REST endpoints are plain functions, run on threadpool threads without a
\* loop: with those alone on_workflow_event broadcasts nothing, ever.
THEOREM FeedIsSilentOffLoops == LoopThreads = {} /\ Spec => [](feed = {})
<1> SUFFICES ASSUME LoopThreads = {} PROVE Spec => [](feed = {})
  OBVIOUS
<1>1. FeedTyped /\ FeedWired => feed = {}
  BY DEF FeedWired
<1>2. QED
  BY <1>1, FeedInvariant, PTL
=============================================================================
