----------------------------- MODULE SplitDetector -----------------------------
(***************************************************************************)
(* The split-transaction detector (src/services/fraud/                     *)
(* split_tx_detector.py) for one tenant, with graph clustering enabled.    *)
(* The marks of an event are its merchant id, normalised merchant name and *)
(* receipt hash, the empty ones left out.  Transaction ids are unique.     *)
(***************************************************************************)
EXTENDS SlidingWindow, FiniteSets

CONSTANTS
  SplitCustodians,
  Marks,
  EventAmounts,
  SplitThreshold,  \* threshold_scaled
  MinTxCount,      \* min_tx_count
  MaxEvents        \* bound: events per behaviour

\* The constructors refuse amounts and thresholds that are not positive.
ASSUME SplitAssumption ==
  /\ EventAmounts \subseteq Nat \ {0}
  /\ SplitThreshold \in Nat \ {0}
  /\ MinTxCount \in Nat

VARIABLES
  custodianWindow, \* _windows
  tenantWindow,    \* _tenant_windows of the tenant
  eventsKept,      \* history: events since they were last cleared
  counted,         \* events so far; numbers them (transaction_id)
  newest,          \* history: greatest timestamp since clear_tenant
  ordered,         \* history: timestamps since then never went back
  verdict          \* what the last record_and_check returned

splitVars ==
  <<custodianWindow, tenantWindow, eventsKept, counted, newest, ordered, verdict>>

-----------------------------------------------------------------------------
(* Clusters *)

\* _are_events_linked
Linked(e, f) ==
  /\ e.ts <= f.ts + WindowLength
  /\ f.ts <= e.ts + WindowLength
  /\ e.custodian = f.custodian \/ e.marks \cap f.marks # {}

\* Mutant: only events linked to the first one are collected.
ClusterNeighbours(E, e) == {e} \cup {f \in E : Linked(e, f)}

\* The breadth-first search of get_clusters from event e over the events E.
Cluster(E, e) ==
  LET reached[n \in 0..Cardinality(E)] ==
        IF n = 0 THEN {e}
        ELSE reached[n - 1] \cup {f \in E : \E g \in reached[n - 1] : Linked(f, g)}
  IN reached[Cardinality(E)]

Total(E) == MapThenSumSet(LAMBDA e : e.amount, E)

Exceeds(E) == Cardinality(E) >= MinTxCount /\ Total(E) > SplitThreshold

\* The window without the events of custodian c.
Without(window, c) ==
  LET kept[n \in 0..Len(window)] ==
        IF n = 0 THEN <<>>
        ELSE IF window[n].custodian = c THEN kept[n - 1]
        ELSE Append(kept[n - 1], window[n])
  IN kept[Len(window)]

EventsIn(window) == {window[i] : i \in DOMAIN window}

-----------------------------------------------------------------------------

NoVerdict == [alert |-> "-"]

SplitInit ==
  /\ custodianWindow = [c \in SplitCustodians |-> <<>>]
  /\ tenantWindow = <<>>
  /\ eventsKept = {}
  /\ counted = 0
  /\ newest = 0
  /\ ordered = TRUE
  /\ verdict = NoVerdict

\* The cluster of the event in the tenant's window decides, then the window of
\* the custodian alone.  get_clusters evicts with the same time once more,
\* which changes nothing, and needs two events in the window.
Verdict(e, own, all) ==
  LET cluster == Cluster(EventsIn(all), e) IN
  IF Len(all) >= 2 /\ Exceeds(cluster)
  THEN [alert |-> "cluster", event |-> e, group |-> cluster,
        smurfing |-> Cardinality({f.custodian : f \in cluster}) > 1]
  ELSE IF Exceeds(EventsIn(own))
  THEN [alert |-> "window", event |-> e, group |-> EventsIn(own), smurfing |-> FALSE]
  ELSE [alert |-> "none", event |-> e]

RecordEvent(c, now, amount, marks) ==
  LET e   == [id |-> counted + 1, custodian |-> c, ts |-> now,
              amount |-> amount, marks |-> marks]
      own == Append(Evict(custodianWindow[c], now), e)
      all == Append(Evict(tenantWindow, now), e)
  IN
  /\ counted < MaxEvents
  /\ counted' = counted + 1
  /\ custodianWindow' = [custodianWindow EXCEPT ![c] = own]
  /\ tenantWindow' = all
  /\ eventsKept' = eventsKept \cup {e}
  /\ newest' = IF now > newest THEN now ELSE newest
  /\ ordered' = (ordered /\ now >= newest)
  /\ verdict' = Verdict(e, own, all)

\* get_clusters with a reference time.
GetClusters(now) ==
  /\ tenantWindow # <<>>
  /\ tenantWindow' = Evict(tenantWindow, now)
  /\ newest' = IF now > newest THEN now ELSE newest
  /\ ordered' = (ordered /\ now >= newest)
  /\ verdict' = NoVerdict
  /\ UNCHANGED <<custodianWindow, eventsKept, counted>>

\* window_sum with a reference time; it evicts from the custodian's window only.
WindowSum(c, now) ==
  /\ custodianWindow[c] # <<>>
  /\ custodianWindow' = [custodianWindow EXCEPT ![c] = Evict(@, now)]
  /\ verdict' = NoVerdict
  /\ UNCHANGED <<tenantWindow, eventsKept, counted, newest, ordered>>

ClearSplitCustodian(c) ==
  /\ custodianWindow' = [custodianWindow EXCEPT ![c] = <<>>]
  /\ tenantWindow' = Without(tenantWindow, c)
  /\ eventsKept' = {e \in eventsKept : e.custodian # c}
  /\ verdict' = NoVerdict
  /\ UNCHANGED <<counted, newest, ordered>>

ClearTenant ==
  /\ custodianWindow' = [c \in SplitCustodians |-> <<>>]
  /\ tenantWindow' = <<>>
  /\ eventsKept' = {}
  /\ newest' = 0
  /\ ordered' = TRUE
  /\ verdict' = NoVerdict
  /\ UNCHANGED counted

SplitNext ==
  \/ \E c \in SplitCustodians :
       \/ \E now \in Times, amount \in EventAmounts, marks \in SUBSET Marks :
            RecordEvent(c, now, amount, marks)
       \/ \E now \in Times : WindowSum(c, now)
       \/ ClearSplitCustodian(c)
  \/ \E now \in Times : GetClusters(now)
  \/ ClearTenant

SplitSpec == SplitInit /\ [][SplitNext]_splitVars

-----------------------------------------------------------------------------
(* Properties *)

\* The events of the last window, and the one just recorded.
Current(e) == {f \in eventsKept : f.ts + WindowLength >= newest} \cup {e}

\* Reference definition of a linked group: what every set of events that
\* holds e and is closed under links has in common.
LinkedGroup(E, e) ==
  {f \in E : \A S \in SUBSET E :
     e \in S /\ (\A g \in S, h \in E : Linked(g, h) => h \in S) => f \in S}

\* An event completes an alert when the events of the last window that are
\* linked to it, directly or through others, exceed the limits, whatever the
\* order of the timestamps; if they never went back there is no other alert,
\* and it names exactly this group and whether several custodians are in it.
SplitAlertExact ==
  verdict # NoVerdict =>
    LET group == LinkedGroup(Current(verdict.event), verdict.event) IN
    /\ Exceeds(group) => verdict.alert # "none"
    /\ ordered /\ verdict.alert # "none" =>
         /\ Exceeds(group)
         /\ verdict.group = group
         /\ verdict.smurfing <=> \E e, f \in group : e.custodian # f.custodian

=============================================================================
