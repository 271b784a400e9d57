----------------------------- MODULE VelocityWindow -----------------------------
(***************************************************************************)
(* The hourly velocity detector (src/services/fraud/velocity_detector.py)  *)
(* for the custodians of one tenant.  Timestamps are given by the callers, *)
(* so records and queries may arrive in any order of time.                 *)
(***************************************************************************)
EXTENDS SlidingWindow, FiniteSets

CONSTANTS
  VelocityCustodians,
  MaxHourly,    \* max_disbursements_per_hour
  MaxRecords    \* bound: records per behaviour

ASSUME VelocityAssumption == MaxHourly \in Nat

VARIABLES
  windows,      \* _windows
  answer,       \* the custodian's last call: "alert" or "none" for a record, else "-"
  recorded,     \* records so far; numbers them
  recordsKept,  \* history: records since the custodian was last cleared
  latest,       \* history: greatest reference time since then
  inOrder       \* history: reference times since then never went back

velocityVars == <<windows, answer, recorded, recordsKept, latest, inOrder>>

-----------------------------------------------------------------------------

VelocityInit ==
  /\ windows = [c \in VelocityCustodians |-> <<>>]
  /\ answer = [c \in VelocityCustodians |-> "-"]
  /\ recorded = 0
  /\ recordsKept = [c \in VelocityCustodians |-> {}]
  /\ latest = [c \in VelocityCustodians |-> 0]
  /\ inOrder = [c \in VelocityCustodians |-> TRUE]

\* History: a reference time of custodian c.
SeeTime(c, now) ==
  /\ latest' = [latest EXCEPT ![c] = IF now > @ THEN now ELSE @]
  /\ inOrder' = [inOrder EXCEPT ![c] = @ /\ now >= latest[c]]

\* record_and_check
RecordDisbursement(c, now) ==
  LET record == [id |-> recorded + 1, ts |-> now]
      window == Append(Evict(windows[c], now), record)
  IN
  /\ recorded < MaxRecords
  /\ recorded' = recorded + 1
  /\ windows' = [windows EXCEPT ![c] = window]
  /\ answer' = [answer EXCEPT ![c] = IF Len(window) > MaxHourly THEN "alert" ELSE "none"]
  /\ recordsKept' = [recordsKept EXCEPT ![c] = @ \cup {record}]
  /\ SeeTime(c, now)

\* get_hourly_count and get_hourly_total_scaled with a reference time; without
\* one they only read.
QueryWindow(c, now) ==
  /\ windows[c] # <<>>
  /\ windows' = [windows EXCEPT ![c] = Evict(@, now)]
  /\ answer' = [answer EXCEPT ![c] = "-"]
  /\ SeeTime(c, now)
  /\ UNCHANGED <<recorded, recordsKept>>

ClearCustodian(c) ==
  /\ windows' = [windows EXCEPT ![c] = <<>>]
  /\ answer' = [answer EXCEPT ![c] = "-"]
  /\ recordsKept' = [recordsKept EXCEPT ![c] = {}]
  /\ latest' = [latest EXCEPT ![c] = 0]
  /\ inOrder' = [inOrder EXCEPT ![c] = TRUE]
  /\ UNCHANGED recorded

VelocityNext ==
  \E c \in VelocityCustodians :
    \/ \E now \in Times : RecordDisbursement(c, now) \/ QueryWindow(c, now)
    \/ ClearCustodian(c)

VelocitySpec == VelocityInit /\ [][VelocityNext]_velocityVars

-----------------------------------------------------------------------------
(* Properties *)

InWindow(c) == {windows[c][i] : i \in DOMAIN windows[c]}

Recent(c) == {r \in recordsKept[c] : r.ts + WindowLength >= latest[c]}

\* However timestamps arrive, no disbursement of the last window is missing
\* from the count, so an excess is never missed; the count holds older ones,
\* and an alert can be false, only after a timestamp went back.
WindowExact ==
  \A c \in VelocityCustodians :
    /\ Recent(c) \subseteq InWindow(c)
    /\ Cardinality(InWindow(c)) = Len(windows[c])
    /\ answer[c] = "none" => Cardinality(Recent(c)) <= MaxHourly
    /\ inOrder[c] => /\ InWindow(c) = Recent(c)
                     /\ answer[c] = "alert" => Cardinality(Recent(c)) > MaxHourly

=============================================================================
