----------------------------- MODULE SlidingWindow -----------------------------
(***************************************************************************)
(* The time window both fraud detectors keep: a queue of records with      *)
(* timestamps, in the order in which they were recorded.                   *)
(***************************************************************************)
EXTENDS Naturals, Sequences, SequencesExt

CONSTANTS
  Times,        \* timestamps
  WindowLength  \* window_seconds

ASSUME WindowAssumption == Times \subseteq Nat /\ WindowLength \in Nat

\* Mutant: a record exactly at the cutoff is expired.
EvictInclusive(window, now) ==
  LET kept == {i \in DOMAIN window : window[i].ts + WindowLength > now}
  IN IF kept = {} THEN <<>>
     ELSE SubSeq(window, CHOOSE i \in kept : \A j \in kept : i <= j, Len(window))

\* _evict_expired: records older than the window are popped from the head,
\* until the head is recent enough.
Evict(window, now) ==
  LET kept == {i \in DOMAIN window : window[i].ts + WindowLength >= now}
  IN IF kept = {} THEN <<>>
     ELSE SubSeq(window, CHOOSE i \in kept : \A j \in kept : i <= j, Len(window))

=============================================================================
