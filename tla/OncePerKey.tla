------------------------------ MODULE OncePerKey ------------------------------
(***************************************************************************)
(* What disburse_float promises its callers: under one idempotency key     *)
(* money moves at most once, the key has at most one outcome, the outcome  *)
(* says whether money moved, and nobody is ever told anything else.        *)
(***************************************************************************)
EXTENDS Naturals

CONSTANTS
  Keys,
  Outcomes,  \* records with a status, "completed" or "failed"
  None

VARIABLES
  phase,     \* "free", "reserved" or "settled"
  paid,      \* how often money moved under the key
  outcome,   \* the canonical result once settled
  told       \* the results callers were given

vars == <<phase, paid, outcome, told>>

Init ==
  /\ phase = [k \in Keys |-> "free"]
  /\ paid = [k \in Keys |-> 0]
  /\ outcome = [k \in Keys |-> None]
  /\ told = [k \in Keys |-> {}]

Reserve(k) ==
  /\ phase[k] = "free"
  /\ phase' = [phase EXCEPT ![k] = "reserved"]
  /\ UNCHANGED <<paid, outcome, told>>

\* Only an attempt that moved no money may be released for a retry.
Release(k) ==
  /\ phase[k] = "reserved"
  /\ paid[k] = 0
  /\ phase' = [phase EXCEPT ![k] = "free"]
  /\ UNCHANGED <<paid, outcome, told>>

Pay(k) ==
  /\ phase[k] = "reserved"
  /\ paid[k] = 0
  /\ paid' = [paid EXCEPT ![k] = 1]
  /\ UNCHANGED <<phase, outcome, told>>

\* The key gets some outcome, one that says truly whether money moved.
Settle(k) ==
  /\ phase[k] = "reserved"
  /\ outcome'[k] \in Outcomes
  /\ (outcome'[k].status = "completed") <=> (paid[k] = 1)
  /\ outcome' = [outcome EXCEPT ![k] = outcome'[k]]
  /\ phase' = [phase EXCEPT ![k] = "settled"]
  /\ UNCHANGED <<paid, told>>

Tell(k) ==
  /\ phase[k] = "settled"
  /\ told' = [told EXCEPT ![k] = @ \cup {outcome[k]}]
  /\ UNCHANGED <<phase, paid, outcome>>

Next ==
  \E k \in Keys :
    Reserve(k) \/ Release(k) \/ Pay(k) \/ Settle(k) \/ Tell(k)

Spec == Init /\ [][Next]_vars
=============================================================================
