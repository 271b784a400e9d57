------------------------ MODULE DisbursementRefinement ------------------------
(***************************************************************************)
(* disburse_float implements OncePerKey as long as no row outlives the     *)
(* retention window (MaxAgeings = 0), whatever crashes, locked databases   *)
(* and concurrent duplicates do; and it implements it for each key apart   *)
(* until that key's own row is purged.                                     *)
(***************************************************************************)
EXTENDS DisbursementManager

PhaseOf(status) ==
  CASE status = "absent" -> "free"
    [] status = "in_progress" -> "reserved"
    [] OTHER -> "settled"

Promise == INSTANCE OncePerKey WITH
  Keys     <- Slots,
  Outcomes <- Result,
  phase    <- [s \in Slots |-> PhaseOf(records[s].status)],
  paid     <- [s \in Slots |-> Len(issued[s])],
  outcome  <- [s \in Slots |-> records[s].result],
  told     <- [s \in Slots |-> {a.result : a \in answers[s]}]

\* Every behaviour of disburse_float is one of OncePerKey: no interleaving of
\* workers, crashes and failures pays a key twice, settles it twice, releases
\* it after money moved, or answers with anything but the canonical result.
ImplementsOncePerKey == Promise!Spec

\* The promise about one key, whatever happens to the others.
KeyPromise(k) == INSTANCE OncePerKey WITH
  Keys     <- {k},
  Outcomes <- Result,
  phase    <- [s \in {k} |-> PhaseOf(records[s].status)],
  paid     <- [s \in {k} |-> Len(issued[s])],
  outcome  <- [s \in {k} |-> records[s].result],
  told     <- [s \in {k} |-> {a.result : a \in answers[s]}]

\* With rows that outlive the retention window: for every key, each step up to
\* the first purge of its own row is a step of OncePerKey, no matter when other
\* keys are purged.
OncePerKeyUntilPurge ==
  /\ \A k \in Slots : KeyPromise(k)!Init
  /\ [][\A k \in Slots :
         purges'[k] = 0 => [KeyPromise(k)!Next]_(KeyPromise(k)!vars)]_vars
=============================================================================
