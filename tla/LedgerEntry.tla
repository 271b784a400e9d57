------------------------------ MODULE LedgerEntry ------------------------------
(***************************************************************************)
(* Double-entry batches (src/domain/ledger/entry.py), as the ledger chain  *)
(* stores them and the variance analyzer generates them.                   *)
(***************************************************************************)
EXTENDS Integers, Sequences, SequencesExt

\* PostingLeg.__post_init__ refuses amounts that are not positive.
PostingLeg(acct, type, amt) == [acct |-> acct, type |-> type, amt |-> amt]

TotalOf(legs, type) ==
  FoldSeq(LAMBDA leg, sum : sum + (IF leg.type = type THEN leg.amt ELSE 0), 0, legs)

\* Mutant: only the number of legs on each side is compared.
ValidateCounts(b) ==
  Len(SelectSeq(b.legs, LAMBDA leg : leg.type = "DEBIT"))
    = Len(SelectSeq(b.legs, LAMBDA leg : leg.type = "CREDIT"))

\* validate_balance: no UnbalancedLedgerEntryException.
ValidateBalance(b) == TotalOf(b.legs, "DEBIT") = TotalOf(b.legs, "CREDIT")

=============================================================================
