-------------------------------- MODULE MCStores --------------------------------
(***************************************************************************)
(* The stores that requests share without a common transaction, on small   *)
(* instances: the audit log, the ledger chain, the balance cache, the      *)
(* issuing adapters, the migration engine, the draft queue of the browser  *)
(* and the table of provider callbacks, with the two processes that        *)
(* ingest them (Init and Next are those of ProviderEvents).  They share no *)
(* state, so a behaviour follows one of them, the part chosen at the       *)
(* start, and leaves the others in their first state.                      *)
(***************************************************************************)
EXTENDS AuditChain, LedgerChain, BalanceCache, MCAdapters, Migrations,
        OfflineDrafts, MCProviderEvents

VARIABLE part

storesVars ==
  <<part, chainVars, ledgerVars, cacheVars, adapterVars, migrationVars, draftVars,
    vars>>

-----------------------------------------------------------------------------
(* Instances *)

\* A balanced batch of three legs, a batch without legs (balanced as well),
\* one with equal counts but unequal sums, and one of another tenant.
MCBatches ==
  LET D(a, n) == PostingLeg(a, "DEBIT", n)
      C(a, n) == PostingLeg(a, "CREDIT", n)
  IN {[tenant |-> "own",   tx |-> "split", legs |-> <<D("x", 3), C("y", 1), C("z", 2)>>],
      [tenant |-> "own",   tx |-> "empty", legs |-> <<>>],
      [tenant |-> "own",   tx |-> "wrong", legs |-> <<D("x", 3), C("y", 1)>>],
      [tenant |-> "other", tx |-> "alien", legs |-> <<D("x", 1), C("y", 1)>>]}

MCDeltas == {-2, 1}

MCVersions == {1, 2}

MCObjects == <<<<"tenants", "funds">>, <<"records", "events">>>>

-----------------------------------------------------------------------------

StoresInit ==
  /\ part \in {"chain", "ledger", "cache", "adapters", "migrations", "drafts", "callbacks"}
  /\ ChainInit /\ LedgerInit /\ CacheInit /\ MigrationsInit /\ Init
  /\ IF part = "adapters" THEN AdaptersInit ELSE AdaptersInit /\ adapter = "card"
  /\ IF part = "drafts" THEN DraftsInit ELSE DraftsInit /\ online

StoresNext ==
  \/ /\ part = "chain" /\ ChainNext
     /\ UNCHANGED <<part, ledgerVars, cacheVars, adapterVars, migrationVars, draftVars, vars>>
  \/ /\ part = "ledger" /\ LedgerNext
     /\ UNCHANGED <<part, chainVars, cacheVars, adapterVars, migrationVars, draftVars, vars>>
  \/ /\ part = "cache" /\ CacheNext
     /\ UNCHANGED <<part, chainVars, ledgerVars, adapterVars, migrationVars, draftVars, vars>>
  \/ /\ part = "adapters" /\ AdaptersNext
     /\ UNCHANGED <<part, chainVars, ledgerVars, cacheVars, migrationVars, draftVars, vars>>
  \/ /\ part = "migrations" /\ MigrationsNext
     /\ UNCHANGED <<part, chainVars, ledgerVars, cacheVars, adapterVars, draftVars, vars>>
  \/ /\ part = "drafts" /\ DraftsNext
     /\ UNCHANGED <<part, chainVars, ledgerVars, cacheVars, adapterVars, migrationVars, vars>>
  \/ /\ part = "callbacks" /\ Next
     /\ UNCHANGED <<part, chainVars, ledgerVars, cacheVars, adapterVars, migrationVars, draftVars>>

StoresSpec == StoresInit /\ [][StoresNext]_storesVars

=============================================================================
