----------------------------- MODULE BalanceCache -----------------------------
(***************************************************************************)
(* The cache-aside balances of src/infrastructure/cache/                   *)
(* redis_balance_cache.py for one (tenant_id, account_id).  Redis runs the *)
(* Lua script, a MULTI pipeline and a DEL atomically, so each call is one  *)
(* step; what interleaves is a client's read of (balance, version) and its *)
(* later mutation with that version.  The two keys are kept apart, because *)
(* get_balance and the script give a missing version different defaults.   *)
(***************************************************************************)
EXTENDS Integers

CONSTANTS
  Clients,
  Deltas,      \* delta_scaled values
  Fills,       \* amounts set_balance is called with
  FillVersions, \* version_id values set_balance is called with
  NoKey,       \* a key that does not exist
  MaxVersion   \* bound on the version counter

\* Redis keeps both keys as decimal integers; the balances filled in are funds,
\* and their versions count from 1.
ASSUME CacheAssumption ==
  /\ Deltas \subseteq Int
  /\ Fills \subseteq Nat
  /\ FillVersions \subseteq Nat \ {0}
  /\ NoKey \notin Int

VARIABLES
  balanceKey,  \* value of the key ...:balance
  versionKey,  \* value of the key ...:version
  clients      \* what each client read and was answered

cacheVars == <<balanceKey, versionKey, clients>>

-----------------------------------------------------------------------------
(* The Lua script *)

OrZero(key) == IF key = NoKey THEN 0 ELSE key

\* Mutant: the version is compared only when the key exists.
ConflictIfPresent(expected) ==
  expected # -1 /\ versionKey # NoKey /\ versionKey # expected

VersionConflict(expected) == expected # -1 /\ OrZero(versionKey) # expected

\* The script's reply: {-1, version}, {-2, balance} or {balance, version}.  Lua
\* computes with doubles, exact up to 2^53, and tostring keeps 14 digits of a
\* number; the balances of the model are below that.
ScriptReply(delta, expected) ==
  IF VersionConflict(expected) THEN <<-1, OrZero(versionKey)>>
  ELSE IF OrZero(balanceKey) + delta < 0 THEN <<-2, OrZero(balanceKey)>>
  ELSE <<OrZero(balanceKey) + delta, OrZero(versionKey) + 1>>

\* How atomic_increment_balance reads the reply.
Outcome(reply) ==
  CASE reply[1] = -1 -> "OptimisticLockException"
    [] reply[1] = -2 -> "InsufficientBalanceException"
    [] OTHER         -> "ok"

-----------------------------------------------------------------------------
(* Operations *)

NoRead == [at |-> "idle"]

\* History: the entry is written anew, not updated, while clients hold a read.
Recreated ==
  [c \in Clients |-> IF clients[c].at = "read"
                     THEN [clients[c] EXCEPT !.recreated = TRUE]
                     ELSE clients[c]]

CacheInit ==
  /\ balanceKey = NoKey
  /\ versionKey = NoKey
  /\ clients = [c \in Clients |-> NoRead]

\* get_balance: a miss, or the pair, with version 1 if its key is missing.
GetBalance(c) ==
  /\ clients' = [clients EXCEPT ![c] =
       IF balanceKey = NoKey THEN [at |-> "miss"]
       ELSE [at |-> "read", balance |-> balanceKey,
             version |-> IF versionKey = NoKey THEN 1 ELSE versionKey,
             recreated |-> FALSE]]
  /\ UNCHANGED <<balanceKey, versionKey>>

\* set_balance after a miss.
SetBalance(c, amount, version) ==
  /\ clients[c].at = "miss"
  /\ balanceKey' = amount
  /\ versionKey' = version
  /\ clients' = [Recreated EXCEPT ![c] = NoRead]

\* atomic_increment_balance, with the version the client read or with -1.
AtomicIncrement(c, delta, expected) ==
  LET reply  == ScriptReply(delta, expected)
      writes == ~VersionConflict(expected) /\ OrZero(balanceKey) + delta >= 0
      others == IF writes /\ balanceKey = NoKey THEN Recreated ELSE clients
  IN
  /\ OrZero(versionKey) < MaxVersion
  /\ IF writes THEN balanceKey' = reply[1] /\ versionKey' = reply[2]
               ELSE UNCHANGED <<balanceKey, versionKey>>
  /\ clients' = [others EXCEPT ![c] =
       [at |-> "answered", outcome |-> Outcome(reply), wrote |-> writes,
        matches |-> \/ expected = -1
                   \/ clients[c].recreated
                   \/ clients[c].balance = balanceKey]]

InvalidateCache ==
  /\ balanceKey' = NoKey
  /\ versionKey' = NoKey
  /\ UNCHANGED clients

CacheNext ==
  \/ \E c \in Clients :
       \/ GetBalance(c)
       \/ \E amount \in Fills, version \in FillVersions : SetBalance(c, amount, version)
       \/ \E delta \in Deltas : AtomicIncrement(c, delta, -1)
       \/ /\ clients[c].at = "read"
          /\ \E delta \in Deltas : AtomicIncrement(c, delta, clients[c].version)
  \/ InvalidateCache

CacheSpec == CacheInit /\ [][CacheNext]_cacheVars

-----------------------------------------------------------------------------
(* Properties *)

\* A mutation that named a version and succeeded was applied to the balance
\* its client had read, unless the entry was written anew in between (a fill
\* over it, or an eviction and a fill or unversioned mutation after it); and a
\* client is told of success exactly when the script wrote the keys.
VersionedIncrementSawRead ==
  \A c \in Clients :
    clients[c].at = "answered" =>
      /\ (clients[c].outcome = "ok") = clients[c].wrote
      /\ clients[c].wrote => clients[c].matches

=============================================================================
