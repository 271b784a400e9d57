------------------------------ MODULE AuditChain ------------------------------
(***************************************************************************)
(* The WORM audit log (src/infrastructure/audit/tamper_log.py) and the     *)
(* sealing of fraud evidence into it                                       *)
(* (src/services/fraud/evidence_sealer.py).  One WORMAuditLogger serves    *)
(* every request thread and takes no lock, so append_event is split where  *)
(* another thread can run: the test for the tenant's list, its creation,   *)
(* the reading of the list, the computation of the links, the append.      *)
(* Lists are objects in a heap, because a thread keeps the list it read    *)
(* when another one replaces it.  HMAC-SHA256 is an injective term over    *)
(* the fields it covers; entry_id is a counter (uuid4), and the payload of *)
(* an evidence package is its package_sha256.                              *)
(***************************************************************************)
EXTENDS Naturals, Sequences

CONSTANTS
  Tenants,
  Writers,     \* threads that append
  Genesis,     \* GENESIS_HASH
  Forged,      \* a payload that no package has
  MaxEntries   \* bound: calls of append_event

\* Packages are numbered.
ASSUME ForgedAssumption == Forged \notin Nat

VARIABLES
  store,       \* _store: tenant -> list object, 0 if the key is missing
  lists,       \* heap of list objects
  writers,     \* each thread's position in append_event and its locals
  issued,      \* packages created so far; numbers them (uuid4)
  receipts,    \* SealedEvidenceReceipts handed out
  altered,     \* history: list objects with an entry changed in place
  raced        \* history: tenants for which two appends overlapped

chainVars == <<store, lists, writers, issued, receipts, altered, raced>>

-----------------------------------------------------------------------------
(* Entries and their verification *)

\* Mutant: the payload is left out of the hashed material.
DigestWithoutPayload(prev, seq, payload) == <<prev, seq>>

Digest(prev, seq, payload) == <<prev, seq, payload>>

Entry(id, seq, prev, payload) ==
  [id |-> id, seq |-> seq, payload |-> payload, prev |-> prev,
   hash |-> Digest(prev, seq, payload)]

LastHash(entries) ==
  IF entries = <<>> THEN Genesis ELSE entries[Len(entries)].hash

\* No AuditIntegrityError: numbering, link and hash of every entry agree.
Verified(entries) ==
  \A i \in 1..Len(entries) :
    /\ entries[i].seq = i
    /\ entries[i].prev = LastHash(SubSeq(entries, 1, i - 1))
    /\ entries[i].hash =
         Digest(entries[i].prev, entries[i].seq, entries[i].payload)

Entries(t) == IF store[t] = 0 THEN <<>> ELSE lists[store[t]]

VerifyIntegrity(t) == Verified(Entries(t))

\* verify_sealed_evidence; FALSE also stands for the AuditIntegrityError.
VerifySealedEvidence(r) ==
  /\ VerifyIntegrity(r.tenant)
  /\ \E i \in DOMAIN Entries(r.tenant) :
       /\ Entries(r.tenant)[i].id = r.id
       /\ Entries(r.tenant)[i].payload = r.sha

\* SealedEvidenceReceipt: the entry it names and the hash of the package.
Receipt(t, entry) == [tenant |-> t, id |-> entry.id, sha |-> entry.payload]

-----------------------------------------------------------------------------
(* append_event, as called by seal_package *)

NoCall == [at |-> "idle"]

ChainInit ==
  /\ store = [t \in Tenants |-> 0]
  /\ lists = <<>>
  /\ writers = [w \in Writers |-> NoCall]
  /\ issued = 0
  /\ receipts = {}
  /\ altered = {}
  /\ raced = {}

\* Mutant: the test for an existing list is missing.
SealCreatesAlways(w, t) ==
  /\ writers[w].at = "idle"
  /\ issued < MaxEntries
  /\ issued' = issued + 1
  /\ writers' = [writers EXCEPT ![w] =
       [at |-> "create", tenant |-> t, id |-> issued + 1]]
  /\ raced' = IF \E v \in Writers : writers[v].at # "idle" /\ writers[v].tenant = t
              THEN raced \cup {t} ELSE raced
  /\ UNCHANGED <<store, lists, receipts, altered>>

\* create_package, then append_event up to `tenant_id not in self._store`.
Seal(w, t) ==
  /\ writers[w].at = "idle"
  /\ issued < MaxEntries
  /\ issued' = issued + 1
  /\ writers' = [writers EXCEPT ![w] =
       [at |-> IF store[t] = 0 THEN "create" ELSE "fetch",
        tenant |-> t, id |-> issued + 1]]
  /\ raced' = IF \E v \in Writers : writers[v].at # "idle" /\ writers[v].tenant = t
              THEN raced \cup {t} ELSE raced
  /\ UNCHANGED <<store, lists, receipts, altered>>

\* self._store[tenant_id] = []
CreateList(w) ==
  /\ writers[w].at = "create"
  /\ lists' = Append(lists, <<>>)
  /\ store' = [store EXCEPT ![writers[w].tenant] = Len(lists) + 1]
  /\ writers' = [writers EXCEPT ![w].at = "fetch"]
  /\ UNCHANGED <<issued, receipts, altered, raced>>

\* entries = self._store[tenant_id]
FetchList(w) ==
  /\ writers[w].at = "fetch"
  /\ writers' = [writers EXCEPT ![w] =
       [at |-> "link", tenant |-> writers[w].tenant, id |-> writers[w].id,
        list |-> store[writers[w].tenant]]]
  /\ UNCHANGED <<store, lists, issued, receipts, altered, raced>>

\* seq and prev_hash from the list, then the new entry's own hash.  A switch
\* between the two reads needs an append that overlaps as well.
LinkEntry(w) ==
  LET c == writers[w] IN
  /\ c.at = "link"
  /\ writers' = [writers EXCEPT ![w] =
       [at |-> "append", tenant |-> c.tenant, list |-> c.list,
        entry |-> Entry(c.id, Len(lists[c.list]) + 1,
                        LastHash(lists[c.list]), c.id)]]
  /\ UNCHANGED <<store, lists, issued, receipts, altered, raced>>

\* entries.append(entry); seal_package returns the receipt.
AppendEntry(w) ==
  LET c == writers[w] IN
  /\ c.at = "append"
  /\ lists' = [lists EXCEPT ![c.list] = Append(@, c.entry)]
  /\ receipts' = receipts \cup {Receipt(c.tenant, c.entry)}
  /\ writers' = [writers EXCEPT ![w] = NoCall]
  /\ UNCHANGED <<store, issued, altered, raced>>

\* The alteration verify_integrity is there to detect: an entry's payload is
\* replaced in the list, its stored hash is not.
AlterEntry(l, i) ==
  /\ lists[l][i].payload # Forged
  /\ lists' = [lists EXCEPT ![l][i].payload = Forged]
  /\ altered' = altered \cup {l}
  /\ UNCHANGED <<store, writers, issued, receipts, raced>>

ChainNext ==
  \/ \E w \in Writers :
       \/ \E t \in Tenants : Seal(w, t)
       \/ CreateList(w)
       \/ FetchList(w)
       \/ LinkEntry(w)
       \/ AppendEntry(w)
  \/ \E l \in DOMAIN lists : \E i \in DOMAIN lists[l] : AlterEntry(l, i)

ChainSpec == ChainInit /\ [][ChainNext]_chainVars

-----------------------------------------------------------------------------
(* Properties *)

\* verify_integrity raises for every log with an altered entry, however many
\* events are appended after the alteration, and raises for no other log
\* whose appends did not overlap.
VerdictExact ==
  \A t \in Tenants :
    /\ store[t] \in altered => ~VerifyIntegrity(t)
    /\ store[t] \notin altered /\ t \notin raced => VerifyIntegrity(t)

\* Evidence that was sealed without an overlapping append keeps passing
\* verify_sealed_evidence: its entry is in the log the tenant reads, with the
\* hash of the package the receipt names.
SealedEvidenceVerifies ==
  \A r \in receipts :
    r.tenant \notin raced /\ store[r.tenant] \notin altered
      => VerifySealedEvidence(r)

=============================================================================
