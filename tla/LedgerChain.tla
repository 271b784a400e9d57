------------------------------ MODULE LedgerChain ------------------------------
(***************************************************************************)
(* One tenant's CryptographicLedgerChain                                   *)
(* (src/domain/ledger/hash_chain.py), to which double-entry batches are    *)
(* appended.  append_transaction holds no lock: the previous hash is read, *)
(* then the length, and the block is appended at the end.  The canonical   *)
(* bytes are the tuple of the fields they concatenate and the HMAC an      *)
(* injective term over them.                                               *)
(***************************************************************************)
EXTENDS LedgerEntry

CONSTANTS
  Batches,      \* TransactionBatches: [tenant, tx, legs]
  ChainTenant,  \* tenant_id of the chain
  Posters,      \* threads that call append_transaction
  NoHash,       \* GENESIS_PREVIOUS_HASH
  MaxBlocks     \* bound: appended blocks

\* What PostingLeg.__post_init__ lets through.
ASSUME BatchAssumption ==
  \A b \in Batches :
    b.legs \in Seq([acct : STRING, type : {"DEBIT", "CREDIT"}, amt : Nat \ {0}])

VARIABLES
  blocks,       \* self.blocks
  posters,      \* each thread's position in append_transaction
  rejected,     \* history: batches refused with an exception
  spoiled,      \* history: a block was changed in place
  contended     \* history: two appends overlapped

ledgerVars == <<blocks, posters, rejected, spoiled, contended>>

-----------------------------------------------------------------------------
(* Blocks *)

Mac(seq, tx, prev, legs) == <<seq, tx, prev, legs>>

Block(seq, b, prev) ==
  [seq |-> seq, tx |-> b.tx, legs |-> b.legs, prev |-> prev,
   hash |-> Mac(seq, b.tx, prev, b.legs)]

HeadHash == IF blocks = <<>> THEN NoHash ELSE blocks[Len(blocks)].hash

\* verify_integrity returns True; the sequence number is covered by the hash
\* and is not compared with the position.
LedgerVerified ==
  \A i \in DOMAIN blocks :
    LET b == blocks[i] IN
    /\ b.prev = IF i = 1 THEN NoHash ELSE blocks[i - 1].hash
    /\ b.hash = Mac(b.seq, b.tx, b.prev, b.legs)

-----------------------------------------------------------------------------
(* append_transaction *)

NoPosting == [at |-> "idle"]

LedgerInit ==
  /\ blocks = <<>>
  /\ posters = [p \in Posters |-> NoPosting]
  /\ rejected = {}
  /\ spoiled = FALSE
  /\ contended = FALSE

\* A foreign tenant or an unbalanced batch raises before anything is read.
RejectBatch(p, b) ==
  /\ posters[p].at = "idle"
  /\ b.tenant # ChainTenant \/ ~ValidateBalance(b)
  /\ rejected' = rejected \cup {b}
  /\ UNCHANGED <<blocks, posters, spoiled, contended>>

\* previous_hash = self.blocks[-1].current_hash
ReadHead(p, b) ==
  /\ posters[p].at = "idle"
  /\ Len(blocks) < MaxBlocks
  /\ b.tenant = ChainTenant
  /\ ValidateBalance(b)
  /\ posters' = [posters EXCEPT ![p] =
       [at |-> "number", batch |-> b, prev |-> HeadHash]]
  /\ contended' = (contended \/ \E q \in Posters : posters[q].at # "idle")
  /\ UNCHANGED <<blocks, rejected, spoiled>>

\* seq_num = len(self.blocks) + 1, and the block is built.
NumberBlock(p) ==
  LET c == posters[p] IN
  /\ c.at = "number"
  /\ posters' = [posters EXCEPT ![p] =
       [at |-> "append", block |-> Block(Len(blocks) + 1, c.batch, c.prev)]]
  /\ UNCHANGED <<blocks, rejected, spoiled, contended>>

AppendBlock(p) ==
  /\ posters[p].at = "append"
  /\ blocks' = Append(blocks, posters[p].block)
  /\ posters' = [posters EXCEPT ![p] = NoPosting]
  /\ UNCHANGED <<rejected, spoiled, contended>>

\* The corruption verify_integrity is there to detect: an amount of a stored
\* block is changed (legs_payload is a list of dicts), its hash is not.
SpoilBlock(i) ==
  /\ blocks[i].legs # <<>>
  /\ blocks[i].legs[1].amt > 0
  /\ blocks' = [blocks EXCEPT ![i].legs[1].amt = -@]
  /\ spoiled' = TRUE
  /\ UNCHANGED <<posters, rejected, contended>>

LedgerNext ==
  \/ \E p \in Posters :
       \/ \E b \in Batches : RejectBatch(p, b) \/ ReadHead(p, b)
       \/ NumberBlock(p)
       \/ AppendBlock(p)
  \/ \E i \in DOMAIN blocks : SpoilBlock(i)

LedgerSpec == LedgerInit /\ [][LedgerNext]_ledgerVars

-----------------------------------------------------------------------------
(* Properties *)

\* The ledger's verdict and its books: a chain with a changed block never
\* passes verify_integrity again; a chain without one passes it unless two
\* appends overlapped; and whatever overlapped, every block balances, and so
\* do the books they add up to.
LedgerSound ==
  /\ spoiled => ~LedgerVerified
  /\ ~spoiled /\ ~contended => LedgerVerified
  /\ ~spoiled => \A i \in DOMAIN blocks :
       TotalOf(blocks[i].legs, "DEBIT") = TotalOf(blocks[i].legs, "CREDIT")

=============================================================================
