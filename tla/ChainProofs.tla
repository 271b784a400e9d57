------------------------------ MODULE ChainProofs ------------------------------
(***************************************************************************)
(* Theorems about the stores that keep a record of what happened, for any  *)
(* number of tenants, threads, entries and scripts: what the verdicts of   *)
(* the audit log and of the ledger are worth although appends take no      *)
(* lock, and what the migration log says of the schema.                    *)
(***************************************************************************)
EXTENDS AuditChain, LedgerChain, Migrations, SequenceTheorems, TLAPS

-----------------------------------------------------------------------------
(* The heap of lists *)

\* Lists of whatever elements.
IsHeap(h) == \E S : h \in Seq(Seq(S))

LEMMA IsSequence ==
  ASSUME NEW S, NEW n \in Nat, NEW f \in [1..n -> S]
  PROVE  f \in Seq(S) /\ Len(f) = n
<1>1. f \in Seq(S)
  BY SeqDef
<1>2. DOMAIN f = 1..n
  OBVIOUS
<1>3. Len(f) \in Nat /\ DOMAIN f = 1..Len(f)
  BY <1>1, LenProperties
<1>4. 1..n = 1..Len(f)
  BY <1>2, <1>3
<1>5. QED
  BY <1>1, <1>3, <1>4

LEMMA SeqGrows ==
  ASSUME NEW S, NEW T, NEW s \in Seq(S)
  PROVE  s \in Seq(S \cup T)
<1>1. Len(s) \in Nat /\ s \in [1..Len(s) -> S]
  OBVIOUS
<1>2. s \in [1..Len(s) -> S \cup T]
  BY <1>1
<1>3. QED
  BY <1>1, <1>2, SeqDef

LEMMA HeapTyped ==
  ASSUME NEW h, IsHeap(h)
  PROVE  /\ Len(h) \in Nat /\ DOMAIN h = 1..Len(h)
         /\ \A l \in 1..Len(h) : Len(h[l]) \in Nat /\ DOMAIN h[l] = 1..Len(h[l])
<1>1. PICK S : h \in Seq(Seq(S))
  BY DEF IsHeap
<1>2. \A l \in 1..Len(h) : h[l] \in Seq(S)
  BY <1>1
<1>3. QED
  BY <1>1, <1>2

LEMMA HeapCreate ==
  ASSUME NEW h, IsHeap(h)
  PROVE  /\ IsHeap(Append(h, <<>>)) /\ Len(Append(h, <<>>)) = Len(h) + 1
         /\ Append(h, <<>>)[Len(h) + 1] = <<>>
         /\ \A l \in 1..Len(h) : Append(h, <<>>)[l] = h[l]
<1>1. PICK S : h \in Seq(Seq(S))
  BY DEF IsHeap
<1>2. <<>> \in Seq(S)
  OBVIOUS
<1>3. Append(h, <<>>) \in Seq(Seq(S))
  BY <1>1, <1>2
<1>4. QED
  BY <1>1, <1>2, <1>3 DEF IsHeap

Appended(g, h, l, e) == g = [h EXCEPT ![l] = Append(@, e)]

LEMMA HeapAppend ==
  ASSUME NEW h, IsHeap(h), NEW l \in 1..Len(h), NEW e, NEW g, Appended(g, h, l, e)
  PROVE  /\ IsHeap(g) /\ Len(g) = Len(h)
         /\ Len(g[l]) = Len(h[l]) + 1 /\ g[l][Len(h[l]) + 1] = e
         /\ \A i \in 1..Len(h[l]) : g[l][i] = h[l][i]
         /\ \A k \in 1..Len(h) : k # l => g[k] = h[k]
<1>1. PICK S : h \in Seq(Seq(S))
  BY DEF IsHeap
<1> DEFINE T == S \cup {e}
<1>2. \A k \in 1..Len(h) : h[k] \in Seq(T)
  BY <1>1, SeqGrows
<1>3. h \in [1..Len(h) -> Seq(T)] /\ Len(h) \in Nat
  BY <1>1, <1>2
<1>4. Append(h[l], e) \in Seq(T)
  BY <1>2
<1> HIDE DEF T
<1>5. g \in [1..Len(h) -> Seq(T)]
  BY <1>3, <1>4 DEF Appended
<1>6. g \in Seq(Seq(T)) /\ Len(g) = Len(h)
  BY <1>3, <1>5, IsSequence
<1>7. g[l] = Append(h[l], e) /\ h[l] \in Seq(T) /\ \A k \in 1..Len(h) : k # l => g[k] = h[k]
  BY <1>2, <1>3 DEF Appended
<1>8. QED
  BY <1>6, <1>7 DEF IsHeap

Replaced(g, h, l, j, e) == g = [h EXCEPT ![l][j] = e]

LEMMA HeapAlter ==
  ASSUME NEW h, IsHeap(h), NEW l \in 1..Len(h), NEW j \in 1..Len(h[l]), NEW e,
         NEW g, Replaced(g, h, l, j, e)
  PROVE  /\ IsHeap(g) /\ Len(g) = Len(h)
         /\ Len(g[l]) = Len(h[l]) /\ g[l][j] = e
         /\ \A i \in 1..Len(h[l]) : i # j => g[l][i] = h[l][i]
         /\ \A k \in 1..Len(h) : k # l => g[k] = h[k]
<1>1. PICK S : h \in Seq(Seq(S))
  BY DEF IsHeap
<1> DEFINE T == S \cup {e}
<1>2. \A k \in 1..Len(h) : h[k] \in Seq(T)
  BY <1>1, SeqGrows
<1>3. h \in [1..Len(h) -> Seq(T)] /\ Len(h) \in Nat
  BY <1>1, <1>2
<1>4. h[l] \in [1..Len(h[l]) -> T] /\ Len(h[l]) \in Nat
  BY <1>2
<1>5. [h[l] EXCEPT ![j] = e] \in [1..Len(h[l]) -> T]
  BY <1>4
<1>6. [h[l] EXCEPT ![j] = e] \in Seq(T) /\ Len([h[l] EXCEPT ![j] = e]) = Len(h[l])
  BY <1>4, <1>5, IsSequence
<1>7. g = [h EXCEPT ![l] = [h[l] EXCEPT ![j] = e]]
  BY <1>3 DEF Replaced
<1>8. g \in [1..Len(h) -> Seq(T)]
  BY <1>3, <1>6, <1>7
<1>9. g \in Seq(Seq(T)) /\ Len(g) = Len(h)
  BY <1>3, <1>8, IsSequence
<1>10. g[l] = [h[l] EXCEPT ![j] = e] /\ \A k \in 1..Len(h) : k # l => g[k] = h[k]
  BY <1>3, <1>7
<1>11. QED
  BY <1>4, <1>6, <1>9, <1>10 DEF IsHeap

-----------------------------------------------------------------------------
(* The invariant of the audit log *)

\* An entry keeps the hash of what was appended; at most its payload was
\* replaced.
Sealed(e) ==
  /\ e = [id |-> e.id, seq |-> e.seq, payload |-> e.payload, prev |-> e.prev, hash |-> e.hash]
  /\ e.id \in Nat
  /\ e.hash = Digest(e.prev, e.seq, e.id)
  /\ e.payload = e.id \/ e.payload = Forged

GoodList(list, tampered) ==
  /\ \A i \in 1..Len(list) : Sealed(list[i])
  /\ tampered => \E i \in 1..Len(list) : list[i].payload = Forged
  /\ ~tampered => \A i \in 1..Len(list) : list[i].payload = list[i].id

\* The i-th entry of a list carries its number and the hash before it.
Links(list, i, e) ==
  e.seq = i /\ e.prev = IF i = 1 THEN Genesis ELSE list[i - 1].hash

Chained(list) == \A i \in 1..Len(list) : Links(list, i, list[i])

WriterTyped(w) ==
  LET c == writers[w] IN
  \/ c = NoCall
  \/ /\ c = [at |-> c.at, tenant |-> c.tenant, id |-> c.id]
     /\ c.tenant \in Tenants /\ c.id \in Nat
     /\ c.at = "create" \/ (c.at = "fetch" /\ store[c.tenant] # 0)
  \/ /\ c.at = "link" /\ c.tenant \in Tenants /\ c.id \in Nat
     /\ c.list \in 1..Len(lists)
  \/ /\ c.at = "append" /\ c.tenant \in Tenants /\ c.list \in 1..Len(lists)
     /\ Sealed(c.entry) /\ c.entry.payload = c.entry.id

HeapOK ==
  /\ IsHeap(lists)
  /\ store \in [Tenants -> 0..Len(lists)]
  /\ issued \in Nat
  /\ altered \subseteq 1..Len(lists)
  /\ writers = [w \in Writers |-> writers[w]]
  /\ \A w \in Writers : WriterTyped(w)

\* No two tenants share a list, not even one that a thread still holds.
Owned ==
  /\ \A t, u \in Tenants : store[t] = store[u] /\ store[t] # 0 => t = u
  /\ \A w \in Writers : writers[w].at \in {"link", "append"} =>
       \A u \in Tenants : store[u] = writers[w].list => u = writers[w].tenant

Busy(w, t) == writers[w].at # "idle" /\ writers[w].tenant = t

\* While its appends did not overlap, one thread at most appends for the
\* tenant, to the list the tenant reads; the list is linked, and what was
\* acknowledged is in it.
Quiet(t) ==
  t \notin raced =>
    /\ \A v, w \in Writers : Busy(v, t) /\ Busy(w, t) => v = w
    /\ \A w \in Writers : Busy(w, t) =>
         /\ writers[w].at = "create" => store[t] = 0
         /\ writers[w].at \in {"link", "append"} => writers[w].list = store[t]
         /\ writers[w].at = "append" =>
              Links(lists[store[t]], Len(lists[store[t]]) + 1, writers[w].entry)
    /\ store[t] # 0 => Chained(lists[store[t]])
    /\ \A r \in receipts : r.tenant = t =>
         /\ store[t] # 0 /\ r.sha = r.id
         /\ \E i \in 1..Len(lists[store[t]]) : lists[store[t]][i].id = r.id

ChainInv ==
  /\ HeapOK
  /\ Owned
  /\ \A l \in 1..Len(lists) : GoodList(lists[l], l \in altered)
  /\ \A t \in Tenants : Quiet(t)

-----------------------------------------------------------------------------
(* Frames *)

SameLinks(new, old) ==
  /\ Len(new) = Len(old)
  /\ \A i \in 1..Len(old) : /\ new[i].id = old[i].id /\ new[i].seq = old[i].seq
                             /\ new[i].prev = old[i].prev /\ new[i].hash = old[i].hash

LEMMA LinksKept ==
  ASSUME NEW new, NEW old, SameLinks(new, old), Len(old) \in Nat
  PROVE  /\ Chained(old) => Chained(new)
         /\ \A e : Links(old, Len(old) + 1, e) => Links(new, Len(new) + 1, e)
<1>1. ASSUME NEW i \in 1..(Len(old) + 1), NEW e PROVE Links(old, i, e) => Links(new, i, e)
  <2>1. i # 1 => i - 1 \in 1..Len(old)
    OBVIOUS
  <2>2. QED
    BY <2>1 DEF SameLinks, Links
<1>2. ASSUME Chained(old), NEW i \in 1..Len(new) PROVE Links(new, i, new[i])
  <2>1. i \in 1..Len(old) /\ i \in 1..(Len(old) + 1)
    BY DEF SameLinks
  <2>2. Links(new, i, old[i])
    BY <1>1, <1>2, <2>1 DEF Chained
  <2>3. QED
    BY <2>1, <2>2 DEF Links, SameLinks
<1>3. Len(old) + 1 \in 1..(Len(old) + 1) /\ Len(new) = Len(old)
  BY DEF SameLinks
<1>4. QED
  BY <1>1, <1>2, <1>3 DEF Chained

\* A tenant whom a step does not concern.
LEMMA QuietKept ==
  ASSUME HeapOK, NEW t \in Tenants, Quiet(t), raced \subseteq raced', store'[t] = store[t],
         store[t] # 0 => SameLinks(lists'[store[t]], lists[store[t]]),
         \A w \in Writers : Busy(w, t)' => Busy(w, t) /\ writers'[w] = writers[w],
         \A r \in receipts' : r.tenant = t => r \in receipts
  PROVE  Quiet(t)'
<1> SUFFICES ASSUME t \notin raced' PROVE Quiet(t)'
  BY DEF Quiet
<1>0. t \notin raced
  OBVIOUS
<1>1. store[t] # 0 => Len(lists[store[t]]) \in Nat /\ store[t] \in 1..Len(lists)
  <2>1. store[t] \in 0..Len(lists) /\ Len(lists) \in Nat
    BY HeapTyped DEF HeapOK
  <2>2. QED
    BY <2>1, HeapTyped DEF HeapOK
<1>2. store[t] # 0 =>
        /\ Chained(lists[store[t]]) => Chained(lists'[store[t]])
        /\ \A e : Links(lists[store[t]], Len(lists[store[t]]) + 1, e) =>
                  Links(lists'[store[t]], Len(lists'[store[t]]) + 1, e)
  BY <1>1, LinksKept
<1>3. \A v, w \in Writers : Busy(v, t)' /\ Busy(w, t)' => v = w
  BY <1>0 DEF Quiet
<1>4. ASSUME NEW w \in Writers, Busy(w, t)'
      PROVE  /\ writers'[w].at = "create" => store'[t] = 0
             /\ writers'[w].at \in {"link", "append"} => writers'[w].list = store'[t]
             /\ writers'[w].at = "append" =>
                  Links(lists'[store'[t]], Len(lists'[store'[t]]) + 1, writers'[w].entry)
  <2>1. Busy(w, t) /\ writers'[w] = writers[w]
    BY <1>4
  <2>2. writers[w].at = "append" => store[t] # 0
    <3>1. WriterTyped(w)
      BY DEF HeapOK
    <3>2. writers[w].at = "append" => writers[w].list \in 1..Len(lists)
      BY <3>1 DEF WriterTyped, NoCall
    <3>3. writers[w].at = "append" => writers[w].list = store[t]
      BY <1>0, <2>1 DEF Quiet
    <3>4. QED
      BY <3>2, <3>3
  <2>3. QED
    BY <1>0, <1>2, <2>1, <2>2 DEF Quiet
<1>5. store'[t] # 0 => Chained(lists'[store'[t]])
  BY <1>0, <1>2 DEF Quiet
<1>6. ASSUME NEW r \in receipts', r.tenant = t
      PROVE  /\ store'[t] # 0 /\ r.sha = r.id
             /\ \E i \in 1..Len(lists'[store'[t]]) : lists'[store'[t]][i].id = r.id
  <2>1. /\ store[t] # 0 /\ r.sha = r.id
        /\ \E i \in 1..Len(lists[store[t]]) : lists[store[t]][i].id = r.id
    BY <1>0, <1>6 DEF Quiet
  <2>2. QED
    BY <2>1 DEF SameLinks
<1>7. QED
  BY <1>3, <1>4, <1>5, <1>6 DEF Quiet

\* A list that nobody touches has the same links.
LEMMA SameList ==
  ASSUME NEW list
  PROVE  SameLinks(list, list)
  BY DEF SameLinks

\* What the invariant says of the position of a tenant's list.
LEMMA StorePosition ==
  ASSUME HeapOK, NEW t \in Tenants
  PROVE  /\ store[t] \in Nat /\ Len(lists) \in Nat
         /\ store[t] # 0 => store[t] \in 1..Len(lists)
         /\ store[t] # Len(lists) + 1
<1>1. store[t] \in 0..Len(lists) /\ Len(lists) \in Nat
  BY HeapTyped DEF HeapOK
<1>2. QED
  BY <1>1

-----------------------------------------------------------------------------
(* Steps of append_event *)

\* Steps that write neither the heap nor the table of lists.
LEMMA WriterMoves ==
  ASSUME ChainInv, NEW w \in Writers, NEW t \in Tenants, NEW c,
         writers' = [writers EXCEPT ![w] = c], c.tenant = t, c.at # "idle",
         UNCHANGED <<store, lists, receipts, altered>>, issued' \in Nat,
         WriterTyped(w)', raced \subseteq raced',
         c.at \in {"link", "append"} => \A u \in Tenants : store[u] = c.list => u = t,
         t \notin raced' =>
           /\ \A v \in Writers : Busy(v, t) => v = w
           /\ c.at = "create" => store[t] = 0
           /\ c.at \in {"link", "append"} => c.list = store[t]
           /\ c.at = "append" => Links(lists[store[t]], Len(lists[store[t]]) + 1, c.entry)
  PROVE  ChainInv'
<1>t. HeapOK /\ Owned
  BY DEF ChainInv
<1>1. writers'[w] = c /\ \A v \in Writers : v # w => writers'[v] = writers[v]
  BY <1>t DEF HeapOK
<1>2. writers' = [v \in Writers |-> writers'[v]]
  BY <1>t DEF HeapOK
<1>3. \A v \in Writers : WriterTyped(v)'
  BY <1>t, <1>1 DEF HeapOK, WriterTyped
<1>4. HeapOK'
  BY <1>t, <1>2, <1>3 DEF HeapOK
<1>5. Owned'
  BY <1>t, <1>1 DEF Owned
<1>6. ASSUME NEW u \in Tenants, u # t PROVE Quiet(u)'
  <2>1. \A v \in Writers : Busy(v, u)' => Busy(v, u) /\ writers'[v] = writers[v]
    BY <1>1, <1>6 DEF Busy
  <2>2. Quiet(u)
    BY DEF ChainInv
  <2>3. QED
    BY <1>t, <2>1, <2>2, SameList, QuietKept
<1>7. Quiet(t)'
  <2> SUFFICES ASSUME t \notin raced' PROVE Quiet(t)'
    BY DEF Quiet
  <2>1. \A v \in Writers : Busy(v, t)' => v = w
    BY <1>1 DEF Busy
  <2>2. Quiet(t) /\ t \notin raced
    BY DEF ChainInv
  <2>3. QED
    BY <1>1, <2>1, <2>2 DEF Quiet
<1>8. \A l \in 1..Len(lists') : GoodList(lists'[l], l \in altered')
  BY DEF ChainInv
<1>9. QED
  BY <1>4, <1>5, <1>6, <1>7, <1>8 DEF ChainInv

LEMMA SealKeeps ==
  ASSUME ChainInv, NEW w \in Writers, NEW t \in Tenants, Seal(w, t)
  PROVE  ChainInv'
<1> DEFINE c == [at |-> IF store[t] = 0 THEN "create" ELSE "fetch", tenant |-> t,
                 id |-> issued + 1]
<1>t. HeapOK
  BY DEF ChainInv
<1>1. c.at \in {"create", "fetch"} /\ (c.at = "create" <=> store[t] = 0)
      /\ c.tenant = t /\ c.id = issued + 1 /\ c = [at |-> c.at, tenant |-> c.tenant, id |-> c.id]
  OBVIOUS
<1>2. writers' = [writers EXCEPT ![w] = c] /\ UNCHANGED <<store, lists, receipts, altered>>
      /\ issued' = issued + 1
  BY DEF Seal
<1> HIDE DEF c
<1>3. writers'[w] = c
  BY <1>2, <1>t DEF HeapOK
<1>4. issued + 1 \in Nat
  BY <1>t DEF HeapOK
<1>5. WriterTyped(w)'
  BY <1>1, <1>2, <1>3, <1>4 DEF WriterTyped
<1>6. raced \subseteq raced' /\ (t \notin raced' => \A v \in Writers : ~Busy(v, t))
  BY DEF Seal, Busy
<1>7. QED
  BY <1>1, <1>2, <1>4, <1>5, <1>6, WriterMoves

LEMMA FetchKeeps ==
  ASSUME ChainInv, NEW w \in Writers, FetchList(w)
  PROVE  ChainInv'
<1> DEFINE t == writers[w].tenant
           c == [at |-> "link", tenant |-> t, id |-> writers[w].id, list |-> store[t]]
<1>t. HeapOK /\ Owned
  BY DEF ChainInv
<1>1. t \in Tenants /\ writers[w].id \in Nat /\ store[t] # 0 /\ Busy(w, t)
  BY <1>t DEF FetchList, HeapOK, WriterTyped, NoCall, Busy
<1>2. store[t] \in 1..Len(lists)
  BY <1>t, <1>1, StorePosition
<1>3. writers' = [writers EXCEPT ![w] = c]
      /\ UNCHANGED <<store, lists, issued, receipts, altered, raced>>
  BY DEF FetchList
<1>4. c.at = "link" /\ c.tenant = t /\ c.id = writers[w].id /\ c.list = store[t]
  OBVIOUS
<1> HIDE DEF c
<1>5. writers'[w] = c
  BY <1>3, <1>t DEF HeapOK
<1>6. WriterTyped(w)'
  BY <1>1, <1>2, <1>3, <1>4, <1>5 DEF WriterTyped
<1>7. \A u \in Tenants : store[u] = c.list => u = t
  BY <1>1, <1>4, <1>t DEF Owned
<1>8. t \notin raced => \A v \in Writers : Busy(v, t) => v = w
  BY <1>1 DEF ChainInv, Quiet
<1>9. issued' \in Nat
  BY <1>3, <1>t DEF HeapOK
<1> HIDE DEF t
<1>10. QED
  BY <1>1, <1>3, <1>4, <1>6, <1>7, <1>8, <1>9, WriterMoves

\* LastHash is the hash that the next entry has to link to.
LEMMA NextLinks ==
  ASSUME NEW h, IsHeap(h), NEW l \in 1..Len(h), NEW e,
         e.seq = Len(h[l]) + 1, e.prev = LastHash(h[l])
  PROVE  Links(h[l], Len(h[l]) + 1, e)
<1>1. PICK S : h \in Seq(Seq(S))
  BY DEF IsHeap
<1>2. h[l] \in Seq(S)
  BY <1>1
<1>3. Len(h[l]) \in Nat /\ (h[l] = <<>> <=> Len(h[l]) = 0)
  BY <1>2
<1> DEFINE n == Len(h[l])
<1> HIDE DEF n
<1>4. n + 1 = 1 <=> n = 0
  BY <1>3 DEF n
<1>5. (n + 1) - 1 = n
  BY <1>3 DEF n
<1>6. QED
  BY <1>3, <1>4, <1>5 DEF Links, LastHash, n

LEMMA LinkKeeps ==
  ASSUME ChainInv, NEW w \in Writers, LinkEntry(w)
  PROVE  ChainInv'
<1> DEFINE t == writers[w].tenant
           l == writers[w].list
           e == Entry(writers[w].id, Len(lists[l]) + 1, LastHash(lists[l]), writers[w].id)
           c == [at |-> "append", tenant |-> t, list |-> l, entry |-> e]
<1>t. HeapOK /\ Owned
  BY DEF ChainInv
<1>1. t \in Tenants /\ writers[w].id \in Nat /\ l \in 1..Len(lists) /\ Busy(w, t)
      /\ writers[w].at = "link"
  BY <1>t DEF LinkEntry, HeapOK, WriterTyped, NoCall, Busy
<1>2. writers' = [writers EXCEPT ![w] = c]
      /\ UNCHANGED <<store, lists, issued, receipts, altered, raced>>
  BY DEF LinkEntry
<1>3. Sealed(e) /\ e.payload = e.id
  BY <1>1 DEF Entry, Sealed
<1>4. e.seq = Len(lists[l]) + 1 /\ e.prev = LastHash(lists[l])
  BY DEF Entry
<1> HIDE DEF e
<1>5. Links(lists[l], Len(lists[l]) + 1, e)
  BY <1>t, <1>1, <1>4, NextLinks DEF HeapOK
<1>6. c.at = "append" /\ c.tenant = t /\ c.list = l /\ c.entry = e
  OBVIOUS
<1> HIDE DEF c
<1>7. writers'[w] = c
  BY <1>2, <1>t DEF HeapOK
<1>8. WriterTyped(w)'
  BY <1>1, <1>2, <1>3, <1>6, <1>7 DEF WriterTyped
<1>9. \A u \in Tenants : store[u] = c.list => u = t
  BY <1>1, <1>6, <1>t DEF Owned
<1>10. t \notin raced => l = store[t] /\ \A v \in Writers : Busy(v, t) => v = w
  BY <1>1 DEF ChainInv, Quiet
<1>11. issued' \in Nat
  BY <1>2, <1>t DEF HeapOK
<1> HIDE DEF t, l
<1>12. QED
  BY <1>1, <1>2, <1>5, <1>6, <1>8, <1>9, <1>10, <1>11, WriterMoves

LEMMA CreateKeeps ==
  ASSUME ChainInv, NEW w \in Writers, CreateList(w)
  PROVE  ChainInv'
<1> DEFINE n == Len(lists) + 1
           c == [writers[w] EXCEPT !.at = "fetch"]
<1>p. PICK t : t = writers[w].tenant
  OBVIOUS
<1>t. HeapOK /\ Owned
  BY DEF ChainInv
<1>1. t \in Tenants /\ writers[w].id \in Nat /\ Busy(w, t) /\ writers[w].at = "create"
      /\ writers[w] = [at |-> writers[w].at, tenant |-> t, id |-> writers[w].id]
  BY <1>t, <1>p DEF CreateList, HeapOK, WriterTyped, NoCall, Busy
<1>2. /\ writers' = [writers EXCEPT ![w].at = "fetch"] /\ lists' = Append(lists, <<>>)
      /\ store' = [store EXCEPT ![t] = n]
      /\ UNCHANGED <<issued, receipts, altered, raced>>
  BY <1>p DEF CreateList
<1>3. c.at = "fetch" /\ c.tenant = t /\ c.id = writers[w].id
      /\ c = [at |-> c.at, tenant |-> c.tenant, id |-> c.id]
  BY <1>1
<1>4. writers'[w] = c /\ \A v \in Writers : v # w => writers'[v] = writers[v]
  BY <1>t, <1>2 DEF HeapOK
<1>5. writers' = [v \in Writers |-> writers'[v]]
  BY <1>t, <1>2 DEF HeapOK
<1>6. Len(lists) \in Nat
  BY <1>t, StorePosition, <1>1
<1>7. /\ IsHeap(lists') /\ Len(lists') = n /\ lists'[n] = <<>>
      /\ \A l \in 1..Len(lists) : lists'[l] = lists[l]
  BY <1>t, <1>2, HeapCreate DEF HeapOK
<1>8. n \in Nat /\ n # 0 /\ n \notin 1..Len(lists) /\ 1..Len(lists) \subseteq 1..n
      /\ (\A l \in 1..n : l = n \/ l \in 1..Len(lists))
      /\ 0..Len(lists) \subseteq 0..n /\ n \in 0..n
  BY <1>6
<1>9. store'[t] = n /\ \A u \in Tenants : u # t => store'[u] = store[u]
  BY <1>t, <1>1, <1>2 DEF HeapOK
<1> HIDE DEF n, c
<1>10. store' \in [Tenants -> 0..n]
  BY <1>t, <1>1, <1>2, <1>8 DEF HeapOK
<1>11. ASSUME NEW v \in Writers PROVE WriterTyped(v)'
  <2>1. CASE v = w
    BY <1>1, <1>3, <1>4, <1>8, <1>9, <2>1 DEF WriterTyped
  <2>2. CASE v # w
    <3>1. WriterTyped(v) /\ writers'[v] = writers[v]
      BY <1>t, <1>4, <2>2 DEF HeapOK
    <3>2. \A u \in Tenants : store[u] # 0 => store'[u] # 0
      BY <1>8, <1>9
    <3>3. \A l \in 1..Len(lists) : l \in 1..Len(lists')
      BY <1>7, <1>8
    <3>4. QED
      BY <3>1, <3>2, <3>3 DEF WriterTyped
  <2>3. QED
    BY <2>1, <2>2
<1>12. HeapOK'
  BY <1>t, <1>2, <1>5, <1>7, <1>8, <1>10, <1>11 DEF HeapOK
<1>13. Owned'
  <2>1. \A u \in Tenants : store[u] # n
    BY <1>t, <1>8, StorePosition
  <2>2. \A v \in Writers : writers[v].at \in {"link", "append"} => writers[v].list # n
    BY <1>t, <1>8 DEF HeapOK, WriterTyped, NoCall
  <2>3. \A x, u \in Tenants : store'[x] = store'[u] /\ store'[x] # 0 => x = u
    BY <1>9, <2>1, <1>t DEF Owned
  <2>4. ASSUME NEW v \in Writers, writers'[v].at \in {"link", "append"},
               NEW u \in Tenants, store'[u] = writers'[v].list
        PROVE  u = writers'[v].tenant
    <3>1. writers'[v] = writers[v]
      BY <1>3, <1>4, <2>4
    <3>2. u # t
      BY <1>9, <2>2, <2>4, <3>1
    <3>3. QED
      BY <1>9, <1>t, <2>4, <3>1, <3>2 DEF Owned
  <2>5. QED
    BY <2>3, <2>4 DEF Owned
<1>14. ASSUME NEW l \in 1..Len(lists') PROVE GoodList(lists'[l], l \in altered')
  <2>1. CASE l = n
    <3>1. l \notin altered'
      BY <1>t, <1>2, <1>8, <2>1 DEF HeapOK
    <3>2. Len(lists'[l]) = 0
      BY <1>7, <2>1
    <3>3. QED
      BY <3>1, <3>2 DEF GoodList
  <2>2. CASE l # n
    BY <1>2, <1>7, <1>8, <2>2 DEF ChainInv
  <2>3. QED
    BY <2>1, <2>2
<1>15. ASSUME NEW u \in Tenants, u # t PROVE Quiet(u)'
  <2>1. \A v \in Writers : Busy(v, u)' => Busy(v, u) /\ writers'[v] = writers[v]
    BY <1>3, <1>4, <1>15 DEF Busy
  <2>2. Quiet(u)
    BY DEF ChainInv
  <2>3. store[u] # 0 => SameLinks(lists'[store[u]], lists[store[u]])
    BY <1>t, <1>7, StorePosition, SameList
  <2>4. QED
    BY <1>t, <1>2, <1>9, <1>15, <2>1, <2>2, <2>3, QuietKept
<1>16. Quiet(t)'
  <2> SUFFICES ASSUME t \notin raced' PROVE Quiet(t)'
    BY DEF Quiet
  <2>1. Quiet(t) /\ t \notin raced
    BY <1>1, <1>2 DEF ChainInv
  <2>2. store[t] = 0 /\ \A v \in Writers : Busy(v, t) => v = w
    BY <1>1, <2>1 DEF Quiet
  <2>3. \A v \in Writers : Busy(v, t)' => v = w
    BY <1>4, <2>2 DEF Busy
  <2>4. \A r \in receipts' : r.tenant # t
    BY <1>2, <2>1, <2>2 DEF Quiet
  <2>5. Chained(lists'[store'[t]])
    <3>1. Len(lists'[store'[t]]) = 0
      BY <1>7, <1>9
    <3>2. QED
      BY <3>1 DEF Chained
  <2>6. writers'[w].at = "fetch"
    BY <1>3, <1>4
  <2>7. QED
    BY <2>3, <2>4, <2>5, <2>6 DEF Quiet
<1>17. QED
  BY <1>12, <1>13, <1>14, <1>15, <1>16 DEF ChainInv

LEMMA AppendKeeps ==
  ASSUME ChainInv, NEW w \in Writers, AppendEntry(w)
  PROVE  ChainInv'
<1>p. PICK t, l, e : t = writers[w].tenant /\ l = writers[w].list /\ e = writers[w].entry
  OBVIOUS
<1>t. HeapOK /\ Owned
  BY DEF ChainInv
<1>1. t \in Tenants /\ l \in 1..Len(lists) /\ Sealed(e) /\ e.payload = e.id
      /\ Busy(w, t) /\ writers[w].at = "append"
  BY <1>t, <1>p DEF AppendEntry, HeapOK, WriterTyped, NoCall, Busy
<1>2. /\ writers' = [writers EXCEPT ![w] = NoCall]
      /\ lists' = [lists EXCEPT ![l] = Append(@, e)]
      /\ receipts' = receipts \cup {Receipt(t, e)}
      /\ UNCHANGED <<store, issued, altered, raced>>
  BY <1>p DEF AppendEntry
<1>a. Appended(lists', lists, l, e)
  BY <1>2 DEF Appended
<1>3. /\ IsHeap(lists') /\ Len(lists') = Len(lists)
      /\ Len(lists'[l]) = Len(lists[l]) + 1 /\ lists'[l][Len(lists[l]) + 1] = e
      /\ \A i \in 1..Len(lists[l]) : lists'[l][i] = lists[l][i]
      /\ \A k \in 1..Len(lists) : k # l => lists'[k] = lists[k]
  BY <1>t, <1>1, <1>a, HeapAppend DEF HeapOK
<1>4. writers'[w] = NoCall /\ \A v \in Writers : v # w => writers'[v] = writers[v]
  BY <1>t, <1>2 DEF HeapOK
<1>5. writers' = [v \in Writers |-> writers'[v]]
  BY <1>t, <1>2 DEF HeapOK
<1>o. \A u \in Tenants : store[u] = l => u = t
  BY <1>t, <1>p, <1>1 DEF Owned
<1> DEFINE n == Len(lists[l])
<1>6. n \in Nat /\ \A i \in 1..(n + 1) : i = n + 1 \/ i \in 1..n
  <2>1. n \in Nat
    BY <1>t, <1>1, HeapTyped DEF HeapOK
  <2>2. QED
    BY <2>1
<1>7. \A v \in Writers : WriterTyped(v)'
  BY <1>t, <1>2, <1>3, <1>4 DEF HeapOK, WriterTyped
<1>8. HeapOK'
  BY <1>t, <1>2, <1>3, <1>5, <1>7 DEF HeapOK
<1>9. Owned'
  BY <1>t, <1>2, <1>4 DEF Owned, NoCall
<1>10. ASSUME NEW k \in 1..Len(lists') PROVE GoodList(lists'[k], k \in altered')
  <2>1. GoodList(lists[k], k \in altered) /\ k \in 1..Len(lists)
    BY <1>3 DEF ChainInv
  <2>2. CASE k = l
    <3>1. Len(lists'[k]) = n + 1 /\ lists'[k][n + 1] = e
          /\ \A i \in 1..n : lists'[k][i] = lists[k][i]
      BY <1>3, <2>2
    <3> HIDE DEF n
    <3>2. \A i \in 1..(n + 1) : Sealed(lists'[k][i])
      BY <1>1, <1>6, <2>1, <2>2, <3>1 DEF GoodList, n
    <3>3. k \in altered => \E i \in 1..(n + 1) : lists'[k][i].payload = Forged
      <4>1. \A i \in 1..n : i \in 1..(n + 1)
        BY <1>6
      <4>2. QED
        BY <2>1, <2>2, <3>1, <4>1 DEF GoodList, n
    <3>4. k \notin altered => \A i \in 1..(n + 1) : lists'[k][i].payload = lists'[k][i].id
      BY <1>1, <1>6, <2>1, <2>2, <3>1 DEF GoodList, n
    <3>5. QED
      BY <1>2, <3>1, <3>2, <3>3, <3>4 DEF GoodList
  <2>3. CASE k # l
    BY <1>2, <1>3, <2>1, <2>3
  <2>4. QED
    BY <2>2, <2>3
<1>11. ASSUME NEW u \in Tenants, u # t PROVE Quiet(u)'
  <2>1. \A v \in Writers : Busy(v, u)' => Busy(v, u) /\ writers'[v] = writers[v]
    BY <1>4 DEF Busy, NoCall
  <2>2. Quiet(u)
    BY DEF ChainInv
  <2>3. store[u] # 0 => SameLinks(lists'[store[u]], lists[store[u]])
    BY <1>t, <1>3, <1>o, <1>11, StorePosition, SameList
  <2>4. \A r \in receipts' : r.tenant = u => r \in receipts
    BY <1>2, <1>11 DEF Receipt
  <2>5. QED
    BY <1>t, <1>2, <2>1, <2>2, <2>3, <2>4, QuietKept
<1>12. Quiet(t)'
  <2> SUFFICES ASSUME t \notin raced' PROVE Quiet(t)'
    BY DEF Quiet
  <2>1. Quiet(t) /\ t \notin raced
    BY <1>1, <1>2 DEF ChainInv
  <2>2. store[t] = l /\ (\A v \in Writers : Busy(v, t) => v = w) /\ Links(lists[l], n + 1, e)
        /\ store[t] # 0
    <3>1. store[t] = l
      BY <1>p, <1>1, <2>1 DEF Quiet
    <3>2. store[t] # 0
      BY <1>1, <3>1
    <3>3. QED
      BY <1>p, <1>1, <2>1, <3>1, <3>2 DEF Quiet
  <2>3. \A v \in Writers : ~Busy(v, t)'
    BY <1>4, <2>2 DEF Busy, NoCall
  <2>4. Chained(lists[l])
    BY <2>1, <2>2 DEF Quiet
  <2>5. /\ Len(lists'[l]) = n + 1 /\ lists'[l][n + 1] = e
        /\ \A i \in 1..n : lists'[l][i] = lists[l][i]
    BY <1>3
  <2> HIDE DEF n
  <2>6. ASSUME NEW i \in 1..(n + 1) PROVE Links(lists'[l], i, lists'[l][i])
    <3>1. i # 1 => i - 1 \in 1..n
      BY <1>6
    <3>2. Links(lists[l], i, lists'[l][i])
      <4>1. CASE i = n + 1
        BY <2>2, <2>5, <4>1
      <4>2. CASE i \in 1..n
        BY <2>4, <2>5, <4>2 DEF Chained, n
      <4>3. QED
        BY <1>6, <4>1, <4>2
    <3>3. QED
      BY <2>5, <3>1, <3>2 DEF Links
  <2>7. Chained(lists'[l])
    BY <2>5, <2>6 DEF Chained
  <2>8. ASSUME NEW r \in receipts', r.tenant = t
        PROVE  r.sha = r.id /\ \E i \in 1..(n + 1) : lists'[l][i].id = r.id
    <3>1. CASE r \in receipts
      <4>1. r.sha = r.id /\ \E i \in 1..n : lists[l][i].id = r.id
        BY <2>1, <2>2, <2>8, <3>1 DEF Quiet, n
      <4>2. \A i \in 1..n : i \in 1..(n + 1)
        BY <1>6
      <4>3. QED
        BY <2>5, <4>1, <4>2
    <3>2. CASE r = Receipt(t, e)
      <4>1. r.sha = e.payload /\ r.id = e.id
        BY <3>2 DEF Receipt
      <4>2. n + 1 \in 1..(n + 1)
        BY <1>6
      <4>3. QED
        BY <1>1, <2>5, <4>1, <4>2
    <3>3. QED
      BY <1>2, <2>8, <3>1, <3>2
  <2>9. store'[t] = l
    BY <1>2, <2>2
  <2>10. QED
    BY <2>2, <2>3, <2>5, <2>7, <2>8, <2>9 DEF Quiet
<1>13. QED
  BY <1>8, <1>9, <1>10, <1>11, <1>12 DEF ChainInv

LEMMA AlterKeeps ==
  ASSUME ChainInv, NEW l \in DOMAIN lists, NEW j \in DOMAIN lists[l], AlterEntry(l, j)
  PROVE  ChainInv'
<1> DEFINE old == lists[l][j]
           e == [old EXCEPT !.payload = Forged]
<1>t. HeapOK /\ Owned
  BY DEF ChainInv
<1>1. l \in 1..Len(lists) /\ j \in 1..Len(lists[l])
  BY <1>t, HeapTyped DEF HeapOK
<1>2. Sealed(old)
  BY <1>1 DEF ChainInv, GoodList
<1>3. /\ lists' = [lists EXCEPT ![l][j].payload = Forged] /\ altered' = altered \cup {l}
      /\ UNCHANGED <<store, writers, issued, receipts, raced>>
  BY DEF AlterEntry
<1>4. Replaced(lists', lists, l, j, e)
  BY <1>3 DEF Replaced
<1>5. e.payload = Forged /\ e.id = old.id /\ e.seq = old.seq /\ e.prev = old.prev
      /\ e.hash = old.hash /\ e = [id |-> e.id, seq |-> e.seq, payload |-> e.payload,
                                   prev |-> e.prev, hash |-> e.hash]
  BY <1>2 DEF Sealed
<1> HIDE DEF e
<1>6. Sealed(e)
  BY <1>2, <1>5 DEF Sealed
<1>7. /\ IsHeap(lists') /\ Len(lists') = Len(lists)
      /\ Len(lists'[l]) = Len(lists[l]) /\ lists'[l][j] = e
      /\ \A i \in 1..Len(lists[l]) : i # j => lists'[l][i] = lists[l][i]
      /\ \A k \in 1..Len(lists) : k # l => lists'[k] = lists[k]
  BY <1>t, <1>1, <1>4, HeapAlter DEF HeapOK
<1>8. HeapOK'
  <2>1. \A v \in Writers : WriterTyped(v)'
    BY <1>t, <1>3, <1>7 DEF HeapOK, WriterTyped
  <2>2. QED
    BY <1>t, <1>1, <1>3, <1>7, <2>1 DEF HeapOK
<1>9. Owned'
  BY <1>t, <1>3 DEF Owned
<1>10. ASSUME NEW k \in 1..Len(lists') PROVE GoodList(lists'[k], k \in altered')
  <2>1. GoodList(lists[k], k \in altered) /\ k \in 1..Len(lists)
    BY <1>7 DEF ChainInv
  <2>2. CASE k = l
    <3>1. \A i \in 1..Len(lists'[k]) : Sealed(lists'[k][i])
      BY <1>6, <1>7, <2>1, <2>2 DEF GoodList
    <3>2. \E i \in 1..Len(lists'[k]) : lists'[k][i].payload = Forged
      BY <1>1, <1>5, <1>7, <2>2
    <3>3. k \in altered'
      BY <1>3, <2>2
    <3>4. QED
      BY <3>1, <3>2, <3>3 DEF GoodList
  <2>3. CASE k # l
    <3>1. lists'[k] = lists[k] /\ (k \in altered' <=> k \in altered)
      BY <1>3, <1>7, <2>1, <2>3
    <3>2. QED
      BY <2>1, <3>1 DEF GoodList
  <2>4. QED
    BY <2>2, <2>3
<1>11. ASSUME NEW u \in Tenants PROVE Quiet(u)'
  <2>1. SameLinks(lists'[l], lists[l])
    BY <1>5, <1>7 DEF SameLinks
  <2>2. store[u] # 0 => SameLinks(lists'[store[u]], lists[store[u]])
    BY <1>t, <1>7, <2>1, StorePosition, SameList
  <2>3. \A v \in Writers : Busy(v, u)' => Busy(v, u) /\ writers'[v] = writers[v]
    BY <1>3 DEF Busy
  <2>4. Quiet(u)
    BY DEF ChainInv
  <2>5. QED
    BY <1>t, <1>3, <2>2, <2>3, <2>4, QuietKept
<1>12. QED
  BY <1>8, <1>9, <1>10, <1>11 DEF ChainInv


LEMMA ChainStarts ==
  ASSUME ChainInit
  PROVE  ChainInv
<1>1. IsHeap(lists) /\ Len(lists) = 0
  <2>1. lists \in Seq(Seq(Nat)) /\ Len(lists) = 0
    BY DEF ChainInit
  <2>2. QED
    BY <2>1 DEF IsHeap
<1>2. HeapOK
  <2>1. \A w \in Writers : writers[w] = NoCall
    BY DEF ChainInit
  <2>2. writers = [w \in Writers |-> writers[w]]
    BY DEF ChainInit
  <2>3. QED
    BY <1>1, <2>1, <2>2 DEF ChainInit, HeapOK, WriterTyped
<1>3. Owned
  BY DEF ChainInit, Owned, NoCall
<1>4. \A t \in Tenants : Quiet(t)
  BY DEF ChainInit, Quiet, Busy, NoCall
<1>5. QED
  BY <1>1, <1>2, <1>3, <1>4 DEF ChainInv

\* A step that changes nothing.
LEMMA ChainStutters ==
  ASSUME ChainInv, UNCHANGED chainVars
  PROVE  ChainInv'
<1>1. HeapOK'
  BY DEF ChainInv, chainVars, HeapOK, WriterTyped
<1>2. Owned'
  BY DEF ChainInv, chainVars, Owned
<1>3. \A t \in Tenants : Quiet(t)'
  BY DEF ChainInv, chainVars, Quiet, Busy
<1>4. QED
  BY <1>1, <1>2, <1>3 DEF ChainInv, chainVars

LEMMA ChainSteps ==
  ASSUME ChainInv, [ChainNext]_chainVars
  PROVE  ChainInv'
<1>1. CASE UNCHANGED chainVars
  BY <1>1, ChainStutters
<1>2. ASSUME NEW w \in Writers, NEW t \in Tenants, Seal(w, t) PROVE ChainInv'
  BY <1>2, SealKeeps
<1>3. ASSUME NEW w \in Writers, CreateList(w) PROVE ChainInv'
  BY <1>3, CreateKeeps
<1>4. ASSUME NEW w \in Writers, FetchList(w) PROVE ChainInv'
  BY <1>4, FetchKeeps
<1>5. ASSUME NEW w \in Writers, LinkEntry(w) PROVE ChainInv'
  BY <1>5, LinkKeeps
<1>6. ASSUME NEW w \in Writers, AppendEntry(w) PROVE ChainInv'
  BY <1>6, AppendKeeps
<1>7. ASSUME NEW l \in DOMAIN lists, NEW i \in DOMAIN lists[l], AlterEntry(l, i) PROVE ChainInv'
  BY <1>7, AlterKeeps
<1>8. QED
  BY <1>1, <1>2, <1>3, <1>4, <1>5, <1>6, <1>7 DEF ChainNext

LEMMA ChainInvariant == ChainSpec => []ChainInv
<1>1. ChainInit => ChainInv
  BY ChainStarts
<1>2. ChainInv /\ [ChainNext]_chainVars => ChainInv'
  BY ChainSteps
<1>3. QED
  BY <1>1, <1>2, PTL DEF ChainSpec

-----------------------------------------------------------------------------
(* What verify_integrity says *)

\* The hash verify_integrity expects before the i-th entry.
LEMMA ExpectedHash ==
  ASSUME NEW S, NEW s \in Seq(S), NEW i \in 1..Len(s)
  PROVE  LastHash(SubSeq(s, 1, i - 1)) = IF i = 1 THEN Genesis ELSE s[i - 1].hash
<1> DEFINE before == SubSeq(s, 1, i - 1)
<1>1. Len(s) \in Nat /\ i - 1 \in 0..Len(s)
  OBVIOUS
<1>2. before \in Seq(S) /\ Len(before) = i - 1 /\ \A k \in 1..(i - 1) : before[k] = s[k]
  BY <1>1, SubSeqProperties
<1>3. CASE i = 1
  <2>1. before = <<>>
    BY <1>2, <1>3
  <2>2. QED
    BY <1>3, <2>1 DEF LastHash
<1>4. CASE i # 1
  <2>1. i - 1 \in 1..(i - 1) /\ i - 1 # 0
    BY <1>1, <1>4
  <2>2. before # <<>>
    BY <1>2, <2>1
  <2>3. before[Len(before)] = s[i - 1]
    BY <1>2, <2>1
  <2> HIDE DEF before
  <2>4. LastHash(before) = s[i - 1].hash
    BY <2>2, <2>3 DEF LastHash
  <2>5. QED
    BY <1>4, <2>4 DEF before
<1>5. QED
  BY <1>3, <1>4

\* A list whose entries are sealed, linked and unchanged passes.
LEMMA LinkedVerifies ==
  ASSUME NEW h, IsHeap(h), NEW l \in 1..Len(h), Chained(h[l]), GoodList(h[l], FALSE)
  PROVE  Verified(h[l])
<1>1. PICK S : h \in Seq(Seq(S))
  BY DEF IsHeap
<1>2. h[l] \in Seq(S)
  BY <1>1
<1> SUFFICES ASSUME NEW i \in 1..Len(h[l])
             PROVE  /\ h[l][i].seq = i
                    /\ h[l][i].prev = LastHash(SubSeq(h[l], 1, i - 1))
                    /\ h[l][i].hash = Digest(h[l][i].prev, h[l][i].seq, h[l][i].payload)
  BY DEF Verified
<1>3. Links(h[l], i, h[l][i])
  BY DEF Chained
<1>4. LastHash(SubSeq(h[l], 1, i - 1)) = IF i = 1 THEN Genesis ELSE h[l][i - 1].hash
  BY <1>2, ExpectedHash
<1>5. Sealed(h[l][i]) /\ h[l][i].payload = h[l][i].id
  BY DEF GoodList
<1>6. QED
  BY <1>3, <1>4, <1>5 DEF Links, Sealed

\* A replaced payload never hashes to what was stored.
LEMMA ForgeryFails ==
  ASSUME NEW list, GoodList(list, TRUE)
  PROVE  ~Verified(list)
<1>1. PICK i \in 1..Len(list) : list[i].payload = Forged
  BY DEF GoodList
<1>2. Sealed(list[i])
  BY DEF GoodList
<1>3. Digest(list[i].prev, list[i].seq, list[i].id)
        # Digest(list[i].prev, list[i].seq, list[i].payload)
  BY <1>1, <1>2, ForgedAssumption DEF Digest, Sealed
<1>4. QED
  BY <1>2, <1>3 DEF Verified, Sealed

LEMMA VerdictFollows ==
  ASSUME ChainInv
  PROVE  VerdictExact
<1>t. HeapOK
  BY DEF ChainInv
<1> SUFFICES ASSUME NEW t \in Tenants
             PROVE  /\ store[t] \in altered => ~VerifyIntegrity(t)
                    /\ store[t] \notin altered /\ t \notin raced => VerifyIntegrity(t)
  BY DEF VerdictExact
<1>1. store[t] # 0 => store[t] \in 1..Len(lists)
  BY <1>t, StorePosition
<1>2. ASSUME store[t] \in altered PROVE ~VerifyIntegrity(t)
  <2>1. store[t] \in 1..Len(lists) /\ store[t] # 0
    <3>1. store[t] \in 1..Len(lists)
      BY <1>t, <1>2 DEF HeapOK
    <3>2. QED
      BY <3>1
  <2>2. GoodList(lists[store[t]], TRUE)
    <3>1. GoodList(lists[store[t]], store[t] \in altered)
      BY <2>1 DEF ChainInv
    <3>2. QED
      BY <1>2, <3>1 DEF GoodList
  <2>3. QED
    BY <2>1, <2>2, ForgeryFails DEF VerifyIntegrity, Entries
<1>3. ASSUME store[t] \notin altered, t \notin raced PROVE VerifyIntegrity(t)
  <2>1. CASE store[t] = 0
    <3>1. Verified(<<>>)
      BY DEF Verified
    <3>2. QED
      BY <2>1, <3>1 DEF VerifyIntegrity, Entries
  <2>2. CASE store[t] # 0
    <3>1. GoodList(lists[store[t]], FALSE)
      <4>1. GoodList(lists[store[t]], store[t] \in altered)
        BY <1>1, <2>2 DEF ChainInv
      <4>2. QED
        BY <1>3, <4>1 DEF GoodList
    <3>2. Chained(lists[store[t]])
      BY <1>3, <2>2 DEF ChainInv, Quiet
    <3>3. Verified(lists[store[t]])
      BY <1>t, <1>1, <2>2, <3>1, <3>2, LinkedVerifies DEF HeapOK
    <3>4. QED
      BY <2>2, <3>3 DEF VerifyIntegrity, Entries
  <2>3. QED
    BY <2>1, <2>2
<1>4. QED
  BY <1>2, <1>3

LEMMA EvidenceFollows ==
  ASSUME ChainInv, \A r \in receipts : r.tenant \in Tenants
  PROVE  SealedEvidenceVerifies
<1>t. HeapOK
  BY DEF ChainInv
<1> SUFFICES ASSUME NEW r \in receipts, r.tenant \notin raced, store[r.tenant] \notin altered
             PROVE  VerifySealedEvidence(r)
  BY DEF SealedEvidenceVerifies
<1> DEFINE t == r.tenant
           list == lists[store[t]]
<1>1. t \in Tenants
  OBVIOUS
<1>2. VerifyIntegrity(t)
  BY <1>1, VerdictFollows DEF VerdictExact
<1>3. store[t] # 0 /\ r.sha = r.id /\ \E i \in 1..Len(list) : list[i].id = r.id
  BY <1>1 DEF ChainInv, Quiet
<1>4. store[t] \in 1..Len(lists)
  BY <1>t, <1>1, <1>3, StorePosition
<1>5. DOMAIN list = 1..Len(list)
  BY <1>t, <1>4, HeapTyped DEF HeapOK
<1>6. \A i \in 1..Len(list) : list[i].payload = list[i].id
  BY <1>4 DEF ChainInv, GoodList
<1>7. Entries(t) = list
  BY <1>3 DEF Entries
<1> HIDE DEF list
<1>8. QED
  BY <1>2, <1>3, <1>5, <1>6, <1>7 DEF VerifySealedEvidence

\* For every number of tenants and threads: verify_integrity raises for every
\* log with an altered entry, and for no other log whose appends did not
\* overlap, although append_event takes no lock.
THEOREM IntegrityVerdictExact == ChainSpec => []VerdictExact
<1>1. ChainInv => VerdictExact
  BY VerdictFollows
<1>2. QED
  BY <1>1, ChainInvariant, PTL

\* Receipts name tenants of the log.
ReceiptsTyped == \A r \in receipts : r.tenant \in Tenants

\* seal_package's receipt stays good: while the tenant's appends did not
\* overlap and nobody altered its log, verify_sealed_evidence finds the entry
\* the receipt names, with the package's hash.
THEOREM EvidenceKept == ChainSpec => []SealedEvidenceVerifies
<1>1. ChainInit => ReceiptsTyped
  BY DEF ChainInit, ReceiptsTyped
<1>2. ChainInv /\ ReceiptsTyped /\ [ChainNext]_chainVars => ReceiptsTyped'
  <2> SUFFICES ASSUME ChainInv, ReceiptsTyped, [ChainNext]_chainVars PROVE ReceiptsTyped'
    OBVIOUS
  <2>1. CASE receipts' = receipts
    BY <2>1 DEF ReceiptsTyped
  <2>2. ASSUME NEW w \in Writers, AppendEntry(w) PROVE ReceiptsTyped'
    <3>1. writers[w].tenant \in Tenants
      BY <2>2 DEF AppendEntry, ChainInv, HeapOK, WriterTyped, NoCall
    <3>2. QED
      BY <2>2, <3>1 DEF AppendEntry, Receipt, ReceiptsTyped
  <2>3. QED
    BY <2>1, <2>2 DEF ChainNext, chainVars, Seal, CreateList, FetchList, LinkEntry, AlterEntry
<1>3. ChainInv /\ ReceiptsTyped => SealedEvidenceVerifies
  BY EvidenceFollows DEF ReceiptsTyped
<1>4. QED
  BY <1>1, <1>2, <1>3, ChainInvariant, PTL DEF ChainSpec


-----------------------------------------------------------------------------
(* What a lock around append_event would give *)

\* No two threads are inside append_event for one tenant.
SerialAppends ==
  \A v, w \in Writers, t \in Tenants : Busy(v, t) /\ Busy(w, t) => v = w

LEMMA SerialNeverRaces ==
  ASSUME SerialAppends', raced = {}, HeapOK, [ChainNext]_chainVars
  PROVE  raced' = {}
<1>1. CASE raced' = raced
  BY <1>1
<1>2. ASSUME NEW w \in Writers, NEW t \in Tenants, Seal(w, t), raced' # raced
     PROVE  FALSE
  <2>1. PICK v \in Writers : writers[v].at # "idle" /\ writers[v].tenant = t
    BY <1>2 DEF Seal
  <2>2. v # w
    BY <1>2, <2>1 DEF Seal
  <2>3. /\ writers' = [u \in Writers |-> writers'[u]]
        /\ writers'[v] = writers[v]
        /\ writers'[w].at \in {"create", "fetch"} /\ writers'[w].tenant = t
    BY <1>2, <2>2 DEF Seal, HeapOK
  <2>4. (Busy(v, t))' /\ (Busy(w, t))'
    BY <2>1, <2>3 DEF Busy
  <2>5. QED
    BY <2>2, <2>4 DEF SerialAppends
<1>3. QED
  BY <1>1, <1>2
  DEF ChainNext, chainVars, CreateList, FetchList, LinkEntry, AppendEntry, AlterEntry

\* Only overlapping appends can spoil the verdict: as long as the appends to a
\* tenant's log take turns (one thread, or a lock that append_event does not
\* take), verify_integrity accepts a log exactly if nobody altered it, and
\* every receipt of an unaltered log verifies.
THEOREM SerialVerdict ==
  ChainSpec /\ []SerialAppends
    => []/\ \A t \in Tenants : VerifyIntegrity(t) <=> store[t] \notin altered
         /\ \A r \in receipts : store[r.tenant] \notin altered => VerifySealedEvidence(r)
<1> DEFINE Unraced == raced = {}
           Exact == /\ \A t \in Tenants : VerifyIntegrity(t) <=> store[t] \notin altered
                    /\ \A r \in receipts :
                         store[r.tenant] \notin altered => VerifySealedEvidence(r)
<1>1. ChainInit => Unraced
  BY DEF ChainInit
<1>2. ChainInv /\ Unraced /\ SerialAppends' /\ [ChainNext]_chainVars => Unraced'
  BY SerialNeverRaces DEF ChainInv
<1>3. VerdictExact /\ SealedEvidenceVerifies /\ Unraced => Exact
  BY DEF VerdictExact, SealedEvidenceVerifies
<1> HIDE DEF Unraced, Exact
<1>4. ChainSpec /\ []SerialAppends => []Exact
  BY <1>1, <1>2, <1>3, ChainInvariant, IntegrityVerdictExact, EvidenceKept, PTL DEF ChainSpec
<1>5. QED
  BY <1>4 DEF Exact

-----------------------------------------------------------------------------
(* The ledger chain *)

Legs == [acct : STRING, type : {"DEBIT", "CREDIT"}, amt : Nat \ {0}]

\* A block as append_transaction built it.
Fresh(b) ==
  /\ b = [seq |-> b.seq, tx |-> b.tx, legs |-> b.legs, prev |-> b.prev, hash |-> b.hash]
  /\ b.legs \in Seq(Legs)
  /\ b.hash = Mac(b.seq, b.tx, b.prev, b.legs)
  /\ TotalOf(b.legs, "DEBIT") = TotalOf(b.legs, "CREDIT")

\* A block whose first amount was turned negative: it cannot be turned back.
Broken(b) == ~(b.legs[1].amt > 0) /\ b.hash # Mac(b.seq, b.tx, b.prev, b.legs)

PosterOK(c) ==
  \/ c = NoPosting
  \/ c.at = "number" /\ c.batch \in Batches /\ ValidateBalance(c.batch)
  \/ c.at = "append" /\ Fresh(c.block)

BlocksOK ==
  /\ \A i \in 1..Len(blocks) : Fresh(blocks[i]) \/ Broken(blocks[i])
  /\ spoiled => \E i \in 1..Len(blocks) : Broken(blocks[i])
  /\ ~spoiled => \A i \in 1..Len(blocks) : Fresh(blocks[i])

\* While no two appends overlapped, the only thread that appends holds the
\* hash of the last block, and every block links to the one before it.
InOrder ==
  ~contended =>
    /\ \A p, q \in Posters : posters[p].at # "idle" /\ posters[q].at # "idle" => p = q
    /\ \A p \in Posters :
         /\ posters[p].at = "number" => posters[p].prev = HeadHash
         /\ posters[p].at = "append" => posters[p].block.prev = HeadHash
    /\ \A i \in 1..Len(blocks) :
         blocks[i].prev = IF i = 1 THEN NoHash ELSE blocks[i - 1].hash

LedgerInv ==
  /\ \E S : blocks \in Seq(S)
  /\ posters = [p \in Posters |-> posters[p]]
  /\ \A p \in Posters : PosterOK(posters[p])
  /\ spoiled \in BOOLEAN
  /\ BlocksOK
  /\ InOrder

LEMMA LedgerStarts ==
  ASSUME LedgerInit
  PROVE  LedgerInv
<1>1. blocks \in Seq(Nat) /\ Len(blocks) = 0
  BY DEF LedgerInit
<1>2. \A p \in Posters : posters[p] = NoPosting
  BY DEF LedgerInit
<1>3. posters = [p \in Posters |-> posters[p]]
  BY DEF LedgerInit
<1>4. InOrder
  BY <1>1, <1>2 DEF InOrder, NoPosting
<1>5. BlocksOK
  BY <1>1 DEF BlocksOK, LedgerInit
<1>6. QED
  BY <1>1, <1>2, <1>3, <1>4, <1>5 DEF LedgerInv, LedgerInit, PosterOK

LEMMA ReadHeadKeeps ==
  ASSUME LedgerInv, NEW p \in Posters, NEW b \in Batches, ReadHead(p, b)
  PROVE  LedgerInv'
<1> DEFINE c == [at |-> "number", batch |-> b, prev |-> HeadHash]
<1>1. posters' = [posters EXCEPT ![p] = c] /\ UNCHANGED <<blocks, rejected, spoiled>>
      /\ contended' = (contended \/ \E q \in Posters : posters[q].at # "idle")
      /\ ValidateBalance(b)
  BY DEF ReadHead
<1>2. c.at = "number" /\ c.batch = b /\ c.prev = HeadHash
  OBVIOUS
<1> HIDE DEF c
<1>3. posters'[p] = c /\ \A q \in Posters : q # p => posters'[q] = posters[q]
  BY <1>1 DEF LedgerInv
<1>4. posters' = [q \in Posters |-> posters'[q]]
  BY <1>1 DEF LedgerInv
<1>5. \A q \in Posters : PosterOK(posters'[q])
  BY <1>1, <1>2, <1>3 DEF LedgerInv, PosterOK
<1>6. InOrder'
  <2> SUFFICES ASSUME ~contended' PROVE InOrder'
    BY DEF InOrder
  <2>1. ~contended /\ \A q \in Posters : posters[q].at = "idle"
    BY <1>1
  <2>2. \A q \in Posters : q # p => posters'[q].at = "idle"
    BY <1>3, <2>1
  <2>3. HeadHash' = HeadHash
    BY <1>1 DEF HeadHash
  <2>4. QED
    BY <1>1, <1>2, <1>3, <2>1, <2>2, <2>3 DEF LedgerInv, InOrder
<1>7. BlocksOK'
  BY <1>1 DEF LedgerInv, BlocksOK
<1>8. QED
  BY <1>1, <1>4, <1>5, <1>6, <1>7 DEF LedgerInv

LEMMA NumberKeeps ==
  ASSUME LedgerInv, NEW p \in Posters, NumberBlock(p)
  PROVE  LedgerInv'
<1> DEFINE b == Block(Len(blocks) + 1, posters[p].batch, posters[p].prev)
           c == [at |-> "append", block |-> b]
<1>1. posters' = [posters EXCEPT ![p] = c]
      /\ UNCHANGED <<blocks, rejected, spoiled, contended>>
  BY DEF NumberBlock
<1>2. posters[p].batch \in Batches /\ ValidateBalance(posters[p].batch)
      /\ posters[p].at = "number"
  BY DEF NumberBlock, LedgerInv, PosterOK, NoPosting
<1>3. Fresh(b) /\ b.prev = posters[p].prev
  BY <1>2, BatchAssumption DEF Fresh, Block, Legs, ValidateBalance
<1> HIDE DEF b
<1>4. c.at = "append" /\ c.block = b
  OBVIOUS
<1> HIDE DEF c
<1>5. posters'[p] = c /\ \A q \in Posters : q # p => posters'[q] = posters[q]
  BY <1>1 DEF LedgerInv
<1>6. posters' = [q \in Posters |-> posters'[q]]
  BY <1>1 DEF LedgerInv
<1>7. \A q \in Posters : PosterOK(posters'[q])
  BY <1>3, <1>4, <1>5 DEF LedgerInv, PosterOK
<1>8. InOrder'
  <2> SUFFICES ASSUME ~contended' PROVE InOrder'
    BY DEF InOrder
  <2>1. InOrder /\ ~contended
    BY <1>1 DEF LedgerInv
  <2>2. HeadHash' = HeadHash
    BY <1>1 DEF HeadHash
  <2>3. \A q \in Posters : posters'[q].at # "idle" => posters[q].at # "idle"
    BY <1>2, <1>5
  <2>4. QED
    BY <1>1, <1>2, <1>3, <1>4, <1>5, <2>1, <2>2, <2>3 DEF InOrder
<1>9. BlocksOK'
  BY <1>1 DEF LedgerInv, BlocksOK
<1>10. QED
  BY <1>1, <1>6, <1>7, <1>8, <1>9 DEF LedgerInv

LEMMA AppendBlockKeeps ==
  ASSUME LedgerInv, NEW p \in Posters, AppendBlock(p)
  PROVE  LedgerInv'
<1>p. PICK b : b = posters[p].block
  OBVIOUS
<1>1. posters' = [posters EXCEPT ![p] = NoPosting] /\ blocks' = Append(blocks, b)
      /\ UNCHANGED <<rejected, spoiled, contended>> /\ posters[p].at = "append"
  BY <1>p DEF AppendBlock
<1>2. Fresh(b)
  BY <1>p, <1>1 DEF LedgerInv, PosterOK, NoPosting
<1>3. PICK S : blocks \in Seq(S)
  BY DEF LedgerInv
<1> DEFINE n == Len(blocks)
<1>4. n \in Nat
  BY <1>3
<1>5. blocks \in Seq(S \cup {b})
  BY <1>3, SeqGrows
<1>6. blocks' \in Seq(S \cup {b}) /\ Len(blocks') = n + 1 /\ blocks'[n + 1] = b
      /\ \A i \in 1..n : blocks'[i] = blocks[i]
  BY <1>1, <1>5
<1>s. \E T : blocks' \in Seq(T)
  BY <1>6
<1> HIDE DEF n
<1>7. (\A i \in 1..(n + 1) : i = n + 1 \/ i \in 1..n) /\ 1..n \subseteq 1..(n + 1)
      /\ n + 1 \in 1..(n + 1)
  BY <1>4
<1>8. posters'[p] = NoPosting /\ \A q \in Posters : q # p => posters'[q] = posters[q]
  BY <1>1 DEF LedgerInv
<1>9. posters' = [q \in Posters |-> posters'[q]]
  BY <1>1 DEF LedgerInv
<1>10. \A q \in Posters : PosterOK(posters'[q])
  BY <1>8 DEF LedgerInv, PosterOK
<1>11. BlocksOK'
  <2>1. BlocksOK
    BY DEF LedgerInv
  <2>2. \A i \in 1..(n + 1) : Fresh(blocks'[i]) \/ Broken(blocks'[i])
    BY <1>2, <1>6, <1>7, <2>1 DEF BlocksOK, n
  <2>3. spoiled => \E i \in 1..(n + 1) : Broken(blocks'[i])
    BY <1>6, <1>7, <2>1 DEF BlocksOK, n
  <2>4. ~spoiled => \A i \in 1..(n + 1) : Fresh(blocks'[i])
    BY <1>2, <1>6, <1>7, <2>1 DEF BlocksOK, n
  <2>5. QED
    BY <1>1, <1>6, <2>2, <2>3, <2>4 DEF BlocksOK
<1>12. InOrder'
  <2> SUFFICES ASSUME ~contended' PROVE InOrder'
    BY DEF InOrder
  <2>1. InOrder /\ ~contended
    BY <1>1 DEF LedgerInv
  <2>2. \A q \in Posters : posters'[q].at = "idle"
    BY <1>1, <1>8, <2>1 DEF InOrder, NoPosting
  <2>3. b.prev = HeadHash
    BY <1>p, <1>1, <2>1 DEF InOrder
  <2>4. b.prev = IF n + 1 = 1 THEN NoHash ELSE blocks[n].hash
    <3>1. blocks = <<>> <=> n = 0
      BY <1>3 DEF n
    <3>2. n + 1 = 1 <=> n = 0
      BY <1>4
    <3>3. QED
      BY <2>3, <3>1, <3>2 DEF HeadHash, n
  <2>5. ASSUME NEW i \in 1..(n + 1)
        PROVE  blocks'[i].prev = IF i = 1 THEN NoHash ELSE blocks'[i - 1].hash
    <3>1. i # 1 => i - 1 \in 1..n
      BY <1>4
    <3>2. CASE i = n + 1
      <4>1. i - 1 = n
        BY <1>4, <3>2
      <4>2. QED
        BY <1>6, <2>4, <3>1, <3>2, <4>1
    <3>3. CASE i \in 1..n
      <4>1. blocks[i].prev = IF i = 1 THEN NoHash ELSE blocks[i - 1].hash
        BY <2>1, <3>3 DEF InOrder, n
      <4>2. QED
        BY <1>6, <3>1, <3>3, <4>1
    <3>4. QED
      BY <1>7, <3>2, <3>3
  <2>6. QED
    BY <1>6, <2>2, <2>5 DEF InOrder
<1>13. QED
  BY <1>1, <1>s, <1>9, <1>10, <1>11, <1>12 DEF LedgerInv

\* Changing an amount leaves the links as they are.
LEMMA SpoilKeeps ==
  ASSUME LedgerInv, NEW j \in DOMAIN blocks, SpoilBlock(j)
  PROVE  LedgerInv'
<1> DEFINE old == blocks[j]
           leg == [old.legs[1] EXCEPT !.amt = -old.legs[1].amt]
           legs == [old.legs EXCEPT ![1] = leg]
           b == [old EXCEPT !.legs = legs]
<1>3. PICK S : blocks \in Seq(S)
  BY DEF LedgerInv
<1>1. j \in 1..Len(blocks) /\ Len(blocks) \in Nat
  BY <1>3
<1>2. /\ blocks' = [blocks EXCEPT ![j].legs[1].amt = -@] /\ spoiled' = TRUE
      /\ UNCHANGED <<posters, rejected, contended>>
      /\ old.legs # <<>> /\ old.legs[1].amt > 0
  BY DEF SpoilBlock
<1>4. blocks' = [blocks EXCEPT ![j] = b]
  BY <1>2
<1>5. Fresh(old)
  BY <1>1, <1>2 DEF LedgerInv, BlocksOK, Broken
<1>6. 1 \in DOMAIN old.legs
  BY <1>2, <1>5 DEF Fresh
<1>7. old.legs[1] \in Legs
  BY <1>5, <1>6 DEF Fresh
<1>8. legs[1].amt = -old.legs[1].amt /\ old.legs[1].amt \in Nat
  <2>1. leg.amt = -old.legs[1].amt /\ old.legs[1].amt \in Nat
    BY <1>7 DEF Legs
  <2> HIDE DEF leg
  <2>2. legs[1] = leg
    BY <1>6
  <2>3. QED
    BY <2>1, <2>2
<1>9. b.legs = legs /\ b.seq = old.seq /\ b.tx = old.tx /\ b.prev = old.prev
      /\ b.hash = old.hash
  BY <1>5 DEF Fresh
<1> HIDE DEF b, legs, leg, old
<1>10. Broken(b)
  <2>1. ~(legs[1].amt > 0) /\ legs # old.legs
    BY <1>2, <1>8
  <2>2. QED
    BY <1>5, <1>9, <2>1 DEF Broken, Fresh, Mac
<1>11. Len(blocks') = Len(blocks) /\ (\E T : blocks' \in Seq(T)) /\ blocks'[j] = b
       /\ \A i \in 1..Len(blocks) : i # j => blocks'[i] = blocks[i]
  <2> DEFINE T == S \cup {b}
  <2>1. blocks \in [1..Len(blocks) -> T] /\ b \in T
    BY <1>3
  <2> HIDE DEF T
  <2>2. blocks' \in [1..Len(blocks) -> T] /\ blocks'[j] = b
        /\ \A i \in 1..Len(blocks) : i # j => blocks'[i] = blocks[i]
    BY <1>1, <1>4, <2>1
  <2>3. QED
    BY <1>1, <2>2, IsSequence
<1>12. BlocksOK'
  BY <1>1, <1>2, <1>10, <1>11 DEF LedgerInv, BlocksOK
<1>13. \A i \in 1..Len(blocks) : blocks'[i].prev = blocks[i].prev
         /\ blocks'[i].hash = blocks[i].hash
  BY <1>9, <1>11 DEF old
<1>14. HeadHash' = HeadHash
  <2>1. blocks' = <<>> <=> blocks = <<>>
    BY <1>3, <1>11
  <2>2. blocks # <<>> => Len(blocks) \in 1..Len(blocks)
    BY <1>3
  <2>3. QED
    BY <1>11, <1>13, <2>1, <2>2 DEF HeadHash
<1>15. InOrder'
  <2>1. InOrder
    BY DEF LedgerInv
  <2>2. ASSUME NEW i \in 1..Len(blocks), ~contended
        PROVE  blocks'[i].prev = IF i = 1 THEN NoHash ELSE blocks'[i - 1].hash
    <3>1. i # 1 => i - 1 \in 1..Len(blocks)
      BY <1>1
    <3>2. QED
      BY <1>13, <2>1, <2>2, <3>1 DEF InOrder
  <2>3. QED
    BY <1>2, <1>11, <1>14, <2>1, <2>2 DEF InOrder
<1>16. QED
  BY <1>2, <1>11, <1>12, <1>15 DEF LedgerInv

LEMMA LedgerSteps ==
  ASSUME LedgerInv, [LedgerNext]_ledgerVars
  PROVE  LedgerInv'
<1>1. CASE UNCHANGED <<blocks, posters, spoiled, contended>>
  BY <1>1 DEF LedgerInv, BlocksOK, InOrder, HeadHash
<1>2. ASSUME NEW p \in Posters, NEW b \in Batches, RejectBatch(p, b) PROVE LedgerInv'
  BY <1>1, <1>2 DEF RejectBatch
<1>3. ASSUME NEW p \in Posters, NEW b \in Batches, ReadHead(p, b) PROVE LedgerInv'
  BY <1>3, ReadHeadKeeps
<1>4. ASSUME NEW p \in Posters, NumberBlock(p) PROVE LedgerInv'
  BY <1>4, NumberKeeps
<1>5. ASSUME NEW p \in Posters, AppendBlock(p) PROVE LedgerInv'
  BY <1>5, AppendBlockKeeps
<1>6. ASSUME NEW i \in DOMAIN blocks, SpoilBlock(i) PROVE LedgerInv'
  BY <1>6, SpoilKeeps
<1>7. QED
  BY <1>1, <1>2, <1>3, <1>4, <1>5, <1>6 DEF LedgerNext, ledgerVars

LEMMA LedgerFollows ==
  ASSUME LedgerInv
  PROVE  LedgerSound
<1>1. DOMAIN blocks = 1..Len(blocks)
  BY DEF LedgerInv
<1>2. spoiled => ~LedgerVerified
  BY <1>1 DEF LedgerInv, BlocksOK, Broken, LedgerVerified
<1>3. ~spoiled /\ ~contended => LedgerVerified
  BY <1>1 DEF LedgerInv, BlocksOK, Fresh, InOrder, LedgerVerified
<1>4. ~spoiled => \A i \in DOMAIN blocks :
        TotalOf(blocks[i].legs, "DEBIT") = TotalOf(blocks[i].legs, "CREDIT")
  BY <1>1 DEF LedgerInv, BlocksOK, Fresh
<1>5. QED
  BY <1>2, <1>3, <1>4 DEF LedgerSound

\* For every number of threads and every set of batches: a changed block is
\* never accepted by verify_integrity again, an unchanged chain is refused
\* only after appends that overlapped, and no order of append_transaction's
\* steps puts an unbalanced block into the chain.
THEOREM LedgerKeptSound == LedgerSpec => []LedgerSound
<1>1. LedgerInit => LedgerInv
  BY LedgerStarts
<1>2. LedgerInv /\ [LedgerNext]_ledgerVars => LedgerInv'
  BY LedgerSteps
<1>3. LedgerInv => LedgerSound
  BY LedgerFollows
<1>4. QED
  BY <1>1, <1>2, <1>3, PTL DEF LedgerSpec

\* No two threads are inside append_transaction.
SerialPostings ==
  \A p, q \in Posters : posters[p].at # "idle" /\ posters[q].at # "idle" => p = q

LEMMA SerialNeverContends ==
  ASSUME SerialPostings', ~contended, LedgerInv, [LedgerNext]_ledgerVars
  PROVE  ~contended'
<1>1. CASE contended' = contended
  BY <1>1
<1>2. ASSUME NEW p \in Posters, NEW b \in Batches, ReadHead(p, b)
     PROVE  ~contended'
  <2>1. SUFFICES ASSUME NEW q \in Posters, posters[q].at # "idle" PROVE FALSE
    BY <1>2 DEF ReadHead
  <2>2. q # p
    BY <1>2, <2>1 DEF ReadHead
  <2>3. posters'[q].at # "idle" /\ posters'[p].at # "idle"
    BY <1>2, <2>1, <2>2 DEF ReadHead, LedgerInv
  <2>4. QED
    BY <2>2, <2>3 DEF SerialPostings
<1>3. QED
  BY <1>1, <1>2 DEF LedgerNext, ledgerVars, RejectBatch, NumberBlock, AppendBlock, SpoilBlock

\* Only overlapping calls of append_transaction make verify_integrity refuse a
\* ledger nobody changed: where they take turns its verdict is exact.
THEOREM SerialLedgerVerdict ==
  LedgerSpec /\ []SerialPostings => [](LedgerVerified <=> ~spoiled)
<1> DEFINE Alone == ~contended
           Verdict == LedgerVerified <=> ~spoiled
<1>1. LedgerInit => LedgerInv /\ Alone
  BY LedgerStarts DEF LedgerInit
<1>2. LedgerInv /\ [LedgerNext]_ledgerVars => LedgerInv'
  BY LedgerSteps
<1>3. LedgerInv /\ Alone /\ SerialPostings' /\ [LedgerNext]_ledgerVars => Alone'
  BY SerialNeverContends
<1>4. LedgerInv /\ Alone => Verdict
  BY LedgerFollows DEF LedgerSound
<1> HIDE DEF Alone, Verdict
<1>5. LedgerSpec /\ []SerialPostings => []Verdict
  BY <1>1, <1>2, <1>3, <1>4, PTL DEF LedgerSpec
<1>6. QED
  BY <1>5 DEF Verdict

-----------------------------------------------------------------------------
(* The migration engine *)

\* The tables named by the statements that are left.
Named(s) == {s[i] : i \in 1..Len(s)}

LEMMA NamedStep ==
  ASSUME NEW S, NEW s \in Seq(S), s # <<>>
  PROVE  Tail(s) \in Seq(S) /\ Named(s) = {Head(s)} \cup Named(Tail(s))
<1>1. Len(s) \in Nat /\ Len(s) # 0
  OBVIOUS
<1>2. Tail(s) \in Seq(S) /\ Len(Tail(s)) = Len(s) - 1
      /\ \A i \in 1..(Len(s) - 1) : Tail(s)[i] = s[i + 1]
  OBVIOUS
<1>3. Head(s) = s[1]
  OBVIOUS
<1>4. ASSUME NEW i \in 1..Len(s) PROVE s[i] \in {Head(s)} \cup Named(Tail(s))
  <2>1. CASE i = 1
    BY <1>3, <2>1
  <2>2. CASE i # 1
    <3>1. i - 1 \in 1..(Len(s) - 1) /\ (i - 1) + 1 = i
      BY <1>1, <2>2
    <3>2. Tail(s)[i - 1] = s[i] /\ i - 1 \in 1..Len(Tail(s))
      BY <1>2, <3>1
    <3>3. QED
      BY <3>2 DEF Named
  <2>3. QED
    BY <2>1, <2>2
<1>5. ASSUME NEW i \in 1..Len(Tail(s)) PROVE Tail(s)[i] \in Named(s)
  <2>1. i \in 1..(Len(s) - 1) /\ i + 1 \in 1..Len(s)
    BY <1>1, <1>2
  <2>2. QED
    BY <1>2, <2>1 DEF Named
<1>6. Head(s) \in Named(s)
  <2>1. 1 \in 1..Len(s)
    BY <1>1
  <2>2. QED
    BY <1>3, <2>1 DEF Named
<1>7. QED
  BY <1>2, <1>4, <1>5, <1>6 DEF Named

\* A script and its undo script name the same tables.
LEMMA ScriptTables ==
  ASSUME NEW v \in Versions, NEW kind
  PROVE  Script(kind, v) \in Seq(STRING) /\ Named(Script(kind, v)) = TablesOf(v)
<1> DEFINE s == Objects[v]
           n == Len(s)
<1>1. s \in Seq(STRING)
  BY MigrationAssumption
<1>2. n \in Nat /\ DOMAIN s = 1..n /\ \A i \in 1..n : s[i] \in STRING
  BY <1>1
<1>3. Named(s) = TablesOf(v)
  BY <1>2 DEF Named, TablesOf
<1> HIDE DEF s, n
<1>4. \A i \in 1..n : (n - i) + 1 \in 1..n /\ (n - ((n - i) + 1)) + 1 = i
  BY <1>2
<1> DEFINE r == [i \in 1..n |-> s[(n - i) + 1]]
<1>5. r \in [1..n -> STRING]
  BY <1>2, <1>4
<1>6. r \in Seq(STRING) /\ Len(r) = n
  BY <1>2, <1>5, IsSequence
<1>7. \A i \in 1..n : r[i] = s[(n - i) + 1]
  OBVIOUS
<1>8. Reverse(s) = r
  BY DEF Reverse, n
<1> HIDE DEF r
<1>9. Named(r) = Named(s)
  BY <1>4, <1>6, <1>7 DEF Named, n
<1>10. QED
  BY <1>1, <1>3, <1>6, <1>8, <1>9 DEF Script, s

Databases ==
  [tables : SUBSET STRING, status : [Versions -> {"PENDING", "APPLIED", "ROLLED_BACK"}]]

Marks == [name : {"dry_run", "apply", "rollback"}, saved : Databases]

\* The mark of the running call is the newest one.
OwnMark ==
  /\ Len(marks) >= 1
  /\ marks[Len(marks)].name = job.kind

\* What the statements that were not yet executed make of the connection's
\* tables is what the whole script makes of the tables its mark saved.
ScriptOK(base) ==
  /\ job.left \in Seq(STRING)
  /\ work.status = base.status
  /\ job.kind = "rollback" =>
       work.tables \ Named(job.left) = base.tables \ TablesOf(job.version)
  /\ job.kind # "rollback" =>
       work.tables \cup Named(job.left) = base.tables \cup TablesOf(job.version)

JobTyped ==
  /\ job = [at |-> job.at, kind |-> job.kind, version |-> job.version, left |-> job.left]
  /\ job.at \in {"script", "release", "commit"}
  /\ job.kind \in {"dry_run", "apply", "rollback"} /\ job.version \in Versions

JobOK ==
  /\ JobTyped
  /\ job.at = "script" => OwnMark /\ ScriptOK(marks[Len(marks)].saved)
  /\ job.at = "release" => OwnMark /\ Whole(work)
  /\ job.at = "commit" => Whole(work)

\* A savepoint left open saved whole migrations, the committed ones unless
\* work is stranded in the transaction.
MarkOK(m) == Whole(m.saved) /\ (~stranded => m.saved = disk)

MigrationsTyped ==
  /\ disk \in Databases /\ work \in Databases
  /\ marks \in Seq(Marks)
  /\ stranded \in BOOLEAN

MigrationsInv ==
  /\ MigrationsTyped
  /\ Whole(disk)
  /\ \A i \in 1..Len(marks) : MarkOK(marks[i])
  /\ job = NoJob => Whole(work) /\ (~stranded => work = disk)
  /\ job # NoJob => JobOK

\* With no mark open, nothing is left to say of marks.
LEMMA NoMarks ==
  ASSUME NEW m, m = <<>>
  PROVE  m \in Seq(Marks) /\ Len(m) = 0 /\ 1..Len(m) = {}
  OBVIOUS

LEMMA JobAtWork ==
  ASSUME MigrationsInv, job.at # "idle"
  PROVE  job # NoJob /\ JobOK
  BY DEF MigrationsInv, NoJob

LEMMA MigrationsStart ==
  ASSUME MigrationsInit
  PROVE  MigrationsInv
<1>1. disk.tables = {} /\ disk.status = [v \in Versions |-> "PENDING"] /\ work = disk
  BY DEF MigrationsInit
<1>2. \A v \in Versions : disk.status[v] = "PENDING"
  BY <1>1
<1>3. disk \in Databases
  BY DEF Databases, MigrationsInit
<1>4. Whole(disk)
  BY <1>1, <1>2 DEF Whole
<1>5. MigrationsTyped
  BY <1>1, <1>3, NoMarks DEF MigrationsTyped, MigrationsInit
<1>6. QED
  BY <1>1, <1>4, <1>5, NoMarks DEF MigrationsInv, MigrationsInit

LEMMA BeginKeeps ==
  ASSUME MigrationsInv, NEW v \in Versions, NEW kind \in {"dry_run", "apply", "rollback"},
         Begin(kind, v)
  PROVE  MigrationsInv'
<1> DEFINE j == [at |-> "script", kind |-> kind, version |-> v, left |-> Script(kind, v)]
           m == [name |-> kind, saved |-> work]
<1>1. /\ job = NoJob /\ marks' = Append(marks, m) /\ job' = j
      /\ disk' = disk /\ work' = work /\ stranded' = stranded
  BY DEF Begin
<1>2. /\ Whole(work) /\ (~stranded => work = disk) /\ MigrationsTyped
      /\ \A i \in 1..Len(marks) : MarkOK(marks[i])
  BY <1>1 DEF MigrationsInv
<1>3. m \in Marks /\ m.saved = work /\ m.name = kind
  BY <1>2 DEF MigrationsTyped, Marks
<1> HIDE DEF m
<1>4. /\ marks' \in Seq(Marks) /\ Len(marks') = Len(marks) + 1 /\ Len(marks) \in Nat
      /\ marks'[Len(marks')] = m
      /\ \A i \in 1..Len(marks) : marks'[i] = marks[i]
  BY <1>1, <1>2, <1>3 DEF MigrationsTyped
<1>5. ASSUME NEW i \in 1..Len(marks') PROVE MarkOK(marks[i])'
  <2>1. CASE i \in 1..Len(marks)
    BY <1>1, <1>2, <1>4, <2>1 DEF MarkOK, Whole
  <2>2. CASE i = Len(marks')
    BY <1>1, <1>2, <1>3, <1>4, <2>2 DEF MarkOK, Whole
  <2>3. QED
    BY <1>4, <2>1, <2>2
<1>6. Script(kind, v) \in Seq(STRING) /\ Named(Script(kind, v)) = TablesOf(v)
  BY ScriptTables
<1>7. /\ j = [at |-> j.at, kind |-> j.kind, version |-> j.version, left |-> j.left]
      /\ j.kind = kind /\ j.version = v /\ j.left = Script(kind, v) /\ j.at = "script"
  OBVIOUS
<1> HIDE DEF j
<1>8. JobTyped' /\ OwnMark'
  BY <1>1, <1>3, <1>4, <1>7 DEF JobTyped, OwnMark
<1>9. ScriptOK(marks[Len(marks)].saved)'
  BY <1>1, <1>3, <1>4, <1>6, <1>7 DEF ScriptOK
<1>10. JobOK' /\ job' # NoJob
  BY <1>1, <1>7, <1>8, <1>9 DEF JobOK, NoJob
<1>11. QED
  BY <1>1, <1>2, <1>4, <1>5, <1>10 DEF MigrationsInv, MigrationsTyped, Whole

LEMMA ExecuteKeeps ==
  ASSUME MigrationsInv, Execute
  PROVE  MigrationsInv'
<1> DEFINE h == Head(job.left)
           rest == Tail(job.left)
           new == IF job.kind = "rollback" THEN work.tables \ {h} ELSE work.tables \cup {h}
           base == marks[Len(marks)].saved
<1>1. JobOK /\ job.left # <<>> /\ job.at = "script"
  BY JobAtWork DEF Execute
<1>2. JobTyped /\ OwnMark /\ ScriptOK(base)
  BY <1>1 DEF JobOK
<1>3. /\ work' = [work EXCEPT !.tables = new] /\ job' = [job EXCEPT !.left = rest]
      /\ disk' = disk /\ marks' = marks /\ stranded' = stranded
  BY DEF Execute
<1>4. rest \in Seq(STRING) /\ Named(job.left) = {h} \cup Named(rest) /\ h \in STRING
  <2>1. job.left \in Seq(STRING) /\ job.left # <<>>
    BY <1>1, <1>2 DEF ScriptOK
  <2>2. Head(job.left) \in STRING
    BY <2>1
  <2>3. QED
    BY <2>1, <2>2, NamedStep
<1>5. (job.kind = "rollback" => new \ Named(rest) = work.tables \ Named(job.left))
      /\ (job.kind # "rollback" => new \cup Named(rest) = work.tables \cup Named(job.left))
  BY <1>4
<1>6. work \in Databases /\ new \in SUBSET STRING
  BY <1>4 DEF MigrationsInv, MigrationsTyped, Databases
<1> HIDE DEF new, h, rest
<1>7. work'.tables = new /\ work'.status = work.status /\ work' \in Databases
  BY <1>3, <1>6 DEF Databases
<1>8. /\ job'.kind = job.kind /\ job'.version = job.version /\ job'.left = rest
      /\ job'.at = "script"
      /\ job' = [at |-> job'.at, kind |-> job'.kind, version |-> job'.version, left |-> job'.left]
  BY <1>1, <1>2, <1>3 DEF JobTyped
<1>9. JobTyped' /\ OwnMark'
  BY <1>2, <1>3, <1>8 DEF JobTyped, OwnMark
<1>10. ScriptOK(marks[Len(marks)].saved)'
  BY <1>2, <1>3, <1>4, <1>5, <1>7, <1>8 DEF ScriptOK
<1>11. JobOK' /\ job' # NoJob
  BY <1>8, <1>9, <1>10 DEF JobOK, NoJob
<1>12. \A i \in 1..Len(marks) : MarkOK(marks[i])'
  BY <1>3 DEF MigrationsInv, MarkOK, Whole
<1>13. QED
  BY <1>3, <1>7, <1>11, <1>12 DEF MigrationsInv, MigrationsTyped, Whole

\* The handler restores what a mark of the call's name saved; only after a
\* failed commit can there be none.
LEMMA RollbackKeeps ==
  ASSUME MigrationsInv, job.at # "idle", RollbackTo
  PROVE  MigrationsInv'
<1>1. JobOK /\ MigrationsTyped /\ Len(marks) \in Nat /\ DOMAIN marks = 1..Len(marks)
  BY JobAtWork DEF MigrationsInv, MigrationsTyped
<1>2. job' = NoJob /\ disk' = disk
  BY DEF RollbackTo
<1>3. CASE MarksNamed(job.kind) # {}
  <2>1. PICK i \in MarksNamed(job.kind) :
          work' = marks[i].saved /\ marks' = SubSeq(marks, 1, i) /\ stranded' = stranded
    BY <1>3 DEF RollbackTo
  <2>2. i \in 1..Len(marks)
    BY <1>1 DEF MarksNamed
  <2>3. /\ marks[i] \in Marks /\ MarkOK(marks[i])
        /\ \A k \in 1..Len(marks) : MarkOK(marks[k])
    BY <1>1, <2>2 DEF MigrationsInv, MigrationsTyped
  <2>4. /\ marks' \in Seq(Marks) /\ Len(marks') = i
        /\ \A k \in 1..i : marks'[k] = marks[k]
    BY <1>1, <2>1, <2>2 DEF MigrationsTyped
  <2>5. \A k \in 1..Len(marks') : MarkOK(marks[k])'
    BY <1>2, <2>1, <2>2, <2>3, <2>4 DEF MarkOK, Whole
  <2>6. work' \in Databases /\ Whole(work') /\ (~stranded' => work' = disk')
    BY <1>2, <2>1, <2>3 DEF Marks, MarkOK
  <2>7. QED
    BY <1>1, <1>2, <2>1, <2>4, <2>5, <2>6 DEF MigrationsInv, MigrationsTyped, Whole
<1>4. CASE MarksNamed(job.kind) = {}
  <2>1. stranded' = TRUE /\ work' = work /\ marks' = marks
    BY <1>4 DEF RollbackTo
  <2>2. ~OwnMark
    BY <1>1, <1>4 DEF OwnMark, MarksNamed
  <2>3. Whole(work)
    BY <1>1, <2>2 DEF JobOK, JobTyped
  <2>4. QED
    BY <1>1, <1>2, <2>1, <2>3 DEF MigrationsInv, MigrationsTyped, MarkOK, Whole
<1>5. QED
  BY <1>3, <1>4

\* With the row, the work of the connection is made of whole migrations.
LEMMA WriteRowKeeps ==
  ASSUME MigrationsInv, WriteRow
  PROVE  MigrationsInv'
<1> DEFINE v == job.version
           s == Logged(job.kind, work.status[v])
           status == [work.status EXCEPT ![v] = s]
           base == marks[Len(marks)].saved
<1>1. /\ JobTyped /\ OwnMark /\ ScriptOK(base) /\ job.left = <<>> /\ job.at = "script"
      /\ job.kind \in {"apply", "rollback"}
  BY JobAtWork DEF WriteRow, JobOK, JobTyped
<1>2. /\ work' = [work EXCEPT !.status = status] /\ job' = [job EXCEPT !.at = "release"]
      /\ UNCHANGED <<disk, marks, stranded>>
  BY DEF WriteRow
<1>3. work \in Databases /\ v \in Versions
  BY <1>1 DEF MigrationsInv, MigrationsTyped, JobTyped
<1>4. MarkOK(marks[Len(marks)])
  BY <1>1 DEF MigrationsInv, MigrationsTyped, OwnMark
<1>5. (s = "APPLIED" <=> job.kind = "apply") /\ s \in {"PENDING", "APPLIED", "ROLLED_BACK"}
  BY <1>1 DEF Logged
<1>6. Named(job.left) = {}
  BY <1>1 DEF Named
<1>7. /\ (job.kind = "apply" => work.tables = base.tables \cup TablesOf(v))
      /\ (job.kind = "rollback" => work.tables = base.tables \ TablesOf(v))
      /\ work.status = base.status
  BY <1>1, <1>6 DEF ScriptOK
<1> HIDE DEF s, base
<1>8. status[v] = s /\ (\A u \in Versions : u # v => status[u] = work.status[u])
      /\ status \in [Versions -> {"PENDING", "APPLIED", "ROLLED_BACK"}]
  BY <1>3, <1>5 DEF Databases
<1> HIDE DEF status, v
<1>9. work'.tables = work.tables /\ work'.status = status /\ work' \in Databases
  BY <1>2, <1>3, <1>8 DEF Databases
<1>10. ASSUME NEW u \in Versions
       PROVE  TablesOf(u) \cap work.tables = IF status[u] = "APPLIED" THEN TablesOf(u) ELSE {}
  <2>1. CASE u = v
    BY <1>1, <1>5, <1>7, <1>8, <2>1
  <2>2. CASE u # v
    <3>1. TablesOf(u) \cap TablesOf(v) = {}
      BY <1>3, <2>2, MigrationAssumption
    <3>2. TablesOf(u) \cap base.tables = IF base.status[u] = "APPLIED" THEN TablesOf(u) ELSE {}
      BY <1>4 DEF MarkOK, Whole, base
    <3>3. status[u] = base.status[u]
      BY <1>7, <1>8, <2>2
    <3>4. QED
      BY <1>1, <1>7, <3>1, <3>2, <3>3
  <2>3. QED
    BY <2>1, <2>2
<1>11. Whole(work')
  BY <1>9, <1>10 DEF Whole
<1>12. /\ job'.at = "release" /\ job'.kind = job.kind /\ job'.version = job.version
       /\ job' = [at |-> job'.at, kind |-> job'.kind, version |-> job'.version, left |-> job'.left]
  BY <1>1, <1>2 DEF JobTyped
<1>13. JobOK' /\ job' # NoJob
  BY <1>1, <1>2, <1>11, <1>12 DEF JobOK, JobTyped, OwnMark, NoJob, Whole
<1>14. \A i \in 1..Len(marks) : MarkOK(marks[i])'
  BY <1>2 DEF MigrationsInv, MarkOK, Whole
<1>15. QED
  BY <1>2, <1>9, <1>13, <1>14 DEF MigrationsInv, MigrationsTyped, Whole

\* A commit puts the connection's whole migrations on disk.
LEMMA CommitKeeps ==
  ASSUME MigrationsInv, job.at \in {"release", "commit"}, Committed
  PROVE  MigrationsInv'
<1>1. Whole(work) /\ work \in Databases
  BY JobAtWork DEF JobOK, MigrationsInv, MigrationsTyped
<1>2. disk' = work /\ work' = work /\ marks' = <<>> /\ job' = NoJob /\ stranded' = FALSE
  BY DEF Committed
<1>3. marks' \in Seq(Marks) /\ 1..Len(marks') = {}
  BY <1>2, NoMarks
<1>4. QED
  BY <1>1, <1>2, <1>3 DEF MigrationsInv, MigrationsTyped, Whole

\* A RELEASE inside an open transaction drops the mark of the call.
LEMMA ReleaseKeeps ==
  ASSUME MigrationsInv, ReleaseMark
  PROVE  MigrationsInv'
<1>1. JobTyped /\ Whole(work) /\ MigrationsTyped
  BY JobAtWork DEF ReleaseMark, JobOK, MigrationsInv
<1>2. /\ marks' = SubSeq(marks, 1, Len(marks) - 1) /\ job' = [job EXCEPT !.at = "commit"]
      /\ UNCHANGED <<disk, work, stranded>> /\ Len(marks) > 1
  BY DEF ReleaseMark, Front
<1>3. /\ marks' \in Seq(Marks) /\ Len(marks') = Len(marks) - 1 /\ Len(marks) \in Nat
      /\ \A k \in 1..(Len(marks) - 1) : marks'[k] = marks[k]
  BY <1>1, <1>2 DEF MigrationsTyped
<1>4. \A k \in 1..Len(marks') : MarkOK(marks[k])'
  BY <1>2, <1>3 DEF MigrationsInv, MarkOK, Whole
<1>5. /\ job'.at = "commit" /\ job'.kind = job.kind /\ job'.version = job.version
      /\ job' = [at |-> job'.at, kind |-> job'.kind, version |-> job'.version, left |-> job'.left]
  BY <1>1, <1>2 DEF JobTyped
<1>6. JobOK' /\ job' # NoJob
  BY <1>1, <1>2, <1>5 DEF JobOK, JobTyped, NoJob, Whole
<1>7. QED
  BY <1>1, <1>2, <1>3, <1>4, <1>6 DEF MigrationsInv, MigrationsTyped, Whole

LEMMA MigrationsStep ==
  ASSUME MigrationsInv, [MigrationsNext]_migrationVars
  PROVE  MigrationsInv'
<1>1. ASSUME NEW v \in Versions, NEW kind \in {"dry_run", "apply", "rollback"}, Begin(kind, v)
      PROVE  MigrationsInv'
  BY <1>1, BeginKeeps
<1>2. CASE Execute
  BY <1>2, ExecuteKeeps
<1>3. CASE StatementFails \/ FinishDryRun \/ CommitFails
  BY <1>3, RollbackKeeps DEF StatementFails, FinishDryRun, CommitFails
<1>4. CASE WriteRow
  BY <1>4, WriteRowKeeps
<1>5. CASE ReleaseCommits \/ Commit
  BY <1>5, CommitKeeps DEF ReleaseCommits, Commit
<1>6. CASE ReleaseMark
  BY <1>6, ReleaseKeeps
<1>7. CASE ProcessStops
  <2>1. disk' = disk /\ work' = disk /\ marks' = <<>> /\ job' = NoJob /\ stranded' = FALSE
    BY <1>7 DEF ProcessStops
  <2>2. marks' \in Seq(Marks) /\ 1..Len(marks') = {}
    BY <2>1, NoMarks
  <2>3. QED
    BY <2>1, <2>2 DEF MigrationsInv, MigrationsTyped, Whole
<1>8. CASE UNCHANGED migrationVars
  <2>1. UNCHANGED <<disk, work, marks, job, stranded>>
    BY <1>8 DEF migrationVars
  <2>2. QED
    BY <2>1 DEF MigrationsInv, MigrationsTyped, MarkOK, Whole, JobOK, JobTyped, OwnMark, ScriptOK
<1>9. QED
  BY <1>1, <1>2, <1>3, <1>4, <1>5, <1>6, <1>7, <1>8 DEF MigrationsNext

\* For every set of migrations that create different tables, however many
\* savepoints dry runs and failures leave open, whichever statement, RELEASE
\* or commit() fails and wherever the process stops: what is committed, and
\* what the connection sees between calls, are whole migrations, the ones
\* schema_migrations calls APPLIED, and the two are the same unless a commit
\* failed inside a transaction that was left open.
THEOREM SchemaKeptWhole == MigrationsSpec => []SchemaMatchesLog
<1>1. MigrationsInit => MigrationsInv
  BY MigrationsStart
<1>2. MigrationsInv /\ [MigrationsNext]_migrationVars => MigrationsInv'
  BY MigrationsStep
<1>3. MigrationsInv => SchemaMatchesLog
  BY DEF MigrationsInv, SchemaMatchesLog, Whole
<1>4. QED
  BY <1>1, <1>2, <1>3, PTL DEF MigrationsSpec

=============================================================================
