----------------------------- MODULE CurrencyRates -----------------------------
(***************************************************************************)
(* The currency converter (src/domain/currency/exchange_rates.py), shared  *)
(* by threads without a lock.  set_rate writes the rate to _rates, looks   *)
(* for its date in the list of the pair, puts it there and sorts the list, *)
(* does the same for the rounded inverse, and clears the cache of resolved *)
(* rates.  list.sort() takes the entries out of the list while it runs.  A *)
(* conversion looks in the cache, in _rates, in the list (the rate in      *)
(* force at the date, or the earliest one), then goes through USD, and     *)
(* stores what it found.  Another thread can run between any two of these  *)
(* steps.                                                                  *)
(***************************************************************************)
EXTENDS Integers, Sequences

CONSTANTS
  Currencies,   \* contains "USD"
  Dates,        \* effective dates, numbers
  QuotedPairs,  \* pairs set_rate is called with
  NewRates,     \* and the scaled rates, positive
  AskedPairs,   \* pairs that are converted
  AskedDates,   \* lists of dates: one for convert, two for revalue_amount
  Money,        \* amounts to convert
  RateScale,    \* RATE_SCALE
  NoRate,       \* no entry
  RateUsers,    \* threads
  MaxSets       \* bound: calls of set_rate

ASSUME RatesAssumption ==
  /\ "USD" \in Currencies
  /\ Dates \subseteq Nat
  /\ QuotedPairs \subseteq Currencies \X Currencies
  /\ AskedPairs \subseteq Currencies \X Currencies
  /\ AskedDates \subseteq Seq(Dates) \ {<<>>}
  /\ NewRates \subseteq Nat \ {0}
  /\ RateScale \in Nat \ {0}
  /\ NoRate \notin Int

VARIABLES
  table,        \* _rates: (base, quote, date) -> scaled rate
  index,        \* _rate_index: (base, quote) -> list of (date, scaled rate)
  cache,        \* _rate_cache
  users,        \* each thread's call
  sets,         \* calls of set_rate so far
  doubt,        \* history: keys cached by a call that overlapped a set_rate, or
                \* left in the cache by one that failed
  raced         \* history: two calls of set_rate overlapped

rateVars == <<table, index, cache, users, sets, doubt, raced>>

-----------------------------------------------------------------------------
(* Arithmetic *)

Pairs == Currencies \X Currencies

RateKeys == Currencies \X Currencies \X Dates

\* Integer division that rounds half up.
RoundDiv(a, b) == (a + (b \div 2)) \div b

InverseRate(rate) == RoundDiv(RateScale * RateScale, rate)

Scaled(a, rate) == RoundDiv(a * rate, RateScale)

-----------------------------------------------------------------------------
(* set_rate *)

NoUse == [at |-> "idle"]

Failed == [at |-> "failed"]

RatesInit ==
  /\ table = [k \in RateKeys |-> NoRate]
  /\ index = [p \in Pairs |-> <<>>]
  /\ cache = [k \in RateKeys |-> NoRate]
  /\ users = [u \in RateUsers |-> NoUse]
  /\ sets = 0
  /\ doubt = {}
  /\ raced = FALSE

Free(u) == users[u].at \in {"idle", "answered", "failed"}

Setting ==
  {u \in RateUsers : users[u].at \in {"scan", "put", "sort", "sorting", "inverse", "clear"}}

\* History: calls that overlap this set_rate.
MarkOverlap ==
  [u \in RateUsers |-> IF u \in Setting \/ users[u].at \in {"idle", "failed"}
                       THEN users[u] ELSE [users[u] EXCEPT !.overlap = TRUE]]

\* _rates[(base, quote, date)] = rate
WriteRate(u, base, quote, d, rate) ==
  /\ Free(u)
  /\ sets < MaxSets
  /\ sets' = sets + 1
  /\ table' = [table EXCEPT ![<<base, quote, d>>] = rate]
  /\ users' = [MarkOverlap EXCEPT ![u] =
       [at |-> "scan", leg |-> "direct", key |-> <<base, quote, d>>, rate |-> rate,
        place |-> 0, taken |-> <<>>]]
  /\ raced' = (raced \/ Setting # {})
  /\ UNCHANGED <<index, cache, doubt>>

\* _rates[(quote, base, date)] = inv_rate
WriteInverse(u) ==
  LET k    == users[u].key
      back == <<k[2], k[1], k[3]>>
      rate == InverseRate(users[u].rate) IN
  /\ users[u].at = "inverse"
  /\ table' = [table EXCEPT ![back] = rate]
  /\ users' = [users EXCEPT ![u] =
       [@ EXCEPT !.at = "scan", !.leg = "inverse", !.key = back, !.rate = rate]]
  /\ UNCHANGED <<index, cache, sets, doubt, raced>>

PairOf(k) == <<k[1], k[2]>>

\* Where the date stands in the list of the pair, 0 if it does not.
Scan(u) ==
  LET k       == users[u].key
      entries == index[PairOf(k)]
      found   == {i \in DOMAIN entries : entries[i][1] = k[3]} IN
  /\ users[u].at = "scan"
  /\ \E i \in found \cup {0} :
       /\ i = 0 => found = {}
       /\ \A j \in found : i <= j
       /\ users' = [users EXCEPT ![u] = [@ EXCEPT !.at = "put", !.place = i]]
  /\ UNCHANGED <<table, index, cache, sets, doubt, raced>>

\* The exception ends the call; what is in the cache stays there.
SetFails(u) ==
  /\ users' = [users EXCEPT ![u] = Failed]
  /\ doubt' = RateKeys

\* entries[place] = ..., an IndexError when another thread took the entries
\* out, or entries.append(...).
Put(u) ==
  LET c       == users[u]
      p       == PairOf(c.key)
      entry   == <<c.key[3], c.rate>> IN
  /\ c.at = "put"
  /\ IF c.place > Len(index[p])
     THEN SetFails(u) /\ UNCHANGED index
     ELSE /\ index' = [index EXCEPT ![p] =
               IF c.place = 0 THEN Append(@, entry) ELSE [@ EXCEPT ![c.place] = entry]]
          /\ users' = [users EXCEPT ![u].at = "sort"]
          /\ UNCHANGED doubt
  /\ UNCHANGED <<table, cache, sets, raced>>

\* entries.sort(): the entries leave the list ...
StartSort(u) ==
  LET p == PairOf(users[u].key) IN
  /\ users[u].at = "sort"
  /\ users' = [users EXCEPT ![u] = [@ EXCEPT !.at = "sorting", !.taken = index[p]]]
  /\ index' = [index EXCEPT ![p] = <<>>]
  /\ UNCHANGED <<table, cache, sets, doubt, raced>>

\* The order of a stable sort by date.
IsOrder(f, s) ==
  /\ \A k \in DOMAIN s : \E i \in DOMAIN s : f[i] = k
  /\ \A i, j \in DOMAIN s :
       i < j => \/ s[f[i]][1] < s[f[j]][1]
                \/ s[f[i]][1] = s[f[j]][1] /\ f[i] < f[j]

ByDate(s) ==
  LET order == CHOOSE f \in [DOMAIN s -> DOMAIN s] : IsOrder(f, s)
  IN [i \in DOMAIN s |-> s[order[i]]]

\* ... and come back sorted, whatever was put into the list meanwhile; if
\* anything was, sort() raises a ValueError.
FinishSort(u) ==
  LET c == users[u]
      p == PairOf(c.key) IN
  /\ c.at = "sorting"
  /\ index' = [index EXCEPT ![p] = ByDate(c.taken)]
  /\ IF index[p] # <<>> THEN SetFails(u)
     ELSE /\ users' = [users EXCEPT ![u] =
               [@ EXCEPT !.at = IF c.leg = "direct" THEN "inverse" ELSE "clear",
                         !.taken = <<>>]]
          /\ UNCHANGED doubt
  /\ UNCHANGED <<table, cache, sets, raced>>

\* Mutant: the cache is not cleared.
KeepCache(u) ==
  /\ users[u].at = "clear"
  /\ users' = [users EXCEPT ![u] = NoUse]
  /\ UNCHANGED <<table, index, cache, sets, doubt, raced>>

ClearCache(u) ==
  /\ users[u].at = "clear"
  /\ cache' = [k \in RateKeys |-> NoRate]
  /\ doubt' = {}
  /\ users' = [users EXCEPT ![u] = NoUse]
  /\ UNCHANGED <<table, index, sets, raced>>

-----------------------------------------------------------------------------
(* convert and revalue_amount *)

\* The key get_rate_scaled is called with: the pair itself, or one leg of the
\* cross rate.
LookKey(c) ==
  CASE c.leg = "pair" -> <<c.from, c.to, Head(c.dates)>>
    [] c.leg = "from" -> <<c.from, "USD", Head(c.dates)>>
    [] c.leg = "to"   -> <<"USD", c.to, Head(c.dates)>>

Ask(u, amount, from, to, dates) ==
  /\ Free(u)
  /\ users' = [users EXCEPT ![u] =
       [at |-> IF from = to THEN "answered" ELSE "look", amount |-> amount,
        from |-> from, to |-> to, asked |-> dates, dates |-> dates,
        leg |-> "pair", first |-> NoRate, rate |-> NoRate, place |-> 0,
        values |-> IF from = to THEN [i \in DOMAIN dates |-> amount] ELSE <<>>,
        overlap |-> Setting # {}]]
  /\ UNCHANGED <<table, index, cache, sets, doubt, raced>>

\* get_rate_scaled returns a rate: to convert, which refuses zero, or to the
\* cross rate, which keeps the first leg and combines it with the second.
Return(c, rate) ==
  CASE c.leg = "pair" /\ rate = 0 -> Failed
    [] c.leg = "pair" /\ rate # 0 ->
         [c EXCEPT !.values = Append(@, Scaled(c.amount, rate)),
                   !.dates = Tail(@),
                   !.at = IF Len(c.dates) = 1 THEN "answered" ELSE "look"]
    [] c.leg = "from" -> [c EXCEPT !.leg = "to", !.first = rate, !.at = "look"]
    [] c.leg = "to" -> [c EXCEPT !.leg = "pair", !.rate = Scaled(c.first, rate),
                                 !.at = "store"]

\* A step of a conversion that ends with call c.
GoOn(u, c) ==
  /\ users' = [users EXCEPT ![u] = c]
  /\ UNCHANGED <<table, index, cache, sets, doubt, raced>>

\* if cache_key in self._rate_cache
CheckCache(u) ==
  LET c == users[u] IN
  /\ c.at = "look"
  /\ GoOn(u, [c EXCEPT !.at = IF cache[LookKey(c)] # NoRate THEN "read" ELSE "exact"])

\* The cached rate, or a KeyError when the cache was cleared meanwhile.
HitCache(u) ==
  LET c == users[u] IN
  /\ c.at = "read"
  /\ GoOn(u, IF cache[LookKey(c)] = NoRate THEN Failed
             ELSE Return([c EXCEPT !.overlap = @ \/ LookKey(c) \in doubt],
                         cache[LookKey(c)]))

\* A rate found in the tables: an inverse may have been rounded to zero.
Found(c, rate) == IF rate = 0 THEN Failed ELSE [c EXCEPT !.at = "store", !.rate = rate]

\* The rate of the very date.
LookExact(u) ==
  LET c == users[u] IN
  /\ c.at = "exact"
  /\ GoOn(u, IF table[LookKey(c)] # NoRate THEN Found(c, table[LookKey(c)])
             ELSE [c EXCEPT !.at = "dates"])

\* bisect_right over the dates of the list; without entries the pair goes
\* through USD, or there is no rate.
LookDates(u) ==
  LET c       == users[u]
      k       == LookKey(c)
      entries == index[PairOf(k)] IN
  /\ c.at = "dates"
  /\ IF entries # <<>>
     THEN \E i \in 0..Len(entries) :
            /\ i > 0 => entries[i][1] <= k[3]
            /\ i < Len(entries) => k[3] < entries[i + 1][1]
            /\ GoOn(u, [c EXCEPT !.at = "entry", !.place = i])
     ELSE GoOn(u, IF "USD" \notin {k[1], k[2]} THEN [c EXCEPT !.leg = "from", !.at = "look"]
                  ELSE Failed)

\* The entry at that place, the first one if every date is later; an
\* IndexError when another thread took the entries out.
ReadEntry(u) ==
  LET c       == users[u]
      entries == index[PairOf(LookKey(c))]
      i       == IF c.place = 0 THEN 1 ELSE c.place IN
  /\ c.at = "entry"
  /\ GoOn(u, IF i > Len(entries) THEN Failed
             ELSE Found([c EXCEPT !.place = 0], entries[i][2]))

\* self._rate_cache[cache_key] = rate
StoreRate(u) ==
  LET c == users[u] IN
  /\ c.at = "store"
  /\ cache' = [cache EXCEPT ![LookKey(c)] = c.rate]
  /\ doubt' = IF c.overlap THEN doubt \cup {LookKey(c)} ELSE doubt \ {LookKey(c)}
  /\ users' = [users EXCEPT ![u] = Return(c, c.rate)]
  /\ UNCHANGED <<table, index, sets, raced>>

RatesNext ==
  \E u \in RateUsers :
    \/ \E p \in QuotedPairs, d \in Dates, rate \in NewRates :
         WriteRate(u, p[1], p[2], d, rate)
    \/ WriteInverse(u)
    \/ Scan(u)
    \/ Put(u)
    \/ StartSort(u)
    \/ FinishSort(u)
    \/ ClearCache(u)
    \/ \E p \in AskedPairs, dates \in AskedDates, amount \in Money :
         Ask(u, amount, p[1], p[2], dates)
    \/ CheckCache(u)
    \/ HitCache(u)
    \/ LookExact(u)
    \/ LookDates(u)
    \/ ReadEntry(u)
    \/ StoreRate(u)

RatesSpec == RatesInit /\ [][RatesNext]_rateVars

-----------------------------------------------------------------------------
(* Properties *)

\* The rate in force by _rates alone: the newest up to the date, else the
\* oldest.
InForce(k) ==
  LET known  == {d \in Dates : table[<<k[1], k[2], d>>] # NoRate}
      past   == {d \in known : d <= k[3]}
      chosen == IF past # {} THEN CHOOSE d \in past : \A e \in past : e <= d
                ELSE CHOOSE d \in known : \A e \in known : d <= e
  IN IF known = {} THEN NoRate ELSE table[<<k[1], k[2], chosen>>]

\* The rate of a key, through USD if the pair has none of its own.
FreshRate(k) ==
  IF InForce(k) # NoRate THEN InForce(k)
  ELSE Scaled(InForce(<<k[1], "USD", k[3]>>), InForce(<<"USD", k[2], k[3]>>))

\* The cache holds what _rates has for the very date, and otherwise what is in
\* force, unless calls of set_rate overlapped each other.
CacheCoherent ==
  \A k \in RateKeys \ doubt :
    cache[k] # NoRate =>
      /\ table[k] # NoRate => cache[k] = table[k]
      /\ ~raced => cache[k] = FreshRate(k)

\* So do the answers of a conversion that no set_rate overlapped.
AnswersCurrent(c) ==
  \A i \in DOMAIN c.asked :
    LET k == <<c.from, c.to, c.asked[i]>> IN
    /\ c.from = c.to => c.values[i] = c.amount
    /\ c.from # c.to /\ table[k] # NoRate => c.values[i] = Scaled(c.amount, table[k])
    /\ c.from # c.to /\ ~raced => c.values[i] = Scaled(c.amount, FreshRate(k))

\* The list of every pair has exactly the dates and rates of _rates, in order.
IndexFaithful ==
  \A p \in Pairs :
    /\ \A i, j \in DOMAIN index[p] : i < j => index[p][i][1] < index[p][j][1]
    /\ {index[p][i] : i \in DOMAIN index[p]} =
         {<<d, table[<<p[1], p[2], d>>]>> :
            d \in {e \in Dates : table[<<p[1], p[2], e>>] # NoRate}}

\* While no set_rate is in progress, the cache is coherent, and the list too
\* unless calls of set_rate overlapped each other; a conversion that no
\* set_rate overlapped answers with current rates: no sequence of rate changes
\* and conversions leaves an outdated rate, or leg of a cross rate, behind.
RateCacheCoherent ==
  /\ Setting = {} => CacheCoherent
  /\ Setting = {} /\ ~raced => IndexFaithful
  /\ \A u \in RateUsers :
       users[u].at = "answered" /\ ~users[u].overlap => AnswersCurrent(users[u])

\* ADR-007:22 "converted_scaled = (amount_scaled * rate_scaled) // 1_000_000":
\* the quotient is rounded down.  convert rounds half up.
ConversionFloors ==
  \A u \in RateUsers :
    users[u].at = "answered" /\ ~users[u].overlap /\ ~raced =>
      LET c == users[u] IN
      c.from # c.to => \A i \in DOMAIN c.asked :
        c.values[i] = (c.amount * FreshRate(<<c.from, c.to, c.asked[i]>>)) \div RateScale

=============================================================================
