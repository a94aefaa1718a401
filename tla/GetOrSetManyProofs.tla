------------------------- MODULE GetOrSetManyProofs -------------------------
(***************************************************************************)
(* Proofs about GetOrSetMany, for any keys, callers, key lists, TTLs and   *)
(* faults: types, that absence is justified, that the hard TTL bounds      *)
(* staleness, and that without jitter the expiry of an enveloped item is   *)
(* the end of its stale window.                                            *)
(***************************************************************************)
EXTENDS GetOrSetMany, FiniteSetTheorems, TLAPS

-----------------------------------------------------------------------------
(* Sets of natural numbers.                                                *)
LEMMA LeastNat ==
  ASSUME NEW S \in SUBSET Nat, S # {}
  PROVE  \E n \in S : \A m \in S : n <= m
<1>1. PICK n \in S : \A m \in S : ~ (<<m, n>> \in OpToRel(<, Nat))
  BY NatLessThanWellFounded, WFMin
<1>2. ASSUME NEW m \in S PROVE n <= m
  <2>1. <<m, n>> \in Nat \X Nat /\ <<m, n>>[1] = m /\ <<m, n>>[2] = n
    OBVIOUS
  <2>2. ~ (m < n)
    BY <1>1, <2>1 DEF OpToRel
  <2> QED BY <2>2
<1> QED BY <1>2

LEMMA GreatestNat ==
  ASSUME NEW n \in Nat, NEW S \in SUBSET (1..n), S # {}
  PROVE  Max(S) \in S
<1> DEFINE D == {n - i : i \in S}
<1>1. D \in SUBSET Nat /\ D # {}
  <2>1. \A i \in S : n - i \in Nat
    OBVIOUS
  <2>2. PICK i \in S : TRUE
    OBVIOUS
  <2> QED BY <2>1, <2>2
<1>2. PICK d \in D : \A e \in D : d <= e
  BY <1>1, LeastNat
<1>3. PICK i \in S : d = n - i
  BY <1>2
<1>4. \A j \in S : i >= j
  BY <1>2, <1>3
<1> QED BY <1>3, <1>4 DEF Max

-----------------------------------------------------------------------------
(* uniq.                                                                   *)
First(keys) == {i \in DOMAIN keys : \A j \in 1..(i - 1) : keys[j] # keys[i]}

Upto(keys, i) == {j \in First(keys) : j <= i}

LEMMA uniqUnfolds ==
  ASSUME NEW keys
  PROVE  uniq(keys) = [n \in 1..Cardinality(First(keys)) |->
                        keys[CHOOSE i \in First(keys) : Cardinality(Upto(keys, i)) = n]]
BY DEF uniq, First, Upto

LEMMA FirstInside ==
  ASSUME NEW keys \in Seq(Keys)
  PROVE  /\ DOMAIN keys = 1..Len(keys) /\ Len(keys) \in Nat
         /\ First(keys) \subseteq 1..Len(keys) /\ First(keys) \subseteq Nat
BY DEF First

LEMMA FirstFinite ==
  ASSUME NEW keys \in Seq(Keys)
  PROVE  /\ First(keys) \subseteq 1..Len(keys) /\ IsFiniteSet(First(keys))
         /\ Cardinality(First(keys)) \in Nat
         /\ \A i \in Nat : IsFiniteSet(Upto(keys, i)) /\ Cardinality(Upto(keys, i)) \in Nat
<1>1. First(keys) \subseteq 1..Len(keys)
  BY DEF First
<1>2. IsFiniteSet(1..Len(keys))
  BY FS_Interval
<1>3. ASSUME NEW S \in SUBSET (1..Len(keys)) PROVE IsFiniteSet(S) /\ Cardinality(S) \in Nat
  BY <1>2, FS_Subset, FS_CardinalityType
<1>4. \A i \in Nat : Upto(keys, i) \subseteq 1..Len(keys)
  BY <1>1 DEF Upto
<1> QED BY <1>1, <1>3, <1>4

(* Counting upwards, the rank grows by one at each first occurrence and    *)
(* nowhere else.                                                           *)
LEMMA RankSteps ==
  ASSUME NEW keys \in Seq(Keys), NEW i \in Nat
  PROVE  Cardinality(Upto(keys, i + 1))
           = IF i + 1 \in First(keys) THEN Cardinality(Upto(keys, i)) + 1
             ELSE Cardinality(Upto(keys, i))
<1>1. First(keys) \subseteq Nat /\ IsFiniteSet(Upto(keys, i))
  BY FirstFinite
<1>2. CASE i + 1 \in First(keys)
  <2>1. Upto(keys, i + 1) = Upto(keys, i) \cup {i + 1} /\ i + 1 \notin Upto(keys, i)
    BY <1>1, <1>2 DEF Upto
  <2> QED BY <1>1, <1>2, <2>1, FS_AddElement
<1>3. CASE i + 1 \notin First(keys)
  <2>1. Upto(keys, i + 1) = Upto(keys, i)
    BY <1>1, <1>3 DEF Upto
  <2> QED BY <1>3, <2>1
<1> QED BY <1>2, <1>3

LEMMA EveryRank ==
  ASSUME NEW keys \in Seq(Keys), NEW n \in 1..Cardinality(First(keys))
  PROVE  \E i \in First(keys) : Cardinality(Upto(keys, i)) = n
<1>1. /\ First(keys) \subseteq 1..Len(keys) /\ Len(keys) \in Nat /\ n \in Nat
      /\ \A i \in Nat : Cardinality(Upto(keys, i)) \in Nat
      /\ Cardinality(First(keys)) \in Nat
  BY FirstFinite
<1> DEFINE S == {i \in Nat : n <= Cardinality(Upto(keys, i))}
<1>2. Len(keys) \in S
  <2>1. Upto(keys, Len(keys)) = First(keys)
    BY <1>1 DEF Upto
  <2> QED BY <1>1, <2>1
<1>3. PICK i \in S : \A j \in S : i <= j
  BY <1>2, LeastNat
<1>4. i # 0
  <2>1. Upto(keys, 0) = {}
    BY <1>1 DEF Upto
  <2>2. Cardinality(Upto(keys, 0)) = 0
    BY <2>1, FS_EmptySet
  <2> QED BY <1>1, <1>3, <2>2
<1>5. PICK h \in Nat : i = h + 1
  <2>1. i - 1 \in Nat /\ i = (i - 1) + 1
    BY <1>3, <1>4
  <2> QED BY <2>1
<1>6. Cardinality(Upto(keys, h)) < n
  BY <1>1, <1>3, <1>5
<1>7. Cardinality(Upto(keys, i)) >= n
  BY <1>1, <1>3
<1>8. /\ Cardinality(Upto(keys, i)) \in Nat /\ Cardinality(Upto(keys, h)) \in Nat
      /\ Cardinality(Upto(keys, i)) = IF i \in First(keys) THEN Cardinality(Upto(keys, h)) + 1
                                      ELSE Cardinality(Upto(keys, h))
  BY <1>1, <1>5, RankSteps
<1> DEFINE a == Cardinality(Upto(keys, h))
           b == Cardinality(Upto(keys, i))
<1>9. a \in Nat /\ b \in Nat /\ a < n /\ b >= n /\ n \in Nat
  BY <1>1, <1>6, <1>7, <1>8
<1>10. b = IF i \in First(keys) THEN a + 1 ELSE a
  BY <1>8
<1> HIDE DEF S, a, b
<1>11. i \in First(keys) /\ b = n
  BY <1>9, <1>10
<1> QED BY <1>11 DEF b

LEMMA RankGrows ==
  ASSUME NEW keys \in Seq(Keys), NEW i \in First(keys), NEW j \in First(keys), i < j
  PROVE  Cardinality(Upto(keys, i)) < Cardinality(Upto(keys, j))
<1>2. i \in Nat /\ j \in Nat /\ First(keys) \subseteq Nat
  BY FirstInside
<1>3. Upto(keys, i) \subseteq Upto(keys, j)
  BY <1>2 DEF Upto
<1>4. j \in Upto(keys, j) /\ j \notin Upto(keys, i)
  BY <1>2 DEF Upto
<1>5. Cardinality(Upto(keys, i)) <= Cardinality(Upto(keys, j))
      /\ Cardinality(Upto(keys, i)) # Cardinality(Upto(keys, j))
  BY <1>2, <1>3, <1>4, FirstFinite, FS_Subset
<1>6. Cardinality(Upto(keys, i)) \in Nat /\ Cardinality(Upto(keys, j)) \in Nat
  BY <1>2, FirstFinite
<1> QED BY <1>5, <1>6

(* The position in keys of the n-th key of uniq.                           *)
At(keys, n) == CHOOSE i \in First(keys) : Cardinality(Upto(keys, i)) = n

LEMMA AtIsFirst ==
  ASSUME NEW keys \in Seq(Keys), NEW n \in 1..Cardinality(First(keys))
  PROVE  At(keys, n) \in First(keys) /\ Cardinality(Upto(keys, At(keys, n))) = n
BY EveryRank DEF At

LEMMA FirstIsAt ==
  ASSUME NEW keys \in Seq(Keys), NEW i \in First(keys)
  PROVE  \E n \in 1..Cardinality(First(keys)) : At(keys, n) = i
<1> DEFINE n == Cardinality(Upto(keys, i))
<1>1. i \in Nat /\ First(keys) \subseteq Nat
  BY FirstFinite
<1>2. i \in Upto(keys, i) /\ Upto(keys, i) \subseteq First(keys)
  BY <1>1 DEF Upto
<1>3. n \in Nat /\ Cardinality(First(keys)) \in Nat /\ IsFiniteSet(Upto(keys, i))
  BY <1>1, FirstFinite
<1>4. n # 0
  BY <1>2, <1>3, FS_EmptySet
<1>5. n <= Cardinality(First(keys))
  BY <1>2, FirstFinite, FS_Subset
<1>6. n \in 1..Cardinality(First(keys))
  BY <1>3, <1>4, <1>5
<1>7. At(keys, n) \in First(keys) /\ Cardinality(Upto(keys, At(keys, n))) = n
  BY <1>6, AtIsFirst
<1> DEFINE j == At(keys, n)
<1>8. j \in Nat /\ ~(i < j) /\ ~(j < i)
  <2>1. j \in Nat
    BY <1>1, <1>7
  <2>2. ASSUME i < j PROVE FALSE
    BY <1>3, <1>7, <2>2, RankGrows
  <2>3. ASSUME j < i PROVE FALSE
    BY <1>3, <1>7, <2>3, RankGrows
  <2> QED BY <2>1, <2>2, <2>3
<1>9. j = i
  BY <1>1, <1>8
<1> QED BY <1>6, <1>9

LEMMA uniqAt ==
  ASSUME NEW keys \in Seq(Keys)
  PROVE  uniq(keys) = [n \in 1..Cardinality(First(keys)) |-> keys[At(keys, n)]]
BY uniqUnfolds DEF At

LEMMA uniqTyped == ASSUME NEW keys \in Seq(Keys) PROVE uniq(keys) \in Seq(Keys)
<1>1. Cardinality(First(keys)) \in Nat /\ First(keys) \subseteq DOMAIN keys
  BY FirstFinite DEF First
<1>2. \A n \in 1..Cardinality(First(keys)) : keys[At(keys, n)] \in Keys
  BY <1>1, AtIsFirst
<1>3. [n \in 1..Cardinality(First(keys)) |-> keys[At(keys, n)]] \in Seq(Keys)
  BY <1>1, <1>2
<1> QED BY <1>3, uniqAt

(* "Duplicate keys in the input are deduplicated" (GetOrSetMany): uniq     *)
(* has every key of the argument once, in the order of first occurrence.   *)
THEOREM Deduplicated ==
  ASSUME NEW keys \in Seq(Keys)
  PROVE  /\ uniq(keys) \in Seq(Keys)
         /\ Range(uniq(keys)) = Range(keys)
         /\ IsInjective(uniq(keys))
         /\ \A m, n \in DOMAIN uniq(keys) : m < n =>
              \E i \in DOMAIN keys : /\ keys[i] = uniq(keys)[m]
                                     /\ \A j \in 1..i : keys[j] # uniq(keys)[n]
<1> DEFINE N == 1..Cardinality(First(keys))
<1>0. Cardinality(First(keys)) \in Nat
  BY FirstFinite
<1>1. /\ uniq(keys) = [n \in N |-> keys[At(keys, n)]] /\ uniq(keys) \in Seq(Keys)
      /\ First(keys) \subseteq 1..Len(keys) /\ DOMAIN keys = 1..Len(keys) /\ Len(keys) \in Nat
      /\ Cardinality(First(keys)) \in Nat
  BY <1>0, uniqAt, uniqTyped, FirstInside
<1>2. DOMAIN uniq(keys) = N /\ \A n \in N : uniq(keys)[n] = keys[At(keys, n)] /\ At(keys, n) \in First(keys)
  BY <1>1, AtIsFirst
<1>3. Range(uniq(keys)) = Range(keys)
  <2>1. ASSUME NEW n \in N PROVE uniq(keys)[n] \in Range(keys)
    BY <1>1, <1>2 DEF Range
  <2>2. ASSUME NEW p \in DOMAIN keys PROVE keys[p] \in Range(uniq(keys))
    <3> DEFINE S == {i \in DOMAIN keys : keys[i] = keys[p]}
    <3>1. S \in SUBSET Nat /\ p \in S
      BY <1>1
    <3>2. PICK i \in S : \A j \in S : i <= j
      BY <3>1, LeastNat
    <3>3. i \in First(keys)
      BY <1>1, <3>2 DEF First
    <3>4. PICK n \in N : At(keys, n) = i
      BY <3>3, FirstIsAt
    <3>5. uniq(keys)[n] = keys[p]
      BY <1>2, <3>2, <3>4
    <3> QED BY <1>2, <3>5 DEF Range
  <2> QED BY <1>2, <2>1, <2>2 DEF Range
<1>4. ASSUME NEW m \in N, NEW n \in N, m < n
      PROVE  \A j \in 1..At(keys, m) : keys[j] # keys[At(keys, n)]
  <2>1. /\ At(keys, m) \in First(keys) /\ Cardinality(Upto(keys, At(keys, m))) = m
        /\ At(keys, n) \in First(keys) /\ Cardinality(Upto(keys, At(keys, n))) = n
    BY AtIsFirst
  <2> DEFINE i == At(keys, m)
             j == At(keys, n)
  <2>2. i \in Nat /\ j \in Nat /\ m \in Nat /\ n \in Nat
    BY <1>1, <2>1
  <2>3. i # j
    BY <1>4, <2>1, <2>2
  <2>4. ~(j < i)
    <3>1. ASSUME j < i PROVE FALSE
      <4>1. n < m
        BY <2>1, <3>1, RankGrows
      <4> QED BY <1>4, <2>2, <4>1
    <3> QED BY <3>1
  <2>5. i < j
    BY <2>2, <2>3, <2>4
  <2> QED BY <2>1, <2>2, <2>5 DEF First
<1>5. ASSUME NEW m \in N, NEW n \in N, m < n PROVE uniq(keys)[m] # uniq(keys)[n]
  <2>1. At(keys, m) \in 1..Len(keys)
    BY <1>1, <1>2
  <2>2. At(keys, m) \in 1..At(keys, m)
    BY <1>1, <2>1
  <2>3. keys[At(keys, m)] # keys[At(keys, n)]
    BY <1>4, <1>5, <2>2
  <2> QED BY <1>2, <2>3
<1>6. IsInjective(uniq(keys))
  <2>1. ASSUME NEW m \in N, NEW n \in N, m # n PROVE uniq(keys)[m] # uniq(keys)[n]
    <3>1. m < n \/ n < m
      BY <1>1, <2>1
    <3> QED BY <3>1, <1>5
  <2> QED BY <1>2, <2>1 DEF IsInjective
<1>7. ASSUME NEW m \in DOMAIN uniq(keys), NEW n \in DOMAIN uniq(keys), m < n
      PROVE  \E i \in DOMAIN keys : /\ keys[i] = uniq(keys)[m]
                                    /\ \A j \in 1..i : keys[j] # uniq(keys)[n]
  BY <1>1, <1>2, <1>4, <1>7
<1> QED BY <1>1, <1>3, <1>6, <1>7

-----------------------------------------------------------------------------
(* The invariants.  Gone(k, t): the source did not have entity k, or got   *)
(* it too late for a call that began at t.                                 *)
Gone(k, t) ==
  \/ created[k] = 0
  \/ created[k] + Percent(NegativeTTL, 100 + ttlJitter) + MaxLag + Milli - 1 > t

(* What a call has to write was packed at t.                               *)
PackedAt(o, t) ==
  /\ \A k \in Keys : o.vals[k] # NoEntry =>
       \E p \in packForStore(o.ttl, t) : o.vals[k] = AsOf(p.entry, o.readAt)
  /\ (\E k \in Keys : o.vals[k] # NoEntry) => \E p \in packForStore(o.ttl, t) : o.storeTTL = p.ttl

(* Types, and what every argument about a call o starts from: it began in  *)
(* the past, entries with a value are from a load, the values waiting to   *)
(* be written are from its own, whose look at the source is at most MaxLag *)
(* ago.                                                                    *)
Begun(o) ==
  /\ o.start <= now
  /\ o.pc # "idle" => o.out = "none"
  /\ o.pc # "idle" \/ o.out = "ok" => o.ttl \in TTLs
  /\ o.pc \notin {"scan", "load", "loading"} => o.missing = <<>>
  /\ o.pc \in {"loading", "vals", "negs"} =>
       o.start <= o.readAt /\ o.readAt <= now /\ now <= o.readAt + MaxLag /\ o.readAt > 0
  /\ o.pc = "loading" => o.found \subseteq Range(o.missing)
  /\ o.pc = "read" /\ o.batched => o.next = 1
  /\ \A k \in Keys : o.raw[k].ok => o.raw[k].at > 0
  /\ o.pc # "vals" => \A k \in Keys : o.vals[k] = NoEntry
  /\ o.pc = "vals" => \E t \in Nat : o.readAt <= t /\ t <= now /\ PackedAt(o, t)

Held(item) == Live(item, now) /\ (item.entry.ok => item.entry.at > 0)

ManyInv ==
  /\ TypeOK
  /\ now > 0
  /\ \A c \in Callers : Begun(call[c])
  /\ \A k \in Keys : Held(store[k])

(* Absence.  Known(o, k): k is accounted for, or still to be loaded.       *)
Known(o, k) == o.result[k] # 0 \/ k \in Range(o.missing) \/ Gone(k, o.start)

Accounted(o) ==
  /\ \A k \in Keys : isNegativeEntry(o.raw[k]) => Gone(k, o.start)
  /\ o.pc = "scan" => \A i \in DOMAIN o.keys : i < o.next => Known(o, o.keys[i])
  /\ o.pc \in {"load", "loading", "vals", "negs"} \/ o.out = "ok" =>
       \A k \in Range(o.keys) : Known(o, k)
  /\ o.pc = "loading" => \A k \in Range(o.missing) :
       k \in o.found \/ created[k] = 0 \/ created[k] >= o.readAt
  /\ o.pc \in {"vals", "negs"} => \A k \in o.negs : created[k] = 0 \/ created[k] >= o.readAt
  /\ o.pc \in {"vals", "negs"} /\ o.negs # {} => NegativeTTL > 0

Absent(k) ==
  LET e == store[k].entry
  IN isNegativeEntry(e) =>
       /\ e.at <= now /\ (created[k] = 0 \/ created[k] >= e.at)
       /\ store[k].deadline # 0
       /\ store[k].deadline <= e.at + Percent(NegativeTTL, 100 + ttlJitter) + MaxLag + Milli - 1

AbsenceInv ==
  /\ ManyInv
  /\ \A c \in Callers : Accounted(call[c])
  /\ \A k \in Keys : Absent(k)

(* Staleness, for a lifetime L: a value is younger than Window(L).         *)
Window(L) == Percent(L, 100 + ttlJitter) + StaleTTL + MaxLag + Milli - 1

Young(o, L) ==
  /\ \A k \in Keys : o.raw[k].ok => o.raw[k].at + Window(L) > o.start
  /\ \A k \in Keys : o.result[k] # 0 => o.result[k] + Window(L) > o.start

Bounded(item, L) ==
  item.entry.ok => item.deadline # 0 /\ item.deadline <= item.entry.at + Window(L)

StalenessInv(L) ==
  /\ ManyInv
  /\ \A c \in Callers : Young(call[c], L)
  /\ \A k \in Keys : Bounded(store[k], L)

(* Expiry.                                                                 *)
ExpiryInv == ManyInv /\ ExpiryMatchesEnvelope

-----------------------------------------------------------------------------
(* The operators of Entries.                                               *)
LEMMA NoEntryTyped == NoEntry \in Entry(Nat) /\ NoItem \in Item(Nat) /\ ~NoEntry.ok
<1>1. NoEntry \in Entry(Nat)
  BY DEF NoEntry, Entry, Kinds
<1> QED BY <1>1 DEF NoItem, Item, NoEntry

LEMMA TTLsNat == TTLs \cup {0} \subseteq Nat
BY ManyAssumption

LEMMA FloorNat == ASSUME NEW t \in Nat PROVE Floor(t) \in Nat
BY ConfigAssumption DEF Floor

LEMMA FloorRounds == ASSUME NEW t \in Nat PROVE Floor(t) \in Nat /\ t - Floor(t) \in 0 .. Milli - 1
<1>1. /\ Milli \in Nat \ {0} /\ (t % Milli) \in 0 .. Milli - 1
      /\ t = Milli * (t \div Milli) + (t % Milli)
  BY ConfigAssumption
<1> QED BY <1>1, FloorNat DEF Floor

LEMMA toPXRounds ==
  ASSUME NEW d \in Nat
  PROVE  /\ toPX(d) \in Nat /\ (d = 0 => toPX(d) = 0)
         /\ d > 0 => toPX(d) > 0 /\ toPX(d) \in d - (Milli - 1) .. d + (Milli - 1)
<1>1. Milli \in Nat \ {0} /\ Floor(d) \in Nat /\ d - Floor(d) \in 0 .. Milli - 1
  BY FloorRounds, ConfigAssumption
<1> QED BY <1>1 DEF toPX

LEMMA DefaultNat == ASSUME NEW ttl \in Nat PROVE orDefault(ttl) \in Nat
BY ConfigAssumption DEF orDefault

LEMMA JitterNat == ASSUME NEW ttl \in Nat PROVE applyJitter(ttl) \subseteq Nat
BY DEF applyJitter

LEMMA JitterRange == ttlJitter \in 0..90
BY ConfigAssumption DEF ttlJitter

(* Jitter lengthens a lifetime by at most ttlJitter percent.               *)
LEMMA JitterBounded ==
  ASSUME NEW ttl \in Nat, NEW d \in applyJitter(ttl)
  PROVE  d \in Nat /\ d <= Percent(ttl, 100 + ttlJitter) /\ Percent(ttl, 100 + ttlJitter) \in Nat
<1>1. d \in Nat /\ ttlJitter \in 0..90
  BY JitterNat, JitterRange
<1>2. PICK n \in Nat : n = ttl * (100 + ttlJitter)
  <2>1. ttl * (100 + ttlJitter) \in Nat
    BY <1>1
  <2> QED BY <2>1
<1>3. 100 * d <= n
  <2>1. CASE ttl <= 0 \/ ttlJitter <= 0
    <3>1. d = ttl
      BY <2>1 DEF applyJitter
    <3>2. n = 100 * ttl + ttl * ttlJitter /\ ttl * ttlJitter \in Nat
      BY <1>1, <1>2
    <3> QED BY <3>1, <3>2
  <2>2. CASE ~(ttl <= 0 \/ ttlJitter <= 0)
    <3>1. 100 * d < n
      BY <1>2, <2>2 DEF applyJitter
    <3> QED BY <1>1, <3>1
  <2> QED BY <2>1, <2>2
<1>4. Percent(ttl, 100 + ttlJitter) = n \div 100
  BY <1>2 DEF Percent
<1> QED BY <1>1, <1>3, <1>4

(* Jitter never draws the lifetime 0, which would mean no expiry, from a   *)
(* lifetime of ten ticks or more, and without jitter from none at all.     *)
LEMMA JitterPositive ==
  ASSUME NEW ttl \in Nat, ttl >= 10 \/ (ttl > 0 /\ ttlJitter = 0)
  PROVE  0 \notin applyJitter(ttl)
<1>1. CASE ttlJitter = 0
  BY <1>1 DEF applyJitter
<1>2. CASE ttlJitter # 0
  <2>1. PICK m \in 10..100 : m = 100 - ttlJitter
    BY <1>2, JitterRange
  <2>2. ttl >= 10 /\ ttl * m >= 10 * m
    BY <1>2, <2>1
  <2>3. ~(100 * (0 + 1) > ttl * (100 - ttlJitter))
    BY <2>1, <2>2
  <2> QED BY <1>2, <2>2, <2>3, JitterRange DEF applyJitter
<1> QED BY <1>1, <1>2

LEMMA ttlForNat == ASSUME NEW e, NEW ttl \in Nat PROVE ttlFor(e, ttl) \subseteq Nat
BY DefaultNat, JitterNat DEF ttlFor

(* The lifetime d of a write whose TTL is one of ttlFor: that TTL, up to a *)
(* millisecond.                                                            *)
Lives(d, e, ttl) ==
  \E u \in ttlFor(e, ttl) :
    u \in Nat /\ (u = 0 => d = 0) /\ (u > 0 => d > 0 /\ d \in u - (Milli - 1) .. u + (Milli - 1))

LEMMA NewItemFrom ==
  ASSUME NEW e \in Entry(Nat), NEW ttl \in Nat, NEW t \in Nat, NEW item \in writtenItem(e, ttl, t)
  PROVE  /\ item \in Item(Nat) /\ item.entry = e
         /\ \E d \in Nat : Lives(d, e, ttl) /\ item.deadline = IF d > 0 THEN t + d ELSE 0
<1>1. PICK u \in ttlFor(e, ttl) : item = ItemFor(e, u, t) \/ item = ItemFor(e, toPX(u), t)
  BY DEF writtenItem, newItem, setCmd
<1>2. u \in Nat
  BY <1>1, ttlForNat
<1>3. PICK d \in {u, toPX(u)} : item = ItemFor(e, d, t)
  BY <1>1
<1>4. /\ d \in Nat /\ (u = 0 => d = 0)
      /\ u > 0 => d > 0 /\ d \in u - (Milli - 1) .. u + (Milli - 1)
  BY <1>2, <1>3, toPXRounds, ConfigAssumption
<1>5. Lives(d, e, ttl)
  BY <1>1, <1>2, <1>4 DEF Lives
<1> QED BY <1>3, <1>4, <1>5 DEF Item, ItemFor

(* What packForStore makes of a value loaded at t.                         *)
LEMMA PackFrom ==
  ASSUME NEW ttl \in Nat, NEW t \in Nat, NEW p \in packForStore(ttl, t)
  PROVE  /\ p.entry \in Entry(Nat) /\ p.ttl \in Nat /\ p.entry.ok /\ p.entry.at = t
         /\ p.entry.kind \in {"env", "plain"} /\ p.entry # NoEntry
<1>1. CASE ~envelopeEnabled
  <2>1. p = [entry |-> Payload(t), ttl |-> ttl]
    BY <1>1 DEF packForStore
  <2> QED BY <2>1 DEF Payload, Entry, Kinds, NoEntry
<1>2. CASE envelopeEnabled
  <2>1. PICK fresh \in applyJitter(orDefault(ttl)) :
          p = IF fresh > 0
              THEN [entry |-> wrapEnvelope(t + fresh, t), ttl |-> fresh + StaleTTL]
              ELSE [entry |-> wrapEnvelope(0, t), ttl |-> 0]
    BY <1>2 DEF packForStore
  <2>2. fresh \in Nat
    BY <2>1, DefaultNat, JitterNat
  <2>3. PICK u \in Nat : p.entry = wrapEnvelope(u, t) /\ p.ttl \in Nat
    BY <2>1, <2>2, ConfigAssumption
  <2>4. Floor(u) \in Nat
    BY FloorNat
  <2> QED BY <2>3, <2>4 DEF wrapEnvelope, Entry, Kinds, NoEntry
<1> QED BY <1>1, <1>2

LEMMA AsOfTyped ==
  ASSUME NEW e \in Entry(Nat), NEW t \in Nat
  PROVE  /\ AsOf(e, t) \in Entry(Nat) /\ AsOf(e, t).at = t
         /\ AsOf(e, t).kind = e.kind /\ AsOf(e, t).ok = e.ok /\ AsOf(e, t).freshUntil = e.freshUntil
BY DEF AsOf, Entry

-----------------------------------------------------------------------------
(* What a step does to the call record o of the caller that takes it.      *)
Carries(o, n) == n.keys = o.keys /\ n.ttl = o.ttl /\ n.start = o.start

Clean(n) ==
  /\ \A k \in Keys : n.raw[k] = NoEntry /\ n.vals[k] = NoEntry
  /\ n.missing = <<>> /\ n.negs = {}

StartsOver(o, n) ==
  /\ Clean(n) /\ n.next = 1 /\ \A k \in Keys : n.result[k] = 0
  /\ \/ n.pc = "idle" /\ n.out \in {"none", "error"} /\ n.start = 0
     \/ n.pc = "read" /\ n.out = "none" /\ n.start = now /\ n.ttl \in TTLs

Reads(o, n) ==
  /\ Carries(o, n) /\ o.pc = "read" /\ n.out = o.out /\ n.batched = o.batched
  /\ \/ n.pc = "read" /\ ~o.batched
     \/ n.pc = "scan" /\ (n.next = 1 \/ (o.batched /\ n.next = o.next))
  /\ n.result = o.result /\ n.missing = o.missing /\ n.vals = o.vals /\ n.negs = o.negs
  /\ \A k \in Keys : n.raw[k] \in {o.raw[k], NoEntry, store[k].entry}

Bad(e) == e.kind # "none" /\ ~isNegativeEntry(e) /\ ~Decodes(e)

Scans(o, n, k) ==
  /\ Carries(o, n) /\ o.pc = "scan" /\ n.pc = "scan" /\ n.out = o.out
  /\ o.next \in DOMAIN o.keys /\ o.keys[o.next] = k /\ n.next = o.next + 1
  /\ n.vals = o.vals /\ n.negs = o.negs
  /\ \A j \in Keys : n.raw[j] = IF j = k THEN NoEntry ELSE o.raw[j]
  /\ \A j \in Keys : n.result[j] = IF j = k /\ Decodes(o.raw[k]) THEN o.raw[k].at ELSE o.result[j]
  /\ Range(o.missing) \subseteq Range(n.missing)
  /\ o.raw[k].kind = "none" \/ Bad(o.raw[k]) => k \in Range(n.missing)

Asks(o, n) ==
  /\ Carries(o, n) /\ o.pc = "scan" /\ n.pc = "load" /\ n.out = o.out
  /\ o.next > Len(o.keys)
  /\ n.raw = o.raw /\ n.result = o.result /\ n.missing = o.missing
  /\ n.vals = o.vals /\ n.negs = o.negs

Ends(o, n) ==
  /\ Carries(o, n) /\ Clean(n) /\ n.pc = "idle" /\ n.out = "ok" /\ n.result = o.result
  /\ o.pc = "negs" \/ (o.pc = "scan" /\ o.next > Len(o.keys) /\ o.missing = <<>>)

Looks(o, n) ==
  /\ Carries(o, n) /\ o.pc = "load" /\ n.pc = "loading" /\ n.out = o.out
  /\ n.raw = o.raw /\ n.result = o.result /\ n.missing = o.missing
  /\ n.vals = o.vals /\ n.negs = o.negs /\ n.readAt = now
  /\ n.found = {k \in Range(o.missing) : created[k] # 0}

Loads(o, n) ==
  /\ Carries(o, n) /\ o.pc = "loading" /\ n.pc = "vals" /\ n.out = o.out
  /\ n.raw = o.raw /\ n.missing = <<>> /\ n.readAt = o.readAt
  /\ \A k \in Keys : n.result[k] = IF k \in o.found THEN o.readAt ELSE o.result[k]
  /\ \A k \in n.negs : k \in Range(o.missing) /\ k \notin o.found
  /\ n.negs # {} => NegativeTTL > 0
  /\ PackedAt(n, now)

Writes(o, n) ==
  /\ Carries(o, n) /\ n.out = o.out /\ n.raw = o.raw /\ n.result = o.result /\ n.missing = o.missing
  /\ n.storeTTL = o.storeTTL /\ n.readAt = o.readAt
  /\ o.pc \in {"vals", "negs"} /\ n.pc \in {o.pc, "negs"}
  /\ n.pc # o.pc => \A k \in Keys : n.vals[k] = NoEntry
  /\ \A k \in Keys : n.vals[k] \in {o.vals[k], NoEntry}
  /\ n.negs \subseteq o.negs

Moves(o, n) ==
  \/ StartsOver(o, n) \/ Reads(o, n) \/ (\E k \in Keys : Scans(o, n, k)) \/ Asks(o, n)
  \/ Ends(o, n) \/ Looks(o, n) \/ Loads(o, n) \/ Writes(o, n)

(* What a step does to the item at a key.                                  *)
Put(o, k, item) ==
  \/ o.pc = "vals" /\ o.vals[k] # NoEntry /\ item \in writtenItem(o.vals[k], o.storeTTL, now)
  \/ o.pc = "negs" /\ k \in o.negs /\ item \in writtenItem(negativeMarker(o.readAt), NegativeTTL, now)

Changes(k) ==
  \/ store'[k] = store[k] \/ store'[k] = NoItem
  \/ store'[k] \in writtenItem(Garbage, 0, now)
  \/ \E c \in Callers : Put(call[c], k, store'[k])

Acts(c) ==
  /\ \E n \in CallRecord : call' = [call EXCEPT ![c] = n] /\ Moves(call[c], n)
  /\ store' \in [Keys -> Item(Nat)] /\ \A k \in Keys : Changes(k)
  /\ UNCHANGED <<now, created>>

LEMMA Typed ==
  ASSUME TypeOK, NEW c \in Callers
  PROVE  /\ call \in [Callers -> CallRecord] /\ call[c] \in CallRecord
         /\ now \in Nat /\ store \in [Keys -> Item(Nat)] /\ created \in [Keys -> Nat]
         /\ call[c].keys \in Seq(Keys) /\ call[c].missing \in Seq(Keys)
BY DEF TypeOK, CallRecord

LEMMA IdleTyped ==
  ASSUME NEW out \in {"none", "ok", "error"}
  PROVE  /\ Idle(out) \in CallRecord /\ Clean(Idle(out)) /\ Idle(out).pc = "idle"
         /\ Idle(out).out = out /\ Idle(out).start = 0 /\ Idle(out).next = 1
         /\ \A k \in Keys : Idle(out).result[k] = 0
BY NoEntryTyped DEF Idle, CallRecord, Clean

LEMMA BeginActs ==
  ASSUME TypeOK, NEW c \in Callers, NEW keys \in KeyLists, NEW ttl \in TTLs, NEW batched \in Batched,
         Begin(c, keys, ttl, batched)
  PROVE  Acts(c)
<1> DEFINE n == [Idle("none") EXCEPT !.pc = "read", !.batched = batched, !.keys = uniq(keys),
                                     !.ttl = ttl, !.start = now]
<1>1. call' = [call EXCEPT ![c] = n] /\ UNCHANGED <<now, store, created>>
  BY DEF Begin
<1>2. uniq(keys) \in Seq(Keys) /\ batched \in BOOLEAN /\ now \in Nat
  BY uniqTyped, ManyAssumption, Typed
<1>3. n \in CallRecord
  BY <1>2, IdleTyped DEF CallRecord
<1>4. StartsOver(call[c], n)
  BY IdleTyped DEF StartsOver, Clean, Idle
<1> HIDE DEF n
<1> QED BY <1>1, <1>3, <1>4, Typed DEF Acts, Moves, Changes

LEMMA LoaderFailsActs == ASSUME TypeOK, NEW c \in Callers, LoaderFails(c) PROVE Acts(c)
<1>1. call' = [call EXCEPT ![c] = Idle("error")] /\ UNCHANGED <<now, store, created>>
  BY DEF LoaderFails
<1>2. StartsOver(call[c], Idle("error")) /\ Idle("error") \in CallRecord
  BY IdleTyped DEF StartsOver
<1> QED BY <1>1, <1>2, Typed DEF Acts, Moves, Changes

LEMMA GetManyActs == ASSUME TypeOK, NEW c \in Callers, GetMany(c) PROVE Acts(c)
<1>0. /\ call \in [Callers -> CallRecord] /\ call[c] \in CallRecord /\ store \in [Keys -> Item(Nat)]
      /\ call[c].pc = "read" /\ call[c].batched /\ UNCHANGED <<now, store, created>>
  BY Typed DEF GetMany
<1>1. PICK ok \in BOOLEAN :
        call' = [call EXCEPT ![c].pc = "scan",
          ![c].raw = [k \in Keys |-> IF ok /\ k \in Range(call[c].keys) THEN store[k].entry
                                     ELSE NoEntry]]
  BY DEF GetMany
<1> DEFINE raw == [k \in Keys |-> IF ok /\ k \in Range(call[c].keys) THEN store[k].entry ELSE NoEntry]
           n == [call[c] EXCEPT !.pc = "scan", !.raw = raw]
<1>2. raw \in [Keys -> Entry(Nat)] /\ \A k \in Keys : raw[k] \in {NoEntry, store[k].entry}
  BY <1>0, NoEntryTyped DEF Item
<1>3. call' = [call EXCEPT ![c].pc = "scan", ![c].raw = raw]
  BY <1>1
<1> HIDE DEF raw
<1>4. call' = [call EXCEPT ![c] = n]
  BY <1>0, <1>3
<1>5. n \in CallRecord
  BY <1>0, <1>2 DEF CallRecord
<1>6. Reads(call[c], n)
  BY <1>0, <1>2 DEF CallRecord, Reads, Carries
<1> HIDE DEF n
<1> QED BY <1>0, <1>4, <1>5, <1>6 DEF Acts, Moves, Changes

LEMMA GetActs == ASSUME TypeOK, NEW c \in Callers, Get(c) PROVE Acts(c)
<1>0. /\ call \in [Callers -> CallRecord] /\ call[c] \in CallRecord /\ store \in [Keys -> Item(Nat)]
      /\ call[c].keys \in Seq(Keys) /\ call[c].next \in Nat \ {0}
      /\ call[c].pc = "read" /\ ~call[c].batched /\ UNCHANGED <<now, store, created>>
  BY Typed DEF Get, CallRecord
<1>1. CASE call[c].next > Len(call[c].keys)
  <2> DEFINE n == [call[c] EXCEPT !.pc = "scan", !.next = 1]
  <2>1. call' = [call EXCEPT ![c] = n]
    BY <1>0, <1>1 DEF Get
  <2>2. n \in CallRecord
    <3>1. 1 \in Nat \ {0}
      OBVIOUS
    <3> QED BY <1>0, <3>1 DEF CallRecord
  <2>3. Reads(call[c], n)
    BY <1>0 DEF CallRecord, Reads, Carries
  <2> HIDE DEF n
  <2> QED BY <1>0, <2>1, <2>2, <2>3 DEF Acts, Moves, Changes
<1>2. CASE ~(call[c].next > Len(call[c].keys))
  <2> DEFINE k == call[c].keys[call[c].next]
  <2>1. k \in Keys
    BY <1>0, <1>2
  <2>2. PICK e \in {NoEntry, store[k].entry} :
          call' = [call EXCEPT ![c].next = call[c].next + 1, ![c].raw[k] = e]
    BY <1>2 DEF Get
  <2> HIDE DEF k
  <2>3. e \in Entry(Nat)
    BY <1>0, <2>1, NoEntryTyped DEF Item
  <2> DEFINE raw == [call[c].raw EXCEPT ![k] = e]
             n == [call[c] EXCEPT !.next = call[c].next + 1, !.raw = raw]
  <2>4. raw \in [Keys -> Entry(Nat)] /\ \A j \in Keys : raw[j] \in {call[c].raw[j], NoEntry, store[j].entry}
    BY <1>0, <2>1, <2>2, <2>3 DEF CallRecord
  <2>5. call' = [call EXCEPT ![c].next = call[c].next + 1, ![c].raw = raw]
    BY <1>0, <2>2 DEF CallRecord
  <2> HIDE DEF raw
  <2>6. call' = [call EXCEPT ![c] = n]
    BY <1>0, <2>5
  <2>7. n \in CallRecord
    <3>1. call[c].next + 1 \in Nat \ {0}
      BY <1>0
    <3> QED BY <1>0, <2>4, <3>1 DEF CallRecord
  <2>8. /\ n.keys = call[c].keys /\ n.ttl = call[c].ttl /\ n.start = call[c].start /\ n.pc = "read"
        /\ n.out = call[c].out /\ n.batched = call[c].batched /\ n.result = call[c].result
        /\ n.missing = call[c].missing /\ n.vals = call[c].vals /\ n.negs = call[c].negs /\ n.raw = raw
    BY <1>0 DEF CallRecord
  <2> HIDE DEF n
  <2>9. Reads(call[c], n)
    BY <1>0, <2>4, <2>8 DEF Reads, Carries
  <2> QED BY <1>0, <2>6, <2>7, <2>9 DEF Acts, Moves, Changes
<1> QED BY <1>1, <1>2

LEMMA ScanActs == ASSUME TypeOK, NEW c \in Callers, Scan(c) PROVE Acts(c)
<1>0. /\ call \in [Callers -> CallRecord] /\ call[c] \in CallRecord /\ store \in [Keys -> Item(Nat)]
      /\ call[c].keys \in Seq(Keys) /\ call[c].missing \in Seq(Keys) /\ call[c].next \in Nat \ {0}
      /\ call[c].pc = "scan" /\ call[c].next <= Len(call[c].keys) /\ UNCHANGED <<now, created>>
  BY Typed DEF Scan, CallRecord
<1> DEFINE o == call[c]
           k == o.keys[o.next]
           e == o.raw[k]
           missing == IF e.kind = "none" \/ Bad(e) THEN Append(o.missing, k) ELSE o.missing
           result == [o.result EXCEPT ![k] = IF Decodes(e) THEN e.at ELSE @]
           raw == [o.raw EXCEPT ![k] = NoEntry]
           n == [o EXCEPT !.next = @ + 1, !.missing = missing, !.result = result, !.raw = raw]
<1>1. k \in Keys /\ o.next \in DOMAIN o.keys
  BY <1>0
<1>2. e \in Entry(Nat) /\ e.at \in Nat
  BY <1>0, <1>1 DEF CallRecord, Entry
<1>3. missing \in Seq(Keys) /\ Range(o.missing) \subseteq Range(missing)
      /\ (e.kind = "none" \/ Bad(e) => k \in Range(missing))
  <2>1. Append(o.missing, k) \in Seq(Keys) /\ Range(o.missing) \subseteq Range(Append(o.missing, k))
        /\ k \in Range(Append(o.missing, k))
    <3> DEFINE a == Append(o.missing, k)
    <3>1. /\ a \in Seq(Keys) /\ DOMAIN a = 1..(Len(o.missing) + 1) /\ a[Len(o.missing) + 1] = k
          /\ DOMAIN o.missing = 1..Len(o.missing) /\ Len(o.missing) \in Nat
          /\ \A i \in 1..Len(o.missing) : a[i] = o.missing[i]
      BY <1>0, <1>1
    <3> QED BY <3>1 DEF Range
  <2> QED BY <1>0, <2>1
<1>4. result \in [Keys -> Nat] /\ \A j \in Keys : result[j] = IF j = k /\ Decodes(e) THEN e.at ELSE o.result[j]
  BY <1>0, <1>1, <1>2 DEF CallRecord
<1>5. raw \in [Keys -> Entry(Nat)] /\ \A j \in Keys : raw[j] = IF j = k THEN NoEntry ELSE o.raw[j]
  BY <1>0, <1>1, NoEntryTyped DEF CallRecord
<1>6. call' = [call EXCEPT ![c].next = @ + 1, ![c].missing = missing, ![c].result = result, ![c].raw = raw]
  <2>1. call' = [call EXCEPT ![c].next = @ + 1, ![c].missing = missing,
                             ![c].result[k] = IF Decodes(e) THEN e.at ELSE @, ![c].raw[k] = NoEntry]
    BY <1>0 DEF Scan, Bad
  <2> HIDE DEF missing, e, k
  <2> QED BY <1>0, <2>1 DEF CallRecord
<1>7. \A j \in Keys : store'[j] = store[j] \/ store'[j] = NoItem
  BY <1>0, <1>1 DEF Scan
<1>8. store' \in [Keys -> Item(Nat)]
  BY <1>0, <1>1, NoEntryTyped DEF Scan
<1> HIDE DEF missing, result, raw
<1>9. call' = [call EXCEPT ![c] = n]
  BY <1>0, <1>6
<1>10. n \in CallRecord
  <2>1. o.next + 1 \in Nat \ {0}
    BY <1>0
  <2> QED BY <1>0, <1>3, <1>4, <1>5, <2>1 DEF CallRecord
<1>11. /\ n.keys = o.keys /\ n.ttl = o.ttl /\ n.start = o.start /\ n.pc = o.pc /\ n.out = o.out
       /\ n.vals = o.vals /\ n.negs = o.negs /\ n.next = o.next + 1
       /\ n.missing = missing /\ n.result = result /\ n.raw = raw
  BY <1>0 DEF CallRecord
<1> HIDE DEF n
<1>12. Scans(o, n, k)
  BY <1>0, <1>1, <1>3, <1>4, <1>5, <1>11 DEF Scans, Carries
<1> QED BY <1>0, <1>1, <1>7, <1>8, <1>9, <1>10, <1>12 DEF Acts, Moves, Changes

LEMMA DoneEnds ==
  ASSUME NEW c \in Callers, call[c] \in CallRecord,
         \/ call[c].pc = "negs"
         \/ call[c].pc = "scan" /\ call[c].next > Len(call[c].keys) /\ call[c].missing = <<>>
  PROVE  Done(c) \in CallRecord /\ Ends(call[c], Done(c))
<1>1. Idle("ok") \in CallRecord /\ Clean(Idle("ok")) /\ Idle("ok").pc = "idle" /\ Idle("ok").out = "ok"
  BY IdleTyped
<1>2. Done(c) \in CallRecord
  BY <1>1 DEF Done, CallRecord
<1>3. /\ Done(c).raw = Idle("ok").raw /\ Done(c).vals = Idle("ok").vals /\ Done(c).pc = "idle"
      /\ Done(c).missing = Idle("ok").missing /\ Done(c).negs = Idle("ok").negs /\ Done(c).out = "ok"
      /\ Done(c).keys = call[c].keys /\ Done(c).ttl = call[c].ttl /\ Done(c).start = call[c].start
      /\ Done(c).result = call[c].result
  BY <1>1 DEF Done, CallRecord
<1>4. Ends(call[c], Done(c))
  BY <1>1, <1>3 DEF Ends, Carries, Clean
<1> QED BY <1>2, <1>4

LEMMA MissingActs == ASSUME TypeOK, NEW c \in Callers, Missing(c) PROVE Acts(c)
<1>0. /\ call \in [Callers -> CallRecord] /\ call[c] \in CallRecord /\ store \in [Keys -> Item(Nat)]
      /\ call[c].pc = "scan" /\ call[c].next > Len(call[c].keys) /\ UNCHANGED <<now, store, created>>
  BY Typed DEF Missing
<1>1. CASE call[c].missing = <<>>
  <2>1. call' = [call EXCEPT ![c] = Done(c)]
    BY <1>0, <1>1 DEF Missing
  <2>2. Done(c) \in CallRecord /\ Ends(call[c], Done(c))
    BY <1>0, <1>1, DoneEnds
  <2> QED BY <1>0, <2>1, <2>2 DEF Acts, Moves, Changes
<1>2. CASE call[c].missing # <<>>
  <2> DEFINE n == [call[c] EXCEPT !.pc = "load"]
  <2>1. call' = [call EXCEPT ![c] = n]
    BY <1>0, <1>2 DEF Missing
  <2>2. n \in CallRecord
    BY <1>0 DEF CallRecord
  <2>3. Asks(call[c], n)
    BY <1>0 DEF CallRecord, Asks, Carries
  <2> HIDE DEF n
  <2> QED BY <1>0, <2>1, <2>2, <2>3 DEF Acts, Moves, Changes
<1> QED BY <1>1, <1>2

(* The one TTL of a batch is that of one of its packed values.             *)
LEMMA StoreTTLOfPacked ==
  ASSUME NEW c \in Callers, call[c].missing \in Seq(Keys), NEW packed,
         DOMAIN packed \subseteq Range(call[c].missing), DOMAIN packed # {}
  PROVE  \E k \in DOMAIN packed : storeTTL(c, packed) = packed[k].ttl
<1> DEFINE missing == call[c].missing
           kept == {i \in DOMAIN missing : missing[i] \in DOMAIN packed}
<1>1. PICK k \in DOMAIN packed : TRUE
  OBVIOUS
<1>2. PICK i \in DOMAIN missing : missing[i] = k
  BY <1>1 DEF Range
<1>3. kept # {} /\ kept \subseteq 1..Len(missing) /\ Len(missing) \in Nat
  BY <1>1, <1>2
<1>4. Max(kept) \in kept
  BY <1>3, GreatestNat
<1>5. missing[Max(kept)] \in DOMAIN packed
  BY <1>4
<1>6. storeTTL(c, packed) = packed[missing[Max(kept)]].ttl
  BY <1>3 DEF storeTTL
<1> QED BY <1>5, <1>6

LEMMA LoaderReadsActs == ASSUME TypeOK, NEW c \in Callers, LoaderReads(c) PROVE Acts(c)
<1> DEFINE o == call[c]
           found == {k \in Range(o.missing) : created[k] # 0}
           n == [o EXCEPT !.pc = "loading", !.readAt = now, !.found = found]
<1>0. /\ call \in [Callers -> CallRecord] /\ o \in CallRecord /\ store \in [Keys -> Item(Nat)]
      /\ o.missing \in Seq(Keys) /\ now \in Nat /\ o.pc = "load" /\ UNCHANGED <<now, store, created>>
  BY Typed DEF LoaderReads
<1>1. found \in SUBSET Keys
  BY <1>0 DEF Range
<1>2. call' = [call EXCEPT ![c].pc = "loading", ![c].readAt = now, ![c].found = found]
  BY DEF LoaderReads
<1> HIDE DEF found
<1>3. call' = [call EXCEPT ![c] = n]
  BY <1>0, <1>2
<1>4. n \in CallRecord
  BY <1>0, <1>1 DEF CallRecord
<1>5. /\ n.keys = o.keys /\ n.ttl = o.ttl /\ n.start = o.start /\ n.pc = "loading" /\ n.out = o.out
      /\ n.vals = o.vals /\ n.negs = o.negs /\ n.missing = o.missing /\ n.result = o.result
      /\ n.raw = o.raw /\ n.readAt = now /\ n.found = found
  BY <1>0 DEF CallRecord
<1> HIDE DEF n
<1>6. Looks(o, n)
  BY <1>0, <1>5 DEF Looks, Carries, found
<1> QED BY <1>0, <1>3, <1>4, <1>6 DEF Acts, Moves, Changes

LEMMA LoaderReturnsActs ==
  ASSUME TypeOK, NEW c \in Callers, Begun(call[c]), LoaderReturns(c)
  PROVE  Acts(c)
<1> DEFINE o == call[c]
           missing == Range(o.missing)
           loaded == o.found
           readAt == o.readAt
<1>0. /\ call \in [Callers -> CallRecord] /\ o \in CallRecord /\ store \in [Keys -> Item(Nat)]
      /\ o.missing \in Seq(Keys) /\ now \in Nat /\ o.ttl \in Nat /\ readAt \in Nat
      /\ o.pc = "loading" /\ UNCHANGED <<now, store, created>>
  <2>1. o.ttl \in TTLs \cup {0} /\ readAt \in Nat
    BY Typed DEF CallRecord
  <2> QED BY <2>1, Typed, TTLsNat DEF LoaderReturns
<1>1. missing \subseteq Keys /\ loaded \subseteq missing
  BY <1>0 DEF Range, Begun
<1>20. PICK failed \in SUBSET loaded : \E packed \in [loaded \ failed -> packForStore(o.ttl, now)] :
          call' = [call EXCEPT
            ![c].pc = "vals",
            ![c].result = [k \in Keys |-> IF k \in loaded THEN readAt ELSE @[k]],
            ![c].vals = [k \in Keys |-> IF k \in DOMAIN packed
                                        THEN AsOf(packed[k].entry, readAt) ELSE NoEntry],
            ![c].negs = IF NegativeTTL > 0 THEN missing \ loaded ELSE {},
            ![c].storeTTL = storeTTL(c, packed),
            ![c].missing = <<>>,
            ![c].found = {}]
  BY DEF LoaderReturns
<1>2. PICK packed \in [loaded \ failed -> packForStore(o.ttl, now)] :
          call' = [call EXCEPT
            ![c].pc = "vals",
            ![c].result = [k \in Keys |-> IF k \in loaded THEN readAt ELSE @[k]],
            ![c].vals = [k \in Keys |-> IF k \in DOMAIN packed
                                        THEN AsOf(packed[k].entry, readAt) ELSE NoEntry],
            ![c].negs = IF NegativeTTL > 0 THEN missing \ loaded ELSE {},
            ![c].storeTTL = storeTTL(c, packed),
            ![c].missing = <<>>,
            ![c].found = {}]
  BY <1>20
<1> DEFINE result == [k \in Keys |-> IF k \in loaded THEN readAt ELSE o.result[k]]
           vals == [k \in Keys |-> IF k \in DOMAIN packed THEN AsOf(packed[k].entry, readAt)
                                   ELSE NoEntry]
           negs == IF NegativeTTL > 0 THEN missing \ loaded ELSE {}
           ttl == storeTTL(c, packed)
           n == [o EXCEPT !.pc = "vals", !.result = result, !.vals = vals, !.negs = negs,
                          !.storeTTL = ttl, !.missing = <<>>, !.found = {}]
<1>3. DOMAIN packed \subseteq loaded /\ \A k \in DOMAIN packed : packed[k] \in packForStore(o.ttl, now)
  OBVIOUS
<1>4. result \in [Keys -> Nat]
      /\ \A k \in Keys : result[k] = IF k \in loaded THEN readAt ELSE o.result[k]
  BY <1>0 DEF CallRecord
<1>5. vals \in [Keys -> Entry(Nat)]
      /\ \A k \in Keys : vals[k] # NoEntry => k \in DOMAIN packed
                                               /\ vals[k] = AsOf(packed[k].entry, readAt)
  <2>1. \A k \in DOMAIN packed : AsOf(packed[k].entry, readAt) \in Entry(Nat)
    BY <1>0, <1>3, PackFrom, AsOfTyped
  <2> QED BY <1>1, <1>3, <2>1, NoEntryTyped
<1>6. /\ negs \in SUBSET Keys /\ (negs # {} => NegativeTTL > 0)
      /\ \A k \in negs : k \in missing /\ k \notin loaded
  BY <1>1
<1>7. DOMAIN packed # {} => \E k \in DOMAIN packed : ttl = packed[k].ttl
  BY <1>0, <1>1, <1>3, StoreTTLOfPacked
<1>8. ttl \in Nat
  <2>1. CASE DOMAIN packed = {}
    BY <1>0, <2>1 DEF storeTTL
  <2>2. CASE DOMAIN packed # {}
    BY <1>0, <1>3, <1>7, <2>2, PackFrom
  <2> QED BY <2>1, <2>2
<1>9. call' = [call EXCEPT ![c].pc = "vals", ![c].result = result, ![c].vals = vals, ![c].negs = negs,
                          ![c].storeTTL = ttl, ![c].missing = <<>>, ![c].found = {}]
  BY <1>0, <1>2 DEF CallRecord
<1>10. (\A k \in Keys : vals[k] # NoEntry =>
           \E p \in packForStore(o.ttl, now) : vals[k] = AsOf(p.entry, readAt))
       /\ ((\E k \in Keys : vals[k] # NoEntry) => \E p \in packForStore(o.ttl, now) : ttl = p.ttl)
  <2>1. ASSUME NEW k \in Keys, vals[k] # NoEntry
        PROVE  \E p \in packForStore(o.ttl, now) : vals[k] = AsOf(p.entry, readAt)
    BY <1>3, <1>5, <2>1
  <2>2. ASSUME NEW k \in Keys, vals[k] # NoEntry PROVE \E p \in packForStore(o.ttl, now) : ttl = p.ttl
    BY <1>3, <1>5, <1>7, <2>2
  <2> QED BY <2>1, <2>2
<1> HIDE DEF result, vals, negs, ttl
<1>11. call' = [call EXCEPT ![c] = n]
  BY <1>0, <1>9
<1>12. n \in CallRecord
  <2>1. <<>> \in Seq(Keys)
    OBVIOUS
  <2> QED BY <1>0, <1>4, <1>5, <1>6, <1>8, <2>1 DEF CallRecord
<1>13. /\ n.keys = o.keys /\ n.ttl = o.ttl /\ n.start = o.start /\ n.pc = "vals" /\ n.out = o.out
       /\ n.vals = vals /\ n.negs = negs /\ n.missing = <<>> /\ n.result = result /\ n.raw = o.raw
       /\ n.storeTTL = ttl /\ n.readAt = o.readAt
  BY <1>0 DEF CallRecord
<1> HIDE DEF n
<1>14. PackedAt(n, now)
  BY <1>10, <1>13 DEF PackedAt
<1>15. Loads(o, n)
  BY <1>0, <1>4, <1>6, <1>13, <1>14 DEF Loads, Carries
<1> QED BY <1>0, <1>11, <1>12, <1>15 DEF Acts, Moves, Changes

-----------------------------------------------------------------------------
(* SetMany replaces items of its part only.                                *)
LEMMA SetManyPuts ==
  ASSUME TypeOK, NEW part \in SUBSET Keys, NEW items, DOMAIN items = part,
         \A k \in part : items[k] \in Entry(Nat), NEW ttl \in Nat, SetMany(items, ttl)
  PROVE  /\ store' \in [Keys -> Item(Nat)]
         /\ \A k \in Keys : \/ store'[k] = store[k]
                            \/ k \in part /\ store'[k] \in writtenItem(items[k], ttl, now)
<1>1. now \in Nat /\ store \in [Keys -> Item(Nat)]
  BY DEF TypeOK
<1>2. PICK written \in SUBSET part : \E fresh :
        /\ \A k \in written : fresh[k] \in writtenItem(items[k], ttl, now)
        /\ store' = [k \in Keys |-> IF k \in written THEN fresh[k] ELSE store[k]]
  BY DEF SetMany
<1>20. PICK fresh :
        /\ \A k \in written : fresh[k] \in writtenItem(items[k], ttl, now)
        /\ store' = [k \in Keys |-> IF k \in written THEN fresh[k] ELSE store[k]]
  BY <1>2
<1>3. \A k \in written : fresh[k] \in Item(Nat)
  BY <1>1, <1>20, NewItemFrom
<1> QED BY <1>1, <1>20, <1>3

LEMMA PortionOf ==
  ASSUME NEW c, NEW keys, NEW part \in Portions(c, keys)
  PROVE  part \subseteq keys
BY DEF Portions

LEMMA WriteValsActs == ASSUME TypeOK, NEW c \in Callers, WriteVals(c) PROVE Acts(c)
<1> DEFINE o == call[c]
           left == {k \in Keys : o.vals[k] # NoEntry}
<1>0. /\ call \in [Callers -> CallRecord] /\ o \in CallRecord /\ o.storeTTL \in Nat
      /\ o.pc = "vals" /\ UNCHANGED <<now, created>>
  BY Typed DEF WriteVals, CallRecord
<1>1. PICK part \in Portions(c, left) :
        /\ SetMany([k \in part |-> o.vals[k]], o.storeTTL)
        /\ call' = [call EXCEPT ![c].pc = IF part = left THEN "negs" ELSE @,
                                ![c].vals = [k \in Keys |-> IF k \in part THEN NoEntry ELSE @[k]]]
  BY DEF WriteVals
<1>2. part \subseteq left /\ part \in SUBSET Keys
  BY PortionOf
<1> DEFINE items == [k \in part |-> o.vals[k]]
<1>3. DOMAIN items = part /\ (\A k \in part : items[k] = o.vals[k] /\ items[k] \in Entry(Nat))
      /\ SetMany(items, o.storeTTL)
  BY <1>0, <1>1, <1>2 DEF CallRecord
<1> HIDE DEF items
<1>4. /\ store' \in [Keys -> Item(Nat)]
      /\ \A k \in Keys : \/ store'[k] = store[k]
                         \/ k \in part /\ store'[k] \in writtenItem(items[k], o.storeTTL, now)
  BY <1>0, <1>2, <1>3, SetManyPuts
<1>5. \A k \in Keys : Changes(k)
  BY <1>0, <1>2, <1>3, <1>4 DEF Changes, Put
<1> DEFINE vals == [k \in Keys |-> IF k \in part THEN NoEntry ELSE o.vals[k]]
           pc == IF part = left THEN "negs" ELSE o.pc
           n == [o EXCEPT !.pc = pc, !.vals = vals]
<1>6. /\ vals \in [Keys -> Entry(Nat)] /\ \A k \in Keys : vals[k] \in {o.vals[k], NoEntry}
      /\ pc # o.pc => \A k \in Keys : vals[k] = NoEntry
  BY <1>0, NoEntryTyped DEF CallRecord
<1>7. pc \in {"vals", "negs"} /\ pc \in {o.pc, "negs"}
  BY <1>0
<1>8. call' = [call EXCEPT ![c].pc = pc, ![c].vals = vals]
  BY <1>0, <1>1 DEF CallRecord
<1> HIDE DEF vals, pc
<1>9. call' = [call EXCEPT ![c] = n]
  BY <1>0, <1>8
<1>10. n \in CallRecord
  BY <1>0, <1>6, <1>7 DEF CallRecord
<1>11. /\ n.keys = o.keys /\ n.ttl = o.ttl /\ n.start = o.start /\ n.out = o.out /\ n.raw = o.raw
       /\ n.result = o.result /\ n.missing = o.missing /\ n.storeTTL = o.storeTTL
       /\ n.readAt = o.readAt /\ n.negs = o.negs /\ n.pc = pc /\ n.vals = vals
  BY <1>0 DEF CallRecord
<1> HIDE DEF n
<1>12. Writes(o, n)
  BY <1>0, <1>6, <1>7, <1>11 DEF Writes, Carries
<1> QED BY <1>0, <1>4, <1>5, <1>9, <1>10, <1>12 DEF Acts, Moves

LEMMA WriteNegsActs == ASSUME TypeOK, NEW c \in Callers, WriteNegs(c) PROVE Acts(c)
<1> DEFINE o == call[c]
           marker == negativeMarker(o.readAt)
<1>0. /\ call \in [Callers -> CallRecord] /\ o \in CallRecord /\ o.readAt \in Nat
      /\ o.pc = "negs" /\ o.negs \subseteq Keys /\ NegativeTTL \in Nat /\ UNCHANGED <<now, created>>
  BY Typed, ConfigAssumption DEF WriteNegs, CallRecord
<1>1. PICK part \in Portions(c, o.negs) :
        /\ SetMany([k \in part |-> marker], NegativeTTL)
        /\ call' = [call EXCEPT ![c] = IF part = o.negs THEN Done(c) ELSE [o EXCEPT !.negs = @ \ part]]
  BY DEF WriteNegs
<1>2. part \subseteq o.negs /\ part \in SUBSET Keys
  BY <1>0, PortionOf
<1>3. marker \in Entry(Nat)
  BY <1>0 DEF negativeMarker, Entry, Kinds
<1> HIDE DEF marker
<1> DEFINE items == [k \in part |-> marker]
<1>4. DOMAIN items = part /\ (\A k \in part : items[k] = marker /\ items[k] \in Entry(Nat))
      /\ SetMany(items, NegativeTTL)
  BY <1>1, <1>3
<1> HIDE DEF items
<1>5. /\ store' \in [Keys -> Item(Nat)]
      /\ \A k \in Keys : \/ store'[k] = store[k]
                         \/ k \in part /\ store'[k] \in writtenItem(items[k], NegativeTTL, now)
  BY <1>0, <1>2, <1>4, SetManyPuts
<1>6. \A k \in Keys : Changes(k)
  BY <1>0, <1>2, <1>4, <1>5 DEF Changes, Put, marker
<1>7. CASE part = o.negs
  <2>1. call' = [call EXCEPT ![c] = Done(c)]
    BY <1>1, <1>7
  <2>2. Done(c) \in CallRecord /\ Ends(o, Done(c))
    BY <1>0, DoneEnds
  <2> QED BY <1>0, <1>5, <1>6, <2>1, <2>2 DEF Acts, Moves
<1>8. CASE part # o.negs
  <2> DEFINE n == [o EXCEPT !.negs = @ \ part]
  <2>1. call' = [call EXCEPT ![c] = n]
    BY <1>1, <1>8
  <2>2. n \in CallRecord
    BY <1>0 DEF CallRecord
  <2>3. Writes(o, n)
    BY <1>0 DEF CallRecord, Writes, Carries
  <2> HIDE DEF n
  <2> QED BY <1>0, <1>5, <1>6, <2>1, <2>2, <2>3 DEF Acts, Moves
<1> QED BY <1>7, <1>8

(* Every step is one of a caller, of the source, or of the clock and other *)
(* writers.                                                                *)
Environs ==
  /\ UNCHANGED <<created, call>> /\ store' \in [Keys -> Item(Nat)]
  /\ \/ now' = now /\ \A k \in Keys : Changes(k)
     \/ /\ now' = now + 1
        /\ \A k \in Keys : store'[k] = NoItem \/ (store'[k] = store[k] /\ Live(store[k], now + 1))
        /\ \A c \in Callers :
             call[c].pc \in {"loading", "vals", "negs"} => now < call[c].readAt + MaxLag

LEMMA Steps ==
  ASSUME TypeOK, \A c \in Callers : Begun(call[c]), [Next]_vars
  PROVE  (\E c \in Callers : Acts(c)) \/ (\E k \in Keys : SourceChanges(k)) \/ Environs
<1>0. now \in Nat /\ store \in [Keys -> Item(Nat)]
  BY DEF TypeOK
<1>1. CASE UNCHANGED vars
  BY <1>0, <1>1 DEF vars, Environs, Changes
<1>2. CASE Tick
  <2>1. store' \in [Keys -> Item(Nat)]
    BY <1>0, <1>2, NoEntryTyped DEF Tick
  <2> QED BY <1>0, <1>2, <2>1 DEF Tick, Environs
<1>3. ASSUME NEW k \in Keys, ForeignSet(k) PROVE Environs
  <2>1. PICK item \in writtenItem(Garbage, 0, now) : store' = [store EXCEPT ![k] = item]
    BY <1>3 DEF ForeignSet
  <2>2. Garbage \in Entry(Nat)
    BY DEF Garbage, Entry, Kinds
  <2>3. item \in Item(Nat)
    BY <1>0, <2>1, <2>2, NewItemFrom
  <2> QED BY <1>0, <1>3, <2>1, <2>3 DEF ForeignSet, Environs, Changes
<1>4. ASSUME NEW k \in Volatile, SourceChanges(k) PROVE \E j \in Keys : SourceChanges(j)
  BY <1>4, ManyAssumption
<1>5. ASSUME NEW c \in Callers, CallerStep(c) PROVE Acts(c)
  BY <1>5, GetManyActs, GetActs, ScanActs, MissingActs, LoaderReadsActs, LoaderFailsActs,
     LoaderReturnsActs, WriteValsActs, WriteNegsActs DEF CallerStep
<1>6. ASSUME NEW c \in Callers, NEW keys \in KeyLists, NEW ttl \in TTLs, NEW batched \in Batched,
             Begin(c, keys, ttl, batched)
      PROVE  Acts(c)
  BY <1>6, BeginActs
<1> QED BY <1>1, <1>2, <1>3, <1>4, <1>5, <1>6 DEF Next

-----------------------------------------------------------------------------
(* ManyInv is inductive.                                                   *)
LEMMA BegunMoves ==
  ASSUME TypeOK, now > 0, NEW c \in Callers, Begun(call[c]), NEW n \in CallRecord, Moves(call[c], n),
         \A k \in Keys : Held(store[k])
  PROVE  Begun(n)
<1> DEFINE o == call[c]
<1>0. now \in Nat /\ MaxLag \in Nat /\ o \in CallRecord /\ Begun(o)
  BY Typed, ManyAssumption
<1>1. CASE StartsOver(o, n)
  BY <1>0, <1>1, NoEntryTyped DEF StartsOver, Clean, Begun
<1>2. CASE Ends(o, n)
  BY <1>0, <1>2, NoEntryTyped DEF Ends, Carries, Clean, Begun
<1>3. CASE Reads(o, n)
  <2>1. \A k \in Keys : n.raw[k].ok => n.raw[k].at > 0
    BY <1>0, <1>3, NoEntryTyped DEF Reads, Held, Begun
  <2>2. n.pc \in {"read", "scan"} /\ (n.pc = "read" => ~n.batched)
    BY <1>3 DEF Reads
  <2> QED BY <1>0, <1>3, <2>1, <2>2 DEF Reads, Carries, Begun
<1>4. CASE \E k \in Keys : Scans(o, n, k)
  <2>1. \A k \in Keys : n.raw[k].ok => n.raw[k].at > 0
    BY <1>0, <1>4, NoEntryTyped DEF Scans, Begun
  <2> QED BY <1>0, <1>4, <2>1 DEF Scans, Carries, Begun
<1>5. CASE Asks(o, n)
  BY <1>0, <1>5 DEF Asks, Carries, Begun
<1>6. CASE Looks(o, n)
  BY <1>0, <1>6 DEF Looks, Carries, Begun
<1>7. CASE Loads(o, n)
  <2>1. \E t \in Nat : n.readAt <= t /\ t <= now /\ PackedAt(n, t)
    BY <1>0, <1>7 DEF Loads, Begun
  <2> QED BY <1>0, <1>7, <2>1 DEF Loads, Carries, Begun
<1>8. CASE Writes(o, n)
  <2>1. n.pc = "vals" => \E t \in Nat : n.readAt <= t /\ t <= now /\ PackedAt(n, t)
    <3> SUFFICES ASSUME n.pc = "vals" PROVE \E t \in Nat : n.readAt <= t /\ t <= now /\ PackedAt(n, t)
      OBVIOUS
    <3>1. PICK t \in Nat : o.readAt <= t /\ t <= now /\ PackedAt(o, t)
      BY <1>0, <1>8 DEF Writes, Begun
    <3>2. PackedAt(n, t)
      BY <1>8, <3>1 DEF Writes, Carries, PackedAt
    <3> QED BY <1>8, <3>1, <3>2 DEF Writes
  <2> QED BY <1>0, <1>8, <2>1 DEF Writes, Carries, Begun
<1> QED BY <1>1, <1>2, <1>3, <1>4, <1>5, <1>6, <1>7, <1>8 DEF Moves

(* What a caller puts into the store is of its call.                       *)
LEMMA PutFrom ==
  ASSUME TypeOK, NEW c \in Callers, Begun(call[c]), NEW k \in Keys, NEW item, Put(call[c], k, item)
  PROVE  \/ /\ call[c].pc = "vals" /\ call[c].vals[k] # NoEntry
            /\ item \in writtenItem(call[c].vals[k], call[c].storeTTL, now)
            /\ item.entry = call[c].vals[k] /\ item.entry \in Entry(Nat) /\ item.entry.ok
            /\ item.entry.at = call[c].readAt /\ item.entry.kind \in {"env", "plain"}
            /\ \E d \in Nat : /\ Lives(d, call[c].vals[k], call[c].storeTTL)
                              /\ item.deadline = IF d > 0 THEN now + d ELSE 0
         \/ /\ call[c].pc = "negs" /\ k \in call[c].negs
            /\ item.entry = negativeMarker(call[c].readAt)
            /\ \E d \in Nat : /\ Lives(d, item.entry, NegativeTTL)
                              /\ item.deadline = IF d > 0 THEN now + d ELSE 0
<1> DEFINE o == call[c]
<1>0. /\ now \in Nat /\ o \in CallRecord /\ o.storeTTL \in Nat /\ o.readAt \in Nat /\ o.ttl \in Nat
      /\ o.vals[k] \in Entry(Nat) /\ NegativeTTL \in Nat
  <2>1. o \in CallRecord
    BY Typed
  <2>2. o.ttl \in TTLs \cup {0}
    BY <2>1 DEF CallRecord
  <2> QED BY <2>1, <2>2, Typed, TTLsNat, ConfigAssumption DEF CallRecord
<1>1. CASE o.pc = "vals" /\ o.vals[k] # NoEntry /\ item \in writtenItem(o.vals[k], o.storeTTL, now)
  <2>1. /\ item.entry = o.vals[k]
        /\ \E d \in Nat : Lives(d, o.vals[k], o.storeTTL) /\ item.deadline = IF d > 0 THEN now + d ELSE 0
    BY <1>0, <1>1, NewItemFrom
  <2>20. PICK t \in Nat : PackedAt(o, t)
    BY <1>1 DEF Begun
  <2>2. PICK p \in packForStore(o.ttl, t) : o.vals[k] = AsOf(p.entry, o.readAt)
    BY <1>1, <2>20 DEF PackedAt
  <2>3. /\ AsOf(p.entry, o.readAt).ok /\ AsOf(p.entry, o.readAt).at = o.readAt
        /\ AsOf(p.entry, o.readAt).kind \in {"env", "plain"}
    <3>1. p.entry \in Entry(Nat) /\ p.entry.ok /\ p.entry.kind \in {"env", "plain"}
      BY <1>0, PackFrom
    <3> QED BY <1>0, <3>1, AsOfTyped
  <2> QED BY <1>0, <1>1, <2>1, <2>2, <2>3
<1>2. CASE /\ o.pc = "negs" /\ k \in o.negs
           /\ item \in writtenItem(negativeMarker(o.readAt), NegativeTTL, now)
  <2>1. negativeMarker(o.readAt) \in Entry(Nat)
    BY <1>0 DEF negativeMarker, Entry, Kinds
  <2>2. /\ item.entry = negativeMarker(o.readAt)
        /\ \E d \in Nat : /\ Lives(d, negativeMarker(o.readAt), NegativeTTL)
                          /\ item.deadline = IF d > 0 THEN now + d ELSE 0
    BY <1>0, <1>2, <2>1, NewItemFrom
  <2> QED BY <1>2, <2>2
<1> QED BY <1>1, <1>2 DEF Put

(* The same for foreign bytes.                                             *)
LEMMA GarbageFrom ==
  ASSUME now \in Nat, NEW item \in writtenItem(Garbage, 0, now)
  PROVE  /\ item.entry = Garbage /\ ~item.entry.ok /\ item.entry.kind = "plain"
         /\ item.deadline = 0 \/ now < item.deadline
<1>1. Garbage \in Entry(Nat) /\ ~Garbage.ok /\ Garbage.kind = "plain"
  BY DEF Garbage, Entry, Kinds
<1>2. /\ item.entry = Garbage
      /\ \E d \in Nat : Lives(d, Garbage, 0) /\ item.deadline = IF d > 0 THEN now + d ELSE 0
  <2>1. 0 \in Nat
    OBVIOUS
  <2> QED BY <1>1, <2>1, NewItemFrom
<1> QED BY <1>1, <1>2

LEMMA NoItemHeld == Held(NoItem)
BY NoEntryTyped DEF Held, Live, NoItem

LEMMA HeldChanges ==
  ASSUME ManyInv, NEW k \in Keys, Changes(k)
  PROVE  Held(store'[k])
<1>0. TypeOK /\ now \in Nat /\ Held(store[k]) /\ \A c \in Callers : Begun(call[c])
  BY DEF ManyInv, TypeOK
<1>1. CASE store'[k] = store[k] \/ store'[k] = NoItem
  BY <1>0, <1>1, NoItemHeld
<1>2. CASE store'[k] \in writtenItem(Garbage, 0, now)
  BY <1>0, <1>2, GarbageFrom DEF Held, Live
<1>3. ASSUME NEW c \in Callers, Put(call[c], k, store'[k]) PROVE Held(store'[k])
  <2> DEFINE item == store'[k]
  <2>1. item.deadline = 0 \/ now < item.deadline
    BY <1>0, <1>3, PutFrom
  <2>2. item.entry.ok => item.entry.at > 0
    <3>1. ~negativeMarker(call[c].readAt).ok
      BY DEF negativeMarker
    <3>2. call[c].pc = "vals" => call[c].readAt > 0
      BY <1>0 DEF Begun
    <3> QED BY <1>0, <1>3, <3>1, <3>2, PutFrom
  <2> QED BY <2>1, <2>2 DEF Held, Live
<1> QED BY <1>1, <1>2, <1>3 DEF Changes

LEMMA BegunKeeps ==
  ASSUME ManyInv, NEW c \in Callers, call'[c] = call[c],
         \/ now' = now
         \/ /\ now' = now + 1
            /\ call[c].pc \in {"loading", "vals", "negs"} => now < call[c].readAt + MaxLag
  PROVE  Begun(call[c])'
<1> DEFINE o == call[c]
<1>0. now \in Nat /\ MaxLag \in Nat /\ o \in CallRecord /\ o.start \in Nat /\ o.readAt \in Nat /\ Begun(o)
  BY ManyAssumption DEF ManyInv, TypeOK, CallRecord
<1>1. o.start <= now'
  BY <1>0 DEF Begun
<1>2. o.pc \in {"loading", "vals", "negs"} =>
        o.start <= o.readAt /\ o.readAt <= now' /\ now' <= o.readAt + MaxLag /\ o.readAt > 0
  BY <1>0 DEF Begun
<1>20. o.pc = "vals" => \E t \in Nat : o.readAt <= t /\ t <= now' /\ PackedAt(o, t)
  <2>1. ASSUME NEW t \in Nat, t <= now PROVE t <= now'
    BY <1>0, <2>1
  <2> QED BY <1>0, <2>1 DEF Begun
<1> HIDE DEF o
<1>3. call'[c] = o
  BY DEF o
<1> QED BY <1>0, <1>1, <1>2, <1>20, <1>3 DEF Begun, PackedAt

LEMMA ManyInvInductive == ManyInv /\ [Next]_vars => ManyInv'
<1> SUFFICES ASSUME ManyInv, [Next]_vars PROVE ManyInv'
  OBVIOUS
<1>0. /\ TypeOK /\ now \in Nat /\ now > 0 /\ call \in [Callers -> CallRecord] /\ created \in [Keys -> Nat]
      /\ store \in [Keys -> Item(Nat)]
      /\ (\A c \in Callers : Begun(call[c])) /\ \A k \in Keys : Held(store[k])
  BY DEF ManyInv, TypeOK
<1>1. ASSUME NEW c \in Callers, Acts(c) PROVE ManyInv'
  <2>1. PICK n \in CallRecord : call' = [call EXCEPT ![c] = n] /\ Moves(call[c], n)
    BY <1>1 DEF Acts
  <2>2. /\ store' \in [Keys -> Item(Nat)] /\ (\A k \in Keys : Changes(k)) /\ UNCHANGED <<now, created>>
    BY <1>1 DEF Acts
  <2>3. TypeOK'
    BY <1>0, <2>1, <2>2 DEF TypeOK
  <2>4. ASSUME NEW d \in Callers PROVE Begun(call[d])'
    <3>1. CASE d # c
      BY <1>0, <2>1, <2>2, <3>1, BegunKeeps
    <3>2. CASE d = c
      <4>1. Begun(n) /\ call'[d] = n
        BY <1>0, <2>1, <3>2, BegunMoves
      <4> QED BY <2>2, <4>1 DEF Begun
    <3> QED BY <3>1, <3>2
  <2>5. ASSUME NEW k \in Keys PROVE Held(store[k])'
    <3>1. Held(store'[k])
      BY <2>2, HeldChanges
    <3> QED BY <2>2, <3>1 DEF Held
  <2> QED BY <1>0, <2>2, <2>3, <2>4, <2>5 DEF ManyInv
<1>2. ASSUME NEW k \in Keys, SourceChanges(k) PROVE ManyInv'
  <2>1. UNCHANGED <<now, store, call>> /\ created' \in [Keys -> Nat]
    BY <1>0, <1>2 DEF SourceChanges
  <2>2. \A c \in Callers : Begun(call[c])'
    BY <2>1, BegunKeeps
  <2>3. \A j \in Keys : Held(store[j])'
    BY <1>0, <2>1 DEF Held
  <2> QED BY <1>0, <2>1, <2>2, <2>3 DEF ManyInv, TypeOK
<1>3. CASE Environs
  <2>1. UNCHANGED <<created, call>> /\ store' \in [Keys -> Item(Nat)] /\ now' \in Nat /\ now' > 0
    BY <1>0, <1>3 DEF Environs
  <2>2. \A c \in Callers : Begun(call[c])'
    BY <1>3, <2>1, BegunKeeps DEF Environs
  <2>3. ASSUME NEW k \in Keys PROVE Held(store[k])'
    <3>1. CASE now' = now /\ Changes(k)
      <4>1. Held(store'[k])
        BY <3>1, HeldChanges
      <4> QED BY <3>1, <4>1 DEF Held
    <3>2. CASE now' = now + 1 /\ (store'[k] = NoItem \/ (store'[k] = store[k] /\ Live(store[k], now + 1)))
      <4>1. CASE store'[k] = NoItem
        BY <4>1, NoEntryTyped DEF Held, Live, NoItem
      <4>2. CASE store'[k] = store[k] /\ Live(store[k], now + 1)
        BY <1>0, <3>2, <4>2 DEF Held
      <4> QED BY <3>2, <4>1, <4>2
    <3> QED BY <1>3, <3>1, <3>2 DEF Environs
  <2> QED BY <1>0, <2>1, <2>2, <2>3 DEF ManyInv, TypeOK
<1> QED BY <1>0, <1>1, <1>2, <1>3, Steps

LEMMA ManyInvInitially == Init => ManyInv
<1> SUFFICES ASSUME Init PROVE ManyInv
  OBVIOUS
<1>0. now \in Nat /\ now > 0
  BY ConfigAssumption DEF Init
<1>1. TypeOK
  BY <1>0, IdleTyped, NoEntryTyped, ConfigAssumption DEF Init, TypeOK
<1>2. ASSUME NEW c \in Callers PROVE Begun(call[c])
  <2>1. call[c] = Idle("none")
    BY DEF Init
  <2> QED BY <1>0, <2>1, IdleTyped, NoEntryTyped DEF Begun, Clean
<1>3. \A k \in Keys : Held(store[k])
  BY NoItemHeld DEF Init
<1> QED BY <1>0, <1>1, <1>2, <1>3 DEF ManyInv

(* The invariant of GetOrSetMany: nothing expired in the store, and the    *)
(* values a call has yet to write are those of its own load.               *)
THEOREM ManyInvariant == Spec => []ManyInv
BY ManyInvInitially, ManyInvInductive, PTL DEF Spec

(* Types: what the steps of GetOrSetManyWithCodec leave in a call and in   *)
(* the backend is of the declared types.                                   *)
THEOREM TypeCorrect == Spec => []TypeOK
<1>1. ManyInv => TypeOK
  BY DEF ManyInv
<1> QED BY <1>1, ManyInvariant, PTL

-----------------------------------------------------------------------------
(* Absence.                                                                *)
LEMMA MarkerBound == Percent(NegativeTTL, 100 + ttlJitter) \in Nat
<1>1. NegativeTTL \in Nat /\ ttlJitter \in 0..90
  BY ConfigAssumption, JitterRange
<1>2. PICK n \in Nat : n = NegativeTTL * (100 + ttlJitter)
  <2>1. NegativeTTL * (100 + ttlJitter) \in Nat
    BY <1>1
  <2> QED BY <2>1
<1> QED BY <1>2 DEF Percent

(* What a read finds: a negative marker that is still there says that the  *)
(* entity is gone for every call that has begun.                           *)
LEMMA MarkerSaysGone ==
  ASSUME ManyInv, NEW k \in Keys, Absent(k), isNegativeEntry(store[k].entry),
         NEW t \in Nat, t <= now
  PROVE  Gone(k, t)
<1> DEFINE N == Percent(NegativeTTL, 100 + ttlJitter)
           e == store[k].entry
           dl == store[k].deadline
<1>1. /\ now \in Nat /\ created[k] \in Nat /\ e.at \in Nat /\ dl \in Nat /\ MaxLag \in Nat /\ N \in Nat
      /\ Milli \in Nat \ {0}
  BY ManyAssumption, ConfigAssumption, MarkerBound DEF ManyInv, TypeOK, Item, Entry
<1>2. now < dl
  BY DEF ManyInv, Held, Live, Absent
<1>3. dl <= e.at + N + MaxLag + Milli - 1 /\ (created[k] = 0 \/ created[k] >= e.at)
  BY DEF Absent
<1> HIDE DEF N, e, dl
<1>4. created[k] = 0 \/ created[k] + N + MaxLag + Milli - 1 > t
  BY <1>1, <1>2, <1>3
<1> QED BY <1>4 DEF Gone, N

LEMMA GotLater ==
  ASSUME NEW k \in Keys, created[k] \in Nat, NEW t \in Nat, NEW u \in Nat, t <= u,
         created[k] = 0 \/ created[k] >= u
  PROVE  Gone(k, t)
<1> DEFINE N == Percent(NegativeTTL, 100 + ttlJitter)
<1>1. MaxLag \in Nat \ {0} /\ Milli \in Nat \ {0} /\ N \in Nat
  BY ManyAssumption, ConfigAssumption, MarkerBound
<1> HIDE DEF N
<1>2. created[k] = 0 \/ created[k] + N + MaxLag + Milli - 1 > t
  BY <1>1
<1> QED BY <1>2 DEF Gone, N

LEMMA AccountedMoves ==
  ASSUME AbsenceInv, NEW c \in Callers, NEW n \in CallRecord, Moves(call[c], n)
  PROVE  Accounted(n)
<1> DEFINE o == call[c]
<1>0. /\ now \in Nat /\ now > 0 /\ o \in CallRecord /\ o.start \in Nat /\ o.start <= now
      /\ o.keys \in Seq(Keys) /\ o.next \in Nat
      /\ Begun(o) /\ Accounted(o) /\ ManyInv /\ \A k \in Keys : Absent(k)
  BY DEF AbsenceInv, ManyInv, TypeOK, CallRecord, Begun
<1>1. ~isNegativeEntry(NoEntry) /\ ~NoEntry.ok
  BY DEF isNegativeEntry, NoEntry
<1>2. CASE StartsOver(o, n)
  BY <1>1, <1>2 DEF StartsOver, Clean, Accounted
<1>3. CASE Reads(o, n)
  <2>1. ASSUME NEW k \in Keys, isNegativeEntry(n.raw[k]) PROVE Gone(k, n.start)
    <3>1. n.raw[k] \in {o.raw[k], NoEntry, store[k].entry} /\ n.start = o.start
      BY <1>3 DEF Reads, Carries
    <3>2. CASE n.raw[k] = o.raw[k]
      BY <1>0, <2>1, <3>1, <3>2 DEF Accounted
    <3>3. CASE n.raw[k] = store[k].entry
      BY <1>0, <2>1, <3>1, <3>3, MarkerSaysGone
    <3> QED BY <1>1, <2>1, <3>1, <3>2, <3>3
  <2>2. n.pc = "scan" => n.next = 1
    BY <1>0, <1>3 DEF Reads, Begun
  <2>3. n.pc \in {"read", "scan"} /\ n.out = "none" /\ n.keys \in Seq(Keys)
    BY <1>0, <1>3 DEF Reads, Begun, Carries
  <2>4. \A i \in DOMAIN n.keys : ~(i < 1)
    BY <2>3
  <2> QED BY <2>1, <2>2, <2>3, <2>4 DEF Accounted
<1>4. ASSUME NEW k \in Keys, Scans(o, n, k) PROVE Accounted(n)
  <2>0. /\ Carries(o, n) /\ o.pc = "scan" /\ n.pc = "scan" /\ n.out = "none" /\ n.next = o.next + 1
        /\ o.next \in DOMAIN o.keys /\ o.keys[o.next] = k /\ n.keys = o.keys
    BY <1>0, <1>4 DEF Scans, Begun, Carries
  <2>1. \A j \in Keys : isNegativeEntry(n.raw[j]) => Gone(j, n.start)
    BY <1>0, <1>1, <1>4, <2>0 DEF Scans, Carries, Accounted
  <2>2. \A j \in Keys : o.result[j] # 0 => n.result[j] # 0
    <3>1. o.raw[k].ok => o.raw[k].at > 0
      BY <1>0, <1>4 DEF Begun
    <3>2. Decodes(o.raw[k]) => o.raw[k].at # 0
      BY <3>1 DEF Decodes
    <3>3. \A j \in Keys : n.result[j] = IF j = k /\ Decodes(o.raw[k]) THEN o.raw[k].at ELSE o.result[j]
      BY <1>4 DEF Scans
    <3> QED BY <3>2, <3>3
  <2>3. \A j \in Keys : Known(o, j) => Known(n, j)
    BY <1>4, <2>0, <2>2 DEF Known, Scans, Carries
  <2>4. Known(n, k)
    <3>1. CASE o.raw[k].kind = "none" \/ Bad(o.raw[k])
      BY <1>4, <3>1 DEF Scans, Known
    <3>2. CASE Decodes(o.raw[k])
      <4>1. o.raw[k].ok
        BY <3>2 DEF Decodes
      <4>2. o.raw[k].at > 0 /\ o.raw[k].at \in Nat
        BY <1>0, <4>1 DEF Begun, CallRecord, Entry
      <4> QED BY <1>4, <3>2, <4>2 DEF Scans, Known
    <3>3. CASE isNegativeEntry(o.raw[k])
      BY <1>0, <2>0, <3>3 DEF Accounted, Known, Carries
    <3> QED BY <3>1, <3>2, <3>3 DEF Bad
  <2>5. ASSUME NEW i \in DOMAIN n.keys, i < n.next PROVE Known(n, n.keys[i])
    <3>1. i \in Nat /\ i \in DOMAIN o.keys /\ o.keys[i] \in Keys
      BY <1>0, <2>0
    <3>2. i < o.next \/ i = o.next
      BY <1>0, <2>0, <2>5, <3>1
    <3>3. i < o.next => Known(o, o.keys[i])
      BY <1>0, <2>0, <3>1 DEF Accounted
    <3> QED BY <2>0, <2>3, <2>4, <3>1, <3>2, <3>3
  <2> QED BY <2>0, <2>1, <2>5 DEF Accounted
<1>5. ASSUME o.pc = "scan", o.next > Len(o.keys), NEW k \in Range(o.keys) PROVE Known(o, k)
  <2>1. PICK i \in DOMAIN o.keys : k = o.keys[i]
    BY <1>5 DEF Range
  <2>2. i < o.next
    BY <1>0, <1>5, <2>1
  <2> QED BY <1>0, <1>5, <2>1, <2>2 DEF Accounted
<1>6. CASE Asks(o, n)
  BY <1>0, <1>5, <1>6 DEF Asks, Carries, Accounted, Known, Begun
<1>7. CASE Ends(o, n)
  <2>1. \A k \in Range(o.keys) : Known(o, k)
    BY <1>0, <1>5, <1>7 DEF Ends, Accounted
  <2>2. o.missing = <<>>
    BY <1>0, <1>7 DEF Ends, Begun
  <2>3. \A k \in Range(n.keys) : Known(n, k)
    BY <1>7, <2>1, <2>2 DEF Ends, Carries, Clean, Known
  <2> QED BY <1>1, <1>7, <2>3 DEF Ends, Clean, Accounted
<1>80. CASE Looks(o, n)
  BY <1>0, <1>80 DEF Looks, Carries, Accounted, Known, Begun
<1>8. CASE Loads(o, n)
  <2>1. Range(o.keys) \subseteq Keys
    BY <1>0 DEF Range
  <2>3. o.readAt \in Nat /\ o.start <= o.readAt /\ o.readAt > 0 /\ created \in [Keys -> Nat]
    BY <1>0, <1>8 DEF Loads, Begun, CallRecord, ManyInv, TypeOK
  <2>4. ASSUME NEW k \in Range(o.missing), k \notin o.found
        PROVE  created[k] = 0 \/ created[k] >= o.readAt
    BY <1>0, <1>8, <2>4 DEF Loads, Accounted
  <2>2. ASSUME NEW k \in Range(o.keys) PROVE Known(n, k)
    <3>1. Known(o, k) /\ k \in Keys
      BY <1>0, <1>8, <2>1 DEF Loads, Accounted
    <3>2. n.result[k] = IF k \in o.found THEN o.readAt ELSE o.result[k]
      BY <1>8, <3>1 DEF Loads
    <3>3. n.start = o.start
      BY <1>8 DEF Loads, Carries
    <3>4. CASE k \in Range(o.missing) /\ k \notin o.found
      <4>1. created[k] \in Nat /\ (created[k] = 0 \/ created[k] >= o.readAt)
        BY <2>3, <2>4, <3>1, <3>4
      <4>2. Gone(k, o.start)
        BY <1>0, <2>3, <3>1, <4>1, GotLater
      <4> QED BY <3>3, <4>2 DEF Known
    <3>5. CASE k \in o.found
      BY <2>3, <3>2, <3>5 DEF Known
    <3>6. CASE k \notin Range(o.missing) /\ k \notin o.found
      BY <3>1, <3>2, <3>3, <3>6 DEF Known
    <3> QED BY <3>4, <3>5, <3>6
  <2>5. \A k \in n.negs : created[k] = 0 \/ created[k] >= n.readAt
    BY <1>8, <2>4 DEF Loads
  <2> QED BY <1>0, <1>8, <2>2, <2>5 DEF Loads, Carries, Accounted
<1>9. CASE Writes(o, n)
  BY <1>0, <1>9 DEF Writes, Carries, Accounted, Known, Begun
<1> QED BY <1>2, <1>3, <1>4, <1>6, <1>7, <1>80, <1>8, <1>9 DEF Moves

(* The source changes now: an entity it gets now was gone for every call   *)
(* that has begun and for every load before.                               *)
Alters == \A k \in Keys : created'[k] \in {created[k], 0, now}

LEMMA GoneKeeps ==
  ASSUME ManyInv, Alters, NEW k \in Keys, NEW t \in Nat, t <= now, Gone(k, t)
  PROVE  Gone(k, t)'
<1> DEFINE N == Percent(NegativeTTL, 100 + ttlJitter)
<1>1. now \in Nat /\ created[k] \in Nat /\ MaxLag \in Nat /\ MaxLag > 0 /\ N \in Nat
      /\ Milli \in Nat \ {0}
  BY ManyAssumption, ConfigAssumption, MarkerBound DEF ManyInv, TypeOK
<1>2. created[k] = 0 \/ created[k] + N + MaxLag + Milli - 1 > t
  BY DEF Gone
<1>3. created'[k] \in {created[k], 0, now}
  BY DEF Alters
<1> HIDE DEF N
<1>4. created'[k] = 0 \/ created'[k] + N + MaxLag + Milli - 1 > t
  BY <1>1, <1>2, <1>3
<1> QED BY <1>4 DEF Gone, N

LEMMA AccountedKeeps ==
  ASSUME ManyInv, Alters, NEW c \in Callers, NEW n \in CallRecord, Begun(n), Accounted(n), call'[c] = n
  PROVE  Accounted(call[c])'
<1>0. /\ now \in Nat /\ n.start \in Nat /\ n.start <= now /\ n.readAt \in Nat
      /\ n.keys \in Seq(Keys) /\ n.negs \subseteq Keys /\ created \in [Keys -> Nat]
      /\ n.pc \in {"loading", "vals", "negs"} => n.readAt <= now
      /\ n.missing \in Seq(Keys)
  BY DEF ManyInv, TypeOK, CallRecord, Begun
<1>1. \A k \in Keys : Gone(k, n.start) => Gone(k, n.start)'
  BY <1>0, GoneKeeps
<1>2. \A k \in Keys : Known(n, k) => Known(n, k)'
  BY <1>1 DEF Known
<1>3. Range(n.keys) \subseteq Keys /\ \A i \in DOMAIN n.keys : n.keys[i] \in Keys
  BY <1>0 DEF Range
<1>4. \A k \in Keys : isNegativeEntry(n.raw[k]) => Gone(k, n.start)'
  BY <1>1 DEF Accounted
<1>5. n.pc = "scan" => \A i \in DOMAIN n.keys : i < n.next => Known(n, n.keys[i])'
  BY <1>2, <1>3 DEF Accounted
<1>6. n.pc \in {"load", "loading", "vals", "negs"} \/ n.out = "ok" =>
        \A k \in Range(n.keys) : Known(n, k)'
  BY <1>2, <1>3 DEF Accounted
<1>60. n.pc = "loading" => \A k \in Range(n.missing) :
         k \in n.found \/ created'[k] = 0 \/ created'[k] >= n.readAt
  <2>1. Range(n.missing) \subseteq Keys
    BY <1>0 DEF Range
  <2> QED BY <1>0, <2>1 DEF Accounted, Alters
<1>7. n.pc \in {"vals", "negs"} => \A k \in n.negs : created'[k] = 0 \/ created'[k] >= n.readAt
  BY <1>0 DEF Accounted, Alters
<1>8. n.pc \in {"vals", "negs"} /\ n.negs # {} => NegativeTTL > 0
  BY DEF Accounted
<1>9. Accounted(n)'
  BY <1>4, <1>5, <1>6, <1>60, <1>7, <1>8 DEF Accounted
<1> QED BY <1>9 DEF Accounted, Known

(* A marker a call writes lives for one negative lifetime from a write     *)
(* that follows its load by at most MaxLag.                                *)
LEMMA AbsentChanges ==
  ASSUME AbsenceInv, Alters, NEW k \in Keys, Changes(k), now' = now,
         NegativeTTL > 0 => 0 \notin applyJitter(NegativeTTL)
  PROVE  Absent(k)'
<1> DEFINE N == Percent(NegativeTTL, 100 + ttlJitter)
<1>0. /\ ManyInv /\ TypeOK /\ now \in Nat /\ created[k] \in Nat /\ MaxLag \in Nat /\ N \in Nat
      /\ (\A c \in Callers : Begun(call[c]) /\ Accounted(call[c])) /\ Absent(k) /\ NegativeTTL \in Nat
      /\ store[k] \in Item(Nat) /\ Held(store[k]) /\ Milli \in Nat \ {0}
  BY ManyAssumption, ConfigAssumption, MarkerBound DEF AbsenceInv, ManyInv, TypeOK
<1>1. created'[k] \in {created[k], 0, now}
  BY DEF Alters
<1>2. CASE store'[k] = NoItem \/ store'[k] \in writtenItem(Garbage, 0, now)
  <2>1. store'[k].entry.kind # "neg"
    BY <1>0, <1>2, GarbageFrom DEF NoItem, NoEntry
  <2> QED BY <2>1 DEF Absent, isNegativeEntry
<1>3. CASE store'[k] = store[k]
  BY <1>0, <1>1, <1>3 DEF Absent, Item, Entry
<1>4. ASSUME NEW c \in Callers, Put(call[c], k, store'[k]) PROVE Absent(k)'
  <2> DEFINE item == store'[k]
             o == call[c]
  <2> SUFFICES ASSUME isNegativeEntry(item.entry)
               PROVE  /\ item.entry.at <= now /\ (created'[k] = 0 \/ created'[k] >= item.entry.at)
                      /\ item.deadline # 0 /\ item.deadline <= item.entry.at + N + MaxLag + Milli - 1
    BY DEF Absent
  <2>1. /\ o.pc = "negs" /\ k \in o.negs /\ item.entry = negativeMarker(o.readAt)
        /\ \E d \in Nat : Lives(d, item.entry, NegativeTTL) /\ item.deadline = IF d > 0 THEN now + d ELSE 0
    BY <1>0, <1>4, PutFrom DEF isNegativeEntry
  <2>2. PICK d \in Nat : Lives(d, item.entry, NegativeTTL) /\ item.deadline = IF d > 0 THEN now + d ELSE 0
    BY <2>1
  <2>3. /\ NegativeTTL > 0 /\ (created[k] = 0 \/ created[k] >= o.readAt)
        /\ o.readAt <= now /\ now <= o.readAt + MaxLag /\ o.readAt \in Nat
    BY <1>0, <2>1, Typed DEF Accounted, Begun, CallRecord
  <2>40. PICK u \in ttlFor(item.entry, NegativeTTL) :
           u \in Nat /\ (u > 0 => d > 0 /\ d \in u - (Milli - 1) .. u + (Milli - 1))
    BY <2>2 DEF Lives
  <2>4. u \in applyJitter(NegativeTTL)
    BY <1>0, <2>1, <2>3, <2>40 DEF ttlFor, hasEnvelope, negativeMarker, orDefault
  <2>5. d <= N + Milli - 1 /\ d > 0
    <3>1. u <= N
      BY <1>0, <2>4, JitterBounded
    <3>2. u # 0
      BY <2>3, <2>4
    <3> HIDE DEF N
    <3> QED BY <1>0, <2>2, <2>40, <3>1, <3>2
  <2>6. item.entry.at = o.readAt
    BY <2>1 DEF negativeMarker
  <2> HIDE DEF item, o, N
  <2> QED BY <1>0, <1>1, <2>2, <2>3, <2>5, <2>6
<1> QED BY <1>2, <1>3, <1>4 DEF Changes

LEMMA AbsenceInvInductive ==
  ASSUME NegativeTTL > 0 => 0 \notin applyJitter(NegativeTTL), AbsenceInv, [Next]_vars
  PROVE  AbsenceInv'
<1>0. /\ ManyInv /\ TypeOK /\ now \in Nat /\ now > 0 /\ call \in [Callers -> CallRecord]
      /\ created \in [Keys -> Nat] /\ \A k \in Keys : store[k] \in Item(Nat) /\ Held(store[k]) /\ Absent(k)
      /\ \A c \in Callers : Begun(call[c]) /\ Accounted(call[c])
  BY DEF AbsenceInv, ManyInv, TypeOK
<1>1. ManyInv'
  BY <1>0, ManyInvInductive
<1>2. ASSUME NEW c \in Callers, Acts(c) PROVE AbsenceInv'
  <2>1. PICK n \in CallRecord : call' = [call EXCEPT ![c] = n] /\ Moves(call[c], n)
    BY <1>2 DEF Acts
  <2>2. (\A k \in Keys : Changes(k)) /\ UNCHANGED <<now, created>> /\ Alters
    BY <1>2 DEF Acts, Alters
  <2>3. Begun(n) /\ Accounted(n)
    BY <1>0, <2>1, BegunMoves, AccountedMoves
  <2>4. ASSUME NEW d \in Callers PROVE Accounted(call[d])'
    <3>1. CASE d = c
      BY <1>0, <2>1, <2>2, <2>3, <3>1, AccountedKeeps
    <3>2. CASE d # c
      <4>1. call'[d] = call[d]
        BY <1>0, <2>1, <3>2
      <4> QED BY <1>0, <2>2, <4>1, AccountedKeeps
    <3> QED BY <3>1, <3>2
  <2>5. \A k \in Keys : Absent(k)'
    BY <2>2, AbsentChanges
  <2> QED BY <1>1, <2>4, <2>5 DEF AbsenceInv
<1>3. ASSUME NEW k \in Keys, SourceChanges(k) PROVE AbsenceInv'
  <2>1. UNCHANGED <<now, store, call>> /\ Alters
    BY <1>0, <1>3 DEF SourceChanges, Alters
  <2>2. \A c \in Callers : Accounted(call[c])'
    BY <1>0, <2>1, AccountedKeeps
  <2>3. \A j \in Keys : Absent(j)'
    BY <2>1, AbsentChanges DEF Changes
  <2> QED BY <1>1, <2>2, <2>3 DEF AbsenceInv
<1>4. CASE Environs
  <2>1. UNCHANGED <<created, call>> /\ Alters
    BY <1>4 DEF Environs, Alters
  <2>2. \A c \in Callers : Accounted(call[c])'
    BY <1>0, <2>1, AccountedKeeps
  <2>3. ASSUME NEW k \in Keys PROVE Absent(k)'
    <3>1. CASE now' = now /\ Changes(k)
      BY <2>1, <3>1, AbsentChanges
    <3>2. CASE now' = now + 1 /\ store'[k] = store[k]
      BY <1>0, <2>1, <3>2 DEF Absent, Item, Entry
    <3>3. CASE store'[k] = NoItem
      BY <3>3 DEF NoItem, NoEntry, Absent, isNegativeEntry
    <3> QED BY <1>4, <3>1, <3>2, <3>3 DEF Environs
  <2> QED BY <1>1, <2>2, <2>3 DEF AbsenceInv
<1> QED BY <1>0, <1>2, <1>3, <1>4, Steps

LEMMA AbsenceInvInitially == Init => AbsenceInv
<1> SUFFICES ASSUME Init PROVE AbsenceInv
  OBVIOUS
<1>1. ASSUME NEW c \in Callers PROVE Accounted(call[c])
  <2>1. call[c] = Idle("none")
    BY DEF Init
  <2> QED BY <2>1, IdleTyped DEF Accounted, Clean, isNegativeEntry, NoEntry
<1>2. ASSUME NEW k \in Keys PROVE Absent(k)
  BY DEF Init, Absent, NoItem, NoEntry, isNegativeEntry
<1> QED BY <1>1, <1>2, ManyInvInitially DEF AbsenceInv

(* "The result contains an entry per key that exists; keys the loader      *)
(* omits are simply absent (and, with WithNegativeTTL, that absence is     *)
(* cached ... until the negative entry expires)" (GetOrSetMany): whatever  *)
(* fails and whoever writes, a key is missing from a result only if the    *)
(* source did not have its entity, or got it less than one negative        *)
(* lifetime and write delay before the call.  The hypothesis keeps the     *)
(* jitter from drawing a lifetime of 0, which the backends store without   *)
(* an expiry: by JitterPositive it holds of every NegativeTTL of at least  *)
(* ten ticks.                                                              *)
THEOREM AbsencesJustified ==
  ASSUME NegativeTTL > 0 => 0 \notin applyJitter(NegativeTTL)
  PROVE  Spec => []AbsenceJustified
<1>1. AbsenceInv => AbsenceJustified
  <2> SUFFICES ASSUME AbsenceInv, NEW c \in Callers, Returned(c), NEW k \in Range(call[c].keys),
                      call[c].result[k] = 0
               PROVE  Gone(k, call[c].start)
    BY DEF AbsenceJustified, Gone
  <2>1. call[c].missing = <<>> /\ Known(call[c], k)
    BY DEF AbsenceInv, ManyInv, Begun, Returned, Accounted
  <2> QED BY <2>1 DEF Known, Range
<1>2. AbsenceInv /\ [Next]_vars => AbsenceInv'
  BY AbsenceInvInductive
<1> QED BY <1>1, <1>2, AbsenceInvInitially, PTL DEF Spec

-----------------------------------------------------------------------------
(* Staleness, when every call asks for the same lifetime L.                *)
OneLifetime(L) ==
  /\ L \in Nat /\ 0 \notin applyJitter(L)
  /\ \A ttl \in TTLs : orDefault(ttl) = L

(* The lifetime a backend gives a value that packForStore made, with the   *)
(* TTL of this value or of another one of the same batch.                  *)
LEMMA PackedLifetime ==
  ASSUME NEW L, OneLifetime(L), NEW ttl \in TTLs, NEW t \in Nat,
         NEW p \in packForStore(ttl, t), NEW q \in packForStore(ttl, t), NEW d \in ttlFor(q.entry, p.ttl)
  PROVE  d \in Nat /\ d > 0 /\ d <= Percent(L, 100 + ttlJitter) + StaleTTL
<1>0. ttl \in Nat /\ orDefault(ttl) = L /\ L \in Nat /\ 0 \notin applyJitter(L) /\ StaleTTL \in Nat
  BY ManyAssumption, ConfigAssumption DEF OneLifetime
<1>1. \A f \in applyJitter(L) : f \in Nat /\ f > 0 /\ f <= Percent(L, 100 + ttlJitter)
      /\ Percent(L, 100 + ttlJitter) \in Nat
  <2>1. ASSUME NEW f \in applyJitter(L) PROVE f \in Nat /\ f <= Percent(L, 100 + ttlJitter) /\ f # 0
                                              /\ Percent(L, 100 + ttlJitter) \in Nat
    BY <1>0, JitterBounded
  <2> QED BY <2>1
<1>2. CASE ~envelopeEnabled
  <2>1. p.ttl = ttl /\ q.entry.kind = "plain"
    BY <1>2 DEF packForStore, Payload
  <2>2. d \in applyJitter(L)
    BY <1>0, <2>1 DEF ttlFor, hasEnvelope
  <2>3. d \in Nat /\ d > 0 /\ d <= Percent(L, 100 + ttlJitter) /\ Percent(L, 100 + ttlJitter) \in Nat
    BY <1>1, <2>2
  <2> QED BY <1>0, <2>3
<1>3. CASE envelopeEnabled
  <2>1. PICK fresh \in applyJitter(L) :
          p = IF fresh > 0
              THEN [entry |-> wrapEnvelope(t + fresh, t), ttl |-> fresh + StaleTTL]
              ELSE [entry |-> wrapEnvelope(0, t), ttl |-> 0]
    BY <1>0, <1>3 DEF packForStore
  <2>2. fresh \in Nat /\ fresh > 0 /\ fresh <= Percent(L, 100 + ttlJitter) /\ Percent(L, 100 + ttlJitter) \in Nat
    BY <1>1
  <2>3. p.ttl = fresh + StaleTTL
    BY <2>1, <2>2
  <2>4. hasEnvelope(q.entry)
    BY <1>3 DEF packForStore, wrapEnvelope, hasEnvelope
  <2>5. d = orDefault(p.ttl)
    BY <2>4 DEF ttlFor
  <2>6. d = fresh + StaleTTL
    BY <1>0, <2>2, <2>3, <2>5 DEF orDefault
  <2> QED BY <1>0, <2>2, <2>6
<1> QED BY <1>2, <1>3

LEMMA WindowNat == ASSUME NEW L \in Nat PROVE Percent(L, 100 + ttlJitter) \in Nat /\ Window(L) \in Nat
<1>1. ttlJitter \in 0..90
  BY JitterRange
<1>2. PICK n \in Nat : n = L * (100 + ttlJitter)
  <2>1. L * (100 + ttlJitter) \in Nat
    BY <1>1
  <2> QED BY <2>1
<1>3. Percent(L, 100 + ttlJitter) \in Nat
  BY <1>2 DEF Percent
<1> QED BY <1>3, ManyAssumption, ConfigAssumption DEF Window

LEMMA YoungMoves ==
  ASSUME NEW L, OneLifetime(L), StalenessInv(L), NEW c \in Callers, NEW n \in CallRecord, Moves(call[c], n)
  PROVE  Young(n, L)
<1> DEFINE o == call[c]
           W == Window(L)
<1>0. /\ now \in Nat /\ o \in CallRecord /\ o.start \in Nat /\ o.start <= now /\ W \in Nat /\ MaxLag > 0
      /\ n.start \in Nat /\ Begun(o) /\ Young(o, L) /\ \A k \in Keys : store[k] \in Item(Nat)
      /\ \A k \in Keys : Bounded(store[k], L) /\ Held(store[k])
  <2>1. W \in Nat /\ MaxLag > 0
    BY WindowNat, ManyAssumption DEF OneLifetime
  <2>2. Begun(o) /\ Young(o, L) /\ \A k \in Keys : Bounded(store[k], L) /\ Held(store[k])
    BY DEF StalenessInv, ManyInv
  <2>3. now \in Nat /\ o \in CallRecord /\ \A k \in Keys : store[k] \in Item(Nat)
    BY DEF StalenessInv, ManyInv, TypeOK
  <2>4. o.start \in Nat /\ n.start \in Nat /\ o.start <= now
    BY <2>2, <2>3 DEF CallRecord, Begun
  <2> QED BY <2>1, <2>2, <2>3, <2>4
<1>1. W > 0
  <2>1. /\ W = Percent(L, 100 + ttlJitter) + StaleTTL + MaxLag + Milli - 1
        /\ Percent(L, 100 + ttlJitter) \in Nat
        /\ StaleTTL \in Nat /\ MaxLag \in Nat /\ Milli \in Nat \ {0}
    BY WindowNat, ConfigAssumption, ManyAssumption DEF Window, OneLifetime
  <2>2. MaxLag > 0
    BY <1>0
  <2> DEFINE x == Percent(L, 100 + ttlJitter)
  <2> HIDE DEF W, x
  <2>3. W = x + StaleTTL + MaxLag + Milli - 1 /\ x \in Nat
    BY <2>1 DEF x
  <2> QED BY <2>1, <2>2, <2>3
<1>2. \A k \in Keys : (o.raw[k].ok => o.raw[k].at + W > o.start) /\ (o.result[k] # 0 => o.result[k] + W > o.start)
  BY <1>0 DEF Young
<1>3. CASE StartsOver(o, n)
  BY <1>3, NoEntryTyped DEF StartsOver, Clean, Young
<1>4. CASE Reads(o, n)
  <2>1. ASSUME NEW k \in Keys, store[k].entry.ok PROVE store[k].entry.at + W > o.start
    <3>1. /\ store[k].deadline # 0 /\ store[k].deadline <= store[k].entry.at + W
          /\ now < store[k].deadline /\ store[k].deadline \in Nat /\ store[k].entry.at \in Nat
      BY <1>0, <2>1 DEF Bounded, Held, Live, Item, Entry
    <3> HIDE DEF W
    <3> QED BY <1>0, <3>1
  <2>2. n.start = o.start /\ n.result = o.result /\ \A k \in Keys : n.raw[k] \in {o.raw[k], NoEntry, store[k].entry}
    BY <1>4 DEF Reads, Carries
  <2> HIDE DEF W
  <2>3. \A k \in Keys : n.raw[k].ok => n.raw[k].at + W > n.start
    BY <1>2, <2>1, <2>2, NoEntryTyped
  <2> QED BY <1>2, <2>2, <2>3 DEF Young, W
<1>5. ASSUME NEW k \in Keys, Scans(o, n, k) PROVE Young(n, L)
  <2>1. /\ n.start = o.start /\ \A j \in Keys : n.raw[j] = IF j = k THEN NoEntry ELSE o.raw[j]
        /\ \A j \in Keys : n.result[j] = IF j = k /\ Decodes(o.raw[k]) THEN o.raw[k].at ELSE o.result[j]
    BY <1>5 DEF Scans, Carries
  <2>2. Decodes(o.raw[k]) => o.raw[k].at + W > o.start
    BY <1>2 DEF Decodes
  <2> HIDE DEF W
  <2>3. \A j \in Keys : n.raw[j].ok => n.raw[j].at + W > n.start
    BY <1>2, <2>1, NoEntryTyped
  <2>4. \A j \in Keys : n.result[j] # 0 => n.result[j] + W > n.start
    BY <1>2, <2>1, <2>2
  <2> QED BY <2>3, <2>4 DEF Young, W
<1>6. CASE Asks(o, n) \/ Looks(o, n) \/ Writes(o, n)
  BY <1>2, <1>6 DEF Asks, Looks, Writes, Carries, Young
<1>7. CASE Ends(o, n)
  BY <1>2, <1>7, NoEntryTyped DEF Ends, Carries, Clean, Young
<1>8. CASE Loads(o, n)
  <2>1. /\ n.start = o.start /\ n.raw = o.raw
        /\ \A k \in Keys : n.result[k] = o.readAt \/ n.result[k] = o.result[k]
        /\ o.readAt \in Nat /\ o.start <= o.readAt
    BY <1>0, <1>8 DEF Loads, Carries, Begun, CallRecord
  <2> HIDE DEF W
  <2>2. \A k \in Keys : n.result[k] # 0 => n.result[k] + W > n.start
    BY <1>0, <1>1, <1>2, <2>1
  <2> QED BY <1>2, <2>1, <2>2 DEF Young, W
<1> QED BY <1>3, <1>4, <1>5, <1>6, <1>7, <1>8 DEF Moves

LEMMA BoundedChanges ==
  ASSUME NEW L, OneLifetime(L), StalenessInv(L), NEW k \in Keys, Changes(k)
  PROVE  Bounded(store'[k], L)
<1> DEFINE P == Percent(L, 100 + ttlJitter)
<1>0. /\ TypeOK /\ now \in Nat /\ Bounded(store[k], L) /\ P \in Nat /\ StaleTTL \in Nat /\ MaxLag \in Nat
      /\ Milli \in Nat \ {0}
      /\ \A c \in Callers : Begun(call[c])
  BY WindowNat, ConfigAssumption, ManyAssumption DEF StalenessInv, ManyInv, TypeOK, OneLifetime
<1>1. CASE store'[k] = store[k]
  BY <1>0, <1>1
<1>2. CASE store'[k] = NoItem \/ store'[k] \in writtenItem(Garbage, 0, now)
  <2>1. ~store'[k].entry.ok
    BY <1>0, <1>2, GarbageFrom DEF NoItem, NoEntry
  <2> QED BY <2>1 DEF Bounded
<1>3. ASSUME NEW c \in Callers, Put(call[c], k, store'[k]) PROVE Bounded(store'[k], L)
  <2> DEFINE item == store'[k]
             o == call[c]
  <2> SUFFICES ASSUME item.entry.ok
               PROVE  item.deadline # 0 /\ item.deadline <= item.entry.at + Window(L)
    BY DEF Bounded
  <2>0. ~negativeMarker(o.readAt).ok
    BY DEF negativeMarker
  <2>1. /\ o.pc = "vals" /\ o.vals[k] # NoEntry /\ item.entry = o.vals[k] /\ item.entry.at = o.readAt
        /\ \E d \in Nat : Lives(d, o.vals[k], o.storeTTL) /\ item.deadline = IF d > 0 THEN now + d ELSE 0
    BY <1>0, <1>3, <2>0, PutFrom
  <2>2. /\ o.ttl \in TTLs /\ o.readAt \in Nat /\ now <= o.readAt + MaxLag
    BY <1>0, <2>1, Typed DEF Begun, CallRecord
  <2>20. PICK t \in Nat : PackedAt(o, t)
    BY <1>0, <2>1 DEF Begun
  <2>3. PICK p \in packForStore(o.ttl, t) : o.storeTTL = p.ttl
    BY <2>1, <2>20 DEF PackedAt
  <2>4. PICK q \in packForStore(o.ttl, t) : o.vals[k] = AsOf(q.entry, o.readAt)
    BY <2>1, <2>20 DEF PackedAt
  <2>5. PICK d \in Nat : Lives(d, o.vals[k], o.storeTTL) /\ item.deadline = IF d > 0 THEN now + d ELSE 0
    BY <2>1
  <2>50. PICK u \in ttlFor(o.vals[k], o.storeTTL) :
           u \in Nat /\ (u > 0 => d > 0 /\ d \in u - (Milli - 1) .. u + (Milli - 1))
    BY <2>5 DEF Lives
  <2>51. ttlFor(o.vals[k], o.storeTTL) = ttlFor(q.entry, p.ttl)
    <3>1. q.entry \in Entry(Nat)
      BY <2>2, PackFrom, TTLsNat
    <3> QED BY <2>2, <2>3, <2>4, <3>1, AsOfTyped DEF ttlFor, hasEnvelope
  <2>6. u > 0 /\ u <= P + StaleTTL
    BY <2>2, <2>50, <2>51, PackedLifetime
  <2>7. Window(L) = P + StaleTTL + MaxLag + Milli - 1
    BY DEF Window
  <2> HIDE DEF P, item, o
  <2>8. d > 0 /\ d <= P + StaleTTL + Milli - 1
    BY <1>0, <2>5, <2>50, <2>6
  <2> QED BY <1>0, <2>1, <2>2, <2>5, <2>7, <2>8
<1> QED BY <1>1, <1>2, <1>3 DEF Changes

LEMMA StalenessInvInductive ==
  ASSUME NEW L, OneLifetime(L), StalenessInv(L), [Next]_vars
  PROVE  StalenessInv(L)'
<1>0. /\ ManyInv /\ TypeOK /\ call \in [Callers -> CallRecord] /\ (\A c \in Callers : Begun(call[c]))
      /\ (\A c \in Callers : Young(call[c], L)) /\ \A k \in Keys : Bounded(store[k], L)
  BY DEF StalenessInv, ManyInv, TypeOK
<1>1. ManyInv'
  BY <1>0, ManyInvInductive
<1>2. Bounded(NoItem, L)
  BY DEF Bounded, NoItem, NoEntry
<1>3. ASSUME NEW c \in Callers, Acts(c) PROVE StalenessInv(L)'
  <2>1. PICK n \in CallRecord : call' = [call EXCEPT ![c] = n] /\ Moves(call[c], n)
    BY <1>3 DEF Acts
  <2>2. \A k \in Keys : Bounded(store'[k], L)
    BY <1>3, BoundedChanges DEF Acts
  <2>3. Young(n, L)
    BY <2>1, YoungMoves
  <2>4. \A d \in Callers : Young(call'[d], L)
    BY <1>0, <2>1, <2>3
  <2> QED BY <1>1, <2>2, <2>4 DEF StalenessInv, Young, Bounded, Window
<1>4. ASSUME UNCHANGED call, \A k \in Keys : Bounded(store'[k], L) PROVE StalenessInv(L)'
  BY <1>0, <1>1, <1>4 DEF StalenessInv, Young, Bounded, Window
<1>5. ASSUME NEW k \in Keys, SourceChanges(k) PROVE StalenessInv(L)'
  BY <1>0, <1>4, <1>5 DEF SourceChanges
<1>6. CASE Environs
  <2>1. ASSUME NEW k \in Keys PROVE Bounded(store'[k], L)
    BY <1>0, <1>2, <1>6, BoundedChanges DEF Environs
  <2> QED BY <1>4, <1>6, <2>1 DEF Environs
<1> QED BY <1>0, <1>3, <1>5, <1>6, Steps

LEMMA StalenessInvInitially == ASSUME NEW L, Init PROVE StalenessInv(L)
<1>1. ASSUME NEW c \in Callers PROVE Young(call[c], L)
  <2>1. call[c] = Idle("none")
    BY DEF Init
  <2> QED BY <2>1, IdleTyped, NoEntryTyped DEF Young, Clean
<1>2. \A k \in Keys : Bounded(store[k], L)
  BY DEF Init, Bounded, NoItem, NoEntry
<1> QED BY <1>1, <1>2, ManyInvInitially DEF StalenessInv

(* "Entries in their stale window are served as-is ... the hard TTL still  *)
(* bounds staleness" (GetOrSetManyWithCodec): when all calls resolve to    *)
(* one lifetime L, from which jitter cannot draw 0, a batch never returns  *)
(* a value older than the jittered L, the stale window and the delay of a  *)
(* write, whatever fails and whoever writes.  Both conditions are needed:  *)
(* a call with a longer lifetime, or a write without expiry, leaves values *)
(* that outlive the window of the next.                                    *)
THEOREM StalenessIsBounded ==
  ASSUME NEW L, OneLifetime(L)
  PROVE  Spec => []StalenessBounded
<1>1. StalenessInv(L) => StalenessBounded
  <2> SUFFICES ASSUME StalenessInv(L), NEW c \in Callers, Returned(c), NEW k \in Keys, call[c].result[k] # 0
               PROVE  call[c].result[k] + Percent(orDefault(call[c].ttl), 100 + ttlJitter)
                        + StaleTTL + MaxLag + Milli - 1 > call[c].start
    BY DEF StalenessBounded
  <2> DEFINE r == call[c].result[k]
             P == Percent(L, 100 + ttlJitter)
  <2>1. call[c].ttl \in TTLs
    BY DEF StalenessInv, ManyInv, Begun, Returned
  <2>2. orDefault(call[c].ttl) = L /\ L \in Nat
    BY <2>1 DEF OneLifetime
  <2>3. r + Window(L) > call[c].start /\ Window(L) = P + StaleTTL + MaxLag + Milli - 1
    BY DEF StalenessInv, Young, Window
  <2>4. r \in Nat /\ call[c].start \in Nat
    BY DEF StalenessInv, ManyInv, TypeOK, CallRecord
  <2>5. P \in Nat /\ StaleTTL \in Nat /\ MaxLag \in Nat /\ Milli \in Nat
    BY <2>2, WindowNat, ManyAssumption, ConfigAssumption
  <2> HIDE DEF r, P
  <2>6. r + P + StaleTTL + MaxLag + Milli - 1 > call[c].start
    BY <2>3, <2>4, <2>5
  <2> QED BY <2>2, <2>6 DEF r, P
<1>2. StalenessInv(L) /\ [Next]_vars => StalenessInv(L)'
  BY StalenessInvInductive
<1>3. Init => StalenessInv(L)
  BY StalenessInvInitially
<1> QED BY <1>1, <1>2, <1>3, PTL DEF Spec

-----------------------------------------------------------------------------
(* Expiry, without jitter: every value of a batch has the storeTTL of the  *)
(* last one.                                                               *)
LEMMA NoJitterPacks ==
  ASSUME TTLJitter <= 0, NEW ttl \in Nat, NEW t \in Nat, NEW p \in packForStore(ttl, t),
         NEW q \in packForStore(ttl, t)
  PROVE  p = q
<1>1. ttlJitter <= 0
  BY ConfigAssumption DEF ttlJitter
<1>2. applyJitter(orDefault(ttl)) = {orDefault(ttl)}
  BY <1>1 DEF applyJitter
<1> QED BY <1>2 DEF packForStore

LEMMA PackAligned ==
  ASSUME NEW ttl \in Nat, NEW t \in Nat, NEW p \in packForStore(ttl, t),
         hasEnvelope(p.entry), p.entry.freshUntil # 0
  PROVE  /\ p.entry.freshUntil \in Nat /\ p.ttl \in Nat /\ p.ttl > 0
         /\ t + p.ttl - (p.entry.freshUntil + StaleTTL) \in 0 .. Milli - 1
<1>1. envelopeEnabled
  BY DEF packForStore, hasEnvelope, Payload
<1>2. PICK fresh \in applyJitter(orDefault(ttl)) :
        p = IF fresh > 0
            THEN [entry |-> wrapEnvelope(t + fresh, t), ttl |-> fresh + StaleTTL]
            ELSE [entry |-> wrapEnvelope(0, t), ttl |-> 0]
  BY <1>1 DEF packForStore
<1>3. fresh \in Nat
  BY <1>2, DefaultNat, JitterNat
<1>4. Floor(0) = 0
  <2>1. 0 - Floor(0) \in 0 .. Milli - 1 /\ Floor(0) \in Nat
    BY FloorRounds
  <2> QED BY <2>1, ConfigAssumption
<1>5. fresh > 0
  BY <1>2, <1>4 DEF wrapEnvelope
<1>6. PICK u \in Nat : u = t + fresh
  BY <1>3
<1>7. p.entry.freshUntil = Floor(u) /\ p.ttl = fresh + StaleTTL
  BY <1>2, <1>5, <1>6 DEF wrapEnvelope
<1>8. u - Floor(u) \in 0 .. Milli - 1 /\ Floor(u) \in Nat
  BY FloorRounds
<1> QED BY <1>3, <1>5, <1>6, <1>7, <1>8, ConfigAssumption

(* The expiry of one item.                                                 *)
Matches(item) ==
  LET hard == item.entry.freshUntil + StaleTTL
  IN hasEnvelope(item.entry) /\ item.entry.freshUntil # 0 =>
       item.deadline \in hard - (Milli - 1) .. hard + MaxLag + 2 * (Milli - 1)

LEMMA MatchesChanges ==
  ASSUME TTLJitter <= 0, ExpiryInv, NEW k \in Keys, Changes(k)
  PROVE  Matches(store'[k])
<1>0. TypeOK /\ now \in Nat /\ Matches(store[k]) /\ \A c \in Callers : Begun(call[c])
  BY DEF ExpiryInv, ManyInv, TypeOK, ExpiryMatchesEnvelope, Matches
<1>1. CASE store'[k] = store[k]
  BY <1>0, <1>1
<1>2. CASE store'[k] = NoItem \/ store'[k] \in writtenItem(Garbage, 0, now)
  <2>1. store'[k].entry.kind # "env"
    BY <1>0, <1>2, GarbageFrom DEF NoItem, NoEntry
  <2> QED BY <2>1 DEF Matches, hasEnvelope
<1>3. ASSUME NEW c \in Callers, Put(call[c], k, store'[k]) PROVE Matches(store'[k])
  <2> DEFINE item == store'[k]
             o == call[c]
             u == item.entry.freshUntil
             hard == u + StaleTTL
  <2> SUFFICES ASSUME hasEnvelope(item.entry), u # 0
               PROVE  item.deadline \in hard - (Milli - 1) .. hard + MaxLag + 2 * (Milli - 1)
    BY DEF Matches
  <2>0. ~hasEnvelope(negativeMarker(o.readAt))
    BY DEF negativeMarker, hasEnvelope
  <2>1. /\ o.pc = "vals" /\ o.vals[k] # NoEntry /\ item.entry = o.vals[k]
        /\ \E d \in Nat : Lives(d, o.vals[k], o.storeTTL) /\ item.deadline = IF d > 0 THEN now + d ELSE 0
    BY <1>0, <1>3, <2>0, PutFrom
  <2>2. /\ o.ttl \in Nat /\ o.readAt \in Nat /\ o.readAt <= now /\ now <= o.readAt + MaxLag
    <3>1. o.ttl \in TTLs
      BY <1>0, <2>1 DEF Begun
    <3> QED BY <1>0, <2>1, <3>1, Typed, ManyAssumption DEF Begun, CallRecord
  <2>20. PICK t \in Nat : o.readAt <= t /\ t <= now /\ PackedAt(o, t)
    BY <1>0, <2>1 DEF Begun
  <2>3. PICK p \in packForStore(o.ttl, t) : o.storeTTL = p.ttl
    BY <2>1, <2>20 DEF PackedAt
  <2>4. PICK q \in packForStore(o.ttl, t) : o.vals[k] = AsOf(q.entry, o.readAt)
    BY <2>1, <2>20 DEF PackedAt
  <2>5. p = q
    BY <2>2, NoJitterPacks
  <2>50. hasEnvelope(p.entry) /\ p.entry.freshUntil = u
    <3>1. q.entry \in Entry(Nat)
      BY <2>2, PackFrom
    <3>2. /\ AsOf(q.entry, o.readAt).kind = q.entry.kind
          /\ AsOf(q.entry, o.readAt).freshUntil = q.entry.freshUntil
      BY <2>2, <3>1, AsOfTyped
    <3>3. item.entry = AsOf(q.entry, o.readAt)
      BY <2>1, <2>4
    <3> QED BY <2>5, <3>2, <3>3 DEF hasEnvelope
  <2>6. /\ u \in Nat /\ p.ttl \in Nat /\ p.ttl > 0
        /\ t + p.ttl - (u + StaleTTL) \in 0 .. Milli - 1
    BY <2>2, <2>50, PackAligned
  <2>7. ttlFor(o.vals[k], o.storeTTL) = {p.ttl}
    <3>1. orDefault(p.ttl) = p.ttl
      BY <2>6 DEF orDefault
    <3> QED BY <2>1, <2>3, <3>1 DEF ttlFor
  <2>8. PICK d \in Nat : Lives(d, o.vals[k], o.storeTTL) /\ item.deadline = IF d > 0 THEN now + d ELSE 0
    BY <2>1
  <2>9. d > 0 /\ d \in p.ttl - (Milli - 1) .. p.ttl + (Milli - 1)
    BY <2>6, <2>7, <2>8 DEF Lives
  <2>10. item.deadline = now + d
    BY <2>8, <2>9
  <2> HIDE DEF item, o, u
  <2>11. StaleTTL \in Nat /\ Milli \in Nat \ {0} /\ MaxLag \in Nat
    BY ConfigAssumption, ManyAssumption
  <2>12. now \in t .. t + MaxLag
    BY <1>0, <2>2, <2>20, <2>11
  <2>13. now + d \in hard - (Milli - 1) .. hard + MaxLag + 2 * (Milli - 1)
    BY <1>0, <2>6, <2>9, <2>11, <2>12
  <2> QED BY <2>10, <2>13
<1> QED BY <1>1, <1>2, <1>3 DEF Changes

LEMMA ExpiryInvInductive ==
  ASSUME TTLJitter <= 0, ExpiryInv, [Next]_vars
  PROVE  ExpiryInv'
<1>0. ManyInv /\ TypeOK /\ (\A c \in Callers : Begun(call[c])) /\ \A k \in Keys : Matches(store[k])
  BY DEF ExpiryInv, ManyInv, ExpiryMatchesEnvelope, Matches
<1>1. ManyInv'
  BY <1>0, ManyInvInductive
<1>2. Matches(NoItem)
  BY DEF Matches, NoItem, NoEntry, hasEnvelope
<1>3. \A k \in Keys : Matches(store'[k])
  <2>1. ASSUME NEW c \in Callers, Acts(c), NEW k \in Keys PROVE Matches(store'[k])
    BY <2>1, MatchesChanges DEF Acts
  <2>2. ASSUME NEW j \in Keys, SourceChanges(j), NEW k \in Keys PROVE Matches(store'[k])
    BY <1>0, <2>2 DEF SourceChanges
  <2>3. ASSUME Environs, NEW k \in Keys PROVE Matches(store'[k])
    BY <1>0, <1>2, <2>3, MatchesChanges DEF Environs
  <2> QED BY <1>0, <2>1, <2>2, <2>3, Steps
<1> QED BY <1>1, <1>3 DEF ExpiryInv, ExpiryMatchesEnvelope, Matches

(* "freshUntil + staleTTL == backend expiry holds exactly" (packForStore)  *)
(* for every key a batch writes, up to the truncation to the millisecond   *)
(* and the delay of the write, when the cache has no jitter.  With jitter  *)
(* it does not hold: every key draws its own freshness but all are written *)
(* with the TTL of one (the run GetOrSetMany_jitter).                      *)
THEOREM ExpiriesMatch ==
  ASSUME TTLJitter <= 0
  PROVE  Spec => []ExpiryMatchesEnvelope
<1>1. ExpiryInv => ExpiryMatchesEnvelope
  BY DEF ExpiryInv
<1>2. ExpiryInv /\ [Next]_vars => ExpiryInv'
  BY ExpiryInvInductive
<1>3. Init => ExpiryInv
  <2>1. ASSUME Init PROVE ExpiryMatchesEnvelope
    BY <2>1 DEF Init, ExpiryMatchesEnvelope, NoItem, NoEntry, hasEnvelope
  <2> QED BY <2>1, ManyInvInitially DEF ExpiryInv
<1> QED BY <1>1, <1>2, <1>3, PTL DEF Spec
=============================================================================
