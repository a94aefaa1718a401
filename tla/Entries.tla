------------------------------ MODULE Entries ------------------------------
(***************************************************************************)
(* What is stored at a key and how it is judged: the metadata envelope     *)
(* (envelope.go), the negative marker (negative.go), the per-cache         *)
(* configuration (hooks.go, options.go), packForStore (cache.go) and the   *)
(* lifetime a backend gives a write (ttlFor, newItem, setCmd).             *)
(*                                                                         *)
(* Bytes are abstracted to an entry record.  Time is counted in ticks,     *)
(* Milli ticks being the millisecond to which the envelope truncates;      *)
(* instant 0 is Go's zero time.  A random choice of the code is the set of *)
(* its outcomes.                                                           *)
(***************************************************************************)
EXTENDS Integers

CONSTANTS
  DefaultTTL,        \* Options.DefaultTTL, 0 = keys do not expire
  StaleTTL,          \* Options.StaleTTL, 0 = no stale-while-revalidate
  NegativeTTL,       \* Options.NegativeTTL, 0 = no negative caching
  TTLJitter,         \* Options.TTLJitter as given, in percent
  EarlyRefreshBeta,  \* Options.EarlyRefreshBeta as given; its sign matters
  MaxSpread,         \* the longest delta * beta * -ln U of an early refresh
  Milli              \* ticks per millisecond

ASSUME ConfigAssumption ==
  /\ DefaultTTL \in Nat /\ StaleTTL \in Nat /\ NegativeTTL \in Nat
  /\ TTLJitter \in Int /\ EarlyRefreshBeta \in Int
  /\ MaxSpread \in Nat /\ Milli \in Nat \ {0}

-----------------------------------------------------------------------------
(* Stored bytes.  "env" is a payload in an envelope, "plain" one without;  *)
(* ok says whether the payload decodes; at is the instant at which the     *)
(* loader returned it (which load it is, not a stored field).              *)
Kinds == {"none", "neg", "env", "plain"}

NoEntry == [kind |-> "none", ok |-> FALSE, at |-> 0, freshUntil |-> 0]

negativeMarker(t) == [kind |-> "neg", ok |-> FALSE, at |-> t, freshUntil |-> 0]

Payload(t) == [kind |-> "plain", ok |-> TRUE, at |-> t, freshUntil |-> 0]

Garbage == [kind |-> "plain", ok |-> FALSE, at |-> 0, freshUntil |-> 0]

Floor(t) == (t \div Milli) * Milli

(* Mutant: the operands of the subtraction from the load are swapped.      *)
wrapEnvelopeSwapped(freshUntil, t) ==
  [kind |-> "env", ok |-> TRUE, at |-> t, freshUntil |-> Floor(t - freshUntil)]

(* UnixMilli drops the fraction of the millisecond.                        *)
wrapEnvelope(freshUntil, t) ==
  [kind |-> "env", ok |-> TRUE, at |-> t, freshUntil |-> Floor(freshUntil)]

isNegativeEntry(e) == e.kind = "neg"

hasEnvelope(e) == e.kind = "env"

-----------------------------------------------------------------------------
(* buildOptions clamps the jitter to 0 .. 90 % and beta to >= 0.           *)
ttlJitter == IF TTLJitter < 0 THEN 0 ELSE IF TTLJitter > 90 THEN 90 ELSE TTLJitter

earlyRefreshBeta == IF EarlyRefreshBeta < 0 THEN 0 ELSE EarlyRefreshBeta

envelopeEnabled == StaleTTL > 0 \/ earlyRefreshBeta > 0

(* parseStored: the freshness deadline an entry carries, 0 for none.  An   *)
(* envelope is only looked for when the feature is on.                     *)
parseStored(e) == IF envelopeEnabled /\ hasEnvelope(e) THEN e.freshUntil ELSE 0

(* codec.Unmarshal of the payload parseStored returns: with the feature    *)
(* off the envelope's header is part of the payload and does not decode.   *)
Decodes(e) == e.ok /\ (hasEnvelope(e) => envelopeEnabled)

stale(freshUntil, t) == freshUntil # 0 /\ t > freshUntil

(* XFetch: the spread is drawn anew on every hit.                          *)
shouldEarlyRefresh(freshUntil, t) ==
  IF earlyRefreshBeta <= 0 \/ freshUntil = 0 THEN {FALSE}
  ELSE {t + spread > freshUntil : spread \in 0..MaxSpread}

-----------------------------------------------------------------------------
orDefault(ttl) == IF ttl <= 0 THEN DefaultTTL ELSE ttl

(* Every whole number of ticks that truncating ttl * (1 + delta) can give, *)
(* delta in [-ttlJitter, +ttlJitter).                                      *)
applyJitter(ttl) ==
  IF ttl <= 0 \/ ttlJitter <= 0 THEN {ttl}
  ELSE {d \in 0..(2 * ttl) : /\ 100 * (d + 1) > ttl * (100 - ttlJitter)
                             /\ 100 * d < ttl * (100 + ttlJitter)}

(* What is written at instant t for a payload, and with which TTL.         *)
packForStore(ttl, t) ==
  IF ~envelopeEnabled THEN {[entry |-> Payload(t), ttl |-> ttl]}
  ELSE {IF fresh > 0
        THEN [entry |-> wrapEnvelope(t + fresh, t), ttl |-> fresh + StaleTTL]
        ELSE [entry |-> wrapEnvelope(0, t), ttl |-> 0]
          : fresh \in applyJitter(orDefault(ttl))}

(* Mutant: the backend jitters an enveloped value like any other.          *)
ttlForJittersAll(e, ttl) == applyJitter(orDefault(ttl))

(* The lifetime of a write in the backend: default fallback, then jitter   *)
(* unless the value is enveloped.                                          *)
ttlFor(e, ttl) ==
  IF hasEnvelope(e) THEN {orDefault(ttl)} ELSE applyJitter(orDefault(ttl))

(* A stored item: an entry and its hard expiry, 0 for none.                *)
NoItem == [entry |-> NoEntry, deadline |-> 0]

ItemFor(e, d, t) == [entry |-> e, deadline |-> IF d > 0 THEN t + d ELSE 0]

(* What a write at instant t leaves in a MemoryCache ...                   *)
newItem(e, ttl, t) == {ItemFor(e, d, t) : d \in ttlFor(e, ttl)}

(* Mutant: PX without the floor of one millisecond.                        *)
toPXTruncated(d) == IF d <= 0 THEN 0 ELSE Floor(d)

(* The argument of PX: milliseconds, truncated, but never 0 for a positive *)
(* TTL.  0 is a SET without PX.                                            *)
toPX(d) == IF d <= 0 THEN 0 ELSE IF d < Milli THEN Milli ELSE Floor(d)

setCmd(e, ttl) == {toPX(d) : d \in ttlFor(e, ttl)}

(* ... and in any backend: MemoryCache counts lifetimes to the tick, Redis *)
(* and Valkey in the milliseconds of PX.                                   *)
writtenItem(e, ttl, t) == newItem(e, ttl, t) \cup {ItemFor(e, d, t) : d \in setCmd(e, ttl)}

Live(item, t) == item.deadline = 0 \/ t < item.deadline

(* The types of entries and items over a set T of instants, and the        *)
(* entries that occur in a backend.                                        *)
Entry(T) == [kind : Kinds, ok : BOOLEAN, at : T, freshUntil : T]

Item(T) == [entry : Entry(T), deadline : T]

Stored(T) ==
  {negativeMarker(t) : t \in T} \cup {Payload(t) : t \in T} \cup {Garbage}
    \cup [kind : {"env"}, ok : {TRUE}, at : T, freshUntil : T]
=============================================================================
