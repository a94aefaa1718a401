---------------------------- MODULE GetOrSetMany ----------------------------
(***************************************************************************)
(* GetOrSetManyWithCodec of batch.go: the batched cache-aside helper, with *)
(* its read phase, the sorting of what was read, one loader call for the   *)
(* missing keys, and the two best-effort writes.  Batches are not          *)
(* single-flighted: concurrent calls interleave at every backend call and  *)
(* at the loader.                                                          *)
(*                                                                         *)
(* The source of truth the loader reads is part of the model: entities are *)
(* created and removed while batches are under way.                        *)
(***************************************************************************)
EXTENDS Entries, Sequences, FiniteSetsExt

CONSTANTS
  Keys,
  Callers,       \* goroutines that call GetOrSetMany
  KeyLists,      \* keys arguments, sequences over Keys
  TTLs,          \* ttl arguments
  Batched,       \* whether the caches implement BatchCache: TRUE, FALSE or both
  Faults,        \* what may go wrong: "get", "set", "delete", "loader", "encode"
  Volatile,      \* the keys whose entities come and go
  Foreign,       \* whether undecodable bytes get written
  MaxTime,       \* bound on the clock
  MaxLag         \* bound on the time from a loader's look at the source to the writes

ASSUME ManyAssumption ==
  /\ KeyLists \subseteq Seq(Keys) /\ Volatile \subseteq Keys
  /\ TTLs \subseteq Nat
  /\ Batched \subseteq BOOLEAN /\ Foreign \in BOOLEAN
  /\ MaxTime \in Nat /\ MaxLag \in Nat \ {0}

VARIABLES
  now,      \* the clock
  store,    \* store[k]: the item the backend holds at k
  created,  \* created[k]: when the source got entity k, 0 = it has none
  call      \* call[c]: the GetOrSetMany call of caller c

vars == <<now, store, created, call>>

Idle(outcome) ==
  [pc |-> "idle", out |-> outcome, batched |-> TRUE, ttl |-> 0, keys |-> <<>>,
   next |-> 1, start |-> 0, raw |-> [k \in Keys |-> NoEntry],
   result |-> [k \in Keys |-> 0], missing |-> <<>>,
   vals |-> [k \in Keys |-> NoEntry], negs |-> {}, storeTTL |-> 0,
   readAt |-> 0, found |-> {}]

CallRecord ==
  [pc       : {"idle", "read", "scan", "load", "loading", "vals", "negs"},
   out      : {"none", "ok", "error"},
   batched  : BOOLEAN,               \* c.(BatchCache) succeeded
   ttl      : TTLs \cup {0},
   keys     : Seq(Keys),             \* uniq
   next     : Nat \ {0},             \* index of the range loops over uniq
   start    : Nat,                   \* when the call began
   raw      : [Keys -> Entry(Nat)],  \* NoEntry: absent from the map
   result   : [Keys -> Nat],         \* the load a value is from, 0: absent
   missing  : Seq(Keys),
   vals     : [Keys -> Entry(Nat)],  \* what is left to write
   negs     : SUBSET Keys,
   storeTTL : Nat,
   readAt   : Nat,                   \* when the loader looked at the source
   found    : SUBSET Keys]           \* what it found there

TypeOK ==
  /\ now \in Nat
  /\ store \in [Keys -> Item(Nat)]
  /\ created \in [Keys -> Nat]
  /\ call \in [Callers -> CallRecord]

Init ==
  /\ now = Milli
  /\ store = [k \in Keys |-> NoItem]
  /\ created \in [Keys -> {0, Milli}]
  /\ \A k \in Keys \ Volatile : created[k] = Milli
  /\ call = [c \in Callers |-> Idle("none")]

-----------------------------------------------------------------------------
(* Duplicate keys are dropped, the first occurrence keeps its place.       *)
uniq(keys) ==
  LET first == {i \in DOMAIN keys : \A j \in 1..(i - 1) : keys[j] # keys[i]}
      rank(i) == Cardinality({j \in first : j <= i})
  IN [n \in 1..Cardinality(first) |-> keys[CHOOSE i \in first : rank(i) = n]]

(* The call returns its result.                                            *)
Done(c) ==
  [Idle("ok") EXCEPT !.keys = call[c].keys, !.ttl = call[c].ttl,
                     !.start = call[c].start, !.result = call[c].result]

Begin(c, keys, ttl, batched) ==
  /\ call[c].pc = "idle"
  /\ call' = [call EXCEPT ![c] = [Idle("none") EXCEPT
       !.pc = "read", !.batched = batched, !.keys = uniq(keys), !.ttl = ttl, !.start = now]]
  /\ UNCHANGED <<now, store, created>>

-----------------------------------------------------------------------------
(* The read phase with a BatchCache: one GetMany, which fails as a whole.  *)
GetMany(c) ==
  LET asked == Range(call[c].keys)
  IN /\ call[c].batched /\ call[c].pc = "read"
     /\ \E ok \in IF "get" \in Faults THEN BOOLEAN ELSE {TRUE} :
          call' = [call EXCEPT ![c].pc = "scan",
            ![c].raw = [k \in Keys |-> IF ok /\ k \in asked THEN store[k].entry
                                       ELSE NoEntry]]
     /\ UNCHANGED <<now, store, created>>

(* The read phase without: a Get per key, each of which may fail alone.    *)
Get(c) ==
  LET n == call[c].next
  IN /\ ~call[c].batched /\ call[c].pc = "read"
     /\ IF n > Len(call[c].keys)
        THEN call' = [call EXCEPT ![c].pc = "scan", ![c].next = 1]
        ELSE \E ok \in IF "get" \in Faults THEN BOOLEAN ELSE {TRUE} :
               call' = [call EXCEPT ![c].next = n + 1,
                 ![c].raw[call[c].keys[n]] = IF ok THEN store[call[c].keys[n]].entry
                                             ELSE NoEntry]
     /\ UNCHANGED <<now, store, created>>

(* Mutant: a key whose entry did not decode is not loaded again.           *)
ScanForgetsHealed(c) ==
  LET k == call[c].keys[call[c].next]
      e == call[c].raw[k]
  IN /\ call[c].pc = "scan" /\ call[c].next <= Len(call[c].keys)
     /\ call' = [call EXCEPT ![c].next = @ + 1,
          ![c].missing = IF e.kind = "none" THEN Append(@, k) ELSE @,
          ![c].result[k] = IF Decodes(e) THEN e.at ELSE @, ![c].raw[k] = NoEntry]
     /\ store' = IF e.kind = "none" \/ isNegativeEntry(e) \/ Decodes(e) THEN store
                 ELSE [store EXCEPT ![k] = NoItem]
     /\ UNCHANGED <<now, created>>

(* One turn of the loop that sorts what was read: absent keys are missing, *)
(* negative ones known absent, stale ones served as they are, undecodable  *)
(* ones deleted and missing.                                               *)
Scan(c) ==
  LET k == call[c].keys[call[c].next]
      e == call[c].raw[k]
      bad == e.kind # "none" /\ ~isNegativeEntry(e) /\ ~Decodes(e)
  IN /\ call[c].pc = "scan" /\ call[c].next <= Len(call[c].keys)
     /\ call' = [call EXCEPT ![c].next = @ + 1,
          ![c].missing = IF e.kind = "none" \/ bad THEN Append(@, k) ELSE @,
          ![c].result[k] = IF Decodes(e) THEN e.at ELSE @, ![c].raw[k] = NoEntry]
     /\ \/ bad /\ store' = [store EXCEPT ![k] = NoItem]
        \/ (bad => "delete" \in Faults) /\ UNCHANGED store
     /\ UNCHANGED <<now, created>>

(* Nothing is missing: the call is over.  Otherwise the loader is called.  *)
Missing(c) ==
  /\ call[c].pc = "scan" /\ call[c].next > Len(call[c].keys)
  /\ call' = [call EXCEPT ![c] = IF call[c].missing = <<>> THEN Done(c)
                                ELSE [call[c] EXCEPT !.pc = "load"]]
  /\ UNCHANGED <<now, store, created>>

-----------------------------------------------------------------------------
(* loader(ctx, missing), external: it looks at the source once, and then   *)
(* takes its time to return, while entities come and go.                   *)
LoaderReads(c) ==
  /\ call[c].pc = "load"
  /\ call' = [call EXCEPT ![c].pc = "loading", ![c].readAt = now,
                          ![c].found = {k \in Range(call[c].missing) : created[k] # 0}]
  /\ UNCHANGED <<now, store, created>>

(* The loader failed: so does the call.                                    *)
LoaderFails(c) ==
  /\ call[c].pc = "loading" /\ "loader" \in Faults
  /\ call' = [call EXCEPT ![c] = Idle("error")]
  /\ UNCHANGED <<now, store, created>>

(* Mutant: the TTL packForStore computed is not used for the write.        *)
storeTTLIgnored(c, packed) == call[c].ttl

(* Mutant: the stale window is added once more.                            *)
storeTTLTwice(c, packed) ==
  LET kept == {i \in DOMAIN call[c].missing : call[c].missing[i] \in DOMAIN packed}
  IN IF kept = {} THEN call[c].ttl ELSE packed[call[c].missing[Max(kept)]].ttl + StaleTTL

(* The TTL of the one SetMany that writes all the values: storeTTL is      *)
(* overwritten by each key in turn, so it is the last packed key's.        *)
storeTTL(c, packed) ==
  LET kept == {i \in DOMAIN call[c].missing : call[c].missing[i] \in DOMAIN packed}
  IN IF kept = {} THEN call[c].ttl ELSE packed[call[c].missing[Max(kept)]].ttl

(* A value's age counts from the loader's look at the source.              *)
AsOf(e, t) == [e EXCEPT !.at = t]

(* The loader returned every missing entity it found.  Values that encode  *)
(* are packed now, each with a draw of its own; the others are returned    *)
(* but not cached; omitted keys become negative entries.                   *)
LoaderReturns(c) ==
  LET missing == Range(call[c].missing)
      loaded == call[c].found
      readAt == call[c].readAt
  IN /\ call[c].pc = "loading"
     /\ \E failed \in IF "encode" \in Faults THEN SUBSET loaded ELSE {{}} :
        \E packed \in [loaded \ failed -> packForStore(call[c].ttl, now)] :
          call' = [call EXCEPT
            ![c].pc = "vals",
            ![c].result = [k \in Keys |-> IF k \in loaded THEN readAt ELSE @[k]],
            ![c].vals = [k \in Keys |-> IF k \in DOMAIN packed
                                        THEN AsOf(packed[k].entry, readAt) ELSE NoEntry],
            ![c].negs = IF NegativeTTL > 0 THEN missing \ loaded ELSE {},
            ![c].storeTTL = storeTTL(c, packed),
            ![c].missing = <<>>,
            ![c].found = {}]
     /\ UNCHANGED <<now, store, created>>

-----------------------------------------------------------------------------
(* SetMany resolves the lifetime of each key for itself (default, jitter); *)
(* a failure may leave any part of the batch unwritten.                    *)
SetMany(items, ttl) ==
  \E written \in IF "set" \in Faults THEN SUBSET DOMAIN items ELSE {DOMAIN items} :
  \E fresh \in [written -> UNION {writtenItem(items[k], ttl, now) : k \in written}] :
    /\ \A k \in written : fresh[k] \in writtenItem(items[k], ttl, now)
    /\ store' = [k \in Keys |-> IF k \in written THEN fresh[k] ELSE store[k]]

(* With a BatchCache each map is one SetMany; without, it is written key   *)
(* by key in the map's random order.                                       *)
Portions(c, keys) ==
  IF call[c].batched \/ keys = {} THEN {keys} ELSE {{k} : k \in keys}

WriteVals(c) ==
  LET left == {k \in Keys : call[c].vals[k] # NoEntry}
  IN /\ call[c].pc = "vals"
     /\ \E part \in Portions(c, left) :
          /\ SetMany([k \in part |-> call[c].vals[k]], call[c].storeTTL)
          /\ call' = [call EXCEPT
               ![c].pc = IF part = left THEN "negs" ELSE @,
               ![c].vals = [k \in Keys |-> IF k \in part THEN NoEntry ELSE @[k]]]
     /\ UNCHANGED <<now, created>>

(* Mutant: the negative markers are written with the values' TTL.          *)
WriteNegsLikeVals(c) ==
  /\ call[c].pc = "negs"
  /\ \E part \in Portions(c, call[c].negs) :
       /\ SetMany([k \in part |-> negativeMarker(call[c].readAt)], call[c].storeTTL)
       /\ call' = [call EXCEPT ![c] = IF part = call[c].negs THEN Done(c)
                                     ELSE [call[c] EXCEPT !.negs = @ \ part]]
  /\ UNCHANGED <<now, created>>

WriteNegs(c) ==
  /\ call[c].pc = "negs"
  /\ \E part \in Portions(c, call[c].negs) :
       /\ SetMany([k \in part |-> negativeMarker(call[c].readAt)], NegativeTTL)
       /\ call' = [call EXCEPT ![c] = IF part = call[c].negs THEN Done(c)
                                     ELSE [call[c] EXCEPT !.negs = @ \ part]]
  /\ UNCHANGED <<now, created>>

-----------------------------------------------------------------------------
(* The environment: the clock, the source, and other writers of the keys.  *)
Tick ==
  /\ now < MaxTime
  /\ \A c \in Callers :
       call[c].pc \in {"loading", "vals", "negs"} => now < call[c].readAt + MaxLag
  /\ now' = now + 1
  /\ store' = [k \in Keys |-> IF Live(store[k], now + 1) THEN store[k] ELSE NoItem]
  /\ UNCHANGED <<created, call>>

SourceChanges(k) ==
  /\ created' = [created EXCEPT ![k] = IF @ = 0 THEN now ELSE 0]
  /\ UNCHANGED <<now, store, call>>

ForeignSet(k) ==
  /\ Foreign
  /\ \E item \in writtenItem(Garbage, 0, now) : store' = [store EXCEPT ![k] = item]
  /\ UNCHANGED <<now, created, call>>

CallerStep(c) ==
  \/ GetMany(c) \/ Get(c) \/ Scan(c) \/ Missing(c)
  \/ LoaderReads(c) \/ LoaderFails(c) \/ LoaderReturns(c) \/ WriteVals(c) \/ WriteNegs(c)

Next ==
  \/ \E c \in Callers, keys \in KeyLists, ttl \in TTLs, batched \in Batched :
       Begin(c, keys, ttl, batched)
  \/ \E c \in Callers : CallerStep(c)
  \/ \E k \in Volatile : SourceChanges(k)
  \/ \E k \in Keys : ForeignSet(k)
  \/ Tick

Spec == Init /\ [][Next]_vars

-----------------------------------------------------------------------------
(* A call that is over and whose result is being looked at.                *)
Returned(c) == call[c].pc = "idle" /\ call[c].out = "ok"

Percent(n, p) == (n * p) \div 100

(* A key is left out of the result only if the source did not have the     *)
(* entity, at the latest one negative lifetime (and the time from the      *)
(* loader's look to its write, and the rounding up to a millisecond)       *)
(* before the call: a failed read, a dropped entry or an old negative      *)
(* marker never make an entity disappear for longer.                       *)
AbsenceJustified ==
  \A c \in Callers : Returned(c) =>
    \A k \in Range(call[c].keys) : call[c].result[k] = 0 =>
      \/ created[k] = 0
      \/ created[k] + Percent(NegativeTTL, 100 + ttlJitter) + MaxLag + Milli - 1
           > call[c].start

(* "the hard TTL still bounds staleness": a value in the result was read   *)
(* from the source at most one freshness and stale window (and the time    *)
(* to its write, and the rounding up to a millisecond) before the call.    *)
StalenessBounded ==
  \A c \in Callers : Returned(c) =>
    \A k \in Keys : call[c].result[k] # 0 =>
      call[c].result[k] + Percent(orDefault(call[c].ttl), 100 + ttlJitter)
        + StaleTTL + MaxLag + Milli - 1 > call[c].start

(* "freshUntil + staleTTL == backend expiry holds exactly" (packForStore): *)
(* for every key of a batch, up to millisecond rounding and the delay of   *)
(* the write.                                                              *)
ExpiryMatchesEnvelope ==
  \A k \in Keys :
    LET e == store[k].entry
        hard == e.freshUntil + StaleTTL
    IN hasEnvelope(e) /\ e.freshUntil # 0 =>
         store[k].deadline \in hard - (Milli - 1) .. hard + MaxLag + 2 * (Milli - 1)
=============================================================================
