------------------------------ MODULE GetOrSet ------------------------------
(***************************************************************************)
(* GetOrSetWithCodec of cache.go on one key: cache-aside through the       *)
(* single-flight group, with negative caching, self-heal of undecodable    *)
(* entries, stale-while-revalidate and probabilistic early refresh.        *)
(*                                                                         *)
(* Goroutines interleave at every backend call, at the single-flight group *)
(* and at every reading of the clock.  The group is LoadGroup.tla; each of *)
(* its steps is conjoined to the step of the code that takes it.           *)
(*                                                                         *)
(* Several cache objects may share the backend (one per process, say):     *)
(* each has flights of its own, the stored item is common.                 *)
(***************************************************************************)
EXTENDS Entries

CONSTANTS
  Caches,        \* cache objects; flightKey(c, key) is one per object
  Callers,       \* goroutines that call GetOrSet
  Home,          \* Home[c]: the cache object caller c uses
  Flights,       \* flight identities, see LoadGroup
  None,
  NoResult,
  TTLs,          \* ttl arguments of GetOrSet
  CallTimeouts,  \* context deadlines of callers, relative; 0 = no deadline
  Minute,        \* the bound of refreshes of never-expiring entries
  Faults,        \* what may go wrong: "get", "set", "delete", "loader",
                 \* "notfound", "encode", "panic", "cancel"
  Foreign,       \* entries others write to the key: "garbage", "plain", "env"
  Invalidations, \* whether the application deletes the key
  Remember,      \* whether the outcomes of earlier calls are recorded
  Instants,      \* the instants of a run
  MaxTime,       \* bound on the clock
  MaxLag         \* bound on the time between a loader's return and its Set

ASSUME SetAssumption ==
  /\ Home \in [Callers -> Caches]
  /\ TTLs \subseteq Nat /\ CallTimeouts \subseteq Nat
  /\ Minute \in Nat \ {0} /\ Remember \in BOOLEAN
  /\ Instants \subseteq Nat /\ MaxTime \in Nat /\ Milli <= MaxTime
  /\ MaxLag \in Nat \ {0} /\ Foreign \subseteq {"garbage", "plain", "env"}

VARIABLES
  now,     \* the clock
  store,   \* the item the backend holds at the key
  call,    \* call[c]: the GetOrSet call of caller c
  flight,  \* flight[f]: the loadAndStore closure of flight f
  calls, state, key, res, waits, chan   \* the group, see LoadGroup

groupVars == <<calls, state, key, res, waits, chan>>
vars == <<now, store, call, flight, groupVars>>

(* What a flight returns, ([]byte, error).                                 *)
Errors == {"loader", "notfound", "encode", "panic", "ctx"}
Data(e) == [err |-> "nil", data |-> e]
Failure(err) == [err |-> err, data |-> NoEntry]
Result == {Failure(err) : err \in Errors} \cup {Data(e) : e \in Stored(Instants)}

(* The markers are no flight and no result, and Instants holds every       *)
(* instant that an entry can carry.                                        *)
ASSUME RangeAssumption ==
  /\ NoResult \notin Result /\ None \notin Flights
  /\ \A t \in 0..MaxTime :
       /\ t \in Instants /\ Floor(t + 1) \in Instants
       /\ \A ttl \in TTLs \cup {0} : \A fresh \in applyJitter(orDefault(ttl)) :
            Floor(t + fresh) \in Instants

G == INSTANCE LoadGroup WITH Keys <- Caches, Results <- Result

-----------------------------------------------------------------------------
(* A caller between two calls.  out is history: how its last call ended,   *)
(* and the load whose answer the caller saw last.                          *)
Idle(outcome, at) ==
  [pc |-> "idle", ttl |-> 0, ctx |-> 0, data |-> NoEntry,
   out |-> IF Remember THEN [res |-> outcome, at |-> at] ELSE [res |-> "none", at |-> 0]]

CallRecord ==
  [pc   : {"idle", "got", "heal", "do", "wait"},
   ttl  : TTLs \cup {0},
   ctx  : Nat,             \* deadline of the caller's context, 0 = none
   data : Entry(Nat),
   out  : [res : {"none", "value", "notfound", "error", "decode", "ctx"}, at : Nat]]

(* A flight whose goroutine is not inside loadAndStore.                    *)
NoFlight ==
  [pc |-> "off", refresh |-> FALSE, refreshOf |-> 0, ttl |-> 0, ctx |-> 0,
   data |-> NoEntry, storeTTL |-> 0, onRefreshError |-> FALSE]

FlightRecord ==
  [pc        : {"off", "start", "recheck", "judge", "heal", "load", "loading", "store"},
   refresh   : BOOLEAN,    \* started by refreshAsync
   refreshOf : Nat,        \* flightOpts.refreshOf
   ttl       : TTLs \cup {0},
   ctx       : Nat,        \* deadline of fctx, 0 = none
   data      : Entry(Nat), \* the bytes in hand
   storeTTL  : Nat,
   onRefreshError : BOOLEAN]  \* Hooks.OnError(OpRefresh) fired

TypeOK ==
  /\ now \in Nat
  /\ store \in Item(Nat)
  /\ call \in [Callers -> CallRecord]
  /\ flight \in [Flights -> FlightRecord]
  /\ G!TypeOK

Init ==
  /\ now = Milli
  /\ store = NoItem
  /\ call = [c \in Callers |-> Idle("none", 0)]
  /\ flight = [f \in Flights |-> NoFlight]
  /\ G!Init

-----------------------------------------------------------------------------
(* The backend.  An infrastructure error of Get is treated as a miss, so   *)
(* it reads as no entry; a failed Delete or Set leaves the item.  Each may *)
(* fail when the context it runs under is done.                            *)
Expired(ctx) == ctx # 0 /\ now >= ctx

(* A caller's context may also be cancelled; that of a flight is not.      *)
Done(ctx) == "cancel" \in Faults \/ Expired(ctx)

Get(done) ==
  {store.entry} \cup IF "get" \in Faults \/ done THEN {NoEntry} ELSE {}

Delete(done) ==
  \/ store' = NoItem
  \/ ("delete" \in Faults \/ done) /\ UNCHANGED store

Set(done, e, ttl) ==
  \/ store' \in writtenItem(e, ttl, now)
  \/ ("set" \in Faults \/ done) /\ UNCHANGED store

-----------------------------------------------------------------------------
(* The cache object is part of the key of its flights.                     *)
flightKey(c) == Home[c]

(* loadAndStore(...): the closure a new flight gets.  A call that joins a  *)
(* running flight leaves that flight's closure as it is.                   *)
loadAndStore(f, closure) ==
  flight' = IF state[f] = "free" THEN [flight EXCEPT ![f] = closure] ELSE flight

(* The miss path: fctx keeps the initiator's deadline.                     *)
missClosure(c) ==
  [NoFlight EXCEPT !.pc = "start", !.ttl = call[c].ttl, !.ctx = call[c].ctx]

(* A background refresh: fctx gets a timeout of its own when the goroutine *)
(* starts.                                                                 *)
refreshClosure(c, freshUntil) ==
  [NoFlight EXCEPT !.pc = "start", !.ttl = call[c].ttl, !.refresh = TRUE,
                   !.refreshOf = freshUntil]

(* Mutant: the refresh runs on a goroutine outside the group.              *)
refreshOutsideGroup(c, freshUntil) ==
  \E f \in Flights :
    /\ state[f] = "free"
    /\ state' = [state EXCEPT ![f] = "running"]
    /\ key' = [key EXCEPT ![f] = flightKey(c)]
    /\ UNCHANGED <<calls, res, waits, chan>>
    /\ loadAndStore(f, refreshClosure(c, freshUntil))

refreshAsync(c, freshUntil) ==
  \E f \in Flights :
    /\ G!DoAsync(flightKey(c), f)
    /\ loadAndStore(f, refreshClosure(c, freshUntil))

-----------------------------------------------------------------------------
(* The caller.                                                             *)

(* c.Get of a new call, the negative check and the decode.                 *)
Lookup(c, ttl, ctx) ==
  /\ call[c].pc = "idle"
  /\ \E e \in Get(Done(ctx)) :
       LET goto(pc) == [Idle("none", 0) EXCEPT !.pc = pc, !.ttl = ttl, !.ctx = ctx,
                                               !.data = e, !.out = call[c].out]
       IN call' = [call EXCEPT ![c] =
            CASE e.kind = "none" -> goto("do")
              [] isNegativeEntry(e) -> Idle("notfound", e.at)
              [] Decodes(e) -> goto("got")
              [] OTHER -> goto("heal")]
  /\ UNCHANGED <<now, store, flight, groupVars>>

(* A decoded hit: the clock is read now, and the entry judged against it.  *)
Serve(c) ==
  LET freshUntil == parseStored(call[c].data)
  IN /\ call[c].pc = "got"
     /\ \E early \in shouldEarlyRefresh(freshUntil, now) :
          IF stale(freshUntil, now) \/ early
          THEN refreshAsync(c, freshUntil)
          ELSE UNCHANGED <<flight, groupVars>>
     /\ call' = [call EXCEPT ![c] = Idle("value", call[c].data.at)]
     /\ UNCHANGED <<now, store>>

(* Self-heal: the undecodable entry is deleted - or whatever is there now. *)
Heal(c) ==
  /\ call[c].pc = "heal"
  /\ Delete(Done(call[c].ctx))
  /\ call' = [call EXCEPT ![c].pc = "do", ![c].data = NoEntry]
  /\ UNCHANGED <<now, flight, groupVars>>

(* loadGroup.do up to its select.                                          *)
Do(c) ==
  /\ call[c].pc = "do"
  /\ \E f \in Flights : G!Do(c, flightKey(c), f) /\ loadAndStore(f, missClosure(c))
  /\ call' = [call EXCEPT ![c].pc = "wait"]
  /\ UNCHANGED <<now, store>>

(* The select took the flight's result.                                    *)
Receive(c) ==
  LET r == chan[c]
  IN /\ call[c].pc = "wait"
     /\ G!Receive(c)
     /\ call' = [call EXCEPT ![c] =
          CASE r.err # "nil" -> Idle("error", call[c].out.at)
            [] isNegativeEntry(r.data) -> Idle("notfound", r.data.at)
            [] Decodes(r.data) -> Idle("value", r.data.at)
            [] OTHER -> Idle("decode", call[c].out.at)]
     /\ UNCHANGED <<now, store, flight>>

(* Mutant: the flight runs under the context of the caller that leaves.    *)
AbandonCancelsFlight(c) ==
  /\ call[c].pc = "wait" /\ waits[c] # None
  /\ Done(call[c].ctx)
  /\ G!Leave(c)
  /\ call' = [call EXCEPT ![c] = Idle("ctx", call[c].out.at)]
  /\ flight' = [flight EXCEPT ![waits[c]].ctx = now]
  /\ UNCHANGED <<now, store>>

(* Mutant: the select knows cancellation, not deadlines.                   *)
AbandonOnCancelOnly(c) ==
  /\ call[c].pc = "wait"
  /\ "cancel" \in Faults
  /\ G!Leave(c)
  /\ call' = [call EXCEPT ![c] = Idle("ctx", call[c].out.at)]
  /\ UNCHANGED <<now, store, flight>>

(* The select took ctx.Done(): cancelled, or past the deadline.            *)
Abandon(c) ==
  /\ call[c].pc = "wait"
  /\ Done(call[c].ctx)
  /\ G!Leave(c)
  /\ call' = [call EXCEPT ![c] = Idle("ctx", call[c].out.at)]
  /\ UNCHANGED <<now, store, flight>>

-----------------------------------------------------------------------------
(* The flight.                                                             *)

(* Mutant: the recover of refreshAsync runs after the report.              *)
ReturnHidesPanic(f, r) ==
  /\ G!FnReturn(f, r)
  /\ flight' = [flight EXCEPT
       ![f].pc = "off", ![f].data = NoEntry, ![f].storeTTL = 0,
       ![f].onRefreshError = flight[f].refresh /\ r.err \notin {"nil", "panic"}]

(* The closure returns, or panics and is recovered.  A refresh reports an  *)
(* error through OpRefresh.                                                *)
Return(f, r) ==
  /\ G!FnReturn(f, r)
  /\ flight' = [flight EXCEPT
       ![f].pc = "off", ![f].data = NoEntry, ![f].storeTTL = 0,
       ![f].onRefreshError = flight[f].refresh /\ r.err # "nil"]

(* The lifetime of the entry, which bounds the flight that refreshes it.   *)
refreshTimeout(ttl) ==
  IF orDefault(ttl) + StaleTTL <= 0 THEN Minute ELSE orDefault(ttl) + StaleTTL

(* Mutant: only the miss path gives its flight a deadline.                 *)
EnterUnbounded(f) ==
  /\ flight[f].pc = "start"
  /\ flight' = [flight EXCEPT ![f].pc = "recheck"]
  /\ UNCHANGED <<now, store, call, groupVars>>

(* The goroutine starts and derives fctx.                                  *)
Enter(f) ==
  /\ flight[f].pc = "start"
  /\ flight' = [flight EXCEPT
       ![f].pc = "recheck",
       ![f].ctx = IF flight[f].refresh THEN now + refreshTimeout(flight[f].ttl) ELSE @]
  /\ UNCHANGED <<now, store, call, groupVars>>

(* The flight's own look at the cache; a negative entry satisfies it.      *)
Recheck(f) ==
  /\ flight[f].pc = "recheck"
  /\ \E e \in Get(Expired(flight[f].ctx)) :
       IF isNegativeEntry(e)
       THEN Return(f, Data(e))
       ELSE /\ flight' = [flight EXCEPT ![f].pc = IF e = NoEntry THEN "load" ELSE "judge",
                                        ![f].data = e]
            /\ UNCHANGED groupVars
  /\ UNCHANGED <<now, store, call>>

(* Mutant: the re-check never satisfies a refresh.                         *)
SatisfiedOnMissOnly(f) ==
  ~stale(parseStored(flight[f].data), now) /\ ~flight[f].refresh

(* A re-checked entry satisfies the flight if it is not stale and, for a   *)
(* refresh, strictly fresher than the entry that set it off.               *)
Satisfied(f) ==
  LET freshUntil == parseStored(flight[f].data)
  IN /\ ~stale(freshUntil, now)
     /\ flight[f].refreshOf = 0 \/ freshUntil > flight[f].refreshOf

(* Mutant: the re-checked bytes are returned without the probe decode.     *)
JudgeWithoutProbe(f) ==
  /\ flight[f].pc = "judge"
  /\ IF Satisfied(f)
     THEN Return(f, Data(flight[f].data))
     ELSE /\ flight' = [flight EXCEPT ![f].pc = "load", ![f].data = NoEntry]
          /\ UNCHANGED groupVars
  /\ UNCHANGED <<now, store, call>>

Judge(f) ==
  /\ flight[f].pc = "judge"
  /\ IF Satisfied(f) /\ Decodes(flight[f].data)
     THEN Return(f, Data(flight[f].data))
     ELSE /\ flight' = [flight EXCEPT ![f].pc = IF Satisfied(f) THEN "heal" ELSE "load",
                                      ![f].data = NoEntry]
          /\ UNCHANGED groupVars
  /\ UNCHANGED <<now, store, call>>

(* The same self-heal inside the flight.                                   *)
HealFlight(f) ==
  /\ flight[f].pc = "heal"
  /\ Delete(Expired(flight[f].ctx))
  /\ flight' = [flight EXCEPT ![f].pc = "load"]
  /\ UNCHANGED <<now, call, groupVars>>

(* loader(fctx) is entered.                                                *)
Load(f) ==
  /\ flight[f].pc = "load"
  /\ flight' = [flight EXCEPT ![f].pc = "loading"]
  /\ UNCHANGED <<now, store, call, groupVars>>

(* The loader returned a value, which is encoded and packed.               *)
LoaderSucceeds(f) ==
  /\ flight[f].pc = "loading"
  /\ \E p \in packForStore(flight[f].ttl, now) :
       flight' = [flight EXCEPT ![f].pc = "store", ![f].data = p.entry,
                                ![f].storeTTL = p.ttl]
  /\ UNCHANGED <<now, store, call, groupVars>>

(* The loader returned ErrNotFound, which is a cacheable answer if         *)
(* negative caching is on.                                                 *)
LoaderFindsNothing(f) ==
  /\ flight[f].pc = "loading" /\ "notfound" \in Faults
  /\ IF NegativeTTL > 0
     THEN /\ flight' = [flight EXCEPT ![f].pc = "store", ![f].storeTTL = NegativeTTL,
                                      ![f].data = negativeMarker(now)]
          /\ UNCHANGED groupVars
     ELSE Return(f, Failure("notfound"))
  /\ UNCHANGED <<now, store, call>>

(* The loader failed or panicked, or codec.Marshal failed.                 *)
LoaderFails(f) ==
  /\ flight[f].pc = "loading"
  /\ \E err \in {"loader", "panic", "encode"} \cap Faults : Return(f, Failure(err))
  /\ UNCHANGED <<now, store, call>>

(* The loader gave up because fctx expired.                                *)
LoaderTimesOut(f) ==
  /\ flight[f].pc = "loading" /\ Expired(flight[f].ctx)
  /\ Return(f, Failure("ctx"))
  /\ UNCHANGED <<now, store, call>>

(* The best-effort Set; the data is returned whether it worked or not.     *)
StoreAndReturn(f) ==
  /\ flight[f].pc = "store"
  /\ Set(Expired(flight[f].ctx), flight[f].data, flight[f].storeTTL)
  /\ Return(f, Data(flight[f].data))
  /\ UNCHANGED <<now, call>>

Forget(f) == G!Forget(f) /\ UNCHANGED <<now, store, call, flight>>

Deliver(f) ==
  /\ G!Deliver(f)
  /\ flight' = [flight EXCEPT ![f] = NoFlight]
  /\ UNCHANGED <<now, store, call>>

-----------------------------------------------------------------------------
(* The environment.                                                        *)

(* One tick.  The backend drops the item at its deadline; a loaded value   *)
(* waits at most MaxLag ticks for its Set.                                 *)
Tick ==
  /\ now < MaxTime
  /\ \A f \in Flights : flight[f].pc = "store" => now < flight[f].data.at + MaxLag
  /\ now' = now + 1
  /\ store' = IF Live(store, now + 1) THEN store ELSE NoItem
  /\ UNCHANGED <<call, flight, groupVars>>

(* Bytes that this version of GetOrSet did not write: undecodable ones, a  *)
(* raw Set or an older deploy without envelopes, a deploy that had them.   *)
ForeignEntry(kind) ==
  CASE kind = "garbage" -> Garbage
    [] kind = "plain" -> Payload(now)
    [] kind = "env" -> wrapEnvelope(now + 1, now)

ForeignSet ==
  /\ \E kind \in Foreign : store' \in writtenItem(ForeignEntry(kind), 0, now)
  /\ UNCHANGED <<now, call, flight, groupVars>>

(* The application deletes the key.                                        *)
Invalidate ==
  /\ Invalidations
  /\ store' = NoItem
  /\ UNCHANGED <<now, call, flight, groupVars>>

-----------------------------------------------------------------------------
CallerStep(c) == Serve(c) \/ Heal(c) \/ Do(c) \/ Receive(c) \/ Abandon(c)

LoaderOutcome(f) == LoaderSucceeds(f) \/ LoaderFindsNothing(f) \/ LoaderFails(f)

FlightStep(f) ==
  \/ Enter(f) \/ Recheck(f) \/ Judge(f) \/ HealFlight(f) \/ Load(f)
  \/ StoreAndReturn(f) \/ Forget(f) \/ Deliver(f)

Next ==
  \/ \E c \in Callers, ttl \in TTLs, d \in CallTimeouts :
       Lookup(c, ttl, IF d = 0 THEN 0 ELSE now + d)
  \/ \E c \in Callers : CallerStep(c)
  \/ \E f \in Flights : FlightStep(f) \/ LoaderOutcome(f) \/ LoaderTimesOut(f)
  \/ Tick \/ ForeignSet \/ Invalidate

Spec == Init /\ [][Next]_vars

(* Goroutines run, and so does the clock; a select whose context has       *)
(* expired does not block.  Do and Serve wait for a free flight identity,  *)
(* which the code never has to: strong fairness makes up for that bound.   *)
(* Loaders may hang, but not past the expiry of their context.             *)
Fairness ==
  /\ \A c \in Callers :
       /\ SF_vars(Serve(c) \/ Do(c))
       /\ WF_vars(Heal(c) \/ Receive(c) \/ (Expired(call[c].ctx) /\ Abandon(c)))
  /\ \A f \in Flights : WF_vars(FlightStep(f) \/ LoaderTimesOut(f))
  /\ WF_vars(Tick)

FairSpec == Spec /\ Fairness

-----------------------------------------------------------------------------
(* Every step of GetOrSet is, for the group, one of its own steps or none: *)
(* what is proved of LoadGroup holds here.                                 *)
ImplementsGroup == G!Spec

(* "only one goroutine per (cache, key) hits the source of truth"          *)
(* (GetOrSetWithCodec): misses and background refreshes of one cache       *)
(* object never have two loaders running, however they overlap.            *)
OneLoaderPerCache ==
  \A f, g \in Flights :
    flight[f].pc = "loading" /\ flight[g].pc = "loading" /\ key[f] = key[g] => f = g

(* "freshUntil + staleTTL == backend expiry" (packForStore): jitter or a   *)
(* late Set never cut the stale window short.  It ends less than the       *)
(* millisecond that PX drops before that instant, and after it only by the *)
(* delay of the Set, the fraction the envelope drops and the rounding of a *)
(* PX below one millisecond.                                               *)
ExpiryMatchesEnvelope ==
  LET hard == store.entry.freshUntil + StaleTTL
  IN hasEnvelope(store.entry) /\ store.entry.freshUntil # 0 =>
       store.deadline \in hard - (Milli - 1) .. hard + MaxLag + 2 * (Milli - 1)

(* The re-check does its job: with one cache object, nobody else writing   *)
(* and Get working, no loader runs while the backend holds an answer that  *)
(* is still good, however long the caller that asked had been delayed.     *)
NoWastedLoad ==
  \A f \in Flights : flight[f].pc \in {"load", "loading"} =>
     \/ store = NoItem
     \/ stale(parseStored(store.entry), now)

(* Flights of one cache object write in the order of their loads: a stored *)
(* answer is never replaced by an older one.                               *)
StoreNeverGoesBack ==
  [][store'.entry.kind # "none" => store'.entry.at >= store.entry.at]_vars

(* A caller never gets an older answer than the one it got before, if no   *)
(* Set fails and no other cache object writes.                             *)
MonotonicReads ==
  [][\A c \in Callers : call'[c].out.at >= call[c].out.at]_vars

(* "The flight validated or produced these bytes" (GetOrSetWithCodec): the *)
(* decode after the flight cannot fail, whatever was in the backend.       *)
ResultDecodes == \A c \in Callers : call[c].out.res # "decode"

(* "one canceled request cannot fail every waiter" (GetOrSet): if loaders  *)
(* succeed, a call fails only by its own context.                          *)
CancelStaysPrivate == \A c \in Callers : call[c].out.res # "error"

(* "Waiters honor their own context" (GetOrSet): a call is over by its own *)
(* deadline, however long the flight it has joined still has to go (stated *)
(* of deadlines inside the modelled time).                                 *)
DeadlineHonored ==
  \A c \in Callers :
    call[c].pc # "idle" /\ call[c].ctx \in 1..MaxTime ~> call[c].pc = "idle"

(* "Without it a hung loader would pin its goroutine forever" (flightOpts):*)
(* a refresh whose loader hangs is over by the end of its timeout (stated  *)
(* of timeouts that fall inside the modelled time).                        *)
HungRefreshEnds ==
  \A f \in Flights :
    /\ flight[f].refresh
    /\ flight[f].pc = "loading"
    /\ now + refreshTimeout(flight[f].ttl) <= MaxTime
    ~> ~flight[f].refresh
=============================================================================
