---------------------------- MODULE OrderProofs ----------------------------
(***************************************************************************)
(* Proofs about the order in which GetOrSet stores and returns answers,    *)
(* and about the loads it saves, where one cache object has the key to     *)
(* itself.                                                                 *)
(*                                                                         *)
(* Everything rests on the single flight: from its look at the backend to  *)
(* its Forget, a flight is the only one that writes.  The invariants       *)
(* relate what that flight has in hand to the backend and to the answers   *)
(* that are already given or on their way.                                 *)
(***************************************************************************)
EXTENDS AnswerProofs

(* One cache object, and nobody else writes to the key.                    *)
Alone == (\A p, q \in Caches : p = q) /\ Foreign = {}

(* What is in the backend when a refresh starts has expired when the time  *)
(* of the refresh is over: all calls use one lifetime, without jitter, and *)
(* negative entries do not live longer, nor the millisecond that a backend *)
(* makes of any shorter time.                                              *)
OneLifetime ==
  /\ TTLJitter <= 0
  /\ \A ttl \in TTLs :
       /\ 0 < orDefault(ttl)
       /\ NegativeTTL <= orDefault(ttl) + StaleTTL /\ Milli <= orDefault(ttl) + StaleTTL
       /\ \A s \in TTLs : orDefault(s) = orDefault(ttl)

(* Callers have no deadlines.                                              *)
NoDeadlines == CallTimeouts \subseteq {0}

-----------------------------------------------------------------------------
(* What is stored, or about to be, is as old as it says.                   *)
InOrder ==
  /\ store.entry.at <= now
  /\ \A f \in Flights : flight[f].pc = "store" =>
       store.entry.at <= flight[f].data.at /\ flight[f].data.at <= now

(* Calls and flights have the TTL of a caller, and calls no deadline.      *)
Given ==
  /\ \A c \in Callers : call[c].ctx = 0 /\ (call[c].pc # "idle" => call[c].ttl \in TTLs)
  /\ \A f \in Flights : flight[f].pc # "off" => flight[f].ttl \in TTLs

(* An item lives, but for one lifetime at most, and not past the end of a  *)
(* refresh that found it.                                                  *)
Expiring ==
  /\ store # NoItem =>
       /\ store.entry # NoEntry /\ now < store.deadline
       /\ \A ttl \in TTLs : store.deadline <= now + orDefault(ttl) + StaleTTL
  /\ \A f \in Flights : flight[f].pc = "store" =>
       /\ 0 < orDefault(flight[f].storeTTL)
       /\ \A ttl \in TTLs : orDefault(flight[f].storeTTL) <= orDefault(ttl) + StaleTTL
  /\ \A f \in Flights : flight[f].pc # "off" /\ flight[f].ctx # 0 /\ store # NoItem =>
       store.deadline <= flight[f].ctx

(* The entry a flight judges is the one that is stored.                    *)
Judged ==
  \A f \in Flights : flight[f].pc = "judge" /\ store # NoItem => flight[f].data = store.entry

(* Entries as this configuration writes them, with a freshness deadline if *)
(* there are envelopes.                                                    *)
Own(e) ==
  \/ e = NoEntry \/ isNegativeEntry(e)
  \/ Decodes(e) /\ (envelopeEnabled => parseStored(e) # 0)

Ours ==
  /\ Own(store.entry)
  /\ \A f \in Flights :
       /\ flight[f].pc # "heal"
       /\ flight[f].pc \in {"judge", "store"} => Own(flight[f].data)
       /\ flight[f].pc = "judge" => flight[f].data # NoEntry /\ ~isNegativeEntry(flight[f].data)

(* Without early refreshes, a refresh is one of an entry that was stale.   *)
Reasons ==
  \A f \in Flights : flight[f].pc # "off" /\ flight[f].refreshOf # 0 =>
    flight[f].refreshOf < now /\ envelopeEnabled

-----------------------------------------------------------------------------
Answer(r) == r # NoResult /\ r.err = "nil"

(* The loads whose answers a caller has, or is going to get from its own   *)
(* lookup or from a flight that is over.                                   *)
Answered ==
  {call[c].out.at : c \in Callers}
    \cup {call[c].data.at : c \in {d \in Callers : call[d].pc = "got"}}
    \cup {chan[c].data.at : c \in {d \in Callers : Answer(chan[d])}}
    \cup {res[f].data.at : f \in {g \in Flights : Answer(res[g])}}

NoneAfter(t) == \A u \in Answered : u <= t

(* What can still be read, joined or returned is the newest there is.      *)
Newest ==
  /\ NoneAfter(now)
  /\ store # NoItem => NoneAfter(store.entry.at)
  /\ \A f \in Flights :
       /\ flight[f].pc \in {"judge", "store"} =>
            NoneAfter(flight[f].data.at) /\ flight[f].data.at <= now
       /\ state[f] = "returned" /\ Answer(res[f]) =>
            /\ NoneAfter(res[f].data.at)
            /\ store # NoItem => store.entry.at <= res[f].data.at

(* A caller at its select, and no other, waits for a flight or has its     *)
(* result.                                                                 *)
AtSelect ==
  \A c \in Callers : /\ waits[c] = None \/ chan[c] = NoResult
                     /\ waits[c] # None \/ chan[c] # NoResult => call[c].pc = "wait"

(* What is on its way to a caller is not older than what the caller has.   *)
Ahead ==
  \A c \in Callers :
    /\ call[c].pc = "got" => call[c].out.at <= call[c].data.at
    /\ Answer(chan[c]) => call[c].out.at <= chan[c].data.at
    /\ waits[c] # None /\ Answer(res[waits[c]]) => call[c].out.at <= res[waits[c]].data.at

-----------------------------------------------------------------------------
(* The single flight of the cache object.                                  *)
LEMMA OnlyFlight ==
  ASSUME Alone, SetInv, NEW f \in Flights, NEW g \in Flights,
         state[f] \in {"running", "returned"}, state[g] \in {"running", "returned"}
  PROVE  f = g
BY DEF Alone, SetInv, P!GroupInv, P!Registered, P!InFlight, P!TypeOK

LEMMA OnlyClosure ==
  ASSUME Alone, SetInv, NEW f \in Flights, NEW g \in Flights,
         flight[f].pc # "off", flight[g].pc # "off"
  PROVE  f = g
BY OnlyFlight DEF SetInv, Executing

(* What a step does to the backend.                                        *)
LEMMA StoreMoves ==
  ASSUME Alone, Next
  PROVE  \/ store' = store \/ store' = NoItem
         \/ \E f \in Flights : /\ StoreAndReturn(f)
                               /\ store' \in writtenItem(flight[f].data, flight[f].storeTTL, now)
<1>1. ASSUME NEW f \in Flights, StoreAndReturn(f)
      PROVE  \/ store' = store
             \/ store' \in writtenItem(flight[f].data, flight[f].storeTTL, now)
  BY <1>1 DEF StoreAndReturn, Set
<1>2. CASE \A f \in Flights : ~StoreAndReturn(f)
  BY <1>2 DEF Alone, Next, Lookup, CallerStep, Serve, Heal, Do, Receive, Abandon, FlightStep,
       Enter, Recheck, Judge, HealFlight, Load, Forget, Deliver, LoaderOutcome,
       LoaderSucceeds, LoaderFindsNothing, LoaderFails, LoaderTimesOut, Tick,
       ForeignSet, Invalidate, Delete
<1> QED BY <1>1, <1>2

(* The instants of entries are numbers, before and after a step.           *)
LEMMA Instants0 ==
  ASSUME SetInv
  PROVE  /\ store.entry.at \in Nat /\ now \in Nat
         /\ \A f \in Flights : flight[f].data.at \in Nat
BY SetAssumption DEF SetInv, StoreOK, FlightOK, FlightRecord, Item, Entry

LEMMA Instants1 ==
  ASSUME SetInv'
  PROVE  /\ store'.entry.at \in Nat /\ now' \in Nat
         /\ \A f \in Flights : flight'[f].data.at \in Nat
BY SetAssumption DEF SetInv, StoreOK, FlightOK, FlightRecord, Item, Entry

LEMMA InOrderInductive ==
  ASSUME Alone, SetInv, SetInv', InOrder, Next
  PROVE  InOrder' /\ (store'.entry.kind # "none" => store'.entry.at >= store.entry.at)
<1>1. /\ store.entry.at \in Nat /\ store'.entry.at \in Nat /\ now \in Nat /\ now' \in Nat
      /\ now <= now'
      /\ \A f \in Flights : flight[f].data.at \in Nat /\ flight'[f].data.at \in Nat
  BY Instants0, Instants1, NowMoves
<1>2. \/ store' = store \/ store' = NoItem
      \/ \E f \in Flights : StoreAndReturn(f) /\ store'.entry = flight[f].data
  BY StoreMoves, WrittenLifetime
<1>3. ASSUME NEW g \in Flights, flight'[g].pc = "store"
      PROVE  store'.entry.at <= flight'[g].data.at /\ flight'[g].data.at <= now'
  <2>1. CASE flight'[g] = flight[g]
    <3>1. store.entry.at <= flight[g].data.at /\ flight[g].data.at <= now
      BY <1>3, <2>1 DEF InOrder
    <3>2. ASSUME NEW f \in Flights, StoreAndReturn(f) PROVE FALSE
      <4>1. f = g
        BY <1>3, <2>1, <3>2, OnlyClosure DEF StoreAndReturn
      <4>2. flight'[f].pc = "off"
        BY <3>2 DEF StoreAndReturn, Return, SetInv, FlightOK, FlightRecord
      <4> QED BY <1>3, <4>1, <4>2
    <3>3. store' = store \/ store' = NoItem
      BY <1>2, <3>2
    <3>4. NoItem.entry.at = 0
      BY DEF NoItem, NoEntry
    <3> QED BY <1>1, <2>1, <3>1, <3>3, <3>4
  <2>2. CASE flight'[g].data.at = now /\ store' = store
    BY <1>1, <2>2 DEF InOrder
  <2> QED BY <1>3, <2>1, <2>2, ReachesSet
<1>4. /\ store'.entry.at <= now'
      /\ store'.entry.kind # "none" => store'.entry.at >= store.entry.at
  <2>1. CASE store' = store
    BY <1>1, <2>1 DEF InOrder
  <2>2. CASE store' = NoItem
    BY <1>1, <2>2 DEF NoItem, NoEntry
  <2>3. ASSUME NEW f \in Flights, StoreAndReturn(f), store'.entry = flight[f].data
        PROVE  store'.entry.at <= now' /\ store'.entry.at >= store.entry.at
    BY <1>1, <2>3 DEF InOrder, StoreAndReturn
  <2> QED BY <1>2, <2>1, <2>2, <2>3
<1> QED BY <1>3, <1>4 DEF InOrder

LEMMA InOrderInitially == Init => InOrder
BY ConfigAssumption DEF Init, InOrder, NoItem, NoEntry, NoFlight

(* Whatever loaders, deadlines and failed Sets do: with one cache object,  *)
(* the backend never gets an older answer than the one it holds.           *)
THEOREM StoreOrdered ==
  ASSUME Alone
  PROVE  Spec => StoreNeverGoesBack
<1> DEFINE Inv == SetInv /\ InOrder
           Forward == store'.entry.kind # "none" => store'.entry.at >= store.entry.at
<1>1. Init => Inv
  BY SetInvInitially, InOrderInitially
<1>2. Inv /\ [Next]_vars => Inv' /\ [Forward]_vars
  <2> SUFFICES ASSUME Inv, [Next]_vars PROVE Inv' /\ [Forward]_vars
    OBVIOUS
  <2>1. SetInv'
    BY SetInvInductive
  <2>2. CASE Next
    BY <2>1, <2>2, InOrderInductive
  <2>3. CASE UNCHANGED vars
    BY <2>1, <2>3 DEF vars, InOrder
  <2> QED BY <2>2, <2>3
<1> HIDE DEF Inv
<1> QED BY <1>1, <1>2, PTL DEF Spec, StoreNeverGoesBack, Forward

-----------------------------------------------------------------------------
(* The way of a closure.                                                   *)

(* A closure that is executing after a step has just been started, or was  *)
(* executing before.                                                       *)
LEMMA ClosureOn ==
  ASSUME SetInv, SetInv', Next, NEW g \in Flights, flight'[g].pc # "off"
  PROVE  \/ Begins(g)
         \/ flight'[g] = flight[g]
         \/ /\ Moves(g) /\ ~Deliver(g) /\ UNCHANGED groupVars /\ flight[g].pc # "off"
            /\ flight'[g].ttl = flight[g].ttl /\ flight'[g].refreshOf = flight[g].refreshOf
            /\ Enter(g) \/ flight'[g].ctx = flight[g].ctx
<1>1. state'[g] = "running"
  BY DEF SetInv, Executing
<1>2. flight[g] \in FlightRecord /\ flight \in [Flights -> FlightRecord] /\ G!TypeOK
  BY GroupTyped DEF SetInv, FlightOK
<1>3. CASE Moves(g)
  <2>1. UNCHANGED groupVars /\ flight[g].pc # "off"
    BY <1>1, <1>3, MoveKinds
  <2>2. ~Deliver(g)
    BY <1>1, <1>2 DEF Deliver, G!Deliver, G!TypeOK
  <2>3. CASE Enter(g)
    <3>1. flight'[g].ttl = flight[g].ttl /\ flight'[g].refreshOf = flight[g].refreshOf
      BY <1>2, <2>3 DEF Enter, FlightRecord
    <3> QED BY <1>3, <2>1, <2>2, <2>3, <3>1
  <2> QED BY <1>3, <2>1, <2>2, <2>3, ClosureFixed
<1> QED BY <1>3, FlightMoves DEF Untouched

(* While a closure executes, nobody else writes.                           *)
LEMMA NotWritten ==
  ASSUME Alone, SetInv, SetInv', Next, NEW g \in Flights,
         flight[g].pc # "off", flight'[g].pc # "off"
  PROVE  store' = store \/ store' = NoItem
<1>1. ASSUME NEW f \in Flights, StoreAndReturn(f) PROVE FALSE
  <2>1. f = g
    BY <1>1, OnlyClosure DEF StoreAndReturn
  <2>2. flight'[f].pc = "off"
    BY <1>1 DEF StoreAndReturn, Return, SetInv, FlightOK, FlightRecord
  <2> QED BY <2>1, <2>2
<1> QED BY <1>1, StoreMoves

LEMMA ReachesJudge ==
  ASSUME SetInv, SetInv', Next, NEW g \in Flights, flight'[g].pc = "judge"
  PROVE  \/ flight'[g] = flight[g]
         \/ /\ UNCHANGED <<now, store, call, groupVars>>
            /\ flight'[g].data = store.entry
            /\ store.entry # NoEntry /\ ~isNegativeEntry(store.entry)
<1>1. flight[g] \in FlightRecord /\ flight \in [Flights -> FlightRecord]
  BY DEF SetInv, FlightOK
<1>2. CASE Begins(g)
  BY <1>2 DEF Begins, missClosure, refreshClosure, NoFlight
<1>3. CASE Moves(g) /\ UNCHANGED groupVars /\ ~Deliver(g)
  <2>1. ASSUME NEW r, Return(g, r) PROVE FALSE
    BY <1>1, <2>1 DEF Return, FlightRecord
  <2>2. CASE Recheck(g)
    <3>1. PICK e \in Get(Expired(flight[g].ctx)) :
            /\ ~isNegativeEntry(e)
            /\ flight' = [flight EXCEPT ![g].pc = IF e = NoEntry THEN "load" ELSE "judge",
                                        ![g].data = e]
      BY <2>1, <2>2 DEF Recheck
    <3>2. flight'[g].data = e /\ e # NoEntry
      BY <1>1, <3>1 DEF FlightRecord
    <3>3. e = store.entry
      BY <3>2 DEF Get
    <3> QED BY <1>3, <2>2, <3>1, <3>2, <3>3 DEF Recheck
  <2>3. CASE Judge(g)
    BY <1>1, <2>1, <2>3 DEF Judge, FlightRecord
  <2>4. CASE Enter(g) \/ HealFlight(g) \/ Load(g)
    BY <1>1, <2>4 DEF Enter, HealFlight, Load, FlightRecord
  <2>5. CASE LoaderSucceeds(g)
    BY <1>1, <2>5 DEF LoaderSucceeds, FlightRecord
  <2>6. CASE LoaderFindsNothing(g)
    BY <1>1, <2>1, <2>6 DEF LoaderFindsNothing, FlightRecord
  <2>7. CASE StoreAndReturn(g) \/ LoaderFails(g) \/ LoaderTimesOut(g)
    BY <2>1, <2>7 DEF StoreAndReturn, LoaderFails, LoaderTimesOut
  <2>8. CASE Forget(g)
    BY <2>8 DEF Forget
  <2> QED BY <1>3, <2>2, <2>3, <2>4, <2>5, <2>6, <2>7, <2>8 DEF Moves, FlightStep, LoaderOutcome
<1> QED BY <1>2, <1>3, ClosureOn

LEMMA ReachesLoad ==
  ASSUME SetInv, SetInv', Next, NEW g \in Flights, flight'[g].pc \in {"heal", "load", "loading"}
  PROVE  \/ flight'[g] = flight[g]
         \/ /\ UNCHANGED <<now, store>> /\ flight[g].pc = "recheck" /\ flight'[g].pc = "load"
            /\ NoEntry \in Get(Expired(flight[g].ctx))
         \/ /\ UNCHANGED <<now, store>> /\ flight[g].pc = "judge"
            /\ Satisfied(g) => ~Decodes(flight[g].data)
            /\ flight'[g].pc = IF Satisfied(g) THEN "heal" ELSE "load"
         \/ flight[g].pc = "heal"
         \/ flight[g].pc = "load" /\ flight'[g].pc = "loading" /\ UNCHANGED <<now, store>>
<1>1. flight[g] \in FlightRecord /\ flight \in [Flights -> FlightRecord]
  BY DEF SetInv, FlightOK
<1>2. CASE Begins(g)
  BY <1>2 DEF Begins, missClosure, refreshClosure, NoFlight
<1>3. CASE Moves(g) /\ UNCHANGED groupVars /\ ~Deliver(g)
  <2>1. ASSUME NEW r, Return(g, r) PROVE FALSE
    BY <1>1, <2>1 DEF Return, FlightRecord
  <2>2. CASE Recheck(g)
    <3>1. PICK e \in Get(Expired(flight[g].ctx)) :
            flight' = [flight EXCEPT ![g].pc = IF e = NoEntry THEN "load" ELSE "judge",
                                     ![g].data = e]
      BY <2>1, <2>2 DEF Recheck
    <3>2. e = NoEntry /\ flight'[g].pc = "load"
      BY <1>1, <3>1 DEF FlightRecord
    <3> QED BY <2>2, <3>1, <3>2 DEF Recheck
  <2>3. CASE Judge(g)
    <3>1. /\ ~(Satisfied(g) /\ Decodes(flight[g].data))
          /\ flight' = [flight EXCEPT ![g].pc = IF Satisfied(g) THEN "heal" ELSE "load",
                                      ![g].data = NoEntry]
      BY <2>1, <2>3 DEF Judge
    <3>2. flight'[g].pc = IF Satisfied(g) THEN "heal" ELSE "load"
      BY <1>1, <3>1 DEF FlightRecord
    <3> QED BY <2>3, <3>1, <3>2 DEF Judge
  <2>4. CASE Enter(g)
    BY <1>1, <2>4 DEF Enter, FlightRecord
  <2>5. CASE HealFlight(g) \/ Load(g)
    BY <1>1, <2>5 DEF HealFlight, Load, FlightRecord
  <2>6. CASE LoaderSucceeds(g)
    BY <1>1, <2>6 DEF LoaderSucceeds, FlightRecord
  <2>7. CASE LoaderFindsNothing(g)
    BY <1>1, <2>1, <2>7 DEF LoaderFindsNothing, FlightRecord
  <2>8. CASE StoreAndReturn(g) \/ LoaderFails(g) \/ LoaderTimesOut(g)
    BY <2>1, <2>8 DEF StoreAndReturn, LoaderFails, LoaderTimesOut
  <2>9. CASE Forget(g)
    BY <2>9 DEF Forget
  <2> QED BY <1>3, <2>2, <2>3, <2>4, <2>5, <2>6, <2>7, <2>8, <2>9
          DEF Moves, FlightStep, LoaderOutcome
<1> QED BY <1>2, <1>3, ClosureOn

-----------------------------------------------------------------------------
LEMMA StoredKinds ==
  ASSUME NEW e \in Stored(Instants)
  PROVE  e # NoEntry /\ e.kind # "none" /\ (isNegativeEntry(e) => ~Decodes(e))
<1>1. CASE e = Garbage
  BY <1>1 DEF Garbage, NoEntry, isNegativeEntry
<1>2. CASE \E t \in Instants : e = negativeMarker(t) \/ e = Payload(t)
  BY <1>2 DEF negativeMarker, Payload, NoEntry, isNegativeEntry, Decodes
<1>3. CASE e \in [kind : {"env"}, ok : {TRUE}, at : Instants, freshUntil : Instants]
  BY <1>3 DEF NoEntry, isNegativeEntry
<1> QED BY <1>1, <1>2, <1>3 DEF Stored

(* A result ends the call that receives it.                                *)
LEMMA ReceiveGives ==
  ASSUME SetInv, NEW c \in Callers, Receive(c)
  PROVE  \E o : \/ call'[c] = Idle(o, call[c].out.at)
                \/ Answer(chan[c]) /\ call'[c] = Idle(o, chan[c].data.at)
<1>1. call \in [Callers -> CallRecord]
  BY DEF SetInv, CallOK
<1>2. chan[c] # NoResult
  BY DEF Receive, G!Receive
<1>3. call'[c] = CASE chan[c].err # "nil" -> Idle("error", call[c].out.at)
                   [] isNegativeEntry(chan[c].data) -> Idle("notfound", chan[c].data.at)
                   [] Decodes(chan[c].data) -> Idle("value", chan[c].data.at)
                   [] OTHER -> Idle("decode", call[c].out.at)
  BY <1>1 DEF Receive
<1>4. chan[c] \in Result
  BY <1>2, GroupTyped DEF G!TypeOK
<1>5. chan[c].err # "nil" => ~isNegativeEntry(chan[c].data) /\ ~Decodes(chan[c].data)
  BY <1>4 DEF Result, Failure, Data, NoEntry, isNegativeEntry, Decodes
<1>6. isNegativeEntry(chan[c].data) => ~Decodes(chan[c].data)
  <2>1. chan[c].data \in Stored(Instants) \/ chan[c].data = NoEntry
    BY <1>4 DEF Result, Failure, Data
  <2> QED BY <2>1, StoredKinds DEF NoEntry, isNegativeEntry
<1>7. \/ chan[c].err # "nil" /\ call'[c] = Idle("error", call[c].out.at)
      \/ chan[c].err = "nil" /\ isNegativeEntry(chan[c].data)
           /\ call'[c] = Idle("notfound", chan[c].data.at)
      \/ chan[c].err = "nil" /\ ~isNegativeEntry(chan[c].data) /\ Decodes(chan[c].data)
           /\ call'[c] = Idle("value", chan[c].data.at)
      \/ chan[c].err = "nil" /\ ~isNegativeEntry(chan[c].data) /\ ~Decodes(chan[c].data)
           /\ call'[c] = Idle("decode", call[c].out.at)
  BY <1>3, <1>5, <1>6
<1> QED BY <1>2, <1>7 DEF Answer

LEMMA CallGiven ==
  ASSUME NoDeadlines, SetInv, SetInv', Given, Next, NEW c \in Callers
  PROVE  call'[c].ctx = 0 /\ (call'[c].pc # "idle" => call'[c].ttl \in TTLs)
<1>1. call \in [Callers -> CallRecord] /\ call[c] \in CallRecord
  BY DEF SetInv, CallOK
<1>2. CASE call'[c] = call[c]
  BY <1>2 DEF Given
<1>3. ASSUME NEW ttl \in TTLs, NEW d \in CallTimeouts, Lookup(c, ttl, IF d = 0 THEN 0 ELSE now + d)
      PROVE  call'[c].ctx = 0 /\ (call'[c].pc # "idle" => call'[c].ttl \in TTLs)
  <2>1. Lookup(c, ttl, 0)
    BY <1>3 DEF NoDeadlines
  <2>2. CASE call'[c] = Idle("notfound", store.entry.at)
    BY <2>2 DEF Idle
  <2> QED BY <2>1, <2>2, LookupFinds
<1>4. ASSUME NEW o, NEW t, call'[c] = Idle(o, t)
      PROVE  call'[c].ctx = 0 /\ call'[c].pc = "idle"
  BY <1>4 DEF Idle
<1>5. CASE Serve(c)
  BY <1>1, <1>4, <1>5 DEF Serve
<1>6. CASE Heal(c) \/ Do(c)
  BY <1>1, <1>6 DEF Heal, Do, Given, CallRecord
<1>7. CASE Receive(c)
  <2>1. \E o, t : call'[c] = Idle(o, t)
    BY <1>7, ReceiveGives
  <2> QED BY <1>4, <2>1
<1>8. CASE Abandon(c)
  BY <1>1, <1>4, <1>8 DEF Abandon
<1> QED BY <1>2, <1>3, <1>5, <1>6, <1>7, <1>8, CallMoves DEF CallerStep

LEMMA GivenInductive ==
  ASSUME NoDeadlines, SetInv, SetInv', Given, Next
  PROVE  Given'
<1>1. ASSUME NEW g \in Flights, flight'[g].pc # "off"
      PROVE  flight'[g].ttl \in TTLs
  <2>1. CASE Begins(g)
    <3>1. PICK c \in Callers :
            \/ Do(c) /\ flight'[g] = missClosure(c)
            \/ Serve(c) /\ flight'[g] = refreshClosure(c, parseStored(call[c].data))
      BY <2>1 DEF Begins
    <3>2. call[c].pc # "idle"
      BY <3>1 DEF Do, Serve
    <3> QED BY <3>1, <3>2 DEF Given, missClosure, refreshClosure, NoFlight
  <2> QED BY <1>1, <2>1, ClosureOn DEF Given
<1> QED BY <1>1, CallGiven DEF Given

-----------------------------------------------------------------------------
(* Items expire.                                                           *)
LEMMA Lifetimes ==
  ASSUME OneLifetime, NEW ttl \in TTLs
  PROVE  /\ orDefault(ttl) \in Nat /\ orDefault(ttl) > 0
         /\ refreshTimeout(ttl) = orDefault(ttl) + StaleTTL
<1>1. ttl \in Nat /\ StaleTTL \in Nat
  BY TTLsNat, ConfigAssumption
<1>2. orDefault(ttl) \in Nat
  BY <1>1, DefaultNat
<1>3. orDefault(ttl) > 0
  BY DEF OneLifetime
<1> QED BY <1>1, <1>2, <1>3 DEF refreshTimeout

LEMMA toPXWithin == ASSUME NEW d \in Nat PROVE toPX(d) <= d \/ toPX(d) <= Milli
<1>1. Milli \in Nat \ {0} /\ Floor(d) \in Nat /\ d - Floor(d) \in 0 .. Milli - 1
  BY FloorRounds, FloorNat, ConfigAssumption
<1> QED BY <1>1 DEF toPX

LEMMA NoJitter ==
  ASSUME OneLifetime, NEW e, NEW ttl
  PROVE  applyJitter(ttl) = {ttl} /\ ttlFor(e, ttl) = {orDefault(ttl)}
<1>1. ttlJitter <= 0
  BY ConfigAssumption DEF OneLifetime, ttlJitter
<1> QED BY <1>1 DEF applyJitter, ttlFor

(* What packForStore asks the backend for.                                 *)
LEMMA PackLifetime ==
  ASSUME OneLifetime, NEW ttl \in TTLs, NEW p \in packForStore(ttl, now), NEW s \in TTLs
  PROVE  0 < orDefault(p.ttl) /\ orDefault(p.ttl) <= orDefault(s) + StaleTTL
<1>1. /\ orDefault(ttl) \in Nat /\ orDefault(ttl) > 0 /\ orDefault(s) = orDefault(ttl)
      /\ StaleTTL \in Nat
  BY Lifetimes, ConfigAssumption DEF OneLifetime
<1>2. CASE ~envelopeEnabled
  <2>1. p.ttl = ttl
    BY <1>2 DEF packForStore
  <2> QED BY <1>1, <2>1
<1>3. CASE envelopeEnabled
  <2>1. p.ttl = orDefault(ttl) + StaleTTL
    <3>1. applyJitter(orDefault(ttl)) = {orDefault(ttl)}
      BY NoJitter
    <3>2. p = [entry |-> wrapEnvelope(now + orDefault(ttl), now), ttl |-> orDefault(ttl) + StaleTTL]
      BY <1>1, <1>3, <3>1 DEF packForStore
    <3> QED BY <3>2
  <2>2. orDefault(p.ttl) = p.ttl
    BY <1>1, <2>1 DEF orDefault
  <2> QED BY <1>1, <2>1, <2>2
<1> QED BY <1>2, <1>3

LEMMA OnlyTicks == ASSUME Next PROVE now' = now \/ Tick
BY DEF Next, Lookup, CallerStep, Serve, Heal, Do, Receive, Abandon, FlightStep,
     Enter, Recheck, Judge, HealFlight, Load, StoreAndReturn, Forget, Deliver, LoaderOutcome,
     LoaderSucceeds, LoaderFindsNothing, LoaderFails, LoaderTimesOut, ForeignSet, Invalidate

LEMMA ItemExpiring ==
  ASSUME Alone, OneLifetime, SetInv, SetInv', Given, Expiring, Next, store' # NoItem
  PROVE  /\ store'.entry # NoEntry /\ now' < store'.deadline
         /\ \A ttl \in TTLs : store'.deadline <= now' + orDefault(ttl) + StaleTTL
<1>1. /\ now \in Nat /\ now' \in Nat /\ now <= now' /\ StaleTTL \in Nat
      /\ store.deadline \in Nat
      /\ \A ttl \in TTLs : orDefault(ttl) \in Nat
  BY NowMoves, Lifetimes, ConfigAssumption, SetAssumption DEF SetInv, StoreOK, Item
<1>2. CASE store' = store
  <2>1. /\ store.entry # NoEntry /\ now < store.deadline
        /\ \A ttl \in TTLs : store.deadline <= now + orDefault(ttl) + StaleTTL
    BY <1>2 DEF Expiring
  <2>2. now' < store.deadline
    <3>1. CASE Tick
      BY <1>1, <1>2, <2>1, <3>1 DEF Tick, Live
    <3> QED BY <1>1, <2>1, <3>1, OnlyTicks
  <2> QED BY <1>1, <1>2, <2>1, <2>2
<1>3. ASSUME NEW f \in Flights, StoreAndReturn(f),
             store' \in writtenItem(flight[f].data, flight[f].storeTTL, now)
      PROVE  /\ store'.entry # NoEntry /\ now' < store'.deadline
             /\ \A ttl \in TTLs : store'.deadline <= now' + orDefault(ttl) + StaleTTL
  <2>1. /\ flight[f].pc = "store" /\ now' = now
        /\ flight[f].storeTTL \in Nat
        /\ flight[f].data \in Stored(Instants)
    BY <1>3 DEF StoreAndReturn, SetInv, FlightOK, FlightRecord
  <2>2. /\ orDefault(flight[f].storeTTL) \in Nat /\ 0 < orDefault(flight[f].storeTTL)
        /\ \A ttl \in TTLs : orDefault(flight[f].storeTTL) <= orDefault(ttl) + StaleTTL
    BY <2>1, DefaultNat DEF Expiring
  <2> DEFINE d == orDefault(flight[f].storeTTL)
  <2>3. /\ store'.entry = flight[f].data
        /\ store' = ItemFor(flight[f].data, d, now) \/ store' = ItemFor(flight[f].data, toPX(d), now)
    BY <1>3, NoJitter, WrittenLifetime
  <2>4. d \in Nat /\ 0 < d /\ toPX(d) \in Nat /\ 0 < toPX(d)
    BY <2>2, toPXRounds
  <2>5. \A ttl \in TTLs : d <= orDefault(ttl) + StaleTTL /\ toPX(d) <= orDefault(ttl) + StaleTTL
    <3> SUFFICES ASSUME NEW ttl \in TTLs
                 PROVE  d <= orDefault(ttl) + StaleTTL /\ toPX(d) <= orDefault(ttl) + StaleTTL
      OBVIOUS
    <3>1. d <= orDefault(ttl) + StaleTTL /\ Milli <= orDefault(ttl) + StaleTTL
      BY <2>2 DEF OneLifetime
    <3>2. Milli \in Nat /\ orDefault(ttl) \in Nat
      BY <1>1, ConfigAssumption
    <3> HIDE DEF d
    <3> QED BY <1>1, <2>4, <3>1, <3>2, toPXWithin
  <2>6. store'.entry # NoEntry
    BY <2>1, <2>3, StoredKinds
  <2> HIDE DEF d
  <2>7. PICK u \in {d, toPX(d)} : store' = ItemFor(flight[f].data, u, now)
    BY <2>3
  <2>8. u \in Nat /\ 0 < u /\ \A ttl \in TTLs : u <= orDefault(ttl) + StaleTTL
    BY <2>4, <2>5
  <2>9. store'.deadline = now + u
    BY <2>7, <2>8 DEF ItemFor
  <2> QED BY <1>1, <2>1, <2>6, <2>8, <2>9
<1> QED BY <1>2, <1>3, StoreMoves

LEMMA WriteExpiring ==
  ASSUME OneLifetime, SetInv, SetInv', Given, Expiring, Next,
         NEW g \in Flights, flight'[g].pc = "store"
  PROVE  /\ 0 < orDefault(flight'[g].storeTTL)
         /\ \A ttl \in TTLs : orDefault(flight'[g].storeTTL) <= orDefault(ttl) + StaleTTL
<1>1. CASE flight'[g] = flight[g]
  BY <1>1 DEF Expiring
<1>2. CASE flight[g].pc = "loading" /\ \E p \in packForStore(flight[g].ttl, now) :
                                         flight'[g].storeTTL = p.ttl
  <2>1. flight[g].ttl \in TTLs
    BY <1>2 DEF Given
  <2> QED BY <1>2, <2>1, PackLifetime
<1>3. CASE flight[g].pc = "loading" /\ NegativeTTL > 0 /\ flight'[g].storeTTL = NegativeTTL
  <2>1. flight[g].ttl \in TTLs /\ orDefault(NegativeTTL) = NegativeTTL
    BY <1>3, ConfigAssumption DEF Given, orDefault
  <2> QED BY <1>3, <2>1 DEF OneLifetime
<1> QED BY <1>1, <1>2, <1>3, ReachesSet

LEMMA TimeoutExpiring ==
  ASSUME Alone, OneLifetime, SetInv, SetInv', Given, Expiring, Next,
         NEW g \in Flights, flight'[g].pc # "off", flight'[g].ctx # 0, store' # NoItem
  PROVE  store'.deadline <= flight'[g].ctx
<1>1. CASE Begins(g)
  <2>1. flight'[g].ctx = 0
    BY <1>1 DEF Begins, missClosure, refreshClosure, NoFlight, Given
  <2> QED BY <2>1
<1>2. CASE flight[g].pc # "off" /\ flight'[g].ctx = flight[g].ctx
  BY <1>2, NotWritten DEF Expiring
<1>3. CASE Enter(g)
  <2>1. flight[g].pc # "off" /\ flight[g] \in FlightRecord /\ store' = store
    BY <1>3 DEF Enter, SetInv, FlightOK
  <2>2. CASE flight[g].refresh
    <3>1. flight'[g].ctx = now + refreshTimeout(flight[g].ttl)
      BY <1>3, <2>1, <2>2 DEF Enter, FlightRecord, SetInv, FlightOK
    <3>2. flight[g].ttl \in TTLs
      BY <2>1 DEF Given
    <3>3. store.deadline <= now + orDefault(flight[g].ttl) + StaleTTL
      BY <2>1, <3>2 DEF Expiring
    <3>4. refreshTimeout(flight[g].ttl) = orDefault(flight[g].ttl) + StaleTTL
      BY <3>2, Lifetimes
    <3>5. now \in Nat /\ StaleTTL \in Nat
      BY ConfigAssumption, SetAssumption DEF SetInv
    <3>6. orDefault(flight[g].ttl) \in Nat
      BY <3>2, Lifetimes
    <3>7. now + (orDefault(flight[g].ttl) + StaleTTL) = now + orDefault(flight[g].ttl) + StaleTTL
      BY <3>5, <3>6
    <3> QED BY <2>1, <3>1, <3>3, <3>4, <3>7
  <2>3. CASE ~flight[g].refresh
    <3>1. flight' = [flight EXCEPT ![g].pc = "recheck", ![g].ctx = flight[g].ctx]
      BY <1>3, <2>1, <2>3 DEF Enter, SetInv, FlightOK
    <3>2. flight'[g].ctx = flight[g].ctx
      BY <2>1, <3>1 DEF FlightRecord, SetInv, FlightOK
    <3> QED BY <1>2, <2>1, <3>2
  <2> QED BY <2>2, <2>3
<1> QED BY <1>1, <1>2, <1>3, ClosureOn

LEMMA ExpiringInductive ==
  ASSUME Alone, OneLifetime, SetInv, SetInv', Given, Expiring, Next
  PROVE  Expiring'
BY ItemExpiring, WriteExpiring, TimeoutExpiring DEF Expiring

LEMMA ExpiringInitially == Init => Given /\ Expiring
BY DEF Init, Given, Expiring, Idle, NoFlight

(* A Get or a Set of a flight fails on its deadline only when there is     *)
(* nothing left in the backend.                                            *)
LEMMA ExpiredEmpty ==
  ASSUME SetInv, Expiring, NEW f \in Flights, flight[f].pc # "off", Expired(flight[f].ctx)
  PROVE  store = NoItem
BY SetAssumption DEF Expiring, Expired, SetInv, StoreOK, Item, FlightOK, FlightRecord

-----------------------------------------------------------------------------
(* Loads are not wasted.                                                   *)
LEMMA JudgedInductive ==
  ASSUME Alone, SetInv, SetInv', Judged, Next
  PROVE  Judged'
<1> SUFFICES ASSUME NEW g \in Flights, flight'[g].pc = "judge", store' # NoItem
             PROVE  flight'[g].data = store'.entry
  BY DEF Judged
<1>1. CASE flight'[g] = flight[g]
  BY <1>1, NotWritten DEF Judged
<1> QED BY <1>1, ReachesJudge

LEMMA PackOwn ==
  ASSUME OneLifetime, SetInv, Milli <= now, NEW ttl \in TTLs, NEW p \in packForStore(ttl, now)
  PROVE  Own(p.entry)
<1>1. CASE ~envelopeEnabled
  BY <1>1, PackReadable DEF Own
<1>2. CASE envelopeEnabled
  <2>1. orDefault(ttl) \in Nat /\ orDefault(ttl) > 0 /\ now \in Nat /\ Milli \in Nat
    BY Lifetimes, ConfigAssumption, SetAssumption DEF SetInv
  <2>2. applyJitter(orDefault(ttl)) = {orDefault(ttl)}
    BY NoJitter
  <2>3. p.entry = wrapEnvelope(now + orDefault(ttl), now)
    BY <1>2, <2>1, <2>2 DEF packForStore
  <2>4. parseStored(p.entry) = Floor(now + orDefault(ttl))
    BY <1>2, <2>3 DEF parseStored, wrapEnvelope, hasEnvelope
  <2>5. PICK u \in Nat : u = now + orDefault(ttl) /\ u >= Milli
    BY <2>1
  <2>6. Floor(u) # 0
    BY <2>1, <2>5, FloorRounds, FloorNat
  <2> QED BY <2>4, <2>5, <2>6, PackReadable DEF Own
<1> QED BY <1>1, <1>2

LEMMA OursInductive ==
  ASSUME Alone, OneLifetime, SetInv, SetInv', Milli <= now, Given, Ours, Next
  PROVE  Ours'
<1>1. Own(store'.entry)
  <2>1. CASE store' = NoItem
    BY <2>1 DEF NoItem, Own
  <2>2. ASSUME NEW f \in Flights, StoreAndReturn(f),
               store' \in writtenItem(flight[f].data, flight[f].storeTTL, now)
        PROVE  Own(store'.entry)
    <3>1. store'.entry = flight[f].data /\ flight[f].pc = "store"
      BY <2>2, WrittenLifetime DEF StoreAndReturn
    <3> QED BY <3>1 DEF Ours
  <2> QED BY <2>1, <2>2, StoreMoves DEF Ours
<1>2. ASSUME NEW g \in Flights PROVE flight'[g].pc # "heal"
  <2>1. ASSUME flight[g].pc = "judge" PROVE Decodes(flight[g].data)
    BY <2>1 DEF Ours, Own
  <2>2. flight[g].pc # "heal"
    BY DEF Ours
  <2> QED BY <2>1, <2>2, ReachesLoad
<1>3. ASSUME NEW g \in Flights, flight'[g].pc = "judge"
      PROVE  Own(flight'[g].data) /\ flight'[g].data # NoEntry /\ ~isNegativeEntry(flight'[g].data)
  BY <1>3, ReachesJudge DEF Ours
<1>4. ASSUME NEW g \in Flights, flight'[g].pc = "store"
      PROVE  Own(flight'[g].data)
  <2>1. CASE flight'[g] = flight[g]
    BY <1>4, <2>1 DEF Ours
  <2>2. CASE flight[g].pc = "loading" /\ \E p \in packForStore(flight[g].ttl, now) :
                                           flight'[g].data = p.entry
    <3>1. flight[g].ttl \in TTLs
      BY <2>2 DEF Given
    <3> QED BY <2>2, <3>1, PackOwn
  <2>3. CASE flight'[g].data = negativeMarker(now)
    BY <2>3 DEF Own, negativeMarker, isNegativeEntry
  <2> QED BY <1>4, <2>1, <2>2, <2>3, ReachesSet
<1> QED BY <1>1, <1>2, <1>3, <1>4 DEF Ours

LEMMA ReasonsInductive ==
  ASSUME EarlyRefreshBeta <= 0, SetInv, SetInv', Reasons, Next
  PROVE  Reasons'
<1> SUFFICES ASSUME NEW g \in Flights, flight'[g].pc # "off", flight'[g].refreshOf # 0
             PROVE  flight'[g].refreshOf < now' /\ envelopeEnabled
  BY DEF Reasons
<1>1. /\ now \in Nat /\ now' \in Nat /\ now <= now'
      /\ flight[g].refreshOf \in Nat /\ flight'[g].refreshOf \in Nat
  BY NowMoves, SetAssumption DEF SetInv, FlightOK, FlightRecord
<1>2. CASE Begins(g)
  <2>1. PICK c \in Callers :
          \/ Do(c) /\ flight'[g] = missClosure(c)
          \/ Serve(c) /\ flight'[g] = refreshClosure(c, parseStored(call[c].data))
    BY <1>2 DEF Begins
  <2>2. missClosure(c).refreshOf = 0
        /\ refreshClosure(c, parseStored(call[c].data)).refreshOf = parseStored(call[c].data)
    BY DEF missClosure, refreshClosure, NoFlight
  <2>3. Serve(c) /\ flight'[g].refreshOf = parseStored(call[c].data)
    BY <2>1, <2>2
  <2>4. earlyRefreshBeta <= 0
    BY ConfigAssumption DEF earlyRefreshBeta
  <2>5. envelopeEnabled /\ stale(parseStored(call[c].data), now)
    BY <1>2, <2>3, <2>4, RefreshHasReason DEF Begins
  <2> QED BY <1>1, <2>3, <2>5 DEF stale
<1>3. CASE flight[g].pc # "off" /\ flight'[g].refreshOf = flight[g].refreshOf
  BY <1>1, <1>3 DEF Reasons
<1> QED BY <1>2, <1>3, ClosureOn

LEMMA LoadsNeeded ==
  ASSUME Alone, "get" \notin Faults, SetInv, SetInv', Expiring, Judged, Ours, Reasons,
         NoWastedLoad, Next
  PROVE  NoWastedLoad'
<1> DEFINE Needed == store = NoItem \/ stale(parseStored(store.entry), now)
<1> SUFFICES ASSUME NEW g \in Flights, flight'[g].pc \in {"load", "loading"}
             PROVE  Needed'
  BY DEF NoWastedLoad
<1>1. now \in Nat /\ now' \in Nat /\ now <= now' /\ parseStored(store.entry) \in Nat
  BY NowMoves, SetAssumption DEF SetInv, StoreOK, Item, Entry, parseStored
<1>2. CASE flight'[g] = flight[g]
  <2>1. Needed
    BY <1>2 DEF NoWastedLoad
  <2>2. CASE store' = store
    BY <1>1, <2>1, <2>2 DEF stale
  <2> QED BY <1>2, <2>2, NotWritten
<1>3. CASE UNCHANGED <<now, store>> /\ flight[g].pc = "recheck" /\ NoEntry \in Get(Expired(flight[g].ctx))
  <2>1. CASE store.entry = NoEntry
    BY <1>3, <2>1 DEF Expiring
  <2>2. CASE Expired(flight[g].ctx)
    BY <1>3, <2>2, ExpiredEmpty
  <2> QED BY <1>3, <2>1, <2>2 DEF Get
<1>4. CASE UNCHANGED <<now, store>> /\ flight[g].pc = "judge" /\ ~Satisfied(g)
  <2>1. CASE store # NoItem
    <3>1. flight[g].data = store.entry
      BY <1>4, <2>1 DEF Judged
    <3>2. CASE flight[g].refreshOf # 0 /\ ~(parseStored(store.entry) > flight[g].refreshOf)
      <4>1. flight[g].refreshOf < now /\ envelopeEnabled /\ flight[g].refreshOf \in Nat
        BY <1>4, <3>2 DEF Reasons, SetInv, FlightOK, FlightRecord
      <4>2. parseStored(store.entry) # 0
        BY <1>4, <3>1, <4>1 DEF Ours, Own
      <4>3. stale(parseStored(store.entry), now)
        BY <1>1, <3>2, <4>1, <4>2 DEF stale
      <4> QED BY <1>4, <4>3
    <3>3. CASE stale(parseStored(store.entry), now)
      BY <1>4, <3>3
    <3> QED BY <1>4, <3>1, <3>2, <3>3 DEF Satisfied
  <2> QED BY <1>4, <2>1
<1>5. CASE flight[g].pc = "load" /\ UNCHANGED <<now, store>>
  BY <1>5 DEF NoWastedLoad
<1>6. flight[g].pc # "heal"
  BY DEF Ours
<1> QED BY <1>2, <1>3, <1>4, <1>5, <1>6, ReachesLoad

(* The re-check does its job: where one cache object has the key to        *)
(* itself, one lifetime is used and Get works, a loader only runs when the *)
(* backend holds no answer or a stale one - misses, refreshes, failed Sets *)
(* and late Deletes included, and however long a caller was delayed.       *)
THEOREM LoadsAreNeeded ==
  ASSUME Alone, OneLifetime, NoDeadlines, "get" \notin Faults, EarlyRefreshBeta <= 0
  PROVE  Spec => []NoWastedLoad
<1> DEFINE Inv == /\ SetInv /\ Milli <= now
                  /\ Given /\ Expiring /\ Judged /\ Ours /\ Reasons /\ NoWastedLoad
<1>1. Init => Inv
  <2> SUFFICES ASSUME Init PROVE Inv
    OBVIOUS
  <2>1. Milli <= now
    BY ConfigAssumption DEF Init
  <2>2. Judged /\ Reasons /\ NoWastedLoad
    BY DEF Init, Judged, Reasons, NoWastedLoad, NoFlight
  <2>3. Ours
    BY DEF Init, Ours, Own, NoItem, NoFlight
  <2> QED BY <2>1, <2>2, <2>3, SetInvInitially, ExpiringInitially
<1>2. Inv /\ [Next]_vars => Inv'
  <2> SUFFICES ASSUME Inv, [Next]_vars PROVE Inv'
    OBVIOUS
  <2>1. SetInv'
    BY SetInvInductive
  <2>2. CASE Next
    <3>1. Milli <= now'
      BY <2>2, NowMoves, ConfigAssumption, SetAssumption DEF SetInv
    <3>2. Given' /\ Expiring'
      BY <2>1, <2>2, GivenInductive, ExpiringInductive
    <3>3. Judged' /\ Ours' /\ Reasons'
      BY <2>1, <2>2, JudgedInductive, OursInductive, ReasonsInductive
    <3> QED BY <2>1, <2>2, <3>1, <3>2, <3>3, LoadsNeeded
  <2>3. CASE UNCHANGED vars
    BY <2>1, <2>3
       DEF vars, Given, Expiring, Judged, Ours, Own, Reasons, NoWastedLoad, Satisfied
  <2> QED BY <2>2, <2>3
<1> HIDE DEF Inv
<1>3. Inv => NoWastedLoad
  BY DEF Inv
<1> QED BY <1>1, <1>2, <1>3, PTL DEF Spec

-----------------------------------------------------------------------------
(* Answers come in order.                                                  *)

(* Where the answer of a closure that returns comes from.                  *)
LEMMA AnswerReturned ==
  ASSUME SetInv, NEW f \in Flights, Moves(f), state[f] = "running", state'[f] = "returned",
         Answer(res'[f])
  PROVE  \/ store' = store /\ store.entry # NoEntry /\ res'[f].data.at = store.entry.at
         \/ store' = store /\ flight[f].pc = "judge" /\ res'[f].data.at = flight[f].data.at
         \/ StoreAndReturn(f) /\ res'[f].data.at = flight[f].data.at
<1>1. PICK r \in Result :
        /\ Return(f, r)
        /\ \/ r.err # "nil"
           \/ r = Data(store.entry) /\ isNegativeEntry(store.entry) /\ Recheck(f)
           \/ r = Data(flight[f].data) /\ Satisfied(f) /\ Decodes(flight[f].data) /\ Judge(f)
           \/ r = Data(flight[f].data) /\ StoreAndReturn(f)
  BY ClosureEnds
<1>2. res'[f] = r
  BY <1>1, ReturnLeaves
<1>3. r.err = "nil"
  BY <1>2 DEF Answer
<1> QED BY <1>1, <1>2, <1>3 DEF Data, Recheck, Judge, isNegativeEntry, NoEntry

(* Where an answer that is new comes from: a lookup or a closure.          *)
LEMMA NewAnswer ==
  ASSUME SetInv, SetInv', Next, NEW u \in Answered'
  PROVE  \/ u \in Answered \cup {0}
         \/ /\ UNCHANGED <<now, store, flight, groupVars>>
            /\ store.entry # NoEntry /\ u = store.entry.at
         \/ \E f \in Flights : /\ Moves(f) /\ state[f] = "running" /\ state'[f] = "returned"
                               /\ Answer(res'[f]) /\ u = res'[f].data.at
<1>1. call \in [Callers -> CallRecord]
  BY DEF SetInv, CallOK
<1>2. ASSUME NEW o, NEW t PROVE Idle(o, t).pc = "idle" /\ Idle(o, t).out.at \in {t, 0}
  BY DEF Idle
<1>3. ASSUME NEW c \in Callers, call'[c] # call[c],
             \/ u = call'[c].out.at
             \/ call'[c].pc = "got" /\ u = call'[c].data.at
      PROVE  \/ u \in Answered \cup {0}
             \/ /\ UNCHANGED <<now, store, flight, groupVars>>
                /\ store.entry # NoEntry /\ u = store.entry.at
  <2>1. ASSUME NEW ttl, NEW ctx, Lookup(c, ttl, ctx)
        PROVE  \/ u \in Answered \cup {0}
               \/ /\ UNCHANGED <<now, store, flight, groupVars>>
                  /\ store.entry # NoEntry /\ u = store.entry.at
    <3>1. UNCHANGED <<now, store, flight, groupVars>>
      BY <2>1 DEF Lookup
    <3>2. store.entry.kind # "none" => store.entry # NoEntry
      BY DEF NoEntry
    <3>3. CASE store.entry.kind # "none" /\ call'[c] = Idle("notfound", store.entry.at)
      BY <1>2, <1>3, <3>1, <3>2, <3>3
    <3>4. CASE /\ call'[c].out = call[c].out
               /\ call'[c].pc = "got" => /\ store.entry.kind # "none"
                                         /\ call'[c].data = store.entry
      BY <1>3, <3>1, <3>2, <3>4 DEF Answered
    <3> QED BY <2>1, <3>3, <3>4, LookupFinds
  <2>2. CASE Serve(c)
    <3>1. call'[c] = Idle("value", call[c].data.at) /\ call[c].pc = "got"
      BY <1>1, <2>2 DEF Serve
    <3> QED BY <1>2, <1>3, <3>1 DEF Answered
  <2>3. CASE Heal(c) \/ Do(c)
    <3>1. call'[c].pc # "got" /\ call'[c].out = call[c].out
      BY <1>1, <2>3 DEF Heal, Do, CallRecord
    <3> QED BY <1>3, <3>1 DEF Answered
  <2>4. CASE Receive(c)
    <3>1. PICK o : \/ call'[c] = Idle(o, call[c].out.at)
                   \/ Answer(chan[c]) /\ call'[c] = Idle(o, chan[c].data.at)
      BY <2>4, ReceiveGives
    <3> QED BY <1>2, <1>3, <3>1 DEF Answered
  <2>5. CASE Abandon(c)
    <3>1. call'[c] = Idle("ctx", call[c].out.at)
      BY <1>1, <2>5 DEF Abandon
    <3> QED BY <1>2, <1>3, <3>1 DEF Answered
  <2> QED BY <1>3, <2>1, <2>2, <2>3, <2>4, <2>5, CallMoves DEF CallerStep
<1>4. ASSUME NEW c \in Callers, Answer(chan'[c]), u = chan'[c].data.at
      PROVE  u \in Answered
  <2>1. CASE chan'[c] = chan[c]
    BY <1>4, <2>1 DEF Answered
  <2>2. ASSUME NEW f \in Flights, chan'[c] = res[f]
        PROVE  u \in Answered
    BY <1>4, <2>2 DEF Answered
  <2>3. chan'[c] # NoResult
    BY <1>4 DEF Answer
  <2> QED BY <2>1, <2>2, <2>3, ChanMoves
<1>5. ASSUME NEW f \in Flights, Answer(res'[f]), u = res'[f].data.at
      PROVE  \/ u \in Answered
             \/ Moves(f) /\ state[f] = "running" /\ state'[f] = "returned"
  <2>1. CASE res'[f] = res[f]
    BY <1>5, <2>1 DEF Answered
  <2>2. res'[f] # NoResult
    BY <1>5 DEF Answer
  <2>3. CASE Moves(f)
    BY <2>1, <2>2, <2>3, MoveKinds DEF groupVars
  <2> QED BY <2>1, <2>3, FlightMoves DEF Begins, Untouched
<1>6. \/ \E c \in Callers : \/ u = call'[c].out.at
                            \/ call'[c].pc = "got" /\ u = call'[c].data.at
                            \/ Answer(chan'[c]) /\ u = chan'[c].data.at
      \/ \E f \in Flights : Answer(res'[f]) /\ u = res'[f].data.at
  BY DEF Answered, Answer
<1>7. ASSUME NEW c \in Callers, call'[c] = call[c],
             \/ u = call'[c].out.at
             \/ call'[c].pc = "got" /\ u = call'[c].data.at
      PROVE  u \in Answered
  BY <1>7 DEF Answered
<1> QED BY <1>3, <1>4, <1>5, <1>6, <1>7

(* The place of a caller in the group.                                     *)
LEMMA WaitMoves ==
  ASSUME SetInv, Next, NEW c \in Callers
  PROVE  \/ waits'[c] = waits[c] /\ chan'[c] = chan[c]
         \/ Do(c) /\ waits[c] = None /\ chan[c] = NoResult /\ chan'[c] = NoResult
         \/ Receive(c) /\ waits'[c] = waits[c] /\ chan[c] # NoResult /\ chan'[c] = NoResult
         \/ Abandon(c) /\ waits'[c] = None /\ chan'[c] = NoResult
         \/ \E f \in Flights : /\ Deliver(f) /\ waits[c] = f
                               /\ waits'[c] = None /\ chan'[c] = res[f]
<1>1. G!TypeOK
  BY GroupTyped
<1>2. ASSUME NEW d \in Callers, CallerStep(d), d # c
      PROVE  waits'[c] = waits[c] /\ chan'[c] = chan[c]
  BY <1>1, <1>2 DEF CallerStep, Serve, refreshAsync, Heal, Do, Receive, Abandon, G!DoAsync,
                    G!Do, G!Receive, G!Leave, G!TypeOK, groupVars
<1>3. CASE Serve(c) \/ Heal(c)
  BY <1>3 DEF Serve, refreshAsync, Heal, G!DoAsync, groupVars
<1>4. CASE Do(c)
  BY <1>1, <1>4 DEF Do, G!Do, G!InDo
<1>5. CASE Receive(c)
  BY <1>1, <1>5 DEF Receive, G!Receive, G!TypeOK
<1>6. CASE Abandon(c)
  BY <1>1, <1>6 DEF Abandon, G!Leave, G!TypeOK
<1>7. ASSUME NEW f \in Flights, NEW r, Return(f, r)
      PROVE  waits'[c] = waits[c] /\ chan'[c] = chan[c]
  BY <1>7 DEF Return, G!FnReturn
<1>8. ASSUME NEW f \in Flights, Moves(f), ~Deliver(f)
      PROVE  waits'[c] = waits[c] /\ chan'[c] = chan[c]
  BY <1>7, <1>8 DEF Moves, FlightStep, LoaderOutcome, Enter, Recheck, Judge, HealFlight, Load,
       StoreAndReturn, Forget, LoaderSucceeds, LoaderFindsNothing, LoaderFails,
       LoaderTimesOut, G!Forget, groupVars
<1>9. ASSUME NEW f \in Flights, Deliver(f)
      PROVE  \/ waits'[c] = waits[c] /\ chan'[c] = chan[c]
             \/ waits[c] = f /\ waits'[c] = None /\ chan'[c] = res[f]
  BY <1>9 DEF Deliver, G!Deliver
<1> QED BY <1>2, <1>3, <1>4, <1>5, <1>6, <1>8, <1>9
        DEF Next, Moves, CallerStep, Lookup, Tick, ForeignSet, Invalidate, groupVars

LEMMA AtSelectInductive ==
  ASSUME SetInv, AtSelect, Next
  PROVE  AtSelect'
<1> SUFFICES ASSUME NEW c \in Callers
             PROVE  /\ waits'[c] = None \/ chan'[c] = NoResult
                    /\ waits'[c] # None \/ chan'[c] # NoResult => call'[c].pc = "wait"
  BY DEF AtSelect
<1>1. call \in [Callers -> CallRecord]
  BY DEF SetInv, CallOK
<1>2. CASE Do(c)
  <2>1. call'[c].pc = "wait" /\ ~Receive(c) /\ ~Abandon(c)
    BY <1>1, <1>2 DEF Do, Receive, Abandon, CallRecord
  <2>2. ASSUME NEW f \in Flights, Deliver(f) PROVE FALSE
    BY <1>1, <1>2, <2>1, <2>2 DEF Do, Deliver, CallRecord
  <2> QED BY <2>1, <2>2, WaitMoves DEF AtSelect
<1>3. CASE Receive(c) \/ Abandon(c)
  <2>1. waits'[c] = None /\ chan'[c] = NoResult
    BY <1>3, GroupTyped DEF Receive, Abandon, G!Receive, G!Leave, G!TypeOK, AtSelect
  <2> QED BY <2>1
<1>4. CASE ~Do(c) /\ ~Receive(c) /\ ~Abandon(c)
  <2>1. call[c].pc = "wait" => call'[c] = call[c]
    BY <1>4, CallMoves DEF CallerStep, Lookup, Serve, Heal
  <2> QED BY <1>4, <2>1, WaitMoves, RangeAssumption DEF AtSelect
<1> QED BY <1>2, <1>3, <1>4

LEMMA AnsweredNat == ASSUME SetInv PROVE Answered \subseteq Nat
<1> SUFFICES ASSUME NEW u \in Answered PROVE u \in Nat
  OBVIOUS
<1>1. ASSUME NEW c \in Callers PROVE call[c].out.at \in Nat /\ call[c].data.at \in Nat
  BY DEF SetInv, CallOK, CallRecord, Entry
<1>2. ASSUME NEW c \in Callers, Answer(chan[c]) PROVE chan[c].data.at \in Nat
  BY <1>2, GroupTyped, ResultTyped DEF Answer, G!TypeOK
<1>3. ASSUME NEW f \in Flights, Answer(res[f]) PROVE res[f].data.at \in Nat
  BY <1>3, GroupTyped, ResultTyped DEF Answer, G!TypeOK
<1> QED BY <1>1, <1>2, <1>3 DEF Answered

(* The answer a closure returns is as new as what is stored then, and      *)
(* there is none that is newer.                                            *)
LEMMA ReturnsNewest ==
  ASSUME Alone, "set" \notin Faults, SetInv, InOrder, Expiring, Judged, Newest,
         NEW f \in Flights, Moves(f), state[f] = "running", state'[f] = "returned",
         Answer(res'[f])
  PROVE  /\ res'[f].data.at \in Nat /\ res'[f].data.at <= now /\ NoneAfter(res'[f].data.at)
         /\ store' # NoItem => store'.entry.at = res'[f].data.at
<1>1. CASE store' = store /\ store.entry # NoEntry /\ res'[f].data.at = store.entry.at
  BY <1>1, Instants0 DEF Newest, InOrder, NoItem
<1>2. CASE store' = store /\ flight[f].pc = "judge" /\ res'[f].data.at = flight[f].data.at
  BY <1>2, Instants0 DEF Newest, Judged
<1>3. CASE StoreAndReturn(f) /\ res'[f].data.at = flight[f].data.at
  <2>1. flight[f].pc = "store"
    BY <1>3 DEF StoreAndReturn
  <2>2. store' # NoItem => store'.entry = flight[f].data
    <3>1. CASE store' \in writtenItem(flight[f].data, flight[f].storeTTL, now)
      BY <3>1, WrittenLifetime
    <3>2. CASE Expired(flight[f].ctx) /\ store' = store
      BY <2>1, <3>2, ExpiredEmpty
    <3> QED BY <1>3, <3>1, <3>2 DEF StoreAndReturn, Set
  <2> QED BY <1>3, <2>1, <2>2, Instants0 DEF Newest
<1> QED BY <1>1, <1>2, <1>3, AnswerReturned

(* What bounds the answers before a step bounds them after it, if it       *)
(* bounds what the step adds.                                              *)
LEMMA StillNone ==
  ASSUME SetInv, SetInv', Next, NEW t \in Nat, NoneAfter(t),
         UNCHANGED <<now, store, flight, groupVars>> /\ store.entry # NoEntry
           => store.entry.at <= t,
         \A f \in Flights :
           Moves(f) /\ state[f] = "running" /\ state'[f] = "returned" /\ Answer(res'[f])
             => res'[f].data.at <= t
  PROVE  \A u \in Answered' : u <= t
BY NewAnswer DEF NoneAfter

LEMMA NewestOfStore ==
  ASSUME Alone, "set" \notin Faults, SetInv, SetInv', InOrder, Expiring, Judged, Newest, Next
  PROVE  NoneAfter(now)' /\ (store' # NoItem => NoneAfter(store.entry.at)')
<1>1. /\ now \in Nat /\ now' \in Nat /\ now <= now'
      /\ store.entry.at \in Nat /\ store.entry.at <= now
      /\ Answered \subseteq Nat
  BY NowMoves, Instants0, AnsweredNat DEF InOrder
<1>2. ASSUME NEW f \in Flights, Moves(f), state[f] = "running", state'[f] = "returned",
             Answer(res'[f])
      PROVE  /\ res'[f].data.at \in Nat /\ res'[f].data.at <= now /\ NoneAfter(res'[f].data.at)
             /\ store' # NoItem => store'.entry.at = res'[f].data.at
  BY <1>2, ReturnsNewest
<1>3. NoneAfter(now)'
  <2>1. NoneAfter(now')
    BY <1>1 DEF Newest, NoneAfter
  <2>2. \A u \in Answered' : u <= now'
    <3>1. store.entry.at <= now'
      BY <1>1
    <3>2. \A f \in Flights :
            Moves(f) /\ state[f] = "running" /\ state'[f] = "returned" /\ Answer(res'[f])
              => res'[f].data.at <= now'
      BY <1>1, <1>2
    <3> QED BY <1>1, <2>1, <3>1, <3>2, StillNone
  <2> QED BY <2>2 DEF NoneAfter
<1>4. ASSUME store' # NoItem
      PROVE  \A u \in Answered' : u <= store'.entry.at
  <2>1. CASE store' = store
    <3>1. NoneAfter(store.entry.at)
      BY <1>4, <2>1 DEF Newest
    <3>2. \A f \in Flights :
            Moves(f) /\ state[f] = "running" /\ state'[f] = "returned" /\ Answer(res'[f])
              => res'[f].data.at <= store.entry.at
      BY <1>1, <1>2, <1>4, <2>1
    <3>3. store.entry.at <= store.entry.at
      BY <1>1
    <3> QED BY <1>1, <2>1, <3>1, <3>2, <3>3, StillNone
  <2>2. ASSUME NEW f \in Flights, StoreAndReturn(f),
               store' \in writtenItem(flight[f].data, flight[f].storeTTL, now)
        PROVE  \A u \in Answered' : u <= store'.entry.at
    <3>1. /\ store'.entry.at = flight[f].data.at /\ flight[f].pc = "store"
          /\ flight[f].data.at \in Nat
      BY <2>2, Instants0, WrittenLifetime DEF StoreAndReturn
    <3>2. NoneAfter(flight[f].data.at) /\ store.entry.at <= flight[f].data.at
      BY <3>1 DEF Newest, InOrder
    <3>3. \A g \in Flights :
            Moves(g) /\ state[g] = "running" /\ state'[g] = "returned" /\ Answer(res'[g])
              => res'[g].data.at <= flight[f].data.at
      BY <1>2, <1>4, <3>1
    <3> QED BY <3>1, <3>2, <3>3, StillNone
  <2> QED BY <1>4, <2>1, <2>2, StoreMoves
<1> QED BY <1>3, <1>4 DEF NoneAfter

LEMMA NewestInHand ==
  ASSUME Alone, SetInv, SetInv', InOrder, Judged, Newest, Next,
         NEW g \in Flights, flight'[g].pc \in {"judge", "store"}
  PROVE  (\A u \in Answered' : u <= flight'[g].data.at) /\ flight'[g].data.at <= now'
<1>1. /\ now \in Nat /\ now' \in Nat /\ now <= now'
      /\ store.entry.at \in Nat /\ store.entry.at <= now
      /\ flight[g].data.at \in Nat
  BY NowMoves, Instants0 DEF InOrder
<1>2. CASE flight'[g] = flight[g]
  <2>1. NoneAfter(flight[g].data.at) /\ flight[g].data.at <= now
    BY <1>2 DEF Newest
  <2>2. store.entry # NoEntry => store.entry.at <= flight[g].data.at
    BY <1>1, <1>2 DEF InOrder, Judged, NoItem
  <2>3. ASSUME NEW f \in Flights, Moves(f), state[f] = "running", state'[f] = "returned"
        PROVE  FALSE
    <3>1. state[g] = "running" /\ state'[g] = "running"
      BY <1>2 DEF SetInv, Executing
    <3> QED BY <2>3, <3>1, OnlyFlight
  <2> QED BY <1>1, <1>2, <2>1, <2>2, <2>3, StillNone
<1>3. CASE UNCHANGED <<now, store, call, groupVars>> /\ flight'[g].data = store.entry
             /\ store.entry # NoEntry
  BY <1>1, <1>3 DEF Newest, NoItem, NoneAfter, Answered, groupVars
<1>4. CASE UNCHANGED <<now, store, call, groupVars>> /\ flight'[g].data.at = now
  BY <1>1, <1>4 DEF Newest, NoneAfter, Answered, groupVars
<1> QED BY <1>2, <1>3, <1>4, ReachesJudge, ReachesSet

LEMMA NewestResult ==
  ASSUME Alone, "set" \notin Faults, SetInv, SetInv', InOrder, Expiring, Judged, Newest,
         ResultsCurrent, Next,
         NEW g \in Flights, state'[g] = "returned", Answer(res'[g])
  PROVE  /\ \A u \in Answered' : u <= res'[g].data.at
         /\ store' # NoItem => store'.entry.at <= res'[g].data.at
<1>1. store.entry.at \in Nat
  BY Instants0
<1>2. CASE state[g] = "running" /\ Moves(g)
  <2> DEFINE t == res'[g].data.at
  <2>1. t \in Nat /\ NoneAfter(t) /\ (store' # NoItem => store'.entry.at = t)
    BY <1>2, ReturnsNewest
  <2>2. ASSUME NEW f \in Flights, Moves(f), state[f] = "running", state'[f] = "returned"
        PROVE  f = g
    BY <1>2, <2>2, OnlyFlight
  <2>3. ~UNCHANGED groupVars
    BY <1>2 DEF groupVars
  <2> HIDE DEF t
  <2>4. \A f \in Flights :
          Moves(f) /\ state[f] = "running" /\ state'[f] = "returned" /\ Answer(res'[f])
            => res'[f].data.at <= t
    BY <2>1, <2>2 DEF t
  <2>5. \A u \in Answered' : u <= t
    BY <2>1, <2>3, <2>4, StillNone
  <2> QED BY <2>1, <2>5 DEF t
<1>3. CASE state[g] = "returned" /\ res'[g] = res[g]
  <2> DEFINE t == res[g].data.at
  <2>1. /\ NoneAfter(t) /\ (store # NoItem => store.entry.at <= t)
        /\ t \in Nat
    BY <1>3, AnsweredNat DEF Newest, Answered
  <2>2. ASSUME NEW f \in Flights, Moves(f), state[f] = "running", state'[f] = "returned"
        PROVE  FALSE
    BY <1>3, <2>2, OnlyFlight
  <2>3. ASSUME NEW f \in Flights, StoreAndReturn(f) PROVE FALSE
    <3>1. Moves(f) /\ flight[f].pc = "store"
      BY <2>3 DEF Moves, FlightStep, StoreAndReturn
    <3>2. state[f] = "running"
      BY <3>1 DEF SetInv, Executing
    <3> QED BY <1>3, <3>2, OnlyFlight
  <2>4. store' = store \/ store' = NoItem
    BY <2>3, StoreMoves
  <2> HIDE DEF t
  <2>5. store.entry # NoEntry => store.entry.at <= t
    BY <2>1 DEF NoItem
  <2>6. \A u \in Answered' : u <= t
    BY <2>1, <2>2, <2>5, StillNone
  <2> QED BY <1>3, <2>1, <2>4, <2>6 DEF t
<1>4. CASE Moves(g)
  BY <1>2, <1>3, <1>4, MoveKinds DEF groupVars
<1>5. CASE Begins(g)
  BY <1>5 DEF Begins
<1>6. CASE Untouched(g)
  BY <1>3, <1>6 DEF Untouched
<1> QED BY <1>4, <1>5, <1>6, FlightMoves

LEMMA NewestInductive ==
  ASSUME Alone, "set" \notin Faults, SetInv, SetInv', InOrder, Expiring, Judged, Newest,
         ResultsCurrent, Next
  PROVE  Newest'
BY NewestOfStore, NewestInHand, NewestResult DEF Newest, NoneAfter

LEMMA AheadInductive ==
  ASSUME Alone, SetInv, SetInv', Newest, Newest', ResultsCurrent', AtSelect, AtSelect', Ahead, Next
  PROVE  Ahead'
<1> SUFFICES ASSUME NEW c \in Callers
             PROVE  /\ call'[c].pc = "got" => call'[c].out.at <= call'[c].data.at
                    /\ Answer(chan'[c]) => call'[c].out.at <= chan'[c].data.at
                    /\ waits'[c] # None /\ Answer(res'[waits'[c]])
                         => call'[c].out.at <= res'[waits'[c]].data.at
  BY DEF Ahead, Answer
<1>1. call \in [Callers -> CallRecord] /\ call'[c].out.at \in Answered'
  BY DEF SetInv, CallOK, Answered
<1>2. ASSUME call'[c].pc = "got" PROVE call'[c].out.at <= call'[c].data.at
  <2>1. ASSUME NEW o, NEW t PROVE call'[c] # Idle(o, t)
    BY <1>2 DEF Idle
  <2>2. CASE call'[c] = call[c]
    BY <1>2, <2>2 DEF Ahead
  <2>3. ASSUME NEW ttl, NEW ctx, Lookup(c, ttl, ctx)
        PROVE  call'[c].out.at <= call'[c].data.at
    <3>1. call'[c].data = store.entry /\ store.entry.kind # "none"
      BY <1>2, <2>1, <2>3, LookupFinds
    <3>2. store' = store /\ store # NoItem
      BY <2>3, <3>1 DEF Lookup, NoItem, NoEntry
    <3> QED BY <1>1, <3>1, <3>2 DEF Newest, NoneAfter
  <2>4. CASE CallerStep(c)
    <3>1. CASE Receive(c)
      BY <2>1, <3>1, ReceiveGives
    <3> QED BY <1>1, <1>2, <2>1, <2>4, <3>1 DEF CallerStep, Serve, Heal, Do, Abandon, CallRecord
  <2> QED BY <2>2, <2>3, <2>4, CallMoves
<1>3. ASSUME waits'[c] # None \/ chan'[c] # NoResult
      PROVE  call'[c].out = call[c].out
  <2>1. call'[c].pc = "wait"
    BY <1>3 DEF AtSelect
  <2>2. ASSUME NEW o, NEW t PROVE call'[c] # Idle(o, t)
    BY <2>1 DEF Idle
  <2>3. ASSUME NEW ttl, NEW ctx, Lookup(c, ttl, ctx) PROVE call'[c].out = call[c].out
    BY <2>2, <2>3, LookupFinds
  <2>4. CASE Heal(c) \/ Do(c)
    BY <1>1, <2>4 DEF Heal, Do, CallRecord
  <2>5. ~Serve(c) /\ ~Receive(c) /\ ~Abandon(c)
    BY <1>1, <2>2, ReceiveGives DEF Serve, Abandon
  <2> QED BY <2>3, <2>4, <2>5, CallMoves DEF CallerStep
<1>4. ASSUME Answer(chan'[c]) PROVE call'[c].out.at <= chan'[c].data.at
  <2>1. chan'[c] # NoResult
    BY <1>4 DEF Answer
  <2>2. CASE chan'[c] = chan[c]
    BY <1>3, <1>4, <2>1, <2>2 DEF Ahead
  <2>3. ASSUME NEW f \in Flights, waits[c] = f, chan'[c] = res[f]
        PROVE  call'[c].out.at <= chan'[c].data.at
    BY <1>3, <1>4, <2>1, <2>3, RangeAssumption DEF Ahead
  <2> QED BY <2>1, <2>2, <2>3, ChanMoves
<1>5. ASSUME waits'[c] # None, Answer(res'[waits'[c]])
      PROVE  call'[c].out.at <= res'[waits'[c]].data.at
  <2> DEFINE f == waits'[c]
  <2>1. f \in Flights /\ res'[f] # NoResult /\ P!TypeOK' /\ state'[f] \in {"returned", "forgotten"}
    BY <1>5 DEF Answer, SetInv, P!GroupInv, P!TypeOK, ResultsCurrent
  <2>2. CASE state'[f] = "returned"
    BY <1>1, <1>5, <2>1, <2>2 DEF Newest, NoneAfter
  <2>3. CASE state'[f] = "forgotten"
    <3>1. waits[c] = f
      <4>1. CASE Do(c)
        <5>1. PICK g \in Flights : G!Do(c, flightKey(c), g)
          BY <4>1 DEF Do
        <5>2. g = f /\ G!Start(flightKey(c), f) /\ flightKey(c) \in Caches
          BY <5>1, GroupTyped, SetAssumption DEF G!Do, G!TypeOK, flightKey
        <5>3. state'[f] = "running" \/ state'[f] \in {"running", "returned"}
          BY <5>2, <2>1, GroupTyped
             DEF G!Start, G!Join, G!Begin, G!TypeOK, SetInv, P!GroupInv, P!MapIsCurrent, P!InFlight
        <5> QED BY <2>3, <5>3
      <4> QED BY <1>5, <4>1, WaitMoves
    <3>2. res'[f] = res[f]
      BY <2>1, <2>3, MoveKinds, FlightMoves DEF Begins, Untouched, groupVars
    <3> QED BY <1>3, <1>5, <3>1, <3>2 DEF Ahead
  <2> QED BY <2>1, <2>2, <2>3
<1> QED BY <1>2, <1>4, <1>5

LEMMA ReadsOrdered ==
  ASSUME Remember, SetInv, Newest, Ahead, Next, NEW c \in Callers
  PROVE  call'[c].out.at >= call[c].out.at
<1>1. call \in [Callers -> CallRecord] /\ call[c].out.at \in Nat /\ store.entry.at \in Nat
  BY Instants0 DEF SetInv, CallOK, CallRecord
<1>2. ASSUME NEW o, NEW t PROVE Idle(o, t).out.at = t
  BY DEF Idle
<1>3. CASE call'[c].out = call[c].out
  BY <1>1, <1>3
<1>4. ASSUME NEW ttl, NEW ctx, Lookup(c, ttl, ctx) PROVE call'[c].out.at >= call[c].out.at
  <2>1. CASE store.entry.kind # "none" /\ call'[c] = Idle("notfound", store.entry.at)
    <3>1. store # NoItem /\ call[c].out.at \in Answered
      BY <2>1 DEF NoItem, NoEntry, Answered
    <3> QED BY <1>1, <1>2, <2>1, <3>1 DEF Newest, NoneAfter
  <2> QED BY <1>3, <1>4, <2>1, LookupFinds
<1>5. CASE Serve(c)
  <2>1. call'[c] = Idle("value", call[c].data.at) /\ call[c].pc = "got" /\ call[c].data.at \in Nat
    BY <1>1, <1>5 DEF Serve, CallRecord, Entry
  <2> QED BY <1>1, <1>2, <2>1 DEF Ahead
<1>6. CASE Receive(c)
  <2>1. PICK o : \/ call'[c] = Idle(o, call[c].out.at)
                 \/ Answer(chan[c]) /\ call'[c] = Idle(o, chan[c].data.at)
    BY <1>6, ReceiveGives
  <2>2. Answer(chan[c]) => chan[c].data.at \in Nat /\ call[c].out.at <= chan[c].data.at
    BY AnsweredNat DEF Ahead, Answered
  <2> QED BY <1>1, <1>2, <2>1, <2>2
<1>7. CASE Abandon(c)
  BY <1>1, <1>2, <1>7 DEF Abandon
<1>8. CASE Heal(c) \/ Do(c)
  <2>1. call'[c].out = call[c].out
    BY <1>1, <1>8 DEF Heal, Do, CallRecord
  <2> QED BY <1>3, <2>1
<1> QED BY <1>3, <1>4, <1>5, <1>6, <1>7, <1>8, CallMoves DEF CallerStep

LEMMA AheadInitially ==
  ASSUME Init
  PROVE  InOrder /\ Given /\ Expiring /\ Judged /\ Newest /\ AtSelect /\ Ahead
<1>1. Answered \subseteq {0}
  <2>1. \A c \in Callers : call[c].out.at = 0 /\ call[c].pc = "idle" /\ chan[c] = NoResult
    BY DEF Init, Idle, G!Init
  <2>2. \A f \in Flights : res[f] = NoResult
    BY DEF Init, G!Init
  <2> QED BY <2>1, <2>2 DEF Answered, Answer
<1>2. NoneAfter(now) /\ store = NoItem
  BY <1>1, ConfigAssumption DEF NoneAfter, Init
<1>3. \A f \in Flights : flight[f].pc = "off" /\ state[f] = "free"
  BY DEF Init, NoFlight, G!Init
<1>4. Newest /\ Judged
  BY <1>2, <1>3 DEF Newest, Judged
<1>5. AtSelect /\ Ahead
  BY DEF Init, Idle, G!Init, AtSelect, Ahead, Answer
<1> QED BY <1>4, <1>5, InOrderInitially, ExpiringInitially

(* A caller never gets an older answer than the one it got before, where   *)
(* one cache object has the key to itself, one lifetime is used and no Set *)
(* fails: whatever is read, joined or loaded is at least as new as every   *)
(* answer that any caller has, however Gets and Deletes fail and loaders   *)
(* end.                                                                    *)
THEOREM ReadsMonotonic ==
  ASSUME Alone, OneLifetime, NoDeadlines, "set" \notin Faults, Remember
  PROVE  Spec => MonotonicReads
<1> DEFINE Inv == /\ AnswerInv /\ InOrder /\ Given /\ Expiring /\ Judged
                  /\ Newest /\ AtSelect /\ Ahead
           Forward == \A c \in Callers : call'[c].out.at >= call[c].out.at
<1>1. Init => Inv
  BY AnswerInvInitially, AheadInitially
<1>2. Inv /\ [Next]_vars => Inv' /\ [Forward]_vars
  <2> SUFFICES ASSUME Inv, [Next]_vars PROVE Inv' /\ [Forward]_vars
    OBVIOUS
  <2>1. SetInv /\ ResultsCurrent
    BY DEF AnswerInv
  <2>2. AnswerInv' /\ SetInv' /\ ResultsCurrent'
    BY AnswerInvInductive DEF AnswerInv
  <2>3. CASE Next
    <3>1. InOrder' /\ Given' /\ Expiring' /\ Judged'
      BY <2>1, <2>2, <2>3, InOrderInductive, GivenInductive, ExpiringInductive, JudgedInductive
    <3>2. Newest' /\ AtSelect'
      BY <2>1, <2>2, <2>3, NewestInductive, AtSelectInductive
    <3>3. Ahead'
      BY <2>1, <2>2, <2>3, <3>2, AheadInductive
    <3>4. Forward
      BY <2>1, <2>3, ReadsOrdered
    <3> QED BY <2>2, <3>1, <3>2, <3>3, <3>4
  <2>4. CASE UNCHANGED vars
    <3>1. InOrder' /\ Given' /\ Expiring' /\ Judged'
      BY <2>4 DEF vars, InOrder, Given, Expiring, Judged
    <3>2. Answered' = Answered
      BY <2>4 DEF vars, groupVars, Answered, Answer
    <3>3. Newest' /\ AtSelect' /\ Ahead'
      BY <2>4, <3>2 DEF vars, groupVars, Newest, NoneAfter, AtSelect, Ahead, Answer
    <3> QED BY <2>2, <2>4, <3>1, <3>3
  <2> QED BY <2>3, <2>4
<1> HIDE DEF Inv
<1> QED BY <1>1, <1>2, PTL DEF Spec, MonotonicReads, Forward
=============================================================================
