--------------------------- MODULE GetOrSetProofs ---------------------------
(***************************************************************************)
(* Proofs about GetOrSet, for any number of callers, cache objects and     *)
(* flights and any configuration.                                          *)
(*                                                                         *)
(* A step of GetOrSet is one of the group only if what a flight returns is *)
(* a result in the group's sense.  So the invariant follows every entry    *)
(* from the loader or the backend to the flight that returns it, and takes *)
(* the group's own invariant along: without it, a caller that joins could  *)
(* overwrite the closure of a flight.                                      *)
(***************************************************************************)
EXTENDS GetOrSet, TLAPS

P == INSTANCE LoadGroupProofs WITH Keys <- Caches, Results <- Result

(* What a backend can hold, a miss included.                               *)
Bytes == Stored(Instants) \cup {NoEntry}

StoreOK == store \in Item(Nat) /\ store.entry \in Bytes

(* A flight that is about to return an entry has one.                      *)
FlightOK ==
  /\ flight \in [Flights -> FlightRecord]
  /\ \A f \in Flights :
       /\ flight[f].data \in Bytes
       /\ flight[f].pc \in {"judge", "store"} => flight[f].data \in Stored(Instants)

CallOK == call \in [Callers -> CallRecord]

(* A closure is only executed by a flight the group has running.           *)
Executing == \A f \in Flights : flight[f].pc # "off" => state[f] = "running"

(* The inductive invariant: types, what the entries can be, and the        *)
(* invariant of the group.                                                 *)
SetInv ==
  /\ now \in 0..MaxTime
  /\ StoreOK /\ FlightOK /\ CallOK
  /\ Executing
  /\ P!GroupInv

-----------------------------------------------------------------------------
(* The operators of Entries.                                               *)
LEMMA FloorNat == ASSUME NEW t \in Nat PROVE Floor(t) \in Nat
BY ConfigAssumption DEF Floor

LEMMA FloorZero == Floor(0) = 0
BY ConfigAssumption DEF Floor

LEMMA FloorRounds == ASSUME NEW t \in Nat PROVE t - Floor(t) \in 0 .. Milli - 1
<1>1. /\ Milli \in Nat \ {0} /\ (t % Milli) \in 0 .. Milli - 1
      /\ t = Milli * (t \div Milli) + (t % Milli)
  BY ConfigAssumption
<1> QED BY <1>1 DEF Floor

(* PX is the lifetime to the millisecond.                                  *)
LEMMA toPXRounds ==
  ASSUME NEW d \in Nat
  PROVE  /\ toPX(d) \in Nat
         /\ d > 0 => toPX(d) > 0 /\ toPX(d) \in d - (Milli - 1) .. d + (Milli - 1)
<1>1. Milli \in Nat \ {0} /\ Floor(d) \in Nat /\ d - Floor(d) \in 0 .. Milli - 1
  BY FloorRounds, FloorNat, ConfigAssumption
<1> QED BY <1>1 DEF toPX

LEMMA InstantsNat == Instants \subseteq Nat /\ \A t \in 0..MaxTime : t \in Instants
BY SetAssumption, RangeAssumption

LEMMA TTLsNat == TTLs \cup {0} \subseteq Nat
BY SetAssumption

LEMMA NoEntryTyped == NoEntry \in Entry(Nat) /\ NoItem \in Item(Nat)
BY DEF NoEntry, Entry, Kinds, NoItem, Item

LEMMA BytesTyped == Bytes \subseteq Entry(Nat)
<1> SUFFICES ASSUME NEW e \in Stored(Instants) PROVE e \in Entry(Nat)
  BY NoEntryTyped DEF Bytes
<1>1. CASE \E t \in Instants : e = negativeMarker(t) \/ e = Payload(t)
  <2>1. PICK t \in Instants : e = negativeMarker(t) \/ e = Payload(t)
    BY <1>1
  <2>2. t \in Nat
    BY InstantsNat
  <2>3. negativeMarker(t) \in Entry(Nat)
    BY <2>2 DEF negativeMarker, Entry, Kinds
  <2>4. Payload(t) \in Entry(Nat)
    BY <2>2 DEF Payload, Entry, Kinds
  <2> QED BY <2>1, <2>3, <2>4
<1>2. CASE e = Garbage
  BY <1>2 DEF Garbage, Entry, Kinds
<1>3. CASE e \in [kind : {"env"}, ok : {TRUE}, at : Instants, freshUntil : Instants]
  BY <1>3, InstantsNat DEF Entry, Kinds
<1> QED BY <1>1, <1>2, <1>3 DEF Stored

LEMMA JitterNat == ASSUME NEW ttl \in Nat PROVE applyJitter(ttl) \subseteq Nat
BY DEF applyJitter

LEMMA DefaultNat == ASSUME NEW ttl \in Nat PROVE orDefault(ttl) \in Nat
BY ConfigAssumption DEF orDefault

(* An envelope of a reachable instant is one a backend can hold.           *)
LEMMA EnvelopeStored ==
  ASSUME NEW t \in 0..MaxTime, NEW u, Floor(u) \in Instants
  PROVE  wrapEnvelope(u, t) \in Stored(Instants)
BY InstantsNat DEF wrapEnvelope, Stored

LEMMA PlainStored ==
  ASSUME NEW t \in 0..MaxTime
  PROVE  /\ Payload(t) \in Stored(Instants)
         /\ negativeMarker(t) \in Stored(Instants)
         /\ Garbage \in Stored(Instants)
BY InstantsNat DEF Stored

LEMMA PackTyped ==
  ASSUME NEW ttl \in TTLs \cup {0}, NEW t \in 0..MaxTime, NEW p \in packForStore(ttl, t)
  PROVE  p.entry \in Stored(Instants) /\ p.ttl \in Nat
<1>1. ttl \in Nat
  BY TTLsNat
<1>2. CASE ~envelopeEnabled
  BY <1>1, <1>2, PlainStored DEF packForStore
<1>3. CASE envelopeEnabled
  <2>1. PICK fresh \in applyJitter(orDefault(ttl)) :
          p = IF fresh > 0
              THEN [entry |-> wrapEnvelope(t + fresh, t), ttl |-> fresh + StaleTTL]
              ELSE [entry |-> wrapEnvelope(0, t), ttl |-> 0]
    BY <1>3 DEF packForStore
  <2>2. fresh \in Nat
    BY <1>1, <2>1, DefaultNat, JitterNat
  <2>3. Floor(t + fresh) \in Instants
    BY <2>1, RangeAssumption
  <2>4. Floor(0) \in Instants
    BY FloorZero, InstantsNat, SetAssumption
  <2> QED BY <2>1, <2>2, <2>3, <2>4, EnvelopeStored, ConfigAssumption
<1> QED BY <1>2, <1>3

LEMMA WrittenLifetime ==
  ASSUME NEW e, NEW ttl, NEW t, NEW item \in writtenItem(e, ttl, t)
  PROVE  /\ item.entry = e
         /\ \E d \in ttlFor(e, ttl) : item = ItemFor(e, d, t) \/ item = ItemFor(e, toPX(d), t)
<1>1. \E d \in ttlFor(e, ttl) : item = ItemFor(e, d, t) \/ item = ItemFor(e, toPX(d), t)
  BY DEF writtenItem, newItem, setCmd
<1> QED BY <1>1 DEF ItemFor

LEMMA WrittenTyped ==
  ASSUME NEW e \in Entry(Nat), NEW ttl \in Nat, NEW t \in Nat, NEW item \in writtenItem(e, ttl, t)
  PROVE  item \in Item(Nat) /\ item.entry = e
<1>1. ttlFor(e, ttl) \subseteq Nat
  BY DefaultNat, JitterNat DEF ttlFor
<1>2. PICK d \in ttlFor(e, ttl) : item = ItemFor(e, d, t) \/ item = ItemFor(e, toPX(d), t)
  BY WrittenLifetime
<1>3. toPX(d) \in Nat
  BY <1>1, toPXRounds
<1> QED BY <1>1, <1>2, <1>3 DEF Item, ItemFor

LEMMA ForeignStored ==
  ASSUME NEW kind \in {"garbage", "plain", "env"}, now \in 0..MaxTime
  PROVE  ForeignEntry(kind) \in Stored(Instants)
<1>1. Floor(now + 1) \in Instants
  BY RangeAssumption
<1> QED BY <1>1, EnvelopeStored, PlainStored DEF ForeignEntry

-----------------------------------------------------------------------------
(* Simulation of the group.                                                *)

(* What a flight may return.                                               *)
LEMMA FailureIsResult == ASSUME NEW err \in Errors PROVE Failure(err) \in Result
BY DEF Result

LEMMA DataIsResult == ASSUME NEW e \in Stored(Instants) PROVE Data(e) \in Result
BY DEF Result

LEMMA ReturnSimulates ==
  ASSUME NEW f \in Flights, NEW r \in Result, Return(f, r)
  PROVE  G!Next
BY DEF Return, G!Next, G!FlightStep

(* A negative entry or one that is in hand is stored.                      *)
LEMMA GetReturns ==
  ASSUME StoreOK, NEW done, NEW e \in Get(done)
  PROVE  e \in Bytes /\ (e # NoEntry => e \in Stored(Instants))
BY DEF StoreOK, Get, Bytes

LEMMA CallerSimulates ==
  ASSUME NEW c \in Callers, CallerStep(c)
  PROVE  [G!Next]_groupVars
<1>1. flightKey(c) \in Caches
  BY SetAssumption DEF flightKey
<1>2. CASE Serve(c)
  BY <1>1, <1>2 DEF Serve, refreshAsync, G!Next
<1>3. CASE Heal(c)
  BY <1>3 DEF Heal
<1>4. CASE Do(c)
  BY <1>1, <1>4 DEF Do, G!Next, G!CallerStep
<1>5. CASE Receive(c)
  BY <1>5 DEF Receive, G!Next, G!CallerStep
<1>6. CASE Abandon(c)
  BY <1>6 DEF Abandon, G!Next, G!CallerStep
<1> QED BY <1>2, <1>3, <1>4, <1>5, <1>6 DEF CallerStep

LEMMA FlightSimulates ==
  ASSUME StoreOK, FlightOK, NEW f \in Flights,
         FlightStep(f) \/ LoaderOutcome(f) \/ LoaderTimesOut(f)
  PROVE  [G!Next]_groupVars
<1>1. CASE Enter(f) \/ HealFlight(f) \/ Load(f) \/ LoaderSucceeds(f)
  BY <1>1 DEF Enter, HealFlight, Load, LoaderSucceeds
<1>2. CASE Recheck(f)
  <2>1. PICK e \in Get(Expired(flight[f].ctx)) :
          IF isNegativeEntry(e) THEN Return(f, Data(e)) ELSE UNCHANGED groupVars
    BY <1>2 DEF Recheck
  <2>2. CASE isNegativeEntry(e)
    <3>1. e # NoEntry
      BY <2>2 DEF isNegativeEntry, NoEntry
    <3>2. Data(e) \in Result
      BY <3>1, GetReturns, DataIsResult
    <3> QED BY <2>1, <2>2, <3>2, ReturnSimulates
  <2> QED BY <2>1, <2>2
<1>3. CASE Judge(f)
  <2>1. Data(flight[f].data) \in Result
    BY <1>3, DataIsResult DEF Judge, FlightOK
  <2> QED BY <1>3, <2>1, ReturnSimulates DEF Judge
<1>4. CASE StoreAndReturn(f)
  <2>1. Data(flight[f].data) \in Result
    BY <1>4, DataIsResult DEF StoreAndReturn, FlightOK
  <2> QED BY <1>4, <2>1, ReturnSimulates DEF StoreAndReturn
<1>5. CASE LoaderFindsNothing(f) \/ LoaderFails(f) \/ LoaderTimesOut(f)
  <2>1. \A err \in {"notfound", "loader", "panic", "encode", "ctx"} : Failure(err) \in Result
    BY FailureIsResult DEF Errors
  <2> QED BY <1>5, <2>1, ReturnSimulates DEF LoaderFindsNothing, LoaderFails, LoaderTimesOut
<1>6. CASE Forget(f)
  BY <1>6 DEF Forget, G!Next, G!FlightStep
<1>7. CASE Deliver(f)
  BY <1>7 DEF Deliver, G!Next, G!FlightStep
<1> QED BY <1>1, <1>2, <1>3, <1>4, <1>5, <1>6, <1>7 DEF FlightStep, LoaderOutcome

LEMMA StepSimulates == StoreOK /\ FlightOK /\ [Next]_vars => [G!Next]_groupVars
<1> SUFFICES ASSUME StoreOK, FlightOK, [Next]_vars PROVE [G!Next]_groupVars
  OBVIOUS
<1>1. CASE UNCHANGED vars
  BY <1>1 DEF vars
<1>2. ASSUME NEW c \in Callers, NEW ttl \in TTLs, NEW ctx, Lookup(c, ttl, ctx)
      PROVE  [G!Next]_groupVars
  BY <1>2 DEF Lookup
<1>3. ASSUME NEW c \in Callers, CallerStep(c) PROVE [G!Next]_groupVars
  BY <1>3, CallerSimulates
<1>4. ASSUME NEW f \in Flights, FlightStep(f) \/ LoaderOutcome(f) \/ LoaderTimesOut(f)
      PROVE  [G!Next]_groupVars
  BY <1>4, FlightSimulates
<1>5. CASE Tick \/ ForeignSet \/ Invalidate
  BY <1>5 DEF Tick, ForeignSet, Invalidate
<1> QED BY <1>1, <1>2, <1>3, <1>4, <1>5 DEF Next

-----------------------------------------------------------------------------
(* The inductive invariant: what single variables may become.               *)

LEMMA NoItemOK == NoItem \in Item(Nat) /\ NoItem.entry \in Bytes
BY NoEntryTyped DEF NoItem, Bytes

LEMMA NoFlightOK ==
  NoFlight \in FlightRecord /\ NoFlight.data \in Bytes /\ NoFlight.pc = "off"
BY NoEntryTyped DEF NoFlight, FlightRecord, Bytes

LEMMA IdleTyped ==
  ASSUME NEW outcome \in {"none", "value", "notfound", "error", "decode", "ctx"},
         NEW at \in Nat
  PROVE  Idle(outcome, at) \in CallRecord
BY NoEntryTyped DEF Idle, CallRecord

(* A step that gives flight f a new closure state and lets the others be.  *)
LEMMA FlightUpdate ==
  ASSUME FlightOK, Executing, NEW f \in Flights, NEW new \in FlightRecord,
         flight' = [flight EXCEPT ![f] = new],
         new.data \in Bytes,
         new.pc \in {"judge", "store"} => new.data \in Stored(Instants),
         new.pc # "off" => state'[f] = "running",
         \A g \in Flights \ {f} : state[g] = "running" => state'[g] = "running"
  PROVE  FlightOK' /\ Executing'
<1>1. flight'[f] = new /\ \A g \in Flights \ {f} : flight'[g] = flight[g]
  BY DEF FlightOK
<1>2. FlightOK'
  BY <1>1 DEF FlightOK
<1>3. Executing'
  BY <1>1 DEF Executing
<1> QED BY <1>2, <1>3

(* The closure is over when its function has returned.                     *)
LEMMA ReturnKeeps ==
  ASSUME FlightOK, Executing, G!TypeOK, NEW f \in Flights, NEW r, Return(f, r)
  PROVE  FlightOK' /\ Executing'
<1> DEFINE new == [flight[f] EXCEPT
                     !.pc = "off", !.data = NoEntry, !.storeTTL = 0,
                     !.onRefreshError = flight[f].refresh /\ r.err # "nil"]
<1>1. flight' = [flight EXCEPT ![f] = new]
  BY DEF Return, FlightOK
<1>2. flight[f] \in FlightRecord
  BY DEF FlightOK
<1>3. new \in FlightRecord /\ new.data = NoEntry /\ new.pc = "off"
  BY <1>2, NoEntryTyped DEF FlightRecord
<1>4. \A g \in Flights \ {f} : state'[g] = state[g]
  BY DEF Return, G!FnReturn, G!TypeOK
<1> HIDE DEF new
<1> QED BY <1>1, <1>3, <1>4, FlightUpdate DEF Bytes

(* Starting or joining a flight: only a free flight gets a closure, and it *)
(* runs from then on.                                                      *)
LEMMA StartKeeps ==
  ASSUME FlightOK, Executing, G!TypeOK, NEW k \in Caches, NEW f \in Flights,
         NEW closure \in FlightRecord, closure.data = NoEntry, closure.pc = "start",
         G!Start(k, f), loadAndStore(f, closure),
         calls[k] = f => state[f] # "free"
  PROVE  FlightOK' /\ Executing'
<1>1. CASE state[f] = "free"
  <2>1. G!Begin(k, f)
    BY <1>1 DEF G!Start, G!Join
  <2>2. state'[f] = "running" /\ \A g \in Flights \ {f} : state'[g] = state[g]
    BY <2>1 DEF G!Begin, G!TypeOK
  <2>3. flight' = [flight EXCEPT ![f] = closure]
    BY <1>1 DEF loadAndStore
  <2> QED BY <2>2, <2>3, FlightUpdate DEF Bytes
<1>2. CASE state[f] # "free"
  <2>1. flight' = flight /\ state' = state
    BY <1>2 DEF loadAndStore, G!Start, G!Join, G!Begin
  <2> QED BY <2>1 DEF FlightOK, Executing
<1> QED BY <1>1, <1>2

(* The steps of a flight that the group does not see.                      *)
LEMMA InnerStep ==
  ASSUME FlightOK, Executing, NEW f \in Flights, NEW new \in FlightRecord,
         flight' = [flight EXCEPT ![f] = new], UNCHANGED groupVars,
         flight[f].pc # "off",
         new.data \in Bytes,
         new.pc \in {"judge", "store"} => new.data \in Stored(Instants)
  PROVE  FlightOK' /\ Executing'
<1>1. state' = state /\ state[f] = "running"
  BY DEF groupVars, Executing
<1> QED BY <1>1, FlightUpdate

-----------------------------------------------------------------------------
(* The names of the group's module and of its proofs stand for the same.   *)
LEMMA SameTypes == G!TypeOK <=> P!TypeOK
BY DEF G!TypeOK, P!TypeOK

LEMMA SameInit == G!Init <=> P!Init
BY DEF G!Init, P!Init

LEMMA SameNext == [G!Next]_groupVars <=> [P!Next]_(P!vars)
<1>1. G!Next <=> P!Next
  BY DEF G!Next, P!Next, G!CallerStep, P!CallerStep, G!FlightStep, P!FlightStep,
         G!Do, P!Do, G!DoAsync, P!DoAsync, G!Start, P!Start, G!Join, P!Join,
         G!Begin, P!Begin, G!InDo, P!InDo, G!FnReturn, P!FnReturn,
         G!Forget, P!Forget, G!Deliver, P!Deliver, G!Receive, P!Receive,
         G!Leave, P!Leave
<1> QED BY <1>1 DEF groupVars, P!vars

LEMMA GroupKeeps == ASSUME P!GroupInv, [G!Next]_groupVars PROVE P!GroupInv'
BY SameNext, P!GroupInvInductive, RangeAssumption

-----------------------------------------------------------------------------
(* The inductive step, action by action.                                   *)

(* What one step leaves to show: the group's part follows from the         *)
(* simulation.                                                             *)
Kept == now' \in 0..MaxTime /\ StoreOK' /\ FlightOK' /\ Executing' /\ CallOK'

LEMMA GroupTyped == SetInv => G!TypeOK
BY SameTypes DEF SetInv, P!GroupInv

(* Nothing that is registered is free.                                     *)
LEMMA RegisteredNotFree ==
  ASSUME SetInv, NEW k \in Caches, NEW f \in Flights, calls[k] = f
  PROVE  state[f] # "free"
BY RangeAssumption DEF SetInv, P!GroupInv, P!MapIsCurrent, P!InFlight

LEMMA DeleteKeeps == ASSUME StoreOK, NEW done, Delete(done) PROVE StoreOK'
BY NoItemOK DEF Delete, StoreOK

LEMMA LookupKeeps ==
  ASSUME SetInv, NEW c \in Callers, NEW ttl \in TTLs, NEW ctx \in Nat, Lookup(c, ttl, ctx)
  PROVE  Kept
<1>1. UNCHANGED <<now, store, flight, state>>
  BY DEF Lookup, groupVars
<1>2. PICK e \in Get(Done(ctx)) :
        LET goto(pc) == [Idle("none", 0) EXCEPT !.pc = pc, !.ttl = ttl, !.ctx = ctx,
                                                !.data = e, !.out = call[c].out]
        IN call' = [call EXCEPT ![c] =
             CASE e.kind = "none" -> goto("do")
               [] isNegativeEntry(e) -> Idle("notfound", e.at)
               [] Decodes(e) -> goto("got")
               [] OTHER -> goto("heal")]
  BY DEF Lookup
<1>3. e \in Entry(Nat) /\ e.at \in Nat
  BY GetReturns, BytesTyped DEF SetInv, Entry
<1>4. call[c].out \in [res : {"none", "value", "notfound", "error", "decode", "ctx"}, at : Nat]
  BY DEF SetInv, CallOK, CallRecord
<1>5. \A pc \in {"do", "got", "heal"} :
        [Idle("none", 0) EXCEPT !.pc = pc, !.ttl = ttl, !.ctx = ctx,
                                !.data = e, !.out = call[c].out] \in CallRecord
  <2>1. Idle("none", 0) \in CallRecord
    BY IdleTyped
  <2> QED BY <1>3, <1>4, <2>1 DEF CallRecord
<1>6. Idle("notfound", e.at) \in CallRecord
  BY <1>3, IdleTyped
<1>7. CallOK'
  BY <1>2, <1>5, <1>6 DEF SetInv, CallOK
<1> QED BY <1>1, <1>7 DEF Kept, SetInv, StoreOK, FlightOK, Executing

LEMMA MissClosureOK ==
  ASSUME CallOK, NEW c \in Callers
  PROVE  /\ missClosure(c) \in FlightRecord
         /\ missClosure(c).data = NoEntry /\ missClosure(c).pc = "start"
<1>1. call[c] \in CallRecord
  BY DEF CallOK
<1> QED BY <1>1, NoEntryTyped DEF missClosure, NoFlight, FlightRecord, CallRecord

LEMMA RefreshClosureOK ==
  ASSUME CallOK, NEW c \in Callers, NEW freshUntil \in Nat
  PROVE  /\ refreshClosure(c, freshUntil) \in FlightRecord
         /\ refreshClosure(c, freshUntil).data = NoEntry
         /\ refreshClosure(c, freshUntil).pc = "start"
<1>1. call[c] \in CallRecord
  BY DEF CallOK
<1> QED BY <1>1, NoEntryTyped DEF refreshClosure, NoFlight, FlightRecord, CallRecord

LEMMA ServeKeeps ==
  ASSUME SetInv, NEW c \in Callers, Serve(c)
  PROVE  Kept
<1> DEFINE freshUntil == parseStored(call[c].data)
<1>1. call[c] \in CallRecord /\ call[c].data \in Entry(Nat) /\ call[c].data.at \in Nat
  BY DEF SetInv, CallOK, CallRecord, Entry
<1>2. freshUntil \in Nat
  BY <1>1 DEF parseStored, Entry
<1>3. CallOK'
  <2>1. Idle("value", call[c].data.at) \in CallRecord
    BY <1>1, IdleTyped
  <2> QED BY <2>1 DEF Serve, SetInv, CallOK
<1>4. FlightOK' /\ Executing'
  <2>1. CASE refreshAsync(c, freshUntil)
    <3>1. PICK f \in Flights : /\ G!DoAsync(flightKey(c), f)
                               /\ loadAndStore(f, refreshClosure(c, freshUntil))
      BY <2>1 DEF refreshAsync
    <3>2. flightKey(c) \in Caches
      BY SetAssumption DEF flightKey
    <3>3. G!Start(flightKey(c), f)
      BY <3>1 DEF G!DoAsync
    <3>4. FlightOK /\ Executing /\ G!TypeOK /\ CallOK
      BY GroupTyped DEF SetInv
    <3>5. calls[flightKey(c)] = f => state[f] # "free"
      BY <3>2, RegisteredNotFree
    <3> HIDE DEF freshUntil
    <3> QED BY <1>2, <3>1, <3>2, <3>3, <3>4, <3>5, RefreshClosureOK, StartKeeps
  <2>2. CASE UNCHANGED <<flight, groupVars>>
    BY <2>2 DEF SetInv, FlightOK, Executing, groupVars
  <2> QED BY <2>1, <2>2 DEF Serve
<1> QED BY <1>3, <1>4 DEF Kept, Serve, SetInv, StoreOK

LEMMA DoKeeps ==
  ASSUME SetInv, NEW c \in Callers, Do(c)
  PROVE  Kept
<1>1. CallOK'
  BY DEF Do, SetInv, CallOK, CallRecord
<1>2. FlightOK' /\ Executing'
  <2>1. PICK f \in Flights : G!Do(c, flightKey(c), f) /\ loadAndStore(f, missClosure(c))
    BY DEF Do
  <2>2. flightKey(c) \in Caches
    BY SetAssumption DEF flightKey
  <2>3. G!Start(flightKey(c), f)
    BY <2>1 DEF G!Do
  <2>4. FlightOK /\ Executing /\ G!TypeOK /\ CallOK
    BY GroupTyped DEF SetInv
  <2>5. calls[flightKey(c)] = f => state[f] # "free"
    BY <2>2, RegisteredNotFree
  <2> QED BY <2>1, <2>2, <2>3, <2>4, <2>5, MissClosureOK, StartKeeps
<1> QED BY <1>1, <1>2 DEF Kept, Do, SetInv, StoreOK

(* The answer of a flight has the instant of a load.                       *)
LEMMA ResultTyped == ASSUME NEW r \in Result PROVE r.data.at \in Nat
<1>1. CASE \E err \in Errors : r = Failure(err)
  BY <1>1 DEF Failure, NoEntry
<1>2. CASE \E e \in Stored(Instants) : r = Data(e)
  <2>1. PICK e \in Stored(Instants) : r = Data(e)
    BY <1>2
  <2>2. e \in Entry(Nat)
    BY BytesTyped DEF Bytes
  <2> QED BY <2>1, <2>2 DEF Data, Entry
<1> QED BY <1>1, <1>2 DEF Result

LEMMA ReceiveKeeps ==
  ASSUME SetInv, NEW c \in Callers, Receive(c)
  PROVE  Kept
<1>1. chan[c] \in Result
  BY GroupTyped DEF Receive, G!Receive, G!TypeOK
<1>2. chan[c].data.at \in Nat /\ call[c].out.at \in Nat
  BY <1>1, ResultTyped DEF SetInv, CallOK, CallRecord
<1>3. /\ Idle("error", call[c].out.at) \in CallRecord
      /\ Idle("decode", call[c].out.at) \in CallRecord
      /\ Idle("notfound", chan[c].data.at) \in CallRecord
      /\ Idle("value", chan[c].data.at) \in CallRecord
  BY <1>2, IdleTyped
<1>4. CallOK'
  BY <1>3 DEF Receive, SetInv, CallOK
<1>5. FlightOK' /\ Executing'
  BY DEF Receive, G!Receive, SetInv, FlightOK, Executing
<1> QED BY <1>4, <1>5 DEF Kept, Receive, SetInv, StoreOK

LEMMA CallerKeeps ==
  ASSUME SetInv, NEW c \in Callers, CallerStep(c)
  PROVE  Kept
<1>1. CASE Heal(c)
  <2>1. CallOK'
    <3>1. call[c] \in CallRecord
      BY DEF SetInv, CallOK
    <3>2. [call[c] EXCEPT !.pc = "do", !.data = NoEntry] \in CallRecord
      BY <3>1, NoEntryTyped DEF CallRecord
    <3>3. call' = [call EXCEPT ![c] = [call[c] EXCEPT !.pc = "do", !.data = NoEntry]]
      BY <1>1 DEF Heal, SetInv, CallOK
    <3> QED BY <3>2, <3>3 DEF SetInv, CallOK
  <2>2. StoreOK'
    BY <1>1, DeleteKeeps DEF Heal, SetInv
  <2> QED BY <1>1, <2>1, <2>2 DEF Kept, Heal, SetInv, FlightOK, Executing, groupVars
<1>2. CASE Abandon(c)
  <2>1. call[c].out.at \in Nat
    BY DEF SetInv, CallOK, CallRecord
  <2>2. Idle("ctx", call[c].out.at) \in CallRecord
    BY <2>1, IdleTyped
  <2>3. CallOK'
    BY <1>2, <2>2 DEF Abandon, SetInv, CallOK
  <2> QED BY <1>2, <2>3 DEF Kept, Abandon, G!Leave, SetInv, StoreOK, FlightOK, Executing
<1> QED BY <1>1, <1>2, ServeKeeps, DoKeeps, ReceiveKeeps DEF CallerStep

(* The steps of a flight.                                                  *)
LEMMA EnterKeeps == ASSUME SetInv, NEW f \in Flights, Enter(f) PROVE Kept
<1> DEFINE new == [flight[f] EXCEPT !.pc = "recheck",
                     !.ctx = IF flight[f].refresh THEN now + refreshTimeout(flight[f].ttl)
                             ELSE flight[f].ctx]
<1>1. flight[f] \in FlightRecord
  BY DEF SetInv, FlightOK
<1>2. flight[f].ttl \in Nat
  <2>1. flight[f].ttl \in TTLs \cup {0}
    BY <1>1 DEF FlightRecord
  <2> QED BY <2>1, TTLsNat
<1>3. refreshTimeout(flight[f].ttl) \in Nat
  BY <1>2, DefaultNat, ConfigAssumption, SetAssumption DEF refreshTimeout
<1>4. new \in FlightRecord
  <2>1. now + refreshTimeout(flight[f].ttl) \in Nat
    BY <1>3 DEF SetInv
  <2> QED BY <1>1, <2>1 DEF FlightRecord
<1>5. new.data = flight[f].data /\ new.pc = "recheck"
  BY <1>1 DEF FlightRecord
<1>6. flight' = [flight EXCEPT ![f] = new]
  BY DEF Enter, SetInv, FlightOK
<1>7. flight[f].data \in Bytes /\ flight[f].pc # "off"
  BY DEF Enter, SetInv, FlightOK
<1> HIDE DEF new
<1>8. FlightOK' /\ Executing'
  BY <1>4, <1>5, <1>6, <1>7, InnerStep DEF Enter, SetInv
<1> QED BY <1>8 DEF Kept, Enter, SetInv, StoreOK, CallOK

(* A flight that goes on at pc with entry e in hand.                       *)
LEMMA GoesOn ==
  ASSUME SetInv, NEW f \in Flights, flight[f].pc # "off", UNCHANGED groupVars,
         NEW pc \in {"judge", "heal", "load", "store"}, NEW e \in Bytes,
         pc \in {"judge", "store"} => e \in Stored(Instants),
         flight' = [flight EXCEPT ![f].pc = pc, ![f].data = e]
  PROVE  FlightOK' /\ Executing'
<1> DEFINE new == [flight[f] EXCEPT !.pc = pc, !.data = e]
<1>1. flight[f] \in FlightRecord /\ e \in Entry(Nat)
  BY BytesTyped DEF SetInv, FlightOK
<1>2. new \in FlightRecord /\ new.data = e /\ new.pc = pc
  BY <1>1 DEF FlightRecord
<1>3. flight' = [flight EXCEPT ![f] = new]
  BY DEF SetInv, FlightOK
<1> HIDE DEF new
<1> QED BY <1>2, <1>3, InnerStep DEF SetInv

(* A flight that is about to write entry e.                                *)
LEMMA GoesToStore ==
  ASSUME SetInv, NEW f \in Flights, flight[f].pc # "off", UNCHANGED groupVars,
         NEW e \in Stored(Instants), NEW ttl \in Nat,
         flight' = [flight EXCEPT ![f].pc = "store", ![f].data = e, ![f].storeTTL = ttl]
  PROVE  FlightOK' /\ Executing'
<1> DEFINE new == [flight[f] EXCEPT !.pc = "store", !.data = e, !.storeTTL = ttl]
<1>1. flight[f] \in FlightRecord /\ e \in Bytes /\ e \in Entry(Nat)
  BY BytesTyped DEF SetInv, FlightOK, Bytes
<1>2. new \in FlightRecord /\ new.data = e /\ new.pc = "store"
  BY <1>1 DEF FlightRecord
<1>3. flight' = [flight EXCEPT ![f] = new]
  BY DEF SetInv, FlightOK
<1> HIDE DEF new
<1> QED BY <1>1, <1>2, <1>3, InnerStep DEF SetInv

LEMMA RecheckKeeps == ASSUME SetInv, NEW f \in Flights, Recheck(f) PROVE Kept
<1>1. PICK e \in Get(Expired(flight[f].ctx)) :
        IF isNegativeEntry(e) THEN Return(f, Data(e))
        ELSE /\ flight' = [flight EXCEPT ![f].pc = IF e = NoEntry THEN "load" ELSE "judge",
                                         ![f].data = e]
             /\ UNCHANGED groupVars
  BY DEF Recheck
<1>2. e \in Bytes /\ (e # NoEntry => e \in Stored(Instants))
  BY GetReturns DEF SetInv
<1>3. FlightOK' /\ Executing'
  <2>1. CASE isNegativeEntry(e)
    BY <1>1, <2>1, ReturnKeeps, GroupTyped DEF SetInv
  <2>2. CASE ~isNegativeEntry(e)
    BY <1>1, <1>2, <2>2, GoesOn DEF Recheck
  <2> QED BY <2>1, <2>2
<1> QED BY <1>3 DEF Kept, Recheck, SetInv, StoreOK, CallOK

LEMMA JudgeKeeps == ASSUME SetInv, NEW f \in Flights, Judge(f) PROVE Kept
<1>1. FlightOK' /\ Executing'
  <2>1. CASE Satisfied(f) /\ Decodes(flight[f].data)
    <3>1. Return(f, Data(flight[f].data))
      BY <2>1 DEF Judge
    <3> QED BY <3>1, ReturnKeeps, GroupTyped DEF SetInv
  <2>2. CASE ~(Satisfied(f) /\ Decodes(flight[f].data))
    <3>1. /\ flight' = [flight EXCEPT ![f].pc = IF Satisfied(f) THEN "heal" ELSE "load",
                                      ![f].data = NoEntry]
          /\ UNCHANGED groupVars /\ flight[f].pc # "off" /\ NoEntry \in Bytes
      BY <2>2 DEF Judge, Bytes
    <3> QED BY <3>1, GoesOn
  <2> QED BY <2>1, <2>2
<1> QED BY <1>1 DEF Kept, Judge, SetInv, StoreOK, CallOK

(* Steps that change only where the flight is, and what it has done.       *)
LEMMA HealAndLoadKeep ==
  ASSUME SetInv, NEW f \in Flights, HealFlight(f) \/ Load(f)
  PROVE  Kept
<1> DEFINE healed == [flight[f] EXCEPT !.pc = "load"]
           loading == [flight[f] EXCEPT !.pc = "loading"]
<1>1. flight[f] \in FlightRecord /\ flight[f].data \in Bytes
  BY DEF SetInv, FlightOK
<1>2. healed \in FlightRecord /\ healed.data = flight[f].data /\ healed.pc = "load"
  BY <1>1 DEF FlightRecord
<1>3. loading \in FlightRecord /\ loading.data = flight[f].data /\ loading.pc = "loading"
  BY <1>1 DEF FlightRecord
<1>4. /\ flight[f].pc # "off" /\ UNCHANGED groupVars
      /\ flight' = [flight EXCEPT ![f] = healed] \/ flight' = [flight EXCEPT ![f] = loading]
  BY DEF HealFlight, Load, SetInv, FlightOK
<1>5. StoreOK'
  BY DeleteKeeps DEF HealFlight, Load, SetInv, StoreOK
<1> HIDE DEF healed, loading
<1>6. FlightOK' /\ Executing'
  BY <1>1, <1>2, <1>3, <1>4, InnerStep DEF SetInv
<1> QED BY <1>5, <1>6 DEF Kept, HealFlight, Load, SetInv, CallOK

LEMMA LoaderKeeps ==
  ASSUME SetInv, NEW f \in Flights, LoaderOutcome(f) \/ LoaderTimesOut(f)
  PROVE  Kept
<1>1. now' = now /\ store' = store /\ call' = call
  BY DEF LoaderOutcome, LoaderSucceeds, LoaderFindsNothing, LoaderFails, LoaderTimesOut
<1>2. FlightOK' /\ Executing'
  <2>1. CASE LoaderSucceeds(f)
    <3>1. PICK p \in packForStore(flight[f].ttl, now) :
            flight' = [flight EXCEPT ![f].pc = "store", ![f].data = p.entry,
                                     ![f].storeTTL = p.ttl]
      BY <2>1 DEF LoaderSucceeds
    <3>2. flight[f].ttl \in TTLs \cup {0}
      BY DEF SetInv, FlightOK, FlightRecord
    <3>3. p.entry \in Stored(Instants) /\ p.ttl \in Nat
      BY <3>1, <3>2, PackTyped DEF SetInv
    <3>4. flight[f].pc # "off" /\ UNCHANGED groupVars
      BY <2>1 DEF LoaderSucceeds
    <3> QED BY <3>1, <3>3, <3>4, GoesToStore
  <2>2. CASE LoaderFindsNothing(f) /\ NegativeTTL > 0
    <3>1. /\ flight' = [flight EXCEPT ![f].pc = "store", ![f].data = negativeMarker(now),
                                      ![f].storeTTL = NegativeTTL]
          /\ flight[f].pc # "off" /\ UNCHANGED groupVars
      BY <2>2 DEF LoaderFindsNothing, SetInv, FlightOK
    <3>2. negativeMarker(now) \in Stored(Instants) /\ NegativeTTL \in Nat
      BY PlainStored, ConfigAssumption DEF SetInv
    <3> QED BY <3>1, <3>2, GoesToStore
  <2>3. ASSUME NEW r, Return(f, r) PROVE FlightOK' /\ Executing'
    BY <2>3, ReturnKeeps, GroupTyped DEF SetInv
  <2> QED BY <2>1, <2>2, <2>3
          DEF LoaderOutcome, LoaderFindsNothing, LoaderFails, LoaderTimesOut
<1> QED BY <1>1, <1>2 DEF Kept, SetInv, StoreOK, CallOK

LEMMA WriteKeeps ==
  ASSUME StoreOK, now \in Nat, NEW e \in Bytes, NEW ttl \in Nat,
         store' \in writtenItem(e, ttl, now)
  PROVE  StoreOK'
BY WrittenTyped, BytesTyped DEF StoreOK

LEMMA FlightKeeps ==
  ASSUME SetInv, NEW f \in Flights, FlightStep(f)
  PROVE  Kept
<1>1. CASE StoreAndReturn(f)
  <2>1. flight[f].storeTTL \in Nat /\ flight[f].data \in Bytes
    BY DEF SetInv, FlightOK, FlightRecord
  <2>2. StoreOK'
    BY <1>1, <2>1, WriteKeeps DEF StoreAndReturn, Set, SetInv, StoreOK
  <2>3. FlightOK' /\ Executing'
    BY <1>1, ReturnKeeps, GroupTyped DEF StoreAndReturn, SetInv
  <2> QED BY <1>1, <2>2, <2>3 DEF Kept, StoreAndReturn, SetInv, CallOK
<1>2. CASE Forget(f)
  <2>1. flight' = flight /\ \A g \in Flights : state[g] = "running" => state'[g] = "running"
    BY <1>2, GroupTyped DEF Forget, G!Forget, G!TypeOK
  <2>2. FlightOK' /\ Executing'
    BY <2>1 DEF SetInv, FlightOK, Executing
  <2> QED BY <1>2, <2>2 DEF Kept, Forget, SetInv, StoreOK, CallOK
<1>3. CASE Deliver(f)
  <2>1. \A g \in Flights \ {f} : state'[g] = state[g]
    BY <1>3, GroupTyped DEF Deliver, G!Deliver, G!TypeOK
  <2>2. FlightOK' /\ Executing'
    BY <1>3, <2>1, NoFlightOK, FlightUpdate DEF Deliver, SetInv
  <2> QED BY <1>3, <2>2 DEF Kept, Deliver, SetInv, StoreOK, CallOK
<1> QED BY <1>1, <1>2, <1>3, EnterKeeps, RecheckKeeps, JudgeKeeps, HealAndLoadKeep
        DEF FlightStep

LEMMA EnvironmentKeeps ==
  ASSUME SetInv, Tick \/ ForeignSet \/ Invalidate
  PROVE  Kept
<1>1. CASE Tick
  <2>1. now' \in 0..MaxTime
    BY <1>1, SetAssumption DEF Tick, SetInv
  <2>2. StoreOK'
    BY <1>1, NoItemOK DEF Tick, SetInv, StoreOK
  <2> QED BY <1>1, <2>1, <2>2 DEF Kept, Tick, SetInv, FlightOK, Executing, CallOK, groupVars
<1>2. CASE ForeignSet
  <2>1. PICK kind \in Foreign : store' \in writtenItem(ForeignEntry(kind), 0, now)
    BY <1>2 DEF ForeignSet
  <2>2. ForeignEntry(kind) \in Bytes
    BY ForeignStored, SetAssumption DEF SetInv, Bytes
  <2>3. StoreOK'
    BY <2>1, <2>2, WriteKeeps DEF SetInv
  <2> QED BY <1>2, <2>3 DEF Kept, ForeignSet, SetInv, FlightOK, Executing, CallOK, groupVars
<1>3. CASE Invalidate
  <2>1. StoreOK'
    BY <1>3, NoItemOK DEF Invalidate, StoreOK
  <2> QED BY <1>3, <2>1 DEF Kept, Invalidate, SetInv, FlightOK, Executing, CallOK, groupVars
<1> QED BY <1>1, <1>2, <1>3

LEMMA SetInvInductive == SetInv /\ [Next]_vars => SetInv'
<1> SUFFICES ASSUME SetInv, [Next]_vars PROVE SetInv'
  OBVIOUS
<1>1. P!GroupInv'
  BY StepSimulates, GroupKeeps DEF SetInv
<1>2. CASE UNCHANGED vars
  BY <1>1, <1>2 DEF vars, groupVars, SetInv, StoreOK, FlightOK, Executing, CallOK
<1>3. ASSUME NEW c \in Callers, NEW ttl \in TTLs, NEW d \in CallTimeouts,
             Lookup(c, ttl, IF d = 0 THEN 0 ELSE now + d)
      PROVE  Kept
  <2>1. (IF d = 0 THEN 0 ELSE now + d) \in Nat
    BY SetAssumption DEF SetInv
  <2> QED BY <1>3, <2>1, LookupKeeps
<1>4. ASSUME Next PROVE Kept
  BY <1>3, <1>4, CallerKeeps, FlightKeeps, LoaderKeeps, EnvironmentKeeps DEF Next
<1> QED BY <1>1, <1>2, <1>4 DEF Kept, SetInv

LEMMA SetInvInitially == Init => SetInv
<1> SUFFICES ASSUME Init PROVE SetInv
  OBVIOUS
<1>1. now \in 0..MaxTime
  BY ConfigAssumption, SetAssumption DEF Init
<1>2. StoreOK
  BY NoItemOK DEF Init, StoreOK
<1>3. FlightOK /\ Executing
  BY NoFlightOK DEF Init, FlightOK, Executing
<1>4. CallOK
  BY IdleTyped DEF Init, CallOK
<1>5. P!GroupInv
  BY SameInit, P!GroupInvInitially, RangeAssumption DEF Init
<1> QED BY <1>1, <1>2, <1>3, <1>4, <1>5 DEF SetInv

(* Every reachable state of GetOrSet satisfies the invariant.              *)
THEOREM SetInvariant == Spec => []SetInv
BY SetInvInitially, SetInvInductive, PTL DEF Spec

(* The clock, the backend, the callers, the flights and the group keep     *)
(* their types: whatever fails and whatever others write, no code path     *)
(* makes up an entry or loses track of one.                                *)
THEOREM TypeCorrect == Spec => []TypeOK
<1>1. SetInv => TypeOK
  BY GroupTyped, SetAssumption DEF SetInv, StoreOK, FlightOK, CallOK, TypeOK
<1> QED BY <1>1, SetInvariant, PTL

(* GetOrSetWithCodec, loadAndStore and refreshAsync use the single-flight  *)
(* group as its specification allows, whatever the configuration.          *)
THEOREM GroupImplemented == Spec => ImplementsGroup
<1>1. Init => G!Init
  BY DEF Init
<1>2. SetInv /\ [Next]_vars => [G!Next]_(G!vars)
  BY StepSimulates DEF SetInv, groupVars, G!vars
<1> QED BY <1>1, <1>2, SetInvariant, PTL DEF Spec, ImplementsGroup, G!Spec

(* A miss and a background refresh of one cache object never run the       *)
(* loader at the same time, nor do two of either kind.                     *)
THEOREM OneLoader == Spec => []OneLoaderPerCache
<1>1. SetInv => OneLoaderPerCache
  BY DEF SetInv, Executing, P!GroupInv, P!Registered, P!InFlight, OneLoaderPerCache
<1> QED BY <1>1, SetInvariant, PTL

-----------------------------------------------------------------------------
(* The stale window.                                                       *)

(* An entry that waits for its Set was loaded at most MaxLag ticks ago and *)
(* the TTL it was packed with ends its stale window, up to the rounding.   *)
Packed ==
  \A f \in Flights : flight[f].pc = "store" =>
    LET e == flight[f].data
    IN /\ now \in e.at .. e.at + MaxLag
       /\ hasEnvelope(e) /\ e.freshUntil # 0 =>
            /\ flight[f].storeTTL > 0
            /\ e.at + flight[f].storeTTL - (e.freshUntil + StaleTTL) \in 0 .. Milli - 1

LEMMA PackAligned ==
  ASSUME NEW ttl \in TTLs \cup {0}, NEW t \in 0..MaxTime, NEW p \in packForStore(ttl, t),
         hasEnvelope(p.entry), p.entry.freshUntil # 0
  PROVE  /\ p.entry.at = t /\ p.ttl > 0
         /\ t + p.ttl - (p.entry.freshUntil + StaleTTL) \in 0 .. Milli - 1
<1>1. envelopeEnabled
  BY DEF packForStore, hasEnvelope, Payload
<1>2. PICK fresh \in applyJitter(orDefault(ttl)) :
        p = IF fresh > 0
            THEN [entry |-> wrapEnvelope(t + fresh, t), ttl |-> fresh + StaleTTL]
            ELSE [entry |-> wrapEnvelope(0, t), ttl |-> 0]
  BY <1>1 DEF packForStore
<1>3. fresh \in Nat
  BY <1>2, TTLsNat, DefaultNat, JitterNat
<1>4. fresh > 0
  BY <1>2, FloorZero DEF wrapEnvelope
<1>5. PICK u \in Nat : u = t + fresh
  BY <1>3
<1>6. p = [entry |-> wrapEnvelope(u, t), ttl |-> fresh + StaleTTL]
  BY <1>2, <1>4, <1>5
<1>7. p.entry.at = t /\ p.entry.freshUntil = Floor(u) /\ p.ttl = fresh + StaleTTL
  BY <1>6 DEF wrapEnvelope
<1>8. u - Floor(u) \in 0 .. Milli - 1 /\ Floor(u) \in Nat
  BY FloorRounds, FloorNat
<1> QED BY <1>3, <1>4, <1>5, <1>7, <1>8, ConfigAssumption

LEMMA AtOfPack ==
  ASSUME NEW ttl, NEW t, NEW p \in packForStore(ttl, t)
  PROVE  p.entry.at = t
BY DEF packForStore, Payload, wrapEnvelope

(* An entry gets to its Set through the loader only, and waits there       *)
(* unchanged.                                                              *)
LEMMA WaitsUnchanged ==
  ASSUME SetInv, SetInv', Next,
         NEW g \in Flights, ~(LoaderSucceeds(g) \/ LoaderFindsNothing(g)),
         flight'[g].pc = "store"
  PROVE  flight'[g] = flight[g]
<1>1. \A f \in Flights : flight[f] \in FlightRecord
  BY DEF SetInv, FlightOK
<1>2. ASSUME NEW f \in Flights, NEW r, Return(f, r) PROVE flight'[g] = flight[g]
  BY <1>1, <1>2 DEF Return, SetInv, FlightOK, FlightRecord
<1>3. ASSUME NEW f \in Flights, NEW closure, closure.pc = "start", loadAndStore(f, closure)
      PROVE  flight'[g] = flight[g]
  BY <1>3 DEF loadAndStore, SetInv, FlightOK
<1>4. ASSUME NEW c \in Callers, CallerStep(c) PROVE flight'[g] = flight[g]
  <2>1. CASE Serve(c)
    <3>1. CASE refreshAsync(c, parseStored(call[c].data))
      BY <1>3, <3>1 DEF refreshAsync, refreshClosure, NoFlight
    <3> QED BY <2>1, <3>1 DEF Serve
  <2>2. CASE Do(c)
    BY <1>3, <2>2 DEF Do, missClosure, NoFlight
  <2> QED BY <1>4, <2>1, <2>2 DEF CallerStep, Heal, Receive, Abandon
<1>5. ASSUME NEW f \in Flights, FlightStep(f) PROVE flight'[g] = flight[g]
  <2>1. CASE Recheck(f) \/ Judge(f) \/ StoreAndReturn(f)
    <3>1. ASSUME NEW pc \in {"load", "judge", "heal"}, NEW e,
                 flight' = [flight EXCEPT ![f].pc = pc, ![f].data = e]
          PROVE  flight'[g] = flight[g]
      BY <1>1, <3>1 DEF SetInv, FlightOK, FlightRecord
    <3>2. CASE Recheck(f)
      BY <1>2, <3>1, <3>2 DEF Recheck
    <3>3. CASE Judge(f)
      BY <1>2, <3>1, <3>3 DEF Judge
    <3> QED BY <1>2, <2>1, <3>2, <3>3 DEF StoreAndReturn
  <2>2. CASE Enter(f) \/ HealFlight(f) \/ Load(f)
    BY <1>1, <2>2 DEF Enter, HealFlight, Load, SetInv, FlightOK, FlightRecord
  <2>3. CASE Forget(f) \/ Deliver(f)
    BY <2>3 DEF Forget, Deliver, NoFlight, SetInv, FlightOK
  <2> QED BY <1>5, <2>1, <2>2, <2>3 DEF FlightStep
<1>6. ASSUME NEW f \in Flights, LoaderOutcome(f) \/ LoaderTimesOut(f)
      PROVE  flight'[g] = flight[g]
  <2>1. CASE f # g
    BY <1>2, <1>6, <2>1 DEF LoaderOutcome, LoaderSucceeds, LoaderFindsNothing, LoaderFails,
                            LoaderTimesOut, SetInv, FlightOK
  <2>2. CASE f = g
    BY <1>2, <1>6, <2>2 DEF LoaderOutcome, LoaderFails, LoaderTimesOut
  <2> QED BY <2>1, <2>2
<1> QED BY <1>4, <1>5, <1>6 DEF Next, Lookup, Tick, ForeignSet, Invalidate

LEMMA PackedInductive ==
  ASSUME SetInv, SetInv', Packed, Next
  PROVE  Packed'
<1> SUFFICES ASSUME NEW g \in Flights, flight'[g].pc = "store"
             PROVE  LET e == flight'[g].data
                    IN /\ now' \in e.at .. e.at + MaxLag
                       /\ hasEnvelope(e) /\ e.freshUntil # 0 =>
                            /\ flight'[g].storeTTL > 0
                            /\ e.at + flight'[g].storeTTL - (e.freshUntil + StaleTTL)
                                 \in 0 .. Milli - 1
  BY DEF Packed
<1>1. flight[g] \in FlightRecord /\ now \in 0..MaxTime
  BY DEF SetInv, FlightOK
<1>2. CASE LoaderSucceeds(g)
  <2>1. PICK p \in packForStore(flight[g].ttl, now) :
          flight' = [flight EXCEPT ![g].pc = "store", ![g].data = p.entry,
                                   ![g].storeTTL = p.ttl]
    BY <1>2 DEF LoaderSucceeds
  <2>2. flight'[g].data = p.entry /\ flight'[g].storeTTL = p.ttl /\ now' = now
    BY <1>1, <1>2, <2>1 DEF LoaderSucceeds, SetInv, FlightOK, FlightRecord
  <2>3. p.entry.at = now /\ now \in now .. now + MaxLag
    BY <1>1, <2>1, AtOfPack, SetAssumption
  <2>4. flight[g].ttl \in TTLs \cup {0}
    BY <1>1 DEF FlightRecord
  <2> QED BY <1>1, <2>1, <2>2, <2>3, <2>4, PackAligned
<1>3. CASE LoaderFindsNothing(g)
  <2>1. ASSUME NEW r, Return(g, r) PROVE FALSE
    BY <1>1, <2>1 DEF Return, SetInv, FlightOK, FlightRecord
  <2>2. flight'[g].data = negativeMarker(now) /\ now' = now
    BY <1>1, <1>3, <2>1 DEF LoaderFindsNothing, SetInv, FlightOK, FlightRecord
  <2>3. now \in now .. now + MaxLag
    BY <1>1, SetAssumption
  <2> QED BY <2>2, <2>3 DEF negativeMarker, hasEnvelope
<1>4. CASE ~(LoaderSucceeds(g) \/ LoaderFindsNothing(g))
  <2>1. flight'[g] = flight[g]
    BY <1>4, WaitsUnchanged
  <2>2. flight[g].data.at \in Nat /\ MaxLag \in Nat
    BY <1>1, SetAssumption DEF FlightRecord, Entry
  <2>3. now \in flight[g].data.at .. flight[g].data.at + MaxLag
    BY <2>1 DEF Packed
  <2>4. now' \in flight[g].data.at .. flight[g].data.at + MaxLag
    <3>1. CASE Tick
      BY <1>1, <2>1, <2>2, <2>3, <3>1 DEF Tick
    <3>2. CASE ~Tick
      <4>1. now' = now
        BY <3>2 DEF Next, Lookup, CallerStep, Serve, Heal, Do, Receive, Abandon, FlightStep,
             Enter, Recheck, Judge, HealFlight, Load, StoreAndReturn, Forget, Deliver,
             LoaderOutcome, LoaderSucceeds, LoaderFindsNothing, LoaderFails,
             LoaderTimesOut, ForeignSet, Invalidate
      <4> QED BY <2>3, <4>1
    <3> QED BY <3>1, <3>2
  <2> QED BY <2>1, <2>4 DEF Packed
<1> QED BY <1>2, <1>3, <1>4

(* The backend's item: written by a flight as packed, or by others without *)
(* an envelope.                                                            *)
LEMMA ExpiryInductive ==
  ASSUME "env" \notin Foreign, SetInv, Packed, ExpiryMatchesEnvelope, Next
  PROVE  ExpiryMatchesEnvelope'
<1>1. CASE store' = store \/ store' = NoItem
  BY <1>1 DEF ExpiryMatchesEnvelope, NoItem, NoEntry, hasEnvelope
<1>2. ASSUME NEW f \in Flights, flight[f].pc = "store",
             store' \in writtenItem(flight[f].data, flight[f].storeTTL, now)
      PROVE  ExpiryMatchesEnvelope'
  <2> DEFINE e == flight[f].data
             ttl == flight[f].storeTTL
  <2>1. e \in Entry(Nat) /\ ttl \in Nat /\ now \in Nat
    BY SetAssumption DEF SetInv, FlightOK, FlightRecord
  <2>2. store'.entry = e
    BY <1>2, WrittenLifetime
  <2>3. CASE hasEnvelope(e) /\ e.freshUntil # 0
    <3>1. /\ ttl > 0 /\ now \in e.at .. e.at + MaxLag
          /\ e.at + ttl - (e.freshUntil + StaleTTL) \in 0 .. Milli - 1
      BY <1>2, <2>3 DEF Packed
    <3>2. ttlFor(e, ttl) = {ttl}
      BY <2>1, <2>3, <3>1 DEF ttlFor, orDefault
    <3>3. e.at \in Nat /\ e.freshUntil \in Nat
      BY <2>1 DEF Entry
    <3>4. store' = ItemFor(e, ttl, now) \/ store' = ItemFor(e, toPX(ttl), now)
      BY <1>2, <3>2, WrittenLifetime
    <3> HIDE DEF e, ttl
    <3>5. /\ toPX(ttl) \in Nat /\ toPX(ttl) > 0
          /\ toPX(ttl) \in ttl - (Milli - 1) .. ttl + (Milli - 1)
      BY <2>1, <3>1, toPXRounds
    <3>6. PICK d \in {ttl, toPX(ttl)} : store' = ItemFor(e, d, now)
      BY <3>4
    <3>7. d \in Nat /\ d > 0 /\ d \in ttl - (Milli - 1) .. ttl + (Milli - 1)
      BY <2>1, <3>1, <3>5, <3>6, ConfigAssumption
    <3>8. store'.deadline = now + d
      BY <3>6, <3>7 DEF ItemFor
    <3> DEFINE hard == e.freshUntil + StaleTTL
    <3>9. now + d \in hard - (Milli - 1) .. hard + MaxLag + 2 * (Milli - 1)
      BY <2>1, <3>1, <3>3, <3>7, ConfigAssumption, SetAssumption
    <3>10. /\ store'.entry.freshUntil + StaleTTL = hard
           /\ store'.deadline \in hard - (Milli - 1) .. hard + MaxLag + 2 * (Milli - 1)
      BY <2>2, <3>8, <3>9
    <3> HIDE DEF hard
    <3> QED BY <3>10 DEF ExpiryMatchesEnvelope
  <2> QED BY <2>2, <2>3 DEF ExpiryMatchesEnvelope
<1>3. CASE ForeignSet
  <2>1. PICK kind \in Foreign : store' \in writtenItem(ForeignEntry(kind), 0, now)
    BY <1>3 DEF ForeignSet
  <2>2. kind \in {"garbage", "plain"}
    BY SetAssumption
  <2>3. ~hasEnvelope(store'.entry)
    BY <2>1, <2>2, WrittenLifetime DEF ForeignEntry, hasEnvelope, Garbage, Payload
  <2> QED BY <2>3 DEF ExpiryMatchesEnvelope
<1>4. ASSUME NEW f \in Flights, StoreAndReturn(f) PROVE ExpiryMatchesEnvelope'
  BY <1>1, <1>2, <1>4 DEF StoreAndReturn, Set
<1>5. CASE ~ForeignSet /\ \A f \in Flights : ~StoreAndReturn(f)
  <2>1. store' = store \/ store' = NoItem
    BY <1>5 DEF Next, Lookup, CallerStep, Serve, Heal, Do, Receive, Abandon, FlightStep,
         Enter, Recheck, Judge, HealFlight, Load, Forget, Deliver, LoaderOutcome,
         LoaderSucceeds, LoaderFindsNothing, LoaderFails, LoaderTimesOut, Tick,
         Invalidate, Delete
  <2> QED BY <1>1, <2>1
<1> QED BY <1>3, <1>4, <1>5

(* The hard expiry of an enveloped entry leaves its stale window whole to  *)
(* the millisecond, in a backend that counts ticks and in one that counts  *)
(* the milliseconds of PX, whatever the TTLs, the jitter and the order of  *)
(* flights, as long as envelopes are written by GetOrSet with this         *)
(* configuration.                                                          *)
THEOREM StaleWindowKept ==
  ASSUME "env" \notin Foreign
  PROVE  Spec => []ExpiryMatchesEnvelope
<1> DEFINE Inv == SetInv /\ Packed /\ ExpiryMatchesEnvelope
<1>1. Init => Inv
  <2>1. Init => Packed
    BY DEF Init, Packed, NoFlight
  <2>2. Init => ExpiryMatchesEnvelope
    BY DEF Init, ExpiryMatchesEnvelope, NoItem, NoEntry, hasEnvelope
  <2> QED BY <2>1, <2>2, SetInvInitially
<1>2. Inv /\ [Next]_vars => Inv'
  <2> SUFFICES ASSUME Inv, [Next]_vars PROVE Inv'
    OBVIOUS
  <2>1. SetInv'
    BY SetInvInductive
  <2>2. CASE Next
    BY <2>1, <2>2, PackedInductive, ExpiryInductive
  <2>3. CASE UNCHANGED vars
    BY <2>1, <2>3 DEF vars, Packed, ExpiryMatchesEnvelope
  <2> QED BY <2>2, <2>3
<1>3. Inv => ExpiryMatchesEnvelope
  OBVIOUS
<1> HIDE DEF Inv
<1> QED BY <1>1, <1>2, <1>3, PTL DEF Spec
=============================================================================
