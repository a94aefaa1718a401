---------------------------- MODULE AnswerProofs ----------------------------
(***************************************************************************)
(* Proofs about what a call of GetOrSet answers: that it decodes, whose    *)
(* errors it may be, and that the failure of a refresh does not get lost.  *)
(*                                                                         *)
(* An answer passes through five hands: the closure that loads or finds    *)
(* it, the flight that returns it, its delivery, the channel and the       *)
(* caller.  The invariants follow it.                                      *)
(***************************************************************************)
EXTENDS GetOrSetProofs, RefreshTriggers

-----------------------------------------------------------------------------
(* What a step does to one flight, one caller and the backend.             *)

(* A step of the goroutine of f.                                           *)
Moves(f) == FlightStep(f) \/ LoaderOutcome(f) \/ LoaderTimesOut(f)

(* f is started, by a miss or by a refresh.                                *)
Begins(f) ==
  /\ state[f] = "free" /\ state'[f] = "running" /\ res'[f] = res[f]
  /\ UNCHANGED <<now, store>>
  /\ \E c \in Callers :
       \/ Do(c) /\ flight'[f] = missClosure(c)
       \/ Serve(c) /\ flight'[f] = refreshClosure(c, parseStored(call[c].data))

Untouched(f) ==
  flight'[f] = flight[f] /\ state'[f] = state[f] /\ res'[f] = res[f]

LEMMA StartTouches ==
  ASSUME SetInv, NEW k \in Caches, NEW f \in Flights, NEW closure,
         G!Start(k, f), loadAndStore(f, closure), NEW g \in Flights
  PROVE  \/ Untouched(g)
         \/ /\ g = f /\ state[f] = "free" /\ state'[f] = "running" /\ res'[f] = res[f]
            /\ flight'[f] = closure
<1>1. flight \in [Flights -> FlightRecord] /\ G!TypeOK
  BY GroupTyped DEF SetInv, FlightOK
<1>2. CASE state[f] = "free"
  <2>1. G!Begin(k, f)
    BY <1>2, RegisteredNotFree DEF G!Start, G!Join
  <2> QED BY <1>1, <1>2, <2>1 DEF G!Begin, G!TypeOK, loadAndStore, Untouched
<1>3. CASE state[f] # "free"
  BY <1>3 DEF G!Start, G!Join, G!Begin, loadAndStore, Untouched
<1> QED BY <1>2, <1>3

LEMMA FlightMoves ==
  ASSUME SetInv, Next, NEW g \in Flights
  PROVE  Moves(g) \/ Begins(g) \/ Untouched(g)
<1>1. flight \in [Flights -> FlightRecord] /\ G!TypeOK
  BY GroupTyped DEF SetInv, FlightOK
<1>2. ASSUME NEW c \in Callers, CallerStep(c) PROVE Begins(g) \/ Untouched(g)
  <2>1. flightKey(c) \in Caches
    BY SetAssumption DEF flightKey
  <2>2. CASE Serve(c)
    <3>1. CASE refreshAsync(c, parseStored(call[c].data))
      <4>1. PICK f \in Flights :
              /\ G!DoAsync(flightKey(c), f)
              /\ loadAndStore(f, refreshClosure(c, parseStored(call[c].data)))
        BY <3>1 DEF refreshAsync
      <4>2. G!Start(flightKey(c), f)
        BY <4>1 DEF G!DoAsync
      <4>3. UNCHANGED <<now, store>>
        BY <2>2 DEF Serve
      <4> QED BY <2>1, <2>2, <4>1, <4>2, <4>3, StartTouches DEF Begins
    <3>2. CASE UNCHANGED <<flight, groupVars>>
      BY <3>2 DEF Untouched, groupVars
    <3> QED BY <2>2, <3>1, <3>2 DEF Serve
  <2>3. CASE Do(c)
    <3>1. PICK f \in Flights : G!Do(c, flightKey(c), f) /\ loadAndStore(f, missClosure(c))
      BY <2>3 DEF Do
    <3>2. G!Start(flightKey(c), f)
      BY <3>1 DEF G!Do
    <3>3. UNCHANGED <<now, store>>
      BY <2>3 DEF Do
    <3> QED BY <2>1, <2>3, <3>1, <3>2, <3>3, StartTouches DEF Begins
  <2>4. CASE Heal(c) \/ Receive(c) \/ Abandon(c)
    BY <2>4 DEF Heal, Receive, Abandon, G!Receive, G!Leave, groupVars, Untouched
  <2> QED BY <1>2, <2>2, <2>3, <2>4 DEF CallerStep
<1>3. ASSUME NEW f \in Flights, f # g, NEW r, Return(f, r) PROVE Untouched(g)
  BY <1>1, <1>3 DEF Return, G!FnReturn, G!TypeOK, Untouched
<1>4. ASSUME NEW f \in Flights, f # g, Moves(f) PROVE Untouched(g)
  <2>1. CASE Recheck(f) \/ Judge(f) \/ StoreAndReturn(f) \/ LoaderFindsNothing(f)
    BY <1>1, <1>3, <1>4, <2>1
       DEF Recheck, Judge, StoreAndReturn, LoaderFindsNothing, groupVars, Untouched
  <2>2. CASE LoaderFails(f) \/ LoaderTimesOut(f)
    BY <1>3, <1>4, <2>2 DEF LoaderFails, LoaderTimesOut
  <2>3. CASE Enter(f) \/ HealFlight(f) \/ Load(f) \/ LoaderSucceeds(f)
    BY <1>1, <1>4, <2>3 DEF Enter, HealFlight, Load, LoaderSucceeds, groupVars, Untouched
  <2>4. CASE Forget(f) \/ Deliver(f)
    BY <1>1, <1>4, <2>4 DEF Forget, Deliver, G!Forget, G!Deliver, G!TypeOK, Untouched
  <2> QED BY <1>4, <2>1, <2>2, <2>3, <2>4 DEF Moves, FlightStep, LoaderOutcome
<1>5. CASE \E c \in Callers, ttl \in TTLs, d \in CallTimeouts :
             Lookup(c, ttl, IF d = 0 THEN 0 ELSE now + d)
  BY <1>5 DEF Lookup, groupVars, Untouched
<1>6. CASE Tick \/ ForeignSet \/ Invalidate
  BY <1>6 DEF Tick, ForeignSet, Invalidate, groupVars, Untouched
<1> QED BY <1>2, <1>4, <1>5, <1>6 DEF Next, Moves

(* A channel is filled by the delivery of the flight that holds it.        *)
LEMMA ChanMoves ==
  ASSUME SetInv, Next, NEW c \in Callers
  PROVE  \/ chan'[c] = chan[c] \/ chan'[c] = NoResult
         \/ \E f \in Flights : Deliver(f) /\ waits[c] = f /\ chan'[c] = res[f]
<1>1. G!TypeOK
  BY GroupTyped
<1>2. ASSUME NEW d \in Callers, CallerStep(d) PROVE chan'[c] = chan[c] \/ chan'[c] = NoResult
  BY <1>1, <1>2 DEF CallerStep, Serve, refreshAsync, Heal, Do, Receive, Abandon, G!DoAsync,
                    G!Do, G!Receive, G!Leave, G!TypeOK, groupVars
<1>3. ASSUME NEW f \in Flights, NEW r, Return(f, r) PROVE chan'[c] = chan[c]
  BY <1>3 DEF Return, G!FnReturn
<1>4. ASSUME NEW f \in Flights, Moves(f), ~Deliver(f) PROVE chan'[c] = chan[c]
  BY <1>3, <1>4 DEF Moves, FlightStep, LoaderOutcome, Enter, Recheck, Judge, HealFlight, Load,
       StoreAndReturn, Forget, LoaderSucceeds, LoaderFindsNothing, LoaderFails,
       LoaderTimesOut, G!Forget, groupVars
<1>5. ASSUME NEW f \in Flights, Deliver(f)
      PROVE  chan'[c] = chan[c] \/ (waits[c] = f /\ chan'[c] = res[f])
  BY <1>5 DEF Deliver, G!Deliver
<1> QED BY <1>2, <1>4, <1>5
        DEF Next, Moves, Lookup, Tick, ForeignSet, Invalidate, groupVars

-----------------------------------------------------------------------------
(* Answers decode, and refreshes report their errors.                      *)
Readable(e) == isNegativeEntry(e) \/ Decodes(e)

(* A result is there from the return of the closure to the delivery.       *)
ResultsCurrent == \A f \in Flights : state[f] \in {"free", "running"} => res[f] = NoResult

(* A refresh that ended with an error has reported it.                     *)
RefreshesReport ==
  \A f \in Flights :
    flight[f].refresh /\ res[f] # NoResult /\ res[f].err # "nil" => flight[f].onRefreshError

(* Every way an answer takes is one of readable bytes: it was packed, or   *)
(* probed, before a flight returns it.                                     *)
AnswersReadable ==
  /\ \A f \in Flights : flight[f].pc = "store" => Readable(flight[f].data)
  /\ \A f \in Flights : res[f] # NoResult /\ res[f].err = "nil" => Readable(res[f].data)
  /\ \A c \in Callers : chan[c] # NoResult /\ chan[c].err = "nil" => Readable(chan[c].data)

AnswerInv ==
  SetInv /\ ResultsCurrent /\ AnswersReadable /\ RefreshesReport /\ ResultDecodes

(* What a returning closure leaves behind.                                 *)
LEMMA ReturnLeaves ==
  ASSUME SetInv, NEW f \in Flights, NEW r \in Result, Return(f, r)
  PROVE  /\ state[f] = "running" /\ state'[f] = "returned" /\ res'[f] = r
         /\ flight'[f].pc = "off" /\ flight'[f].refresh = flight[f].refresh
         /\ flight'[f].onRefreshError = (flight[f].refresh /\ r.err # "nil")
<1>1. flight[f] \in FlightRecord /\ G!TypeOK
  BY GroupTyped DEF SetInv, FlightOK
<1>2. state[f] = "running" /\ state'[f] = "returned" /\ res'[f] = r
  BY <1>1 DEF Return, G!FnReturn, G!TypeOK
<1>3. /\ flight'[f].pc = "off" /\ flight'[f].refresh = flight[f].refresh
      /\ flight'[f].onRefreshError = (flight[f].refresh /\ r.err # "nil")
  BY <1>1 DEF Return, SetInv, FlightOK, FlightRecord
<1> QED BY <1>2, <1>3

(* The ways a closure ends, and the answer each of them gives.             *)
LEMMA ClosureEnds ==
  ASSUME SetInv, NEW f \in Flights, Moves(f), state'[f] = "returned", state[f] = "running"
  PROVE  \E r \in Result :
           /\ Return(f, r)
           /\ \/ r.err # "nil"
              \/ r = Data(store.entry) /\ isNegativeEntry(store.entry) /\ Recheck(f)
              \/ r = Data(flight[f].data) /\ Satisfied(f) /\ Decodes(flight[f].data) /\ Judge(f)
              \/ r = Data(flight[f].data) /\ StoreAndReturn(f)
<1>1. UNCHANGED groupVars => FALSE
  BY DEF groupVars
<1>2. CASE Recheck(f)
  <2>1. PICK e \in Get(Expired(flight[f].ctx)) : isNegativeEntry(e) /\ Return(f, Data(e))
    BY <1>1, <1>2 DEF Recheck
  <2>2. e = store.entry
    BY <2>1 DEF Get, isNegativeEntry, NoEntry
  <2>3. Data(e) \in Result
    BY <2>1, <2>2, GetReturns, DataIsResult DEF SetInv, isNegativeEntry, NoEntry
  <2> QED BY <1>2, <2>1, <2>2, <2>3
<1>3. CASE Judge(f)
  <2>1. Data(flight[f].data) \in Result
    BY <1>3, DataIsResult DEF Judge, SetInv, FlightOK
  <2> QED BY <1>1, <1>3, <2>1 DEF Judge
<1>4. CASE StoreAndReturn(f)
  <2>1. Data(flight[f].data) \in Result
    BY <1>4, DataIsResult DEF StoreAndReturn, SetInv, FlightOK
  <2> QED BY <1>4, <2>1 DEF StoreAndReturn
<1>5. CASE LoaderFindsNothing(f) \/ LoaderFails(f) \/ LoaderTimesOut(f)
  <2>1. PICK err \in Errors : Return(f, Failure(err))
    BY <1>1, <1>5 DEF LoaderFindsNothing, LoaderFails, LoaderTimesOut, Errors
  <2>2. Failure(err) \in Result /\ Failure(err).err # "nil"
    BY FailureIsResult DEF Failure, Errors
  <2> QED BY <2>1, <2>2
<1>6. CASE Enter(f) \/ HealFlight(f) \/ Load(f) \/ LoaderSucceeds(f)
  BY <1>1, <1>6 DEF Enter, HealFlight, Load, LoaderSucceeds
<1>7. CASE Forget(f) \/ Deliver(f)
  BY <1>7 DEF Forget, Deliver, G!Forget, G!Deliver
<1> QED BY <1>2, <1>3, <1>4, <1>5, <1>6, <1>7 DEF Moves, FlightStep, LoaderOutcome

(* The other steps of a flight: inside the closure, Forget and Deliver.    *)
LEMMA MoveKinds ==
  ASSUME SetInv, NEW f \in Flights, Moves(f)
  PROVE  \/ state[f] = "running" /\ state'[f] = "returned"
         \/ UNCHANGED groupVars /\ flight[f].pc # "off"
         \/ Forget(f) /\ state[f] = "returned" /\ state'[f] = "forgotten"
              /\ flight'[f] = flight[f] /\ res'[f] = res[f]
         \/ Deliver(f) /\ state'[f] = "free" /\ flight'[f] = NoFlight /\ res'[f] = NoResult
<1>1. flight \in [Flights -> FlightRecord] /\ G!TypeOK
  BY GroupTyped DEF SetInv, FlightOK
<1>2. ASSUME NEW r, Return(f, r) PROVE state[f] = "running" /\ state'[f] = "returned"
  BY <1>1, <1>2 DEF Return, G!FnReturn, G!TypeOK
<1>3. CASE Enter(f) \/ HealFlight(f) \/ Load(f) \/ LoaderSucceeds(f)
  BY <1>3 DEF Enter, HealFlight, Load, LoaderSucceeds
<1>4. CASE Recheck(f) \/ Judge(f) \/ StoreAndReturn(f) \/ LoaderFindsNothing(f)
  BY <1>2, <1>4 DEF Recheck, Judge, StoreAndReturn, LoaderFindsNothing
<1>5. CASE LoaderFails(f) \/ LoaderTimesOut(f)
  BY <1>2, <1>5 DEF LoaderFails, LoaderTimesOut
<1>6. CASE Forget(f)
  BY <1>1, <1>6 DEF Forget, G!Forget, G!TypeOK
<1>7. CASE Deliver(f)
  BY <1>1, <1>7 DEF Deliver, G!Deliver, G!TypeOK
<1> QED BY <1>3, <1>4, <1>5, <1>6, <1>7 DEF Moves, FlightStep, LoaderOutcome

(* Everything packForStore makes decodes in the same configuration.        *)
LEMMA PackReadable ==
  ASSUME NEW ttl, NEW t, NEW p \in packForStore(ttl, t)
  PROVE  Decodes(p.entry) /\ ~isNegativeEntry(p.entry)
BY DEF packForStore, Decodes, hasEnvelope, isNegativeEntry, Payload, wrapEnvelope

(* A flight gets to its Set from the loader, with an answer of that        *)
(* instant, or stays there with the answer it has.                         *)
LEMMA ReachesSet ==
  ASSUME SetInv, SetInv', Next, NEW g \in Flights, flight'[g].pc = "store"
  PROVE  \/ flight'[g] = flight[g]
         \/ /\ flight[g].pc = "loading" /\ UNCHANGED <<now, store, call, groupVars>>
            /\ flight'[g].data.at = now
            /\ \/ \E p \in packForStore(flight[g].ttl, now) :
                    /\ flight'[g].data = p.entry /\ flight'[g].storeTTL = p.ttl
                    /\ flight'[g].ctx = flight[g].ctx
               \/ /\ NegativeTTL > 0 /\ flight'[g].data = negativeMarker(now)
                  /\ flight'[g].storeTTL = NegativeTTL /\ flight'[g].ctx = flight[g].ctx
<1>1. flight[g] \in FlightRecord /\ flight \in [Flights -> FlightRecord]
  BY DEF SetInv, FlightOK
<1>2. CASE LoaderSucceeds(g)
  <2>1. PICK p \in packForStore(flight[g].ttl, now) :
          flight' = [flight EXCEPT ![g].pc = "store", ![g].data = p.entry,
                                   ![g].storeTTL = p.ttl]
    BY <1>2 DEF LoaderSucceeds
  <2>2. /\ flight'[g].data = p.entry /\ flight'[g].storeTTL = p.ttl
        /\ flight'[g].ctx = flight[g].ctx
    BY <1>1, <2>1 DEF FlightRecord
  <2>3. p.entry.at = now
    BY <2>1, AtOfPack
  <2>4. flight[g].pc = "loading" /\ UNCHANGED <<now, store, call, groupVars>>
    BY <1>2 DEF LoaderSucceeds
  <2> QED BY <2>2, <2>3, <2>4
<1>3. CASE LoaderFindsNothing(g)
  <2>1. ASSUME NEW r, Return(g, r) PROVE FALSE
    BY <1>1, <2>1 DEF Return, FlightRecord
  <2>2. /\ NegativeTTL > 0 /\ UNCHANGED groupVars
        /\ flight'[g].data = negativeMarker(now) /\ flight'[g].storeTTL = NegativeTTL
        /\ flight'[g].ctx = flight[g].ctx
    BY <1>1, <1>3, <2>1 DEF LoaderFindsNothing, FlightRecord
  <2> QED BY <1>3, <2>2 DEF LoaderFindsNothing, negativeMarker
<1>4. CASE ~(LoaderSucceeds(g) \/ LoaderFindsNothing(g))
  BY <1>4, WaitsUnchanged
<1> QED BY <1>2, <1>3, <1>4

LEMMA ResultsInductive ==
  ASSUME AnswerInv, SetInv', Next
  PROVE  /\ ResultsCurrent' /\ RefreshesReport'
         /\ \A f \in Flights : res'[f] # NoResult /\ res'[f].err = "nil" => Readable(res'[f].data)
<1> SUFFICES ASSUME NEW g \in Flights
             PROVE  /\ state'[g] \in {"free", "running"} => res'[g] = NoResult
                    /\ flight'[g].refresh /\ res'[g] # NoResult /\ res'[g].err # "nil" =>
                         flight'[g].onRefreshError
                    /\ res'[g] # NoResult /\ res'[g].err = "nil" => Readable(res'[g].data)
  BY DEF ResultsCurrent, RefreshesReport
<1>1. /\ state[g] \in {"free", "running"} => res[g] = NoResult
      /\ flight[g].refresh /\ res[g] # NoResult /\ res[g].err # "nil" => flight[g].onRefreshError
      /\ res[g] # NoResult /\ res[g].err = "nil" => Readable(res[g].data)
      /\ flight[g].pc = "store" => Readable(flight[g].data)
  BY DEF AnswerInv, ResultsCurrent, RefreshesReport, AnswersReadable
<1>2. SetInv
  BY DEF AnswerInv
<1>3. CASE Untouched(g)
  BY <1>1, <1>3 DEF Untouched
<1>4. CASE Begins(g)
  BY <1>1, <1>4 DEF Begins
<1>5. CASE Moves(g) /\ state[g] = "running" /\ state'[g] = "returned"
  <2>1. PICK r \in Result :
           /\ Return(g, r)
           /\ \/ r.err # "nil"
              \/ r = Data(store.entry) /\ isNegativeEntry(store.entry) /\ Recheck(g)
              \/ r = Data(flight[g].data) /\ Satisfied(g) /\ Decodes(flight[g].data) /\ Judge(g)
              \/ r = Data(flight[g].data) /\ StoreAndReturn(g)
    BY <1>2, <1>5, ClosureEnds
  <2>2. /\ state'[g] = "returned" /\ res'[g] = r
        /\ flight'[g].refresh = flight[g].refresh
        /\ flight'[g].onRefreshError = (flight[g].refresh /\ r.err # "nil")
    BY <1>2, <2>1, ReturnLeaves
  <2>3. r.err = "nil" => Readable(r.data)
    BY <1>1, <2>1 DEF Data, Readable, StoreAndReturn
  <2> QED BY <2>2, <2>3
<1>6. CASE UNCHANGED groupVars /\ flight[g].pc # "off"
  <2>1. state[g] = "running" /\ UNCHANGED <<state, res>>
    BY <1>2, <1>6 DEF SetInv, Executing, groupVars
  <2> QED BY <1>1, <2>1
<1>7. CASE Moves(g)
  BY <1>1, <1>2, <1>5, <1>6, <1>7, MoveKinds
<1> QED BY <1>2, <1>3, <1>4, <1>7, FlightMoves

(* A call ends with a decode error only if its flight gave it such bytes.  *)
LEMMA CallReadable ==
  ASSUME AnswerInv, Next
  PROVE  ResultDecodes'
<1> SUFFICES ASSUME NEW c \in Callers PROVE call'[c].out.res # "decode"
  BY DEF ResultDecodes
<1>1. call \in [Callers -> CallRecord] /\ call[c].out.res # "decode"
  BY DEF AnswerInv, SetInv, CallOK, ResultDecodes
<1>2. \A outcome \in {"value", "notfound", "error", "ctx", "none"} : \A at :
        Idle(outcome, at).out.res # "decode"
  BY DEF Idle
<1>3. ASSUME NEW d \in Callers, NEW ttl, NEW ctx, Lookup(d, ttl, ctx)
      PROVE  call'[c].out.res # "decode"
  <2>1. PICK e \in Get(Done(ctx)) : call'[d] =
          CASE e.kind = "none" -> [Idle("none", 0) EXCEPT !.pc = "do", !.ttl = ttl, !.ctx = ctx,
                                                          !.data = e, !.out = call[d].out]
            [] isNegativeEntry(e) -> Idle("notfound", e.at)
            [] Decodes(e) -> [Idle("none", 0) EXCEPT !.pc = "got", !.ttl = ttl, !.ctx = ctx,
                                                     !.data = e, !.out = call[d].out]
            [] OTHER -> [Idle("none", 0) EXCEPT !.pc = "heal", !.ttl = ttl, !.ctx = ctx,
                                                !.data = e, !.out = call[d].out]
    BY <1>1, <1>3 DEF Lookup
  <2>2. call'[d].out = call[d].out \/ \E at : call'[d] = Idle("notfound", at)
    BY <2>1 DEF Idle
  <2>3. d # c => call'[c] = call[c]
    BY <1>1, <1>3 DEF Lookup
  <2> QED BY <1>1, <1>2, <2>2, <2>3
<1>4. ASSUME NEW d \in Callers, CallerStep(d) PROVE call'[c].out.res # "decode"
  <2>1. CASE Receive(d)
    <3>1. chan[d] # NoResult /\ (chan[d].err = "nil" => Readable(chan[d].data))
      BY <2>1 DEF Receive, G!Receive, AnswerInv, AnswersReadable
    <3>2. \E outcome \in {"value", "notfound", "error"} : \E at : call'[d] = Idle(outcome, at)
      BY <1>1, <2>1, <3>1 DEF Receive, Readable
    <3>3. d # c => call'[c] = call[c]
      BY <1>1, <2>1 DEF Receive
    <3> QED BY <1>1, <1>2, <3>2, <3>3
  <2>2. CASE Serve(d)
    BY <1>1, <1>2, <2>2 DEF Serve
  <2>3. CASE Abandon(d)
    BY <1>1, <1>2, <2>3 DEF Abandon
  <2>4. CASE Heal(d) \/ Do(d)
    BY <1>1, <2>4 DEF Heal, Do, CallRecord
  <2> QED BY <1>4, <2>1, <2>2, <2>3, <2>4 DEF CallerStep
<1>5. ASSUME UNCHANGED call PROVE call'[c].out.res # "decode"
  BY <1>1, <1>5
<1>6. ASSUME NEW f \in Flights, Moves(f) PROVE UNCHANGED call
  BY <1>6 DEF Moves, FlightStep, LoaderOutcome, Enter, Recheck, Judge, HealFlight, Load,
       StoreAndReturn, Forget, Deliver, LoaderSucceeds, LoaderFindsNothing, LoaderFails,
       LoaderTimesOut
<1> QED BY <1>3, <1>4, <1>5, <1>6 DEF Next, Moves, Tick, ForeignSet, Invalidate

LEMMA AnswersInductive ==
  ASSUME AnswerInv, SetInv', Next
  PROVE  AnswersReadable'
<1>1. ASSUME NEW g \in Flights, flight'[g].pc = "store" PROVE Readable(flight'[g].data)
  <2>1. CASE flight'[g] = flight[g]
    BY <1>1, <2>1 DEF AnswerInv, AnswersReadable
  <2>2. CASE flight'[g].data = negativeMarker(now)
    BY <2>2 DEF Readable, isNegativeEntry, negativeMarker
  <2>3. ASSUME NEW p \in packForStore(flight[g].ttl, now), flight'[g].data = p.entry
        PROVE  Readable(flight'[g].data)
    BY <2>3, PackReadable DEF Readable
  <2> QED BY <1>1, <2>1, <2>2, <2>3, ReachesSet DEF AnswerInv
<1>2. ASSUME NEW c \in Callers, chan'[c] # NoResult, chan'[c].err = "nil"
      PROVE  Readable(chan'[c].data)
  <2>1. \/ chan'[c] = chan[c] \/ chan'[c] = NoResult
        \/ \E f \in Flights : chan'[c] = res[f]
    BY ChanMoves DEF AnswerInv
  <2> QED BY <1>2, <2>1 DEF AnswerInv, AnswersReadable
<1> QED BY <1>1, <1>2, ResultsInductive DEF AnswersReadable

LEMMA AnswerInvInductive == AnswerInv /\ [Next]_vars => AnswerInv'
<1> SUFFICES ASSUME AnswerInv, [Next]_vars PROVE AnswerInv'
  OBVIOUS
<1>1. SetInv'
  BY SetInvInductive DEF AnswerInv
<1>2. CASE Next
  BY <1>1, <1>2, ResultsInductive, AnswersInductive, CallReadable DEF AnswerInv
<1>3. CASE UNCHANGED vars
  BY <1>1, <1>3 DEF vars, groupVars, AnswerInv, ResultsCurrent, AnswersReadable,
                    RefreshesReport, ResultDecodes
<1> QED BY <1>2, <1>3

LEMMA AnswerInvInitially == Init => AnswerInv
<1> SUFFICES ASSUME Init PROVE AnswerInv
  OBVIOUS
<1>1. ResultsCurrent /\ AnswersReadable /\ RefreshesReport
  BY DEF Init, G!Init, NoFlight, ResultsCurrent, AnswersReadable, RefreshesReport
<1>2. ResultDecodes
  BY DEF Init, Idle, ResultDecodes
<1> QED BY <1>1, <1>2, SetInvInitially DEF AnswerInv

(* Every reachable state of GetOrSet satisfies the invariant about its     *)
(* answers.                                                                *)
THEOREM AnswerInvariant == Spec => []AnswerInv
BY AnswerInvInitially, AnswerInvInductive, PTL DEF Spec

(* Whatever bytes get into the backend, however failures, self-heals and   *)
(* flights interleave: the bytes a flight hands to its callers decode.     *)
THEOREM AnswersDecode == Spec => []ResultDecodes
<1>1. AnswerInv => ResultDecodes
  BY DEF AnswerInv
<1> QED BY <1>1, AnswerInvariant, PTL

-----------------------------------------------------------------------------
(* Whose errors a call may return.                                         *)

(* The loader always has an answer, and "not found" is one that is cached. *)
LoadersSucceed ==
  /\ \A err \in {"loader", "panic", "encode"} : err \notin Faults
  /\ "notfound" \in Faults => NegativeTTL > 0

(* No flight gets as far as a deadline of its own: callers have none, and  *)
(* the time of a refresh is not over before the modelled time.             *)
FlightsInTime ==
  /\ CallTimeouts \subseteq {0}
  /\ envelopeEnabled => \A ttl \in TTLs : MaxTime < Milli + refreshTimeout(ttl)

PatientCalls ==
  \A c \in Callers : call[c].ctx = 0 /\ (call[c].pc = "got" => call[c].ttl \in TTLs)

PatientFlights ==
  \A f \in Flights :
    /\ flight[f].ctx = 0 \/ flight[f].ctx > MaxTime
    /\ flight[f].refresh /\ flight[f].pc = "start" => envelopeEnabled /\ flight[f].ttl \in TTLs

NoErrors ==
  /\ \A f \in Flights : res[f] # NoResult => res[f].err = "nil"
  /\ \A c \in Callers : chan[c] # NoResult => chan[c].err = "nil"

PatientInv ==
  /\ SetInv /\ Milli <= now
  /\ PatientCalls /\ PatientFlights /\ NoErrors /\ CancelStaysPrivate

(* What a closure was built with stays as it is, its deadline from the     *)
(* moment the goroutine runs.                                              *)
LEMMA ClosureFixed ==
  ASSUME SetInv, NEW f \in Flights, Moves(f), ~Enter(f), ~Deliver(f)
  PROVE  /\ flight'[f].ctx = flight[f].ctx /\ flight'[f].refresh = flight[f].refresh
         /\ flight'[f].refreshOf = flight[f].refreshOf /\ flight'[f].ttl = flight[f].ttl
         /\ flight'[f].pc # "start" \/ flight'[f] = flight[f]
<1> DEFINE Fixed ==
      /\ flight'[f].ctx = flight[f].ctx /\ flight'[f].refresh = flight[f].refresh
      /\ flight'[f].refreshOf = flight[f].refreshOf /\ flight'[f].ttl = flight[f].ttl
      /\ flight'[f].pc # "start" \/ flight'[f] = flight[f]
<1>1. flight[f] \in FlightRecord /\ flight \in [Flights -> FlightRecord]
  BY DEF SetInv, FlightOK
<1>2. ASSUME NEW r, Return(f, r) PROVE Fixed
  BY <1>1, <1>2 DEF Return, FlightRecord
<1>3. CASE Recheck(f)
  <2>1. ASSUME NEW e, flight' = [flight EXCEPT ![f].pc = IF e = NoEntry THEN "load" ELSE "judge",
                                               ![f].data = e]
        PROVE  Fixed
    BY <1>1, <2>1 DEF FlightRecord
  <2> QED BY <1>2, <1>3, <2>1 DEF Recheck
<1>4. CASE Judge(f)
  <2>1. ASSUME flight' = [flight EXCEPT ![f].pc = IF Satisfied(f) THEN "heal" ELSE "load",
                                        ![f].data = NoEntry]
        PROVE  Fixed
    BY <1>1, <2>1 DEF FlightRecord
  <2> QED BY <1>2, <1>4, <2>1 DEF Judge
<1>5. CASE HealFlight(f) \/ Load(f)
  BY <1>1, <1>5 DEF HealFlight, Load, FlightRecord
<1>6. CASE LoaderSucceeds(f)
  BY <1>1, <1>6 DEF LoaderSucceeds, FlightRecord
<1>7. CASE LoaderFindsNothing(f)
  <2>1. CASE NegativeTTL > 0
    BY <1>1, <1>7, <2>1 DEF LoaderFindsNothing, FlightRecord
  <2> QED BY <1>2, <1>7, <2>1 DEF LoaderFindsNothing
<1>8. CASE LoaderFails(f) \/ LoaderTimesOut(f) \/ StoreAndReturn(f)
  BY <1>2, <1>8 DEF LoaderFails, LoaderTimesOut, StoreAndReturn
<1>9. CASE Forget(f)
  BY <1>9 DEF Forget
<1> QED BY <1>3, <1>4, <1>5, <1>6, <1>7, <1>8, <1>9 DEF Moves, FlightStep, LoaderOutcome

(* A refresh is started for an entry with a freshness deadline only, that  *)
(* is, for an envelope, and one that is stale unless it is early.          *)
LEMMA RefreshHasReason ==
  ASSUME SetInv, NEW f \in Flights, NEW c \in Callers, Serve(c),
         state[f] = "free", state'[f] = "running"
  PROVE  /\ call[c].pc = "got" /\ envelopeEnabled
         /\ parseStored(call[c].data) # 0
         /\ earlyRefreshBeta <= 0 => stale(parseStored(call[c].data), now)
<1>1. PICK early \in shouldEarlyRefresh(parseStored(call[c].data), now) :
        stale(parseStored(call[c].data), now) \/ early
  BY DEF Serve, groupVars
<1>2. earlyRefreshBeta <= 0 \/ parseStored(call[c].data) = 0 => ~early
  BY <1>1 DEF shouldEarlyRefresh
<1>3. parseStored(call[c].data) # 0
  BY <1>1, <1>2 DEF stale
<1> QED BY <1>1, <1>2, <1>3 DEF Serve, parseStored

LEMMA NowMoves == ASSUME SetInv, Next PROVE now' \in Nat /\ now <= now'
<1>1. now \in Nat
  BY SetAssumption DEF SetInv
<1>2. CASE Tick
  BY <1>1, <1>2 DEF Tick
<1>3. CASE ~Tick
  <2>1. now' = now
    BY <1>3 DEF Next, Lookup, CallerStep, Serve, Heal, Do, Receive, Abandon, FlightStep,
             Enter, Recheck, Judge, HealFlight, Load, StoreAndReturn, Forget, Deliver,
             LoaderOutcome, LoaderSucceeds, LoaderFindsNothing, LoaderFails,
             LoaderTimesOut, ForeignSet, Invalidate
  <2> QED BY <1>1, <2>1
<1> QED BY <1>2, <1>3

LEMMA PatientFlightsInductive ==
  ASSUME FlightsInTime, PatientInv, Next
  PROVE  PatientFlights'
<1> SUFFICES ASSUME NEW g \in Flights
             PROVE  /\ flight'[g].ctx = 0 \/ flight'[g].ctx > MaxTime
                    /\ flight'[g].refresh /\ flight'[g].pc = "start" =>
                         envelopeEnabled /\ flight'[g].ttl \in TTLs
  BY DEF PatientFlights
<1>1. /\ flight[g].ctx = 0 \/ flight[g].ctx > MaxTime
      /\ flight[g].refresh /\ flight[g].pc = "start" => envelopeEnabled /\ flight[g].ttl \in TTLs
      /\ SetInv /\ flight[g] \in FlightRecord /\ now \in Nat /\ Milli <= now
  BY SetAssumption DEF PatientInv, PatientFlights, SetInv, FlightOK
<1>2. CASE Enter(g)
  <2> DEFINE ctx == IF flight[g].refresh THEN now + refreshTimeout(flight[g].ttl)
                    ELSE flight[g].ctx
  <2>1. flight'[g].ctx = ctx /\ flight'[g].pc = "recheck"
    BY <1>1, <1>2 DEF Enter, SetInv, FlightOK, FlightRecord
  <2>2. CASE flight[g].refresh
    <3>1. envelopeEnabled /\ flight[g].ttl \in TTLs
      BY <1>1, <1>2, <2>2 DEF Enter
    <3>2. PICK d \in Nat : d = refreshTimeout(flight[g].ttl)
      <4>1. flight[g].ttl \in Nat
        BY <3>1, TTLsNat
      <4> QED BY <4>1, DefaultNat, ConfigAssumption, SetAssumption DEF refreshTimeout
    <3>3. MaxTime < Milli + d
      BY <3>1, <3>2 DEF FlightsInTime
    <3>4. now + d > MaxTime
      BY <1>1, <3>2, <3>3, ConfigAssumption, SetAssumption
    <3> QED BY <2>1, <2>2, <3>2, <3>4
  <2>3. CASE ~flight[g].refresh
    BY <1>1, <2>1, <2>3
  <2> QED BY <2>2, <2>3
<1>3. CASE Begins(g)
  <2>1. PICK c \in Callers :
          \/ Do(c) /\ flight'[g] = missClosure(c)
          \/ Serve(c) /\ flight'[g] = refreshClosure(c, parseStored(call[c].data))
    BY <1>3 DEF Begins
  <2>2. call[c].ctx = 0 /\ (call[c].pc = "got" => call[c].ttl \in TTLs)
    BY DEF PatientInv, PatientCalls
  <2>3. CASE flight'[g] = missClosure(c)
    BY <2>2, <2>3 DEF missClosure, NoFlight
  <2>4. CASE Serve(c) /\ flight'[g] = refreshClosure(c, parseStored(call[c].data))
    <3>1. call[c].pc = "got" /\ envelopeEnabled
      BY <1>1, <1>3, <2>4, RefreshHasReason DEF Begins
    <3> QED BY <2>2, <2>4, <3>1 DEF refreshClosure, NoFlight
  <2> QED BY <2>1, <2>3, <2>4
<1>4. CASE Moves(g) /\ ~Enter(g) /\ ~Deliver(g)
  BY <1>1, <1>4, ClosureFixed
<1>5. CASE Deliver(g)
  <2>1. flight'[g] = NoFlight
    BY <1>1, <1>5 DEF Deliver, SetInv, FlightOK
  <2> QED BY <2>1 DEF NoFlight
<1>6. CASE Untouched(g)
  BY <1>1, <1>6 DEF Untouched
<1> QED BY <1>1, <1>2, <1>3, <1>4, <1>5, <1>6, FlightMoves

LEMMA NoErrorsInductive ==
  ASSUME LoadersSucceed, PatientInv, Next
  PROVE  NoErrors'
<1>1. SetInv /\ now \in 0..MaxTime
  BY DEF PatientInv, SetInv
<1>2. ASSUME NEW g \in Flights, res'[g] # NoResult PROVE res'[g].err = "nil"
  <2>1. res[g] # NoResult => res[g].err = "nil"
    BY DEF PatientInv, NoErrors
  <2>2. CASE Moves(g) /\ state[g] = "running" /\ state'[g] = "returned"
    <3>1. PICK r \in Result : Return(g, r)
      BY <1>1, <2>2, ClosureEnds
    <3>2. res'[g] = r
      BY <1>1, <3>1, ReturnLeaves
    <3>3. CASE r.err # "nil"
      <4>1. ~Expired(flight[g].ctx)
        <5>1. flight[g].ctx \in Nat /\ (flight[g].ctx = 0 \/ flight[g].ctx > MaxTime)
          BY DEF PatientInv, PatientFlights, SetInv, FlightOK, FlightRecord
        <5> QED BY <1>1, <5>1, SetAssumption DEF Expired
      <4>2. LoaderFindsNothing(g) \/ LoaderFails(g) \/ LoaderTimesOut(g)
        <5>1. \A e : Data(e).err = "nil"
          BY DEF Data
        <5>2. \A e : ~Return(g, Data(e))
          <6> SUFFICES ASSUME NEW e, Return(g, Data(e)) PROVE FALSE
            OBVIOUS
          <6>1. res'[g] = Data(e)
            BY <1>1, GroupTyped DEF Return, G!FnReturn, G!TypeOK
          <6> QED BY <3>2, <3>3, <5>1, <6>1
        <5>3. ~UNCHANGED groupVars
          BY <2>2 DEF groupVars
        <5> QED BY <2>2, <5>2, <5>3 DEF Moves, FlightStep, LoaderOutcome, Enter, Recheck, Judge,
                 HealFlight, Load, StoreAndReturn, Forget, Deliver, LoaderSucceeds,
                 G!Forget, G!Deliver
      <4>3. CASE LoaderFindsNothing(g)
        <5>1. NegativeTTL > 0
          BY <4>3 DEF LoaderFindsNothing, LoadersSucceed
        <5>2. UNCHANGED groupVars
          BY <4>3, <5>1 DEF LoaderFindsNothing
        <5> QED BY <2>2, <5>2 DEF groupVars
      <4> QED BY <4>1, <4>2, <4>3 DEF LoaderFails, LoaderTimesOut, LoadersSucceed
    <3> QED BY <3>2, <3>3
  <2>3. CASE UNCHANGED groupVars
    BY <1>2, <2>1, <2>3 DEF groupVars
  <2>4. CASE Moves(g)
    BY <1>1, <1>2, <2>1, <2>2, <2>3, <2>4, MoveKinds
  <2> QED BY <1>1, <1>2, <2>1, <2>4, FlightMoves DEF Begins, Untouched
<1>3. ASSUME NEW c \in Callers, chan'[c] # NoResult PROVE chan'[c].err = "nil"
  <2>1. \/ chan'[c] = chan[c] \/ chan'[c] = NoResult
        \/ \E f \in Flights : chan'[c] = res[f]
    BY <1>1, ChanMoves
  <2> QED BY <1>3, <2>1 DEF PatientInv, NoErrors
<1> QED BY <1>2, <1>3 DEF NoErrors

(* What a step does to one call.                                           *)
LEMMA CallMoves ==
  ASSUME SetInv, Next, NEW c \in Callers
  PROVE  \/ call'[c] = call[c] \/ CallerStep(c)
         \/ \E ttl \in TTLs, d \in CallTimeouts : Lookup(c, ttl, IF d = 0 THEN 0 ELSE now + d)
<1>1. call \in [Callers -> CallRecord]
  BY DEF SetInv, CallOK
<1>2. ASSUME NEW d \in Callers \ {c}, CallerStep(d) PROVE call'[c] = call[c]
  BY <1>1, <1>2 DEF CallerStep, Serve, Heal, Do, Receive, Abandon
<1>3. ASSUME NEW d \in Callers \ {c}, NEW ttl, NEW ctx, Lookup(d, ttl, ctx)
      PROVE  call'[c] = call[c]
  BY <1>1, <1>3 DEF Lookup
<1>4. ASSUME NEW f \in Flights, Moves(f) PROVE call'[c] = call[c]
  BY <1>4 DEF Moves, FlightStep, LoaderOutcome, Enter, Recheck, Judge, HealFlight, Load,
       StoreAndReturn, Forget, Deliver, LoaderSucceeds, LoaderFindsNothing, LoaderFails,
       LoaderTimesOut
<1> QED BY <1>2, <1>3, <1>4 DEF Next, Moves, Tick, ForeignSet, Invalidate

LEMMA NoneIsNoEntry == ASSUME NEW e \in Bytes PROVE e.kind = "none" <=> e = NoEntry
<1>1. CASE e = NoEntry
  BY <1>1 DEF NoEntry
<1>2. ASSUME e.kind \in {"neg", "plain", "env"} PROVE e # NoEntry /\ e.kind # "none"
  BY <1>2 DEF NoEntry
<1>3. CASE \E t \in Instants : e = negativeMarker(t) \/ e = Payload(t)
  BY <1>2, <1>3 DEF negativeMarker, Payload
<1>4. CASE e = Garbage
  BY <1>2, <1>4 DEF Garbage
<1>5. CASE e \in [kind : {"env"}, ok : {TRUE}, at : Instants, freshUntil : Instants]
  BY <1>2, <1>5
<1> QED BY <1>1, <1>2, <1>3, <1>4, <1>5 DEF Bytes, Stored

(* What a new call finds: nothing, a negative entry, or an entry to go on  *)
(* with.                                                                   *)
LEMMA LookupFinds ==
  ASSUME SetInv, NEW c \in Callers, NEW ttl, NEW ctx, Lookup(c, ttl, ctx)
  PROVE  \/ store.entry.kind # "none" /\ call'[c] = Idle("notfound", store.entry.at)
         \/ /\ call'[c].out = call[c].out /\ call'[c].ttl = ttl /\ call'[c].ctx = ctx
            /\ call'[c].pc \in {"do", "got", "heal"}
            /\ call'[c].pc = "got" => /\ store.entry.kind # "none"
                                      /\ call'[c].data = store.entry
<1>1. call \in [Callers -> CallRecord]
  BY DEF SetInv, CallOK
<1>2. PICK e \in Get(Done(ctx)) : call'[c] =
          CASE e.kind = "none" -> [Idle("none", 0) EXCEPT !.pc = "do", !.ttl = ttl, !.ctx = ctx,
                                                          !.data = e, !.out = call[c].out]
            [] isNegativeEntry(e) -> Idle("notfound", e.at)
            [] Decodes(e) -> [Idle("none", 0) EXCEPT !.pc = "got", !.ttl = ttl, !.ctx = ctx,
                                                     !.data = e, !.out = call[c].out]
            [] OTHER -> [Idle("none", 0) EXCEPT !.pc = "heal", !.ttl = ttl, !.ctx = ctx,
                                                !.data = e, !.out = call[c].out]
  BY <1>1 DEF Lookup
<1>3. e.kind # "none" => e = store.entry
  BY <1>2 DEF Get, NoEntry
<1>4. CASE e.kind # "none" /\ isNegativeEntry(e)
  BY <1>2, <1>3, <1>4
<1>5. ASSUME NEW pc \in {"do", "got", "heal"},
             call'[c] = [Idle("none", 0) EXCEPT !.pc = pc, !.ttl = ttl, !.ctx = ctx,
                                                !.data = e, !.out = call[c].out]
      PROVE  /\ call'[c].out = call[c].out /\ call'[c].ttl = ttl /\ call'[c].ctx = ctx
             /\ call'[c].pc = pc /\ call'[c].data = e
  BY <1>5 DEF Idle
<1>6. CASE e.kind # "none" /\ ~isNegativeEntry(e) /\ Decodes(e)
  <2>1. call'[c] = [Idle("none", 0) EXCEPT !.pc = "got", !.ttl = ttl, !.ctx = ctx,
                                           !.data = e, !.out = call[c].out]
    BY <1>2, <1>6
  <2> QED BY <1>3, <1>5, <1>6, <2>1
<1>7. CASE e.kind = "none"
  <2>1. call'[c] = [Idle("none", 0) EXCEPT !.pc = "do", !.ttl = ttl, !.ctx = ctx,
                                           !.data = e, !.out = call[c].out]
    <3>1. e = NoEntry
      BY <1>2, <1>7, NoneIsNoEntry, GetReturns DEF SetInv
    <3>2. ~isNegativeEntry(e) /\ ~Decodes(e)
      BY <3>1 DEF NoEntry, isNegativeEntry, Decodes
    <3> QED BY <1>2, <1>7, <3>2
  <2> QED BY <1>5, <2>1
<1>8. CASE e.kind # "none" /\ ~isNegativeEntry(e) /\ ~Decodes(e)
  <2>1. call'[c] = [Idle("none", 0) EXCEPT !.pc = "heal", !.ttl = ttl, !.ctx = ctx,
                                           !.data = e, !.out = call[c].out]
    BY <1>2, <1>8
  <2> QED BY <1>5, <2>1
<1> QED BY <1>4, <1>6, <1>7, <1>8

LEMMA PatientCallsInductive ==
  ASSUME FlightsInTime, PatientInv, Next
  PROVE  PatientCalls' /\ CancelStaysPrivate'
<1> SUFFICES ASSUME NEW c \in Callers
             PROVE  /\ call'[c].ctx = 0 /\ (call'[c].pc = "got" => call'[c].ttl \in TTLs)
                    /\ call'[c].out.res # "error"
  BY DEF PatientCalls, CancelStaysPrivate
<1>1. /\ SetInv /\ call \in [Callers -> CallRecord]
      /\ call[c].ctx = 0 /\ (call[c].pc = "got" => call[c].ttl \in TTLs)
      /\ call[c].out.res # "error"
  BY DEF PatientInv, PatientCalls, CancelStaysPrivate, SetInv, CallOK
<1>2. ASSUME NEW outcome \in {"none", "value", "notfound", "decode", "ctx"}, NEW at,
             call'[c] = Idle(outcome, at)
      PROVE  /\ call'[c].ctx = 0 /\ (call'[c].pc = "got" => call'[c].ttl \in TTLs)
             /\ call'[c].out.res # "error"
  BY <1>2 DEF Idle
<1>3. ASSUME NEW ttl \in TTLs, NEW d \in CallTimeouts,
             Lookup(c, ttl, IF d = 0 THEN 0 ELSE now + d)
      PROVE  /\ call'[c].ctx = 0 /\ (call'[c].pc = "got" => call'[c].ttl \in TTLs)
             /\ call'[c].out.res # "error"
  <2>1. Lookup(c, ttl, 0)
    BY <1>3 DEF FlightsInTime
  <2> QED BY <1>1, <1>2, <2>1, LookupFinds
<1>4. CASE CallerStep(c)
  <2>1. CASE Serve(c)
    BY <1>1, <1>2, <2>1 DEF Serve
  <2>2. CASE Heal(c) \/ Do(c)
    BY <1>1, <2>2 DEF Heal, Do, CallRecord
  <2>3. CASE Receive(c)
    <3>1. chan[c].err = "nil"
      BY <2>3 DEF Receive, G!Receive, PatientInv, NoErrors
    <3>2. \E outcome \in {"value", "notfound", "decode"} : \E at : call'[c] = Idle(outcome, at)
      BY <1>1, <2>3, <3>1 DEF Receive
    <3> QED BY <1>2, <3>2
  <2>4. CASE Abandon(c)
    BY <1>1, <1>2, <2>4 DEF Abandon
  <2> QED BY <1>4, <2>1, <2>2, <2>3, <2>4 DEF CallerStep
<1> QED BY <1>1, <1>3, <1>4, CallMoves

(* "one canceled request cannot fail every waiter" (GetOrSet): callers     *)
(* that start a flight and go away at any moment of it never make another  *)
(* caller's GetOrSet fail, if the loaders succeed and no flight runs into  *)
(* a deadline of its own.                                                  *)
THEOREM CancellationIsPrivate ==
  ASSUME LoadersSucceed, FlightsInTime
  PROVE  Spec => []CancelStaysPrivate
<1>1. Init => PatientInv
  <2> SUFFICES ASSUME Init PROVE PatientInv
    OBVIOUS
  <2>1. SetInv /\ Milli <= now
    BY SetInvInitially, ConfigAssumption DEF Init
  <2>2. PatientCalls /\ CancelStaysPrivate
    BY DEF Init, Idle, PatientCalls, CancelStaysPrivate
  <2>3. PatientFlights /\ NoErrors
    BY DEF Init, G!Init, NoFlight, PatientFlights, NoErrors
  <2> QED BY <2>1, <2>2, <2>3 DEF PatientInv
<1>2. PatientInv /\ [Next]_vars => PatientInv'
  <2> SUFFICES ASSUME PatientInv, [Next]_vars PROVE PatientInv'
    OBVIOUS
  <2>1. SetInv'
    BY SetInvInductive DEF PatientInv
  <2>2. CASE Next
    <3>1. Milli <= now'
      BY <2>2, NowMoves, ConfigAssumption, SetAssumption DEF PatientInv, SetInv
    <3> QED BY <2>1, <2>2, <3>1, PatientCallsInductive, PatientFlightsInductive,
               NoErrorsInductive DEF PatientInv
  <2>3. CASE UNCHANGED vars
    BY <2>1, <2>3 DEF vars, groupVars, PatientInv, PatientCalls, PatientFlights, NoErrors,
                      CancelStaysPrivate
  <2> QED BY <2>2, <2>3
<1>3. PatientInv => CancelStaysPrivate
  BY DEF PatientInv
<1> QED BY <1>1, <1>2, <1>3, PTL DEF Spec
-----------------------------------------------------------------------------
(* Failed refreshes.                                                       *)

(* No caller leaves group.do before its flight is over.                    *)
NobodyLeaves == "cancel" \notin Faults /\ CallTimeouts \subseteq {0}

Deadlineless == \A c \in Callers : call[c].ctx = 0

(* A flight of the miss path has a waiter until it is delivered.           *)
Awaited ==
  \A f \in Flights : state[f] # "free" /\ ~flight[f].refresh => \E c \in Callers : waits[c] = f

LEMMA DeadlinelessInductive ==
  ASSUME NobodyLeaves, SetInv, Deadlineless, Next
  PROVE  Deadlineless'
<1> SUFFICES ASSUME NEW c \in Callers PROVE call'[c].ctx = 0
  BY DEF Deadlineless
<1>1. call[c].ctx = 0 /\ call \in [Callers -> CallRecord] /\ call[c] \in CallRecord
  BY DEF Deadlineless, SetInv, CallOK
<1>2. \A outcome, at : Idle(outcome, at).ctx = 0
  BY DEF Idle
<1>3. CASE CallerStep(c)
  <2>1. CASE Heal(c) \/ Do(c)
    BY <1>1, <2>1 DEF Heal, Do, CallRecord
  <2>2. CASE Receive(c)
    BY <1>1, <1>2, <2>2 DEF Receive
  <2>3. CASE Serve(c) \/ Abandon(c)
    BY <1>1, <1>2, <2>3 DEF Serve, Abandon
  <2> QED BY <1>3, <2>1, <2>2, <2>3 DEF CallerStep
<1>4. ASSUME NEW ttl \in TTLs, NEW d \in CallTimeouts,
             Lookup(c, ttl, IF d = 0 THEN 0 ELSE now + d)
      PROVE  call'[c].ctx = 0
  <2>1. d = 0
    BY DEF NobodyLeaves
  <2>2. Lookup(c, ttl, 0)
    BY <1>4, <2>1
  <2> QED BY <1>2, <2>2, LookupFinds
<1> QED BY <1>1, <1>3, <1>4, CallMoves

(* Waiters only go when their flight is delivered or, having received its  *)
(* result, with none.                                                      *)
LEMMA WaitersStay ==
  ASSUME NobodyLeaves, SetInv, Deadlineless, Next,
         NEW c \in Callers, NEW f \in Flights, waits[c] = f, ~Deliver(f)
  PROVE  waits'[c] = f
<1>1. G!TypeOK /\ None \notin Flights
  BY GroupTyped, RangeAssumption
<1>2. ASSUME NEW d \in Callers, CallerStep(d) PROVE waits'[c] = f
  <2>1. ~Abandon(d)
    BY DEF Abandon, Done, Expired, NobodyLeaves, Deadlineless
  <2>2. CASE Do(d)
    <3>1. ~G!InDo(d)
      BY <2>2 DEF Do, G!Do
    <3>2. c # d
      BY <1>1, <3>1 DEF G!InDo
    <3> QED BY <1>1, <2>2, <3>2 DEF Do, G!Do, G!TypeOK
  <2>3. CASE Serve(d) \/ Heal(d) \/ Receive(d)
    BY <2>3 DEF Serve, refreshAsync, Heal, Receive, G!DoAsync, G!Receive, groupVars
  <2> QED BY <1>2, <2>1, <2>2, <2>3 DEF CallerStep
<1>3. ASSUME NEW g \in Flights, NEW r, Return(g, r) PROVE waits'[c] = f
  BY <1>3 DEF Return, G!FnReturn
<1>4. ASSUME NEW g \in Flights, Moves(g), ~Deliver(g) PROVE waits'[c] = f
  BY <1>3, <1>4 DEF Moves, FlightStep, LoaderOutcome, Enter, Recheck, Judge, HealFlight, Load,
       StoreAndReturn, Forget, LoaderSucceeds, LoaderFindsNothing, LoaderFails,
       LoaderTimesOut, G!Forget, groupVars
<1>5. ASSUME NEW g \in Flights, Deliver(g) PROVE waits'[c] = f
  BY <1>5 DEF Deliver, G!Deliver
<1> QED BY <1>2, <1>4, <1>5
        DEF Next, Moves, Lookup, Tick, ForeignSet, Invalidate, groupVars

LEMMA AwaitedInductive ==
  ASSUME NobodyLeaves, SetInv, Deadlineless, Awaited, Next
  PROVE  Awaited'
<1> SUFFICES ASSUME NEW g \in Flights, state'[g] # "free", ~flight'[g].refresh
             PROVE  \E c \in Callers : waits'[c] = g
  BY DEF Awaited
<1>1. flight \in [Flights -> FlightRecord] /\ G!TypeOK
  BY GroupTyped DEF SetInv, FlightOK
<1>2. ASSUME state[g] # "free", flight'[g].refresh = flight[g].refresh, ~Deliver(g)
      PROVE  \E c \in Callers : waits'[c] = g
  BY <1>2, WaitersStay DEF Awaited
<1>3. CASE Begins(g)
  <2>1. PICK c \in Callers :
          \/ Do(c) /\ flight'[g] = missClosure(c)
          \/ Serve(c) /\ flight'[g] = refreshClosure(c, parseStored(call[c].data))
    BY <1>3 DEF Begins
  <2>2. Do(c)
    BY <2>1 DEF refreshClosure, NoFlight
  <2>3. PICK f \in Flights : G!Do(c, flightKey(c), f)
    BY <2>2 DEF Do
  <2>4. f = g
    BY <1>1, <1>3, <2>3 DEF Begins, G!Do, G!Start, G!Join, G!Begin, G!TypeOK
  <2>5. waits'[c] = g
    BY <1>1, <2>3, <2>4 DEF G!Do, G!TypeOK
  <2> QED BY <2>5
<1>4. CASE Untouched(g) /\ ~Deliver(g)
  BY <1>2, <1>4 DEF Untouched
<1>5. CASE Deliver(g)
  BY <1>1, <1>5 DEF Deliver, G!Deliver, G!TypeOK
<1>6. CASE Moves(g) /\ ~Deliver(g)
  <2>1. state[g] # "free"
    <3>1. CASE UNCHANGED groupVars /\ flight[g].pc # "off"
      BY <3>1 DEF SetInv, Executing
    <3> QED BY <1>6, <3>1, MoveKinds
  <2>2. flight'[g].refresh = flight[g].refresh
    <3>1. CASE Enter(g)
      BY <1>1, <3>1 DEF Enter, FlightRecord
    <3>2. CASE ~Enter(g)
      BY <1>6, <3>2, ClosureFixed
    <3> QED BY <3>1, <3>2
  <2> QED BY <1>2, <1>6, <2>1, <2>2
<1> QED BY <1>3, <1>4, <1>5, <1>6, FlightMoves

(* While callers stay with the flights they are in, a failure of the       *)
(* flight a stale hit relies on never gets lost: a refresh reports it, and *)
(* if the stale hit had joined a miss, the caller that missed gets it.     *)
THEOREM FailuresVisible ==
  ASSUME NobodyLeaves
  PROVE  HistorySpec => []FailedRefreshVisible
<1> DEFINE Inv == AnswerInv /\ Deadlineless /\ Awaited /\ triggered \subseteq Flights
<1>1. HistoryInit => Inv
  <2>1. Init => Deadlineless /\ Awaited
    BY DEF Init, G!Init, Idle, Deadlineless, Awaited
  <2> QED BY <2>1, AnswerInvInitially DEF HistoryInit
<1>2. Inv /\ [HistoryNext]_historyVars => Inv'
  <2> SUFFICES ASSUME Inv, [HistoryNext]_historyVars PROVE Inv'
    OBVIOUS
  <2>1. [Next]_vars /\ SetInv
    BY DEF HistoryNext, historyVars, AnswerInv
  <2>2. AnswerInv' /\ SetInv'
    BY <2>1, AnswerInvInductive DEF AnswerInv
  <2>3. CASE HistoryNext
    <3>1. Next
      BY <2>3 DEF HistoryNext
    <3>2. Deadlineless' /\ Awaited'
      BY <2>1, <3>1, DeadlinelessInductive, AwaitedInductive
    <3>3. ASSUME NEW c \in StaleHits PROVE calls'[flightKey(c)] \in Flights
      <4>1. c \in Callers /\ call[c].pc = "got" /\ call'[c].pc = "idle"
            /\ stale(parseStored(call[c].data), now)
        BY <3>3 DEF StaleHits
      <4>2. call \in [Callers -> CallRecord]
        BY <2>1 DEF SetInv, CallOK
      <4>3. CallerStep(c)
        <5>1. ASSUME NEW ttl, NEW ctx PROVE ~Lookup(c, ttl, ctx)
          BY <4>1 DEF Lookup
        <5> QED BY <2>1, <3>1, <4>1, <5>1, CallMoves
      <4>4. Serve(c)
        BY <4>1, <4>3 DEF CallerStep, Heal, Do, Receive, Abandon
      <4>5. refreshAsync(c, parseStored(call[c].data))
        BY <4>1, <4>4 DEF Serve
      <4>6. PICK f \in Flights : G!DoAsync(flightKey(c), f)
        BY <4>5 DEF refreshAsync
      <4>7. flightKey(c) \in Caches
        BY <4>1, SetAssumption DEF flightKey
      <4> QED BY <2>1, <4>6, <4>7, GroupTyped DEF G!DoAsync, G!Start, G!Join, G!Begin, G!TypeOK
    <3> QED BY <2>2, <2>3, <3>2, <3>3 DEF HistoryNext
  <2>4. CASE UNCHANGED historyVars
    BY <2>2, <2>4 DEF historyVars, vars, groupVars, Deadlineless, Awaited
  <2> QED BY <2>3, <2>4
<1>3. Inv => FailedRefreshVisible
  BY DEF AnswerInv, ResultsCurrent, RefreshesReport, Awaited, FailedRefreshVisible
<1> HIDE DEF Inv
<1> QED BY <1>1, <1>2, <1>3, PTL DEF HistorySpec
=============================================================================
