--------------------------- MODULE TestAppProofs ---------------------------
(***************************************************************************)
(* Proofs about the test application: its types, that no loader runs for a *)
(* key the cluster still has, and what a failure of a demo means, for any  *)
(* number of requests, keys and flights.                                   *)
(*                                                                         *)
(* The proofs rest on what LoadGroupProofs shows of the group.  The first  *)
(* demo needs facts of its own: main runs it with nothing loaded before,   *)
(* and nothing in it is lost until main has seen it loaded.                *)
(***************************************************************************)
EXTENDS TestApp, TLAPS

P == INSTANCE LoadGroupProofs WITH Callers <- Workers, Results <- {"value", "error"}

Demo ==
  [pc : {"idle", "get", "do", "wait"}, pass : 1..2, i : DOMAIN demoKeys,
   gone : BOOLEAN, failed : Keys \cup {None}, lost : SUBSET Keys]

Closure == [pc : {"none", "recheck", "load", "set"}, pass : 1..2]

(* A closure is only executed by a flight the group has running, and a     *)
(* result is there from its return to the delivery.                        *)
Executing ==
  \A f \in Flights : /\ flight[f].pc # "none" => state[f] = "running"
                     /\ state[f] \in {"free", "running"} => res[f] = NoResult

(* What is loaded is in the cluster, or about to be.                       *)
Held ==
  \A k \in Keys : loaded[k] =>
    store[k] \/ \E f \in Flights : flight[f].pc = "set" /\ key[f] = k

-----------------------------------------------------------------------------
(* A demo that waits does so for its key, and no other demo is in the      *)
(* group.                                                                  *)
AtSelect ==
  \A w \in Workers :
    /\ waits[w] = None \/ chan[w] = NoResult
    /\ waits[w] # None \/ chan[w] # NoResult => work[w].pc = "wait"
    /\ waits[w] # None => key[waits[w]] = Key(w)

(* A request knows of every key that is not loaded.                        *)
Known ==
  \A h \in Handlers : work[h].pc # "idle" => \A k \in Keys : loaded[k] \/ k \in work[h].lost

(* An error is one of a key that is not loaded, and whoever gets it knows. *)
ErrorsKnown ==
  /\ \A f \in Flights : state[f] = "returned" /\ res[f] = "error" => ~loaded[key[f]]
  /\ \A w \in Workers :
       /\ waits[w] # None /\ res[waits[w]] = "error" => Key(w) \in work[w].lost
       /\ chan[w] = "error" => Key(w) \in work[w].lost

(* Until the server is started main is alone, and waits for every flight.  *)
Startup ==
  /\ phase \in {"ping", "sleep"} => work[Main] = NoDemo
  /\ phase = "demo" => work[Main].pc # "idle"
  /\ phase = "serving" => work[Main].pc = "idle"
  /\ phase # "serving" =>
       /\ ~work[Main].gone
       /\ \A h \in Handlers : work[h].pc = "idle"
       /\ \A f \in Flights : state[f] # "free" =>
            waits[Main] = f /\ (flight[f].pc # "none" => flight[f].pass = work[Main].pass)

(* k has never been loaded, for all that main knows.                       *)
Fresh(k) == ~loaded[k] /\ k \notin work[Main].lost

FirstDemo ==
  phase # "serving" =>
    /\ \A k \in Keys : store[k] => ~Fresh(k)
    /\ \A f \in Flights :
         flight[f].pc = "set" \/ state[f] \in {"returned", "forgotten"} => ~Fresh(key[f])
    /\ chan[Main] # NoResult => ~Fresh(Key(Main))
    /\ \A j \in DOMAIN demoKeys :
         work[Main].pass = 2 \/ j < work[Main].i => ~Fresh(demoKeys[j])

(* The inductive invariant.                                                *)
AppInv ==
  /\ TypeOK /\ P!GroupInv /\ Executing
  /\ Held /\ LoadsOnlyWhatWasLost
  /\ AtSelect /\ Known /\ ErrorsKnown /\ Startup /\ FirstDemo
  /\ FailuresExplained

-----------------------------------------------------------------------------
(* The group.                                                              *)
LEMMA SameTypes == G!TypeOK <=> P!TypeOK
BY DEF G!TypeOK, P!TypeOK

LEMMA SameInit == G!Init <=> P!Init
BY DEF G!Init, P!Init

LEMMA SameNext == [G!Next]_groupVars <=> [P!Next]_(P!vars)
<1>1. G!Next <=> P!Next
  BY DEF G!Next, P!Next, G!CallerStep, P!CallerStep, G!FlightStep, P!FlightStep,
         G!Do, P!Do, G!DoAsync, P!DoAsync, G!Start, P!Start, G!Join, P!Join,
         G!Begin, P!Begin, G!InDo, P!InDo, G!FnReturn, P!FnReturn,
         G!Forget, P!Forget, G!Deliver, P!Deliver, G!Receive, P!Receive,
         G!Leave, P!Leave
<1> QED BY <1>1 DEF groupVars, P!vars

LEMMA KeyTyped ==
  ASSUME work \in [Workers -> Demo], NEW w \in Workers
  PROVE  Key(w) \in Keys
BY DEF Key, Keys, Demo

LEMMA ReturnSimulates ==
  ASSUME NEW f \in Flights, NEW r \in {"value", "error"}, Return(f, r)
  PROVE  G!Next
BY DEF Return, G!Next, G!FlightStep

(* Every step of the application is a step of the group or none.           *)
LEMMA StepSimulates ==
  ASSUME work \in [Workers -> Demo], [Next]_vars
  PROVE  [G!Next]_groupVars
<1>1. ASSUME NEW w \in Workers, WorkerStep(w) PROVE [G!Next]_groupVars
  <2>1. ASSUME NEW f \in Flights, Do(w, f) PROVE G!Next
    BY <2>1, KeyTyped DEF Do, G!Next, G!CallerStep
  <2>2. CASE Lookup(w)
    BY <2>2 DEF Lookup
  <2>3. CASE Receive(w) \/ Leave(w)
    BY <2>3 DEF Receive, Leave, G!Next, G!CallerStep
  <2> QED BY <1>1, <2>1, <2>2, <2>3 DEF WorkerStep
<1>2. ASSUME NEW f \in Flights, FlightStep(f) PROVE [G!Next]_groupVars
  <2>1. CASE Recheck(f)
    BY <2>1, ReturnSimulates DEF Recheck
  <2>2. CASE Load(f)
    BY <2>2 DEF Load
  <2>3. CASE LoaderFails(f) \/ Set(f)
    BY <2>3, ReturnSimulates DEF LoaderFails, Set
  <2>4. CASE Forget(f) \/ Deliver(f)
    BY <2>4 DEF Forget, Deliver, G!Next, G!FlightStep
  <2> QED BY <1>2, <2>1, <2>2, <2>3, <2>4 DEF FlightStep
<1>3. CASE waitReady \/ Wake \/ Form \/ UNCHANGED vars
  BY <1>3 DEF waitReady, Wake, Form, vars
<1>4. ASSUME NEW h \in Handlers, Request(h) \/ Cancel(h) PROVE UNCHANGED groupVars
  BY <1>4 DEF Request, Cancel
<1>5. ASSUME NEW k \in Unstable, ShardChanges(k) \/ Expire(k) PROVE UNCHANGED groupVars
  BY <1>5 DEF ShardChanges, Expire
<1> QED BY <1>1, <1>2, <1>3, <1>4, <1>5 DEF Next

-----------------------------------------------------------------------------
(* Parts of the state, and what the invariant says of them.                *)
Typed ==
  /\ up \in [Keys -> BOOLEAN] /\ store \in [Keys -> BOOLEAN] /\ loaded \in [Keys -> BOOLEAN]
  /\ phase \in {"ping", "sleep", "demo", "serving"}
  /\ work \in [Workers -> Demo]
  /\ flight \in [Flights -> Closure]

LEMMA SameTyped == TypeOK <=> Typed /\ G!TypeOK
BY DEF TypeOK, Typed, Demo, Closure

LEMMA InvTyped == ASSUME AppInv PROVE Typed /\ G!TypeOK /\ P!GroupInv
BY SameTyped DEF AppInv

(* demoKeys is a sequence, and main a worker.                              *)
LEMMA KeysTyped ==
  /\ DOMAIN demoKeys = 1..Len(demoKeys) /\ Len(demoKeys) \in Nat /\ 1 \in DOMAIN demoKeys
  /\ \A i \in DOMAIN demoKeys : demoKeys[i] \in Keys
  /\ Main \in Workers /\ Handlers \subseteq Workers /\ Main \notin Handlers
  /\ None \notin Keys /\ None \notin Flights
<1>1. DOMAIN demoKeys = 1..Len(demoKeys) /\ Len(demoKeys) \in Nat
  BY AppAssumption
<1>2. 1 \in DOMAIN demoKeys
  BY <1>1, AppAssumption
<1>3. \A i \in DOMAIN demoKeys : demoKeys[i] \in Keys
  BY DEF Keys
<1>4. None \notin Keys /\ None \notin Flights /\ Main \notin Handlers
  BY AppAssumption
<1>5. Main \in Workers /\ Handlers \subseteq Workers
  BY DEF Workers
<1> QED BY <1>1, <1>2, <1>3, <1>4, <1>5

LEMMA NoDemoTyped ==
  NoDemo \in Demo /\ NoClosure \in Closure /\ \A lost \in SUBSET Keys : runDemo(lost) \in Demo
<1>1. 1 \in DOMAIN demoKeys /\ 1 \in 1..2
  BY KeysTyped
<1>2. NoDemo \in Demo /\ NoClosure \in Closure
  BY <1>1 DEF NoDemo, Demo, NoClosure, Closure
<1>3. ASSUME NEW lost \in SUBSET Keys PROVE runDemo(lost) \in Demo
  BY <1>2 DEF runDemo, Demo
<1> QED BY <1>2, <1>3

(* One flight of a key at a time.                                          *)
LEMMA OnlyFlight ==
  ASSUME AppInv, NEW f \in Flights, NEW g \in Flights,
         state[f] \in {"running", "returned"}, state[g] \in {"running", "returned"},
         key[f] = key[g]
  PROVE  f = g
BY InvTyped DEF P!GroupInv, P!Registered, P!InFlight

(* What the end of a GetOrSet does to the demo that called it.             *)
LEMMA ContinueMoves ==
  ASSUME Typed, NEW w \in Workers, NEW ok \in BOOLEAN, Continue(w, ok)
  PROVE  \E d \in Demo :
           /\ work' = [work EXCEPT ![w] = d]
           /\ d.gone = work[w].gone /\ d.lost = work[w].lost
           /\ d.failed = IF ok THEN None ELSE Key(w)
           /\ \/ /\ d.pc = "get" /\ phase' = phase
                 /\ \/ d.pass = work[w].pass /\ d.i = work[w].i + 1
                    \/ /\ work[w].i = Len(demoKeys) /\ work[w].pass = 1
                       /\ d.pass = 2 /\ d.i = 1
              \/ d.pc = "idle" /\ phase' = IF w = Main THEN "serving" ELSE phase
<1> DEFINE e == [work[w] EXCEPT !.pc = "get", !.failed = IF ok THEN None ELSE Key(w)]
<1>1. work[w] \in Demo /\ Key(w) \in Keys
  BY KeyTyped DEF Typed
<1>2. /\ e \in Demo /\ e.gone = work[w].gone /\ e.lost = work[w].lost /\ e.pc = "get"
      /\ e.failed = IF ok THEN None ELSE Key(w)
      /\ e.pass = work[w].pass /\ e.i = work[w].i
  BY <1>1 DEF Demo
<1> HIDE DEF e
<1>3. e.i \in 1..Len(demoKeys) /\ Len(demoKeys) \in Nat /\ e.pass \in 1..2
  BY <1>2, KeysTyped DEF Demo
<1>4. CASE e.i < Len(demoKeys)
  <2> DEFINE d == [e EXCEPT !.i = e.i + 1]
  <2>1. work' = [work EXCEPT ![w] = d] /\ phase' = phase
    BY <1>3, <1>4 DEF Continue, e
  <2>2. e.i + 1 \in DOMAIN demoKeys
    BY <1>3, <1>4, KeysTyped
  <2>3. /\ d \in Demo /\ d.gone = e.gone /\ d.lost = e.lost /\ d.failed = e.failed
        /\ d.pc = e.pc /\ d.pass = e.pass /\ d.i = e.i + 1
    BY <1>2, <2>2 DEF Demo
  <2> HIDE DEF d
  <2> QED BY <1>2, <2>1, <2>3
<1>5. CASE ~(e.i < Len(demoKeys)) /\ e.pass = 2
  <2> DEFINE d == [e EXCEPT !.pc = "idle", !.i = 1, !.pass = 1]
  <2>1. work' = [work EXCEPT ![w] = d] /\ phase' = IF w = Main THEN "serving" ELSE phase
    BY <1>3, <1>5 DEF Continue, e
  <2>2. /\ d \in Demo /\ d.gone = e.gone /\ d.lost = e.lost /\ d.failed = e.failed
        /\ d.pc = "idle"
    <3>1. 1 \in DOMAIN demoKeys /\ 1 \in 1..2
      BY KeysTyped
    <3> QED BY <1>2, <3>1 DEF Demo
  <2> HIDE DEF d
  <2> QED BY <1>2, <2>1, <2>2
<1>6. CASE ~(e.i < Len(demoKeys)) /\ e.pass # 2
  <2> DEFINE d == [e EXCEPT !.pass = 2, !.i = 1]
  <2>1. work' = [work EXCEPT ![w] = d] /\ phase' = phase
    BY <1>3, <1>6 DEF Continue, e
  <2>2. /\ d \in Demo /\ d.gone = e.gone /\ d.lost = e.lost /\ d.failed = e.failed
        /\ d.pc = e.pc /\ d.pass = 2 /\ d.i = 1
    <3>1. 1 \in DOMAIN demoKeys /\ 2 \in 1..2
      BY KeysTyped
    <3> QED BY <1>2, <3>1 DEF Demo
  <2>3. work[w].i = Len(demoKeys) /\ work[w].pass = 1
    BY <1>2, <1>3, <1>6
  <2> HIDE DEF d
  <2> QED BY <1>2, <2>1, <2>2, <2>3
<1> QED BY <1>4, <1>5, <1>6

(* What losing a key does.                                                 *)
LEMMA LostMoves ==
  ASSUME Typed, NEW k \in Keys, Lost(k)
  PROVE  /\ loaded' \in [Keys -> BOOLEAN] /\ ~loaded'[k]
         /\ \A j \in Keys \ {k} : loaded'[j] = loaded[j]
         /\ work' \in [Workers -> Demo]
         /\ \A w \in Workers :
              /\ work'[w].pc = work[w].pc /\ work'[w].pass = work[w].pass
              /\ work'[w].i = work[w].i /\ work'[w].gone = work[w].gone
              /\ work'[w].failed = work[w].failed /\ Key(w)' = Key(w)
              /\ work'[w].lost = IF work[w].pc = "idle" THEN work[w].lost
                                 ELSE work[w].lost \cup {k}
<1>1. loaded' \in [Keys -> BOOLEAN] /\ ~loaded'[k] /\ \A j \in Keys \ {k} : loaded'[j] = loaded[j]
  BY DEF Typed, Lost
<1>2. ASSUME NEW w \in Workers
      PROVE  /\ work'[w] \in Demo
             /\ work'[w].pc = work[w].pc /\ work'[w].pass = work[w].pass
             /\ work'[w].i = work[w].i /\ work'[w].gone = work[w].gone
             /\ work'[w].failed = work[w].failed
             /\ work'[w].lost = IF work[w].pc = "idle" THEN work[w].lost
                                ELSE work[w].lost \cup {k}
  BY DEF Typed, Lost, Demo
<1>3. work' \in [Workers -> Demo]
  BY <1>2 DEF Lost
<1> QED BY <1>1, <1>2, <1>3 DEF Key

-----------------------------------------------------------------------------
(* Types.                                                                  *)
LEMMA WorkerTyped ==
  ASSUME Typed, NEW w \in Workers, WorkerStep(w)
  PROVE  Typed'
<1>1. work[w] \in Demo
  BY DEF Typed
<1>2. ASSUME NEW ok \in BOOLEAN, Continue(w, ok)
      PROVE  work' \in [Workers -> Demo] /\ phase' \in {"ping", "sleep", "demo", "serving"}
  <2>1. PICK d \in Demo : /\ work' = [work EXCEPT ![w] = d]
                          /\ phase' \in {"serving", phase}
    BY <1>2, ContinueMoves
  <2> QED BY <2>1 DEF Typed
<1>3. ASSUME NEW pc \in {"do", "wait"}, work' = [work EXCEPT ![w].pc = pc]
      PROVE  work' \in [Workers -> Demo]
  BY <1>1, <1>3 DEF Typed, Demo
<1>4. CASE Lookup(w)
  BY <1>2, <1>3, <1>4 DEF Lookup, Typed
<1>5. ASSUME NEW f \in Flights, Do(w, f) PROVE Typed'
  <2>1. flight' \in [Flights -> Closure]
    BY <1>1, <1>5 DEF Do, Typed, Closure, Demo
  <2> QED BY <1>3, <1>5, <2>1 DEF Do, Typed
<1>6. CASE Receive(w)
  BY <1>2, <1>6 DEF Receive, Typed
<1>7. CASE Leave(w)
  BY <1>2, <1>7 DEF Leave, Typed
<1> QED BY <1>4, <1>5, <1>6, <1>7 DEF WorkerStep

LEMMA FlightTyped ==
  ASSUME Typed, G!TypeOK, NEW f \in Flights, FlightStep(f)
  PROVE  Typed'
<1>1. key[f] \in Keys /\ flight[f] \in Closure
  BY DEF Typed, G!TypeOK
<1>2. ASSUME NEW r, Return(f, r) PROVE flight' \in [Flights -> Closure]
  BY <1>2, NoDemoTyped DEF Return, Typed
<1>3. ASSUME NEW pc \in {"load", "set"}, flight' = [flight EXCEPT ![f].pc = pc]
      PROVE  flight' \in [Flights -> Closure]
  BY <1>1, <1>3 DEF Typed, Closure
<1>4. CASE Recheck(f)
  <2>1. flight' \in [Flights -> Closure]
    BY <1>2, <1>3, <1>4 DEF Recheck
  <2>2. work' \in [Workers -> Demo] /\ loaded' \in [Keys -> BOOLEAN]
    BY <1>1, <1>4, LostMoves DEF Recheck, Typed
  <2> QED BY <1>4, <2>1, <2>2 DEF Recheck, Typed
<1>5. CASE Load(f)
  BY <1>3, <1>5 DEF Load, Typed
<1>6. CASE LoaderFails(f)
  BY <1>2, <1>6 DEF LoaderFails, Typed
<1>7. CASE Set(f)
  <2>1. work' \in [Workers -> Demo] /\ loaded' \in [Keys -> BOOLEAN]
    BY <1>1, <1>7, LostMoves DEF Set, Typed
  <2>2. store' \in [Keys -> BOOLEAN]
    BY <1>1, <1>7 DEF Set, Typed
  <2> QED BY <1>2, <1>7, <2>1, <2>2 DEF Set, Typed
<1>8. CASE Forget(f) \/ Deliver(f)
  BY <1>8 DEF Forget, Deliver, Typed
<1> QED BY <1>4, <1>5, <1>6, <1>7, <1>8 DEF FlightStep

LEMMA NextTyped ==
  ASSUME Typed, G!TypeOK, Next
  PROVE  Typed'
<1>1. CASE waitReady
  <2>1. work' \in [Workers -> Demo]
    BY <1>1, NoDemoTyped DEF waitReady, Typed
  <2>2. phase' \in {"ping", "sleep", "demo", "serving"}
    BY <1>1 DEF waitReady
  <2> QED BY <1>1, <2>1, <2>2 DEF waitReady, Typed
<1>2. CASE Wake
  BY <1>2 DEF Wake, Typed
<1>3. ASSUME NEW h \in Handlers, Request(h) PROVE Typed'
  BY <1>3, NoDemoTyped DEF Request, Typed
<1>4. ASSUME NEW h \in Handlers, Cancel(h) PROVE Typed'
  <2>1. work' \in [Workers -> Demo]
    BY <1>4, KeysTyped DEF Cancel, Typed, Demo
  <2> QED BY <1>4, <2>1 DEF Cancel, Typed
<1>5. CASE Form
  BY <1>5 DEF Form, Typed
<1>6. ASSUME NEW k \in Unstable, ShardChanges(k) PROVE Typed'
  BY <1>6 DEF ShardChanges, Typed
<1>7. ASSUME NEW k \in Unstable, Expire(k) PROVE Typed'
  <2>1. work' \in [Workers -> Demo] /\ loaded' \in [Keys -> BOOLEAN]
    BY <1>7, LostMoves, AppAssumption DEF Expire
  <2> QED BY <1>7, <2>1 DEF Expire, Typed
<1> QED BY <1>1, <1>2, <1>3, <1>4, <1>5, <1>6, <1>7, WorkerTyped, FlightTyped DEF Next

-----------------------------------------------------------------------------
(* Flights: no loader runs for what the cluster has.                       *)
Running == Executing /\ Held /\ LoadsOnlyWhatWasLost

LEMMA FrameRunning ==
  ASSUME Running, UNCHANGED <<store, flight, groupVars, loaded>>
  PROVE  Running'
BY DEF Running, Executing, Held, LoadsOnlyWhatWasLost, groupVars

(* DoChan.                                                                 *)
LEMMA StartRunning ==
  ASSUME AppInv, NEW w \in Workers, NEW f \in Flights, Do(w, f)
  PROVE  Running'
<1>1. Typed /\ G!TypeOK /\ Key(w) \in Keys /\ Executing /\ Held /\ LoadsOnlyWhatWasLost
  BY InvTyped, KeyTyped DEF AppInv, Typed
<1>2. CASE G!Join(Key(w), f)
  <2>1. state[f] # "free"
    BY <1>1, <1>2, InvTyped, KeysTyped
       DEF G!Join, P!GroupInv, P!MapIsCurrent, P!InFlight
  <2>2. UNCHANGED <<flight, state, key, res, store, loaded>>
    BY <1>2, <2>1 DEF Do, G!Join
  <2> QED BY <1>1, <2>2 DEF Running, Executing, Held, LoadsOnlyWhatWasLost
<1>3. CASE G!Begin(Key(w), f)
  <2>1. /\ state[f] = "free" /\ flight[f].pc = "none" /\ UNCHANGED <<store, loaded, res>>
        /\ state' = [state EXCEPT ![f] = "running"] /\ key' = [key EXCEPT ![f] = Key(w)]
    BY <1>1, <1>3 DEF G!Begin, Executing, Do
  <2>2. flight' = [flight EXCEPT ![f] = [pc |-> "recheck", pass |-> work[w].pass]]
    BY <2>1 DEF Do
  <2>3. /\ flight'[f].pc = "recheck" /\ state'[f] = "running"
        /\ \A g \in Flights \ {f} :
             flight'[g] = flight[g] /\ state'[g] = state[g] /\ key'[g] = key[g]
    BY <1>1, <2>1, <2>2 DEF Typed, G!TypeOK
  <2>4. Executing'
    BY <1>1, <2>1, <2>3 DEF Executing
  <2>5. Held'
    BY <1>1, <2>1, <2>3 DEF Held
  <2>6. LoadsOnlyWhatWasLost'
    BY <1>1, <2>1, <2>3 DEF LoadsOnlyWhatWasLost
  <2> QED BY <2>4, <2>5, <2>6 DEF Running
<1> QED BY <1>2, <1>3 DEF Do, G!Do, G!Start

(* The end of a closure.                                                   *)
LEMMA ReturnMoves ==
  ASSUME AppInv, NEW f \in Flights, NEW r \in {"value", "error"}, Return(f, r)
  PROVE  /\ state[f] = "running" /\ state'[f] = "returned" /\ res'[f] = r
         /\ flight'[f].pc = "none"
         /\ \A g \in Flights \ {f} :
              flight'[g] = flight[g] /\ state'[g] = state[g] /\ res'[g] = res[g]
         /\ UNCHANGED <<calls, key, waits, chan>>
BY InvTyped DEF Return, G!FnReturn, Typed, G!TypeOK, NoClosure

LEMMA RecheckRunning ==
  ASSUME AppInv, NEW f \in Flights, Recheck(f)
  PROVE  Running'
<1>1. Typed /\ G!TypeOK /\ key[f] \in Keys /\ Executing /\ Held /\ LoadsOnlyWhatWasLost
  BY InvTyped DEF AppInv, G!TypeOK
<1>2. /\ flight[f].pc = "recheck" /\ state[f] = "running"
      /\ UNCHANGED <<store, key>>
  BY <1>1 DEF Recheck, Executing, Return, G!FnReturn, groupVars
<1>3. \A j \in Keys : loaded'[j] => loaded[j]
  BY <1>1, LostMoves DEF Recheck
<1>4. CASE Return(f, "value")
  <2>1. /\ state'[f] = "returned" /\ flight'[f].pc = "none"
        /\ \A g \in Flights \ {f} :
             flight'[g] = flight[g] /\ state'[g] = state[g] /\ res'[g] = res[g]
    BY <1>4, ReturnMoves
  <2>2. Executing'
    BY <1>1, <2>1 DEF Executing
  <2>3. Held'
    BY <1>1, <1>2, <1>3, <2>1 DEF Held
  <2>4. LoadsOnlyWhatWasLost'
    BY <1>1, <1>2, <1>3, <2>1 DEF LoadsOnlyWhatWasLost, G!TypeOK
  <2> QED BY <2>2, <2>3, <2>4 DEF Running
<1>5. CASE ~(up[key[f]] /\ store[key[f]])
  <2>1. flight' = [flight EXCEPT ![f].pc = "load"] /\ UNCHANGED groupVars
    BY <1>5 DEF Recheck
  <2>2. flight'[f].pc = "load" /\ \A g \in Flights \ {f} : flight'[g] = flight[g]
    BY <1>1, <2>1 DEF Typed, Closure
  <2>3. ~loaded'[key[f]]
    <3>1. CASE up[key[f]]
      <4>1. ~store[key[f]]
        BY <1>5, <3>1
      <4>2. ASSUME NEW g \in Flights, flight[g].pc = "set", key[g] = key[f] PROVE FALSE
        <5>1. state[g] = "running"
          BY <1>1, <4>2 DEF Executing
        <5> QED BY <1>2, <4>2, <5>1, OnlyFlight
      <4> QED BY <1>1, <1>3, <4>1, <4>2 DEF Held
    <3>2. CASE ~up[key[f]]
      BY <1>1, <3>2, LostMoves DEF Recheck
    <3> QED BY <3>1, <3>2
  <2>4. Executing'
    BY <1>1, <1>2, <2>1, <2>2 DEF Executing, groupVars
  <2>5. Held'
    BY <1>1, <1>2, <1>3, <2>2 DEF Held
  <2>6. LoadsOnlyWhatWasLost'
    BY <1>1, <1>2, <1>3, <2>2, <2>3 DEF LoadsOnlyWhatWasLost, G!TypeOK
  <2> QED BY <2>4, <2>5, <2>6 DEF Running
<1> QED BY <1>4, <1>5 DEF Recheck

LEMMA LoadRunning ==
  ASSUME AppInv, NEW f \in Flights, Load(f)
  PROVE  Running'
<1>1. Typed /\ G!TypeOK /\ key[f] \in Keys /\ Executing /\ Held /\ LoadsOnlyWhatWasLost
  BY InvTyped DEF AppInv, G!TypeOK
<1>2. /\ flight[f].pc = "load" /\ state[f] = "running"
      /\ UNCHANGED <<store, groupVars>>
      /\ flight'[f].pc = "set" /\ \A g \in Flights \ {f} : flight'[g] = flight[g]
      /\ loaded'[key[f]] /\ \A j \in Keys \ {key[f]} : loaded'[j] = loaded[j]
  BY <1>1 DEF Load, Executing, Typed, Closure
<1>3. Executing'
  BY <1>1, <1>2 DEF Executing, groupVars
<1>4. Held'
  BY <1>1, <1>2 DEF Held, groupVars
<1>5. LoadsOnlyWhatWasLost'
  <2> SUFFICES ASSUME NEW g \in Flights, flight'[g].pc = "load" PROVE ~loaded'[key'[g]]
    BY DEF LoadsOnlyWhatWasLost
  <2>1. g # f /\ flight[g].pc = "load" /\ key'[g] = key[g]
    BY <1>2 DEF groupVars
  <2>2. key[g] # key[f]
    BY <1>1, <1>2, <2>1, OnlyFlight DEF Executing
  <2> QED BY <1>1, <1>2, <2>1, <2>2 DEF LoadsOnlyWhatWasLost, G!TypeOK
<1> QED BY <1>3, <1>4, <1>5 DEF Running

LEMMA EndRunning ==
  ASSUME AppInv, NEW f \in Flights, LoaderFails(f) \/ Set(f)
  PROVE  Running'
<1>1. Typed /\ G!TypeOK /\ key[f] \in Keys /\ Executing /\ Held /\ LoadsOnlyWhatWasLost
  BY InvTyped DEF AppInv, G!TypeOK
<1>2. Return(f, "value") \/ Return(f, "error")
  BY DEF LoaderFails, Set
<1>3. /\ state'[f] = "returned" /\ flight'[f].pc = "none" /\ UNCHANGED key
      /\ \A g \in Flights \ {f} :
           flight'[g] = flight[g] /\ state'[g] = state[g] /\ res'[g] = res[g]
  BY <1>2, ReturnMoves
<1>4. \A j \in Keys : loaded'[j] => loaded[j]
  BY <1>1, LostMoves DEF LoaderFails, Set
<1>5. Executing'
  BY <1>1, <1>3 DEF Executing
<1>6. LoadsOnlyWhatWasLost'
  BY <1>1, <1>3, <1>4 DEF LoadsOnlyWhatWasLost, G!TypeOK
<1>7. Held'
  <2>1. CASE LoaderFails(f)
    BY <1>1, <1>3, <1>4, <2>1 DEF Held, LoaderFails
  <2>2. CASE Set(f)
    <3>1. \A j \in Keys \ {key[f]} : store'[j] = store[j]
      BY <1>1, <2>2 DEF Set, Typed
    <3>2. loaded'[key[f]] => store'[key[f]]
      <4>1. CASE up[key[f]]
        BY <1>1, <2>2, <4>1 DEF Set, Typed
      <4>2. CASE ~up[key[f]]
        BY <1>1, <2>2, <4>2, LostMoves DEF Set
      <4> QED BY <4>1, <4>2
    <3> QED BY <1>1, <1>3, <1>4, <3>1, <3>2 DEF Held
  <2> QED BY <2>1, <2>2
<1> QED BY <1>5, <1>6, <1>7 DEF Running

LEMMA DeliverRunning ==
  ASSUME AppInv, NEW f \in Flights, Forget(f) \/ Deliver(f)
  PROVE  Running'
<1>1. G!TypeOK /\ Executing /\ Held /\ LoadsOnlyWhatWasLost
  BY InvTyped DEF AppInv
<1>2. /\ UNCHANGED <<flight, key, store, loaded>>
      /\ state[f] \in {"returned", "forgotten"} /\ state'[f] \in {"forgotten", "free"}
      /\ state'[f] = "free" => res'[f] = NoResult
      /\ \A g \in Flights \ {f} : state'[g] = state[g] /\ res'[g] = res[g]
  BY <1>1 DEF Forget, Deliver, G!Forget, G!Deliver, G!TypeOK
<1>3. Executing'
  BY <1>1, <1>2 DEF Executing
<1>4. Held' /\ LoadsOnlyWhatWasLost'
  BY <1>1, <1>2 DEF Held, LoadsOnlyWhatWasLost
<1> QED BY <1>3, <1>4 DEF Running

LEMMA NextRunning ==
  ASSUME AppInv, Next
  PROVE  Running'
<1>1. Running /\ Typed
  BY InvTyped DEF AppInv, Running
<1>2. ASSUME NEW w \in Workers, WorkerStep(w) PROVE Running'
  <2>1. CASE Lookup(w)
    BY <1>1, <2>1, FrameRunning DEF Lookup
  <2>2. CASE Receive(w) \/ Leave(w)
    <3>1. UNCHANGED <<store, flight, loaded, state, key, res>>
      BY <2>2 DEF Receive, Leave, G!Receive, G!Leave
    <3> QED BY <1>1, <3>1 DEF Running, Executing, Held, LoadsOnlyWhatWasLost
  <2> QED BY <1>2, <2>1, <2>2, StartRunning DEF WorkerStep
<1>3. ASSUME NEW k \in Unstable, Expire(k) PROVE Running'
  <2>1. /\ k \in Keys /\ ~loaded'[k] /\ UNCHANGED <<flight, groupVars>>
        /\ \A j \in Keys \ {k} : loaded'[j] = loaded[j] /\ store'[j] = store[j]
    BY <1>1, <1>3, LostMoves, AppAssumption DEF Expire, Typed
  <2>2. Executing' /\ Held'
    BY <1>1, <2>1 DEF Running, Executing, Held, groupVars
  <2>3. LoadsOnlyWhatWasLost'
    BY <1>1, <2>1, InvTyped DEF Running, LoadsOnlyWhatWasLost, groupVars, G!TypeOK
  <2> QED BY <2>2, <2>3 DEF Running
<1>4. CASE waitReady \/ Wake \/ Form \/ (\E h \in Handlers : Request(h) \/ Cancel(h))
             \/ (\E k \in Unstable : ShardChanges(k))
  BY <1>1, <1>4, FrameRunning DEF waitReady, Wake, Form, Request, Cancel, ShardChanges
<1> QED BY <1>2, <1>3, <1>4, RecheckRunning, LoadRunning, EndRunning, DeliverRunning
        DEF Next, FlightStep

-----------------------------------------------------------------------------
(* Demos: whoever fails knows why.                                         *)
Waiting == AtSelect /\ Known /\ ErrorsKnown /\ Startup /\ FirstDemo /\ FailuresExplained

LEMMA FrameWaiting ==
  ASSUME Waiting, UNCHANGED <<store, phase, work, flight, groupVars, loaded>>
  PROVE  Waiting'
BY DEF Waiting, AtSelect, Known, ErrorsKnown, Startup, FirstDemo, FailuresExplained, groupVars,
       Key, Fresh

(* Main and the group before the first demo, and after it.                 *)
LEMMA MainOutside ==
  ASSUME AppInv, work[Main].pc # "wait"
  PROVE  /\ waits[Main] = None /\ chan[Main] = NoResult
         /\ phase # "serving" => \A f \in Flights : state[f] = "free"
BY KeysTyped DEF AppInv, AtSelect, Startup

LEMMA ActiveMain ==
  ASSUME AppInv, work[Main].pc # "idle"
  PROVE  phase = "demo" /\ ~work[Main].gone
BY InvTyped DEF AppInv, Startup, NoDemo, Typed

LEMMA ActiveHandler ==
  ASSUME AppInv, NEW w \in Workers, work[w].pc # "idle", w # Main
  PROVE  w \in Handlers /\ phase = "serving" /\ \A k \in Keys : loaded[k] \/ k \in work[w].lost
BY DEF AppInv, Startup, Known, Workers

(* Steps that lose a key, or none.                                         *)
LEMMA LossMoves ==
  ASSUME AppInv, NEW k \in Keys, Lost(k) \/ UNCHANGED <<work, loaded>>
  PROVE  /\ \A j \in Keys : /\ loaded'[j] => loaded[j]
                            /\ \A w \in Workers : work[w].pc # "idle" =>
                                 loaded'[j] = loaded[j] \/ j \in work'[w].lost
         /\ \A w \in Workers :
              /\ work'[w].pc = work[w].pc /\ work'[w].pass = work[w].pass
              /\ work'[w].i = work[w].i /\ work'[w].gone = work[w].gone
              /\ work'[w].failed = work[w].failed /\ Key(w)' = Key(w)
              /\ work[w].lost \subseteq work'[w].lost
              /\ work[w].pc = "idle" => work'[w] = work[w]
<1>1. CASE Lost(k)
  <2>1. \A w \in Workers : work[w].pc = "idle" => work'[w] = work[w]
    BY <1>1 DEF Lost
  <2> QED BY <1>1, <2>1, InvTyped, LostMoves
<1>2. CASE UNCHANGED <<work, loaded>>
  BY <1>2 DEF Key
<1> QED BY <1>1, <1>2

LEMMA LossWaiting ==
  ASSUME AppInv, NEW k \in Keys, Lost(k) \/ UNCHANGED <<work, loaded>>,
         UNCHANGED <<phase, key, waits, chan>>
  PROVE  /\ AtSelect' /\ Known' /\ FailuresExplained'
         /\ work[Main].pc # "idle" => \A j \in Keys : Fresh(j)' => Fresh(j)
<1>1. AtSelect /\ Known /\ FailuresExplained /\ Main \in Workers /\ Handlers \subseteq Workers
  BY KeysTyped DEF AppInv
<1>2. AtSelect'
  BY <1>1, LossMoves DEF AtSelect
<1>3. Known'
  BY <1>1, LossMoves DEF Known
<1>4. FailuresExplained'
  BY <1>1, LossMoves DEF FailuresExplained
<1>5. ASSUME work[Main].pc # "idle", NEW j \in Keys, ~loaded'[j] /\ j \notin work'[Main].lost
      PROVE  ~loaded[j] /\ j \notin work[Main].lost
  BY <1>1, <1>5, LossMoves
<1> QED BY <1>2, <1>3, <1>4, <1>5 DEF Fresh

(* The start of main and of requests.                                      *)
LEMMA PingWaiting ==
  ASSUME AppInv, waitReady
  PROVE  Waiting'
<1>1. /\ AtSelect /\ Known /\ ErrorsKnown /\ Startup /\ FirstDemo /\ FailuresExplained
      /\ Main \in Workers /\ Handlers \subseteq Workers /\ Main \notin Handlers
      /\ work \in [Workers -> Demo]
  BY KeysTyped, InvTyped DEF AppInv, Typed
<1>2. phase = "ping" /\ work[Main] = NoDemo /\ UNCHANGED <<store, flight, groupVars, loaded>>
  BY <1>1 DEF waitReady, Startup
<1>3. waits[Main] = None /\ chan[Main] = NoResult /\ \A f \in Flights : state[f] = "free"
  BY <1>2, MainOutside DEF NoDemo
<1>4. \A f \in Flights : flight[f].pc = "none"
  BY <1>3 DEF AppInv, Executing
<1>5. CASE UNCHANGED work /\ phase' = "sleep"
  BY <1>1, <1>2, <1>5 DEF Waiting, AtSelect, Known, ErrorsKnown, Startup, FirstDemo,
     FailuresExplained, groupVars, Key, Fresh
<1>6. CASE phase' = "demo" /\ work' = [work EXCEPT ![Main] = runDemo({})]
  <2>1. /\ \A w \in Workers \ {Main} : work'[w] = work[w] /\ Key(w)' = Key(w)
        /\ work'[Main].pc = "get" /\ ~work'[Main].gone /\ work'[Main].lost = {}
        /\ work'[Main].failed = None /\ work'[Main].pass = 1 /\ work'[Main].i = 1
    BY <1>1, <1>6 DEF runDemo, NoDemo, Key
  <2>2. AtSelect'
    BY <1>1, <1>2, <1>3, <2>1 DEF AtSelect, groupVars
  <2>3. Known'
    BY <1>1, <1>2, <2>1 DEF Known
  <2>4. ErrorsKnown'
    BY <1>1, <1>2, <1>3, <2>1, AppAssumption DEF ErrorsKnown, groupVars
  <2>5. Startup'
    BY <1>1, <1>2, <1>3, <1>6, <2>1 DEF Startup, groupVars
  <2>6. FirstDemo'
    <3>1. \A k \in Keys : Fresh(k)' <=> Fresh(k)
      BY <1>2, <2>1 DEF Fresh, NoDemo
    <3>2. \A k \in Keys : store[k] => ~Fresh(k)
      BY <1>1, <1>2 DEF FirstDemo
    <3>3. \A j \in DOMAIN demoKeys : ~(work'[Main].pass = 2 \/ j < work'[Main].i)
      BY <2>1, KeysTyped
    <3> QED BY <1>2, <1>3, <1>4, <3>1, <3>2, <3>3 DEF FirstDemo, groupVars
  <2>7. FailuresExplained'
    BY <1>1, <2>1 DEF FailuresExplained
  <2> QED BY <2>2, <2>3, <2>4, <2>5, <2>6, <2>7 DEF Waiting
<1> QED BY <1>5, <1>6 DEF waitReady

LEMMA WakeWaiting ==
  ASSUME AppInv, Wake
  PROVE  Waiting'
BY DEF AppInv, Wake, Waiting, AtSelect, Known, ErrorsKnown, Startup, FirstDemo,
       FailuresExplained, groupVars, Key, Fresh

LEMMA RequestWaiting ==
  ASSUME AppInv, NEW h \in Handlers, Request(h) \/ Cancel(h)
  PROVE  Waiting'
<1>1. /\ AtSelect /\ Known /\ ErrorsKnown /\ Startup /\ FailuresExplained
      /\ Main \in Workers /\ h \in Workers /\ Main # h /\ Handlers \subseteq Workers
      /\ work \in [Workers -> Demo]
  BY KeysTyped, InvTyped DEF AppInv, Typed
<1>2. phase = "serving" /\ UNCHANGED <<store, phase, flight, groupVars, loaded>>
  BY <1>1, ActiveHandler DEF Request, Cancel
<1>3. \A w \in Workers \ {h} : work'[w] = work[w] /\ Key(w)' = Key(w)
  BY <1>1 DEF Request, Cancel, Key
<1>4. Startup' /\ FirstDemo'
  BY <1>1, <1>2, <1>3 DEF Startup, FirstDemo
<1>5. CASE Request(h)
  <2>1. /\ work[h].pc = "idle" /\ work'[h].pc = "get" /\ work'[h].failed = None
        /\ work'[h].lost = {k \in Keys : ~loaded[k]}
    BY <1>1, <1>5 DEF Request, runDemo, NoDemo
  <2>2. waits[h] = None /\ chan[h] = NoResult
    BY <1>1, <2>1 DEF AtSelect
  <2>3. AtSelect' /\ Known'
    BY <1>1, <1>2, <1>3, <2>1, <2>2 DEF AtSelect, Known, groupVars
  <2>4. ErrorsKnown' /\ FailuresExplained'
    BY <1>1, <1>2, <1>3, <2>1, <2>2, AppAssumption
       DEF ErrorsKnown, FailuresExplained, groupVars
  <2> QED BY <1>4, <2>3, <2>4 DEF Waiting
<1>6. CASE Cancel(h)
  <2>1. /\ work'[h].pc = work[h].pc /\ work'[h].failed = work[h].failed /\ work'[h].gone
        /\ work'[h].lost = work[h].lost /\ Key(h)' = Key(h)
    BY <1>1, <1>6 DEF Cancel, Demo, Key
  <2>2. AtSelect' /\ Known'
    BY <1>1, <1>2, <1>3, <2>1 DEF AtSelect, Known, groupVars
  <2>3. ErrorsKnown' /\ FailuresExplained'
    BY <1>1, <1>2, <1>3, <2>1 DEF ErrorsKnown, FailuresExplained, groupVars
  <2> QED BY <1>4, <2>2, <2>3 DEF Waiting
<1> QED BY <1>5, <1>6

(* The end of a GetOrSet.                                                  *)
LEMMA ContinueWaiting ==
  ASSUME AppInv, NEW w \in Workers, NEW ok \in BOOLEAN, Continue(w, ok), work[w].pc # "idle",
         UNCHANGED <<store, flight, state, key, res, loaded>>,
         waits'[w] = None, chan'[w] = NoResult,
         \A v \in Workers \ {w} : waits'[v] = waits[v] /\ chan'[v] = chan[v],
         ok \/ work[w].gone \/ Key(w) \in work[w].lost,
         w = Main => waits[Main] = None /\ ~Fresh(Key(Main))
  PROVE  Waiting'
<1>1. /\ AtSelect /\ Known /\ ErrorsKnown /\ Startup /\ FirstDemo /\ FailuresExplained
      /\ Main \in Workers /\ Handlers \subseteq Workers /\ Main \notin Handlers
      /\ work \in [Workers -> Demo] /\ Typed /\ Executing
  BY KeysTyped, InvTyped DEF AppInv, Typed
<1>2. PICK d \in Demo :
           /\ work' = [work EXCEPT ![w] = d]
           /\ d.gone = work[w].gone /\ d.lost = work[w].lost
           /\ d.failed = IF ok THEN None ELSE Key(w)
           /\ \/ /\ d.pc = "get" /\ phase' = phase
                 /\ \/ d.pass = work[w].pass /\ d.i = work[w].i + 1
                    \/ /\ work[w].i = Len(demoKeys) /\ work[w].pass = 1
                       /\ d.pass = 2 /\ d.i = 1
              \/ d.pc = "idle" /\ phase' = IF w = Main THEN "serving" ELSE phase
  BY <1>1, ContinueMoves
<1>3. work'[w] = d /\ \A v \in Workers \ {w} : work'[v] = work[v] /\ Key(v)' = Key(v)
  BY <1>1, <1>2 DEF Key
<1>4. AtSelect'
  BY <1>1, <1>3 DEF AtSelect
<1>5. Known'
  <2>1. ASSUME w \in Handlers PROVE \A k \in Keys : loaded[k] \/ k \in work[w].lost
    BY <2>1 DEF AppInv, Known
  <2> QED BY <1>1, <1>2, <1>3, <2>1 DEF Known
<1>6. ErrorsKnown'
  BY <1>1, <1>3, AppAssumption DEF ErrorsKnown
<1>7. FailuresExplained'
  BY <1>1, <1>2, <1>3 DEF FailuresExplained
<1>8. CASE w = Main
  <2>1. /\ phase = "demo" /\ ~work[Main].gone
        /\ \A f \in Flights : state[f] = "free" /\ flight[f].pc = "none"
    BY <1>1, <1>8, ActiveMain, KeysTyped DEF Startup, Executing
  <2>2. /\ phase' \in {"demo", "serving"}
        /\ phase' = "serving" => d.pc = "idle"
        /\ phase' = "demo" => d.pc # "idle"
    BY <1>2, <1>8, <2>1
  <2>3. Startup'
    <3>1. ~work'[Main].gone /\ \A h \in Handlers : work'[h] = work[h] /\ work[h].pc = "idle"
      BY <1>1, <1>2, <1>3, <1>8, <2>1 DEF Startup
    <3>2. /\ phase' = "serving" => work'[Main].pc = "idle"
          /\ phase' = "demo" => work'[Main].pc # "idle"
      BY <1>3, <1>8, <2>2
    <3> QED BY <2>1, <2>2, <3>1, <3>2 DEF Startup
  <2>4. ASSUME phase' = "demo", NEW j \in DOMAIN demoKeys, d.pass = 2 \/ j < d.i
        PROVE  ~Fresh(demoKeys[j])
    <3>1. work[Main].i \in 1..Len(demoKeys) /\ Len(demoKeys) \in Nat /\ j \in 1..Len(demoKeys)
      BY <1>1, KeysTyped DEF Demo
    <3>2. j = work[Main].i \/ j < work[Main].i \/ work[Main].pass = 2
      BY <1>2, <1>8, <2>1, <2>4, <3>1
    <3>3. CASE j = work[Main].i
      BY <1>8, <3>3 DEF Key
    <3> QED BY <1>1, <2>1, <3>2, <3>3 DEF FirstDemo
  <2>5. \A k \in Keys : Fresh(k)' <=> Fresh(k)
    BY <1>2, <1>3, <1>8 DEF Fresh
  <2>6. FirstDemo'
    <3>1. \A k \in Keys : store[k] => ~Fresh(k)
      BY <1>1, <2>1 DEF FirstDemo
    <3> QED BY <1>3, <1>8, <2>1, <2>2, <2>4, <2>5, <3>1, KeysTyped DEF FirstDemo
  <2> QED BY <1>4, <1>5, <1>6, <1>7, <2>3, <2>6 DEF Waiting
<1>9. CASE w # Main
  <2>1. phase = "serving" /\ phase' = "serving" /\ work'[Main] = work[Main]
    BY <1>1, <1>2, <1>3, <1>9, ActiveHandler
  <2>2. Startup' /\ FirstDemo'
    BY <1>1, <2>1 DEF Startup, FirstDemo
  <2> QED BY <1>4, <1>5, <1>6, <1>7, <2>2 DEF Waiting
<1> QED BY <1>8, <1>9

LEMMA LookupWaiting ==
  ASSUME AppInv, NEW w \in Workers, Lookup(w)
  PROVE  Waiting'
<1>1. /\ AtSelect /\ Known /\ ErrorsKnown /\ Startup /\ FirstDemo /\ FailuresExplained
      /\ Main \in Workers /\ Handlers \subseteq Workers /\ Main \notin Handlers
      /\ work \in [Workers -> Demo]
  BY KeysTyped, InvTyped DEF AppInv, Typed
<1>2. /\ work[w].pc = "get" /\ UNCHANGED <<store, flight, groupVars, loaded>>
      /\ waits[w] = None /\ chan[w] = NoResult
  BY <1>1 DEF Lookup, AtSelect
<1>3. CASE Continue(w, TRUE) /\ store[Key(w)]
  <2>1. w = Main => ~Fresh(Key(Main))
    BY <1>1, <1>2, <1>3, ActiveMain, KeyTyped DEF FirstDemo
  <2> QED BY <1>2, <1>3, <2>1, ContinueWaiting DEF groupVars
<1>4. CASE work' = [work EXCEPT ![w].pc = "do"] /\ UNCHANGED phase
  <2>1. /\ \A v \in Workers \ {w} : work'[v] = work[v]
        /\ \A v \in Workers : Key(v)' = Key(v)
        /\ work'[w].pc = "do" /\ work'[w].failed = work[w].failed /\ work'[w].gone = work[w].gone
        /\ work'[w].lost = work[w].lost /\ work'[w].i = work[w].i
        /\ work'[w].pass = work[w].pass
    BY <1>1, <1>4 DEF Demo, Key
  <2>2. AtSelect'
    BY <1>1, <1>2, <2>1 DEF AtSelect, groupVars
  <2>3. Known' /\ FailuresExplained'
    BY <1>1, <1>2, <2>1 DEF Known, FailuresExplained
  <2>4. ErrorsKnown'
    BY <1>1, <1>2, <2>1 DEF ErrorsKnown, groupVars
  <2>5. w = Main => phase = "demo"
    BY <1>2, ActiveMain
  <2>6. w # Main => phase = "serving"
    BY <1>2, ActiveHandler
  <2>7. Startup'
    BY <1>1, <1>2, <1>4, <2>1, <2>5, <2>6 DEF Startup, groupVars
  <2>8. FirstDemo'
    <3>1. \A k \in Keys : Fresh(k)' <=> Fresh(k)
      BY <1>1, <1>2, <2>1 DEF Fresh
    <3>2. work'[Main].pass = work[Main].pass /\ work'[Main].i = work[Main].i
      BY <1>1, <2>1
    <3>3. \A f \in Flights : key[f] \in Keys
      BY InvTyped DEF G!TypeOK
    <3> QED BY <1>1, <1>2, <1>4, <2>1, <3>1, <3>2, <3>3, KeyTyped, KeysTyped
            DEF FirstDemo, groupVars
  <2> QED BY <2>2, <2>3, <2>4, <2>7, <2>8 DEF Waiting
<1> QED BY <1>3, <1>4 DEF Lookup

LEMMA ReceiveWaiting ==
  ASSUME AppInv, NEW w \in Workers, Receive(w) \/ Leave(w)
  PROVE  Waiting'
<1>1. /\ AtSelect /\ ErrorsKnown /\ FirstDemo /\ Main \in Workers /\ G!TypeOK /\ Typed
  BY KeysTyped, InvTyped DEF AppInv
<1>2. CASE Receive(w)
  <2>1. /\ work[w].pc = "wait" /\ Continue(w, chan[w] = "value") /\ chan[w] # NoResult
        /\ UNCHANGED <<store, flight, state, key, res, loaded, waits>>
        /\ chan'[w] = NoResult /\ \A v \in Workers \ {w} : chan'[v] = chan[v]
    BY <1>1, <1>2 DEF Receive, G!Receive, G!TypeOK
  <2>2. waits[w] = None /\ chan[w] \in {"value", "error"}
    BY <1>1, <2>1 DEF AtSelect, G!TypeOK
  <2>3. chan[w] = "value" \/ Key(w) \in work[w].lost
    BY <1>1, <2>2 DEF ErrorsKnown
  <2>4. w = Main => ~Fresh(Key(Main))
    BY <1>1, <2>1, ActiveMain DEF FirstDemo
  <2> QED BY <2>1, <2>2, <2>3, <2>4, ContinueWaiting
<1>3. CASE Leave(w)
  <2>1. /\ work[w].pc = "wait" /\ work[w].gone /\ Continue(w, FALSE)
        /\ UNCHANGED <<store, flight, state, key, res, loaded>>
        /\ waits'[w] = None /\ chan'[w] = NoResult
        /\ \A v \in Workers \ {w} : waits'[v] = waits[v] /\ chan'[v] = chan[v]
    BY <1>1, <1>3 DEF Leave, G!Leave, G!TypeOK
  <2>2. w # Main
    BY <2>1, ActiveMain
  <2> QED BY <2>1, <2>2, ContinueWaiting
<1> QED BY <1>2, <1>3

LEMMA DoWaiting ==
  ASSUME AppInv, NEW w \in Workers, NEW f \in Flights, Do(w, f)
  PROVE  Waiting'
<1>1. /\ AtSelect /\ Known /\ ErrorsKnown /\ Startup /\ FirstDemo /\ FailuresExplained
      /\ Main \in Workers /\ Handlers \subseteq Workers /\ Main \notin Handlers
      /\ work \in [Workers -> Demo] /\ Key(w) \in Keys /\ Executing
      /\ P!GroupInv /\ G!TypeOK /\ Typed
  BY KeysTyped, KeyTyped, InvTyped DEF AppInv, Typed
<1>2. /\ work[w].pc = "do" /\ UNCHANGED <<up, store, phase, loaded, chan, res>>
      /\ waits[w] = None /\ chan[w] = NoResult
      /\ waits'[w] = f /\ \A v \in Workers \ {w} : waits'[v] = waits[v]
      /\ work' = [work EXCEPT ![w].pc = "wait"]
  BY <1>1 DEF Do, G!Do, G!Start, G!Join, G!Begin, G!InDo, G!TypeOK
<1>3. /\ \A v \in Workers \ {w} : work'[v] = work[v]
      /\ \A v \in Workers : Key(v)' = Key(v)
      /\ work'[w].pc = "wait" /\ work'[w].failed = work[w].failed /\ work'[w].gone = work[w].gone
      /\ work'[w].lost = work[w].lost /\ work'[w].i = work[w].i
      /\ work'[w].pass = work[w].pass
  BY <1>1, <1>2 DEF Demo, Key
<1>4. Known' /\ FailuresExplained'
  BY <1>1, <1>2, <1>3 DEF Known, FailuresExplained
<1>5. /\ w = Main => phase = "demo" /\ \A g \in Flights : state[g] = "free"
      /\ w # Main => phase = "serving" /\ \A k \in Keys : loaded[k] \/ k \in work[w].lost
  BY <1>2, ActiveMain, ActiveHandler, MainOutside
<1>6. \A k \in Keys : Fresh(k)' <=> Fresh(k)
  BY <1>1, <1>2, <1>3 DEF Fresh
<1>7. CASE G!Join(Key(w), f)
  <2>1. state[f] \in {"running", "returned"} /\ key[f] = Key(w)
    BY <1>1, <1>7, KeysTyped DEF G!Join, P!GroupInv, P!MapIsCurrent, P!InFlight
  <2>2. UNCHANGED <<flight, state, key>>
    BY <1>7, <2>1 DEF Do, G!Join
  <2>3. w # Main
    BY <1>5, <2>1
  <2>4. AtSelect'
    BY <1>1, <1>2, <1>3, <2>1, <2>2 DEF AtSelect
  <2>5. ErrorsKnown'
    <3>1. ASSUME res[f] = "error" PROVE Key(w) \in work[w].lost
      BY <1>1, <1>5, <2>1, <2>3, <3>1, AppAssumption DEF ErrorsKnown, Executing
    <3> QED BY <1>1, <1>2, <1>3, <2>2, <3>1 DEF ErrorsKnown
  <2>6. Startup' /\ FirstDemo'
    BY <1>1, <1>2, <1>3, <1>5, <2>3 DEF Startup, FirstDemo
  <2> QED BY <1>4, <2>4, <2>5, <2>6 DEF Waiting
<1>8. CASE G!Begin(Key(w), f)
  <2>1. state[f] = "free" /\ flight[f].pc = "none" /\ res[f] = NoResult
    BY <1>1, <1>8 DEF G!Begin, Executing
  <2>2. /\ flight'[f].pc = "recheck" /\ flight'[f].pass = work[w].pass
        /\ state'[f] = "running" /\ key'[f] = Key(w)
        /\ \A g \in Flights \ {f} :
             flight'[g] = flight[g] /\ state'[g] = state[g] /\ key'[g] = key[g]
    BY <1>1, <1>8, <2>1 DEF Do, G!Begin, Typed, G!TypeOK
  <2>3. \A v \in Workers : waits[v] # f
    BY <1>1, <2>1, KeysTyped DEF P!GroupInv, P!WaitersAttached
  <2>4. AtSelect'
    BY <1>1, <1>2, <1>3, <2>2, <2>3 DEF AtSelect, G!TypeOK
  <2>5. ErrorsKnown'
    <3>1. res[f] # "error"
      BY <2>1, AppAssumption
    <3> QED BY <1>1, <1>2, <1>3, <2>2, <3>1 DEF ErrorsKnown
  <2>6. Startup'
    BY <1>1, <1>2, <1>3, <1>5, <2>2 DEF Startup
  <2>7. FirstDemo'
    <3>1. CASE w = Main
      <4>1. \A g \in Flights : ~(flight'[g].pc = "set" \/ state'[g] \in {"returned", "forgotten"})
        BY <1>1, <1>5, <2>2, <3>1 DEF Executing
      <4>2. chan'[Main] = NoResult /\ store' = store /\ phase' = phase
            /\ work'[Main].pass = work[Main].pass /\ work'[Main].i = work[Main].i
        BY <1>2, <1>3, <3>1
      <4> QED BY <1>1, <1>6, <4>1, <4>2, KeysTyped DEF FirstDemo
    <3>2. CASE w # Main
      BY <1>2, <1>5, <3>2 DEF FirstDemo
    <3> QED BY <3>1, <3>2
  <2> QED BY <1>4, <2>4, <2>5, <2>6, <2>7 DEF Waiting
<1> QED BY <1>7, <1>8 DEF Do, G!Do, G!Start

(* The steps of a flight.                                                  *)
LEMMA FirstDemoKept ==
  ASSUME AppInv, NEW k \in Keys, Lost(k) \/ UNCHANGED <<work, loaded>>,
         UNCHANGED <<phase, key, waits, chan>>, work[Main].pc # "idle",
         \A j \in Keys : store'[j] => store[j] \/ ~Fresh(j)',
         \A f \in Flights :
           flight'[f].pc = "set" \/ state'[f] \in {"returned", "forgotten"} =>
             \/ flight[f].pc = "set" \/ state[f] \in {"returned", "forgotten"}
             \/ ~Fresh(key[f])'
  PROVE  FirstDemo'
<1>1. phase = "demo" /\ FirstDemo /\ Main \in Workers /\ \A f \in Flights : key[f] \in Keys
  BY KeysTyped, ActiveMain, InvTyped DEF AppInv, G!TypeOK
<1>2. \A j \in Keys : Fresh(j)' => Fresh(j)
  BY LossWaiting
<1>3. /\ work'[Main].pass = work[Main].pass /\ work'[Main].i = work[Main].i
      /\ Key(Main)' = Key(Main) /\ Key(Main) \in Keys
  BY <1>1, LossMoves, KeyTyped, InvTyped DEF Typed
<1> QED BY <1>1, <1>2, <1>3, KeysTyped DEF FirstDemo

LEMMA RunningFlight ==
  ASSUME AppInv, NEW f \in Flights, flight[f].pc # "none"
  PROVE  /\ state[f] = "running" /\ key[f] \in Keys /\ res[f] = NoResult
         /\ phase # "serving" => /\ work[Main].pc = "wait" /\ waits[Main] = f
                                 /\ key[f] = Key(Main) /\ flight[f].pass = work[Main].pass
<1>1. state[f] = "running" /\ key[f] \in Keys /\ res[f] = NoResult
  BY InvTyped DEF AppInv, Executing, G!TypeOK
<1> QED BY <1>1, KeysTyped DEF AppInv, Startup, AtSelect

LEMMA RecheckWaiting ==
  ASSUME AppInv, NEW f \in Flights, Recheck(f)
  PROVE  Waiting'
<1>1. /\ ErrorsKnown /\ Startup /\ FirstDemo /\ Main \in Workers /\ Handlers \subseteq Workers
      /\ G!TypeOK /\ Typed
  BY KeysTyped, InvTyped DEF AppInv
<1>2. /\ flight[f].pc = "recheck" /\ UNCHANGED <<phase, store, key, waits, chan>>
      /\ Lost(key[f]) \/ UNCHANGED <<work, loaded>>
  BY DEF Recheck, Return, G!FnReturn, groupVars
<1>3. /\ flight'[f].pc \in {"none", "load"} /\ state'[f] \in {"running", "returned"}
      /\ flight'[f].pc = "load" => flight'[f].pass = flight[f].pass
      /\ state'[f] = "returned" => store[key[f]]
      /\ res'[f] # "error"
      /\ \A g \in Flights \ {f} :
           flight'[g] = flight[g] /\ state'[g] = state[g] /\ res'[g] = res[g]
  <2>1. CASE up[key[f]] /\ store[key[f]]
    BY <1>1, <2>1, ReturnMoves DEF Recheck
  <2>2. CASE ~(up[key[f]] /\ store[key[f]])
    <3>1. UNCHANGED groupVars /\ flight' = [flight EXCEPT ![f].pc = "load"]
      BY <2>2 DEF Recheck
    <3>2. flight'[f].pc = "load" /\ flight'[f].pass = flight[f].pass
          /\ \A g \in Flights \ {f} : flight'[g] = flight[g]
      BY <1>1, <3>1 DEF Typed, Closure
    <3> QED BY <1>2, <3>1, <3>2, RunningFlight, AppAssumption DEF groupVars
  <2> QED BY <2>1, <2>2
<1>4. AtSelect' /\ Known' /\ FailuresExplained'
  BY <1>2, RunningFlight, LossWaiting
<1>5. ErrorsKnown'
  <2>1. key[f] \in Keys /\ \A g \in Flights : key[g] \in Keys
    BY <1>1 DEF G!TypeOK
  <2>2. /\ \A j \in Keys : loaded'[j] => loaded[j]
        /\ \A w \in Workers : Key(w)' = Key(w) /\ work[w].lost \subseteq work'[w].lost
    BY <1>2, <2>1, LossMoves
  <2>3. \A g \in Flights : state'[g] = "returned" /\ res'[g] = "error" => ~loaded'[key'[g]]
    BY <1>1, <1>2, <1>3, <2>1, <2>2 DEF ErrorsKnown
  <2>4. \A w \in Workers : waits[w] # None /\ res'[waits[w]] = "error" => Key(w) \in work[w].lost
    BY <1>1, <1>3 DEF ErrorsKnown, G!TypeOK
  <2> QED BY <1>1, <1>2, <2>2, <2>3, <2>4 DEF ErrorsKnown
<1>6. Startup'
  <2>1. \A w \in Workers : work'[w].pc = work[w].pc /\ work'[w].gone = work[w].gone
                           /\ work'[w].pass = work[w].pass
                           /\ (work[w].pc = "idle" => work'[w] = work[w])
    BY <1>2, RunningFlight, LossMoves
  <2>2. phase \notin {"ping", "sleep"}
    BY <1>1, <1>2, RunningFlight DEF Startup, NoDemo
  <2> QED BY <1>1, <1>2, <1>3, <2>1, <2>2, RunningFlight DEF Startup
<1>7. FirstDemo'
  <2>1. CASE phase = "serving"
    BY <1>2, <2>1 DEF FirstDemo
  <2>2. CASE phase # "serving"
    <3>1. work[Main].pc # "idle" /\ key[f] \in Keys
      BY <1>2, <2>2, RunningFlight
    <3>2. state'[f] = "returned" => ~Fresh(key[f])'
      <4>1. store[key[f]] => ~Fresh(key[f])
        BY <1>1, <2>2, <3>1 DEF FirstDemo
      <4>2. \A j \in Keys : Fresh(j)' => Fresh(j)
        BY <1>2, <3>1, LossWaiting
      <4> QED BY <1>2, <1>3, <3>1, <4>1, <4>2
    <3>3. \A g \in Flights :
            flight'[g].pc = "set" \/ state'[g] \in {"returned", "forgotten"} =>
              \/ flight[g].pc = "set" \/ state[g] \in {"returned", "forgotten"}
              \/ ~Fresh(key[g])'
      BY <1>2, <1>3, <3>2
    <3> QED BY <1>2, <3>1, <3>3, FirstDemoKept
  <2> QED BY <2>1, <2>2
<1> QED BY <1>4, <1>5, <1>6, <1>7 DEF Waiting

LEMMA LoadWaiting ==
  ASSUME AppInv, NEW f \in Flights, Load(f)
  PROVE  Waiting'
<1>1. /\ AtSelect /\ Known /\ ErrorsKnown /\ Startup /\ FirstDemo /\ FailuresExplained
      /\ G!TypeOK /\ Typed /\ Executing
  BY InvTyped DEF AppInv
<1>2. /\ flight[f].pc = "load" /\ UNCHANGED <<phase, store, work, groupVars>>
      /\ flight'[f].pc = "set" /\ flight'[f].pass = flight[f].pass
      /\ \A g \in Flights \ {f} : flight'[g] = flight[g]
      /\ loaded'[key[f]] /\ \A j \in Keys \ {key[f]} : loaded'[j] = loaded[j]
      /\ state[f] = "running" /\ key[f] \in Keys
  BY <1>1, RunningFlight DEF Load, Typed, Closure
<1>3. AtSelect' /\ FailuresExplained'
  BY <1>1, <1>2 DEF AtSelect, FailuresExplained, Key, groupVars
<1>4. Known'
  BY <1>1, <1>2 DEF Known
<1>5. ErrorsKnown'
  <2>1. ASSUME NEW g \in Flights, state[g] = "returned" PROVE key[g] # key[f]
    BY <1>2, <2>1, OnlyFlight
  <2> QED BY <1>1, <1>2, <2>1 DEF ErrorsKnown, Key, groupVars, G!TypeOK
<1>6. Startup'
  BY <1>1, <1>2 DEF Startup, groupVars, Executing
<1>7. FirstDemo'
  <2>1. \A j \in Keys : Fresh(j)' => Fresh(j)
    BY <1>2 DEF Fresh
  <2>2. ~Fresh(key[f])'
    BY <1>2 DEF Fresh, groupVars
  <2>3. Key(Main)' = Key(Main) /\ Key(Main) \in Keys
    BY <1>1, <1>2, KeyTyped, KeysTyped DEF Key, Typed
  <2>4. \A g \in Flights : key'[g] = key[g] /\ key[g] \in Keys
    BY <1>1, <1>2 DEF groupVars, G!TypeOK
  <2> QED BY <1>1, <1>2, <2>1, <2>2, <2>3, <2>4, KeysTyped DEF FirstDemo, groupVars
<1> QED BY <1>3, <1>4, <1>5, <1>6, <1>7 DEF Waiting

LEMMA FailsWaiting ==
  ASSUME AppInv, NEW f \in Flights, LoaderFails(f)
  PROVE  Waiting'
<1>1. /\ AtSelect /\ Known /\ ErrorsKnown /\ Startup /\ FirstDemo
      /\ G!TypeOK /\ Typed /\ LoadsOnlyWhatWasLost
      /\ Main \in Workers
  BY InvTyped, KeysTyped DEF AppInv
<1>2. /\ flight[f].pc = "load" /\ flight[f].pass = 2 /\ Return(f, "error")
      /\ UNCHANGED <<up, store, phase, work, loaded>>
  BY DEF LoaderFails
<1>3. /\ state[f] = "running" /\ state'[f] = "returned" /\ res'[f] = "error"
      /\ flight'[f].pc = "none"
      /\ \A g \in Flights \ {f} :
           flight'[g] = flight[g] /\ state'[g] = state[g] /\ res'[g] = res[g]
      /\ UNCHANGED <<calls, key, waits, chan>>
  BY <1>2, ReturnMoves
<1>4. key[f] \in Keys /\ ~loaded[key[f]]
  BY <1>1, <1>2 DEF LoadsOnlyWhatWasLost, G!TypeOK
<1>5. phase # "serving" => ~Fresh(key[f]) /\ work[Main].pc # "idle"
  <2> SUFFICES ASSUME phase # "serving" PROVE ~Fresh(key[f]) /\ work[Main].pc # "idle"
    OBVIOUS
  <2>1. work[Main].pc = "wait" /\ key[f] = Key(Main) /\ work[Main].pass = 2
    BY <1>2, RunningFlight
  <2>2. work[Main].i \in DOMAIN demoKeys
    BY <1>1 DEF Typed, Demo
  <2> QED BY <1>1, <2>1, <2>2 DEF FirstDemo, Key
<1>6. AtSelect' /\ Known' /\ FailuresExplained'
  BY <1>2, <1>3, <1>4, LossWaiting
<1>7. ASSUME NEW w \in Workers, waits[w] = f PROVE Key(w) \in work[w].lost
  <2>1. work[w].pc = "wait" /\ Key(w) = key[f]
    BY <1>1, <1>7, KeysTyped DEF AtSelect
  <2>2. CASE w = Main
    BY <1>4, <1>5, <2>1, <2>2, ActiveMain DEF Fresh
  <2>3. CASE w # Main
    BY <1>4, <2>1, <2>3, ActiveHandler
  <2> QED BY <2>2, <2>3
<1>8. ErrorsKnown'
  BY <1>1, <1>2, <1>3, <1>4, <1>7 DEF ErrorsKnown, Key, G!TypeOK
<1>9. Startup'
  BY <1>1, <1>2, <1>3 DEF Startup
<1>10. FirstDemo'
  <2>1. CASE phase # "serving"
    <3>1. ~Fresh(key[f])'
      BY <1>2, <1>3, <1>5, <2>1 DEF Fresh
    <3> QED BY <1>2, <1>3, <1>4, <1>5, <2>1, <3>1, FirstDemoKept
  <2>2. CASE phase = "serving"
    BY <1>2, <2>2 DEF FirstDemo
  <2> QED BY <2>1, <2>2
<1> QED BY <1>6, <1>8, <1>9, <1>10 DEF Waiting

LEMMA SetWaiting ==
  ASSUME AppInv, NEW f \in Flights, Set(f)
  PROVE  Waiting'
<1>1. /\ ErrorsKnown /\ Startup /\ FirstDemo /\ Main \in Workers /\ Handlers \subseteq Workers
      /\ G!TypeOK /\ Typed
  BY KeysTyped, InvTyped DEF AppInv
<1>2. /\ flight[f].pc = "set" /\ Return(f, "value") /\ UNCHANGED phase
      /\ Lost(key[f]) \/ UNCHANGED <<work, loaded>>
  BY DEF Set
<1>3. /\ state[f] = "running" /\ state'[f] = "returned" /\ res'[f] = "value"
      /\ flight'[f].pc = "none"
      /\ \A g \in Flights \ {f} :
           flight'[g] = flight[g] /\ state'[g] = state[g] /\ res'[g] = res[g]
      /\ UNCHANGED <<calls, key, waits, chan>>
  BY <1>2, ReturnMoves
<1>4. key[f] \in Keys /\ \A j \in Keys \ {key[f]} : store'[j] = store[j]
  BY <1>1 DEF Set, Typed, G!TypeOK
<1>5. AtSelect' /\ Known' /\ FailuresExplained'
  BY <1>2, <1>3, <1>4, LossWaiting
<1>6. ErrorsKnown'
  <2>1. \A g \in Flights : key[g] \in Keys
    BY <1>1 DEF G!TypeOK
  <2>2. /\ \A j \in Keys : loaded'[j] => loaded[j]
        /\ \A w \in Workers : Key(w)' = Key(w) /\ work[w].lost \subseteq work'[w].lost
    BY <1>2, <1>4, LossMoves
  <2>3. \A g \in Flights : state'[g] = "returned" /\ res'[g] = "error" => ~loaded'[key'[g]]
    BY <1>1, <1>3, <2>1, <2>2 DEF ErrorsKnown
  <2>4. \A w \in Workers : waits[w] # None /\ res'[waits[w]] = "error" => Key(w) \in work[w].lost
    BY <1>1, <1>3 DEF ErrorsKnown, G!TypeOK
  <2> QED BY <1>1, <1>3, <2>2, <2>3, <2>4 DEF ErrorsKnown
<1>7. Startup'
  <2>1. \A w \in Workers : work'[w].pc = work[w].pc /\ work'[w].gone = work[w].gone
                           /\ work'[w].pass = work[w].pass
                           /\ (work[w].pc = "idle" => work'[w] = work[w])
    BY <1>2, <1>4, LossMoves
  <2>2. phase \notin {"ping", "sleep"}
    BY <1>1, <1>2, RunningFlight DEF Startup, NoDemo
  <2> QED BY <1>1, <1>2, <1>3, <2>1, <2>2 DEF Startup
<1>8. FirstDemo'
  <2>1. CASE phase # "serving"
    <3>1. work[Main].pc # "idle"
      BY <1>2, <2>1, RunningFlight
    <3>2. ~Fresh(key[f])'
      <4>1. ~Fresh(key[f])
        BY <1>1, <1>2, <2>1 DEF FirstDemo
      <4>2. \A j \in Keys : Fresh(j)' => Fresh(j)
        BY <1>2, <1>3, <1>4, <3>1, LossWaiting
      <4> QED BY <1>3, <1>4, <4>1, <4>2
    <3>3. \A j \in Keys : store'[j] => store[j] \/ ~Fresh(j)'
      BY <1>3, <1>4, <3>2
    <3> QED BY <1>2, <1>3, <1>4, <3>1, <3>3, FirstDemoKept
  <2>2. CASE phase = "serving"
    BY <1>2, <2>2 DEF FirstDemo
  <2> QED BY <2>1, <2>2
<1> QED BY <1>5, <1>6, <1>7, <1>8 DEF Waiting

LEMMA DeliverWaiting ==
  ASSUME AppInv, NEW f \in Flights, Forget(f) \/ Deliver(f)
  PROVE  Waiting'
<1>1. /\ AtSelect /\ Known /\ ErrorsKnown /\ Startup /\ FirstDemo /\ FailuresExplained
      /\ G!TypeOK /\ Typed /\ Executing /\ Main \in Workers /\ None \notin Flights
  BY InvTyped, KeysTyped DEF AppInv
<1>2. UNCHANGED <<up, store, phase, work, flight, loaded, key>> /\ \A w \in Workers : Key(w)' = Key(w)
  BY DEF Forget, Deliver, G!Forget, G!Deliver, Key
<1>3. /\ state[f] \in {"returned", "forgotten"} /\ state'[f] \in {"forgotten", "free"}
      /\ \A g \in Flights \ {f} : state'[g] = state[g] /\ res'[g] = res[g]
      /\ res'[f] \in {res[f], NoResult}
      /\ state'[f] = "forgotten" => res'[f] = res[f] /\ UNCHANGED <<waits, chan>>
  BY <1>1 DEF Forget, Deliver, G!Forget, G!Deliver, G!TypeOK
<1>4. \A w \in Workers :
        \/ waits'[w] = waits[w] /\ chan'[w] = chan[w] /\ (waits[w] = f => state'[f] = "forgotten")
        \/ waits[w] = f /\ waits'[w] = None /\ chan'[w] = res[f]
  BY <1>1 DEF Forget, Deliver, G!Forget, G!Deliver, G!TypeOK
<1>5. Known' /\ FailuresExplained'
  BY <1>1, <1>2 DEF Known, FailuresExplained
<1>6. AtSelect'
  BY <1>1, <1>2, <1>4 DEF AtSelect
<1>7. ErrorsKnown'
  <2>1. \A g \in Flights : state'[g] = "returned" /\ res'[g] = "error" => ~loaded'[key'[g]]
    BY <1>1, <1>2, <1>3 DEF ErrorsKnown
  <2>2. \A w \in Workers :
          /\ waits'[w] # None /\ res'[waits'[w]] = "error" => Key(w) \in work[w].lost
          /\ chan'[w] = "error" => Key(w) \in work[w].lost
    <3> SUFFICES ASSUME NEW w \in Workers
                 PROVE  /\ waits'[w] # None /\ res'[waits'[w]] = "error" => Key(w) \in work[w].lost
                        /\ chan'[w] = "error" => Key(w) \in work[w].lost
      OBVIOUS
    <3>1. waits[w] \in Flights \cup {None}
      BY <1>1 DEF G!TypeOK
    <3> QED BY <1>1, <1>3, <1>4, <3>1, AppAssumption DEF ErrorsKnown
  <2> QED BY <1>2, <2>1, <2>2 DEF ErrorsKnown
<1>8. Startup'
  <2>1. ASSUME NEW g \in Flights, state'[g] # "free", phase # "serving"
        PROVE  waits'[Main] = g
    <3>1. waits[Main] = g
      BY <1>1, <1>3, <2>1 DEF Startup
    <3> QED BY <1>1, <1>3, <1>4, <2>1, <3>1
  <2> QED BY <1>1, <1>2, <1>3, <2>1 DEF Startup
<1>9. FirstDemo'
  <2>1. \A k \in Keys : Fresh(k)' <=> Fresh(k)
    BY <1>2 DEF Fresh
  <2>2. ASSUME phase # "serving", chan'[Main] # NoResult PROVE ~Fresh(Key(Main))
    <3>1. CASE chan'[Main] = chan[Main]
      BY <1>1, <2>2, <3>1 DEF FirstDemo
    <3>2. CASE waits[Main] = f
      <4>1. Key(Main) = key[f]
        BY <1>1, <3>2 DEF AtSelect
      <4> QED BY <1>1, <1>3, <2>2, <4>1 DEF FirstDemo
    <3> QED BY <1>1, <1>4, <3>1, <3>2
  <2>3. Key(Main) \in Keys /\ \A g \in Flights : key[g] \in Keys
    BY <1>1, KeyTyped DEF Typed, G!TypeOK
  <2> QED BY <1>1, <1>2, <1>3, <2>1, <2>2, <2>3, KeysTyped DEF FirstDemo
<1> QED BY <1>5, <1>6, <1>7, <1>8, <1>9 DEF Waiting

LEMMA ExpireWaiting ==
  ASSUME AppInv, NEW k \in Unstable, Expire(k)
  PROVE  Waiting'
<1>1. /\ ErrorsKnown /\ Startup /\ FirstDemo /\ Main \in Workers /\ Handlers \subseteq Workers
      /\ G!TypeOK /\ Typed /\ k \in Keys /\ Executing
  BY KeysTyped, InvTyped, AppAssumption DEF AppInv
<1>2. /\ Lost(k) /\ UNCHANGED <<phase, flight, state, key, res, waits, chan>>
      /\ \A j \in Keys : store'[j] => store[j]
  BY <1>1 DEF Expire, groupVars, Typed
<1>3. AtSelect' /\ Known' /\ FailuresExplained'
  BY <1>1, <1>2, LossWaiting
<1>4. ErrorsKnown'
  <2>1. \A g \in Flights : key[g] \in Keys
    BY <1>1 DEF G!TypeOK
  <2>2. /\ \A j \in Keys : loaded'[j] => loaded[j]
        /\ \A w \in Workers : Key(w)' = Key(w) /\ work[w].lost \subseteq work'[w].lost
    BY <1>1, <1>2, LossMoves
  <2> QED BY <1>1, <1>2, <2>1, <2>2 DEF ErrorsKnown
<1>5. Startup'
  <2>1. \A w \in Workers : work'[w].pc = work[w].pc /\ work'[w].gone = work[w].gone
                           /\ work'[w].pass = work[w].pass
                           /\ (work[w].pc = "idle" => work'[w] = work[w])
    BY <1>1, <1>2, LossMoves
  <2>2. NoDemo.pc = "idle"
    BY DEF NoDemo
  <2> QED BY <1>1, <1>2, <2>1, <2>2 DEF Startup
<1>6. FirstDemo'
  <2>1. CASE phase # "serving" /\ work[Main].pc = "idle"
    <3>1. /\ chan[Main] = NoResult
          /\ \A f \in Flights : state[f] = "free" /\ flight[f].pc = "none"
      BY <1>1, <2>1, MainOutside DEF Executing
    <3>2. ~store'[k] /\ \A j \in Keys \ {k} : loaded'[j] = loaded[j] /\ store'[j] = store[j]
      BY <1>1, LostMoves DEF Expire, Typed
    <3>3. work'[Main] = work[Main]
      BY <1>1, <1>2, <2>1, LossMoves
    <3>4. \A j \in Keys : store'[j] => ~Fresh(j)'
      BY <1>1, <2>1, <3>2, <3>3 DEF FirstDemo, Fresh
    <3>5. work[Main] = NoDemo
      BY <1>1, <2>1 DEF Startup, Typed
    <3>6. \A j \in DOMAIN demoKeys : ~(work'[Main].pass = 2 \/ j < work'[Main].i)
      BY <3>3, <3>5, KeysTyped DEF NoDemo
    <3> QED BY <1>2, <3>1, <3>4, <3>6 DEF FirstDemo
  <2>2. CASE phase # "serving" /\ work[Main].pc # "idle"
    BY <1>1, <1>2, <2>2, FirstDemoKept
  <2>3. CASE phase = "serving"
    BY <1>2, <2>3 DEF FirstDemo
  <2> QED BY <2>1, <2>2, <2>3
<1> QED BY <1>3, <1>4, <1>5, <1>6 DEF Waiting

LEMMA NextWaiting ==
  ASSUME AppInv, Next
  PROVE  Waiting'
<1>1. CASE Form \/ \E k \in Unstable : ShardChanges(k)
  BY <1>1, FrameWaiting DEF Form, ShardChanges, AppInv, Waiting
<1>2. ASSUME NEW w \in Workers, WorkerStep(w) PROVE Waiting'
  BY <1>2, LookupWaiting, DoWaiting, ReceiveWaiting DEF WorkerStep
<1>3. ASSUME NEW f \in Flights, FlightStep(f) PROVE Waiting'
  BY <1>3, RecheckWaiting, LoadWaiting, FailsWaiting, SetWaiting, DeliverWaiting DEF FlightStep
<1> QED BY <1>1, <1>2, <1>3, PingWaiting, WakeWaiting, RequestWaiting, ExpireWaiting DEF Next

-----------------------------------------------------------------------------
LEMMA AppInvInductive == AppInv /\ [Next]_vars => AppInv'
<1> SUFFICES ASSUME AppInv, [Next]_vars PROVE AppInv'
  OBVIOUS
<1>1. Typed /\ G!TypeOK /\ P!GroupInv
  BY InvTyped
<1>2. P!GroupInv'
  <2>1. [P!Next]_(P!vars)
    BY <1>1, StepSimulates, SameNext DEF Typed
  <2> QED BY <1>1, <2>1, P!GroupInvInductive, AppAssumption
<1>3. G!TypeOK'
  BY <1>2 DEF P!GroupInv, P!TypeOK, G!TypeOK
<1>4. CASE Next
  <2>1. Typed'
    BY <1>1, <1>4, NextTyped
  <2>2. TypeOK'
    BY <1>3, <2>1 DEF TypeOK, Typed, Demo, Closure
  <2> QED BY <1>2, <1>4, <2>2, NextRunning, NextWaiting DEF AppInv, Running, Waiting
<1>5. CASE UNCHANGED vars
  <2>1. Running' /\ Waiting'
    BY <1>5, FrameRunning, FrameWaiting DEF vars, AppInv, Running, Waiting
  <2>2. TypeOK'
    BY <1>3, <1>5 DEF AppInv, TypeOK, vars
  <2> QED BY <1>2, <2>1, <2>2 DEF AppInv, Running, Waiting
<1> QED BY <1>4, <1>5

LEMMA AppInvInitially == Init => AppInv
<1> SUFFICES ASSUME Init PROVE AppInv
  OBVIOUS
<1>1. P!GroupInv /\ G!TypeOK
  BY SameInit, SameTypes, P!GroupInvInitially, AppAssumption DEF Init, P!GroupInv
<1>2. TypeOK
  BY <1>1, SameTyped, NoDemoTyped DEF Init, Typed, Closure, NoClosure
<1>3. Running
  BY DEF Init, G!Init, NoClosure, Running, Executing, Held, LoadsOnlyWhatWasLost
<1>4. /\ Main \in Workers /\ Handlers \subseteq Workers
      /\ \A w \in Workers : work[w] = NoDemo /\ waits[w] = None /\ chan[w] = NoResult
      /\ \A f \in Flights : state[f] = "free" /\ flight[f] = NoClosure
      /\ \A k \in Keys : ~store[k]
      /\ phase = "ping"
  BY DEF Init, G!Init, Workers
<1>5. AtSelect /\ Known /\ FailuresExplained
  BY <1>4 DEF AtSelect, Known, FailuresExplained, NoDemo
<1>6. ErrorsKnown
  BY <1>4, AppAssumption DEF ErrorsKnown
<1>7. Startup
  <2>1. NoDemo.gone = FALSE /\ NoDemo.pc = "idle"
    BY DEF NoDemo
  <2>2. work[Main] = NoDemo /\ ~work[Main].gone /\ \A h \in Handlers : work[h].pc = "idle"
    BY <1>4, <2>1
  <2> QED BY <1>4, <2>2 DEF Startup
<1>8. FirstDemo
  <2>1. \A j \in DOMAIN demoKeys : ~(work[Main].pass = 2 \/ j < work[Main].i)
    BY <1>4, KeysTyped DEF NoDemo
  <2> QED BY <1>4, <2>1 DEF FirstDemo, NoClosure
<1> QED BY <1>1, <1>2, <1>3, <1>5, <1>6, <1>7, <1>8 DEF AppInv, Running

(* Every reachable state of the application satisfies the invariant.       *)
THEOREM AppInvariant == Spec => []AppInv
BY AppInvInitially, AppInvInductive, PTL DEF Spec

(* The cluster, the demos, the closures and the group keep their types: no *)
(* demo runs past the end of its keys, and every flight has a closure that *)
(* fits.                                                                   *)
THEOREM TypeCorrect == Spec => []TypeOK
<1>1. AppInv => TypeOK
  BY DEF AppInv
<1> QED BY <1>1, AppInvariant, PTL

(* "A second pass must be all hits" (runDemo): no loader runs for a key    *)
(* that was loaded and not lost since, for any number of requests that     *)
(* overlap and go away.                                                    *)
THEOREM NothingLoadedTwice == Spec => []LoadsOnlyWhatWasLost
<1>1. AppInv => LoadsOnlyWhatWasLost
  BY DEF AppInv
<1> QED BY <1>1, AppInvariant, PTL

(* A GetOrSet of a demo fails only if its own client went away, or if its  *)
(* key was lost while the demo ran: neither the cancellation nor the       *)
(* failing loader of another request reaches it.                           *)
THEOREM FailuresHaveCauses == Spec => []FailuresExplained
<1>1. AppInv => FailuresExplained
  BY DEF AppInv
<1> QED BY <1>1, AppInvariant, PTL
=============================================================================
