-------------------------- MODULE LoadGroupProofs --------------------------
(***************************************************************************)
(* Proofs about the single-flight group, for any number of keys, callers   *)
(* and flights.                                                            *)
(*                                                                         *)
(* OneFlightPerKey is not inductive: what keeps a second flight of a key   *)
(* out is the map entry, so the invariant has to say that every flight in  *)
(* progress is the one its key's map entry names (Registered), and that a  *)
(* map entry never names a flight that is over (MapIsCurrent).             *)
(***************************************************************************)
EXTENDS LoadGroup, TLAPS

Registered == \A f \in Flights : InFlight(f) => calls[key[f]] = f

MapIsCurrent ==
  \A k \in Keys : calls[k] # None => InFlight(calls[k]) /\ key[calls[k]] = k

(* The inductive invariant.                                                *)
GroupInv == TypeOK /\ Registered /\ MapIsCurrent /\ WaitersAttached

(* The four variables of the map and the goroutines determine Registered   *)
(* and MapIsCurrent; the steps of a caller that is already inside do leave *)
(* them alone.                                                             *)
LEMMA CallersOnly ==
  ASSUME GroupInv, UNCHANGED <<calls, state, key, res>>
  PROVE  Registered' /\ MapIsCurrent'
BY DEF GroupInv, Registered, MapIsCurrent, InFlight

(* DoChan, whichever half it takes, keeps the map and the flights in       *)
(* agreement and leaves the caller with a flight that is in progress.      *)
LEMMA StartKeepsMap ==
  ASSUME GroupInv, NEW k \in Keys, NEW f \in Flights, Start(k, f)
  PROVE  /\ Registered' /\ MapIsCurrent'
         /\ InFlight(f)'
         /\ \A g \in Flights : state[g] # "free" => state'[g] = state[g]
<1>1. CASE Join(k, f)
  <2>1. f # None /\ InFlight(f) /\ key[f] = k
    BY <1>1, GroupAssumption DEF Join, GroupInv, MapIsCurrent
  <2>2. InFlight(f)' /\ \A g \in Flights : state[g] # "free" => state'[g] = state[g]
    BY <1>1, <2>1 DEF Join, InFlight
  <2> QED BY <1>1, <2>2, CallersOnly DEF Join
<1>2. CASE Begin(k, f)
  <2>1. state'[f] = "running" /\ key'[f] = k /\ calls'[k] = f
    BY <1>2 DEF Begin, GroupInv, TypeOK
  <2>2. \A g \in Flights \ {f} : state'[g] = state[g] /\ key'[g] = key[g]
    BY <1>2 DEF Begin, GroupInv, TypeOK
  <2>3. \A j \in Keys \ {k} : calls'[j] = calls[j]
    BY <1>2 DEF Begin, GroupInv, TypeOK
  <2>4. state[f] = "free" /\ calls[k] = None
    BY <1>2 DEF Begin
  <2>5. Registered'
    <3> SUFFICES ASSUME NEW g \in Flights, InFlight(g)'
                 PROVE  calls'[key'[g]] = g
      BY DEF Registered
    <3>1. CASE g = f
      BY <3>1, <2>1
    <3>2. CASE g # f
      <4>1. InFlight(g) /\ key'[g] = key[g] /\ key[g] \in Keys
        BY <3>2, <2>2 DEF InFlight, GroupInv, TypeOK
      <4>2. calls[key[g]] = g
        BY <4>1 DEF GroupInv, Registered
      <4>3. key[g] # k
        BY <4>2, <2>4, GroupAssumption
      <4> QED BY <4>1, <4>2, <4>3, <2>3
    <3> QED BY <3>1, <3>2
  <2>6. MapIsCurrent'
    <3> SUFFICES ASSUME NEW j \in Keys, calls'[j] # None
                 PROVE  /\ state'[calls'[j]] \in {"running", "returned"}
                        /\ key'[calls'[j]] = j
      BY DEF MapIsCurrent, InFlight
    <3>1. CASE j = k
      BY <3>1, <2>1 DEF InFlight
    <3>2. CASE j # k
      <4>1. calls'[j] = calls[j] /\ calls[j] \in Flights
        BY <3>2, <2>3 DEF GroupInv, TypeOK
      <4>2. InFlight(calls[j]) /\ key[calls[j]] = j
        BY <4>1 DEF GroupInv, MapIsCurrent
      <4>3. calls[j] # f
        BY <4>2, <2>4 DEF InFlight
      <4> QED BY <4>1, <4>2, <4>3, <2>2 DEF InFlight
    <3> QED BY <3>1, <3>2
  <2>7. \A g \in Flights : state[g] # "free" => state'[g] = state[g]
    BY <2>2, <2>4
  <2> QED BY <2>1, <2>5, <2>6, <2>7 DEF InFlight
<1> QED BY <1>1, <1>2 DEF Start

(* Type correctness of every step.                                         *)
LEMMA NextTyped == TypeOK /\ [Next]_vars => TypeOK'
<1> SUFFICES ASSUME TypeOK, [Next]_vars PROVE TypeOK'
  OBVIOUS
<1> USE DEF TypeOK
<1>1. ASSUME NEW k \in Keys, NEW f \in Flights, Start(k, f)
      PROVE  /\ calls' \in [Keys -> Flights \cup {None}]
             /\ state' \in [Flights -> {"free", "running", "returned", "forgotten"}]
             /\ key'   \in [Flights -> Keys]
             /\ res'   \in [Flights -> Results \cup {NoResult}]
  BY <1>1 DEF Start, Join, Begin
<1>2. ASSUME NEW c \in Callers, CallerStep(c) PROVE TypeOK'
  <2>1. ASSUME NEW k \in Keys, NEW f \in Flights, Do(c, k, f) PROVE TypeOK'
    BY <2>1, <1>1 DEF Do
  <2>2. CASE Receive(c)
    BY <2>2 DEF Receive
  <2>3. CASE Leave(c)
    BY <2>3 DEF Leave
  <2> QED BY <1>2, <2>1, <2>2, <2>3 DEF CallerStep
<1>3. ASSUME NEW k \in Keys, NEW f \in Flights, DoAsync(k, f) PROVE TypeOK'
  BY <1>3, <1>1 DEF DoAsync
<1>4. ASSUME NEW f \in Flights, FlightStep(f) PROVE TypeOK'
  <2>1. ASSUME NEW r \in Results, FnReturn(f, r) PROVE TypeOK'
    BY <2>1 DEF FnReturn
  <2>2. CASE Forget(f)
    BY <2>2 DEF Forget
  <2>3. CASE Deliver(f)
    BY <2>3 DEF Deliver
  <2> QED BY <1>4, <2>1, <2>2, <2>3 DEF FlightStep
<1>5. CASE UNCHANGED vars
  BY <1>5 DEF vars
<1> QED BY <1>2, <1>3, <1>4, <1>5 DEF Next

(* The inductive step.                                                     *)
LEMMA GroupInvInductive == GroupInv /\ [Next]_vars => GroupInv'
<1> SUFFICES ASSUME GroupInv, [Next]_vars PROVE GroupInv'
  OBVIOUS
<1>t. TypeOK'
  BY NextTyped DEF GroupInv
<1>1. ASSUME NEW c \in Callers, CallerStep(c)
      PROVE  Registered' /\ MapIsCurrent' /\ WaitersAttached'
  <2>1. ASSUME NEW k \in Keys, NEW f \in Flights, Do(c, k, f)
        PROVE  Registered' /\ MapIsCurrent' /\ WaitersAttached'
    <3>1. /\ Registered' /\ MapIsCurrent' /\ InFlight(f)'
          /\ \A g \in Flights : state[g] # "free" => state'[g] = state[g]
      BY <2>1, StartKeepsMap DEF Do
    <3>2. WaitersAttached'
      BY <2>1, <3>1 DEF Do, GroupInv, TypeOK, WaitersAttached, InFlight
    <3> QED BY <3>1, <3>2
  <2>2. CASE Receive(c)
    <3>1. WaitersAttached'
      BY <2>2 DEF Receive, GroupInv, WaitersAttached
    <3> QED BY <2>2, <3>1, CallersOnly DEF Receive
  <2>3. CASE Leave(c)
    <3>1. WaitersAttached'
      BY <2>3 DEF Leave, GroupInv, TypeOK, WaitersAttached
    <3> QED BY <2>3, <3>1, CallersOnly DEF Leave
  <2> QED BY <1>1, <2>1, <2>2, <2>3 DEF CallerStep
<1>2. ASSUME NEW k \in Keys, NEW f \in Flights, DoAsync(k, f)
      PROVE  Registered' /\ MapIsCurrent' /\ WaitersAttached'
  <2>1. /\ Registered' /\ MapIsCurrent'
        /\ \A g \in Flights : state[g] # "free" => state'[g] = state[g]
    BY <1>2, StartKeepsMap DEF DoAsync
  <2>2. WaitersAttached'
    BY <1>2, <2>1 DEF DoAsync, GroupInv, TypeOK, WaitersAttached
  <2> QED BY <2>1, <2>2
<1>3. ASSUME NEW f \in Flights, FlightStep(f)
      PROVE  Registered' /\ MapIsCurrent' /\ WaitersAttached'
  <2>1. ASSUME NEW r \in Results, FnReturn(f, r)
        PROVE  Registered' /\ MapIsCurrent' /\ WaitersAttached'
    BY <2>1 DEF FnReturn, GroupInv, TypeOK, Registered, MapIsCurrent,
                WaitersAttached, InFlight
  <2>2. CASE Forget(f)
    <3>1. calls[key[f]] = f /\ key[f] \in Keys /\ calls'[key[f]] = None
      BY <2>2 DEF Forget, GroupInv, TypeOK, Registered, InFlight
    <3>2. \A g \in Flights \ {f} : InFlight(g) => key[g] # key[f]
      BY <3>1 DEF GroupInv, Registered
    <3>3. Registered'
      BY <2>2, <3>2 DEF Forget, GroupInv, TypeOK, Registered, InFlight
    <3>4. \A j \in Keys \ {key[f]} : calls[j] # f
      BY GroupAssumption DEF GroupInv, TypeOK, MapIsCurrent
    <3>5. MapIsCurrent'
      BY <2>2, <3>1, <3>4 DEF Forget, GroupInv, TypeOK, MapIsCurrent, InFlight
    <3>6. WaitersAttached'
      BY <2>2 DEF Forget, GroupInv, TypeOK, WaitersAttached
    <3> QED BY <3>3, <3>5, <3>6
  <2>3. CASE Deliver(f)
    <3>1. \A j \in Keys : calls[j] # f
      BY <2>3, GroupAssumption DEF Deliver, GroupInv, TypeOK, MapIsCurrent, InFlight
    <3>2. calls' = calls
      BY <2>3, <3>1 DEF Deliver, GroupInv, TypeOK
    <3>3. Registered'
      BY <2>3, <3>2 DEF Deliver, GroupInv, TypeOK, Registered, InFlight
    <3>4. MapIsCurrent'
      BY <2>3, <3>1, <3>2 DEF Deliver, GroupInv, TypeOK, MapIsCurrent, InFlight
    <3>5. WaitersAttached'
      BY <2>3 DEF Deliver, GroupInv, TypeOK, WaitersAttached
    <3> QED BY <3>3, <3>4, <3>5
  <2> QED BY <1>3, <2>1, <2>2, <2>3 DEF FlightStep
<1>4. ASSUME UNCHANGED vars
      PROVE  Registered' /\ MapIsCurrent' /\ WaitersAttached'
  BY <1>4, CallersOnly DEF vars, GroupInv, WaitersAttached
<1> QED BY <1>t, <1>1, <1>2, <1>3, <1>4 DEF Next, GroupInv

(* The invariant holds when no call has been made yet.                     *)
LEMMA GroupInvInitially == Init => GroupInv
BY DEF Init, GroupInv, TypeOK, Registered, MapIsCurrent, WaitersAttached, InFlight

(* Every reachable state of group satisfies the invariant.                 *)
THEOREM GroupInvariant == Spec => []GroupInv
BY GroupInvInitially, GroupInvInductive, PTL DEF Spec

(* The state of the group keeps its types.                                 *)
THEOREM TypeCorrect == Spec => []TypeOK
<1>1. GroupInv => TypeOK
  BY DEF GroupInv
<1> QED BY <1>1, GroupInvariant, PTL

(* However many goroutines miss on a key, and whatever mixture of do and   *)
(* doAsync they use, one execution of fn per key is in progress at most.   *)
THEOREM SingleFlight == Spec => []OneFlightPerKey
<1>1. GroupInv => OneFlightPerKey
  BY DEF GroupInv, Registered, OneFlightPerKey
<1> QED BY <1>1, GroupInvariant, PTL

(* No interleaving of Forget, the next flight of the key and the delivery  *)
(* leaves a waiter with a channel that nobody will fill.                   *)
THEOREM NoLostWaiter == Spec => []WaitersAttached
<1>1. GroupInv => WaitersAttached
  BY DEF GroupInv
<1> QED BY <1>1, GroupInvariant, PTL

(* A call that starts after the flight was forgotten never gets its        *)
(* result.                                                                 *)
THEOREM ForgottenIsClosed == Spec => NoJoinAfterForget
<1> DEFINE Fresh == \A c \in Callers :
             waits'[c] # None /\ waits'[c] # waits[c] => state[waits'[c]] # "forgotten"
<1>1. GroupInv /\ [Next]_vars => [Fresh]_vars
  <2> SUFFICES ASSUME GroupInv, Next PROVE Fresh
    OBVIOUS
  <2>1. ASSUME NEW c \in Callers, NEW k \in Keys, NEW f \in Flights, Do(c, k, f)
        PROVE  Fresh
    <3>1. state[f] # "forgotten"
      BY <2>1, GroupAssumption
         DEF Do, Start, Join, Begin, GroupInv, MapIsCurrent, InFlight
    <3> QED BY <2>1, <3>1 DEF Do, GroupInv, TypeOK
  <2>2. ASSUME NEW c \in Callers, Receive(c) \/ Leave(c) PROVE Fresh
    BY <2>2 DEF Receive, Leave, GroupInv, TypeOK
  <2>3. ASSUME NEW k \in Keys, NEW f \in Flights, DoAsync(k, f) PROVE Fresh
    BY <2>3 DEF DoAsync
  <2>4. ASSUME NEW f \in Flights, FlightStep(f) PROVE Fresh
    BY <2>4 DEF FlightStep, FnReturn, Forget, Deliver, GroupInv, TypeOK
  <2> QED BY <2>1, <2>2, <2>3, <2>4 DEF Next, CallerStep
<1> QED BY <1>1, GroupInvariant, PTL DEF Spec, NoJoinAfterForget
=============================================================================
