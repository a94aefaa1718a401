----------------------------- MODULE LoadGroup -----------------------------
(***************************************************************************)
(* The single-flight group of group.go, over golang.org/x/sync's           *)
(* singleflight.Group: concurrent callers of one key share one execution   *)
(* of fn.                                                                  *)
(*                                                                         *)
(* A flight is one singleflight *call object together with the goroutine   *)
(* that runs it.  What fn does is left open here (FnReturn may come at any *)
(* time with any result); GetOrSet.tla fills it in with loadAndStore.      *)
(*                                                                         *)
(* The order in group.start is kept: fn runs, a panic in it is turned into *)
(* an error (an ordinary result as far as the group is concerned), Forget  *)
(* runs, and only afterwards does singleflight's doCall send the result to *)
(* the channels.  Between the last two a new flight of the same key can    *)
(* already start.                                                          *)
(***************************************************************************)
EXTENDS Naturals

CONSTANTS
  Keys,      \* flight keys: flightKey(c, key), a cache object with a key
  Callers,   \* goroutines that may be inside group.do, one call at a time
  Flights,   \* identities of *call objects, reused once nobody refers to one
  Results,   \* what fn may return, ([]byte, error)
  NoResult,  \* an empty result channel
  None       \* no *call

ASSUME GroupAssumption == NoResult \notin Results /\ None \notin Flights

VARIABLES
  calls,     \* calls[k]: the entry of k in the group's map m, or None
  state,     \* state[f]: how far the goroutine of f is
  key,       \* key[f]: the key f was started for
  res,       \* res[f]: what fn of f returned
  waits,     \* waits[c]: the flight whose chans hold c's channel, or None
  chan       \* chan[c]: the content of c's buffered result channel

vars == <<calls, state, key, res, waits, chan>>

TypeOK ==
  /\ calls \in [Keys -> Flights \cup {None}]
  /\ state \in [Flights -> {"free", "running", "returned", "forgotten"}]
  /\ key   \in [Flights -> Keys]
  /\ res   \in [Flights -> Results \cup {NoResult}]
  /\ waits \in [Callers -> Flights \cup {None}]
  /\ chan  \in [Callers -> Results \cup {NoResult}]

Init ==
  /\ calls = [k \in Keys |-> None]
  /\ state = [f \in Flights |-> "free"]
  /\ key   \in [Flights -> Keys]
  /\ \A f, g \in Flights : key[f] = key[g]
  /\ res   = [f \in Flights |-> NoResult]
  /\ waits = [c \in Callers |-> None]
  /\ chan  = [c \in Callers |-> NoResult]

(* A caller is inside group.do from the moment its channel is registered   *)
(* until it has taken one branch of the select.                            *)
InDo(c) == waits[c] # None \/ chan[c] # NoResult

-----------------------------------------------------------------------------
(* DoChan, first half: a registered call of the key absorbs the new one.   *)
Join(k, f) ==
  /\ calls[k] = f /\ f # None
  /\ UNCHANGED <<calls, state, key, res>>

(* DoChan, second half: no call is registered, so a new one is registered  *)
(* and its goroutine started.                                              *)
Begin(k, f) ==
  /\ calls[k] = None
  /\ state[f] = "free"
  /\ calls' = [calls EXCEPT ![k] = f]
  /\ state' = [state EXCEPT ![f] = "running"]
  /\ key'   = [key EXCEPT ![f] = k]
  /\ UNCHANGED res

Start(k, f) == Join(k, f) \/ Begin(k, f)

(* group.do up to the select.  The channel operands of a select are        *)
(* evaluated before it blocks, so the flight is started or joined even if  *)
(* the caller's context is already done.                                   *)
Do(c, k, f) ==
  /\ ~InDo(c)
  /\ Start(k, f)
  /\ waits' = [waits EXCEPT ![c] = f]
  /\ UNCHANGED chan

(* group.doAsync: the same start, the channel is dropped.                  *)
DoAsync(k, f) == Start(k, f) /\ UNCHANGED <<waits, chan>>

(* Mutant: a panic is recovered without being turned into an error, so the *)
(* flight may end with neither data nor error.                             *)
FnReturnSwallowsPanic(f, r) ==
  /\ state[f] = "running"
  /\ state' = [state EXCEPT ![f] = "returned"]
  /\ \E x \in {r, None} : res' = [res EXCEPT ![f] = x]
  /\ UNCHANGED <<calls, key, waits, chan>>

(* fn returns, or panics and is recovered into an error.                   *)
FnReturn(f, r) ==
  /\ state[f] = "running"
  /\ state' = [state EXCEPT ![f] = "returned"]
  /\ res'   = [res EXCEPT ![f] = r]
  /\ UNCHANGED <<calls, key, waits, chan>>

(* Mutant: start() without the deferred Forget.                            *)
ForgetDropped(f) ==
  /\ state[f] = "returned"
  /\ state' = [state EXCEPT ![f] = "forgotten"]
  /\ UNCHANGED <<calls, key, res, waits, chan>>

(* The deferred g.sf.Forget(key): deletes whatever the map holds at key.   *)
Forget(f) ==
  /\ state[f] = "returned"
  /\ state' = [state EXCEPT ![f] = "forgotten"]
  /\ calls' = [calls EXCEPT ![key[f]] = None]
  /\ UNCHANGED <<key, res, waits, chan>>

(* Mutant: doCall deletes the key without looking whose call it holds.     *)
DeliverDeletesAny(f) ==
  /\ state[f] = "forgotten"
  /\ calls' = [calls EXCEPT ![key[f]] = None]
  /\ state' = [state EXCEPT ![f] = "free"]
  /\ res'   = [res EXCEPT ![f] = NoResult]
  /\ waits' = [c \in Callers |-> IF waits[c] = f THEN None ELSE waits[c]]
  /\ chan'  = [c \in Callers |-> IF waits[c] = f THEN res[f] ELSE chan[c]]
  /\ UNCHANGED key

(* Mutant: a call that was forgotten no longer answers its channels.       *)
DeliverOnlyRegistered(f) ==
  /\ state[f] = "forgotten"
  /\ state' = [state EXCEPT ![f] = "free"]
  /\ res'   = [res EXCEPT ![f] = NoResult]
  /\ waits' = [c \in Callers |-> IF waits[c] = f /\ calls[key[f]] = f
                                 THEN None ELSE waits[c]]
  /\ UNCHANGED <<calls, key, chan>>

(* The deferred half of doCall: unregister the call if it is still the one *)
(* in the map, and send the result to every channel.                       *)
Deliver(f) ==
  /\ state[f] = "forgotten"
  /\ calls' = [calls EXCEPT ![key[f]] = IF @ = f THEN None ELSE @]
  /\ state' = [state EXCEPT ![f] = "free"]
  /\ res'   = [res EXCEPT ![f] = NoResult]
  /\ waits' = [c \in Callers |-> IF waits[c] = f THEN None ELSE waits[c]]
  /\ chan'  = [c \in Callers |-> IF waits[c] = f THEN res[f] ELSE chan[c]]
  /\ UNCHANGED key

(* The select takes the result.                                            *)
Receive(c) ==
  /\ chan[c] # NoResult
  /\ chan' = [chan EXCEPT ![c] = NoResult]
  /\ UNCHANGED <<calls, state, key, res, waits>>

(* The select takes ctx.Done().  With both ready Go picks either, so a     *)
(* result that has already arrived does not prevent this.  The abandoned   *)
(* channel is buffered: nobody blocks on it.                               *)
Leave(c) ==
  /\ InDo(c)
  /\ waits' = [waits EXCEPT ![c] = None]
  /\ chan'  = [chan EXCEPT ![c] = NoResult]
  /\ UNCHANGED <<calls, state, key, res>>

FlightStep(f) ==
  \/ \E r \in Results : FnReturn(f, r)
  \/ Forget(f)
  \/ Deliver(f)

CallerStep(c) ==
  \/ \E k \in Keys, f \in Flights : Do(c, k, f)
  \/ Receive(c)
  \/ Leave(c)

Next ==
  \/ \E c \in Callers : CallerStep(c)
  \/ \E k \in Keys, f \in Flights : DoAsync(k, f)
  \/ \E f \in Flights : FlightStep(f)

Spec == Init /\ [][Next]_vars

(* Goroutines are scheduled by the Go runtime and fn is assumed to return; *)
(* no caller is obliged to call, or to have its context cancelled.         *)
Fairness ==
  /\ \A f \in Flights :
       /\ WF_vars(\E r \in Results : FnReturn(f, r))
       /\ WF_vars(Forget(f))
       /\ WF_vars(Deliver(f))
  /\ \A c \in Callers : WF_vars(Receive(c))

FairSpec == Spec /\ Fairness

-----------------------------------------------------------------------------
(* fn of f is executing, or has returned and not been forgotten yet.       *)
InFlight(f) == state[f] \in {"running", "returned"}

(* "only one executes the loader and the rest share its result" (group.go, *)
(* loadGroup): two different flights of one key are never in progress      *)
(* together, although a forgotten one may still be delivering while its    *)
(* successor runs.                                                         *)
OneFlightPerKey ==
  \A f, g \in Flights : InFlight(f) /\ InFlight(g) /\ key[f] = key[g] => f = g

(* No waiter of group.do is lost: the flight that holds its channel still  *)
(* has its delivery ahead of it.                                           *)
WaitersAttached ==
  \A c \in Callers : waits[c] # None => state[waits[c]] # "free"

(* "The result is forgotten once the call completes so later misses        *)
(* trigger a fresh load" (group.do): no caller attaches itself to a flight *)
(* that has already been forgotten.                                        *)
NoJoinAfterForget ==
  [][\A c \in Callers :
       waits'[c] # None /\ waits'[c] # waits[c] => state[waits'[c]] # "forgotten"]_vars

(* Every group.do comes back: with the result, or because its context was  *)
(* done.                                                                   *)
EveryDoReturns == \A c \in Callers : InDo(c) ~> ~InDo(c)
=============================================================================
