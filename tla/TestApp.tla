------------------------------ MODULE TestApp ------------------------------
(***************************************************************************)
(* The test application of deploy/k3d/testapp/main.go: it waits for the    *)
(* cluster, runs its demo once, and then serves /demo requests, each on a  *)
(* goroutine of its own.  A demo reads every key twice through GetOrSet,   *)
(* first with a loader that returns the value, then with one that fails.   *)
(*                                                                         *)
(* All goroutines share one RedisCache, and so the flights of the keys.    *)
(* GetOrSet is the one of cache.go in this configuration (no stale window, *)
(* no negative entries, no deadlines), over the group of LoadGroup.tla;    *)
(* the value of a key is always the same, so the cluster either has it or  *)
(* does not.                                                               *)
(***************************************************************************)
EXTENDS Naturals, Sequences

CONSTANTS
  demoKeys,   \* a sequence of different keys
  Unstable,   \* those whose shard fails at times, or drops its entries
  Main,       \* the main goroutine, which runs the demo at startup
  Handlers,   \* goroutines of /demo requests
  Flights, NoResult, None   \* see LoadGroup

Keys == {demoKeys[i] : i \in DOMAIN demoKeys}
Workers == Handlers \cup {Main}

ASSUME AppAssumption ==
  /\ demoKeys \in Seq(Keys) /\ Len(demoKeys) > 0 /\ Unstable \subseteq Keys
  /\ Main \notin Handlers /\ None \notin Flights \cup Keys
  /\ NoResult \notin {"value", "error"}

VARIABLES
  up,       \* up[k]: whether the shard of k answers
  store,    \* store[k]: whether it has the value of k
  phase,    \* how far main is
  work,     \* work[w]: the demo of w
  flight,   \* flight[f]: the closure of loadAndStore that f executes
  calls, state, key, res, waits, chan,   \* the group's own, see LoadGroup
  loaded    \* loaded[k]: whether k has been loaded since it was last lost

groupVars == <<calls, state, key, res, waits, chan>>
vars == <<up, store, phase, work, flight, groupVars, loaded>>

G == INSTANCE LoadGroup WITH Callers <- Workers, Results <- {"value", "error"}

(* pass and i: the loop over demoKeys; gone: the context of the request is *)
(* done; failed: the key of the last GetOrSet, if that failed; lost: the   *)
(* keys that were lost when the demo began, or have been lost since.       *)
NoDemo == [pc |-> "idle", pass |-> 1, i |-> 1, gone |-> FALSE, failed |-> None, lost |-> {}]

(* pass: the loader the closure was built with.                            *)
NoClosure == [pc |-> "none", pass |-> 1]

TypeOK ==
  /\ up \in [Keys -> BOOLEAN]
  /\ store \in [Keys -> BOOLEAN]
  /\ phase \in {"ping", "sleep", "demo", "serving"}
  /\ work \in [Workers ->
       [pc : {"idle", "get", "do", "wait"}, pass : 1..2, i : DOMAIN demoKeys,
        gone : BOOLEAN, failed : Keys \cup {None}, lost : SUBSET Keys]]
  /\ flight \in [Flights -> [pc : {"none", "recheck", "load", "set"}, pass : 1..2]]
  /\ loaded \in [Keys -> BOOLEAN]
  /\ G!TypeOK

Init ==
  /\ up = [k \in Keys |-> FALSE]
  /\ store = [k \in Keys |-> FALSE]
  /\ phase = "ping"
  /\ work = [w \in Workers |-> NoDemo]
  /\ flight = [f \in Flights |-> NoClosure]
  /\ loaded = [k \in Keys |-> FALSE]
  /\ G!Init

-----------------------------------------------------------------------------
(* main.                                                                   *)
runDemo(lost) == [NoDemo EXCEPT !.pc = "get", !.lost = lost]

(* waitReady: a Ping goes to any shard; if it fails, main sleeps and tries *)
(* again, and otherwise runs the demo.                                     *)
waitReady ==
  /\ phase = "ping"
  /\ \E k \in Keys :
       IF up[k] THEN phase' = "demo" /\ work' = [work EXCEPT ![Main] = runDemo({})]
       ELSE phase' = "sleep" /\ UNCHANGED work
  /\ UNCHANGED <<up, store, flight, groupVars, loaded>>

Wake ==
  /\ phase = "sleep"
  /\ phase' = "ping"
  /\ UNCHANGED <<up, store, work, flight, groupVars, loaded>>

Request(h) ==
  /\ phase = "serving" /\ work[h].pc = "idle"
  /\ work' = [work EXCEPT ![h] = runDemo({k \in Keys : ~loaded[k]})]
  /\ UNCHANGED <<up, store, phase, flight, groupVars, loaded>>

(* The client of a request goes away.                                      *)
Cancel(h) ==
  /\ work[h].pc # "idle" /\ ~work[h].gone
  /\ work' = [work EXCEPT ![h].gone = TRUE]
  /\ UNCHANGED <<up, store, phase, flight, groupVars, loaded>>

-----------------------------------------------------------------------------
(* One GetOrSet of a demo.                                                 *)
Key(w) == demoKeys[work[w].i]

(* Mutant: the loop over the keys runs one turn too long.                  *)
ContinuePastEnd(w, ok) ==
  LET d == [work[w] EXCEPT !.pc = "get", !.failed = IF ok THEN None ELSE Key(w)]
      more == d.i <= Len(demoKeys)
      over == ~more /\ d.pass = 2
  IN /\ work' = [work EXCEPT ![w] =
          IF more THEN [d EXCEPT !.i = @ + 1]
          ELSE IF over THEN [d EXCEPT !.pc = "idle", !.i = 1, !.pass = 1]
          ELSE [d EXCEPT !.pass = 2, !.i = 1]]
     /\ phase' = IF over /\ w = Main THEN "serving" ELSE phase

(* GetOrSet has returned, and the loops go on: the other keys of the pass, *)
(* the second pass, the end.  After its demo, main starts the server.      *)
Continue(w, ok) ==
  LET d == [work[w] EXCEPT !.pc = "get", !.failed = IF ok THEN None ELSE Key(w)]
      more == d.i < Len(demoKeys)
      over == ~more /\ d.pass = 2
  IN /\ work' = [work EXCEPT ![w] =
          IF more THEN [d EXCEPT !.i = @ + 1]
          ELSE IF over THEN [d EXCEPT !.pc = "idle", !.i = 1, !.pass = 1]
          ELSE [d EXCEPT !.pass = 2, !.i = 1]]
     /\ phase' = IF over /\ w = Main THEN "serving" ELSE phase

(* The first Get.  It fails without the shard or with a context that is    *)
(* done, and a failure is a miss.                                          *)
Lookup(w) ==
  /\ work[w].pc = "get"
  /\ IF up[Key(w)] /\ ~work[w].gone /\ store[Key(w)] THEN Continue(w, TRUE)
     ELSE work' = [work EXCEPT ![w].pc = "do"] /\ UNCHANGED phase
  /\ UNCHANGED <<up, store, flight, groupVars, loaded>>

(* Mutant: the flights of all keys are one.                                *)
DoWithoutKey(w, f) ==
  /\ work[w].pc = "do"
  /\ G!Do(w, demoKeys[Len(demoKeys)], f)
  /\ flight' = IF state[f] # "free" THEN flight
               ELSE [flight EXCEPT ![f] = [pc |-> "recheck", pass |-> work[w].pass]]
  /\ work' = [work EXCEPT ![w].pc = "wait"]
  /\ UNCHANGED <<up, store, phase, loaded>>

(* A flight is joined or started, with this caller's loader, even if the   *)
(* context is done.                                                        *)
Do(w, f) ==
  /\ work[w].pc = "do"
  /\ G!Do(w, Key(w), f)
  /\ flight' = IF state[f] # "free" THEN flight
               ELSE [flight EXCEPT ![f] = [pc |-> "recheck", pass |-> work[w].pass]]
  /\ work' = [work EXCEPT ![w].pc = "wait"]
  /\ UNCHANGED <<up, store, phase, loaded>>

Receive(w) ==
  /\ work[w].pc = "wait"
  /\ Continue(w, chan[w] = "value")
  /\ G!Receive(w)
  /\ UNCHANGED <<up, store, flight, loaded>>

Leave(w) ==
  /\ work[w].pc = "wait" /\ work[w].gone
  /\ Continue(w, FALSE)
  /\ G!Leave(w)
  /\ UNCHANGED <<up, store, flight, loaded>>

-----------------------------------------------------------------------------
(* The flight: loadAndStore, detached from the contexts of the callers.    *)
Return(f, r) ==
  /\ flight' = [flight EXCEPT ![f] = NoClosure]
  /\ G!FnReturn(f, r)

(* The cluster does not have k, or does not say so.                        *)
Lost(k) ==
  /\ loaded' = [loaded EXCEPT ![k] = FALSE]
  /\ work' = [w \in Workers |-> IF work[w].pc = "idle" THEN work[w]
                                ELSE [work[w] EXCEPT !.lost = @ \cup {k}]]

(* Mutant: loadAndStore goes straight to the loader.                       *)
RecheckSkipped(f) ==
  /\ flight[f].pc = "recheck"
  /\ flight' = [flight EXCEPT ![f].pc = "load"]
  /\ UNCHANGED <<up, store, phase, work, groupVars, loaded>>

(* The second Get.                                                         *)
Recheck(f) ==
  /\ flight[f].pc = "recheck"
  /\ IF up[key[f]] /\ store[key[f]] THEN Return(f, "value")
     ELSE flight' = [flight EXCEPT ![f].pc = "load"] /\ UNCHANGED groupVars
  /\ IF up[key[f]] THEN UNCHANGED <<work, loaded>> ELSE Lost(key[f])
  /\ UNCHANGED <<up, store, phase>>

(* The loader of the first pass.                                           *)
Load(f) ==
  /\ flight[f].pc = "load" /\ flight[f].pass = 1
  /\ flight' = [flight EXCEPT ![f].pc = "set"]
  /\ loaded' = [loaded EXCEPT ![key[f]] = TRUE]
  /\ UNCHANGED <<up, store, phase, work, groupVars>>

(* "loader must not run on a hit"                                          *)
LoaderFails(f) ==
  /\ flight[f].pc = "load" /\ flight[f].pass = 2
  /\ Return(f, "error")
  /\ UNCHANGED <<up, store, phase, work, loaded>>

(* The best-effort Set.  A failed one may still have reached the cluster.  *)
Set(f) ==
  /\ flight[f].pc = "set"
  /\ Return(f, "value")
  /\ \E b \in IF up[key[f]] THEN {TRUE} ELSE {store[key[f]], TRUE} :
       store' = [store EXCEPT ![key[f]] = b]
  /\ IF up[key[f]] THEN UNCHANGED <<work, loaded>> ELSE Lost(key[f])
  /\ UNCHANGED <<up, phase>>

Forget(f) == G!Forget(f) /\ UNCHANGED <<up, store, phase, work, flight, loaded>>

Deliver(f) == G!Deliver(f) /\ UNCHANGED <<up, store, phase, work, flight, loaded>>

-----------------------------------------------------------------------------
(* The cluster: it is formed, a shard fails and recovers, the minute of an *)
(* entry passes.                                                           *)
Form ==
  /\ \A k \in Keys : ~up[k]
  /\ up' = [k \in Keys |-> TRUE]
  /\ UNCHANGED <<store, phase, work, flight, groupVars, loaded>>

ShardChanges(k) ==
  /\ \E j \in Keys : up[j]
  /\ up' = [up EXCEPT ![k] = ~@]
  /\ UNCHANGED <<store, phase, work, flight, groupVars, loaded>>

Expire(k) ==
  /\ store[k]
  /\ store' = [store EXCEPT ![k] = FALSE]
  /\ Lost(k)
  /\ UNCHANGED <<up, phase, flight, groupVars>>

-----------------------------------------------------------------------------
WorkerStep(w) == Lookup(w) \/ (\E f \in Flights : Do(w, f)) \/ Receive(w) \/ Leave(w)

FlightStep(f) ==
  Recheck(f) \/ Load(f) \/ LoaderFails(f) \/ Set(f) \/ Forget(f) \/ Deliver(f)

Next ==
  \/ waitReady \/ Wake
  \/ \E h \in Handlers : Request(h) \/ Cancel(h)
  \/ \E w \in Workers : WorkerStep(w)
  \/ \E f \in Flights : FlightStep(f)
  \/ Form
  \/ \E k \in Unstable : ShardChanges(k) \/ Expire(k)

Spec == Init /\ [][Next]_vars

-----------------------------------------------------------------------------
(* "A second pass must be all hits: its loader errors if ever called"      *)
(* (runDemo): neither loader runs for a key that was loaded and has not    *)
(* been lost since, however demos overlap, and also for a request that     *)
(* went away and whose own lookups all fail.                               *)
LoadsOnlyWhatWasLost ==
  \A f \in Flights : flight[f].pc = "load" => ~loaded[key[f]]

(* "one canceled request cannot fail every waiter" (GetOrSet), though the  *)
(* requests share flights and half of their loaders fail: a GetOrSet of a  *)
(* demo fails only if its own client went away, or if its key was lost to  *)
(* the cluster at some time of the demo.                                   *)
FailuresExplained ==
  \A w \in Workers :
    work[w].failed # None => work[w].gone \/ work[w].failed \in work[w].lost
=============================================================================
