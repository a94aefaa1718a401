# Verification of cache-kit

cache-kit is a Go library for cache-aside: `GetOrSet` reads a value through a
cache and, on a miss, loads it once for all concurrent callers; `GetOrSetMany`
does the same for a batch of keys. This directory holds TLA+ modules that model
the library, TLC configurations that check them on small instances, and proofs
that TLAPS checks for every value of the constants.

All file and line references are to the Go files at the root of the repository.

## 1. Inventory

| Component | State | Operations | Modelled in |
|---|---|---|---|
| Single-flight group (`group.go`) | singleflight's map of registered calls, one goroutine per call, one buffered channel per waiter | `do`, `doAsync`, `start` | `LoadGroup` |
| GetOrSet (`cache.go`) | none of its own: local variables of callers and of `loadAndStore` closures | `GetOrSet`, `GetOrSetWithCodec`, `loadAndStore`, `refreshAsync`, `packForStore` | `GetOrSet`, `Entries` |
| Envelope and markers (`envelope.go`, `negative.go`) | header of stored bytes: `freshUntil`, `delta` | `wrapEnvelope`, `parseStored`, `stale`, `shouldEarlyRefresh`, `isNegativeEntry` | `Entries` |
| Configuration (`options.go`, `hooks.go`) | defaults, TTLs, jitter, beta, hooks | `buildOptions`, `applyJitter`, `configOf` | `Entries` |
| GetOrSetMany (`batch.go`) | local variables of the call | `GetOrSetMany`, `GetOrSetManyWithCodec` | `GetOrSetMany` |
| MemoryCache (`memory.go`) | map, mutex | `Get`, `Set`, `Delete`, `GetMany`, `SetMany`, `Len` | `MemoryCache`, contract in `TtlStore` |
| RedisCache (`redis.go`) | client; server state | `Get`, `Set`, `Delete`, `GetMany`, `SetMany`, `Ping`, `Close` | `RemoteCache`, contract in `TtlStore` |
| ValkeyCache (`valkey.go`) | client with optional client-side cache; server state | the same | `RemoteCache`, contract in `TtlStore` |
| Test application (`deploy/k3d/testapp/main.go`) | local variables of `runDemo` | `waitReady`, `runDemo` at startup and per request | `TestApp` |
| Codecs (`codec.go`) | none | `Marshal`, `Unmarshal` | abstracted to "decodes or not" |
| Deployment, CI (`deploy/`, `.github/`) | | | not modelled |

How the parts interact. A caller of `GetOrSet` calls the backend (`Get`, and
`Delete` when it self-heals), then the process-wide `loadGroup` under
`flightKey(c, key)`. The group runs `loadAndStore` on a goroutine of its own,
which calls the backend again (the re-check), the application's loader and the
backend's `Set`. A stale or nearly stale hit starts or joins the same flight
through `refreshAsync` and returns without waiting. Several processes, or several
cache objects of one process, share a backend and have flights of their own.
`GetOrSetMany` calls backend and loader directly, without the group. Backends
call the application's hooks; hooks may call the backend. The remote backends hand
commands to a client library, which sends them over a network, repeats them, and
may answer reads from a cache of its own.

What is hard here. Goroutines interleave at every backend call, at the group and
at every reading of the clock; an entry is read at one instant, judged at a second
and acted on at a third. The group forgets a flight before its result is
delivered, so two flights of a key overlap. Contexts carry deadlines that a flight
inherits from whoever started it. Every backend call, the loader and the codec can
fail. Two lifetimes (the envelope's `freshUntil` and the backend's hard expiry)
have to agree although both are jittered and both are truncated to milliseconds.
Behind a network, a command that failed may have been executed, may be executed
again, and may be executed after its sender has gone on.
`PROJECT.json` lists these hazards at their lines with the properties that cover
each.

What makes the components correct:

* group: one execution per key; no waiter lost; nobody joins a finished flight;
  every `do` returns.
* GetOrSet: it uses the group and only the group to load; it does not load what
  the backend already has; a caller's answers and the backend's entry do not go
  back in time; what a flight returns decodes; cancellation of one caller is its
  own affair, and so is its deadline; hung refreshes end; failures of refreshes
  are visible; the stale window survives, to the millisecond.
* GetOrSetMany: an absent key is justified by the source of truth; the age of a
  value is bounded; the stale window survives.
* backend: each operation takes effect key by key at one instant of its call; an
  item is never served from its deadline on; hooks may re-enter, and every operation
  returns.
* remote backend: the same of operations that succeed; what a failed one leaves
  behind is one of its own writes; every key is counted and every failure reported;
  everything expires; no operation outlasts its timeout.
* test application: the second pass of its demo does not load, and requests do not
  fail one another.

## 2. Modules

```
Entries ------------+--------------+---------------+
 (pure operators)   |              |               |
                 GetOrSet     GetOrSetMany     TtlStore   (contract)
                    |                              ^
              G == INSTANCE            Contract == INSTANCE (twice)
                    v                        /          \
   TestApp ---> LoadGroup             MemoryCache    RemoteCache
 G == INSTANCE
```

`RefreshTriggers` extends `GetOrSet` with a history variable.

The modules `MC*` give constants values that a `.cfg` cannot write down, and the symmetry sets.

The modules `*Proofs` hold theorems and their proofs; each extends the module it is
about. `GetOrSet` has three that build on one another: `GetOrSetProofs`,
`AnswerProofs` (which extends `RefreshTriggers` too), `OrderProofs`. `GetOrSetProofs`
and `TestAppProofs` use what
`LoadGroupProofs` shows of the group through an instance `P`.

### Entries

The bytes stored at a key are an *entry*: a record with the kind of bytes (none,
negative marker, enveloped payload, bare payload), whether the payload decodes, the
instant the loader returned it and the envelope's `freshUntil`. `at` is history,
not a stored field: it says which load an answer comes from. The byte layout and
`delta` are gone, the decisions taken from them are operators under the code's
names: `parseStored`, `stale`, `shouldEarlyRefresh`, `packForStore`, `ttlFor`
(redis.go; the same rule is inside `MemoryCache.newItem`), `applyJitter`. A random
draw is the set of its outcomes, so TLC tries them all. Time is in ticks; `Milli`
ticks are a millisecond. Go's zero time is instant 0, which is why clocks start at
`Milli`.

What a write leaves behind depends on the backend. `newItem` is `MemoryCache`'s item,
exact to the tick. `toPX` and `setCmd` are the remote backends': the lifetime goes to
the server as whole milliseconds, rounded down but not below one. `writtenItem` is the
set of the items any of the three may leave, and is what the modules above the
backends use. The envelope's `freshUntil` is truncated on its own.

`parseStored` and `Decodes` keep the asymmetry of the code: an envelope is only
looked for while the feature is on, so an enveloped entry met with the feature off
is a payload that does not decode.

### LoadGroup

`group.go` over the external `singleflight.Group`. A flight is one `*call` with its
goroutine, and goes `free -> running -> returned -> forgotten -> free`: `FnReturn`,
then the deferred `Forget`, then `Deliver`, singleflight's `doCall` sending to the
channels. `Start` is `DoChan`: it either joins the registered flight or begins a
new one, and a caller in `do` additionally waits. `Receive` and `Leave` are the two
branches of the select; both are possible when both are ready, as in Go. A panic of
`fn` is a result like any other here, because `start` recovers it.

Flight identities are reused: a flight that has delivered is `free` again and its
result cleared. What `fn` does is left open.

### GetOrSet

One key, any number of callers and cache objects. `call[c]` is the local state of
`GetOrSetWithCodec`, `flight[f]` that of the `loadAndStore` closure; the six
variables of the group are the group's own, and a step of the code that uses the
group is conjoined with a step of `G`, the instance of `LoadGroup` whose keys are
the cache objects. One action is the stretch between two points where other
goroutines matter: `Lookup` (Get, negative check, decode), `Serve` (the clock and
the refresh decision), `Heal`, `Do`, `Receive`, `Abandon` for a caller; `Enter`
(deriving `fctx`), `Recheck`, `Judge`, `HealFlight`, `Load`, the outcomes of the
loader, `StoreAndReturn`, `Forget`, `Deliver` for a flight. The backend is the
contract of `TtlStore` for one key: every operation atomic, a failing `Get` a miss,
a failing `Set` or `Delete` without effect. Each may fail once the context it runs under
is done: expired, or, for a caller in a run with cancellation, cancelled at any moment
(`Done`). A `Set` leaves what any of the backends may leave (`writtenItem`). `Faults`
chooses what else can fail in a run.

`Return` is the end of a closure: recovering a panic, turning it into an error and
reporting the error of a refresh. These run one after the other on the flight's
goroutine and nobody can see anything between them, so they are one action; whether the
report reaches anybody is the question of `RefreshTriggers`.

The environment ticks the clock, writes foreign bytes (undecodable ones, bare
payloads, envelopes of another deploy) and invalidates the key.

`call[c].out` is a history variable: how the caller's last call ended and which
load it saw. Runs that do not need it switch it off with `Remember`.

### RefreshTriggers

`refreshAsync` "starts (or joins)" a flight, and the closure that reports failures is
only used when it starts one. `triggered` remembers the flights that stale hits have
started or joined, until they deliver; `StaleHits` reads off a step who did so. Nothing
else is added: every behaviour of `GetOrSet` is one of `RefreshTriggers` with the history
filled in. Early refreshes of entries that are still fresh are not recorded.

### GetOrSetMany

Several keys, several callers, both variants of `batch.go` (with and without
`BatchCache`, chosen per call). `Begin` removes duplicates, `GetMany` or `Get`
reads, `Scan` is one turn of the sorting loop with its self-heal, `WriteVals` and
`WriteNegs` are the two writes. The loader takes time: it looks at the source of truth
at one instant (`LoaderReads`) and returns at a later one, with what it saw then
(`LoaderReturns`, which also packs) or with an error (`LoaderFails`). The entities of
the source, `created`, come and go meanwhile, so "absent" and the age of a value are
judged against what the source said, counted from the look at it.

### TtlStore

What the two helpers take a backend to be: every operation takes effect, key by key,
between call and return (`Read`, `Write`), and the deadline of a write is its TTL, to
the millisecond, from some instant of the call. With `Reliable` false the contract is
the weaker one of a backend behind a network: an operation may fail whether or not it
took effect (`Return`), and copies of its writes may stay under way (`Stray`) and take
effect after it is over (`WriteLate`), in any order and more than once. An operation
that returns *without* an error gets no such licence. Reads that a client-side cache
may answer are `Peek`s, about which the contract says nothing: how old a copy can be
is the client library's affair.

### MemoryCache

The map, the mutex and the lazy expiry of `memory.go`. `Get`, `GetMany` and `SetMany`
take the mutex (`Lock`), do one step per key, as they read the clock for each, and
release it (`Unlock`); `Set` and `Delete`, whose critical sections are one access to the
map, are one step each, which needs the mutex free. `Set` computes its item before
it locks. Hooks run after the unlock, and every hook looks its key up in the same
cache, which needs the mutex again. The refinement mapping hides expired
items that have not been reaped (`LiveItems`) and the inner control state
(`Operations`); it implements the contract with `Reliable` true.

### RemoteCache

`redis.go` and `valkey.go`, whose methods have one shape: derive the context
(`opContext`), build commands (`Commands`: one MGET for `RedisCache.GetMany`, one
command per key otherwise), hand them to the library, and turn its results into hooks
and a return value (`Get` to `Ping`, one operator per way of doing that). `Call` is
the first half, `Finish` and `Return` the second; `done` marks the point where a
method has called its hooks and is about to return. `cache` says which constructor
made the object: the library, whether it gives up on network errors (`failFast`),
whether reads go through the client-side cache (`csc`), and whether `Close` closes
the client.

Between the halves is what the two files do not contain (external in the map).
Commands are messages on `wire`. `Send` puts out what has no message yet, the first
time or again; `Execute` is the server, whose answer may be lost; a broken connection
or a context that is done (`Disconnect`, `TimedOut`) turns the messages of writes into
messages without a sender, which the server may still execute or the network lose.
With client-side caching a read may be answered by a copy that an earlier read left
(`Filled`, `LocalHit`); a copy may be invalidated or evicted at any moment
(`Invalidated`) and is dropped with the connection and when its time is over. This is the library's documented
behaviour as far as the two files rely on it.

The refinement mapping takes a command without an answer, or with a failure, for one
that is still to do, and a message without a sender for a late write.

### TestApp

`main.go` of the test application: `waitReady` and its pauses, the demo that `main`
runs before it serves, and one goroutine per `/demo` request. `work[w]` is the state of
a `runDemo`: which pass, which key, whether the client has gone away. Its `GetOrSet` is
that of `cache.go` in the application's configuration, over the same instance of
`LoadGroup` as in `GetOrSet.tla`, for several keys and with two loaders. The cluster
is a set of shards, of which those of `Unstable` keys fail, recover and drop entries;
a `Set` that fails may have reached it. `loaded[k]` and `work[w].lost` are history.

## 3. Runs

Every property of a passing run has a mutant in `PROJECT.json`: a definition with a
plausible bug in its place, under which TLC finds the property violated by the same
configuration. The mutants stand in the modules before the definitions they
replace, marked `Mutant`.

| Run | Instance | Shows |
|---|---|---|
| `LoadGroup` | 2 keys, 2 callers, 3 flights, 2 results | `OneFlightPerKey`, `WaitersAttached`, `NoJoinAfterForget`, `EveryDoReturns`, types |
| `GetOrSet_orderly` | 1 cache, 2 callers, 2 flights; cancellation, ErrNotFound, refreshes that run out of time | `OneLoaderPerCache`, `NoWastedLoad`, `MonotonicReads`, `StoreNeverGoesBack`, `CancelStaysPrivate` |
| `RefreshTriggers_failures` | the same without cancellation; foreign bytes and deletions at any moment, failing Get and Delete, panics | `ResultDecodes`, `FailedRefreshVisible`, types |
| `RefreshTriggers_leaving` | panics and cancellation | finding, section 6 |
| `GetOrSet_shared` | 2 cache objects on one backend, jitter, early refresh, 2 ticks per millisecond; panics, undecodable bytes, deletions | `ImplementsGroup`, `ExpiryMatchesEnvelope` |
| `GetOrSet_hung` | loaders that may hang until their context expires; fairness | `HungRefreshEnds`, `DeadlineHonored` |
| `GetOrSetMany_batch` | 2 callers with overlapping lists (one with a duplicate) on a `BatchCache` | `AbsenceJustified`, `ExpiryMatchesEnvelope` without jitter |
| `GetOrSetMany_faults` | 1 caller, both variants, every failure, undecodable bytes, 2 ticks per millisecond | `AbsenceJustified`, `StalenessBounded`, types |
| `MemoryCache` | 2 clients, 2 keys, 2 values, single and batch operations; fairness | `ImplementsStore`, `OperationsReturn` |
| `RemoteCache` | 1 client, 2 keys, 3 backends; 2 messages under way, 2 ticks per millisecond, jitter; fairness | `ImplementsStore`, `OperationsEnd`, `HooksBalance`, `EverythingExpires`, types |
| `TestApp` | startup and 2 requests, 2 keys, 2 flights, one unstable shard | `LoadsOnlyWhatWasLost`, `FailuresExplained`, types |
| `GetOrSetMany_jitter` | | finding, section 6 |

Why the bounds suffice. Two callers are enough for one to be ahead of the other at
every point, and two flights of one cache object for the overlap that matters: a
forgotten flight that is still delivering beside its successor. `LoadGroup` has a
third flight so that both keys can have one while a third delivers. The clock runs
long enough for an entry to be loaded, become stale, be refreshed and expire
(`MaxTime` at least freshness + stale window + 2); `RefreshTriggers_failures`, where
others write and delete at any moment, `MemoryCache`, where one tick lets an item expire,
and the runs with jitter, which are about what one write leaves behind, stop a little
earlier. `MaxLag` appears in the statements about ages: in `GetOrSet` it bounds
the time between the return of a loader and its `Set`, in `GetOrSetMany` that between the
loader's look at the source and the writes. Milliseconds of two ticks make truncation visible;
jitter of 40 or 50 % of a TTL of 2 or 4 ticks gives several outcomes. `MaxSpread`
bounds the logarithm of the early refresh, which is unbounded in the code.

In `RemoteCache` one client is enough for two actors: what an operation leaves on the
wire acts while the client's next operations run, on the same keys, as the writes of
another client would. Two clients that read at the same time are beyond the time a
run may take with client-side caching. `OpTimeout` of one tick makes every
operation time out in some behaviours, and the TTL of one millisecond makes items
expire within the run and jitter reach below the millisecond. The three backends are a
`RedisCache` on a shared client, a `ValkeyCache` with a client of its own, and one
with client-side caching; with one of them `Close` comes at any moment.

In `TestApp` the key that never fails shows that trouble at the other does not spread;
the application itself has eight keys and uses each in the same way.

Symmetry is by permutations of callers and flights, in runs without liveness only.

Deadlock is checked in every run.

## 4. Fairness

`LoadGroup` assumes that goroutines run and that `fn` returns: weak fairness of
`FnReturn`, `Forget`, `Deliver` and `Receive`. Nobody is obliged to call, nor to be
cancelled.

`GetOrSet` assumes less of the loader: it may hang, and is only assumed to return
once its context has expired (a loader that ignores its context makes no promise
that the library could keep). Weak fairness holds of a flight's other steps, of a
caller's steps, of the clock, and of the select's `ctx.Done()` branch once the
deadline has passed. `Serve` and `Do` get strong fairness because the model has a
finite pool of flight identities and may make them wait for one, which the code
never does.

`MemoryCache` assumes weak fairness of an operation's own steps, since goroutines run,
and strong fairness of the steps that acquire the mutex: `sync.Mutex` hands it over to
a goroutine that has waited for a millisecond, so others cannot snatch it away forever.

`RemoteCache` assumes fairness of the clock, of a context that is done, and of the
method's own steps. Nothing is assumed of the network, the server or the library:
no message need ever be sent, executed or answered.

## 5. Proofs

`LoadGroupProofs` proves, for any sets of keys, callers, flights and results, with
`GroupAssumption` only (the two markers `None` and `NoResult` are not a flight and
not a result):

| Theorem | States |
|---|---|
| `TypeCorrect` | `Spec => []TypeOK` |
| `SingleFlight` | `Spec => []OneFlightPerKey` |
| `NoLostWaiter` | `Spec => []WaitersAttached` |
| `ForgottenIsClosed` | `Spec => NoJoinAfterForget` |

`OneFlightPerKey` is not inductive: nothing in it says why a second flight cannot
begin. The reason is the group's map, so the inductive invariant `GroupInv` says
that every flight in progress is the one the map has at its key (`Registered`), and
that the map never names a flight that is over or of another key (`MapIsCurrent`).
With both, `Begin`'s guard (no entry at the key) excludes a flight in progress;
`Forget` removes exactly the entry of the flight that runs it, though the code
deletes "whatever the map holds"; and `Deliver`, which runs after the flight was
forgotten, finds either nothing or a successor and must leave it alone.
`StartKeepsMap` is the argument for `DoChan`, `CallersOnly` for the steps that do
not touch the map. `WaitersAttached` is part of the invariant: `Begin` reuses only
free flights and `Deliver` frees a flight in the step in which it answers all its
waiters. `ForgottenIsClosed` then follows from `MapIsCurrent`: what can be joined
is what the map names.

`GetOrSetProofs` proves, for any callers, cache objects, flights and configuration:

| Theorem | States |
|---|---|
| `TypeCorrect` | `Spec => []TypeOK` |
| `GroupImplemented` | `Spec => ImplementsGroup`: `GetOrSet` implements `LoadGroup` |
| `OneLoader` | `Spec => []OneLoaderPerCache` |
| `StaleWindowKept` | `Spec => []ExpiryMatchesEnvelope`, if others write no envelopes |

The assumptions are `ConfigAssumption` and `SetAssumption` (types of the constants;
the clock starts within its bound) and `RangeAssumption` (the markers are no flight
and no result; `Instants`, which makes the set of results finite for TLC, holds
every instant an entry can carry). TLC evaluates them in every run.

The simulation is direct except for one thing: a flight that returns must return a
member of the group's `Results`, so the invariant `SetInv` says of every entry in
the backend or in the hands of a flight that it is one a backend can hold, and that
a flight at `judge` or `store` has an entry. `Executing` (only a running flight
executes a closure) and the group's invariant are part of it: `loadAndStore` hands a
closure to a flight that was free, and only `MapIsCurrent` says that a flight which
is joined was not. The group's inductive step is taken from `LoadGroupProofs`
through the instance `P`; `SameNext` and its neighbours say that `G` and `P` are two
names of one module. `OneLoader` is `Executing` with the group's `Registered`.

`StaleWindowKept` is about an entry in any of the three backends, for every TTL and
jitter: its expiry is `freshUntil + StaleTTL`, at most `Milli - 1` ticks earlier, because
the remote backends cut the lifetime to whole milliseconds, and at most
`MaxLag + 2 * (Milli - 1)` later, because of the delay of the write, of the truncation
of `freshUntil`, and of the millisecond that a shorter lifetime is raised to. It needs
one more conjunct, `Packed`, about the time between `packForStore` and the `Set`: the
entry in hand was loaded at most `MaxLag` ticks ago, and the TTL that goes with it ends
at most `Milli - 1` ticks after `freshUntil + StaleTTL`. `PackAligned` shows this of
`packForStore`; `toPXRounds` that the conversion of a lifetime moves it by less than a
millisecond; `WaitsUnchanged` that nothing touches the closure meanwhile;
`ExpiryInductive` that the backend's `ttlFor` adds nothing to it. The condition on
other writers is needed: an envelope written by a deploy with another configuration
has another expiry.

`AnswerProofs` proves of what a call of `GetOrSet` returns:

| Theorem | States |
|---|---|
| `AnswersDecode` | `Spec => []ResultDecodes` |
| `FailuresVisible` | `HistorySpec => []FailedRefreshVisible`, if `NobodyLeaves` |
| `CancellationIsPrivate` | `Spec => []CancelStaysPrivate`, if `LoadersSucceed` and `FlightsInTime` |

An answer is made by a closure, returned by its flight, delivered to a channel and
received by a caller, and each of these can be the last one of an old flight or the
first of a new one with the same identity. `AnswerInv` says that a flight has a result
from its return to its delivery and at no other time (`ResultsCurrent`), and of every
place where an answer can be that it decodes (`AnswersReadable`). For `FailuresVisible` the
flight that a stale hit relies on is either one that `refreshAsync` started, whose closure
reports, or one of a miss, which has a waiter from its start to its delivery
(`Awaited`): the caller that started it, for as long as callers neither have
deadlines nor are cancelled (`NobodyLeaves`). Without that condition the property is
false (section 6). `CancellationIsPrivate` is a
statement about calls that have no reason of their own to fail: loaders have an
answer (`LoadersSucceed`), and neither a caller's deadline nor the timeout of a refresh
ends a flight (`FlightsInTime`). Both conditions are in the code's own promise: an error
of the loader goes to everyone who waits for it, and a flight does inherit the deadline
of the caller that started it (`cache.go:41-45`).

`OrderProofs` proves what the single flight is for, where one cache object has the key
to itself and nobody else writes it (`Alone`):

| Theorem | States | Further conditions |
|---|---|---|
| `StoreOrdered` | `Spec => StoreNeverGoesBack` | |
| `LoadsAreNeeded` | `Spec => []NoWastedLoad` | `OneLifetime`, `NoDeadlines`, `Get` does not fail, no early refresh |
| `ReadsMonotonic` | `Spec => MonotonicReads` | `OneLifetime`, `NoDeadlines`, `Set` does not fail; `Remember` switches the history on |

From its look at the backend to its `Forget` a flight is the only writer (`OnlyFlight`,
from the group's `Registered`). `InOrder` compares what it has in hand with what is
stored, and gives `StoreOrdered` at once. For `LoadsAreNeeded` the entry a flight judges
must still be the stored one (`Judged`), which fails if it can be replaced or can
outlive the flight's own timeout; `Expiring` says that it cannot, and this is where the
conditions come from. A refresh gets as much time as an entry has to live, so with one
lifetime (`OneLifetime`: no jitter, negative entries do not live longer, and a lifetime is
at least the millisecond that a remote backend would raise it to) what a
refresh found has expired when its time is over. A caller's deadline may be shorter,
a failing `Get` makes the flight load what is there, and an early refresh reloads a
fresh entry on purpose. `ReadsMonotonic` quantifies over every load whose answer some
caller has or is going to get (`Answered`): what can still be read, joined or
returned is at least as new as all of them (`Newest`), and what is on its way to a caller
as new as what it has (`Ahead`). A failed `Set` breaks this by design: its callers hold an
answer that the backend never gets.

`GetOrSetManyProofs` proves, for any keys, callers, key lists, TTLs and faults:

| Theorem | States | Conditions |
|---|---|---|
| `Deduplicated` | `uniq` has every key of its argument once, by first occurrence | |
| `TypeCorrect` | `Spec => []TypeOK` | |
| `AbsencesJustified` | `Spec => []AbsenceJustified` | jitter draws no lifetime 0 from `NegativeTTL` |
| `StalenessIsBounded` | `Spec => []StalenessBounded` | `OneLifetime(L)`: calls resolve to one TTL, from which jitter draws no 0 |
| `ExpiriesMatch` | `Spec => []ExpiryMatchesEnvelope` | no jitter |

`Deduplicated` would be an induction over the argument; with `uniq` written by ranks
it needs only that a set of natural numbers has a least element, which the library's
`WFMin` gives for a set. Every action is shown once to be of one of seven shapes
(`Moves`) with one of five effects on an item (`Changes`), and the four invariants are
proved about the shapes. `ManyInv` says what a call has in hand: its reads and its load
are in the past, and what it has yet to write comes from `packForStore` at its own load, at
most `MaxLag` ago. `AbsenceInv` adds that a negative marker, in the store or waiting to
be written, names an entity the source did not have at the marker's load or got
since, and bounds its deadline; `Known` follows each key of a call from the scan to the
result; ages and absences count from the loader's look at the source, and the
remote backends' milliseconds add up to one to each bound. Creating an entity cannot invalidate it, because it happens now, after all
loads and starts (`GoneKeeps`). `StalenessInv(L)` bounds the deadline of each value by its
load and carries the bound into raw reads and results. The two conditions about a
drawn 0 are about TTLs below ten ticks only (`JitterPositive`): a backend stores a
lifetime of 0 as "no expiry". A tick being a nanosecond in the code, they hold of every
TTL in use. One lifetime is needed because the property measures a call against its
own TTL, and a value may have been written by a call with a longer one. Without jitter
`packForStore` has one outcome (`NoJitterPacks`), so the TTL of the last key is every
key's; with jitter `ExpiriesMatch` is false (section 6).

`MemoryCacheProofs` proves, for any keys, clients, values and batches:

| Theorem | States |
|---|---|
| `TypeCorrect` | `Spec => []TypeOK` |
| `StoreImplemented` | `Spec => ImplementsStore`: `MemoryCache` implements `TtlStore` |

`MemoryInv` says where in its code an operation of each kind can be and what is left of
it there. The refinement has one step that needs more: `Set` computes its item before
it takes the mutex, so the deadline it puts is that of an instant which may lie behind;
the invariant remembers that the instant belongs to the call (`Shape`). An item that
has expired but was not reaped is none for the contract, so reaping is a stutter, and a
tick of the clock is the contract's own.

`RemoteCacheProofs` proves, for any keys, clients, values and timeouts, any kind of
cache object and any behaviour of network and server:

| Theorem | States |
|---|---|
| `TypeCorrect` | `Spec => []TypeOK` |
| `HooksAreComplete` | `Spec => []HooksBalance` |
| `NothingLivesForever` | `Spec => []EverythingExpires` |

`RemoteInv` ties messages to operations: a message with a sender is for a command its
sender still waits for (`Attached`), one without is a write of one key with a lifetime
drawn from its TTL (`Writing`). So no answer reaches a later operation of the same
client, and whatever the server executes late or twice has an expiry.

`TestAppProofs` proves, for any number of requests, keys and flights:

| Theorem | States |
|---|---|
| `TypeCorrect` | `Spec => []TypeOK` |
| `NothingLoadedTwice` | `Spec => []LoadsOnlyWhatWasLost` |
| `FailuresHaveCauses` | `Spec => []FailuresExplained` |

`AppInv` says that what is loaded is in the cluster or in the hands of the flight that
will put it there (`Held`), that an error is always one of a key that is not loaded and
that whoever waits for it knows (`ErrorsKnown`), and, for the demo before the server
is started, that main is alone and has not yet lost what it has not loaded (`Startup`,
`FirstDemo`): only therefore may its second pass use a loader that always fails.

Assumptions added for these proofs: the values written to a backend are entries other
than "none" (`StoreAssumption`, `RemoteAssumption`), and the keys of the demo are a
sequence over the application's keys (`AppAssumption`). TLC evaluates them too.

Only model-checked: the liveness properties `EveryDoReturns`, `HungRefreshEnds`,
`DeadlineHonored`, `OperationsReturn` and `OperationsEnd`, because fairness is out of reach of the proof
system, and the refinement of `TtlStore` by `RemoteCache`. Where a theorem has
conditions, the runs also check the property in instances that satisfy them, and
`GetOrSetMany_jitter` and `RefreshTriggers_leaving` in ones that do not.

## 6. Findings

* `GetOrSetMany_jitter`: `packForStore` draws a jittered freshness for each key of
  a batch, but one `SetMany` writes them all with the TTL of the last
  (`batch.go:136`). A key whose draw was longer loses part of its stale window, or
  all of it, which `packForStore` promises cannot happen (`cache.go:269-272`).

* `RefreshTriggers_leaving`: a stale hit joins the flight of a caller that missed.
  (That caller looked before an earlier flight stored its entry and started its own
  flight after that; the entry has become stale meanwhile.) The closure of such a flight
  does not report. The caller that missed goes away, the loader panics, and the failure reaches nobody: no waiter, no `OnError` with `OpRefresh`,
  and no `OnLoad`, which a panic unwinds past (`cache.go:207`). `cache.go:232-237`
  says of the flights that `refreshAsync` "starts (or joins)" that their failures are
  reported through that hook.

Smaller disagreements between comments and code, met while modelling and not worth a
run each:

* `cache.go:236-237` and `hooks.go:21-22` say that nothing waits on a refresh flight.
  A caller that misses while one is running (its entry has expired or was deleted)
  joins it: misses and refreshes share the flight key (`Do` in `GetOrSet.tla`).
* `hooks.go:41` says `OnLoad` fires after every loader invocation. After a panic it
  does not.
* `main.go:135-136` of the test application says that the error of the second pass's
  loader "would surface via OnError". Errors of loaders reach `OnLoad` and the caller;
  `OnError` is for backends, codecs and refreshes.
* `redis.go:56` says that for `NewWithClient` only prefix, default TTL and codec apply.
  `newFromClient` takes over the hooks, the jitter and the timeouts too.

## 7. Not modelled

* Codecs: what a value looks like in bytes. An entry says whether it decodes.
  Callers of one key are assumed to agree on type and codec, so the decode error
  that `GetOrSetWithCodec` documents for callers that do not is absent.
* `GetOrSet` over the remote backends: it takes a failed `Set` to have no effect.
  What `RemoteCache` shows of a failed write, that it may be applied later, is not
  composed with it, so `StoreNeverGoesBack` and `MonotonicReads` hold of backends
  whose failed writes stay failed.
* Inside the client libraries: pools, pipelining, redirections of a cluster,
  reconnection. `RemoteCache` has their effect on commands.
* One clock: skew between hosts moves `freshUntil`, and nothing in the code bounds
  that.
* `runtime.Goexit` in a loader, which singleflight handles and cache-kit does not
  mention.
* How often a hook is called for one key: `RemoteCache` keeps the keys of each hook as
  a set. How old a copy in the client-side cache may be, which is up to valkey-go and
  the server.
* `OnLoad`, and `OnError` for codecs. `Len`, key prefixes, and options that address the
  server.
* The counters, the topology log and the output of the test application; deployment
  files and CI.

## 8. Plan

1. Done: `Entries`, `LoadGroup` and `GetOrSet` with their proofs, `GetOrSetMany`,
   `TtlStore`, `MemoryCache`, `RemoteCache`, `TestApp`.
2. Done: every safety invariant and action property of the runs as a theorem, and the
   refinement of `TtlStore` by `MemoryCache`.
3. The refinement of `TtlStore` by `RemoteCache`, from `RemoteInv`: what a failed
   command leaves on the wire is a late write of the contract.
4. Late writes of a remote backend under `GetOrSet`: what is left of the order of
   answers.
