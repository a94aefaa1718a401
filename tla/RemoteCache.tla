---------------------------- MODULE RemoteCache ----------------------------
(***************************************************************************)
(* RedisCache and ValkeyCache of redis.go and valkey.go: the Cache and     *)
(* BatchCache methods over a client library and a server.                  *)
(*                                                                         *)
(* A method turns its keys into commands and waits until each of them is   *)
(* answered, fails, or the context of the operation is done.  Between the  *)
(* library and the server, commands are messages: a connection can break   *)
(* before or after the server executes one, the library then sends it      *)
(* again, and a message whose sender no longer waits may still arrive.     *)
(* Connections, pools and the client-side cache are the libraries' own     *)
(* (external), modelled as far as the two files rely on them.              *)
(***************************************************************************)
EXTENDS Entries, FiniteSets

CONSTANTS
  Keys, Clients, Vals, TTLs, MaxTime,   \* see TtlStore
  Batches,       \* the sets of keys of GetMany and SetMany
  Backends,      \* the cache objects of a run, see Backend
  OpTimeout,     \* Options.OpTimeout, 0 = no deadline per operation
  CtxTimeouts,   \* deadlines of the callers' contexts, relative; 0 = none
  MaxWire,       \* bound on the messages under way
  None

(* csc: clientCacheTTL, 0 if the client does not track.  failFast: the     *)
(* library gives up on a network error; go-redis does, after its retries,  *)
(* valkey-go only with DisableRetry.  owns: Close closes the client.       *)
Backend == [library : {"redis", "valkey"}, csc : Nat, failFast : BOOLEAN, owns : BOOLEAN]

New == [library |-> "redis", csc |-> 0, failFast |-> TRUE, owns |-> TRUE]

NewWithClient == [New EXCEPT !.owns = FALSE]

NewValkey(csc) == [library |-> "valkey", csc |-> csc, failFast |-> FALSE, owns |-> TRUE]

(* With a client that was made with DisableCache, reads are plain.         *)
NewValkeyWithClient(csc, DisableCache, DisableRetry) ==
  [library |-> "valkey", csc |-> IF DisableCache THEN 0 ELSE csc, failFast |-> DisableRetry,
   owns |-> FALSE]

ASSUME RemoteAssumption ==
  /\ TTLs \subseteq Nat /\ CtxTimeouts \subseteq Nat
  /\ OpTimeout \in Nat /\ MaxTime \in Nat /\ MaxWire \in Nat
  /\ Batches \subseteq SUBSET Keys /\ None \notin Clients
  /\ Vals \subseteq Entry(Nat) \ {NoEntry}
  /\ Backends \subseteq Backend
  /\ \A b \in Backends : b.csc > 0 => b.library = "valkey"

VARIABLES
  now,     \* the clock
  cache,   \* the cache object, never changes
  closed,  \* whether its client has been closed
  store,   \* store[k]: the live item of the server at k, or NoItem
  op,      \* op[c]: the operation of client c
  wire,    \* messages to the server
  local    \* local[k]: the copy of k in the client-side cache

vars == <<now, cache, closed, store, op, wire, local>>

(* px: the lifetime each key of a write is sent with.  ctx: the deadline   *)
(* of the operation's context.  await: the commands, each given by its     *)
(* keys, without an answer; bad: those that failed.  got: the values read. *)
(* hit, miss, error: the keys for which the hooks were called; done: the   *)
(* method has its result, and err says whether that is an error.           *)
NoOp ==
  [kind |-> "idle", keys |-> {}, val |-> NoEntry, ttl |-> 0, start |-> 0, ctx |-> 0,
   px |-> [k \in Keys |-> 0], await |-> {}, bad |-> {},
   got |-> [k \in Keys |-> NoEntry], done |-> FALSE, err |-> FALSE,
   hit |-> {}, miss |-> {}, error |-> {}]

(* A copy in the client-side cache may be served before until.             *)
NoCopy == [until |-> 0, entry |-> NoEntry]

Reads == {"get", "getmany"}
Writes == {"set", "setmany", "delete"}

Message ==
  [from : Clients \cup {None}, kind : Reads \cup Writes \cup {"ping"}, keys : SUBSET Keys,
   val : Vals \cup {NoEntry}, ttl : TTLs \cup {0}, px : Nat]

TypeOK ==
  /\ now \in Nat /\ cache \in Backends /\ closed \in BOOLEAN
  /\ store \in [Keys -> Item(Nat)]
  /\ op \in [Clients ->
       [kind : Reads \cup Writes \cup {"ping", "idle"}, keys : SUBSET Keys,
        val : Vals \cup {NoEntry}, ttl : TTLs \cup {0}, start : Nat, ctx : Nat,
        px : [Keys -> Nat], await : SUBSET SUBSET Keys, bad : SUBSET SUBSET Keys,
        got : [Keys -> Entry(Nat)], done : BOOLEAN, err : BOOLEAN,
        hit : SUBSET Keys, miss : SUBSET Keys, error : SUBSET Keys]]
  /\ wire \subseteq Message
  /\ local \in [Keys -> [until : Nat, entry : Entry(Nat)]]

Init ==
  /\ now = Milli
  /\ cache \in Backends /\ closed = FALSE
  /\ store = [k \in Keys |-> NoItem]
  /\ op = [c \in Clients |-> NoOp]
  /\ wire = {}
  /\ local = [k \in Keys |-> NoCopy]

-----------------------------------------------------------------------------
(* The methods, up to the library.                                         *)
Expired(ctx) == ctx # 0 /\ now >= ctx

(* Mutant: only the caller's deadline counts.                              *)
opContextOfCaller(ctx) == ctx

(* context.WithTimeout keeps the earlier deadline.                         *)
opContext(ctx) ==
  IF OpTimeout <= 0 \/ (ctx # 0 /\ ctx < now + OpTimeout) THEN ctx ELSE now + OpTimeout

(* RedisCache.GetMany is one command for all keys, everything else one     *)
(* command per key.  An empty batch is none.                               *)
MGet(keys) == {keys} \ {{}}

DoMulti(keys) == {{k} : k \in keys}

Commands(kind, keys) ==
  IF kind = "ping" THEN {{}}
  ELSE IF kind = "getmany" /\ cache.library = "redis" THEN MGet(keys) ELSE DoMulti(keys)

Call(c, kind, keys, val, ttl) ==
  /\ op[c].kind = "idle"
  /\ \E d \in CtxTimeouts, px \in [keys -> IF val = NoEntry THEN {0} ELSE setCmd(val, ttl)] :
       op' = [op EXCEPT ![c] =
               [NoOp EXCEPT !.kind = kind, !.keys = keys, !.val = val, !.ttl = ttl,
                            !.start = now, !.ctx = opContext(IF d = 0 THEN 0 ELSE now + d),
                            !.px = [k \in Keys |-> IF k \in keys THEN px[k] ELSE 0],
                            !.await = Commands(kind, keys)]]
  /\ UNCHANGED <<now, cache, closed, store, wire, local>>

-----------------------------------------------------------------------------
(* The library and the network.                                            *)
Unsent(c) == {ks \in op[c].await : ~\E m \in wire : m.from = c /\ m.keys = ks}

Servable(k) == now < local[k].until

(* DoCache and DoMultiCache answer from the client-side cache.             *)
Cached(c, ks) == op[c].kind \in Reads /\ \E k \in ks : ks = {k} /\ Servable(k)

(* The commands without a message go out, for the first time or again.     *)
Send(c) ==
  /\ ~closed /\ ~Expired(op[c].ctx)
  /\ LET out == {ks \in Unsent(c) : ~Cached(c, ks)} IN
       /\ out # {} /\ Cardinality(wire) + Cardinality(out) <= MaxWire
       /\ wire' = wire \cup
            {[from |-> c, kind |-> op[c].kind, keys |-> ks, val |-> op[c].val, ttl |-> op[c].ttl,
              px |-> IF op[c].val = NoEntry THEN 0 ELSE op[c].px[CHOOSE k \in ks : TRUE]] : ks \in out}
  /\ UNCHANGED <<now, cache, closed, store, op, local>>

LocalHit(c, k) ==
  /\ {k} \in Unsent(c) /\ Cached(c, {k})
  /\ op' = [op EXCEPT ![c].await = @ \ {{k}}, ![c].got[k] = local[k].entry]
  /\ UNCHANGED <<now, cache, closed, store, wire, local>>

(* The answer to m reaches its sender.                                     *)
Answer(m) ==
  op' = [op EXCEPT ![m.from].await = @ \ {m.keys},
                   ![m.from].got = [k \in Keys |-> IF m.kind \in Reads /\ k \in m.keys
                                                   THEN store[k].entry ELSE @[k]]]

(* A value read through the client-side cache is kept there, but no longer *)
(* than it lives on the server.                                            *)
Filled(k) ==
  [until |-> IF store[k].deadline # 0 /\ store[k].deadline < now + cache.csc
             THEN store[k].deadline ELSE now + cache.csc,
   entry |-> store[k].entry]

(* The server executes a message, whether or not its sender still waits;   *)
(* the answer may get lost.                                                *)
Execute(m) ==
  /\ wire' = wire \ {m}
  /\ store' = [k \in Keys |->
       IF k \notin m.keys \/ m.kind \notin Writes THEN store[k]
       ELSE IF m.kind = "delete" THEN NoItem
       ELSE [entry |-> m.val, deadline |-> IF m.px > 0 THEN now + m.px ELSE 0]]
  /\ \/ /\ m.from # None /\ Answer(m)
        /\ local' = [k \in Keys |->
             IF cache.csc > 0 /\ m.kind \in Reads /\ k \in m.keys THEN Filled(k) ELSE local[k]]
     \/ UNCHANGED <<op, local>>
  /\ UNCHANGED <<now, cache, closed>>

(* An error reply of the server.                                           *)
Refuse(m) ==
  /\ m.from # None
  /\ wire' = wire \ {m}
  /\ op' = [op EXCEPT ![m.from].await = @ \ {m.keys}, ![m.from].bad = @ \cup {m.keys}]
  /\ UNCHANGED <<now, cache, closed, store, local>>

(* A copy is invalidated by the server or evicted; how long after a write  *)
(* of the key is not known.                                                *)
Invalidated(k) ==
  /\ local[k] # NoCopy
  /\ local' = [local EXCEPT ![k] = NoCopy]
  /\ UNCHANGED <<now, cache, closed, store, op, wire>>

(* The messages of client c lose their sender; those of reads then have no *)
(* effect.                                                                 *)
Orphaned(c) ==
  {m \in wire : m.from # c}
    \cup {[m EXCEPT !.from = None] : m \in {w \in wire : w.from = c /\ w.kind \in Writes}}

Disconnect(c) ==
  /\ \E m \in wire : m.from = c
  /\ wire' = Orphaned(c)
  /\ local' = [k \in Keys |-> NoCopy]
  /\ UNCHANGED <<now, cache, closed, store, op>>

Lose(m) ==
  /\ m.from = None
  /\ wire' = wire \ {m}
  /\ UNCHANGED <<now, cache, closed, store, op, local>>

GiveUp(c) ==
  /\ cache.failFast \/ closed
  /\ Unsent(c) # {}
  /\ op' = [op EXCEPT ![c].await = @ \ Unsent(c), ![c].bad = @ \cup Unsent(c)]
  /\ UNCHANGED <<now, cache, closed, store, wire, local>>

(* Mutant: the error of the context is taken for an empty answer.          *)
TimedOutSilently(c) ==
  /\ Expired(op[c].ctx) /\ op[c].await # {}
  /\ op' = [op EXCEPT ![c].await = {}]
  /\ wire' = Orphaned(c)
  /\ UNCHANGED <<now, cache, closed, store, local>>

TimedOut(c) ==
  /\ Expired(op[c].ctx) /\ op[c].await # {}
  /\ op' = [op EXCEPT ![c].await = {}, ![c].bad = @ \cup op[c].await]
  /\ wire' = Orphaned(c)
  /\ UNCHANGED <<now, cache, closed, store, local>>

-----------------------------------------------------------------------------
(* The methods, once every command has been answered or has failed: the    *)
(* hooks they call, and whether they return an error.                      *)

(* Mutant: the commands that failed instead of their keys.                 *)
failedCommands(o) == o.bad

failed(o) == UNION o.bad

Found(o) == {k \in o.keys \ failed(o) : o.got[k] # NoEntry}

Get(o) ==
  [o EXCEPT !.hit = Found(o), !.miss = o.keys \ (failed(o) \cup Found(o)),
            !.error = failed(o), !.err = o.bad # {}]

SetOrDelete(o) == [o EXCEPT !.error = failed(o), !.err = o.bad # {}]

(* One error for the whole MGET.                                           *)
RedisGetMany(o) ==
  IF o.bad # {} THEN [o EXCEPT !.error = o.keys, !.err = TRUE]
  ELSE [o EXCEPT !.hit = Found(o), !.miss = o.keys \ Found(o)]

(* Mutant: the loop over the results stops at the first error.             *)
ValkeyGetManyFirstError(o) ==
  IF o.bad # {} THEN [o EXCEPT !.error = failed(o), !.err = TRUE]
  ELSE [o EXCEPT !.hit = Found(o), !.miss = o.keys \ Found(o)]

(* The loop looks at every result, and then returns no value at all if one *)
(* of them is an error.                                                    *)
ValkeyGetMany(o) ==
  [o EXCEPT !.hit = Found(o), !.miss = o.keys \ (failed(o) \cup Found(o)),
            !.error = failed(o), !.err = failed(o) # {}]

(* One error for the whole pipeline, reported for every key, also for      *)
(* those that were stored.                                                 *)
RedisSetMany(o) == IF o.bad # {} THEN [o EXCEPT !.error = o.keys, !.err = TRUE] ELSE o

ValkeySetMany(o) == [o EXCEPT !.error = failed(o), !.err = failed(o) # {}]

Ping(o) == [o EXCEPT !.err = o.bad # {}]

Result(o) ==
  CASE o.kind = "get" -> Get(o)
    [] o.kind \in {"set", "delete"} -> SetOrDelete(o)
    [] o.kind = "getmany" -> IF cache.library = "redis" THEN RedisGetMany(o) ELSE ValkeyGetMany(o)
    [] o.kind = "setmany" -> IF cache.library = "redis" THEN RedisSetMany(o) ELSE ValkeySetMany(o)
    [] o.kind = "ping" -> Ping(o)

Finish(c) ==
  /\ op[c].kind # "idle" /\ op[c].await = {} /\ ~op[c].done
  /\ op' = [op EXCEPT ![c] = Result([op[c] EXCEPT !.done = TRUE])]
  /\ UNCHANGED <<now, cache, closed, store, wire, local>>

Return(c) ==
  /\ op[c].done
  /\ op' = [op EXCEPT ![c] = NoOp]
  /\ UNCHANGED <<now, cache, closed, store, wire, local>>

(* Close of a cache that owns its client; commands under way are answered  *)
(* or lose their connection.  For the other caches it is a no-op.          *)
Close ==
  /\ cache.owns /\ ~closed
  /\ closed' = TRUE
  /\ local' = [k \in Keys |-> NoCopy]
  /\ UNCHANGED <<now, cache, store, op, wire>>

(* The server drops the items whose deadline has come, and the client-side *)
(* cache its copies.                                                       *)
Tick ==
  /\ now < MaxTime
  /\ now' = now + 1
  /\ store' = [k \in Keys |-> IF Live(store[k], now + 1) THEN store[k] ELSE NoItem]
  /\ local' = [k \in Keys |-> IF now + 1 < local[k].until THEN local[k] ELSE NoCopy]
  /\ UNCHANGED <<cache, closed, op, wire>>

-----------------------------------------------------------------------------
AnyCall(c) ==
  \/ Call(c, "ping", {}, NoEntry, 0)
  \/ \E k \in Keys : Call(c, "get", {k}, NoEntry, 0) \/ Call(c, "delete", {k}, NoEntry, 0)
  \/ \E k \in Keys, val \in Vals, ttl \in TTLs : Call(c, "set", {k}, val, ttl)
  \/ \E keys \in Batches : Call(c, "getmany", keys, NoEntry, 0)
  \/ \E keys \in Batches, val \in Vals, ttl \in TTLs : Call(c, "setmany", keys, val, ttl)

Step(c) ==
  \/ Send(c) \/ Disconnect(c) \/ GiveUp(c) \/ TimedOut(c) \/ Finish(c) \/ Return(c)
  \/ \E k \in Keys : LocalHit(c, k)

Next ==
  \/ \E c \in Clients : AnyCall(c) \/ Step(c)
  \/ \E m \in wire : Execute(m) \/ Refuse(m) \/ Lose(m)
  \/ \E k \in Keys : Invalidated(k)
  \/ Close \/ Tick

Spec == Init /\ [][Next]_vars

(* The clock, the timers and the goroutines of the methods run; neither    *)
(* the network nor the server is assumed to do anything.                   *)
FairSpec ==
  Spec /\ WF_vars(Tick) /\ \A c \in Clients : WF_vars(TimedOut(c)) /\ WF_vars(Finish(c)) /\ WF_vars(Return(c))

-----------------------------------------------------------------------------
(* Refinement: a message without a sender is late; a command that has no   *)
(* answer, or failed, is still to do; a read that the client-side cache    *)
(* may answer is a peek, and so is Ping, which has no keys.                *)
Kind ==
  [get |-> IF cache.csc > 0 THEN "peek" ELSE "get", set |-> "set", delete |-> "delete",
   getmany |-> IF cache.csc > 0 THEN "peek" ELSE "get", setmany |-> "set",
   ping |-> "peek", idle |-> "idle"]

Operations ==
  [c \in Clients |->
    LET o == IF op[c].done THEN NoOp ELSE op[c]
    IN [kind |-> Kind[o.kind], keys |-> o.keys, todo |-> UNION (o.await \cup o.bad), val |-> o.val,
        ttl |-> o.ttl, start |-> o.start, got |-> o.got, err |-> op[c].err]]

LateWrites ==
  {[kind |-> Kind[m.kind], key |-> CHOOSE k \in m.keys : TRUE, val |-> m.val, ttl |-> m.ttl] : m \in {w \in wire : w.from = None}}

Contract == INSTANCE TtlStore WITH op <- Operations, late <- LateWrites, Reliable <- FALSE

(* What is left of the store contract behind a network: an operation that  *)
(* returns without an error took effect on each of its keys between call   *)
(* and return, whatever was resent or lost; one that failed may have, or   *)
(* may yet; and only a write that was really called ever shows up, with a  *)
(* lifetime that is its TTL to the millisecond.                            *)
ImplementsStore == Contract!Spec

(* "Consume every result before failing so hit/miss hooks fire per key"    *)
(* (ValkeyCache.GetMany) and "OnError fires for every backend failure"     *)
(* (Hooks): when a method returns, each key it read is one of hit, miss    *)
(* and error, each key whose command the server did not confirm is         *)
(* reported, and the method fails exactly if something is reported.        *)
HooksBalance ==
  \A c \in Clients : op[c].done =>
    /\ op[c].kind \in Reads => /\ op[c].hit \cup op[c].miss \cup op[c].error = op[c].keys
                               /\ op[c].hit \cap op[c].miss = {}
                               /\ op[c].error \cap (op[c].hit \cup op[c].miss) = {}
    /\ \A k \in op[c].keys : k \in UNION op[c].bad => k \in op[c].error
    /\ op[c].kind # "ping" => (op[c].err <=> op[c].error # {})

(* ttlFor, setCmd and PX: while every TTL survives the jitter by at least  *)
(* a tick, no key of the server lives for ever.                            *)
EverythingExpires ==
  (\A ttl \in TTLs : orDefault(ttl) * (100 - ttlJitter) >= 100) =>
    \A k \in Keys : store[k] # NoItem => store[k].deadline # 0

(* "OpTimeout bounds each individual cache operation": whatever server and *)
(* network do, an operation whose time is up within the run ends.          *)
OperationsEnd ==
  \A c \in Clients :
    (op[c].kind # "idle" /\ op[c].start + OpTimeout <= MaxTime) ~> op[c].kind = "idle"
=============================================================================
