------------------------------ MODULE TtlStore ------------------------------
(***************************************************************************)
(* What GetOrSet and GetOrSetMany take a backend to be (the Cache and      *)
(* BatchCache interfaces): keys with a TTL, where every operation that     *)
(* succeeds takes effect, key by key, at one instant between its call and  *)
(* its return, an item is gone from the instant of its deadline, and the   *)
(* deadline of a write is its TTL, to the millisecond, after some instant  *)
(* of the call.                                                            *)
(*                                                                         *)
(* A backend behind a network (Reliable = FALSE) promises less: an         *)
(* operation may fail, whether or not it took effect, and copies of its    *)
(* writes may stay under way and take effect after it has returned.        *)
(***************************************************************************)
EXTENDS Entries

CONSTANTS
  Keys,
  Clients,   \* goroutines that use the cache, one operation at a time
  Vals,      \* values that are written
  TTLs,      \* ttl arguments
  Reliable,  \* whether operations never fail and leave nothing behind
  MaxTime    \* bound on the clock

VARIABLES
  now,    \* the clock
  store,  \* store[k]: the live item at k, or NoItem
  op,     \* op[c]: the operation of client c
  late    \* copies of writes that may still take effect

vars == <<now, store, op, late>>

(* keys: the keys of the operation; todo: those it has yet to take effect  *)
(* on; got: what a read found, NoEntry for a miss; start: when it was      *)
(* called; err: whether the last one returned an error, until the caller   *)
(* has seen it.  A "peek" is a read that a client-side cache may answer;   *)
(* how old its answer may be is not said here.                             *)
OpKinds == {"get", "peek", "set", "delete"}

Operation(kind, keys, val, ttl, t) ==
  [kind |-> kind, keys |-> keys, todo |-> keys, val |-> val, ttl |-> ttl, start |-> t,
   got |-> [k \in Keys |-> NoEntry], err |-> FALSE]

NoOp(err) == [Operation("idle", {}, NoEntry, 0, 0) EXCEPT !.err = err]

(* A copy of the write of o at key k.                                      *)
Copy(o, k) == [kind |-> o.kind, key |-> k, val |-> o.val, ttl |-> o.ttl]

Init ==
  /\ now = Milli
  /\ store = [k \in Keys |-> NoItem]
  /\ op = [c \in Clients |-> NoOp(FALSE)]
  /\ late = {}

Call(c) ==
  /\ op[c].kind = "idle"
  /\ \E kind \in OpKinds, keys \in SUBSET Keys, val \in Vals \cup {NoEntry}, ttl \in TTLs \cup {0} :
       op' = [op EXCEPT ![c] = Operation(kind, keys, val, ttl, now)]
  /\ UNCHANGED <<now, store, late>>

(* A batch may read several keys at once.                                  *)
Read(c, keys) ==
  /\ op[c].kind = "get" /\ keys \subseteq op[c].todo
  /\ op' = [op EXCEPT ![c].todo = @ \ keys,
                      ![c].got = [k \in Keys |-> IF k \in keys THEN store[k].entry ELSE @[k]]]
  /\ UNCHANGED <<now, store, late>>

Peek(c, keys) ==
  /\ op[c].kind = "peek" /\ keys \subseteq op[c].todo
  /\ \E found \in [keys -> Vals \cup {NoEntry}] :
       op' = [op EXCEPT ![c].todo = @ \ keys,
                        ![c].got = [k \in Keys |-> IF k \in keys THEN found[k] ELSE @[k]]]
  /\ UNCHANGED <<now, store, late>>

(* Lifetimes that are d to the millisecond.                                *)
ToTheMilli(d) ==
  IF d <= 0 THEN {0} ELSE {e \in 1..(d + Milli) : d < e + Milli /\ (e <= d \/ e <= Milli)}

(* What a write leaves at its key, its lifetime counted from one of the    *)
(* instants T.  If it reaches the store after its deadline, nothing.       *)
Effect(w, T) ==
  IF w.kind = "delete" THEN {NoItem}
  ELSE UNION {{IF e = 0 THEN [entry |-> w.val, deadline |-> 0]
               ELSE IF now < t + e THEN [entry |-> w.val, deadline |-> t + e] ELSE NoItem
                 : t \in T, e \in ToTheMilli(d)}
              : d \in ttlFor(w.val, w.ttl)}

(* A write of a running operation; the confirmation may get lost.          *)
Write(c, k) ==
  /\ op[c].kind \in {"set", "delete"}
  /\ k \in IF Reliable THEN op[c].todo ELSE op[c].keys
  /\ \E item \in Effect(Copy(op[c], k), op[c].start .. now) : store' = [store EXCEPT ![k] = item]
  /\ \/ op' = [op EXCEPT ![c].todo = @ \ {k}]
     \/ ~Reliable /\ UNCHANGED op
  /\ UNCHANGED <<now, late>>

Return(c) ==
  /\ op[c].kind # "idle"
  /\ \/ op[c].todo = {} /\ op' = [op EXCEPT ![c] = NoOp(FALSE)]
     \/ ~Reliable /\ op' = [op EXCEPT ![c] = NoOp(TRUE)]
  /\ UNCHANGED <<now, store, late>>

SeeError(c) ==
  /\ op[c] = NoOp(TRUE) /\ op' = [op EXCEPT ![c] = NoOp(FALSE)]
  /\ UNCHANGED <<now, store, late>>

(* The network.  Copies of what a running operation writes come about, are *)
(* lost, and take effect whenever they arrive.                             *)
Stray(c, keys) ==
  /\ ~Reliable /\ op[c].kind \in {"set", "delete"} /\ keys \subseteq op[c].keys
  /\ late' = late \cup {Copy(op[c], k) : k \in keys}
  /\ UNCHANGED <<now, store, op>>

Lose(w) == w \in late /\ late' = late \ {w} /\ UNCHANGED <<now, store, op>>

WriteLate(w) ==
  /\ w \in late
  /\ late' \in {late, late \ {w}}   \* there may be another copy
  /\ \E item \in Effect(w, {now}) : store' = [store EXCEPT ![w.key] = item]
  /\ UNCHANGED <<now, op>>

Tick ==
  /\ now < MaxTime
  /\ now' = now + 1
  /\ store' = [k \in Keys |-> IF Live(store[k], now + 1) THEN store[k] ELSE NoItem]
  /\ UNCHANGED <<op, late>>

Next ==
  \/ Tick
  \/ \E w \in late : Lose(w) \/ WriteLate(w)
  \/ \E c \in Clients : Return(c) \/ SeeError(c)
  \/ \E c \in Clients, k \in Keys : Write(c, k)
  \/ \E c \in Clients, keys \in SUBSET Keys : Read(c, keys) \/ Peek(c, keys) \/ Stray(c, keys)
  \/ \E c \in Clients : Call(c)

Spec == Init /\ [][Next]_vars
=============================================================================
