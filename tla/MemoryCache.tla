---------------------------- MODULE MemoryCache ----------------------------
(***************************************************************************)
(* MemoryCache of memory.go: a map under a mutex, with lazy expiry.        *)
(*                                                                         *)
(* Get, GetMany and SetMany hold the mutex over several steps: the lookup  *)
(* or the write of each key, which reads the clock, and the release, on    *)
(* which the order of hooks and mutex depends.  Set and Delete only assign *)
(* to the map under the mutex, which is one step; Set reads the clock      *)
(* before it takes it.  Hooks run after the mutex is released and may use  *)
(* the cache themselves.                                                   *)
(***************************************************************************)
EXTENDS Entries

CONSTANTS
  Keys, Clients, Vals, TTLs, MaxTime,   \* see TtlStore
  Batches,   \* the sets of keys of GetMany and SetMany
  None

ASSUME StoreAssumption ==
  /\ TTLs \subseteq Nat /\ MaxTime \in Nat
  /\ Batches \subseteq SUBSET Keys
  /\ Vals \subseteq Entry(Nat) \ {NoEntry}
  /\ None \notin Clients

VARIABLES
  now,    \* the clock
  items,  \* items[k]: the entry of the map at k, NoItem for none
  mu,     \* who holds the mutex, or None
  op      \* op[c]: the operation of client c

vars == <<now, items, mu, op>>

(* pc: where the client is in its operation.  hooks: the keys whose OnHit  *)
(* or OnMiss is still to be called.  it: the memoryItem Set has made.      *)
NoOp ==
  [kind |-> "idle", pc |-> "idle", keys |-> {}, todo |-> {}, val |-> NoEntry, ttl |-> 0, start |-> 0,
   got |-> [k \in Keys |-> NoEntry], hooks |-> {}, it |-> NoItem]

TypeOK ==
  /\ now \in Nat
  /\ items \in [Keys -> Item(Nat)]
  /\ mu \in Clients \cup {None}
  /\ op \in [Clients ->
       [kind : {"idle", "get", "set", "delete", "getmany", "setmany"},
        pc : {"idle", "enter", "put", "locked", "hooks", "done"},
        keys : SUBSET Keys, todo : SUBSET Keys, val : Vals \cup {NoEntry}, ttl : TTLs \cup {0}, start : Nat,
        got : [Keys -> Entry(Nat)], hooks : SUBSET Keys, it : Item(Nat)]]

Init ==
  /\ now = Milli
  /\ items = [k \in Keys |-> NoItem]
  /\ mu = None
  /\ op = [c \in Clients |-> NoOp]

-----------------------------------------------------------------------------
Call(c, kind, keys, val, ttl) ==
  /\ op[c].pc = "idle"
  /\ op' = [op EXCEPT ![c] = [NoOp EXCEPT !.kind = kind, !.pc = "enter", !.keys = keys,
                                          !.todo = keys, !.val = val, !.ttl = ttl, !.start = now]]
  /\ UNCHANGED <<now, items, mu>>

(* Mutant: an item is still served at the instant of its deadline.         *)
peekLate(k) ==
  IF items[k].deadline # 0 /\ now > items[k].deadline THEN NoItem ELSE items[k]

(* The lookup both reads share: an item whose deadline has come is deleted *)
(* from the map and is a miss.                                             *)
peek(k) ==
  IF items[k].deadline # 0 /\ ~(now < items[k].deadline) THEN NoItem ELSE items[k]

(* Set, outside the mutex: default, jitter and deadline.                   *)
NewItem(c) ==
  /\ op[c].kind = "set" /\ op[c].pc = "enter"
  /\ \E item \in newItem(op[c].val, op[c].ttl, now) :
       op' = [op EXCEPT ![c].pc = "put", ![c].it = item]
  /\ UNCHANGED <<now, items, mu>>

Put(c) ==
  /\ op[c].pc = "put"
  /\ mu = None
  /\ items' = [k \in Keys |-> IF k \in op[c].todo THEN op[c].it ELSE items[k]]
  /\ op' = [op EXCEPT ![c].pc = "done", ![c].todo = {}, ![c].it = NoItem]
  /\ UNCHANGED <<now, mu>>

Delete(c) ==
  /\ op[c].kind = "delete" /\ op[c].pc = "enter"
  /\ mu = None
  /\ items' = [k \in Keys |-> IF k \in op[c].todo THEN NoItem ELSE items[k]]
  /\ op' = [op EXCEPT ![c].pc = "done", ![c].todo = {}]
  /\ UNCHANGED <<now, mu>>

-----------------------------------------------------------------------------
(* GetMany and SetMany take the mutex once for all their keys.             *)
Lock(c) ==
  /\ op[c].kind \in {"get", "getmany", "setmany"} /\ op[c].pc = "enter"
  /\ mu = None
  /\ mu' = c
  /\ op' = [op EXCEPT ![c].pc = "locked"]
  /\ UNCHANGED <<now, items>>

LookUp(c, k) ==
  /\ op[c].pc = "locked" /\ k \in op[c].todo
  /\ items' = [items EXCEPT ![k] = peek(k)]
  /\ op' = [op EXCEPT ![c].todo = @ \ {k}, ![c].hooks = @ \cup {k},
                      ![c].got[k] = peek(k).entry]
  /\ UNCHANGED <<now, mu>>

Get(c, k) == op[c].kind = "get" /\ LookUp(c, k)

GetOne(c, k) == op[c].kind = "getmany" /\ LookUp(c, k)

SetOne(c, k) ==
  /\ op[c].kind = "setmany" /\ op[c].pc = "locked" /\ k \in op[c].todo
  /\ \E item \in newItem(op[c].val, op[c].ttl, now) : items' = [items EXCEPT ![k] = item]
  /\ op' = [op EXCEPT ![c].todo = @ \ {k}]
  /\ UNCHANGED <<now, mu>>

(* Mutant: the hooks of Get and GetMany run before the mutex is released,  *)
(* as with a deferred Unlock.                                              *)
UnlockLate(c) ==
  /\ op[c].pc = "locked" /\ op[c].todo = {} /\ mu = c
  /\ mu' = IF op[c].hooks = {} THEN None ELSE mu
  /\ op' = [op EXCEPT ![c].pc = "hooks"]
  /\ UNCHANGED <<now, items>>

Unlock(c) ==
  /\ op[c].pc = "locked" /\ op[c].todo = {} /\ mu = c
  /\ mu' = None
  /\ op' = [op EXCEPT ![c].pc = "hooks"]
  /\ UNCHANGED <<now, items>>

(* OnHit or OnMiss of one key.  The callback, user code, does what is      *)
(* hardest on the cache: it looks the key up in it, for which it needs the *)
(* mutex.                                                                  *)
Hook(c) ==
  /\ op[c].pc = "hooks"
  /\ \E k \in op[c].hooks :
       /\ mu = None
       /\ items' = [items EXCEPT ![k] = peek(k)]
       /\ op' = [op EXCEPT ![c].hooks = @ \ {k}]
  /\ UNCHANGED <<now, mu>>

Return(c) ==
  /\ op[c].pc = "done" \/ (op[c].pc = "hooks" /\ op[c].hooks = {})
  /\ op' = [op EXCEPT ![c] = NoOp]
  /\ UNCHANGED <<now, items, mu>>

(* The clock does not touch the map: expired items stay until a read.      *)
Tick ==
  /\ now < MaxTime
  /\ now' = now + 1
  /\ UNCHANGED <<items, mu, op>>

-----------------------------------------------------------------------------
AnyCall(c) ==
  \/ \E k \in Keys : Call(c, "get", {k}, NoEntry, 0) \/ Call(c, "delete", {k}, NoEntry, 0)
  \/ \E k \in Keys, val \in Vals, ttl \in TTLs : Call(c, "set", {k}, val, ttl)
  \/ \E keys \in Batches : Call(c, "getmany", keys, NoEntry, 0)
  \/ \E keys \in Batches, val \in Vals, ttl \in TTLs : Call(c, "setmany", keys, val, ttl)

(* The steps that acquire the mutex, and the others.                       *)
Acquire(c) == Put(c) \/ Delete(c) \/ Lock(c) \/ Hook(c)

Proceed(c) ==
  \/ NewItem(c) \/ Unlock(c) \/ Return(c)
  \/ \E k \in Keys : Get(c, k) \/ GetOne(c, k) \/ SetOne(c, k)

Step(c) == Acquire(c) \/ Proceed(c)

Next == (\E c \in Clients : AnyCall(c) \/ Step(c)) \/ Tick

Spec == Init /\ [][Next]_vars

(* Goroutines run, and sync.Mutex starves nobody: after a millisecond of   *)
(* waiting a goroutine is handed the mutex directly.                       *)
Fairness == \A c \in Clients : WF_vars(Proceed(c)) /\ SF_vars(Acquire(c))

FairSpec == Spec /\ Fairness

-----------------------------------------------------------------------------
(* The live part of the map, and the operations without their inner state. *)
LiveItems == [k \in Keys |-> IF Live(items[k], now) THEN items[k] ELSE NoItem]

Kind == [get |-> "get", getmany |-> "get", set |-> "set", setmany |-> "set",
         delete |-> "delete", idle |-> "idle"]

Operations ==
  [c \in Clients |->
    [kind |-> Kind[op[c].kind], keys |-> op[c].keys, todo |-> op[c].todo, val |-> op[c].val,
     ttl |-> op[c].ttl, start |-> op[c].start, got |-> op[c].got, err |-> FALSE]]

Contract == INSTANCE TtlStore WITH
  store <- LiveItems, op <- Operations, late <- {}, Reliable <- TRUE

(* MemoryCache is a backend as GetOrSet and GetOrSetMany understand one:   *)
(* lazy expiry, the clock read outside the mutex and the loops under it    *)
(* are invisible.                                                          *)
ImplementsStore == Contract!Spec

(* Every operation returns although hooks use the cache themselves (the    *)
(* "deadlock by re-entering this cache" of MemoryCache.Get): nobody waits  *)
(* for a mutex that its own caller, or another caller's hook, keeps.       *)
OperationsReturn ==
  \A c \in Clients : op[c].kind # "idle" ~> op[c].kind = "idle"
=============================================================================
