------------------------- MODULE RemoteCacheProofs -------------------------
(***************************************************************************)
(* Proofs about RedisCache and ValkeyCache, for any keys, clients, values  *)
(* and deadlines, any kind of cache object and any behaviour of network    *)
(* and server.                                                             *)
(*                                                                         *)
(* The methods judge an operation by the commands that failed.  What they  *)
(* make of it is right because a command belongs to exactly one operation: *)
(* a message that has a sender is for a command its sender still waits     *)
(* for, so that no answer reaches a later operation of the same client.    *)
(***************************************************************************)
EXTENDS RemoteCache, TLAPS

OpRecord ==
  [kind : Reads \cup Writes \cup {"ping", "idle"}, keys : SUBSET Keys,
   val : Vals \cup {NoEntry}, ttl : TTLs \cup {0}, start : Nat, ctx : Nat,
   px : [Keys -> Nat], await : SUBSET SUBSET Keys, bad : SUBSET SUBSET Keys,
   got : [Keys -> Entry(Nat)], done : BOOLEAN, err : BOOLEAN,
   hit : SUBSET Keys, miss : SUBSET Keys, error : SUBSET Keys]

CopyRecord == [until : Nat, entry : Entry(Nat)]

Sets == {"set", "setmany"}

(* An operation waits for commands of its own, an idle one for none, and   *)
(* reports nothing before it is done.  Its writes carry a value, a TTL and *)
(* lifetimes drawn from that.                                              *)
Sound(o) ==
  /\ o.await \cup o.bad \subseteq Commands(o.kind, o.keys)
  /\ o.kind = "idle" => o.keys = {}
  /\ o.done => o.await = {}
  /\ ~o.done => o.hit = {} /\ o.miss = {} /\ o.error = {} /\ ~o.err
  /\ o.kind \in Sets => /\ o.val \in Vals /\ o.ttl \in TTLs
                        /\ \A k \in o.keys : o.px[k] \in setCmd(o.val, o.ttl)
  /\ o.kind \notin Sets => o.val = NoEntry

Operating == \A c \in Clients : Sound(op[c])

(* The message with which c sends a command.                               *)
Command(c, ks) ==
  [from |-> c, kind |-> op[c].kind, keys |-> ks, val |-> op[c].val, ttl |-> op[c].ttl,
   px |-> IF op[c].val = NoEntry THEN 0 ELSE op[c].px[CHOOSE k \in ks : TRUE]]

(* A message with a sender is for a command the sender waits for, one      *)
(* without is a write of one key.                                          *)
Attached ==
  \A m \in wire : m.from # None => m.keys \in op[m.from].await /\ m = Command(m.from, m.keys)

Writing ==
  \A m \in wire :
    /\ m.from = None => m.kind \in Writes
    /\ m.kind \in Writes => \E k \in Keys : m.keys = {k}
    /\ m.kind \in Sets => m.val \in Vals /\ m.ttl \in TTLs /\ m.px \in setCmd(m.val, m.ttl)

(* The inductive invariant.                                                *)
RemoteInv ==
  /\ TypeOK
  /\ Operating /\ Attached /\ Writing /\ HooksBalance
  /\ EverythingExpires

-----------------------------------------------------------------------------
(* The operators of Entries and of the methods.                            *)
LEMMA FloorNat == ASSUME NEW d \in Nat PROVE Floor(d) \in Nat
BY ConfigAssumption DEF Floor

(* A whole millisecond is left after truncating to one.                    *)
LEMMA FloorPositive == ASSUME NEW d \in Nat, d >= Milli PROVE Floor(d) > 0
<1>1. Milli \in Nat \ {0} /\ d \div Milli \in Nat
  BY ConfigAssumption
<1>2. d \div Milli > 0
  BY <1>1
<1>3. (d \div Milli) * Milli > 0
  BY <1>1, <1>2
<1> QED BY <1>3 DEF Floor

LEMMA toPXNat == ASSUME NEW d \in Nat PROVE toPX(d) \in Nat /\ (d > 0 => toPX(d) > 0)
BY FloorNat, FloorPositive, ConfigAssumption DEF toPX

LEMMA ttlForNat == ASSUME NEW e, NEW ttl \in Nat PROVE ttlFor(e, ttl) \subseteq Nat
<1>1. orDefault(ttl) \in Nat
  BY ConfigAssumption DEF orDefault
<1>2. ttlJitter \in Nat
  BY ConfigAssumption DEF ttlJitter
<1> QED BY <1>1, <1>2 DEF ttlFor, applyJitter

LEMMA setCmdNat == ASSUME NEW e, NEW ttl \in Nat PROVE setCmd(e, ttl) \subseteq Nat
BY ttlForNat, toPXNat DEF setCmd

(* A TTL that survives the jitter by a tick is never sent as "no expiry".  *)
LEMMA setCmdPositive ==
  ASSUME NEW e, NEW ttl \in Nat, orDefault(ttl) * (100 - ttlJitter) >= 100,
         NEW px \in setCmd(e, ttl)
  PROVE  px \in Nat /\ px > 0
<1> DEFINE t == orDefault(ttl)
<1>1. t \in Nat
  BY ConfigAssumption DEF orDefault
<1>2. ttlJitter \in 0..90
  BY ConfigAssumption DEF ttlJitter
<1>3. t > 0
  BY <1>1, <1>2
<1>4. PICK d \in ttlFor(e, ttl) : px = toPX(d)
  BY DEF setCmd
<1>5. d \in Nat
  BY <1>4, ttlForNat
<1>6. d > 0
  <2>1. CASE d = t
    BY <2>1, <1>3
  <2>2. CASE d # t
    <3>1. 100 * (d + 1) > t * (100 - ttlJitter)
      BY <1>4, <2>2 DEF ttlFor, applyJitter
    <3>2. t * (100 - ttlJitter) \in Int
      BY <1>1, <1>2
    <3> QED BY <1>5, <3>1, <3>2
  <2> QED BY <2>1, <2>2
<1> QED BY <1>4, <1>5, <1>6, toPXNat

LEMMA NoEntryTyped == NoEntry \in Entry(Nat) /\ NoItem \in Item(Nat) /\ NoCopy \in CopyRecord
<1>1. NoEntry \in Entry(Nat)
  BY DEF NoEntry, Entry, Kinds
<1>2. NoItem \in Item(Nat)
  BY <1>1 DEF NoItem, Item
<1>3. NoCopy \in CopyRecord
  BY <1>1 DEF NoCopy, CopyRecord
<1> QED BY <1>1, <1>2, <1>3

LEMMA NoOpSound == NoOp \in OpRecord /\ Sound(NoOp) /\ ~NoOp.done
<1>1. NoOp \in OpRecord
  BY NoEntryTyped DEF NoOp, OpRecord, Reads, Writes
<1>2. NoOp.done = FALSE /\ NoOp.err = FALSE
  BY DEF NoOp
<1>3. Sound(NoOp)
  BY DEF NoOp, Sound, Commands, DoMulti, Sets
<1> QED BY <1>1, <1>2, <1>3

LEMMA opContextNat == ASSUME now \in Nat, NEW ctx \in Nat PROVE opContext(ctx) \in Nat
BY RemoteAssumption DEF opContext

(* The keys of a command are keys of the operation, and some.              *)
LEMMA CommandKeys ==
  ASSUME NEW kind, NEW keys \in SUBSET Keys, NEW ks \in Commands(kind, keys)
  PROVE  /\ ks \subseteq keys
         /\ kind # "ping" => ks # {}
         /\ kind \in Writes => \E k \in keys : ks = {k}
BY DEF Commands, MGet, DoMulti, Writes

LEMMA failedKeys ==
  ASSUME NEW o \in OpRecord, Sound(o)
  PROVE  /\ failed(o) \subseteq o.keys
         /\ o.kind # "ping" => (o.bad # {} <=> failed(o) # {})
<1>1. o.keys \in SUBSET Keys
  BY DEF OpRecord
<1>2. \A ks \in o.bad : ks \subseteq o.keys /\ (o.kind # "ping" => ks # {})
  BY <1>1, CommandKeys DEF Sound
<1> QED BY <1>2 DEF failed

-----------------------------------------------------------------------------
(* Operations.                                                             *)
Balanced(o) ==
  o.done =>
    /\ o.kind \in Reads => /\ o.hit \cup o.miss \cup o.error = o.keys
                           /\ o.hit \cap o.miss = {}
                           /\ o.error \cap (o.hit \cup o.miss) = {}
    /\ \A k \in o.keys : k \in UNION o.bad => k \in o.error
    /\ o.kind # "ping" => (o.err <=> o.error # {})

Ops ==
  /\ op \in [Clients -> OpRecord]
  /\ \A c \in Clients : Sound(op[c]) /\ Balanced(op[c])

LEMMA InvOps ==
  ASSUME RemoteInv
  PROVE  Ops /\ now \in Nat /\ cache \in Backends /\ cache \in Backend /\ cache.csc \in Nat
<1>1. op \in [Clients -> OpRecord] /\ now \in Nat /\ cache \in Backends
  BY DEF RemoteInv, TypeOK, OpRecord
<1>2. \A c \in Clients : Sound(op[c]) /\ Balanced(op[c])
  BY DEF RemoteInv, Operating, HooksBalance, Balanced
<1>3. cache \in Backend /\ cache.csc \in Nat
  BY <1>1, RemoteAssumption DEF Backend
<1> QED BY <1>1, <1>2, <1>3 DEF Ops

(* A step that changes one operation.                                      *)
LEMMA OpUpdate ==
  ASSUME Ops, NEW c \in Clients, NEW new \in OpRecord, op' = [op EXCEPT ![c] = new],
         Sound(new), Balanced(new), UNCHANGED <<now, cache>>
  PROVE  Ops'
<1>1. op'[c] = new /\ \A d \in Clients \ {c} : op'[d] = op[d]
  BY DEF Ops
<1>2. op' \in [Clients -> OpRecord]
  BY DEF Ops
<1>3. ASSUME NEW d \in Clients PROVE Sound(op[d])' /\ Balanced(op[d])'
  <2>1. Sound(op'[d]) /\ Balanced(op'[d])
    BY <1>1 DEF Ops
  <2>2. Sound(op[d])'
    BY <2>1 DEF Sound, Commands
  <2> QED BY <2>1, <2>2 DEF Balanced
<1> QED BY <1>2, <1>3 DEF Ops

LEMMA OpsFrame ==
  ASSUME Ops, UNCHANGED <<op, cache>>, now \in Nat, now' \in Nat, now' >= now
  PROVE  Ops'
<1>1. op' \in [Clients -> OpRecord]
  BY DEF Ops
<1>2. ASSUME NEW d \in Clients PROVE Sound(op[d])' /\ Balanced(op[d])'
  <2>1. Sound(op[d]) /\ Balanced(op[d]) /\ op[d] \in OpRecord
    BY DEF Ops
  <2>2. Sound(op[d])'
    BY <2>1 DEF Sound, Commands
  <2> QED BY <2>1, <2>2 DEF Balanced
<1> QED BY <1>1, <1>2 DEF Ops

LEMMA CallUpdate ==
  ASSUME RemoteInv, NEW c \in Clients, NEW kind \in Reads \cup Writes \cup {"ping"},
         NEW keys \in SUBSET Keys, NEW val \in Vals \cup {NoEntry}, NEW ttl \in TTLs \cup {0},
         kind \in Sets => val \in Vals /\ ttl \in TTLs,
         kind \notin Sets => val = NoEntry,
         Call(c, kind, keys, val, ttl)
  PROVE  /\ Ops' /\ op[c].kind = "idle" /\ UNCHANGED <<now, cache, closed, store, wire, local>>
         /\ \A d \in Clients \ {c} : op'[d] = op[d]
<1>1. Ops /\ now \in Nat /\ cache.csc \in Nat /\ op \in [Clients -> OpRecord]
  BY InvOps DEF Ops
<1>2. ttl \in Nat /\ setCmd(val, ttl) \subseteq Nat
  BY RemoteAssumption, setCmdNat
<1>3. PICK d \in CtxTimeouts, px \in [keys -> IF val = NoEntry THEN {0} ELSE setCmd(val, ttl)] :
        op' = [op EXCEPT ![c] =
          [NoOp EXCEPT !.kind = kind, !.keys = keys, !.val = val, !.ttl = ttl,
                       !.start = now, !.ctx = opContext(IF d = 0 THEN 0 ELSE now + d),
                       !.px = [k \in Keys |-> IF k \in keys THEN px[k] ELSE 0],
                       !.await = Commands(kind, keys)]]
  BY DEF Call
<1> DEFINE ctx == opContext(IF d = 0 THEN 0 ELSE now + d)
           PX == [k \in Keys |-> IF k \in keys THEN px[k] ELSE 0]
           new == [NoOp EXCEPT !.kind = kind, !.keys = keys, !.val = val, !.ttl = ttl,
                               !.start = now, !.ctx = ctx, !.px = PX,
                               !.await = Commands(kind, keys)]
<1>4. ctx \in Nat
  BY <1>1, opContextNat, RemoteAssumption
<1>5. PX \in [Keys -> Nat]
  BY <1>2, <1>3
<1>6. Commands(kind, keys) \in SUBSET SUBSET Keys
  BY CommandKeys
<1>7. \A k \in keys : kind \in Sets => PX[k] \in setCmd(val, ttl)
  BY <1>3, RemoteAssumption
<1> HIDE DEF ctx, PX
<1>8. /\ new.kind = kind /\ new.keys = keys /\ new.val = val /\ new.ttl = ttl /\ new.start = now
      /\ new.px = PX /\ new.await = Commands(kind, keys) /\ new.bad = {}
      /\ new.hit = {} /\ new.miss = {} /\ new.error = {} /\ new.done = FALSE /\ new.err = FALSE
  BY DEF NoOp
<1>9. new \in OpRecord
  BY <1>1, <1>4, <1>5, <1>6, NoOpSound DEF OpRecord
<1>10. op' = [op EXCEPT ![c] = new]
  BY <1>3 DEF ctx, PX
<1> HIDE DEF new
<1>11. Sound(new)
  BY <1>7, <1>8 DEF Sound, Sets, Reads, Writes
<1>12. Balanced(new)
  BY <1>1, <1>8 DEF Balanced
<1>13. op[c].kind = "idle" /\ UNCHANGED <<now, cache, closed, store, wire, local>>
  BY DEF Call
<1>14. Ops'
  BY <1>1, <1>9, <1>10, <1>11, <1>12, <1>13, OpUpdate
<1> QED BY <1>1, <1>10, <1>13, <1>14

LEMMA CallOps ==
  ASSUME RemoteInv, NEW c \in Clients, AnyCall(c)
  PROVE  /\ Ops' /\ op[c].kind = "idle" /\ UNCHANGED <<now, cache, closed, store, wire, local>>
         /\ \A d \in Clients \ {c} : op'[d] = op[d]
<1> DEFINE Goal == /\ Ops' /\ op[c].kind = "idle"
                   /\ UNCHANGED <<now, cache, closed, store, wire, local>>
                   /\ \A d \in Clients \ {c} : op'[d] = op[d]
<1>1. CASE Call(c, "ping", {}, NoEntry, 0)
  BY <1>1, CallUpdate DEF Sets
<1>2. ASSUME NEW k \in Keys, NEW kind \in {"get", "delete"}, Call(c, kind, {k}, NoEntry, 0)
      PROVE  Goal
  <2>1. kind \in Reads \cup Writes \cup {"ping"} /\ kind \notin Sets /\ {k} \in SUBSET Keys
    BY DEF Sets, Reads, Writes
  <2> HIDE DEF Goal
  <2> QED BY <1>2, <2>1, CallUpdate DEF Goal
<1>3. ASSUME NEW keys \in SUBSET Keys, NEW kind \in Sets, NEW val \in Vals, NEW ttl \in TTLs,
             Call(c, kind, keys, val, ttl)
      PROVE  Goal
  <2>1. kind \in Reads \cup Writes \cup {"ping"}
    BY DEF Sets, Writes
  <2> QED BY <1>3, <2>1, CallUpdate
<1>4. ASSUME NEW keys \in Batches, Call(c, "getmany", keys, NoEntry, 0)
      PROVE  Goal
  <2>1. "getmany" \in Reads \cup Writes \cup {"ping"} /\ "getmany" \notin Sets /\ keys \in SUBSET Keys
    BY RemoteAssumption DEF Sets, Reads
  <2> QED BY <1>4, <2>1, CallUpdate
<1>5. Batches \subseteq SUBSET Keys /\ (\A k \in Keys : {k} \in SUBSET Keys)
      /\ "set" \in Sets /\ "setmany" \in Sets
  BY RemoteAssumption DEF Sets
<1> HIDE DEF Goal
<1>6. CASE \E k \in Keys : Call(c, "get", {k}, NoEntry, 0) \/ Call(c, "delete", {k}, NoEntry, 0)
  BY <1>2, <1>6 DEF Goal
<1>7. CASE \E k \in Keys, val \in Vals, ttl \in TTLs : Call(c, "set", {k}, val, ttl)
  BY <1>3, <1>5, <1>7 DEF Goal
<1>8. CASE \E keys \in Batches, val \in Vals, ttl \in TTLs : Call(c, "setmany", keys, val, ttl)
  BY <1>3, <1>5, <1>8 DEF Goal
<1>9. CASE \E keys \in Batches : Call(c, "getmany", keys, NoEntry, 0)
  BY <1>4, <1>9 DEF Goal
<1> QED BY <1>1, <1>6, <1>7, <1>8, <1>9 DEF AnyCall

(* An operation that waits gets answers, or learns of failures.            *)
Moves(o, new) ==
  /\ new.kind = o.kind /\ new.keys = o.keys /\ new.val = o.val /\ new.ttl = o.ttl
  /\ new.px = o.px /\ new.start = o.start /\ new.done = o.done /\ new.err = o.err
  /\ new.hit = o.hit /\ new.miss = o.miss /\ new.error = o.error
  /\ new.await \subseteq o.await /\ new.bad \subseteq o.bad \cup o.await

LEMMA MovesSound ==
  ASSUME NEW o \in OpRecord, Sound(o), o.await # {}, NEW new \in OpRecord, Moves(o, new)
  PROVE  Sound(new) /\ Balanced(new)
<1>1. o.done = FALSE
  BY DEF Sound, OpRecord
<1>2. Sound(new)
  BY <1>1 DEF Sound, Moves
<1> QED BY <1>1, <1>2 DEF Balanced, Moves

LEMMA WaitingOp ==
  ASSUME Ops, NEW c \in Clients, op[c].await # {}
  PROVE  /\ op[c].kind \in Reads \cup Writes \cup {"ping"} /\ ~op[c].done
         /\ op[c] \in OpRecord /\ Sound(op[c])
<1>1. op[c] \in OpRecord /\ Sound(op[c])
  BY DEF Ops
<1>2. op[c].kind # "idle"
  BY <1>1 DEF Sound, Commands, DoMulti
<1> QED BY <1>1, <1>2 DEF Sound, OpRecord

LEMMA LocalHitOps ==
  ASSUME RemoteInv, NEW c \in Clients, NEW k \in Keys, LocalHit(c, k)
  PROVE  /\ Ops'
         /\ \E new \in OpRecord : /\ op' = [op EXCEPT ![c] = new] /\ Moves(op[c], new)
                                  /\ new.await = op[c].await \ {{k}}
         /\ {k} \in Unsent(c) /\ UNCHANGED <<now, cache, closed, store, wire, local>>
<1>1. Ops /\ now \in Nat /\ cache.csc \in Nat /\ op \in [Clients -> OpRecord]
  BY InvOps DEF Ops
<1>2. {k} \in Unsent(c) /\ {k} \in op[c].await /\ Cached(c, {k})
      /\ UNCHANGED <<now, cache, closed, store, wire, local>>
  BY DEF LocalHit, Unsent
<1>3. op[c] \in OpRecord /\ Sound(op[c])
  BY <1>1, <1>2, WaitingOp
<1>4. local[k] \in CopyRecord
  BY DEF RemoteInv, TypeOK, CopyRecord
<1> DEFINE new == [op[c] EXCEPT !.await = @ \ {{k}}, !.got[k] = local[k].entry]
<1>5. new \in OpRecord
  BY <1>3, <1>4 DEF OpRecord, CopyRecord
<1>6. op' = [op EXCEPT ![c] = new]
  BY <1>1 DEF LocalHit, OpRecord
<1>7. Moves(op[c], new) /\ new.await = op[c].await \ {{k}}
  BY <1>3 DEF Moves, OpRecord
<1> HIDE DEF new
<1>8. Ops'
  BY <1>1, <1>2, <1>3, <1>5, <1>6, <1>7, MovesSound, OpUpdate
<1> QED BY <1>2, <1>5, <1>6, <1>7, <1>8

(* The commands that get an answer, or an error, at once.                  *)
LEMMA CommandsOps ==
  ASSUME RemoteInv, NEW c \in Clients, NEW out \in SUBSET op[c].await, out # {},
         NEW bad \in SUBSET out, NEW got \in [Keys -> Entry(Nat)],
         op' = [op EXCEPT ![c].await = @ \ out, ![c].bad = @ \cup bad, ![c].got = got],
         UNCHANGED <<now, cache>>
  PROVE  /\ Ops'
         /\ \E new \in OpRecord : /\ op' = [op EXCEPT ![c] = new] /\ Moves(op[c], new)
                                  /\ new.await = op[c].await \ out
<1>1. Ops /\ now \in Nat /\ cache.csc \in Nat /\ op \in [Clients -> OpRecord]
  BY InvOps DEF Ops
<1>2. op[c] \in OpRecord /\ Sound(op[c]) /\ op[c].await # {}
  BY <1>1, WaitingOp
<1> DEFINE new == [op[c] EXCEPT !.await = @ \ out, !.bad = @ \cup bad, !.got = got]
<1>3. new \in OpRecord
  BY <1>2 DEF OpRecord
<1>4. op' = [op EXCEPT ![c] = new]
  BY <1>1 DEF OpRecord
<1>5. Moves(op[c], new) /\ new.await = op[c].await \ out
  BY <1>2 DEF Moves, OpRecord
<1> HIDE DEF new
<1>6. Ops'
  BY <1>1, <1>2, <1>3, <1>4, <1>5, MovesSound, OpUpdate
<1> QED BY <1>3, <1>4, <1>5, <1>6

(* What the following steps do to the operation of c: the commands in out  *)
(* are no longer waited for.                                               *)
Settles(c, out) ==
  /\ Ops'
  /\ \E new \in OpRecord : /\ op' = [op EXCEPT ![c] = new] /\ Moves(op[c], new)
                           /\ new.await = op[c].await \ out

LEMMA AnswerOps ==
  ASSUME RemoteInv, NEW m \in wire, m.from # None, Answer(m), UNCHANGED <<now, cache>>
  PROVE  m.from \in Clients /\ Settles(m.from, {m.keys})
<1>1. m.from \in Clients /\ m.keys \in op[m.from].await
  BY DEF RemoteInv, TypeOK, Message, Attached
<1>2. op \in [Clients -> OpRecord] /\ op[m.from] \in OpRecord /\ store \in [Keys -> Item(Nat)]
  BY <1>1, InvOps DEF Ops, RemoteInv, TypeOK
<1> DEFINE got == [k \in Keys |-> IF m.kind \in Reads /\ k \in m.keys
                                  THEN store[k].entry ELSE op[m.from].got[k]]
<1>3. got \in [Keys -> Entry(Nat)]
  BY <1>2 DEF OpRecord, Item
<1>4. op' = [op EXCEPT ![m.from].await = @ \ {m.keys}, ![m.from].bad = @ \cup {}, ![m.from].got = got]
  <2>1. op' = [op EXCEPT ![m.from].await = @ \ {m.keys}, ![m.from].got = got]
    BY <1>1, <1>2 DEF Answer
  <2>2. op[m.from].bad \cup {} = op[m.from].bad
    OBVIOUS
  <2> HIDE DEF got
  <2> QED BY <1>1, <1>2, <2>1, <2>2 DEF OpRecord
<1> HIDE DEF got
<1> QED BY <1>1, <1>3, <1>4, CommandsOps DEF Settles

LEMMA RefuseOps ==
  ASSUME RemoteInv, NEW m \in wire, Refuse(m)
  PROVE  m.from \in Clients /\ Settles(m.from, {m.keys})
<1>1. m.from \in Clients /\ m.keys \in op[m.from].await
  BY DEF Refuse, RemoteInv, TypeOK, Message, Attached
<1>2. op \in [Clients -> OpRecord] /\ op[m.from] \in OpRecord
  BY <1>1, InvOps DEF Ops
<1>3. op' = [op EXCEPT ![m.from].await = @ \ {m.keys}, ![m.from].bad = @ \cup {m.keys},
                       ![m.from].got = op[m.from].got]
  BY <1>1, <1>2 DEF Refuse, OpRecord
<1>4. UNCHANGED <<now, cache>> /\ op[m.from].got \in [Keys -> Entry(Nat)]
  BY <1>2 DEF Refuse, OpRecord
<1> QED BY <1>1, <1>3, <1>4, CommandsOps DEF Settles

LEMMA GiveUpOps ==
  ASSUME RemoteInv, NEW c \in Clients, GiveUp(c)
  PROVE  Settles(c, Unsent(c))
<1>1. op \in [Clients -> OpRecord] /\ op[c] \in OpRecord
  BY InvOps DEF Ops
<1> DEFINE out == Unsent(c)
<1>2. out \in SUBSET op[c].await /\ out # {} /\ UNCHANGED <<now, cache>>
  BY DEF GiveUp, Unsent
<1>3. op' = [op EXCEPT ![c].await = @ \ out, ![c].bad = @ \cup out]
  BY DEF GiveUp
<1> HIDE DEF out
<1>4. op' = [op EXCEPT ![c].await = @ \ out, ![c].bad = @ \cup out, ![c].got = op[c].got]
  BY <1>1, <1>3 DEF OpRecord
<1>5. op[c].got \in [Keys -> Entry(Nat)]
  BY <1>1 DEF OpRecord
<1>6. Settles(c, out)
  BY <1>2, <1>4, <1>5, CommandsOps DEF Settles
<1> QED BY <1>6 DEF out

LEMMA TimedOutOps ==
  ASSUME RemoteInv, NEW c \in Clients, TimedOut(c)
  PROVE  Settles(c, op[c].await)
<1>1. op \in [Clients -> OpRecord] /\ op[c] \in OpRecord
  BY InvOps DEF Ops
<1> DEFINE out == op[c].await
<1>2. out \in SUBSET op[c].await /\ out # {} /\ UNCHANGED <<now, cache>>
  BY DEF TimedOut
<1>3. op' = [op EXCEPT ![c].await = @ \ out, ![c].bad = @ \cup out, ![c].got = op[c].got]
  <2>1. op[c].await \ out = {}
    OBVIOUS
  <2>2. op' = [op EXCEPT ![c].await = {}, ![c].bad = @ \cup out]
    BY DEF TimedOut
  <2> HIDE DEF out
  <2> QED BY <1>1, <2>1, <2>2 DEF OpRecord
<1>4. op[c].got \in [Keys -> Entry(Nat)]
  BY <1>1 DEF OpRecord
<1> QED BY <1>2, <1>3, <1>4, CommandsOps DEF Settles

(* The end of a method: the result of a sound operation balances.          *)
LEMMA ResultBalanced ==
  ASSUME NEW o \in OpRecord, Sound(o), o.kind # "idle", o.await = {}, ~o.done
  PROVE  /\ Result([o EXCEPT !.done = TRUE]) \in OpRecord
         /\ Sound(Result([o EXCEPT !.done = TRUE])) /\ Balanced(Result([o EXCEPT !.done = TRUE]))
<1> DEFINE p == [o EXCEPT !.done = TRUE]
           f == failed(p)
           found == Found(p)
<1>1. p \in OpRecord /\ p.done = TRUE /\ p.kind # "idle" /\ p.await = {}
      /\ p.hit = {} /\ p.miss = {} /\ p.error = {} /\ p.err = FALSE
  BY DEF OpRecord, Sound
<1>2. Sound(p)
  BY DEF Sound, OpRecord
<1>3. f \subseteq p.keys /\ (p.kind # "ping" => (p.bad # {} <=> f # {})) /\ p.keys \in SUBSET Keys
  BY <1>1, <1>2, failedKeys DEF OpRecord
<1>4. found \subseteq p.keys \ f
  BY DEF Found
<1>5. UNION p.bad = f
  BY DEF failed
<1>k. p.kind # "ping" /\ p.bad # {} => p.keys # {}
  BY <1>3
<1> HIDE DEF p, f, found
<1> DEFINE q == Result(p)
           Good(r) == r \in OpRecord /\ Sound(r) /\ Balanced(r)
           Same(r) == /\ r.kind = p.kind /\ r.keys = p.keys /\ r.val = p.val /\ r.ttl = p.ttl
                      /\ r.px = p.px /\ r.bad = p.bad /\ r.await = p.await /\ r.done = p.done
           Parts(r) == /\ r.hit \cup r.miss \cup r.error = p.keys
                       /\ r.hit \cap r.miss = {} /\ r.error \cap (r.hit \cup r.miss) = {}
           Fails(r) == r.err <=> r.error # {}
<1>6. ASSUME NEW r \in OpRecord, Same(r), p.kind \in Reads => Parts(r), f \subseteq r.error,
             p.kind # "ping" => Fails(r)
      PROVE  Good(r)
  <2>1. Sound(r)
    BY <1>1, <1>2, <1>6 DEF Sound
  <2>2. \A k \in r.keys : k \in UNION r.bad => k \in r.error
    BY <1>5, <1>6
  <2>3. Balanced(r)
    BY <1>6, <2>2 DEF Balanced
  <2> QED BY <1>1, <1>6, <2>1, <2>3
<1> SUFFICES Good(q)
  BY DEF p
<1> HIDE DEF q, Good, Same, Parts, Fails
<1>7. CASE p.kind = "get" \/ (p.kind = "getmany" /\ cache.library # "redis")
  <2>1. q = [p EXCEPT !.hit = found, !.miss = p.keys \ (f \cup found), !.error = f, !.err = f # {}]
    BY <1>3, <1>7 DEF q, Result, Get, ValkeyGetMany, f, found
  <2>2. q \in OpRecord
    <3>1. PICK b \in BOOLEAN : b = (f # {})
      OBVIOUS
    <3>2. q = [p EXCEPT !.hit = found, !.miss = p.keys \ (f \cup found), !.error = f, !.err = b]
      BY <2>1, <3>1
    <3> QED BY <1>1, <1>3, <1>4, <3>2 DEF OpRecord
  <2>3. Same(q) /\ q.hit = found /\ q.miss = p.keys \ (f \cup found) /\ q.error = f
    BY <1>1, <2>1 DEF OpRecord, Same
  <2>4. Fails(q)
    BY <1>1, <2>1 DEF OpRecord, Fails
  <2>5. Parts(q)
    BY <1>3, <1>4, <2>3 DEF Parts
  <2> QED BY <1>6, <2>2, <2>3, <2>4, <2>5
<1>8. CASE p.kind = "getmany" /\ cache.library = "redis"
  <2>1. CASE p.bad # {}
    <3>1. q = [p EXCEPT !.error = p.keys, !.err = TRUE]
      BY <1>8, <2>1 DEF q, Result, RedisGetMany
    <3>2. q \in OpRecord /\ Same(q) /\ q.hit = {} /\ q.miss = {} /\ q.error = p.keys
      BY <1>1, <1>3, <3>1 DEF OpRecord, Same
    <3>3. Parts(q)
      BY <3>2 DEF Parts
    <3>4. Fails(q)
      BY <1>1, <1>8, <1>k, <2>1, <3>1, <3>2 DEF Fails, OpRecord
    <3> QED BY <1>3, <1>6, <3>2, <3>3, <3>4
  <2>2. CASE p.bad = {}
    <3>1. q = [p EXCEPT !.hit = found, !.miss = p.keys \ found]
      BY <1>8, <2>2 DEF q, Result, RedisGetMany, found
    <3>2. q \in OpRecord
      BY <1>1, <1>3, <1>4, <3>1 DEF OpRecord
    <3>3. Same(q) /\ q.hit = found /\ q.miss = p.keys \ found /\ q.error = {}
      BY <1>1, <3>1 DEF OpRecord, Same
    <3>4. Parts(q) /\ f = {}
      BY <1>3, <1>4, <1>8, <2>2, <3>3 DEF Parts
    <3>5. Fails(q)
      BY <1>1, <3>1, <3>3 DEF Fails, OpRecord
    <3> QED BY <1>6, <3>2, <3>3, <3>4, <3>5
  <2> QED BY <2>1, <2>2
<1>9. CASE p.kind \in {"set", "delete"} \/ (p.kind = "setmany" /\ cache.library # "redis")
  <2>1. q = [p EXCEPT !.error = f, !.err = f # {}]
    BY <1>3, <1>9 DEF q, Result, SetOrDelete, ValkeySetMany, f
  <2>2. q \in OpRecord /\ Same(q) /\ q.error = f
    <3>1. PICK b \in BOOLEAN : b = (f # {})
      OBVIOUS
    <3>2. q = [p EXCEPT !.error = f, !.err = b]
      BY <2>1, <3>1
    <3> QED BY <1>1, <1>3, <3>2 DEF OpRecord, Same
  <2>3. Fails(q)
    BY <1>1, <2>1 DEF OpRecord, Fails
  <2>4. p.kind \notin Reads
    BY <1>9 DEF Reads
  <2> QED BY <1>6, <2>2, <2>3, <2>4
<1>10. CASE p.kind = "setmany" /\ cache.library = "redis"
  <2>1. p.kind \notin Reads
    BY <1>10 DEF Reads
  <2>2. CASE p.bad # {}
    <3>1. q = [p EXCEPT !.error = p.keys, !.err = TRUE]
      BY <1>10, <2>2 DEF q, Result, RedisSetMany
    <3>2. q \in OpRecord /\ Same(q) /\ q.error = p.keys
      BY <1>1, <1>3, <3>1 DEF OpRecord, Same
    <3>3. Fails(q)
      BY <1>1, <1>10, <1>k, <2>2, <3>1, <3>2 DEF Fails, OpRecord
    <3> QED BY <1>3, <1>6, <2>1, <3>2, <3>3
  <2>3. CASE p.bad = {}
    <3>1. q = p
      BY <1>10, <2>3 DEF q, Result, RedisSetMany
    <3>2. q \in OpRecord /\ Same(q) /\ Fails(q)
      BY <1>1, <3>1 DEF Same, Fails
    <3>3. f = {}
      BY <1>3, <1>10, <2>3
    <3> QED BY <1>6, <2>1, <3>2, <3>3
  <2> QED BY <2>2, <2>3
<1>11. CASE p.kind = "ping"
  <2>1. q = [p EXCEPT !.err = p.bad # {}]
    BY <1>11 DEF q, Result, Ping
  <2>2. p.keys = {} \/ f \subseteq {}
    BY <1>2, <1>11 DEF Sound, Commands, f, failed
  <2>3. q \in OpRecord /\ Same(q) /\ q.error = {}
    BY <1>1, <1>3, <2>1 DEF OpRecord, Same
  <2>4. p.kind \notin Reads
    BY <1>11 DEF Reads
  <2> QED BY <1>3, <1>6, <1>11, <2>2, <2>3, <2>4
<1> QED BY <1>1, <1>7, <1>8, <1>9, <1>10, <1>11 DEF OpRecord, Reads, Writes

LEMMA FinishOps ==
  ASSUME RemoteInv, NEW c \in Clients, Finish(c) \/ Return(c)
  PROVE  /\ Ops' /\ op[c].await = {} /\ UNCHANGED <<now, cache, closed, store, wire, local>>
         /\ \A d \in Clients \ {c} : op'[d] = op[d]
<1>1. Ops /\ now \in Nat /\ cache.csc \in Nat /\ op \in [Clients -> OpRecord]
      /\ op[c] \in OpRecord /\ Sound(op[c])
  BY InvOps DEF Ops
<1>2. op[c].await = {} /\ UNCHANGED <<now, cache, closed, store, wire, local>>
  BY <1>1 DEF Finish, Return, Sound
<1>3. CASE Finish(c)
  <2> DEFINE new == Result([op[c] EXCEPT !.done = TRUE])
  <2>1. op' = [op EXCEPT ![c] = new]
    BY <1>3 DEF Finish
  <2>2. new \in OpRecord /\ Sound(new) /\ Balanced(new)
    BY <1>1, <1>3, ResultBalanced DEF Finish
  <2> HIDE DEF new
  <2>3. Ops'
    BY <1>1, <1>2, <2>1, <2>2, OpUpdate
  <2> QED BY <1>1, <1>2, <2>1, <2>3
<1>4. CASE Return(c)
  <2>1. op' = [op EXCEPT ![c] = NoOp]
    BY <1>4 DEF Return
  <2>2. Balanced(NoOp)
    BY NoOpSound DEF Balanced
  <2>3. Ops'
    BY <1>1, <1>2, <2>1, <2>2, NoOpSound, OpUpdate
  <2> QED BY <1>1, <1>2, <2>1, <2>3
<1> QED BY <1>3, <1>4

-----------------------------------------------------------------------------
(* Messages.                                                               *)
Wire == wire \subseteq Message /\ Attached /\ Writing

LEMMA InvWire == ASSUME RemoteInv PROVE Wire
BY DEF RemoteInv, TypeOK, Wire

(* Nothing is sent, and the operations with messages under way are as they *)
(* were.                                                                   *)
LEMMA WireKept ==
  ASSUME Wire, wire' \subseteq wire,
         \A m \in wire' : m.from # None => op'[m.from] = op[m.from]
  PROVE  Wire'
<1>1. wire' \subseteq Message /\ Writing'
  BY DEF Wire, Writing
<1>2. ASSUME NEW m \in wire', m.from # None
      PROVE  m.keys \in op'[m.from].await /\ m = Command(m.from, m.keys)'
  <2>1. m.keys \in op[m.from].await /\ m = Command(m.from, m.keys)
    BY <1>2 DEF Wire, Attached
  <2> QED BY <1>2, <2>1 DEF Command
<1> QED BY <1>1, <1>2 DEF Wire, Attached

(* An operation without commands under way has no messages.                *)
LEMMA NoMessages ==
  ASSUME Wire, NEW c, op[c].await = {}
  PROVE  \A m \in wire : m.from # None => m.from # c
BY DEF Wire, Attached

LEMMA IdleWire ==
  ASSUME Wire, NEW c \in Clients, op[c].await = {}, wire' = wire,
         \A d \in Clients \ {c} : op'[d] = op[d]
  PROVE  Wire'
<1>1. \A m \in wire : m.from # None => m.from \in Clients \ {c}
  BY NoMessages DEF Wire, Message
<1> QED BY <1>1, WireKept

(* Commands of c are settled, and c has no message for them any more.      *)
LEMMA SettledWire ==
  ASSUME Wire, op \in [Clients -> OpRecord], NEW c \in Clients, NEW out, Settles(c, out),
         wire' \subseteq wire,
         \A m \in wire' : m.from = c => m.keys \notin out
  PROVE  Wire'
<1>1. PICK new \in OpRecord : op' = [op EXCEPT ![c] = new] /\ Moves(op[c], new)
                              /\ new.await = op[c].await \ out
  BY DEF Settles
<1>2. wire' \subseteq Message /\ Writing'
  BY DEF Wire, Writing
<1>3. ASSUME NEW m \in wire', m.from # None
      PROVE  m.keys \in op'[m.from].await /\ m = Command(m.from, m.keys)'
  <2>1. m.keys \in op[m.from].await /\ m = Command(m.from, m.keys) /\ m.from \in Clients
    BY <1>3 DEF Wire, Attached, Message
  <2>2. CASE m.from = c
    <3>1. op'[c] = new
      BY <1>1
    <3> QED BY <1>1, <2>1, <2>2, <3>1 DEF Command, Moves
  <2>3. CASE m.from # c
    BY <1>1, <2>1, <2>3 DEF Command
  <2> QED BY <2>2, <2>3
<1> QED BY <1>2, <1>3 DEF Wire, Attached

(* Only one message is under way for a command.                            *)
LEMMA MessageUnique ==
  ASSUME Wire, NEW m \in wire, NEW n \in wire, m.from # None, n.from = m.from, n.keys = m.keys
  PROVE  n = m
BY DEF Wire, Attached

LEMMA SentTyped ==
  ASSUME Ops, NEW c \in Clients, NEW ks \in op[c].await
  PROVE  /\ Command(c, ks) \in Message
         /\ op[c].kind \in Writes => \E k \in Keys : ks = {k}
         /\ op[c].kind \in Sets => /\ op[c].val \in Vals /\ op[c].ttl \in TTLs
                                   /\ Command(c, ks).px \in setCmd(op[c].val, op[c].ttl)
<1>1. /\ op[c].kind \in Reads \cup Writes \cup {"ping"} /\ op[c] \in OpRecord /\ Sound(op[c])
  BY WaitingOp
<1>2. ks \in Commands(op[c].kind, op[c].keys) /\ op[c].keys \in SUBSET Keys
  BY <1>1 DEF Sound, OpRecord
<1>3. ks \subseteq op[c].keys /\ (op[c].kind \in Writes => \E k \in op[c].keys : ks = {k})
  BY <1>2, CommandKeys
<1>4. CASE op[c].kind \notin Sets
  <2>1. op[c].val = NoEntry /\ Command(c, ks).px = 0
    BY <1>1, <1>4 DEF Sound, Command
  <2>2. Command(c, ks) = [from |-> c, kind |-> op[c].kind, keys |-> ks, val |-> op[c].val,
                          ttl |-> op[c].ttl, px |-> 0]
    BY <2>1 DEF Command
  <2>3. Command(c, ks) \in Message
    BY <1>1, <1>2, <1>3, <2>2 DEF Message, OpRecord
  <2> QED BY <1>2, <1>3, <1>4, <2>3
<1>5. CASE op[c].kind \in Sets
  <2>1. op[c].val \in Vals /\ op[c].ttl \in TTLs /\ op[c].val # NoEntry
    BY <1>1, <1>5, RemoteAssumption DEF Sound
  <2>2. PICK k \in op[c].keys : ks = {k}
    BY <1>3, <1>5 DEF Sets, Writes
  <2>3. (CHOOSE j \in ks : TRUE) = k
    BY <2>2
  <2>4. Command(c, ks) = [from |-> c, kind |-> op[c].kind, keys |-> ks, val |-> op[c].val,
                          ttl |-> op[c].ttl, px |-> op[c].px[k]]
    BY <2>1, <2>3 DEF Command
  <2>5. op[c].px[k] \in setCmd(op[c].val, op[c].ttl) /\ op[c].px[k] \in Nat
    BY <1>1, <1>2, <1>5, <2>2 DEF Sound, OpRecord
  <2>6. Command(c, ks) \in Message
    BY <1>1, <1>2, <1>3, <2>4, <2>5 DEF Message, OpRecord
  <2> QED BY <1>2, <2>1, <2>2, <2>4, <2>5, <2>6
<1> QED BY <1>4, <1>5

LEMMA SendWire ==
  ASSUME RemoteInv, NEW c \in Clients, Send(c)
  PROVE  Wire'
<1>1. Wire /\ Ops /\ UNCHANGED op
  BY InvWire, InvOps DEF Send
<1>2. PICK out \in SUBSET Unsent(c) : wire' = wire \cup {Command(c, ks) : ks \in out}
  BY DEF Send, Command
<1>3. out \subseteq op[c].await
  BY <1>2 DEF Unsent
<1>4. ASSUME NEW m \in wire'
      PROVE  /\ m \in Message
             /\ m.from # None => m.keys \in op[m.from].await /\ m = Command(m.from, m.keys)
             /\ m.from = None => m.kind \in Writes
             /\ m.kind \in Writes => \E k \in Keys : m.keys = {k}
             /\ m.kind \in Sets => m.val \in Vals /\ m.ttl \in TTLs /\ m.px \in setCmd(m.val, m.ttl)
  <2>1. CASE m \in wire
    BY <1>1, <2>1 DEF Wire, Attached, Writing
  <2>2. CASE m \notin wire
    <3>1. PICK ks \in out : m = Command(c, ks)
      BY <1>2, <2>2
    <3>2. /\ ks \in op[c].await /\ m.from = c /\ m.keys = ks /\ m.kind = op[c].kind
          /\ m.val = op[c].val /\ m.ttl = op[c].ttl /\ c # None
      BY <1>3, <3>1, RemoteAssumption DEF Command
    <3> HIDE DEF Command
    <3> QED BY <1>1, <3>1, <3>2, SentTyped
  <2> QED BY <2>1, <2>2
<1>5. Attached'
  BY <1>1, <1>4 DEF Attached, Command
<1> QED BY <1>4, <1>5 DEF Wire, Writing

LEMMA OrphanedTyped ==
  ASSUME Wire, NEW c \in Clients, NEW m \in Orphaned(c)
  PROVE  /\ m \in Message
         /\ m.from # None => m \in wire /\ m.from # c
         /\ m.from = None => m.kind \in Writes
         /\ m.kind \in Writes => \E k \in Keys : m.keys = {k}
         /\ m.kind \in Sets => m.val \in Vals /\ m.ttl \in TTLs /\ m.px \in setCmd(m.val, m.ttl)
<1>1. CASE m \in wire /\ m.from # c
  BY <1>1 DEF Wire, Writing
<1>2. CASE \E w \in wire : w.kind \in Writes /\ m = [w EXCEPT !.from = None]
  <2>1. PICK w \in wire : w.kind \in Writes /\ m = [w EXCEPT !.from = None]
    BY <1>2
  <2>2. w \in Message
    BY DEF Wire
  <2>3. /\ m \in Message /\ m.from = None /\ m.kind = w.kind /\ m.keys = w.keys
        /\ m.val = w.val /\ m.ttl = w.ttl /\ m.px = w.px
    BY <2>1, <2>2 DEF Message
  <2> QED BY <2>1, <2>3 DEF Wire, Writing
<1> QED BY <1>1, <1>2 DEF Orphaned

LEMMA DisconnectWire ==
  ASSUME RemoteInv, NEW c \in Clients, Disconnect(c)
  PROVE  Wire'
<1>1. Wire /\ UNCHANGED op /\ wire' = Orphaned(c)
  BY InvWire DEF Disconnect
<1>2. wire' \subseteq Message /\ Writing'
  BY <1>1, OrphanedTyped DEF Writing
<1>3. ASSUME NEW m \in wire', m.from # None
      PROVE  m.keys \in op'[m.from].await /\ m = Command(m.from, m.keys)'
  <2>1. m \in wire
    BY <1>1, <1>3, OrphanedTyped
  <2> QED BY <1>1, <1>3, <2>1 DEF Wire, Attached, Command
<1> QED BY <1>2, <1>3 DEF Wire, Attached

LEMMA TimedOutWire ==
  ASSUME RemoteInv, NEW c \in Clients, TimedOut(c)
  PROVE  Wire'
<1>1. Wire /\ wire' = Orphaned(c) /\ op \in [Clients -> OpRecord]
  BY InvWire, InvOps DEF TimedOut, Ops
<1>2. wire' \subseteq Message /\ Writing'
  BY <1>1, OrphanedTyped DEF Writing
<1>3. ASSUME NEW m \in wire', m.from # None
      PROVE  m.keys \in op'[m.from].await /\ m = Command(m.from, m.keys)'
  <2>1. m \in wire /\ m.from # c /\ m.from \in Clients
    BY <1>1, <1>2, <1>3, OrphanedTyped DEF Message
  <2>2. op'[m.from] = op[m.from]
    BY <1>1, <2>1 DEF TimedOut
  <2>3. m.keys \in op[m.from].await /\ m = Command(m.from, m.keys)
    BY <1>1, <1>3, <2>1 DEF Wire, Attached
  <2> QED BY <2>2, <2>3 DEF Command
<1> QED BY <1>2, <1>3 DEF Wire, Attached

LEMMA MessageWire ==
  ASSUME RemoteInv, NEW m \in wire, Execute(m) \/ Refuse(m) \/ Lose(m)
  PROVE  Wire' /\ Ops'
<1>1. Wire /\ Ops /\ op \in [Clients -> OpRecord] /\ now \in Nat
  BY InvWire, InvOps DEF Ops
<1>2. wire' = wire \ {m} /\ UNCHANGED <<now, cache>>
  BY DEF Execute, Refuse, Lose
<1>3. CASE UNCHANGED op
  <2>1. Wire'
    BY <1>1, <1>2, <1>3, WireKept
  <2>2. Ops'
    BY <1>1, <1>2, <1>3, OpsFrame
  <2> QED BY <2>1, <2>2
<1>4. CASE m.from # None /\ (Answer(m) \/ Refuse(m))
  <2>1. m.from \in Clients /\ Settles(m.from, {m.keys})
    BY <1>2, <1>4, AnswerOps, RefuseOps
  <2>2. \A n \in wire' : n.from = m.from => n.keys \notin {m.keys}
    BY <1>1, <1>2, <1>4, MessageUnique
  <2>3. Wire'
    BY <1>1, <1>2, <2>1, <2>2, SettledWire
  <2> QED BY <2>1, <2>3 DEF Settles
<1> QED BY <1>3, <1>4 DEF Execute, Refuse, Lose

LEMMA GiveUpWire ==
  ASSUME RemoteInv, NEW c \in Clients, GiveUp(c)
  PROVE  Wire' /\ Ops'
<1>1. Wire /\ op \in [Clients -> OpRecord] /\ wire' = wire /\ Settles(c, Unsent(c))
  BY InvWire, InvOps, GiveUpOps DEF Ops, GiveUp
<1>2. \A m \in wire' : m.from = c => m.keys \notin Unsent(c)
  BY <1>1 DEF Unsent
<1>3. Wire'
  BY <1>1, <1>2, SettledWire
<1> QED BY <1>1, <1>3 DEF Settles

LEMMA LocalHitWire ==
  ASSUME RemoteInv, NEW c \in Clients, NEW k \in Keys, LocalHit(c, k)
  PROVE  Wire' /\ Ops'
<1>1. Wire /\ op \in [Clients -> OpRecord] /\ wire' = wire /\ {k} \in Unsent(c)
      /\ Settles(c, {{k}})
  BY InvWire, InvOps, LocalHitOps DEF Ops, Settles
<1>2. \A m \in wire' : m.from = c => m.keys \notin {{k}}
  BY <1>1 DEF Unsent
<1>3. Wire'
  BY <1>1, <1>2, SettledWire
<1> QED BY <1>1, <1>3 DEF Settles

(* No step breaks what is said of operations and messages.                 *)
LEMMA NextOps ==
  ASSUME RemoteInv, Next
  PROVE  Ops' /\ Wire'
<1>1. Ops /\ Wire /\ now \in Nat /\ op \in [Clients -> OpRecord]
  BY InvOps, InvWire DEF Ops
<1>2. CASE Close \/ Tick \/ \E k \in Keys : Invalidated(k)
  <2>1. UNCHANGED <<op, cache, wire>> /\ now' \in Nat /\ now' >= now
    BY <1>1, <1>2 DEF Close, Tick, Invalidated
  <2> QED BY <1>1, <2>1, OpsFrame, WireKept
<1>3. ASSUME NEW c \in Clients, AnyCall(c) PROVE Ops' /\ Wire'
  <2>1. op[c].await = {}
    BY <1>1, <1>3, CallOps, WaitingOp DEF Reads, Writes
  <2> QED BY <1>1, <1>3, <2>1, CallOps, IdleWire
<1>4. ASSUME NEW c \in Clients, Finish(c) \/ Return(c) PROVE Ops' /\ Wire'
  BY <1>1, <1>4, FinishOps, IdleWire
<1>5. ASSUME NEW c \in Clients, Send(c) \/ Disconnect(c) PROVE Ops' /\ Wire'
  <2>1. UNCHANGED <<op, cache, now>>
    BY <1>5 DEF Send, Disconnect
  <2> QED BY <1>1, <1>5, <2>1, SendWire, DisconnectWire, OpsFrame
<1>6. ASSUME NEW c \in Clients, TimedOut(c) PROVE Ops' /\ Wire'
  BY <1>6, TimedOutOps, TimedOutWire DEF Settles
<1>7. ASSUME NEW c \in Clients, Step(c) PROVE Ops' /\ Wire'
  BY <1>4, <1>5, <1>6, <1>7, GiveUpWire, LocalHitWire DEF Step
<1> QED BY <1>2, <1>3, <1>7, MessageWire DEF Next

-----------------------------------------------------------------------------
(* The server and the client-side cache.                                   *)
Stores ==
  /\ store \in [Keys -> Item(Nat)] /\ EverythingExpires
  /\ local \in [Keys -> CopyRecord]

LEMMA InvStores ==
  ASSUME RemoteInv
  PROVE  Stores /\ now \in Nat /\ cache.csc \in Nat
BY InvOps DEF RemoteInv, TypeOK, Stores, CopyRecord

(* A write leaves an item that expires if its TTL is long enough.          *)
LEMMA WrittenItem ==
  ASSUME RemoteInv, NEW m \in wire, m.kind \in Sets
  PROVE  LET item == [entry |-> m.val, deadline |-> IF m.px > 0 THEN now + m.px ELSE 0]
         IN  /\ item \in Item(Nat)
             /\ (\A ttl \in TTLs : orDefault(ttl) * (100 - ttlJitter) >= 100) => item.deadline # 0
<1>1. m \in Message /\ m.val \in Vals /\ m.ttl \in TTLs /\ m.px \in setCmd(m.val, m.ttl)
  BY InvWire DEF Wire, Writing
<1>2. now \in Nat /\ m.val \in Entry(Nat) /\ m.px \in Nat /\ m.ttl \in Nat
  BY <1>1, InvOps, RemoteAssumption DEF Message
<1>3. (\A ttl \in TTLs : orDefault(ttl) * (100 - ttlJitter) >= 100) => m.px > 0
  BY <1>1, <1>2, setCmdPositive
<1> QED BY <1>2, <1>3 DEF Item

LEMMA ExecuteStores ==
  ASSUME RemoteInv, NEW m \in wire, Execute(m)
  PROVE  Stores'
<1>1. /\ Stores /\ now \in Nat /\ cache.csc \in Nat /\ m \in Message /\ UNCHANGED <<now, cache>>
      /\ now' \in Nat /\ now' >= now
  BY InvStores, InvWire DEF Wire, Execute
<1>2. store \in [Keys -> Item(Nat)] /\ local \in [Keys -> CopyRecord]
  BY <1>1 DEF Stores
<1>3. ASSUME NEW k \in Keys
      PROVE  \/ store'[k] = store[k] /\ (k \notin m.keys \/ m.kind \notin Writes)
             \/ store'[k] = NoItem
             \/ /\ store'[k] = [entry |-> m.val, deadline |-> IF m.px > 0 THEN now + m.px ELSE 0]
                /\ m.kind \in Sets
  BY <1>1 DEF Execute, Writes, Reads, Message, Sets
<1>4. ASSUME NEW k \in Keys PROVE store'[k] \in Item(Nat)
  BY <1>2, <1>3, NoEntryTyped, WrittenItem
<1>5. store' \in [Keys -> Item(Nat)]
  BY <1>4 DEF Execute
<1>6. EverythingExpires'
  BY <1>1, <1>3, WrittenItem DEF Stores, EverythingExpires
<1>7. ASSUME NEW k \in Keys PROVE local'[k] \in CopyRecord
  <2>1. CASE local'[k] = local[k]
    BY <1>2, <2>1
  <2>2. CASE local'[k] = Filled(k)
    <3>1. store[k].deadline \in Nat /\ store[k].entry \in Entry(Nat)
      BY <1>2 DEF Item
    <3> QED BY <1>1, <2>2, <3>1 DEF Filled, CopyRecord
  <2>3. local'[k] = Filled(k) \/ local'[k] = local[k]
    BY DEF Execute
  <2> QED BY <2>1, <2>2, <2>3
<1>8. local' \in [Keys -> CopyRecord]
  BY <1>2, <1>7 DEF Execute
<1> QED BY <1>5, <1>6, <1>8 DEF Stores

LEMMA TickStores ==
  ASSUME RemoteInv, Tick
  PROVE  Stores'
<1>1. /\ Stores /\ now \in Nat /\ cache.csc \in Nat /\ UNCHANGED cache
      /\ now' \in Nat /\ now' = now + 1 /\ now' >= now
  BY InvStores DEF Tick
<1>2. store \in [Keys -> Item(Nat)] /\ local \in [Keys -> CopyRecord]
  BY <1>1 DEF Stores
<1>3. store' \in [Keys -> Item(Nat)] /\ EverythingExpires'
  BY <1>1, <1>2, NoEntryTyped DEF Tick, Stores, EverythingExpires
<1>4. local' \in [Keys -> CopyRecord]
  BY <1>2, NoEntryTyped DEF Tick
<1> QED BY <1>3, <1>4 DEF Stores

LEMMA NextStores ==
  ASSUME RemoteInv, Next
  PROVE  Stores'
<1>1. Stores /\ now \in Nat /\ cache.csc \in Nat
  BY InvStores
<1>2. ASSUME UNCHANGED <<now, cache, store, local>> PROVE Stores'
  BY <1>1, <1>2 DEF Stores, EverythingExpires
<1>3. ASSUME UNCHANGED <<now, cache, store>>, local' \in [Keys -> CopyRecord] PROVE Stores'
  BY <1>1, <1>3 DEF Stores, EverythingExpires
<1>4. local \in [Keys -> CopyRecord]
  BY <1>1 DEF Stores
<1>5. ASSUME NEW c \in Clients, Disconnect(c) PROVE Stores'
  <2>1. UNCHANGED <<now, cache, store>> /\ local' = [k \in Keys |-> NoCopy]
    BY <1>5 DEF Disconnect
  <2> QED BY <1>3, <2>1, NoEntryTyped
<1>6. CASE Close
  <2>1. UNCHANGED <<now, cache, store>> /\ local' = [k \in Keys |-> NoCopy]
    BY <1>6 DEF Close
  <2> QED BY <1>3, <2>1, NoEntryTyped
<1>7. ASSUME NEW k \in Keys, Invalidated(k) PROVE Stores'
  <2>1. UNCHANGED <<now, cache, store>> /\ local' = [local EXCEPT ![k] = NoCopy]
    BY <1>7 DEF Invalidated
  <2> QED BY <1>3, <1>4, <2>1, NoEntryTyped
<1>8. ASSUME NEW c \in Clients, AnyCall(c) \/ Finish(c) \/ Return(c) PROVE Stores'
  BY <1>2, <1>8, CallOps, FinishOps
<1>9. ASSUME NEW c \in Clients, Send(c) \/ GiveUp(c) \/ TimedOut(c) \/ \E k \in Keys : LocalHit(c, k)
      PROVE  Stores'
  BY <1>2, <1>9 DEF Send, GiveUp, TimedOut, LocalHit
<1>10. ASSUME NEW m \in wire, Refuse(m) \/ Lose(m) PROVE Stores'
  BY <1>2, <1>10 DEF Refuse, Lose
<1>11. ASSUME NEW c \in Clients, Step(c) PROVE Stores'
  BY <1>5, <1>8, <1>9, <1>11 DEF Step
<1> QED BY <1>6, <1>7, <1>8, <1>10, <1>11, ExecuteStores, TickStores DEF Next

-----------------------------------------------------------------------------
LEMMA RemoteInvInductive == RemoteInv /\ [Next]_vars => RemoteInv'
<1> SUFFICES ASSUME RemoteInv, [Next]_vars PROVE RemoteInv'
  OBVIOUS
<1>1. CASE UNCHANGED vars
  BY <1>1 DEF vars, RemoteInv, TypeOK, Operating, Sound, Commands, Attached, Command, Writing,
     HooksBalance, EverythingExpires
<1>2. CASE Next
  <2>1. Ops' /\ Wire' /\ Stores'
    BY <1>2, NextOps, NextStores
  <2>2. now \in Nat /\ cache \in Backends /\ closed \in BOOLEAN
    BY DEF RemoteInv, TypeOK
  <2>3. now' \in Nat /\ cache' \in Backends /\ closed' \in BOOLEAN
    <3>1. CASE Tick \/ Close
      <4>1. CASE Tick
        BY <2>2, <4>1 DEF Tick
      <4>2. CASE Close
        BY <2>2, <4>2 DEF Close
      <4> QED BY <3>1, <4>1, <4>2
    <3>2. CASE \E c \in Clients : AnyCall(c) \/ Finish(c) \/ Return(c)
      BY <2>2, <3>2, CallOps, FinishOps
    <3>3. CASE \E c \in Clients : \/ Send(c) \/ Disconnect(c) \/ GiveUp(c) \/ TimedOut(c)
                                  \/ \E k \in Keys : LocalHit(c, k)
      BY <2>2, <3>3 DEF Send, Disconnect, GiveUp, TimedOut, LocalHit
    <3>4. CASE (\E m \in wire : Execute(m) \/ Refuse(m) \/ Lose(m)) \/ \E k \in Keys : Invalidated(k)
      BY <2>2, <3>4 DEF Execute, Refuse, Lose, Invalidated
    <3> QED BY <1>2, <3>1, <3>2, <3>3, <3>4 DEF Next, Step
  <2>4. TypeOK'
    BY <2>1, <2>3 DEF TypeOK, Ops, Wire, Stores, OpRecord, CopyRecord
  <2>5. Operating' /\ HooksBalance'
    BY <2>1 DEF Ops, Operating, HooksBalance, Balanced
  <2> QED BY <2>1, <2>4, <2>5 DEF RemoteInv, Wire, Stores
<1> QED BY <1>1, <1>2

LEMMA RemoteInvInitially == Init => RemoteInv
<1> SUFFICES ASSUME Init PROVE RemoteInv
  OBVIOUS
<1>1. now \in Nat /\ cache \in Backends /\ cache.csc \in Nat
  BY ConfigAssumption, RemoteAssumption DEF Init, Backend
<1>2. op \in [Clients -> OpRecord] /\ \A c \in Clients : op[c] = NoOp
  BY NoOpSound DEF Init
<1>3. store \in [Keys -> Item(Nat)] /\ local \in [Keys -> CopyRecord]
  BY NoEntryTyped DEF Init
<1>4. TypeOK
  BY <1>1, <1>2, <1>3 DEF Init, TypeOK, OpRecord, CopyRecord
<1>5. Operating /\ HooksBalance
  BY <1>2, NoOpSound DEF Operating, HooksBalance
<1>6. Attached /\ Writing
  BY DEF Init, Attached, Writing
<1>7. EverythingExpires
  BY DEF Init, EverythingExpires
<1> QED BY <1>4, <1>5, <1>6, <1>7 DEF RemoteInv

(* Every reachable state satisfies the invariant.                          *)
THEOREM RemoteInvariant == Spec => []RemoteInv
BY RemoteInvInitially, RemoteInvInductive, PTL DEF Spec

(* The server, the operations, the messages and the local copies keep      *)
(* their types, whatever fails and however often it is resent.             *)
THEOREM TypeCorrect == Spec => []TypeOK
<1>1. RemoteInv => TypeOK
  BY DEF RemoteInv
<1> QED BY <1>1, RemoteInvariant, PTL

(* When a method returns, its hooks have been called for every key, once   *)
(* per key of a read, and it fails exactly if one of them was OnError.     *)
THEOREM HooksAreComplete == Spec => []HooksBalance
<1>1. RemoteInv => HooksBalance
  BY DEF RemoteInv
<1> QED BY <1>1, RemoteInvariant, PTL

(* No item lives for ever through jitter, truncation to the millisecond or *)
(* a write that arrives late.                                              *)
THEOREM NothingLivesForever == Spec => []EverythingExpires
<1>1. RemoteInv => EverythingExpires
  BY DEF RemoteInv
<1> QED BY <1>1, RemoteInvariant, PTL
=============================================================================
