------------------------- MODULE MemoryCacheProofs -------------------------
(***************************************************************************)
(* Proofs about MemoryCache, for any keys, clients, values and batches: it *)
(* keeps its types, and it is a store in the sense of TtlStore.            *)
(*                                                                         *)
(* Reads and writes take effect when the map is read or written, each key  *)
(* of a batch on its own.  The one step that needs an argument is the Put  *)
(* of Set: the deadline was computed before the mutex was taken, from an   *)
(* instant of the call that may lie behind.                                *)
(***************************************************************************)
EXTENDS MemoryCache, TLAPS

OpRecord ==
  [kind : {"idle", "get", "set", "delete", "getmany", "setmany"},
   pc : {"idle", "enter", "put", "locked", "hooks", "done"},
   keys : SUBSET Keys, todo : SUBSET Keys, val : Vals \cup {NoEntry}, ttl : TTLs \cup {0}, start : Nat,
   got : [Keys -> Entry(Nat)], hooks : SUBSET Keys, it : Item(Nat)]

Single == {"get", "set", "delete"}

(* What a step of a client relies on: where an operation of a kind can be, *)
(* that the single operations have one key, that what is over has nothing  *)
(* left to do, and that the item Set will put is one of this call.         *)
Shape(o) ==
  /\ o.pc = "idle" <=> o.kind = "idle"
  /\ o.pc = "put" => o.kind = "set"
  /\ o.pc = "locked" => o.kind \in {"get", "getmany", "setmany"}
  /\ o.kind \in Single /\ o.pc \in {"enter", "put"} => \E k \in Keys : o.todo = {k}
  /\ o.pc \in {"hooks", "done"} => o.todo = {}
  /\ o.start <= now
  /\ o.pc = "put" => \E t \in o.start .. now : o.it \in newItem(o.val, o.ttl, t)

(* The mutex is held only inside a critical section.                       *)
Holding == \A c \in Clients : mu = c => op[c].pc = "locked"

(* The inductive invariant.                                                *)
MemoryInv ==
  /\ TypeOK
  /\ \A c \in Clients : Shape(op[c])
  /\ Holding

-----------------------------------------------------------------------------
LEMMA NoEntryTyped == NoEntry \in Entry(Nat) /\ NoItem \in Item(Nat)
<1>1. NoEntry \in Entry(Nat)
  BY DEF NoEntry, Entry, Kinds
<1> QED BY <1>1 DEF NoItem, Item

LEMMA ttlForNat == ASSUME NEW e, NEW ttl \in Nat PROVE ttlFor(e, ttl) \subseteq Nat
<1>1. orDefault(ttl) \in Nat
  BY ConfigAssumption DEF orDefault
<1>2. ttlJitter \in Nat
  BY ConfigAssumption DEF ttlJitter
<1> QED BY <1>1, <1>2 DEF ttlFor, applyJitter

LEMMA NewItemTyped ==
  ASSUME NEW e \in Entry(Nat), NEW ttl \in Nat, NEW t \in Nat, NEW item \in newItem(e, ttl, t)
  PROVE  item \in Item(Nat)
<1>1. PICK d \in ttlFor(e, ttl) : item = [entry |-> e, deadline |-> IF d > 0 THEN t + d ELSE 0]
  BY DEF newItem, ItemFor
<1>2. d \in Nat
  BY ttlForNat
<1> QED BY <1>1, <1>2 DEF Item

LEMMA ArgumentsTyped ==
  ASSUME NEW o \in OpRecord
  PROVE  o.val \in Entry(Nat) /\ o.ttl \in Nat
<1>1. Vals \cup {NoEntry} \subseteq Entry(Nat) /\ TTLs \cup {0} \subseteq Nat
  BY StoreAssumption, NoEntryTyped
<1>2. o.val \in Vals \cup {NoEntry} /\ o.ttl \in TTLs \cup {0}
  BY DEF OpRecord
<1> QED BY <1>1, <1>2

LEMMA PeekTyped ==
  ASSUME items \in [Keys -> Item(Nat)], NEW k \in Keys
  PROVE  peek(k) \in Item(Nat) /\ peek(k).entry \in Entry(Nat)
BY NoEntryTyped DEF peek, Item

LEMMA NoOpTyped == NoOp \in OpRecord /\ NoOp.pc = "idle" /\ NoOp.kind = "idle" /\ NoOp.start = 0
BY NoEntryTyped DEF NoOp, OpRecord

-----------------------------------------------------------------------------
(* The invariant.                                                          *)
Ops == op \in [Clients -> OpRecord] /\ \A c \in Clients : Shape(op[c])

Lives == now \in Nat /\ items \in [Keys -> Item(Nat)] /\ mu \in Clients \cup {None}

LEMMA InvParts == MemoryInv <=> Ops /\ Lives /\ Holding
BY DEF MemoryInv, TypeOK, Ops, Lives, OpRecord

(* What a step of client c does: its operation becomes new, which has the  *)
(* mutex only if it is locked.                                             *)
Becomes(c, new) ==
  /\ op' = [op EXCEPT ![c] = new] /\ new \in OpRecord /\ Shape(new)
  /\ UNCHANGED now /\ items' \in [Keys -> Item(Nat)]
  /\ \/ mu' = mu /\ (mu = c => new.pc = "locked")
     \/ mu' = None
     \/ mu' = c /\ new.pc = "locked"

LEMMA BecomesKeeps ==
  ASSUME MemoryInv, NEW c \in Clients, NEW new, Becomes(c, new)
  PROVE  MemoryInv'
<1>1. Ops /\ Lives /\ Holding
  BY InvParts
<1>2. op'[c] = new /\ \A d \in Clients \ {c} : op'[d] = op[d]
  BY <1>1 DEF Ops, Becomes
<1>3. op' \in [Clients -> OpRecord] /\ UNCHANGED now
  BY <1>1 DEF Ops, Becomes
<1>4. ASSUME NEW d \in Clients PROVE Shape(op[d])'
  <2>1. Shape(op'[d])
    BY <1>1, <1>2 DEF Ops, Becomes
  <2> QED BY <1>3, <2>1 DEF Shape
<1>5. Lives'
  BY <1>1 DEF Lives, Becomes
<1>6. Holding'
  BY <1>1, <1>2, StoreAssumption DEF Holding, Becomes
<1>7. TypeOK'
  BY <1>3, <1>5 DEF TypeOK, Lives, OpRecord
<1> QED BY <1>4, <1>6, <1>7 DEF MemoryInv

LEMMA CallBecomes ==
  ASSUME MemoryInv, NEW c \in Clients, NEW kind \in Single \cup {"getmany", "setmany"},
         NEW keys \in SUBSET Keys, NEW val \in Vals \cup {NoEntry}, NEW ttl \in TTLs \cup {0},
         kind \in Single => \E k \in Keys : keys = {k},
         Call(c, kind, keys, val, ttl)
  PROVE  \E new : /\ Becomes(c, new) /\ UNCHANGED items
                  /\ new = [NoOp EXCEPT !.kind = kind, !.pc = "enter", !.keys = keys,
                                        !.todo = keys, !.val = val, !.ttl = ttl, !.start = now]
<1>1. Ops /\ Lives /\ Holding /\ now \in Nat
  BY InvParts DEF Lives
<1> DEFINE new == [NoOp EXCEPT !.kind = kind, !.pc = "enter", !.keys = keys,
                               !.todo = keys, !.val = val, !.ttl = ttl, !.start = now]
<1>2. op[c].pc = "idle" /\ op' = [op EXCEPT ![c] = new] /\ UNCHANGED <<now, items, mu>>
  BY DEF Call
<1>3. new \in OpRecord
  BY <1>1, NoOpTyped DEF OpRecord, Single
<1>4. new.kind = kind /\ new.pc = "enter" /\ new.todo = keys /\ new.start = now
  BY DEF NoOp
<1>5. mu # c /\ items' \in [Keys -> Item(Nat)]
  BY <1>1, <1>2 DEF Holding, Lives
<1> HIDE DEF new
<1>6. Shape(new)
  BY <1>1, <1>4 DEF Shape, Single
<1>7. Becomes(c, new) /\ UNCHANGED items
  BY <1>2, <1>3, <1>5, <1>6 DEF Becomes
<1> QED BY <1>7 DEF new

-----------------------------------------------------------------------------
(* The refinement.  The contract brings its own copy of Entries.           *)
View(o) ==
  [kind |-> Kind[o.kind], keys |-> o.keys, todo |-> o.todo, val |-> o.val,
   ttl |-> o.ttl, start |-> o.start, got |-> o.got, err |-> FALSE]

(* The same with keys done.                                                *)
Seen(o, left, found, err) ==
  [kind |-> Kind[o.kind], keys |-> o.keys, todo |-> left, val |-> o.val,
   ttl |-> o.ttl, start |-> o.start, got |-> found, err |-> err]

LEMMA ViewUpdated ==
  ASSUME NEW o, NEW left, NEW found
  PROVE  /\ [View(o) EXCEPT !.todo = left] = Seen(o, left, o.got, FALSE)
         /\ [View(o) EXCEPT !.todo = left, !.got = found] = Seen(o, left, found, FALSE)
         /\ [View(o) EXCEPT !.err = FALSE] = View(o)
<1> DEFINE all(err) == Seen(o, o.todo, o.got, err)
           some(err) == Seen(o, left, o.got, err)
<1>1. \A err : [all(err) EXCEPT !.todo = left] = some(err)
  BY DEF Seen
<1>2. \A err : [some(err) EXCEPT !.got = found] = Seen(o, left, found, err)
  BY DEF Seen
<1>3. \A err : [all(err) EXCEPT !.todo = left, !.got = found]
                 = [[all(err) EXCEPT !.todo = left] EXCEPT !.got = found]
  BY DEF Seen
<1>4. \A err : [all(err) EXCEPT !.err = err] = all(err)
  BY DEF Seen
<1>5. View(o) = all(FALSE)
  BY DEF View, Seen
<1> HIDE DEF all, some
<1>6. [all(FALSE) EXCEPT !.todo = left] = some(FALSE)
  BY <1>1, Zenon
<1>7. [some(FALSE) EXCEPT !.got = found] = Seen(o, left, found, FALSE)
  BY <1>2, Zenon
<1>8. [all(FALSE) EXCEPT !.todo = left, !.got = found]
        = [[all(FALSE) EXCEPT !.todo = left] EXCEPT !.got = found]
  BY <1>3, Zenon
<1>9. [all(FALSE) EXCEPT !.err = FALSE] = all(FALSE)
  BY <1>4, Zenon
<1>10. [View(o) EXCEPT !.todo = left] = Seen(o, left, o.got, FALSE)
  BY <1>5, <1>6 DEF some
<1>11. [View(o) EXCEPT !.todo = left, !.got = found] = Seen(o, left, found, FALSE)
  BY <1>5, <1>6, <1>7, <1>8
<1>12. [View(o) EXCEPT !.err = FALSE] = View(o)
  BY <1>5, <1>9
<1> QED BY <1>10, <1>11, <1>12

LiveAt(item, t) == IF Live(item, t) THEN item ELSE NoItem

LEMMA SameEntries ==
  /\ Contract!NoEntry = NoEntry /\ Contract!NoItem = NoItem
  /\ \A item, t : Contract!Live(item, t) = Live(item, t)
  /\ \A e, ttl : Contract!ttlFor(e, ttl) = ttlFor(e, ttl)
<1>1. Contract!NoEntry = NoEntry
  BY DEF Contract!NoEntry, NoEntry
<1>2. Contract!NoItem = NoItem
  BY <1>1 DEF Contract!NoItem, NoItem
<1>3. \A item, t : Contract!Live(item, t) = Live(item, t)
  BY DEF Contract!Live, Live
<1>4. \A e, ttl : Contract!ttlFor(e, ttl) = ttlFor(e, ttl)
  BY DEF Contract!ttlFor, ttlFor, Contract!hasEnvelope, hasEnvelope, Contract!orDefault, orDefault,
         Contract!applyJitter, applyJitter, Contract!ttlJitter, ttlJitter
<1> QED BY <1>1, <1>2, <1>3, <1>4

LEMMA Viewed ==
  ASSUME NEW c \in Clients, NEW new, op \in [Clients -> OpRecord], op' = [op EXCEPT ![c] = new]
  PROVE  /\ Operations' = [Operations EXCEPT ![c] = View(new)]
         /\ Operations[c] = View(op[c])
BY DEF Operations, View

LEMMA NoOpViewed == View(NoOp) = Contract!NoOp(FALSE)
<1>1. View(NoOp) = Contract!Operation("idle", {}, Contract!NoEntry, 0, 0)
  BY SameEntries DEF View, NoOp, Kind, Contract!Operation
<1>2. Contract!NoOp(FALSE) = [View(NoOp) EXCEPT !.err = FALSE]
  BY <1>1 DEF Contract!NoOp
<1> QED BY <1>2, ViewUpdated

(* Looking a key up changes nothing that is live.                          *)
LEMMA PeekLive ==
  ASSUME Lives, NEW k \in Keys
  PROVE  peek(k) = LiveItems[k] /\ LiveAt(peek(k), now) = LiveItems[k]
<1>1. items[k] \in Item(Nat) /\ items[k].deadline \in Nat /\ now \in Nat
  BY DEF Lives, Item
<1>2. peek(k) = LiveItems[k]
  BY <1>1 DEF peek, LiveItems, Live
<1>3. Live(NoItem, now)
  BY DEF Live, NoItem
<1> QED BY <1>1, <1>2, <1>3 DEF LiveItems, LiveAt

LEMMA LiveUpdate ==
  ASSUME Lives, UNCHANGED now, NEW k \in Keys, NEW item, items' = [items EXCEPT ![k] = item]
  PROVE  LiveItems' = [LiveItems EXCEPT ![k] = LiveAt(item, now)]
BY DEF Lives, LiveItems, LiveAt

LEMMA LiveSame ==
  ASSUME Lives, UNCHANGED now, NEW k \in Keys, items' = [items EXCEPT ![k] = peek(k)]
  PROVE  LiveItems' = LiveItems
<1>1. LiveItems' = [LiveItems EXCEPT ![k] = LiveItems[k]]
  BY PeekLive, LiveUpdate
<1> QED BY <1>1 DEF LiveItems

LEMMA LiveFrame == ASSUME UNCHANGED <<now, items>> PROVE LiveItems' = LiveItems
BY DEF LiveItems

(* The item of a write is an effect of the contract: its lifetime is one   *)
(* of those the TTL allows, from an instant of the call.                   *)
LEMMA NewItemIsEffect ==
  ASSUME Lives, NEW c \in Clients, NEW k \in Keys, op[c] \in OpRecord,
         op[c].kind \in {"set", "setmany"},
         NEW t \in op[c].start .. now, NEW item \in newItem(op[c].val, op[c].ttl, t)
  PROVE  LiveAt(item, now) \in Contract!Effect(Contract!Copy(Operations[c], k), op[c].start .. now)
<1> DEFINE w == Contract!Copy(Operations[c], k)
           v == op[c].val
           ttl == op[c].ttl
<1>1. w.kind = "set" /\ w.val = v /\ w.ttl = ttl
  BY DEF Contract!Copy, Operations, Kind
<1>2. PICK d \in ttlFor(v, ttl) : item = [entry |-> v, deadline |-> IF d > 0 THEN t + d ELSE 0]
  BY DEF newItem, ItemFor
<1>3. d \in Nat /\ now \in Nat /\ t \in Nat /\ op[c].start \in Nat /\ t <= now
  BY <1>2, ttlForNat, ArgumentsTyped DEF Lives, OpRecord
<1>4. d \in Contract!ToTheMilli(d)
  BY <1>3, ConfigAssumption DEF Contract!ToTheMilli
<1>5. d \in Contract!ttlFor(w.val, w.ttl)
  BY <1>1, <1>2, SameEntries
<1> DEFINE e == IF d = 0 THEN [entry |-> w.val, deadline |-> 0]
                ELSE IF now < t + d THEN [entry |-> w.val, deadline |-> t + d] ELSE Contract!NoItem
<1>6. e = LiveAt(item, now)
  <2>1. CASE d = 0
    BY <1>1, <1>2, <2>1 DEF LiveAt, Live
  <2>2. CASE d > 0
    <3>1. item = [entry |-> v, deadline |-> t + d] /\ t + d # 0 /\ d # 0
      BY <1>2, <1>3, <2>2
    <3> QED BY <1>1, <1>3, <3>1, SameEntries DEF LiveAt, Live
  <2> QED BY <1>3, <2>1, <2>2
<1> HIDE DEF w
<1>7. e \in Contract!Effect(w, op[c].start .. now)
  BY <1>1, <1>4, <1>5 DEF Contract!Effect
<1> QED BY <1>6, <1>7 DEF w

LEMMA DeleteIsEffect ==
  ASSUME NEW c \in Clients, NEW k, NEW T, op[c].kind = "delete"
  PROVE  NoItem \in Contract!Effect(Contract!Copy(Operations[c], k), T)
<1>1. Contract!Copy(Operations[c], k).kind = "delete"
  BY DEF Contract!Copy, Operations, Kind
<1> QED BY <1>1, SameEntries DEF Contract!Effect

(* The steps of the contract.                                              *)
Same(o, new) ==
  /\ new.kind = o.kind /\ new.keys = o.keys /\ new.val = o.val
  /\ new.ttl = o.ttl /\ new.start = o.start

Reading(c, k, new) ==
  /\ k \in op[c].todo /\ op[c].kind \in {"get", "getmany"}
  /\ op' = [op EXCEPT ![c] = new] /\ items' = [items EXCEPT ![k] = peek(k)] /\ UNCHANGED now
  /\ Same(op[c], new) /\ new.todo = op[c].todo \ {k}
  /\ new.got = [op[c].got EXCEPT ![k] = peek(k).entry]

Writing(c, k, new, item) ==
  /\ k \in op[c].todo /\ op[c].kind \in {"set", "setmany", "delete"}
  /\ op' = [op EXCEPT ![c] = new] /\ items' = [items EXCEPT ![k] = item] /\ UNCHANGED now
  /\ Same(op[c], new) /\ new.todo = op[c].todo \ {k} /\ new.got = op[c].got
  /\ LiveAt(item, now) \in Contract!Effect(Contract!Copy(Operations[c], k), op[c].start .. now)

LEMMA ReadRefines ==
  ASSUME MemoryInv, NEW c \in Clients, NEW k, NEW new, Reading(c, k, new)
  PROVE  Contract!Next
<1> USE DEF Reading, Same
<1>1. Lives /\ op \in [Clients -> OpRecord] /\ op[c] \in OpRecord /\ k \in Keys
  BY InvParts DEF Ops, OpRecord
<1>2. LiveItems' = LiveItems /\ peek(k) = LiveItems[k]
  BY <1>1, LiveSame, PeekLive
<1>3. Operations' = [Operations EXCEPT ![c] = View(new)] /\ Operations[c] = View(op[c])
  BY <1>1, Viewed
<1>4. new.got = [j \in Keys |-> IF j \in {k} THEN LiveItems[j].entry ELSE op[c].got[j]]
  BY <1>1, <1>2 DEF OpRecord
<1> DEFINE got == [j \in Keys |-> IF j \in {k} THEN LiveItems[j].entry ELSE op[c].got[j]]
<1>5. View(new) = [View(op[c]) EXCEPT !.todo = @ \ {k}, !.got = got]
  <2>0. Same(op[c], new) /\ new.todo = op[c].todo \ {k} /\ new.got = got
    BY <1>4
  <2> HIDE DEF got, Reading
  <2>1. View(new) = Seen(op[c], op[c].todo \ {k}, got, FALSE)
    BY <2>0 DEF View, Seen
  <2>2. View(op[c]).todo = op[c].todo
    BY DEF View
  <2>3. View(new) = [View(op[c]) EXCEPT !.todo = op[c].todo \ {k}, !.got = got]
    BY <2>1, ViewUpdated
  <2> QED BY <2>2, <2>3
<1>6. Operations[c].kind = "get" /\ {k} \subseteq Operations[c].todo
  BY <1>3 DEF View, Kind
<1>7. Operations' = [Operations EXCEPT ![c].todo = @ \ {k},
        ![c].got = [j \in Keys |-> IF j \in {k} THEN LiveItems[j].entry ELSE @[j]]]
  <2>1. Operations[c].got = op[c].got
    BY <1>3 DEF View
  <2>2. got = [j \in Keys |-> IF j \in {k} THEN LiveItems[j].entry ELSE Operations[c].got[j]]
    BY <2>1
  <2> HIDE DEF got
  <2>3. Operations' = [Operations EXCEPT ![c].todo = @ \ {k}, ![c].got = got]
    BY <1>3, <1>5 DEF Operations
  <2> QED BY <2>2, <2>3
<1>8. Contract!Read(c, {k})
  BY <1>2, <1>6, <1>7 DEF Contract!Read
<1> QED BY <1>1, <1>8 DEF Contract!Next

LEMMA WriteRefines ==
  ASSUME MemoryInv, NEW c \in Clients, NEW k, NEW new, NEW item, Writing(c, k, new, item)
  PROVE  Contract!Next
<1> USE DEF Writing, Same
<1>1. Lives /\ op \in [Clients -> OpRecord] /\ op[c] \in OpRecord /\ k \in Keys
  BY InvParts DEF Ops, OpRecord
<1>2. LiveItems' = [LiveItems EXCEPT ![k] = LiveAt(item, now)]
  BY <1>1, LiveUpdate
<1>3. Operations' = [Operations EXCEPT ![c] = View(new)] /\ Operations[c] = View(op[c])
  BY <1>1, Viewed
<1>4. View(new) = [View(op[c]) EXCEPT !.todo = @ \ {k}]
  <2>1. View(new) = Seen(op[c], op[c].todo \ {k}, op[c].got, FALSE)
    BY DEF View, Seen
  <2>2. View(op[c]).todo = op[c].todo
    BY DEF View
  <2>3. View(new) = [View(op[c]) EXCEPT !.todo = op[c].todo \ {k}]
    BY <2>1, ViewUpdated
  <2> QED BY <2>2, <2>3
<1>5. /\ Operations[c].kind \in {"set", "delete"} /\ k \in Operations[c].todo
      /\ Operations[c].start = op[c].start
  BY <1>3 DEF View, Kind
<1>6. Operations' = [Operations EXCEPT ![c].todo = @ \ {k}]
  BY <1>3, <1>4 DEF Operations
<1>7. Contract!Write(c, k)
  BY <1>2, <1>5, <1>6 DEF Contract!Write
<1> QED BY <1>1, <1>7 DEF Contract!Next

LEMMA CallRefines ==
  ASSUME MemoryInv, NEW c \in Clients, NEW kind \in Single \cup {"getmany", "setmany"},
         NEW keys \in SUBSET Keys, NEW val \in Vals \cup {NoEntry}, NEW ttl \in TTLs \cup {0},
         Call(c, kind, keys, val, ttl)
  PROVE  Contract!Next
<1>1. op \in [Clients -> OpRecord] /\ op[c] \in OpRecord /\ Shape(op[c])
  BY InvParts DEF Ops
<1> DEFINE new == [NoOp EXCEPT !.kind = kind, !.pc = "enter", !.keys = keys,
                               !.todo = keys, !.val = val, !.ttl = ttl, !.start = now]
<1>2. op[c].kind = "idle" /\ op' = [op EXCEPT ![c] = new] /\ UNCHANGED <<now, items, mu>>
  BY <1>1 DEF Call, Shape
<1>3. Operations' = [Operations EXCEPT ![c] = View(new)] /\ Operations[c] = View(op[c])
  BY <1>1, <1>2, Viewed
<1>4. Kind[kind] \in Contract!OpKinds
  BY DEF Kind, Contract!OpKinds, Single
<1>5. View(new) = Contract!Operation(Kind[kind], keys, val, ttl, now)
  BY SameEntries DEF View, NoOp, Contract!Operation
<1> HIDE DEF new
<1>6. Operations[c].kind = "idle"
  BY <1>2, <1>3 DEF View, Kind
<1>7. Contract!Call(c)
  BY <1>2, <1>3, <1>4, <1>5, <1>6, LiveFrame, SameEntries DEF Contract!Call
<1> QED BY <1>7 DEF Contract!Next

(* A step inside an operation is none of the contract.                     *)
LEMMA InnerRefines ==
  ASSUME MemoryInv, NEW c \in Clients, NEW new, op' = [op EXCEPT ![c] = new],
         LiveItems' = LiveItems, UNCHANGED now,
         Same(op[c], new), new.todo = op[c].todo, new.got = op[c].got
  PROVE  UNCHANGED Contract!vars
<1>1. op \in [Clients -> OpRecord]
  BY InvParts DEF Ops
<1>2. Operations' = [Operations EXCEPT ![c] = View(new)] /\ Operations[c] = View(op[c])
  BY <1>1, Viewed
<1>3. View(new) = View(op[c])
  BY DEF View, Same
<1>4. Operations' = Operations
  BY <1>2, <1>3 DEF Operations
<1> QED BY <1>4 DEF Contract!vars

-----------------------------------------------------------------------------
(* Every step keeps the invariant, and is a step of the contract or none.  *)
Good == MemoryInv' /\ [Contract!Next]_(Contract!vars)

LEMMA StepContext ==
  ASSUME MemoryInv, NEW c \in Clients
  PROVE  /\ op \in [Clients -> OpRecord] /\ op[c] \in OpRecord /\ Shape(op[c])
         /\ now \in Nat /\ items \in [Keys -> Item(Nat)]
         /\ mu \in Clients \cup {None} /\ Lives /\ None \notin Clients
         /\ op[c].pc # "locked" => mu # c
         /\ op[c].todo \subseteq Keys
BY InvParts, StoreAssumption DEF Ops, Lives, Holding, OpRecord

LEMMA LookUpGood ==
  ASSUME MemoryInv, NEW c \in Clients, NEW k \in Keys, Get(c, k) \/ GetOne(c, k)
  PROVE  Good
<1>1. /\ op \in [Clients -> OpRecord] /\ op[c] \in OpRecord /\ Shape(op[c])
      /\ now \in Nat /\ items \in [Keys -> Item(Nat)] /\ op[c].todo \subseteq Keys
      /\ op[c].kind \in {"get", "getmany"} /\ op[c].pc = "locked" /\ UNCHANGED <<now, mu>>
      /\ k \in op[c].todo
  BY StepContext DEF Get, GetOne, LookUp
<1>2. /\ items' = [items EXCEPT ![k] = peek(k)]
      /\ op' = [op EXCEPT ![c].todo = @ \ {k}, ![c].hooks = @ \cup {k},
                          ![c].got[k] = peek(k).entry]
  BY DEF Get, GetOne, LookUp
<1>3. peek(k) \in Item(Nat) /\ peek(k).entry \in Entry(Nat)
  BY <1>1, PeekTyped
<1> DEFINE new == [op[c] EXCEPT !.todo = @ \ {k}, !.hooks = @ \cup {k},
                                !.got = [@ EXCEPT ![k] = peek(k).entry]]
<1>4. op' = [op EXCEPT ![c] = new]
  BY <1>1, <1>2 DEF OpRecord
<1>5. /\ new \in OpRecord /\ new.kind = op[c].kind /\ new.keys = op[c].keys /\ new.val = op[c].val
      /\ new.ttl = op[c].ttl /\ new.start = op[c].start /\ new.todo = op[c].todo \ {k}
      /\ new.pc = "locked" /\ new.got = [op[c].got EXCEPT ![k] = peek(k).entry]
  BY <1>1, <1>3 DEF OpRecord
<1> HIDE DEF new
<1>6. Shape(new)
  BY <1>1, <1>5 DEF Shape, Single
<1>7. Becomes(c, new)
  BY <1>1, <1>2, <1>3, <1>4, <1>5, <1>6 DEF Becomes
<1>8. Contract!Next
  <2>1. Reading(c, k, new)
    BY <1>1, <1>2, <1>4, <1>5 DEF Reading, Same
  <2> QED BY <2>1, ReadRefines
<1> QED BY <1>7, <1>8, BecomesKeeps DEF Good

LEMMA SetOneGood ==
  ASSUME MemoryInv, NEW c \in Clients, NEW k \in Keys, SetOne(c, k)
  PROVE  Good
<1>1. /\ op \in [Clients -> OpRecord] /\ op[c] \in OpRecord /\ Shape(op[c]) /\ Lives
      /\ now \in Nat /\ items \in [Keys -> Item(Nat)] /\ op[c].todo \subseteq Keys
      /\ op[c].kind = "setmany" /\ op[c].pc = "locked" /\ UNCHANGED <<now, mu>> /\ k \in op[c].todo
  BY StepContext DEF SetOne
<1>2. PICK item \in newItem(op[c].val, op[c].ttl, now) : items' = [items EXCEPT ![k] = item]
  BY DEF SetOne
<1>3. item \in Item(Nat)
  BY <1>1, <1>2, ArgumentsTyped, NewItemTyped
<1> DEFINE new == [op[c] EXCEPT !.todo = @ \ {k}]
<1>4. op' = [op EXCEPT ![c] = new]
  BY <1>1 DEF SetOne
<1>5. /\ new \in OpRecord /\ new.kind = op[c].kind /\ new.keys = op[c].keys /\ new.val = op[c].val
      /\ new.ttl = op[c].ttl /\ new.start = op[c].start /\ new.todo = op[c].todo \ {k}
      /\ new.pc = "locked" /\ new.got = op[c].got
  BY <1>1 DEF OpRecord
<1> HIDE DEF new
<1>6. Shape(new)
  BY <1>1, <1>5 DEF Shape, Single
<1>7. Becomes(c, new)
  BY <1>1, <1>2, <1>3, <1>4, <1>5, <1>6 DEF Becomes
<1>8. now \in op[c].start .. now
  BY <1>1 DEF Shape, OpRecord
<1>9. LiveAt(item, now) \in Contract!Effect(Contract!Copy(Operations[c], k), op[c].start .. now)
  BY <1>1, <1>2, <1>8, NewItemIsEffect
<1>10. Contract!Next
  <2>1. Writing(c, k, new, item)
    BY <1>1, <1>2, <1>4, <1>5, <1>9 DEF Writing, Same
  <2> QED BY <2>1, WriteRefines
<1> QED BY <1>7, <1>10, BecomesKeeps DEF Good

LEMMA NewItemGood == ASSUME MemoryInv, NEW c \in Clients, NewItem(c) PROVE Good
<1>1. /\ op \in [Clients -> OpRecord] /\ op[c] \in OpRecord /\ Shape(op[c])
      /\ now \in Nat /\ items \in [Keys -> Item(Nat)]
      /\ op[c].kind = "set" /\ op[c].pc = "enter" /\ mu # c /\ UNCHANGED <<now, items, mu>>
  BY StepContext DEF NewItem
<1>2. PICK item \in newItem(op[c].val, op[c].ttl, now) :
        op' = [op EXCEPT ![c].pc = "put", ![c].it = item]
  BY DEF NewItem
<1>3. item \in Item(Nat)
  BY <1>1, <1>2, ArgumentsTyped, NewItemTyped
<1> DEFINE new == [op[c] EXCEPT !.pc = "put", !.it = item]
<1>4. op' = [op EXCEPT ![c] = new]
  BY <1>1, <1>2
<1>5. /\ new \in OpRecord /\ Same(op[c], new) /\ new.todo = op[c].todo /\ new.got = op[c].got
      /\ new.pc = "put" /\ new.it = item
  BY <1>1, <1>3 DEF OpRecord, Same
<1> HIDE DEF new
<1>6. now \in new.start .. now
  BY <1>1, <1>5 DEF Shape, OpRecord, Same
<1>7. new.it \in newItem(new.val, new.ttl, now)
  BY <1>2, <1>5 DEF Same
<1>8. Shape(new)
  BY <1>1, <1>5, <1>6, <1>7 DEF Shape, Single, Same
<1>9. Becomes(c, new)
  BY <1>1, <1>4, <1>5, <1>8 DEF Becomes
<1>10. UNCHANGED Contract!vars
  BY <1>1, <1>4, <1>5, LiveFrame, InnerRefines
<1> QED BY <1>9, <1>10, BecomesKeeps DEF Good

(* Put and Delete: the single key gets its item.                           *)
LEMMA SingleWrite ==
  ASSUME MemoryInv, NEW c \in Clients, op[c].kind \in {"set", "delete"},
         op[c].pc \in {"enter", "put"}, NEW item \in Item(Nat), NEW it \in Item(Nat),
         items' = [k \in Keys |-> IF k \in op[c].todo THEN item ELSE items[k]],
         op' = [op EXCEPT ![c] = [op[c] EXCEPT !.pc = "done", !.todo = {}, !.it = it]],
         UNCHANGED <<now, mu>>,
         \A k \in Keys : LiveAt(item, now) \in
           Contract!Effect(Contract!Copy(Operations[c], k), op[c].start .. now)
  PROVE  Good
<1>1. /\ op \in [Clients -> OpRecord] /\ op[c] \in OpRecord /\ Shape(op[c]) /\ mu # c
      /\ now \in Nat /\ items \in [Keys -> Item(Nat)]
  BY StepContext
<1>2. PICK k \in Keys : op[c].todo = {k}
  BY <1>1 DEF Shape, Single
<1>3. items' = [items EXCEPT ![k] = item] /\ items' \in [Keys -> Item(Nat)]
  BY <1>1, <1>2
<1> DEFINE new == [op[c] EXCEPT !.pc = "done", !.todo = {}, !.it = it]
<1>4. /\ new \in OpRecord /\ Same(op[c], new) /\ new.todo = op[c].todo \ {k} /\ new.todo = {}
      /\ new.got = op[c].got /\ new.pc = "done"
  BY <1>1, <1>2 DEF OpRecord, Same
<1>5. op' = [op EXCEPT ![c] = new]
  OBVIOUS
<1> HIDE DEF new
<1>6. Shape(new)
  BY <1>1, <1>4 DEF Shape, Same
<1>7. Becomes(c, new)
  BY <1>1, <1>3, <1>4, <1>5, <1>6 DEF Becomes
<1>8. Writing(c, k, new, item)
  BY <1>2, <1>3, <1>4, <1>5 DEF Writing
<1> QED BY <1>7, <1>8, WriteRefines, BecomesKeeps DEF Good

LEMMA PutGood == ASSUME MemoryInv, NEW c \in Clients, Put(c) PROVE Good
<1>1. /\ op \in [Clients -> OpRecord] /\ op[c] \in OpRecord /\ Shape(op[c]) /\ Lives
      /\ op[c].pc = "put" /\ op[c].kind = "set" /\ UNCHANGED <<now, mu>>
  BY StepContext DEF Put, Shape
<1>2. PICK t \in op[c].start .. now : op[c].it \in newItem(op[c].val, op[c].ttl, t)
  BY <1>1 DEF Shape
<1>3. \A k \in Keys : LiveAt(op[c].it, now) \in
        Contract!Effect(Contract!Copy(Operations[c], k), op[c].start .. now)
  BY <1>1, <1>2, NewItemIsEffect
<1>4. op[c].it \in Item(Nat)
  BY <1>1 DEF OpRecord
<1>5. op' = [op EXCEPT ![c] = [op[c] EXCEPT !.pc = "done", !.todo = {}, !.it = NoItem]]
  BY <1>1 DEF Put
<1>6. items' = [k \in Keys |-> IF k \in op[c].todo THEN op[c].it ELSE items[k]]
  BY DEF Put
<1> QED BY <1>1, <1>3, <1>4, <1>5, <1>6, NoEntryTyped, SingleWrite

LEMMA DeleteGood == ASSUME MemoryInv, NEW c \in Clients, Delete(c) PROVE Good
<1>1. /\ op \in [Clients -> OpRecord] /\ op[c] \in OpRecord
      /\ op[c].pc = "enter" /\ op[c].kind = "delete" /\ UNCHANGED <<now, mu>>
  BY StepContext DEF Delete
<1>2. LiveAt(NoItem, now) = NoItem
  BY DEF LiveAt
<1>3. \A k \in Keys : LiveAt(NoItem, now) \in
        Contract!Effect(Contract!Copy(Operations[c], k), op[c].start .. now)
  BY <1>1, <1>2, DeleteIsEffect
<1>4. op[c].it \in Item(Nat)
  BY <1>1 DEF OpRecord
<1>5. op' = [op EXCEPT ![c] = [op[c] EXCEPT !.pc = "done", !.todo = {}, !.it = op[c].it]]
  BY <1>1 DEF Delete, OpRecord
<1>6. items' = [k \in Keys |-> IF k \in op[c].todo THEN NoItem ELSE items[k]]
  BY DEF Delete
<1> QED BY <1>1, <1>3, <1>4, <1>5, <1>6, NoEntryTyped, SingleWrite

LEMMA LockGood == ASSUME MemoryInv, NEW c \in Clients, Lock(c) \/ Unlock(c) PROVE Good
<1>1. /\ op \in [Clients -> OpRecord] /\ op[c] \in OpRecord /\ Shape(op[c])
      /\ now \in Nat /\ items \in [Keys -> Item(Nat)] /\ UNCHANGED <<now, items>>
  BY StepContext DEF Lock, Unlock
<1>2. PICK pc \in {"locked", "hooks"} :
        /\ op' = [op EXCEPT ![c].pc = pc]
        /\ pc = "locked" => op[c].kind \in {"get", "getmany", "setmany"} /\ mu' = c
        /\ pc = "hooks" => op[c].pc = "locked" /\ op[c].todo = {} /\ mu' = None
  BY DEF Lock, Unlock
<1> DEFINE new == [op[c] EXCEPT !.pc = pc]
<1>3. op' = [op EXCEPT ![c] = new]
  BY <1>1, <1>2
<1>4. /\ new \in OpRecord /\ Same(op[c], new) /\ new.todo = op[c].todo /\ new.got = op[c].got
      /\ new.pc = pc
  BY <1>1, <1>2 DEF OpRecord, Same
<1>5. op[c].kind # "idle"
  BY <1>1, <1>2 DEF Shape
<1> HIDE DEF new
<1>6. Shape(new)
  BY <1>1, <1>2, <1>4, <1>5 DEF Shape, Single, Same
<1>7. Becomes(c, new)
  BY <1>1, <1>2, <1>3, <1>4, <1>6 DEF Becomes
<1>8. UNCHANGED Contract!vars
  BY <1>1, <1>3, <1>4, LiveFrame, InnerRefines
<1> QED BY <1>7, <1>8, BecomesKeeps DEF Good

LEMMA HookGood == ASSUME MemoryInv, NEW c \in Clients, Hook(c) PROVE Good
<1>1. /\ op \in [Clients -> OpRecord] /\ op[c] \in OpRecord /\ Shape(op[c]) /\ Lives /\ mu # c
      /\ now \in Nat /\ items \in [Keys -> Item(Nat)] /\ op[c].pc = "hooks" /\ UNCHANGED <<now, mu>>
  BY StepContext DEF Hook
<1>2. PICK k \in op[c].hooks : /\ items' = [items EXCEPT ![k] = peek(k)]
                               /\ op' = [op EXCEPT ![c].hooks = @ \ {k}]
  BY DEF Hook
<1>3. k \in Keys
  BY <1>1 DEF OpRecord
<1>4. items' \in [Keys -> Item(Nat)] /\ LiveItems' = LiveItems
  BY <1>1, <1>2, <1>3, PeekTyped, LiveSame
<1> DEFINE new == [op[c] EXCEPT !.hooks = @ \ {k}]
<1>5. op' = [op EXCEPT ![c] = new]
  BY <1>1, <1>2
<1>6. /\ new \in OpRecord /\ Same(op[c], new) /\ new.todo = op[c].todo /\ new.got = op[c].got
      /\ new.pc = "hooks"
  BY <1>1 DEF OpRecord, Same
<1> HIDE DEF new
<1>7. Shape(new)
  BY <1>1, <1>6 DEF Shape, Single, Same
<1>8. Becomes(c, new)
  BY <1>1, <1>4, <1>5, <1>6, <1>7 DEF Becomes
<1>9. UNCHANGED Contract!vars
  BY <1>1, <1>4, <1>5, <1>6, InnerRefines
<1> QED BY <1>8, <1>9, BecomesKeeps DEF Good

LEMMA ReturnGood == ASSUME MemoryInv, NEW c \in Clients, Return(c) PROVE Good
<1>1. /\ op \in [Clients -> OpRecord] /\ op[c] \in OpRecord /\ Shape(op[c]) /\ mu # c
      /\ now \in Nat /\ items \in [Keys -> Item(Nat)] /\ UNCHANGED <<now, items, mu>>
      /\ op[c].pc \in {"done", "hooks"} /\ op' = [op EXCEPT ![c] = NoOp]
  BY StepContext DEF Return
<1>2. Shape(NoOp)
  BY <1>1, NoOpTyped DEF Shape, Single
<1>3. Becomes(c, NoOp)
  BY <1>1, <1>2, NoOpTyped DEF Becomes
<1>4. op[c].todo = {} /\ op[c].kind # "idle"
  BY <1>1 DEF Shape
<1>5. Operations' = [Operations EXCEPT ![c] = View(NoOp)] /\ Operations[c] = View(op[c])
  BY <1>1, Viewed
<1>6. View(NoOp) = Contract!NoOp(FALSE)
  BY NoOpViewed
<1>7. Operations[c].todo = {} /\ Operations[c].kind # "idle"
  BY <1>1, <1>4, <1>5 DEF View, Kind, OpRecord
<1>8. Contract!Return(c)
  BY <1>1, <1>5, <1>6, <1>7, LiveFrame DEF Contract!Return
<1> QED BY <1>3, <1>8, BecomesKeeps DEF Good, Contract!Next

LEMMA CallGood == ASSUME MemoryInv, NEW c \in Clients, AnyCall(c) PROVE Good
<1>1. PICK kind \in Single \cup {"getmany", "setmany"}, keys \in SUBSET Keys,
           val \in Vals \cup {NoEntry}, ttl \in TTLs \cup {0} :
        /\ kind \in Single => \E k \in Keys : keys = {k}
        /\ Call(c, kind, keys, val, ttl)
  <2>1. CASE \E k \in Keys : Call(c, "get", {k}, NoEntry, 0)
    BY <2>1 DEF Single
  <2>2. CASE \E k \in Keys : Call(c, "delete", {k}, NoEntry, 0)
    BY <2>2 DEF Single
  <2>3. CASE \E k \in Keys, val \in Vals, ttl \in TTLs : Call(c, "set", {k}, val, ttl)
    BY <2>3 DEF Single
  <2>4. CASE \E keys \in Batches : Call(c, "getmany", keys, NoEntry, 0)
    BY <2>4, StoreAssumption DEF Single
  <2>5. CASE \E keys \in Batches, val \in Vals, ttl \in TTLs : Call(c, "setmany", keys, val, ttl)
    BY <2>5, StoreAssumption DEF Single
  <2> QED BY <2>1, <2>2, <2>3, <2>4, <2>5 DEF AnyCall
<1>2. \E new : Becomes(c, new)
  BY <1>1, CallBecomes
<1>3. Contract!Next
  BY <1>1, CallRefines
<1> QED BY <1>2, <1>3, BecomesKeeps DEF Good

(* What is live at the next instant is what the clock of the contract      *)
(* leaves.                                                                 *)
LEMMA TickGood == ASSUME MemoryInv, Tick PROVE Good
<1>1. /\ op \in [Clients -> OpRecord] /\ now \in Nat /\ items \in [Keys -> Item(Nat)] /\ Lives
      /\ \A c \in Clients : Shape(op[c])
  BY InvParts DEF Ops, Lives
<1>2. now < MaxTime /\ now' = now + 1 /\ now' \in Nat /\ now <= now' /\ UNCHANGED <<items, mu, op>>
  BY <1>1 DEF Tick
<1>3. ASSUME NEW c \in Clients PROVE Shape(op[c])'
  <2> DEFINE o == op[c]
  <2>1. o \in OpRecord /\ Shape(o) /\ op'[c] = o /\ o.start \in Nat
    BY <1>1, <1>2 DEF OpRecord
  <2>2. o.start <= now'
    BY <1>1, <1>2, <2>1 DEF Shape
  <2>3. o.start .. now \subseteq o.start .. now'
    BY <1>1, <1>2, <2>1
  <2>4. o.pc = "put" => \E t \in o.start .. now' : o.it \in newItem(o.val, o.ttl, t)
    BY <2>1, <2>3 DEF Shape
  <2> HIDE DEF o
  <2> QED BY <2>1, <2>2, <2>4 DEF Shape
<1>4. TypeOK'
  BY <1>2 DEF MemoryInv, TypeOK
<1>5. Holding'
  BY <1>2 DEF MemoryInv, Holding
<1>6. LiveItems' = [k \in Keys |-> IF Live(LiveItems[k], now + 1) THEN LiveItems[k] ELSE NoItem]
  <2>1. ASSUME NEW k \in Keys
        PROVE  (IF Live(items[k], now + 1) THEN items[k] ELSE NoItem)
               = (IF Live(LiveItems[k], now + 1) THEN LiveItems[k] ELSE NoItem)
    <3>1. items[k].deadline \in Nat
      BY <1>1 DEF Item
    <3>2. Live(items[k], now + 1) => Live(items[k], now)
      BY <1>1, <3>1 DEF Live
    <3>3. LiveItems[k] = IF Live(items[k], now) THEN items[k] ELSE NoItem
      BY DEF LiveItems
    <3> QED BY <3>2, <3>3
  <2>2. LiveItems' = [k \in Keys |-> IF Live(items[k], now + 1) THEN items[k] ELSE NoItem]
    BY <1>2 DEF LiveItems
  <2> QED BY <2>1, <2>2
<1>7. Operations' = Operations
  BY <1>2 DEF Operations
<1>8. Contract!Tick
  BY <1>2, <1>6, <1>7, SameEntries DEF Contract!Tick
<1> QED BY <1>3, <1>4, <1>5, <1>8 DEF Good, MemoryInv, Contract!Next

LEMMA NextGood == ASSUME MemoryInv, [Next]_vars PROVE Good
<1>1. CASE UNCHANGED vars
  <2>1. MemoryInv'
    BY <1>1 DEF MemoryInv, TypeOK, Shape, Holding, vars
  <2>2. UNCHANGED Contract!vars
    BY <1>1 DEF Contract!vars, vars, LiveItems, Operations
  <2> QED BY <2>1, <2>2 DEF Good
<1>2. CASE Tick
  BY <1>2, TickGood
<1>3. ASSUME NEW c \in Clients, AnyCall(c) \/ Step(c) PROVE Good
  <2>1. CASE AnyCall(c)
    BY <2>1, CallGood
  <2>2. CASE Acquire(c)
    BY <2>2, PutGood, DeleteGood, LockGood, HookGood DEF Acquire
  <2>3. CASE NewItem(c) \/ Unlock(c) \/ Return(c)
    BY <2>3, NewItemGood, LockGood, ReturnGood
  <2>4. CASE \E k \in Keys : Get(c, k) \/ GetOne(c, k) \/ SetOne(c, k)
    BY <2>4, LookUpGood, SetOneGood
  <2> QED BY <1>3, <2>1, <2>2, <2>3, <2>4 DEF Step, Proceed
<1> QED BY <1>1, <1>2, <1>3 DEF Next

LEMMA InitGood == ASSUME Init PROVE MemoryInv /\ Contract!Init
<1>1. TypeOK
  BY NoOpTyped, NoEntryTyped, ConfigAssumption DEF Init, TypeOK, OpRecord
<1>2. ASSUME NEW c \in Clients PROVE Shape(op[c])
  <2>1. op[c] = NoOp /\ now \in Nat
    BY ConfigAssumption DEF Init
  <2> QED BY <2>1, NoOpTyped DEF Shape, Single
<1>3. Holding
  BY StoreAssumption DEF Init, Holding
<1>4. LiveItems = [k \in Keys |-> Contract!NoItem]
  BY SameEntries DEF Init, LiveItems
<1>5. Operations = [c \in Clients |-> Contract!NoOp(FALSE)]
  <2>1. Operations = [c \in Clients |-> View(op[c])]
    BY DEF Operations, View
  <2> QED BY <2>1, NoOpViewed DEF Init
<1>6. Contract!Init
  BY <1>4, <1>5 DEF Init, Contract!Init
<1> QED BY <1>1, <1>2, <1>3, <1>6 DEF MemoryInv

-----------------------------------------------------------------------------
(* The theorems.  The invariant of MemoryCache: operations are where their *)
(* kind allows, and the item a Set is about to put dates from its call.    *)
THEOREM MemoryInvariant == Spec => []MemoryInv
<1>1. Init => MemoryInv
  BY InitGood
<1>2. MemoryInv /\ [Next]_vars => MemoryInv'
  BY NextGood DEF Good
<1> QED BY <1>1, <1>2, PTL DEF Spec

(* Types: what the operations of memory.go leave in the map and in their   *)
(* own variables is of the declared types.                                 *)
THEOREM TypeCorrect == Spec => []TypeOK
<1>1. MemoryInv => TypeOK
  BY DEF MemoryInv
<1> QED BY <1>1, MemoryInvariant, PTL

(* MemoryCache implements the store that GetOrSet relies on: every read    *)
(* and write takes effect at one instant of its call, key by key, and no   *)
(* expired item is ever seen, though memory.go deletes items late and      *)
(* computes the deadline of Set before it takes the mutex.                 *)
THEOREM StoreImplemented == Spec => ImplementsStore
<1>1. Init => Contract!Init
  BY InitGood
<1>2. MemoryInv /\ [Next]_vars => [Contract!Next]_(Contract!vars)
  BY NextGood DEF Good
<1> QED BY <1>1, <1>2, MemoryInvariant, PTL DEF Spec, ImplementsStore, Contract!Spec
=============================================================================
