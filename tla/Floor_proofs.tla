---------------------------- MODULE Floor_proofs ----------------------------
(***************************************************************************)
(* Proofs about the dining floor.  Seating: bookings that hold one table   *)
(* are apart unless their requests overlapped, and nobody keeps the order  *)
(* of a seating that was undone.  TableFire: tables are fired, moved,      *)
(* merged and paid at the same time without losing an item, with a bounded *)
(* number of repeats, and without the workers waiting on each other for    *)
(* ever.                                                                   *)
(***************************************************************************)
EXTENDS Seating, TableFire, TLAPS, FiniteSetTheorems

(***************************************************************************)
(* TableFire: the inductive invariant                                      *)
(***************************************************************************)
Item == [fire : Fire, order : Uuid, label : Table \union {NoTable}, copy : Nat]
Snapshot == [order : [Uuid -> Row], items : SUBSET Item]

FloorTypeOK == /\ order \in [Uuid -> Row] /\ items \in SUBSET Item
               /\ req \in [Worker -> Request \union {Idle}]
               /\ snap \in [Worker -> Snapshot]
               /\ stale \in [Worker -> SUBSET Uuid]
               /\ fired \in SUBSET Fire
               /\ \A u \in Uuid : order[u].tendered => order[u].state # "none"

\* What is as it was in a snapshot: an order nobody touched since, and no item
\* has come to it.
KnownTo(w, u) == /\ order[u] = snap[w].order[u]
                 /\ \A i \in items : i.order = u => i \in snap[w].items
SnapsKnown ==
  \A w \in Worker : req[w] # Idle =>
    \A u \in Uuid \ stale[w] : snap[w].order[u].state # "none" => KnownTo(w, u)

\* Every item is on an order that exists, labelled with its table.
Housed == \A i \in items : order[i.order].state # "none" /\ i.label = order[i.order].table

\* What was fired, or was seen to be, has an item.
FiresKept == /\ \A f \in fired : \E i \in items : i.fire = f
             /\ \A w \in Worker : \A i \in snap[w].items : \E j \in items : j.fire = i.fire

FloorInv == FloorTypeOK /\ SnapsKnown /\ Housed /\ FiresKept

(***************************************************************************)
(* What a step may do to the requests, to the orders and to the items      *)
(***************************************************************************)
\* A request ends, begins or is run again on a new snapshot while nothing
\* changes, or goes on and is told which orders were touched.
Sees(v, touched) ==
  \/ req'[v] = Idle /\ snap'[v] = Nothing
  \/ snap'[v] = [order |-> order, items |-> items] /\ UNCHANGED <<order, items>>
  \/ /\ req'[v] = req[v] /\ snap'[v] = snap[v]
     /\ req[v] # Idle => stale[v] \subseteq stale'[v] /\ touched \subseteq stale'[v]

\* Orders that exist and are not touched stay, and no item comes to them.
Spares(touched) ==
  \A u \in Uuid \ touched : order[u].state # "none" =>
    order'[u] = order[u] /\ \A i \in items' : i.order = u => i \in items

FiresStay == \A i \in items : \E j \in items' : j.fire = i.fire

FloorShape(touched) ==
  /\ FloorTypeOK' /\ Housed' /\ Spares(touched) /\ FiresStay
  /\ \A v \in Worker : Sees(v, touched)
  /\ \A f \in fired' \ fired : \E i \in items' : i.fire = f

LEMMA FloorShapeKeeps ==
  ASSUME FloorInv, NEW touched, FloorShape(touched) PROVE FloorInv'
<1>1. SnapsKnown'
  <2> SUFFICES ASSUME NEW w \in Worker, req'[w] # Idle, NEW u \in Uuid \ stale'[w],
                      snap'[w].order[u].state # "none"
               PROVE  /\ order'[u] = snap'[w].order[u]
                      /\ \A i \in items' : i.order = u => i \in snap'[w].items
    BY DEF SnapsKnown, KnownTo
  <2>1. CASE snap'[w] = [order |-> order, items |-> items] /\ UNCHANGED <<order, items>>
    BY <2>1
  <2>2. CASE /\ req'[w] = req[w] /\ snap'[w] = snap[w]
             /\ req[w] # Idle => stale[w] \subseteq stale'[w] /\ touched \subseteq stale'[w]
    <3>1. KnownTo(w, u) /\ u \notin touched
      BY <2>2 DEF FloorInv, SnapsKnown
    <3>2. order'[u] = order[u] /\ \A i \in items' : i.order = u => i \in items
      BY <2>2, <3>1 DEF FloorShape, Spares, KnownTo
    <3> QED BY <2>2, <3>1, <3>2 DEF KnownTo
  <2> QED BY <2>1, <2>2 DEF FloorShape, Sees
<1>2. FiresKept'
  <2>1. \A f \in fired' : \E i \in items' : i.fire = f
    BY DEF FloorShape, FiresStay, FloorInv, FiresKept
  <2>2. ASSUME NEW w \in Worker, NEW i \in snap'[w].items PROVE \E j \in items' : j.fire = i.fire
    <3>1. CASE snap'[w] = Nothing
      BY <3>1 DEF Nothing
    <3>2. CASE snap'[w] = [order |-> order, items |-> items]
      BY <3>2 DEF FloorShape, FiresStay
    <3>3. CASE snap'[w] = snap[w]
      BY <3>3 DEF FloorShape, FiresStay, FloorInv, FiresKept
    <3> QED BY <3>1, <3>2, <3>3 DEF FloorShape, Sees
  <2> QED BY <2>1, <2>2 DEF FiresKept
<1> QED BY <1>1, <1>2 DEF FloorInv, FloorShape


(***************************************************************************)
(* How a transaction ends                                                  *)
(***************************************************************************)
ReqsTyped == /\ req' \in [Worker -> Request \union {Idle}] /\ snap' \in [Worker -> Snapshot]
             /\ stale' \in [Worker -> SUBSET Uuid]

LEMMA NothingTyped == Nothing \in Snapshot
BY DEF Nothing, Snapshot, NoOrder, Row

LEMMA FloorInitInv == TableInit => FloorInv
<1> SUFFICES ASSUME TableInit PROVE FloorInv
  OBVIOUS
<1>1. \A x \in {NoOrder, Sold} : x \in Row /\ (x.tendered => x.state # "none")
  <2>1. NoOrder \in Row /\ ~NoOrder.tendered
    BY DEF NoOrder, Row
  <2>2. Sold \in Row /\ Sold.state # "none"
    BY DEF Sold, Row
  <2> QED BY <2>1, <2>2
<1>2. order \in [Uuid -> Row] /\ \A u \in Uuid : order[u].tendered => order[u].state # "none"
  BY <1>1 DEF TableInit
<1>3. FloorTypeOK
  BY <1>2, NothingTyped DEF TableInit, FloorTypeOK
<1>4. \A w \in Worker : req[w] = Idle /\ snap[w].items = {}
  BY DEF TableInit, Nothing
<1> QED BY <1>3, <1>4 DEF TableInit, FloorInv, SnapsKnown, Housed, FiresKept

LEMMA Left ==
  ASSUME FloorInv, NEW w \in Worker, Leave(w)
  PROVE  /\ req' \in [Worker -> Request \union {Idle}] /\ snap' \in [Worker -> Snapshot]
         /\ req'[w] = Idle /\ snap'[w] = Nothing
         /\ \A v \in Worker \ {w} : req'[v] = req[v] /\ snap'[v] = snap[v]
BY NothingTyped DEF FloorInv, FloorTypeOK, Leave

LEMMA Replied ==
  ASSUME FloorInv, NEW w \in Worker, Reply(w)
  PROVE  ReqsTyped /\ \A v \in Worker : Sees(v, {})
<1>1. Leave(w) /\ stale' = [stale EXCEPT ![w] = {}]
  BY DEF Reply
<1>2. stale' \in [Worker -> SUBSET Uuid] /\ \A v \in Worker \ {w} : stale'[v] = stale[v]
  BY <1>1 DEF FloorInv, FloorTypeOK
<1> QED BY <1>1, <1>2, Left DEF ReqsTyped, Sees

LEMMA Committed ==
  ASSUME FloorInv, NEW w \in Worker, NEW touched \in SUBSET Uuid, Commit(w, touched)
  PROVE  ReqsTyped /\ \A v \in Worker : Sees(v, touched)
<1>1. Leave(w)
      /\ stale' = [v \in Worker |-> IF v = w \/ req[v] = Idle THEN {} ELSE stale[v] \union touched]
  BY DEF Commit
<1>2. /\ stale' \in [Worker -> SUBSET Uuid]
      /\ \A v \in Worker \ {w} : req[v] # Idle =>
           stale[v] \subseteq stale'[v] /\ touched \subseteq stale'[v]
  BY <1>1 DEF FloorInv, FloorTypeOK
<1> QED BY <1>1, <1>2, Left DEF ReqsTyped, Sees

\* An order found open in the snapshot and not changed since is so now.
LEMMA FoundOpen ==
  ASSUME FloorInv, NEW w \in Worker, req[w] # Idle, NEW t, NEW u \in OpenAt(snap[w], t),
         u \notin stale[w]
  PROVE  u \in Uuid /\ KnownTo(w, u) /\ order[u].state = "draft" /\ order[u].table = t
BY DEF FloorInv, SnapsKnown, OpenAt, KnownTo

(***************************************************************************)
(* Steps that change no order and no item                                  *)
(***************************************************************************)
LEMMA QuietShape ==
  ASSUME FloorInv, UNCHANGED <<order, items>>, ReqsTyped, \A v \in Worker : Sees(v, {}),
         fired' \in SUBSET Fire, \A f \in fired' \ fired : \E i \in items : i.fire = f
  PROVE  FloorShape({})
BY DEF FloorInv, FloorTypeOK, FloorShape, ReqsTyped, Housed, Spares, FiresStay

LEMMA BeginShape == ASSUME FloorInv, NEW w \in Worker, Begin(w) PROVE FloorShape({})
<1>1. [order |-> order, items |-> items] \in Snapshot
  BY DEF FloorInv, FloorTypeOK, Snapshot
<1>2. ReqsTyped
  BY <1>1 DEF Begin, ReqsTyped, FloorInv, FloorTypeOK
<1>3. \A v \in Worker : Sees(v, {})
  BY DEF Begin, Sees, FloorInv, FloorTypeOK
<1> QED BY <1>2, <1>3, QuietShape DEF Begin, FloorInv, FloorTypeOK

LEMMA RetriedShape == ASSUME FloorInv, NEW w \in Worker, FireRetried(w) PROVE FloorShape({})
<1>1. [order |-> order, items |-> items] \in Snapshot
  BY DEF FloorInv, FloorTypeOK, Snapshot
<1>2. ReqsTyped
  BY <1>1 DEF FireRetried, ReqsTyped, FloorInv, FloorTypeOK
<1>3. \A v \in Worker : Sees(v, {})
  BY DEF FireRetried, Sees, FloorInv, FloorTypeOK
<1> QED BY <1>2, <1>3, QuietShape DEF FireRetried, FloorInv, FloorTypeOK

LEMMA LockShape == ASSUME FloorInv, NEW w \in Worker, TakeLock(w) PROVE FloorShape({})
<1>1. ReqsTyped /\ \A v \in Worker : Sees(v, {})
  BY DEF TakeLock, ReqsTyped, FloorInv, FloorTypeOK, Sees
<1> QED BY <1>1, QuietShape DEF TakeLock, FloorInv, FloorTypeOK

LEMMA RepliedShape ==
  ASSUME FloorInv, NEW w \in Worker, Reply(w), UNCHANGED fired PROVE FloorShape({})
<1>1. ReqsTyped /\ \A v \in Worker : Sees(v, {})
  BY Replied
<1> QED BY <1>1, QuietShape DEF Reply, FloorInv, FloorTypeOK

LEMMA AnsweredShape == ASSUME FloorInv, NEW w \in Worker, FireAnswered(w) PROVE FloorShape({})
<1>1. ReqsTyped /\ \A v \in Worker : Sees(v, {})
  BY Replied DEF FireAnswered
<1>2. PICK i \in snap[w].items : i.fire = req[w].fire
  BY DEF FireAnswered, AlreadyFired
<1>3. \E j \in items : j.fire = req[w].fire
  BY <1>2 DEF FloorInv, FiresKept
<1>4. req[w].fire \in Fire
  BY <1>3 DEF FloorInv, FloorTypeOK, Item
<1> QED BY <1>1, <1>3, <1>4, QuietShape DEF FireAnswered, Reply, FloorInv, FloorTypeOK

(***************************************************************************)
(* Fires                                                                   *)
(***************************************************************************)
LEMMA FireRequest ==
  ASSUME FloorInv, NEW w \in Worker, Serving(w, "orders/fire")
  PROVE  req[w] # Idle /\ req[w].fire \in Fire
BY TableAssumption DEF Serving, FloorInv, FloorTypeOK, Request

\* One item more, on an order that is open with the item's label as its table.
LEMMA AddedShape ==
  ASSUME FloorInv, NEW w \in Worker, NEW f \in Fire, NEW u \in Uuid,
         NEW t \in Table \union {NoTable}, NEW touched \in SUBSET Uuid,
         Commit(w, touched), AddItem(f, u, t), fired' = fired \union {f},
         order' \in [Uuid -> Row], order'[u].state = "draft", order'[u].table = t,
         \A q \in Uuid : order'[q] # order[q] =>
           q = u /\ order[u].state = "none" /\ ~order'[u].tendered,
         order[u].state # "none" => u \in touched,
         IsFiniteSet(items)
  PROVE  FloorShape(touched)
<1> DEFINE new == [fire |-> f, order |-> u, label |-> t,
                   copy |-> Cardinality({i \in items : i.fire = f}) + 1]
<1>1. items' = items \union {new}
  BY DEF AddItem
<1>2. Cardinality({i \in items : i.fire = f}) \in Nat
  BY FS_Subset, FS_CardinalityType
<1>3. new \in Item /\ new.fire = f /\ new.order = u /\ new.label = t
  BY <1>2 DEF Item
<1>4. ReqsTyped /\ \A v \in Worker : Sees(v, touched)
  BY Committed
<1> HIDE DEF new
<1>5. FloorTypeOK'
  <2>1. \A q \in Uuid : order'[q].tendered => order'[q].state # "none"
    BY DEF FloorInv, FloorTypeOK
  <2>2. items' \in SUBSET Item /\ fired' \in SUBSET Fire
    BY <1>1, <1>3 DEF FloorInv, FloorTypeOK
  <2> QED BY <1>4, <2>1, <2>2 DEF FloorTypeOK, ReqsTyped
<1>6. Housed'
  <2> SUFFICES ASSUME NEW i \in items'
               PROVE  order'[i.order].state # "none" /\ i.label = order'[i.order].table
    BY DEF Housed
  <2>1. CASE i = new
    BY <1>3, <2>1
  <2>2. CASE i \in items
    <3>1. i.order \in Uuid /\ order[i.order].state # "none" /\ i.label = order[i.order].table
      BY <2>2 DEF FloorInv, Housed, FloorTypeOK, Item
    <3>2. order'[i.order] = order[i.order]
      BY <3>1
    <3> QED BY <3>1, <3>2
  <2> QED BY <1>1, <2>1, <2>2
<1>7. Spares(touched)
  BY <1>1, <1>3 DEF Spares
<1>8. FiresStay /\ \A g \in fired' \ fired : \E i \in items' : i.fire = g
  BY <1>1, <1>3 DEF FiresStay
<1> QED BY <1>4, <1>5, <1>6, <1>7, <1>8 DEF FloorShape

LEMMA AppendShape ==
  ASSUME FloorInv, IsFiniteSet(items), NEW w \in Worker, FireAppend(w)
  PROVE  \E touched : FloorShape(touched)
<1> DEFINE f == req[w].fire
<1>1. PICK u \in AppendTo(snap[w], f) :
        Commit(w, {u}) /\ AddItem(f, u, snap[w].order[u].table)
  BY DEF FireAppend
<1>2. req[w] # Idle /\ f \in Fire
  BY FireRequest DEF FireAppend, MayFire
<1>3. u \in OpenAt(snap[w], snap[w].order[u].table)
  BY <1>1, <1>2, TableAssumption DEF AppendTo, OpenAt
<1>4. u \in Uuid /\ order[u].state = "draft" /\ order[u].table = snap[w].order[u].table
  BY <1>1, <1>2, <1>3, FoundOpen DEF Commit
<1>5. order[u].table \in Table \union {NoTable} /\ order \in [Uuid -> Row]
  BY <1>4 DEF FloorInv, FloorTypeOK, Row
<1> QED BY <1>1, <1>2, <1>4, <1>5, AddedShape DEF FireAppend

LEMMA CreateShape ==
  ASSUME FloorInv, IsFiniteSet(items), NEW w \in Worker, FireCreate(w)
  PROVE  \E touched : FloorShape(touched)
<1> DEFINE f == req[w].fire
           u == OrderOf[f]
           new == [state |-> "draft", table |-> TableOf[f], tendered |-> FALSE]
<1>1. req[w] # Idle /\ f \in Fire
  BY FireRequest DEF FireCreate, MayFire
<1>2. u \in Uuid /\ TableOf[f] \in Table \union {NoTable}
  BY <1>1, TableAssumption
<1>3. new \in Row /\ new.state = "draft" /\ new.table = TableOf[f] /\ ~new.tendered
  BY <1>2 DEF Row
<1>4. /\ Commit(w, {}) /\ AddItem(f, u, TableOf[f]) /\ fired' = fired \union {f}
      /\ order[u].state = "none" /\ order' = [order EXCEPT ![u] = new]
  BY DEF FireCreate
<1> HIDE DEF new, u, f
<1>5. order' \in [Uuid -> Row] /\ order'[u] = new /\ \A q \in Uuid \ {u} : order'[q] = order[q]
  BY <1>2, <1>3, <1>4 DEF FloorInv, FloorTypeOK
<1> QED BY <1>1, <1>2, <1>3, <1>4, <1>5, AddedShape

(***************************************************************************)
(* Moves                                                                   *)
(***************************************************************************)
LEMMA MoveRequest ==
  ASSUME FloorInv, NEW w \in Worker,
         Serving(w, "tables/transfer") \/ Serving(w, "tables/merge")
  PROVE  req[w] # Idle /\ req[w] \in Moves /\ req[w].from \in Table /\ req[w].to \in Table
         /\ req[w].from # req[w].to
<1>1. req[w] # Idle /\ req[w] \in Request /\ req[w].op # "orders/fire"
  BY DEF Serving, FloorInv, FloorTypeOK
<1>2. req[w] \in Moves
  BY <1>1 DEF Request
<1> QED BY <1>1, <1>2, TableAssumption

Moved(some, u, t) == {IF i \in some THEN Rehomed(i, u, t) ELSE i : i \in items}

LEMMA RehomedItem ==
  ASSUME NEW i \in Item, NEW u \in Uuid, NEW t \in Table \union {NoTable}
  PROVE  /\ Rehomed(i, u, t) \in Item /\ Rehomed(i, u, t).order = u
         /\ Rehomed(i, u, t).label = t /\ Rehomed(i, u, t).fire = i.fire
         /\ Rehomed(i, u, t).copy = i.copy
BY DEF Rehomed, Item

\* Items are re-homed to order u, which sits on table t then; the others stay
\* on orders that stay.
LEMMA RehomedShape ==
  ASSUME FloorInv, NEW w \in Worker, NEW touched \in SUBSET Uuid, NEW u \in touched,
         NEW t \in Table, Commit(w, touched), UNCHANGED fired,
         items' = Moved({i \in items : i.order \in touched}, u, t),
         order' \in [Uuid -> Row], order'[u].state # "none", order'[u].table = t,
         \A q \in Uuid \ touched : order'[q] = order[q],
         \A q \in Uuid : order'[q].tendered => order'[q].state # "none"
  PROVE  FloorShape(touched)
<1> DEFINE some == {i \in items : i.order \in touched}
<1>1. ReqsTyped /\ \A v \in Worker : Sees(v, touched)
  BY Committed
<1>2. \A i \in items : i \in Item /\ i.order \in Uuid
  BY DEF FloorInv, FloorTypeOK, Item
<1>3. \A i \in items : LET j == Rehomed(i, u, t) IN
        j \in Item /\ j.order = u /\ j.label = t /\ j.fire = i.fire
  BY <1>2, RehomedItem
<1>4. ASSUME NEW j \in items'
      PROVE  \/ j \in Item /\ j.order = u /\ j.label = t
             \/ j \in items /\ j.order \notin touched
  BY <1>3 DEF Moved
<1>5. FloorTypeOK'
  <2>1. items' \in SUBSET Item
    BY <1>2, <1>4
  <2> QED BY <1>1, <2>1 DEF FloorTypeOK, ReqsTyped, FloorInv
<1>6. Housed'
  <2> SUFFICES ASSUME NEW j \in items'
               PROVE  order'[j.order].state # "none" /\ j.label = order'[j.order].table
    BY DEF Housed
  <2>1. CASE j.order = u /\ j.label = t
    BY <2>1
  <2>2. CASE j \in items /\ j.order \notin touched
    BY <1>2, <2>2 DEF FloorInv, Housed
  <2> QED BY <1>4, <2>1, <2>2
<1>7. Spares(touched)
  BY <1>4 DEF Spares
<1>8. FiresStay
  <2> SUFFICES ASSUME NEW i \in items PROVE \E j \in items' : j.fire = i.fire
    BY DEF FiresStay
  <2>1. (IF i \in some THEN Rehomed(i, u, t) ELSE i) \in items'
    BY DEF Moved
  <2>2. (IF i \in some THEN Rehomed(i, u, t) ELSE i).fire = i.fire
    BY <1>3
  <2> QED BY <2>1, <2>2
<1> QED BY <1>1, <1>5, <1>6, <1>7, <1>8 DEF FloorShape

LEMMA MoveOrderShape ==
  ASSUME FloorInv, NEW w \in Worker, Serving(w, "tables/transfer") \/ Serving(w, "tables/merge"),
         NEW u \in OpenAt(snap[w], req[w].from), MoveOrder(w, u, req[w].to)
  PROVE  FloorShape({u}) /\ items' = Moved({i \in items : i.order \in {u}}, u, req[w].to)
<1> DEFINE t == req[w].to
           new == [order[u] EXCEPT !.table = t]
<1>1. req[w] # Idle /\ t \in Table
  BY MoveRequest
<1>2. Commit(w, {u}) /\ order' = [order EXCEPT ![u] = new] /\ fired' = fired
      /\ items' = {IF i.order = u /\ i \in snap[w].items THEN Rehomed(i, u, t) ELSE i : i \in items}
  BY DEF MoveOrder
<1>3. u \in Uuid /\ KnownTo(w, u) /\ order[u].state = "draft"
  BY <1>1, <1>2, FoundOpen DEF Commit
<1>4. items' = Moved({i \in items : i.order \in {u}}, u, t)
  BY <1>2, <1>3 DEF Moved, KnownTo
<1>5. new \in Row /\ new.state = "draft" /\ new.table = t
  BY <1>1, <1>3 DEF FloorInv, FloorTypeOK, Row
<1> HIDE DEF new, t
<1>6. order' \in [Uuid -> Row] /\ order'[u] = new /\ \A q \in Uuid \ {u} : order'[q] = order[q]
  BY <1>2, <1>3, <1>5 DEF FloorInv, FloorTypeOK
<1>7. \A q \in Uuid : order'[q].tendered => order'[q].state # "none"
  BY <1>5, <1>6 DEF FloorInv, FloorTypeOK
<1>8. FloorShape({u})
  BY <1>1, <1>2, <1>3, <1>4, <1>5, <1>6, <1>7, RehomedShape
<1> QED BY <1>4, <1>8 DEF t

LEMMA MergeFacts ==
  ASSUME FloorInv, NEW w \in Worker, Merge(w)
  PROVE  \E src, dst \in Uuid :
           /\ src # dst /\ order[src].state = "draft" /\ order[dst].state = "draft"
           /\ order[dst].table = req[w].to
           /\ KnownTo(w, src) /\ KnownTo(w, dst)
           /\ Unpaid(snap[w], src, dst) \/ req[w].confirm
           /\ Commit(w, {src, dst})
           /\ order' = [order EXCEPT ![src] = NoOrder]
           /\ items' = Moved({i \in items : i.order \in {src, dst}}, dst, req[w].to)
<1>1. Serving(w, "tables/merge") /\ req[w] # Idle /\ req[w].from # req[w].to /\ req[w].to \in Table
  BY MoveRequest DEF Merge
<1> DEFINE re(i, src, dst) == IF i.order = src /\ i \in snap[w].items
                              THEN Rehomed(i, dst, req[w].to)
                              ELSE IF i.order = dst THEN Rehomed(i, dst, req[w].to) ELSE i
<1>2. PICK src \in OpenAt(snap[w], req[w].from), dst \in OpenAt(snap[w], req[w].to) :
        /\ Unpaid(snap[w], src, dst) \/ req[w].confirm
        /\ Commit(w, {src, dst})
        /\ items' = {i \in {re(x, src, dst) : x \in items} : i.order # src}
        /\ order' = [order EXCEPT ![src] = NoOrder]
  BY DEF Merge
<1>3. src \notin stale[w] /\ dst \notin stale[w]
  BY <1>2 DEF Commit
<1>4. /\ src \in Uuid /\ KnownTo(w, src) /\ order[src].state = "draft" /\ order[src].table = req[w].from
      /\ dst \in Uuid /\ KnownTo(w, dst) /\ order[dst].state = "draft" /\ order[dst].table = req[w].to
  BY <1>1, <1>2, <1>3, FoundOpen
<1>5. src # dst
  BY <1>1, <1>4
<1> DEFINE some == {i \in items : i.order \in {src, dst}}
<1>6. \A i \in items :
        /\ re(i, src, dst) = IF i \in some THEN Rehomed(i, dst, req[w].to) ELSE i
        /\ re(i, src, dst).order # src
  BY <1>4, <1>5 DEF KnownTo, Rehomed
<1> HIDE DEF re
<1>7. items' = {re(x, src, dst) : x \in items}
  BY <1>2, <1>6
<1>8. items' = Moved(some, dst, req[w].to)
  BY <1>6, <1>7 DEF Moved
<1> QED BY <1>2, <1>4, <1>5, <1>8

LEMMA MergeShape ==
  ASSUME FloorInv, NEW w \in Worker, Merge(w)
  PROVE  \E touched : FloorShape(touched)
<1>1. PICK src, dst \in Uuid :
           /\ src # dst /\ order[src].state = "draft" /\ order[dst].state = "draft"
           /\ order[dst].table = req[w].to
           /\ KnownTo(w, src) /\ KnownTo(w, dst)
           /\ Unpaid(snap[w], src, dst) \/ req[w].confirm
           /\ Commit(w, {src, dst})
           /\ order' = [order EXCEPT ![src] = NoOrder]
           /\ items' = Moved({i \in items : i.order \in {src, dst}}, dst, req[w].to)
  BY MergeFacts
<1>2. req[w].to \in Table /\ fired' = fired
  BY MoveRequest DEF Merge
<1>3. NoOrder \in Row /\ ~NoOrder.tendered
  BY DEF NoOrder, Row
<1>4. order' \in [Uuid -> Row] /\ order'[src] = NoOrder /\ \A q \in Uuid \ {src} : order'[q] = order[q]
  BY <1>1, <1>3 DEF FloorInv, FloorTypeOK
<1>5. \A q \in Uuid : order'[q].tendered => order'[q].state # "none"
  BY <1>3, <1>4 DEF FloorInv, FloorTypeOK
<1>6. FloorShape({src, dst})
  BY <1>1, <1>2, <1>4, <1>5, RehomedShape
<1> QED BY <1>6

LEMMA TenderShape == ASSUME FloorInv, NEW u \in Uuid, Tender(u) PROVE FloorShape({u})
<1>1. PICK s \in {"draft", "paid"} :
        order' = [order EXCEPT ![u] = [state |-> s, table |-> order[u].table, tendered |-> TRUE]]
  BY DEF Tender
<1> DEFINE new == [state |-> s, table |-> order[u].table, tendered |-> TRUE]
<1>2. new \in Row /\ new.state # "none" /\ new.table = order[u].table
  BY DEF FloorInv, FloorTypeOK, Row
<1> HIDE DEF new
<1>3. order' \in [Uuid -> Row] /\ order'[u] = new /\ \A q \in Uuid \ {u} : order'[q] = order[q]
  BY <1>1, <1>2 DEF new, FloorInv, FloorTypeOK
<1>4. \A q \in Uuid : order'[q].tendered => order'[q].state # "none"
  BY <1>2, <1>3 DEF FloorInv, FloorTypeOK
<1>5. UNCHANGED <<items, req, snap, fired>> /\ stale' \in [Worker -> SUBSET Uuid]
      /\ \A v \in Worker : req[v] # Idle => stale[v] \subseteq stale'[v] /\ {u} \subseteq stale'[v]
  BY DEF Tender, FloorInv, FloorTypeOK
<1>6. Housed'
  BY <1>2, <1>3, <1>5 DEF FloorInv, Housed, FloorTypeOK, Item
<1>7. FloorTypeOK'
  BY <1>3, <1>4, <1>5 DEF FloorInv, FloorTypeOK
<1>8. \A v \in Worker : Sees(v, {u})
  BY <1>5 DEF Sees
<1>9. Spares({u}) /\ FiresStay
  BY <1>3, <1>5 DEF Spares, FiresStay
<1> QED BY <1>5, <1>6, <1>7, <1>8, <1>9 DEF FloorShape
(***************************************************************************)
(* How often a fire is cooked                                              *)
(***************************************************************************)
ItemsOf(f) == {i \in items : i.fire = f}

\* The requests that will cook f again: they saw none of its items.
Armed(f) == {w \in Worker : /\ req[w] # Idle /\ req[w].op = "orders/fire" /\ req[w].fire = f
                            /\ ~AlreadyFired(snap[w], f)}

\* Once f has an item, each further one disarms a request, and none is armed.
CopiesInv ==
  /\ IsFiniteSet(items)
  /\ \A i, j \in items : i.fire = j.fire /\ i.copy = j.copy => i = j
  /\ \A i \in items : i.copy <= Cardinality(ItemsOf(i.fire))
  /\ \A f \in Fire : ItemsOf(f) # {} =>
       Cardinality(ItemsOf(f)) + Cardinality(Armed(f)) <= Cardinality(Worker)

NoneArmed == \A f \in Fire : ItemsOf(f) # {} => Armed(f)' \subseteq Armed(f)

Relabels == \E some \in SUBSET items : \E u \in Uuid : \E t \in Table : items' = Moved(some, u, t)

Cooks == \E w \in Worker : \E f \in Fire : \E u \in Uuid : \E t \in Table \union {NoTable} :
           w \in Armed(f) /\ req'[w] = Idle /\ AddItem(f, u, t)

LEMMA ArmedFinite ==
  \A f : IsFiniteSet(Armed(f)) /\ Cardinality(Armed(f)) \in Nat
         /\ Cardinality(Armed(f)) <= Cardinality(Worker)
<1> SUFFICES ASSUME NEW f PROVE IsFiniteSet(Armed(f)) /\ Cardinality(Armed(f)) \in Nat
                                /\ Cardinality(Armed(f)) <= Cardinality(Worker)
  OBVIOUS
<1>1. Armed(f) \in SUBSET Worker /\ IsFiniteSet(Worker)
  BY TableAssumption DEF Armed
<1> HIDE DEF Armed
<1> QED BY <1>1, FS_Subset, FS_CardinalityType

LEMMA ShapeArmsNone ==
  ASSUME FloorInv, NEW touched, FloorShape(touched) PROVE NoneArmed
<1> SUFFICES ASSUME NEW f \in Fire, NEW i \in items, i.fire = f, NEW w \in Armed(f)' PROVE w \in Armed(f)
  BY DEF NoneArmed, ItemsOf
<1>1. /\ w \in Worker /\ req'[w] # Idle /\ req'[w].op = "orders/fire" /\ req'[w].fire = f
      /\ ~\E j \in snap'[w].items : j.fire = f
  BY DEF Armed, AlreadyFired
<1>2. req'[w] = req[w] /\ snap'[w] = snap[w]
  BY <1>1 DEF FloorShape, Sees
<1> QED BY <1>1, <1>2 DEF Armed, AlreadyFired

\* Nobody was armed for what has an item, but some may have been disarmed.
LEMMA ArmedShrinks ==
  ASSUME NoneArmed, NEW f \in Fire, ItemsOf(f) # {}
  PROVE  /\ Cardinality(Armed(f)') \in Nat /\ Cardinality(Armed(f)) \in Nat
         /\ Cardinality(Armed(f)') <= Cardinality(Armed(f))
         /\ \A w \in Armed(f) : w \notin Armed(f)' =>
               Cardinality(Armed(f)') + 1 <= Cardinality(Armed(f))
<1> DEFINE A == Armed(f)
           B == Armed(f)'
<1>1. B \in SUBSET A /\ IsFiniteSet(A)
  BY ArmedFinite DEF NoneArmed
<1> HIDE DEF A, B
<1>2. IsFiniteSet(B) /\ Cardinality(B) <= Cardinality(A)
  BY <1>1, FS_Subset
<1>3. Cardinality(A) \in Nat /\ Cardinality(B) \in Nat
  BY <1>1, <1>2, FS_CardinalityType
<1>4. ASSUME NEW w \in A, w \notin B PROVE Cardinality(B) + 1 <= Cardinality(A)
  <2>1. B \in SUBSET (A \ {w})
    BY <1>1, <1>4
  <2>2. IsFiniteSet(A \ {w}) /\ Cardinality(A \ {w}) = Cardinality(A) - 1
    BY <1>1, FS_RemoveElement
  <2>3. Cardinality(B) <= Cardinality(A \ {w})
    BY <2>1, <2>2, FS_Subset
  <2> QED BY <1>3, <2>2, <2>3
<1> QED BY <1>2, <1>3, <1>4 DEF A, B

LEMMA ItemsOfFinite ==
  ASSUME IsFiniteSet(items), NEW f
  PROVE  IsFiniteSet(ItemsOf(f)) /\ Cardinality(ItemsOf(f)) \in Nat
<1>1. ItemsOf(f) \in SUBSET items
  BY DEF ItemsOf
<1> QED BY <1>1, FS_Subset, FS_CardinalityType

LEMMA WorkersCounted == Cardinality(Worker) \in Nat
BY TableAssumption, FS_CardinalityType

LEMMA SameCopies ==
  ASSUME FloorInv, CopiesInv, NoneArmed, UNCHANGED items PROVE CopiesInv'
<1>1. \A f : ItemsOf(f)' = ItemsOf(f)
  BY DEF ItemsOf
<1>2. /\ IsFiniteSet(items')
      /\ \A i, j \in items' : i.fire = j.fire /\ i.copy = j.copy => i = j
      /\ \A i \in items' : i.copy <= Cardinality(ItemsOf(i.fire)')
  BY <1>1 DEF CopiesInv
<1>3. ASSUME NEW f \in Fire, ItemsOf(f)' # {}
      PROVE  Cardinality(ItemsOf(f)') + Cardinality(Armed(f)') <= Cardinality(Worker)
  <2>1. Cardinality(ItemsOf(f)) + Cardinality(Armed(f)) <= Cardinality(Worker)
    BY <1>1, <1>3 DEF CopiesInv
  <2>2. Cardinality(ItemsOf(f)) \in Nat
    BY ItemsOfFinite DEF CopiesInv
  <2>3. /\ Cardinality(Armed(f)') \in Nat /\ Cardinality(Armed(f)) \in Nat
        /\ Cardinality(Armed(f)') <= Cardinality(Armed(f))
    BY <1>1, <1>3, ArmedShrinks
  <2> QED BY <1>1, <2>1, <2>2, <2>3, WorkersCounted
<1> QED BY <1>2, <1>3 DEF CopiesInv

\* Re-homed items keep their fire and copy, so they are as many.
LEMMA RelabelledCopies ==
  ASSUME FloorInv, CopiesInv, NoneArmed, Relabels PROVE CopiesInv'
<1>1. PICK some \in SUBSET items, u \in Uuid, t \in Table : items' = Moved(some, u, t)
  BY DEF Relabels
<1> DEFINE re(i) == IF i \in some THEN Rehomed(i, u, t) ELSE i
<1>2. \A i \in items : re(i).fire = i.fire /\ re(i).copy = i.copy
  BY RehomedItem DEF FloorInv, FloorTypeOK
<1>3. items' = {re(i) : i \in items}
  BY <1>1 DEF Moved
<1> HIDE DEF re
<1>4. \A i, j \in items : re(i) = re(j) => i = j
  BY <1>2 DEF CopiesInv
<1>5. \A i, j \in items' : i.fire = j.fire /\ i.copy = j.copy => i = j
  BY <1>2, <1>3 DEF CopiesInv
<1>6. ASSUME NEW f PROVE /\ ItemsOf(f)' = {re(i) : i \in ItemsOf(f)}
                         /\ Cardinality(ItemsOf(f)') = Cardinality(ItemsOf(f))
  <2>1. ItemsOf(f)' = {re(i) : i \in ItemsOf(f)}
    BY <1>2, <1>3 DEF ItemsOf
  <2>2. ItemsOf(f) \in SUBSET items
    BY DEF ItemsOf
  <2> DEFINE S == ItemsOf(f)
             T == ItemsOf(f)'
             g == [i \in S |-> re(i)]
  <2>3. IsFiniteSet(S)
    BY ItemsOfFinite DEF CopiesInv
  <2>4. g \in Bijection(S, T)
    BY <1>4, <2>1, <2>2 DEF Bijection, Injection, Surjection, IsInjective
  <2>5. ExistsBijection(S, T)
    BY <2>4 DEF ExistsBijection
  <2> HIDE DEF S, T
  <2>6. Cardinality(T) = Cardinality(S)
    BY <2>3, <2>5, FS_Bijection
  <2> QED BY <2>1, <2>6 DEF S, T
<1>7. IsFiniteSet(items')
  <2> DEFINE S == items
             T == items'
             g == [i \in S |-> re(i)]
  <2>1. g \in Bijection(S, T)
    BY <1>3, <1>4 DEF Bijection, Injection, Surjection, IsInjective
  <2>2. ExistsBijection(S, T) /\ IsFiniteSet(S)
    BY <2>1 DEF ExistsBijection, CopiesInv
  <2> HIDE DEF S, T
  <2>3. IsFiniteSet(T)
    BY <2>2, FS_Bijection
  <2> QED BY <2>3 DEF T
<1>8. ASSUME NEW j \in items' PROVE j.copy <= Cardinality(ItemsOf(j.fire)')
  <2>1. PICK i \in items : j = re(i)
    BY <1>3
  <2>2. i.copy <= Cardinality(ItemsOf(i.fire))
    BY DEF CopiesInv
  <2>3. Cardinality(ItemsOf(i.fire)') = Cardinality(ItemsOf(i.fire))
    BY <1>6
  <2>4. j.fire = i.fire /\ j.copy = i.copy
    BY <1>2, <2>1
  <2> QED BY <2>2, <2>3, <2>4
<1>9. ASSUME NEW f \in Fire, ItemsOf(f)' # {}
      PROVE  Cardinality(ItemsOf(f)') + Cardinality(Armed(f)') <= Cardinality(Worker)
  <2>1. ItemsOf(f) # {} /\ Cardinality(ItemsOf(f)') = Cardinality(ItemsOf(f))
    BY <1>6, <1>9
  <2>2. Cardinality(ItemsOf(f)) + Cardinality(Armed(f)) <= Cardinality(Worker)
    BY <2>1 DEF CopiesInv
  <2>3. Cardinality(ItemsOf(f)) \in Nat
    BY ItemsOfFinite DEF CopiesInv
  <2>4. /\ Cardinality(Armed(f)') \in Nat /\ Cardinality(Armed(f)) \in Nat
        /\ Cardinality(Armed(f)') <= Cardinality(Armed(f))
    BY <2>1, ArmedShrinks
  <2> QED BY <2>1, <2>2, <2>3, <2>4, WorkersCounted
<1> QED BY <1>5, <1>7, <1>8, <1>9 DEF CopiesInv

LEMMA CookedCopies ==
  ASSUME FloorInv, CopiesInv, NoneArmed, Cooks PROVE CopiesInv'
<1>1. PICK w \in Worker, f \in Fire, u \in Uuid, t \in Table \union {NoTable} :
        w \in Armed(f) /\ req'[w] = Idle /\ AddItem(f, u, t)
  BY DEF Cooks
<1> DEFINE n == Cardinality(ItemsOf(f))
           new == [fire |-> f, order |-> u, label |-> t, copy |-> n + 1]
<1>2. items' = items \union {new}
  BY <1>1 DEF AddItem, ItemsOf
<1>3. IsFiniteSet(ItemsOf(f)) /\ n \in Nat
  BY ItemsOfFinite DEF CopiesInv
<1>4. new.fire = f /\ new.copy = n + 1
  OBVIOUS
<1> HIDE DEF new, n
<1>5. \A i \in items : i.copy \in Nat /\ (i.fire = f => i.copy <= n)
  BY DEF FloorInv, FloorTypeOK, Item, CopiesInv, n
<1>6. new \notin items
  BY <1>3, <1>4, <1>5
<1>7. \A i, j \in items' : i.fire = j.fire /\ i.copy = j.copy => i = j
  BY <1>2, <1>3, <1>4, <1>5 DEF CopiesInv
<1>8. IsFiniteSet(items')
  BY <1>2, FS_AddElement DEF CopiesInv
<1>9. \A g : g # f => ItemsOf(g)' = ItemsOf(g)
  BY <1>2, <1>4 DEF ItemsOf
<1>10. Cardinality(ItemsOf(f)') = n + 1
  <2>1. ItemsOf(f)' = ItemsOf(f) \union {new} /\ new \notin ItemsOf(f)
    BY <1>2, <1>4, <1>6 DEF ItemsOf
  <2> DEFINE S == ItemsOf(f)
             T == ItemsOf(f)'
  <2>2. T = S \union {new} /\ new \notin S /\ IsFiniteSet(S) /\ Cardinality(S) = n
    BY <1>3, <2>1 DEF n
  <2> HIDE DEF S, T
  <2>3. Cardinality(T) = n + 1
    BY <2>2, FS_AddElement
  <2> QED BY <2>3 DEF T
<1>11. ASSUME NEW j \in items' PROVE j.copy <= Cardinality(ItemsOf(j.fire)')
  <2>1. CASE j.fire = f
    BY <1>2, <1>3, <1>4, <1>5, <1>10, <2>1
  <2>2. CASE j.fire # f
    <3>1. j \in items /\ ItemsOf(j.fire)' = ItemsOf(j.fire)
      BY <1>2, <1>4, <1>9, <2>2
    <3> QED BY <3>1 DEF CopiesInv
  <2> QED BY <2>1, <2>2
<1>12. ASSUME NEW g \in Fire, ItemsOf(g)' # {}
       PROVE  Cardinality(ItemsOf(g)') + Cardinality(Armed(g)') <= Cardinality(Worker)
  <2>1. CASE g # f
    <3>1. ItemsOf(g)' = ItemsOf(g)
      BY <1>9, <2>1
    <3>2. Cardinality(ItemsOf(g)) + Cardinality(Armed(g)) <= Cardinality(Worker)
      BY <1>12, <3>1 DEF CopiesInv
    <3>3. /\ Cardinality(Armed(g)') \in Nat /\ Cardinality(Armed(g)) \in Nat
          /\ Cardinality(Armed(g)') <= Cardinality(Armed(g))
      BY <1>12, <3>1, ArmedShrinks
    <3>4. Cardinality(ItemsOf(g)) \in Nat
      BY ItemsOfFinite DEF CopiesInv
    <3> QED BY <3>1, <3>2, <3>3, <3>4, WorkersCounted
  <2>2. CASE g = f /\ ItemsOf(f) # {}
    <3>1. w \notin Armed(f)'
      BY <1>1 DEF Armed
    <3>2. /\ Cardinality(Armed(f)') \in Nat /\ Cardinality(Armed(f)) \in Nat
          /\ Cardinality(Armed(f)') + 1 <= Cardinality(Armed(f))
      BY <1>1, <2>2, <3>1, ArmedShrinks
    <3>3. n + Cardinality(Armed(f)) <= Cardinality(Worker)
      BY <2>2 DEF CopiesInv, n
    <3> QED BY <1>3, <1>10, <2>2, <3>2, <3>3, WorkersCounted
  <2>3. CASE g = f /\ ItemsOf(f) = {}
    <3>1. n = 0
      BY <2>3, FS_EmptySet DEF n
    <3>2. Armed(f)' \in SUBSET (Worker \ {w})
      BY <1>1 DEF Armed
    <3>3. IsFiniteSet(Worker \ {w}) /\ Cardinality(Worker \ {w}) = Cardinality(Worker) - 1
      BY TableAssumption, FS_RemoveElement
    <3> DEFINE B == Armed(f)'
               V == Worker \ {w}
    <3>4. B \in SUBSET V /\ IsFiniteSet(V)
      BY <3>2, <3>3
    <3> HIDE DEF B, V
    <3>5. IsFiniteSet(B) /\ Cardinality(B) <= Cardinality(V)
      BY <3>4, FS_Subset
    <3>6. Cardinality(B) \in Nat
      BY <3>5, FS_CardinalityType
    <3>7. Cardinality(V) = Cardinality(Worker) - 1
      BY <3>3 DEF V
    <3>8. 1 + Cardinality(B) <= Cardinality(Worker)
      BY <3>5, <3>6, <3>7, WorkersCounted
    <3> QED BY <1>10, <2>3, <3>1, <3>6, <3>8 DEF B
  <2> QED BY <2>1, <2>2, <2>3
<1> QED BY <1>7, <1>8, <1>11, <1>12 DEF CopiesInv
(***************************************************************************)
(* Every step of the floor                                                 *)
(***************************************************************************)
ItemStep == UNCHANGED items \/ Relabels \/ Cooks

LEMMA CopiesKept ==
  ASSUME FloorInv, CopiesInv, NEW touched, FloorShape(touched), ItemStep PROVE CopiesInv'
BY ShapeArmsNone, SameCopies, RelabelledCopies, CookedCopies DEF ItemStep

LEMMA FireItems ==
  ASSUME FloorInv, NEW w \in Worker, FireAppend(w) \/ FireCreate(w)
  PROVE  Cooks
<1> DEFINE f == req[w].fire
<1>1. MayFire(w) /\ req[w] # Idle /\ f \in Fire /\ req[w].op = "orders/fire"
  BY FireRequest DEF FireAppend, FireCreate, MayFire, Serving
<1>2. w \in Armed(f)
  BY <1>1 DEF Armed, MayFire
<1>3. CASE FireAppend(w)
  <2>1. PICK u \in AppendTo(snap[w], f) :
          Commit(w, {u}) /\ AddItem(f, u, snap[w].order[u].table)
    BY <1>3 DEF FireAppend
  <2>2. u \in Uuid /\ snap[w].order[u] \in Row
    BY <1>1, <2>1, TableAssumption DEF AppendTo, OpenAt, FloorInv, FloorTypeOK, Snapshot
  <2>3. snap[w].order[u].table \in Table \union {NoTable}
    BY <2>2 DEF Row
  <2>4. req'[w] = Idle
    BY <2>1, Left DEF Commit
  <2> QED BY <1>1, <1>2, <2>1, <2>2, <2>3, <2>4 DEF Cooks
<1>4. CASE FireCreate(w)
  <2>1. Commit(w, {}) /\ AddItem(f, OrderOf[f], TableOf[f])
    BY <1>4 DEF FireCreate
  <2>2. OrderOf[f] \in Uuid /\ TableOf[f] \in Table \union {NoTable}
    BY <1>1, TableAssumption
  <2>3. req'[w] = Idle
    BY <2>1, Left DEF Commit
  <2> QED BY <1>1, <1>2, <2>1, <2>2, <2>3 DEF Cooks
<1> QED BY <1>3, <1>4

LEMMA MoveItems ==
  ASSUME FloorInv, NEW w \in Worker, Transfer(w) \/ MergeOntoFree(w) \/ Merge(w)
  PROVE  Relabels
<1>1. req[w].to \in Table
  BY MoveRequest DEF Transfer, MergeOntoFree, Merge
<1>2. CASE Transfer(w) \/ MergeOntoFree(w)
  <2>1. PICK u \in OpenAt(snap[w], req[w].from) : MoveOrder(w, u, req[w].to)
    BY <1>2 DEF Transfer, MergeOntoFree
  <2>2. items' = Moved({i \in items : i.order \in {u}}, u, req[w].to)
    BY <1>2, <2>1, MoveOrderShape DEF Transfer, MergeOntoFree
  <2> QED BY <1>1, <2>2 DEF Relabels, OpenAt
<1>3. CASE Merge(w)
  <2>1. PICK src, dst \in Uuid :
          items' = Moved({i \in items : i.order \in {src, dst}}, dst, req[w].to)
    BY <1>3, MergeFacts
  <2> QED BY <1>1, <2>1 DEF Relabels
<1> QED BY <1>2, <1>3

LEMMA WorkerShape ==
  ASSUME FloorInv, IsFiniteSet(items), NEW w \in Worker,
         Begin(w) \/ TakeLock(w) \/ FireStep(w) \/ MoveStep(w) \/ Abort(w)
  PROVE  (\E touched : FloorShape(touched)) /\ ItemStep
<1>1. CASE Begin(w)
  BY <1>1, BeginShape DEF Begin, ItemStep
<1>2. CASE TakeLock(w)
  BY <1>2, LockShape DEF TakeLock, ItemStep
<1>3. CASE FireAnswered(w)
  BY <1>3, AnsweredShape DEF FireAnswered, Reply, ItemStep
<1>4. CASE FireRetried(w)
  BY <1>4, RetriedShape DEF FireRetried, ItemStep
<1>5. CASE FireAppend(w) \/ FireCreate(w)
  BY <1>5, AppendShape, CreateShape, FireItems DEF ItemStep
<1>6. CASE Transfer(w) \/ MergeOntoFree(w)
  <2>1. PICK u \in OpenAt(snap[w], req[w].from) : MoveOrder(w, u, req[w].to)
    BY <1>6 DEF Transfer, MergeOntoFree
  <2>2. FloorShape({u})
    BY <1>6, <2>1, MoveOrderShape DEF Transfer, MergeOntoFree
  <2> QED BY <1>6, <2>2, MoveItems DEF ItemStep
<1>7. CASE Merge(w)
  BY <1>7, MergeShape, MoveItems DEF ItemStep
<1>8. CASE FireRefused(w) \/ TransferRefused(w) \/ MergeRefused(w) \/ MoveLost(w) \/ Abort(w)
  <2>1. Reply(w) /\ UNCHANGED fired
    BY <1>8 DEF FireRefused, TransferRefused, MergeRefused, MoveLost, Abort
  <2> QED BY <2>1, RepliedShape DEF Reply, ItemStep
<1> QED BY <1>1, <1>2, <1>3, <1>4, <1>5, <1>6, <1>7, <1>8 DEF FireStep, MoveStep

LEMMA FloorNextInv ==
  FloorInv /\ CopiesInv /\ [TableNext]_tableVars => FloorInv' /\ CopiesInv'
<1> SUFFICES ASSUME FloorInv, CopiesInv, [TableNext]_tableVars PROVE FloorInv' /\ CopiesInv'
  OBVIOUS
<1>1. IsFiniteSet(items)
  BY DEF CopiesInv
<1>2. CASE UNCHANGED tableVars
  <2>1. ReqsTyped /\ \A v \in Worker : Sees(v, {})
    BY <1>2 DEF tableVars, ReqsTyped, Sees, FloorInv, FloorTypeOK
  <2>2. FloorShape({}) /\ ItemStep
    BY <1>2, <2>1, QuietShape DEF tableVars, FloorInv, FloorTypeOK, ItemStep
  <2> QED BY <2>2, FloorShapeKeeps, CopiesKept
<1>3. ASSUME NEW w \in Worker,
             Begin(w) \/ TakeLock(w) \/ FireStep(w) \/ MoveStep(w) \/ Abort(w)
      PROVE  FloorInv' /\ CopiesInv'
  BY <1>1, <1>3, WorkerShape, FloorShapeKeeps, CopiesKept
<1>4. ASSUME NEW u \in Uuid, Tender(u) PROVE FloorInv' /\ CopiesInv'
  <2>1. FloorShape({u}) /\ ItemStep
    BY <1>4, TenderShape DEF Tender, ItemStep
  <2> QED BY <2>1, FloorShapeKeeps, CopiesKept
<1> QED BY <1>2, <1>3, <1>4 DEF TableNext

LEMMA CopiesInitInv == TableInit => CopiesInv
<1> SUFFICES ASSUME TableInit PROVE CopiesInv
  OBVIOUS
<1>1. items = {} /\ IsFiniteSet(items)
  BY FS_EmptySet DEF TableInit
<1> QED BY <1>1 DEF CopiesInv, ItemsOf

(***************************************************************************)
(* Locks                                                                   *)
(***************************************************************************)
\* A lock is held by a request that needs it, and the later of a move's two
\* locks only with the first.
LocksOrdered ==
  /\ lock \in [Lock -> Worker \union {Nobody}]
  /\ \A l \in Lock : \A w \in Worker : lock[l] = w => req[w] # Idle /\ l \in Needs(req[w])
  /\ \A w \in Worker : req[w] # Idle /\ req[w].op # "orders/fire" =>
       \A l, k \in Needs(req[w]) : lock[k] = w /\ l < k => lock[l] = w

LEMMA NeedsLocks ==
  ASSUME FloorInv, NEW w \in Worker, req[w] # Idle
  PROVE  /\ Needs(req[w]) \subseteq Lock
         /\ req[w].op = "orders/fire" => \E l : Needs(req[w]) = {l}
         /\ req[w].op # "orders/fire" => /\ Needs(req[w]) = {req[w].from, req[w].to}
                                         /\ Needs(req[w]) \subseteq Table /\ req[w] \in Moves
<1>1. req[w] \in Request
  BY DEF FloorInv, FloorTypeOK
<1>2. CASE req[w].op = "orders/fire"
  <2>1. req[w].fire \in Fire
    BY <1>1, <1>2, TableAssumption DEF Request
  <2> QED BY <1>2, <2>1, TableAssumption DEF Needs, Lock
<1>3. CASE req[w].op # "orders/fire"
  <2>1. req[w] \in Moves
    BY <1>1, <1>3 DEF Request
  <2> QED BY <1>3, <2>1, TableAssumption DEF Needs, Lock
<1> QED BY <1>2, <1>3

\* The lock that is waited for is needed, and a move's is the first it misses.
LEMMA Waited ==
  ASSUME FloorInv, NEW w \in Worker, req[w] # Idle, Missing(w) # {}
  PROVE  /\ NextLock(w) \in Missing(w)
         /\ req[w].op # "orders/fire" => \A l \in Missing(w) : NextLock(w) <= l
<1>1. CASE req[w].op = "orders/fire"
  BY <1>1 DEF NextLock
<1>2. CASE req[w].op # "orders/fire"
  <2>1. /\ Missing(w) \subseteq {req[w].from, req[w].to}
        /\ req[w].from \in Nat /\ req[w].to \in Nat
    BY <1>2, NeedsLocks, TableAssumption DEF Missing
  <2>2. \E x \in Missing(w) : \A y \in Missing(w) : x <= y
    BY <2>1
  <2>3. NextLock(w) = CHOOSE x \in Missing(w) : \A y \in Missing(w) : x <= y
    BY <1>2 DEF NextLock, Min
  <2> QED BY <2>2, <2>3
<1> QED BY <1>1, <1>2

LEMMA LocksInit == TableInit => LocksOrdered
BY TableAssumption DEF TableInit, LocksOrdered

LEMMA ReleaseKeeps ==
  ASSUME FloorInv, LocksOrdered, NEW w \in Worker, Release(w),
         req'[w] \in {Idle, req[w]}, \A v \in Worker \ {w} : req'[v] = req[v]
  PROVE  LocksOrdered'
<1>1. lock' \in [Lock -> Worker \union {Nobody}]
  BY DEF Release, LocksOrdered
<1>2. \A l \in Lock : lock'[l] # w /\ (lock'[l] = lock[l] \/ lock[l] = w)
  BY TableAssumption DEF Release, LocksOrdered
<1>3. \A l \in Lock : \A v \in Worker : lock'[l] = v => v # w /\ lock[l] = v
  BY <1>2, TableAssumption DEF Release
<1>4. \A l \in Lock : \A v \in Worker : v # w /\ lock[l] = v => lock'[l] = v
  BY DEF Release
<1>5. ASSUME NEW v \in Worker, req'[v] # Idle, req'[v].op # "orders/fire",
             NEW l \in Needs(req'[v]), NEW k \in Needs(req'[v]), lock'[k] = v, l < k
      PROVE  lock'[l] = v
  <2>1. CASE v = w
    <3>1. req'[w] = req[w] /\ k \in Lock
      BY <1>5, <2>1, NeedsLocks
    <3> QED BY <1>2, <1>5, <2>1, <3>1
  <2>2. CASE v # w
    <3>1. req'[v] = req[v]
      BY <2>2
    <3>2. l \in Lock /\ k \in Lock
      BY <1>5, <3>1, NeedsLocks
    <3> QED BY <1>3, <1>4, <1>5, <2>2, <3>1, <3>2 DEF LocksOrdered
  <2> QED BY <2>1, <2>2
<1> QED BY <1>1, <1>3, <1>5 DEF LocksOrdered

LEMMA LocksNext ==
  FloorInv /\ LocksOrdered /\ [TableNext]_tableVars => LocksOrdered'
<1> SUFFICES ASSUME FloorInv, LocksOrdered, [TableNext]_tableVars PROVE LocksOrdered'
  OBVIOUS
<1>1. CASE UNCHANGED <<req, lock>>
  BY <1>1 DEF LocksOrdered
<1>2. ASSUME NEW w \in Worker, Begin(w) PROVE LocksOrdered'
  <2>1. /\ lock' = lock /\ req[w] = Idle /\ \A v \in Worker \ {w} : req'[v] = req[v]
        /\ req' \in [Worker -> Request \union {Idle}]
    BY <1>2 DEF Begin, FloorInv, FloorTypeOK
  <2>2. \A l \in Lock : lock[l] # w
    BY <2>1 DEF LocksOrdered
  <2>3. ASSUME NEW v \in Worker, req'[v] # Idle, req'[v].op # "orders/fire",
               NEW l \in Needs(req'[v]), NEW k \in Needs(req'[v]), lock'[k] = v, l < k
        PROVE  lock'[l] = v
    <3>1. CASE v = w
      <4>1. req'[v] \in Moves
        BY <2>1, <2>3 DEF Request
      <4>2. k \in Lock
        BY <2>3, <4>1, TableAssumption DEF Needs, Lock
      <4> QED BY <2>1, <2>2, <2>3, <3>1, <4>2
    <3>2. CASE v # w
      BY <2>1, <2>3, <3>2 DEF LocksOrdered
    <3> QED BY <3>1, <3>2
  <2>4. \A l \in Lock : \A v \in Worker : lock'[l] = v => req'[v] # Idle /\ l \in Needs(req'[v])
    BY <2>1, <2>2 DEF LocksOrdered
  <2> QED BY <2>1, <2>3, <2>4 DEF LocksOrdered
<1>3. ASSUME NEW w \in Worker, TakeLock(w) PROVE LocksOrdered'
  <2> DEFINE n == NextLock(w)
  <2>1. req[w] # Idle /\ Missing(w) # {} /\ lock[n] = Nobody /\ req' = req
        /\ lock' = [lock EXCEPT ![n] = w]
    BY <1>3 DEF TakeLock
  <2>2. n \in Missing(w) /\ (req[w].op # "orders/fire" => \A l \in Missing(w) : n <= l)
    BY <2>1, Waited
  <2>3. n \in Needs(req[w]) /\ n \in Lock
    BY <2>1, <2>2, NeedsLocks DEF Missing
  <2> HIDE DEF n
  <2>4. /\ lock' \in [Lock -> Worker \union {Nobody}] /\ lock'[n] = w
        /\ \A l \in Lock \ {n} : lock'[l] = lock[l]
    BY <2>1, <2>3 DEF LocksOrdered
  <2>5. \A l \in Lock : \A v \in Worker : lock'[l] = v => req'[v] # Idle /\ l \in Needs(req'[v])
    BY <2>1, <2>3, <2>4 DEF LocksOrdered
  <2>6. ASSUME NEW v \in Worker, req'[v] # Idle, req'[v].op # "orders/fire",
               NEW l \in Needs(req'[v]), NEW k \in Needs(req'[v]), lock'[k] = v, l < k
        PROVE  lock'[l] = v
    <3>1. l \in Table /\ k \in Table /\ l \in Lock /\ k \in Lock
      BY <2>1, <2>6, NeedsLocks
    <3>2. CASE k = n
      <4>1. v = w
        BY <2>4, <2>6, <3>2
      <4>2. l \notin Missing(w)
        <5>1. l \in Nat /\ k \in Nat
          BY <3>1, TableAssumption
        <5> QED BY <2>1, <2>2, <2>6, <3>2, <4>1, <5>1
      <4>3. lock[l] = w
        BY <2>1, <2>6, <4>1, <4>2 DEF Missing
      <4> QED BY <2>4, <3>1, <4>1, <4>3
    <3>3. CASE k # n
      <4>1. lock[k] = v
        BY <2>4, <2>6, <3>1, <3>3
      <4>2. lock[l] = v
        BY <2>1, <2>6, <4>1 DEF LocksOrdered
      <4>3. l # n
        BY <2>1, <4>2, TableAssumption
      <4> QED BY <2>4, <3>1, <4>2, <4>3
    <3> QED BY <3>2, <3>3
  <2> QED BY <2>4, <2>5, <2>6 DEF LocksOrdered
<1>4. ASSUME NEW w \in Worker, FireStep(w) \/ MoveStep(w) \/ Abort(w) PROVE LocksOrdered'
  <2>1. CASE FireRetried(w)
    BY <2>1, ReleaseKeeps DEF FireRetried
  <2>2. CASE ~FireRetried(w)
    <3>1. Leave(w)
      BY <1>4, <2>2 DEF FireStep, MoveStep, Abort, FireAnswered, FireRefused, FireAppend, FireCreate,
         Transfer, TransferRefused, MergeOntoFree, MoveOrder, Merge, MergeRefused, MoveLost, Reply, Commit
    <3>2. req'[w] = Idle /\ \A v \in Worker \ {w} : req'[v] = req[v]
      BY <3>1, Left
    <3> QED BY <3>1, <3>2, ReleaseKeeps DEF Leave
  <2> QED BY <2>1, <2>2
<1>5. CASE UNCHANGED tableVars
  BY <1>1, <1>5 DEF tableVars
<1>6. ASSUME NEW u \in Uuid, Tender(u) PROVE LocksOrdered'
  BY <1>1, <1>6 DEF Tender
<1> QED BY <1>2, <1>3, <1>4, <1>5, <1>6 DEF TableNext

\* A finite set of numbers has a greatest: a least set without one would have
\* one with an element less.
LEMMA Greatest ==
  ASSUME NEW S \in SUBSET Nat, IsFiniteSet(S), S # {}
  PROVE  \E m \in S : \A x \in S : x <= m
<1> DEFINE C == {T \in SUBSET S : T # {} /\ ~\E m \in T : \A x \in T : x <= m}
<1> SUFFICES ASSUME C # {} PROVE FALSE
  BY DEF C
<1>1. C \subseteq FiniteSubsetsOf(S)
  BY FS_FiniteSubsetsOfFinite
<1>2. PICK T \in C : \A U \in C : ~(<<U, T>> \in StrictSubsetOrdering(S))
  BY <1>1, FS_StrictSubsetOrderingWellFounded, WFMin
<1>3. PICK x \in T : TRUE
  OBVIOUS
<1> DEFINE U == T \ {x}
<1>4. U \in SUBSET S /\ U # T /\ U \subseteq T /\ U \notin C
  BY <1>2, <1>3 DEF StrictSubsetOrdering
<1>5. CASE U = {}
  <2>1. \A y \in T : y = x
    BY <1>5
  <2>2. x <= x
    BY <1>3
  <2> QED BY <1>3, <2>1, <2>2
<1>6. CASE U # {}
  <2>1. PICK m \in U : \A y \in U : y <= m
    BY <1>4, <1>6
  <2>2. \A y \in T : y \in Nat
    OBVIOUS
  <2>3. CASE m <= x
    <3>1. \A y \in T : y <= x
      BY <2>1, <2>2, <2>3, <1>3
    <3> QED BY <1>3, <3>1
  <2>4. CASE ~(m <= x)
    <3>1. \A y \in T : y <= m
      BY <2>1, <2>2, <2>4, <1>3
    <3> QED BY <2>1, <3>1
  <2> QED BY <2>3, <2>4
<1> QED BY <1>5, <1>6

\* Who waits while holding what another waits for is a move, and waits for a
\* later table.
LEMMA WaitsForLater ==
  ASSUME FloorInv, LocksOrdered, NEW w \in Worker, NEW v \in Worker, NEW x \in Worker,
         WaitsFor(w, v), WaitsFor(v, x)
  PROVE  NextLock(w) \in Nat /\ NextLock(v) \in Nat /\ NextLock(w) < NextLock(v)
<1> DEFINE l == NextLock(w)
           k == NextLock(v)
<1>1. req[w] # Idle /\ req[v] # Idle /\ Missing(w) # {} /\ Missing(v) # {} /\ lock[l] = v
  BY DEF WaitsFor
<1>2. l \in Missing(w) /\ k \in Missing(v) /\ k \in Needs(req[v]) /\ lock[k] # v
      /\ (req[v].op # "orders/fire" => \A j \in Missing(v) : k <= j)
  BY <1>1, Waited DEF Missing
<1>3. l \in Lock
  BY <1>1, <1>2, NeedsLocks DEF Missing
<1> HIDE DEF l, k
<1>4. l \in Needs(req[v])
  BY <1>1, <1>3 DEF LocksOrdered
<1>5. l # k
  BY <1>1, <1>2
<1>6. req[v].op # "orders/fire"
  BY <1>1, <1>2, <1>4, <1>5, NeedsLocks
<1>7. l \in Nat /\ k \in Nat
  BY <1>1, <1>2, <1>4, <1>6, NeedsLocks, TableAssumption
<1>8. ~(k < l)
  BY <1>1, <1>2, <1>4, <1>6 DEF LocksOrdered
<1> QED BY <1>5, <1>7, <1>8 DEF l, k

LEMMA NoCircle == FloorInv /\ LocksOrdered => NobodyDeadlocked
<1> SUFFICES ASSUME FloorInv, LocksOrdered, NEW ws \in SUBSET Worker, ws # {},
                    \A w \in ws : \E v \in ws : WaitsFor(w, v)
             PROVE  FALSE
  BY DEF NobodyDeadlocked
<1> DEFINE S == {NextLock(w) : w \in ws}
<1>1. ASSUME NEW w \in ws
      PROVE  \E v \in ws : NextLock(w) \in Nat /\ NextLock(v) \in Nat /\ NextLock(w) < NextLock(v)
  <2>1. PICK v \in ws : WaitsFor(w, v)
    OBVIOUS
  <2>2. PICK x \in ws : WaitsFor(v, x)
    OBVIOUS
  <2> QED BY <2>1, <2>2, WaitsForLater
<1>2. S \in SUBSET Nat /\ S # {}
  BY <1>1
<1>3. IsFiniteSet(S)
  <2>1. IsFiniteSet(ws)
    BY TableAssumption, FS_Subset
  <2> DEFINE f == [w \in ws |-> NextLock(w)]
  <2>2. f \in Surjection(ws, S)
    BY DEF Surjection
  <2> HIDE DEF S, f
  <2> QED BY <2>1, <2>2, FS_Surjection
<1>4. PICK m \in S : \A n \in S : n <= m
  BY <1>2, <1>3, Greatest
<1>5. PICK w \in ws : m = NextLock(w)
  OBVIOUS
<1>6. PICK v \in ws : NextLock(w) \in Nat /\ NextLock(v) \in Nat /\ NextLock(w) < NextLock(v)
  BY <1>1
<1>7. NextLock(v) <= NextLock(w)
  BY <1>4, <1>5
<1> QED BY <1>6, <1>7

(***************************************************************************)
(* The theorems                                                            *)
(***************************************************************************)
LEMMA FloorFollows == FloorInv /\ CopiesInv => NothingLost /\ LabelsRight /\ RepeatsBounded
<1> SUFFICES ASSUME FloorInv, CopiesInv PROVE NothingLost /\ LabelsRight /\ RepeatsBounded
  OBVIOUS
<1>1. NothingLost /\ LabelsRight
  BY DEF FloorInv, FiresKept, Housed, NothingLost, LabelsRight
<1>2. ASSUME NEW i \in items PROVE i.copy <= Cardinality(Worker)
  <2>1. i.fire \in Fire /\ i.copy \in Nat /\ i \in ItemsOf(i.fire)
    BY DEF FloorInv, FloorTypeOK, Item, ItemsOf
  <2>2. i.copy <= Cardinality(ItemsOf(i.fire))
    BY DEF CopiesInv
  <2>3. Cardinality(ItemsOf(i.fire)) + Cardinality(Armed(i.fire)) <= Cardinality(Worker)
    BY <2>1 DEF CopiesInv
  <2>4. Cardinality(ItemsOf(i.fire)) \in Nat /\ Cardinality(Armed(i.fire)) \in Nat
    BY ItemsOfFinite, ArmedFinite DEF CopiesInv
  <2> QED BY <2>1, <2>2, <2>3, <2>4, WorkersCounted
<1> QED BY <1>1, <1>2 DEF RepeatsBounded

\* For any tables, requests, moves and workers: what was fired stays on an order
\* that exists under the label of its table, it is cooked at most once per
\* worker, and no requests wait for one another in a circle.
THEOREM FloorSafety ==
  TableSpec => [](NothingLost /\ LabelsRight /\ RepeatsBounded /\ NobodyDeadlocked)
<1>1. TableInit => FloorInv /\ CopiesInv /\ LocksOrdered
  BY FloorInitInv, CopiesInitInv, LocksInit
<1>2. FloorInv /\ CopiesInv /\ LocksOrdered /\ [TableNext]_tableVars
      => FloorInv' /\ CopiesInv' /\ LocksOrdered'
  BY FloorNextInv, LocksNext
<1>3. FloorInv /\ CopiesInv /\ LocksOrdered
      => NothingLost /\ LabelsRight /\ RepeatsBounded /\ NobodyDeadlocked
  BY FloorFollows, NoCircle
<1> QED BY <1>1, <1>2, <1>3, PTL DEF TableSpec
PaymentsStay ==
  \A u \in Uuid : order[u].tendered /\ order'[u].state = "none"
    => \E w \in Worker : req[w] # Idle /\ req[w].op = "tables/merge" /\ req[w].confirm

LEMMA StepKeepsPayments == FloorInv /\ [TableNext]_tableVars => PaymentsStay
<1> SUFFICES ASSUME FloorInv, [TableNext]_tableVars, NEW u \in Uuid, order[u].tendered,
                    order'[u].state = "none"
             PROVE  \E w \in Worker : req[w] # Idle /\ req[w].op = "tables/merge" /\ req[w].confirm
  BY DEF PaymentsStay
<1>1. order[u].state # "none" /\ order' # order
  BY DEF FloorInv, FloorTypeOK
<1>2. ASSUME NEW w \in Worker, FireCreate(w) PROVE FALSE
  <2> DEFINE q == OrderOf[req[w].fire]
             new == [state |-> "draft", table |-> TableOf[req[w].fire], tendered |-> FALSE]
  <2>1. order[q].state = "none" /\ order' = [order EXCEPT ![q] = new]
    BY <1>2 DEF FireCreate
  <2>2. order'[u] = order[u]
    BY <1>1, <2>1 DEF FloorInv, FloorTypeOK
  <2> QED BY <1>1, <2>2
<1>3. ASSUME NEW w \in Worker, Transfer(w) \/ MergeOntoFree(w) PROVE FALSE
  <2>1. PICK q \in OpenAt(snap[w], req[w].from) : MoveOrder(w, q, req[w].to)
    BY <1>3 DEF Transfer, MergeOntoFree
  <2>2. FloorShape({q}) /\ order' = [order EXCEPT ![q] = [order[q] EXCEPT !.table = req[w].to]]
    BY <1>3, <2>1, MoveOrderShape DEF Transfer, MergeOntoFree, MoveOrder
  <2>3. [order[q] EXCEPT !.table = req[w].to].state = order[q].state
    BY <2>1 DEF OpenAt, FloorInv, FloorTypeOK, Row
  <2>4. order'[u].state = order[u].state
    BY <2>2, <2>3 DEF FloorInv, FloorTypeOK
  <2> QED BY <1>1, <2>4
<1>4. ASSUME NEW w \in Worker, Merge(w)
      PROVE  req[w] # Idle /\ req[w].op = "tables/merge" /\ req[w].confirm
  <2>1. PICK src, dst \in Uuid :
          /\ KnownTo(w, src)
          /\ Unpaid(snap[w], src, dst) \/ req[w].confirm
          /\ order' = [order EXCEPT ![src] = NoOrder]
    BY <1>4, MergeFacts
  <2>2. u = src
    BY <1>1, <2>1 DEF FloorInv, FloorTypeOK
  <2> QED BY <1>4, <2>1, <2>2 DEF Merge, Serving, KnownTo, Unpaid
<1>5. ASSUME NEW q \in Uuid, Tender(q) PROVE FALSE
  <2>1. PICK s \in {"draft", "paid"} :
          order' = [order EXCEPT ![q] = [state |-> s, table |-> order[q].table, tendered |-> TRUE]]
    BY <1>5 DEF Tender
  <2>2. order'[u].state # "none"
    BY <1>1, <2>1 DEF FloorInv, FloorTypeOK
  <2> QED BY <2>2
<1>6. ASSUME NEW w \in Worker, \/ Begin(w) \/ TakeLock(w) \/ Abort(w) \/ FireAnswered(w)
                               \/ FireRefused(w) \/ FireAppend(w) \/ FireRetried(w)
                               \/ TransferRefused(w) \/ MergeRefused(w) \/ MoveLost(w)
      PROVE  FALSE
  BY <1>1, <1>6 DEF Begin, TakeLock, Abort, FireAnswered, FireRefused, FireAppend, FireRetried,
     TransferRefused, MergeRefused, MoveLost, Reply
<1> QED
  BY <1>1, <1>2, <1>3, <1>4, <1>5, <1>6 DEF TableNext, FireStep, MoveStep, tableVars

\* An order with payments is removed only by a merge that was confirmed.
THEOREM FloorPaymentsKept == TableSpec => PaymentsKept
<1>1. TableInit => FloorInv /\ CopiesInv
  BY FloorInitInv, CopiesInitInv
<1>2. FloorInv /\ CopiesInv /\ [TableNext]_tableVars => FloorInv' /\ CopiesInv'
  BY FloorNextInv
<1>3. FloorInv /\ [TableNext]_tableVars => PaymentsStay
  BY StepKeepsPayments
<1> QED BY <1>1, <1>2, <1>3, PTL DEF TableSpec, PaymentsKept, PaymentsStay


(***************************************************************************)
(* Seating: the inductive invariant                                        *)
(***************************************************************************)
ResRecord == [state : ResStates, table : Spot, start : Starts, length : Lengths,
              order : Ord \union {NoOrd}]
PartyRecord == [state : {"waiting", "notified", "seating", "seated", "cancelled", "left",
                         "no_response"},
                table : Spot \union {NoSpot}, order : Ord \union {NoOrd}]

SeatingTypeOK == /\ res \in [Res -> ResRecord \union {None}]
                 /\ party \in [Party -> PartyRecord \union {None}]
                 /\ view \in [Res -> [Res -> ResRecord \union {None, [state |-> "idle"]}]]
                 /\ intact \subseteq Res /\ knew \in [Res -> SUBSET Res]

\* A request that is deciding has made nothing yet, and has seen nothing that
\* is not there.
Pending == \A r \in Res : view[r] # Unasked =>
             /\ res[r] = None
             /\ \A q \in Res : res[q] = None => view[r][q] = None

\* What it saw of a booking that is intact is how that booking is now.
SawHolding == \A r \in Res : \A q \in intact :
                view[r] # Unasked /\ view[r][q] # None =>
                  /\ Holds(view[r][q].state)        /\ view[r][q].table = res[q].table
                  /\ view[r][q].start = res[q].start /\ view[r][q].length = res[q].length

\* What is intact holds its table, and what was known was made.
IntactHolds == /\ \A q \in intact : res[q] # None /\ Holds(res[q].state)
               /\ \A r \in Res : \A q \in knew[r] : res[q] # None

SeatingInv == SeatingTypeOK /\ Pending /\ SawHolding /\ IntactHolds /\ HeldApart /\ NoLeftoverOrder

(***************************************************************************)
(* Moves of one record                                                     *)
(***************************************************************************)
\* A move keeps when and where, and drops the order when it goes back to start.
LEMMA MovedRes ==
  ASSUME NEW rec \in ResRecord, NEW s \in ResStates
  PROVE  LET new == ResMoved(rec, s) IN
         /\ new \in ResRecord /\ new.state = s /\ new.table = rec.table
         /\ new.start = rec.start /\ new.length = rec.length
         /\ new.order # NoOrd => new.order = rec.order /\ (s = rec.state \/ s # "booked")
BY SeatingAssumption DEF ResMoved, Restored, ResRecord, ResStates

\* Attaching an order changes nothing else, and only of who is seated.
LEMMA AttachedRes ==
  ASSUME NEW rec \in ResRecord, NEW new \in Attached(rec)
  PROVE  /\ new \in ResRecord /\ new.state = rec.state /\ new.table = rec.table
         /\ new.start = rec.start /\ new.length = rec.length
         /\ new.order = rec.order \/ rec.state = "seated"
BY DEF Attached, ResRecord

LEMMA MovedParty ==
  ASSUME NEW rec \in PartyRecord, NEW s \in {rec.state} \union PartyNext(rec.state),
         NEW t \in Spot \union {NoSpot}
  PROVE  LET new == PartyMoved(rec, s, t) IN
         /\ new \in PartyRecord /\ new.state = s
         /\ new.order # NoOrd => new.order = rec.order /\ (s = rec.state \/ s # "waiting")
<1>1. s \in {"waiting", "notified", "seating", "seated", "cancelled", "left", "no_response"}
  BY DEF PartyNext, PartyRecord
<1>2. CASE s = "seated" /\ t # NoSpot
  <2>1. PartyMoved(rec, s, t) = [state |-> s, table |-> t, order |-> rec.order]
    BY <1>2 DEF PartyMoved
  <2> QED BY <1>2, <2>1 DEF PartyRecord
<1>3. CASE ~(s = "seated" /\ t # NoSpot) /\ s = rec.state
  <2>1. PartyMoved(rec, s, t) = rec
    BY <1>3 DEF PartyMoved
  <2> QED BY <1>3, <2>1
<1>4. CASE ~(s = "seated" /\ t # NoSpot) /\ s # rec.state /\ s = "waiting"
  <2>1. PartyMoved(rec, s, t) = Restored([state |-> s, table |-> NoSpot, order |-> rec.order])
    BY <1>4 DEF PartyMoved
  <2> QED BY <1>4, <2>1 DEF Restored, PartyRecord
<1>5. CASE ~(s = "seated" /\ t # NoSpot) /\ s # rec.state /\ s # "waiting"
  <2>1. PartyMoved(rec, s, t) = [rec EXCEPT !.state = s]
    BY <1>5 DEF PartyMoved
  <2> QED BY <1>1, <1>5, <2>1 DEF PartyRecord
<1> QED BY <1>2, <1>3, <1>4, <1>5

LEMMA AttachedParty ==
  ASSUME NEW rec \in PartyRecord, NEW new \in Attached(rec)
  PROVE  /\ new \in PartyRecord /\ new.state = rec.state
         /\ new.order = rec.order \/ rec.state = "seated"
BY DEF Attached, PartyRecord

(***************************************************************************)
(* Induction                                                               *)
(***************************************************************************)
LEMMA SeatingInitInv == SeatingInit => SeatingInv
<1> SUFFICES ASSUME SeatingInit PROVE SeatingInv
  OBVIOUS
<1> USE DEF SeatingInit
<1>1. SeatingTypeOK
  BY DEF SeatingTypeOK, Unasked
<1>2. Pending /\ SawHolding /\ IntactHolds
  BY DEF Pending, SawHolding, IntactHolds
<1>3. HeldApart /\ NoLeftoverOrder
  BY DEF HeldApart, NoLeftoverOrder
<1> QED BY <1>1, <1>2, <1>3 DEF SeatingInv

\* A booking that is made is apart from those its request saw.
LEMMA BookStep ==
  ASSUME SeatingInv, NEW r \in Res, Book(r) PROVE SeatingInv'
<1> USE SeatingAssumption DEF SeatingInv
<1>1. PICK t \in Spot, s \in Starts, n \in Lengths :
        LET new == [state |-> "booked", table |-> t, start |-> s, length |-> n, order |-> NoOrd]
        IN ~Conflict(view[r], new) /\ res' = [res EXCEPT ![r] = new]
  BY DEF Book
<1> DEFINE new == [state |-> "booked", table |-> t, start |-> s, length |-> n, order |-> NoOrd]
<1>2. /\ new \in ResRecord /\ new # None /\ new.state = "booked" /\ new.table = t
      /\ new.start = s /\ new.length = n /\ new.order = NoOrd
  BY DEF ResRecord, ResStates, None
<1> HIDE DEF new
<1>3. /\ res[r] = None /\ view[r] # Unasked /\ res' = [res EXCEPT ![r] = new]
      /\ intact' = intact \union {r} /\ knew' = [knew EXCEPT ![r] = {q \in Res : view[r][q] # None}]
      /\ view' = [view EXCEPT ![r] = Unasked] /\ UNCHANGED <<party, draft>>
  BY <1>1 DEF Book, Pending, new
<1>4. SeatingTypeOK'
  BY <1>2, <1>3 DEF SeatingTypeOK, Unasked
<1>5. Pending'
  BY <1>2, <1>3 DEF SeatingTypeOK, Pending
<1>6. SawHolding'
  BY <1>2, <1>3 DEF SeatingTypeOK, Pending, SawHolding
<1>7. IntactHolds'
  BY <1>2, <1>3 DEF SeatingTypeOK, Pending, IntactHolds, Holds
<1>8. HeldApart'
  <2> SUFFICES ASSUME NEW x \in intact', NEW q \in intact', x # q,
                      res'[x].table = res'[q].table, q \in knew'[x]
               PROVE  ~Overlap(res'[x], res'[q])
    BY DEF HeldApart
  <2>1. x \in Res /\ q \in Res
    BY <1>3 DEF SeatingTypeOK
  <2>2. CASE x = r
    <3>1. q \in intact /\ view[r][q] # None /\ res'[q] = res[q] /\ res'[x] = new
      BY <1>3, <2>1, <2>2 DEF SeatingTypeOK
    <3>2. /\ Holds(view[r][q].state) /\ view[r][q].table = new.table
          /\ view[r][q].start = res[q].start /\ view[r][q].length = res[q].length
      BY <1>3, <2>2, <3>1 DEF SawHolding
    <3>3. ~Overlap(view[r][q], new)
      BY <1>1, <2>1, <3>2 DEF Conflict, new
    <3>4. res[q] \in ResRecord
      BY <2>1, <3>1 DEF SeatingTypeOK, IntactHolds
    <3> QED BY <1>2, <3>1, <3>2, <3>3, <3>4 DEF Overlap, ResRecord
  <2>3. CASE x # r
    <3>1. q \in knew[x] /\ x \in intact
      BY <1>3, <2>1, <2>3 DEF SeatingTypeOK
    <3>2. q # r
      BY <1>3, <2>1, <3>1 DEF IntactHolds
    <3> QED BY <1>3, <2>1, <2>3, <3>1, <3>2 DEF SeatingTypeOK, HeldApart
  <2> QED BY <2>2, <2>3
<1>9. NoLeftoverOrder'
  BY <1>2, <1>3 DEF SeatingTypeOK, NoLeftoverOrder
<1> QED BY <1>4, <1>5, <1>6, <1>7, <1>8, <1>9

\* A reservation that moves keeps its times, and one that leaves its table or
\* its hold on it is no longer intact.
LEMMA ResStateStep ==
  ASSUME SeatingInv, NEW r \in Res, ResState(r) PROVE SeatingInv'
<1> USE SeatingAssumption DEF SeatingInv
<1>1. PICK t \in Spot, s \in ResStates :
        LET rec == [res[r] EXCEPT !.table = t]
            legal == s = rec.state \/ s \in ResNext(rec.state)
        IN \E new \in IF legal THEN Attached(ResMoved(rec, s)) ELSE {rec} :
             /\ res' = [res EXCEPT ![r] = new]
             /\ intact' = IF new.table = res[r].table /\ new.state \in {"booked", "seated"}
                          THEN intact ELSE intact \ {r}
  BY DEF ResState
<1> DEFINE rec == [res[r] EXCEPT !.table = t]
<1>2. res[r] \in ResRecord
  BY DEF ResState, SeatingTypeOK
<1>3. /\ rec \in ResRecord /\ rec.state = res[r].state /\ rec.start = res[r].start
      /\ rec.length = res[r].length /\ rec.order = res[r].order
  BY <1>2 DEF ResRecord
<1> HIDE DEF rec
<1>4. PICK new :
        /\ new \in ResRecord /\ new.start = res[r].start /\ new.length = res[r].length
        /\ res' = [res EXCEPT ![r] = new]
        /\ new.order # NoOrd => new.state \in {"seated", "done", "cancelled"}
        /\ intact' = IF new.table = res[r].table /\ new.state \in {"booked", "seated"}
                     THEN intact ELSE intact \ {r}
  <2>1. CASE s = rec.state \/ s \in ResNext(rec.state)
    <3>1. PICK new \in Attached(ResMoved(rec, s)) :
            /\ res' = [res EXCEPT ![r] = new]
            /\ intact' = IF new.table = res[r].table /\ new.state \in {"booked", "seated"}
                         THEN intact ELSE intact \ {r}
      BY <1>1, <2>1 DEF rec
    <3>2. /\ ResMoved(rec, s) \in ResRecord /\ ResMoved(rec, s).state = s
          /\ ResMoved(rec, s).start = rec.start /\ ResMoved(rec, s).length = rec.length
          /\ ResMoved(rec, s).order # NoOrd =>
               ResMoved(rec, s).order = rec.order /\ (s = rec.state \/ s # "booked")
      BY <1>3, MovedRes
    <3>3. /\ new \in ResRecord /\ new.state = s /\ new.start = rec.start /\ new.length = rec.length
          /\ new.order = ResMoved(rec, s).order \/ s = "seated"
      BY <3>2, AttachedRes
    <3>4. new.order # NoOrd => s \in {"seated", "done", "cancelled"}
      <4>1. rec.order # NoOrd => rec.state \in {"seated", "done", "cancelled"}
        BY <1>2, <1>3 DEF NoLeftoverOrder, ResState
      <4> QED BY <2>1, <3>2, <3>3, <4>1 DEF ResNext
    <3> QED BY <1>3, <3>1, <3>3, <3>4
  <2>2. CASE ~(s = rec.state \/ s \in ResNext(rec.state))
    <3>1. rec.order # NoOrd => rec.state \in {"seated", "done", "cancelled"}
      BY <1>2, <1>3 DEF NoLeftoverOrder, ResState
    <3> QED BY <1>1, <1>3, <2>2, <3>1 DEF rec
  <2> QED BY <2>1, <2>2
<1>5. new # None /\ new.state # "none"
  BY <1>4 DEF ResRecord, ResStates, None
<1>6. /\ res[r] # None /\ UNCHANGED <<party, draft, view, knew>> /\ intact' \subseteq intact
      /\ r \in intact' => new.table = res[r].table /\ new.state \in {"booked", "seated"}
  BY <1>4 DEF ResState
<1>7. SeatingTypeOK'
  BY <1>4, <1>6 DEF SeatingTypeOK
<1>8. Pending'
  BY <1>4, <1>5, <1>6 DEF SeatingTypeOK, Pending
<1>9. SawHolding'
  BY <1>4, <1>6 DEF SeatingTypeOK, SawHolding
<1>10. IntactHolds'
  BY <1>4, <1>5, <1>6 DEF SeatingTypeOK, IntactHolds, Holds
<1>11. HeldApart'
  <2>1. \A q \in intact' : /\ q \in intact /\ res'[q].table = res[q].table
                           /\ res'[q].start = res[q].start /\ res'[q].length = res[q].length
    BY <1>4, <1>6 DEF SeatingTypeOK
  <2> QED BY <1>6, <2>1 DEF HeldApart, Overlap
<1>12. NoLeftoverOrder'
  BY <1>4, <1>6 DEF SeatingTypeOK, NoLeftoverOrder
<1> QED BY <1>7, <1>8, <1>9, <1>10, <1>11, <1>12

\* Neither the queue nor the orders of the floor touch a booking.
LEMMA SeatingStep == SeatingInv /\ [SeatingNext]_seatingVars => SeatingInv'
<1> SUFFICES ASSUME SeatingInv, [SeatingNext]_seatingVars PROVE SeatingInv'
  OBVIOUS
<1> USE SeatingAssumption DEF SeatingInv
<1>1. ASSUME NEW r \in Res, AskBooking(r) PROVE SeatingInv'
  <2>1. /\ res[r] = None /\ view' = [view EXCEPT ![r] = res]
        /\ UNCHANGED <<res, party, draft, intact, knew>>
    BY <1>1 DEF AskBooking
  <2>2. SeatingTypeOK' /\ IntactHolds'
    BY <2>1 DEF SeatingTypeOK, IntactHolds
  <2>3. Pending'
    BY <2>1 DEF SeatingTypeOK, Pending
  <2>4. SawHolding'
    BY <2>1 DEF SeatingTypeOK, SawHolding, IntactHolds
  <2>5. HeldApart' /\ NoLeftoverOrder'
    BY <2>1 DEF HeldApart, NoLeftoverOrder
  <2> QED BY <2>2, <2>3, <2>4, <2>5
<1>2. ASSUME NEW r \in Res, Book(r) PROVE SeatingInv'
  BY <1>2, BookStep
<1>3. ASSUME NEW r \in Res, ResState(r) PROVE SeatingInv'
  BY <1>3, ResStateStep
<1>4. ASSUME NEW p \in Party, NEW new, new \in PartyRecord,
             new.order # NoOrd => new.state \in {"seated", "cancelled"},
             party' = [party EXCEPT ![p] = new], UNCHANGED <<res, draft, view, intact, knew>>
      PROVE  SeatingInv'
  <2>1. SeatingTypeOK' /\ Pending' /\ SawHolding' /\ IntactHolds' /\ HeldApart'
    BY <1>4 DEF SeatingTypeOK, Pending, SawHolding, IntactHolds, HeldApart
  <2>2. NoLeftoverOrder'
    BY <1>4 DEF SeatingTypeOK, NoLeftoverOrder
  <2> QED BY <2>1, <2>2
<1>5. ASSUME NEW p \in Party, Queue(p) PROVE SeatingInv'
  <2> DEFINE new == [state |-> "waiting", table |-> NoSpot, order |-> NoOrd]
  <2>1. new \in PartyRecord /\ new.order = NoOrd
    BY DEF PartyRecord
  <2> QED BY <1>4, <1>5, <2>1 DEF Queue
<1>6. ASSUME NEW p \in Party, PartyState(p) PROVE SeatingInv'
  <2> DEFINE rec == party[p]
  <2>1. rec \in PartyRecord /\ (rec.order # NoOrd => rec.state \in {"seated", "cancelled"})
    BY <1>6 DEF PartyState, SeatingTypeOK, NoLeftoverOrder
  <2>2. PICK t \in Spot \union {NoSpot}, s \in {rec.state} \union PartyNext(rec.state) :
          \E new \in Attached(PartyMoved(rec, s, t)) : party' = [party EXCEPT ![p] = new]
    BY <1>6 DEF PartyState
  <2>3. PICK new \in Attached(PartyMoved(rec, s, t)) : party' = [party EXCEPT ![p] = new]
    BY <2>2
  <2> HIDE DEF rec
  <2>4. /\ PartyMoved(rec, s, t) \in PartyRecord /\ PartyMoved(rec, s, t).state = s
        /\ PartyMoved(rec, s, t).order # NoOrd =>
             PartyMoved(rec, s, t).order = rec.order /\ (s = rec.state \/ s # "waiting")
    BY <2>1, MovedParty
  <2>5. /\ new \in PartyRecord /\ new.state = s
        /\ new.order = PartyMoved(rec, s, t).order \/ s = "seated"
    BY <2>4, AttachedParty
  <2>6. new.order # NoOrd => new.state \in {"seated", "cancelled"}
    BY <2>1, <2>2, <2>4, <2>5 DEF PartyNext
  <2>7. UNCHANGED <<res, draft, view, intact, knew>>
    BY <1>6 DEF PartyState
  <2> QED BY <1>4, <2>3, <2>5, <2>6, <2>7
<1>7. ASSUME UNCHANGED <<res, party, view, intact, knew>> PROVE SeatingInv'
  BY <1>7 DEF SeatingTypeOK, Pending, SawHolding, IntactHolds, HeldApart, NoLeftoverOrder
<1>8. CASE \E o \in Ord : CloseOrder(o) \/ \E t \in Spot : OpenOrder(o, t)
  BY <1>7, <1>8 DEF CloseOrder, OpenOrder
<1>9. CASE UNCHANGED seatingVars
  BY <1>7, <1>9 DEF seatingVars
<1> QED BY <1>1, <1>2, <1>3, <1>5, <1>6, <1>8, <1>9 DEF SeatingNext

\* For any floor, any times and any parties: bookings that hold a table are
\* apart unless they were made at once, and no order outlives its seating.
THEOREM SeatingSafety == SeatingSpec => [](HeldApart /\ NoLeftoverOrder)
<1>1. SeatingInv => HeldApart /\ NoLeftoverOrder
  BY DEF SeatingInv
<1> QED BY SeatingInitInv, SeatingStep, <1>1, PTL DEF SeatingSpec
=============================================================================
