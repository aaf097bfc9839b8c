----------------------------- MODULE TableFire -----------------------------
(***************************************************************************)
(* The floor of a restaurant: orders/fire and the core it shares with      *)
(* qr/order (_do_fire), tables/transfer and tables/merge, all in           *)
(* controllers/main.py, for the orders of one session.                     *)
(*                                                                         *)
(* Each request is a REPEATABLE READ transaction.  It has read, and so     *)
(* taken its snapshot, before it waits for the advisory locks of its       *)
(* tables; what it finds is what the snapshot holds, and an update or      *)
(* delete of a row that changed since fails with 40001.  A fire is then    *)
(* run again from the start; a transfer or a merge answers 400.  Orders    *)
(* that are created conflict with nothing but their uuid.                  *)
(***************************************************************************)
EXTENDS Integers, FiniteSetsExt

CONSTANTS Worker,
          Table,          \* ids, which order the locks
          NoTable,
          Uuid,           \* order uuids, minted by the clients
          Fire,           \* fire uuids; a retry brings the same one
          OrderOf,        \* [Fire -> Uuid]
          TableOf,        \* [Fire -> Table or NoTable]
          Moves,          \* the transfers and merges staff ask for
          Idle, Nobody

ASSUME TableAssumption ==
  /\ IsFiniteSet(Worker) /\ Table \subseteq Nat /\ NoTable \notin Table
  /\ Table \intersect Uuid = {}
  /\ OrderOf \in [Fire -> Uuid]
  /\ TableOf \in [Fire -> Table \union {NoTable}]
  /\ Moves \subseteq [op : {"tables/transfer", "tables/merge"}, from : Table, to : Table,
                    confirm : BOOLEAN]
  /\ \A q \in Moves : /\ q.from # q.to
                      /\ q.op = "tables/transfer" => ~q.confirm
  /\ Nobody \notin Worker

VARIABLES order,  \* [Uuid -> Row]: the committed pos.orders
          items,  \* what the fires added: order lines and their kitchen ticket
          req,    \* [Worker -> Request or Idle]
          snap,   \* [Worker -> [order, items]]: the snapshot of its request
          stale,  \* [Worker -> SUBSET Uuid]: orders changed since
          lock,   \* [Table or Uuid -> Worker or Nobody]: advisory locks
          fired   \* history: fires answered ok

tableVars == <<order, items, req, snap, stale, lock, fired>>

\* The advisory lock of a fire without a table is keyed by its order's uuid.
Lock == Table \union Uuid

Row == [state : {"none", "draft", "paid"}, table : Table \union {NoTable}, tendered : BOOLEAN]
NoOrder == [state |-> "none", table |-> NoTable, tendered |-> FALSE]
Request == [op : {"orders/fire"}, fire : Fire] \union Moves
\* A counter sale that orders/sync has already made of the client's order.
Sold == [state |-> "paid", table |-> NoTable, tendered |-> TRUE]
Nothing == [order |-> [u \in Uuid |-> NoOrder], items |-> {}]

TableInit == /\ order \in [Uuid -> {NoOrder, Sold}] /\ items = {}
             /\ req = [w \in Worker |-> Idle]
             /\ snap = [w \in Worker |-> Nothing]
             /\ stale = [w \in Worker |-> {}]
             /\ lock = [l \in Lock |-> Nobody]
             /\ fired = {}

Begin(w) ==
  /\ req[w] = Idle
  /\ \E q \in Request : req' = [req EXCEPT ![w] = q]
  /\ snap' = [snap EXCEPT ![w] = [order |-> order, items |-> items]]
  /\ UNCHANGED <<order, items, stale, lock, fired>>

(***************************************************************************)
(* Advisory locks                                                          *)
(***************************************************************************)
Needs(q) == IF q.op # "orders/fire" THEN {q.from, q.to}
            ELSE {IF TableOf[q.fire] = NoTable THEN OrderOf[q.fire] ELSE TableOf[q.fire]}

Missing(w) == {l \in Needs(req[w]) : lock[l] # w}

\* Mutant: the table of the order first, then where it goes.
FromFirst(w) == IF Cardinality(Missing(w)) = 2 THEN req[w].from
                ELSE CHOOSE l \in Missing(w) : TRUE

\* _lock_tables goes by ascending id.
NextLock(w) == IF req[w].op = "orders/fire" THEN CHOOSE l \in Missing(w) : TRUE
               ELSE Min(Missing(w))

TakeLock(w) == /\ req[w] # Idle /\ Missing(w) # {}
               /\ lock[NextLock(w)] = Nobody
               /\ lock' = [lock EXCEPT ![NextLock(w)] = w]
               /\ UNCHANGED <<order, items, req, snap, stale, fired>>

Serving(w, op) == req[w] # Idle /\ req[w].op = op /\ Missing(w) = {}

Release(w) == lock' = [l \in Lock |-> IF lock[l] = w THEN Nobody ELSE lock[l]]

Leave(w) == /\ req' = [req EXCEPT ![w] = Idle]
            /\ snap' = [snap EXCEPT ![w] = Nothing]
            /\ Release(w)

\* The transaction ends and keeps nothing.
Reply(w) == /\ Leave(w)
            /\ stale' = [stale EXCEPT ![w] = {}]
            /\ UNCHANGED <<order, items>>

\* Mutant: no update fails.
CommitBlind(w, touched) ==
  /\ Leave(w)
  /\ stale' = [v \in Worker |-> {}]

\* Orders "touched" are updated or deleted; first updater wins.
Commit(w, touched) ==
  /\ touched \intersect stale[w] = {}
  /\ Leave(w)
  /\ stale' = [v \in Worker |-> IF v = w \/ req[v] = Idle THEN {} ELSE stale[v] \union touched]

Abort(w) == req[w] # Idle /\ Reply(w) /\ UNCHANGED fired

(***************************************************************************)
(* _do_fire                                                                *)
(***************************************************************************)
OpenAt(s, t) == {u \in Uuid : s.order[u].state = "draft" /\ s.order[u].table = t}

\* The order to append to: one that sits on the table, else the client's own.
AppendTo(s, f) ==
  IF TableOf[f] # NoTable /\ OpenAt(s, TableOf[f]) # {} THEN OpenAt(s, TableOf[f])
  ELSE {OrderOf[f]} \intersect {u \in Uuid : s.order[u].state = "draft"}

\* Mutant: a fire is recognised only on the order its client named.
FiredOnOwnOrder(s, f) == \E i \in s.items : i.fire = f /\ i.order = OrderOf[f]

AlreadyFired(s, f) == \E i \in s.items : i.fire = f

AddItem(f, u, t) ==
  items' = items \union {[fire |-> f, order |-> u, label |-> t,
                          copy |-> Cardinality({i \in items : i.fire = f}) + 1]}

FireAnswered(w) == /\ Serving(w, "orders/fire")
                   /\ AlreadyFired(snap[w], req[w].fire)
                   /\ Reply(w) /\ fired' = fired \union {req[w].fire}

\* "already paid -- cannot re-fire".
FireRefused(w) == /\ Serving(w, "orders/fire")
                  /\ ~AlreadyFired(snap[w], req[w].fire)
                  /\ snap[w].order[OrderOf[req[w].fire]].state = "paid"
                  /\ Reply(w) /\ UNCHANGED fired

MayFire(w) == /\ Serving(w, "orders/fire")
              /\ ~AlreadyFired(snap[w], req[w].fire)
              /\ snap[w].order[OrderOf[req[w].fire]].state # "paid"

FireAppend(w) ==
  /\ MayFire(w)
  /\ \E u \in AppendTo(snap[w], req[w].fire) :
       /\ Commit(w, {u})
       /\ AddItem(req[w].fire, u, snap[w].order[u].table)
  /\ fired' = fired \union {req[w].fire}
  /\ UNCHANGED order

\* sync_from_ui creates the draft, unless its uuid is taken by now.
FireCreate(w) ==
  LET f == req[w].fire
      u == OrderOf[f]
  IN /\ MayFire(w)
     /\ AppendTo(snap[w], f) = {} /\ order[u].state = "none"
     /\ Commit(w, {})
     /\ order' = [order EXCEPT ![u] = [state |-> "draft", table |-> TableOf[f],
                                       tendered |-> FALSE]]
     /\ AddItem(f, u, TableOf[f])
     /\ fired' = fired \union {f}

\* 40001: the request is run again, on a new snapshot.
FireRetried(w) ==
  /\ MayFire(w)
  /\ \E u \in AppendTo(snap[w], req[w].fire) : u \in stale[w]
  /\ snap' = [snap EXCEPT ![w] = [order |-> order, items |-> items]]
  /\ stale' = [stale EXCEPT ![w] = {}]
  /\ Release(w)
  /\ UNCHANGED <<order, items, req, fired>>

(***************************************************************************)
(* tables/transfer and tables/merge                                        *)
(***************************************************************************)
\* A line on order u, its ticket labelled t.
Rehomed(i, u, t) == [fire |-> i.fire, order |-> u, label |-> t, copy |-> i.copy]

\* The order moves, and all its tickets get the label of the new table.
MoveOrder(w, u, t) ==
  /\ Commit(w, {u})
  /\ order' = [order EXCEPT ![u] = [order[u] EXCEPT !.table = t]]
  /\ items' = {IF i.order = u /\ i \in snap[w].items THEN Rehomed(i, u, t) ELSE i : i \in items}
  /\ UNCHANGED fired

Transfer(w) ==
  /\ Serving(w, "tables/transfer")
  /\ OpenAt(snap[w], req[w].to) = {}
  /\ \E u \in OpenAt(snap[w], req[w].from) : MoveOrder(w, u, req[w].to)

TransferRefused(w) ==
  /\ Serving(w, "tables/transfer")
  /\ OpenAt(snap[w], req[w].from) = {} \/ OpenAt(snap[w], req[w].to) # {}
  /\ Reply(w) /\ UNCHANGED fired

\* Onto a free table a merge is a transfer.
MergeOntoFree(w) ==
  /\ Serving(w, "tables/merge")
  /\ OpenAt(snap[w], req[w].to) = {}
  /\ \E u \in OpenAt(snap[w], req[w].from) : MoveOrder(w, u, req[w].to)

\* Mutant: only the target's payments are looked at.
TargetUnpaid(s, src, dst) == ~s.order[dst].tendered

Unpaid(s, src, dst) == ~s.order[src].tendered /\ ~s.order[dst].tendered

\* What the snapshot shows on src is re-homed; src is deleted, and what is
\* still on it goes with it.
Merge(w) ==
  /\ Serving(w, "tables/merge")
  /\ \E src \in OpenAt(snap[w], req[w].from), dst \in OpenAt(snap[w], req[w].to) :
       LET rehomed(i) == IF i.order = src /\ i \in snap[w].items
                         THEN Rehomed(i, dst, req[w].to)
                         ELSE IF i.order = dst THEN Rehomed(i, dst, req[w].to) ELSE i
       IN /\ Unpaid(snap[w], src, dst) \/ req[w].confirm
          /\ Commit(w, {src, dst})
          /\ items' = {i \in {rehomed(x) : x \in items} : i.order # src}
          /\ order' = [order EXCEPT ![src] = NoOrder]
  /\ UNCHANGED fired

MergeRefused(w) ==
  /\ Serving(w, "tables/merge")
  /\ \/ OpenAt(snap[w], req[w].from) = {}
     \/ \E src \in OpenAt(snap[w], req[w].from), dst \in OpenAt(snap[w], req[w].to) :
          ~Unpaid(snap[w], src, dst) /\ ~req[w].confirm
  /\ Reply(w) /\ UNCHANGED fired

\* 40001 in a transfer or a merge: the error is swallowed, nothing is kept.
MoveLost(w) ==
  /\ Serving(w, "tables/transfer") \/ Serving(w, "tables/merge")
  /\ \E u \in OpenAt(snap[w], req[w].from) \union OpenAt(snap[w], req[w].to) : u \in stale[w]
  /\ Reply(w) /\ UNCHANGED fired

(***************************************************************************)
(* Tenders (PosOrder): a part of the balance, or the last one              *)
(***************************************************************************)
Tender(u) ==
  /\ order[u].state = "draft"
  /\ \E s \in {"draft", "paid"} :
       order' = [order EXCEPT ![u] = [state |-> s, table |-> order[u].table, tendered |-> TRUE]]
  /\ stale' = [w \in Worker |-> IF req[w] = Idle THEN {} ELSE stale[w] \union {u}]
  /\ UNCHANGED <<items, req, snap, lock, fired>>

(***************************************************************************)
(* Specification                                                           *)
(***************************************************************************)
FireStep(w) == \/ FireAnswered(w) \/ FireRefused(w) \/ FireAppend(w)
               \/ FireCreate(w) \/ FireRetried(w)
MoveStep(w) == \/ Transfer(w) \/ TransferRefused(w) \/ MergeOntoFree(w)
               \/ Merge(w) \/ MergeRefused(w) \/ MoveLost(w)

TableNext == \/ \E w \in Worker : Begin(w) \/ TakeLock(w) \/ FireStep(w) \/ MoveStep(w) \/ Abort(w)
             \/ \E u \in Uuid : Tender(u)

TableSpec == TableInit /\ [][TableNext]_tableVars

(***************************************************************************)
(* Properties                                                              *)
(***************************************************************************)
\* What was fired is on an order that exists, whatever moved and merged since.
NothingLost ==
  \A f \in fired : \E i \in items : i.fire = f /\ order[i.order].state # "none"

\* The kitchen sees every ticket on the table its order sits on.
LabelsRight == \A i \in items : i.label = order[i.order].table

\* A fire is cooked again only by attempts that overlapped: one that is
\* retried after it was answered adds nothing, wherever its items went since.
RepeatsBounded == \A i \in items : i.copy <= Cardinality(Worker)

\* A merge removes an order with payments only on an explicit confirmation.
PaymentsKept ==
  [][\A u \in Uuid :
       order[u].tendered /\ order'[u].state = "none"
         => \E w \in Worker : req[w] # Idle /\ req[w].op = "tables/merge" /\ req[w].confirm
     ]_tableVars

WaitsFor(w, v) == /\ req[w] # Idle /\ Missing(w) # {}
                  /\ lock[NextLock(w)] = v

\* Moves take two locks each, and still no requests wait for one another in a
\* circle.
NobodyDeadlocked ==
  \A ws \in SUBSET Worker : ws # {} => \E w \in ws : \A v \in ws : ~WaitsFor(w, v)
=============================================================================
