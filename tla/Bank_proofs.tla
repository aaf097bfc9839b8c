----------------------------- MODULE Bank_proofs -----------------------------
(***************************************************************************)
(* The two roads on which a bank says that an order is paid keep the       *)
(* order's invariant and their own, and implement TenderLedger wherever    *)
(* Odoo closes an order only on the exact total.                           *)
(***************************************************************************)
EXTENDS TerminalTxn, PaymentQr, PosOrder_proofs

USE KeyAssumption

(***************************************************************************)
(* What a request does to the order                                        *)
(***************************************************************************)
\* The register rounds no cash: only the exact total closes an order.
Exact == Tolerated = {0}

\* It ends, or commits a row that lands on the one it saw -- and that follows
\* it, where no rounding lets an order close a unit short and be charged again.
Moves(w) ==
  \/ Reply(w)
  \/ \E new : /\ Lands(snap[w], req[w].key, new) /\ WriteOrder(w, new)
              /\ Exact => Follows(snap[w], req[w].key, new)

LEMMA MovesKeep ==
  ASSUME OrderInv, NEW w \in Worker, req[w] # Idle, Moves(w)
  PROVE  OrderInv'
<1>1. ASSUME NEW new, Lands(snap[w], req[w].key, new), WriteOrder(w, new)
      PROVE  OrderInv'
  BY <1>1, WriteKeeps
<1>2. Reply(w) => OrderInv'
  BY ReplyKeeps
<1> QED BY <1>1, <1>2 DEF Moves

\* The payments an order holds under a key.
Under(r, k) == {p \in Payment : p.key = k /\ \E i \in DOMAIN r.payments : r.payments[i] = p}

LEMMA HasKeyUnder ==
  ASSUME NEW r \in Row, NEW k \in Key
  PROVE  HasKey(r, k) <=> Under(r, k) # {}
<1>1. \A i \in DOMAIN r.payments : r.payments[i] \in Payment
  BY DEF Row
<1> QED BY <1>1 DEF HasKey, Under

LEMMA AppendUnder ==
  ASSUME NEW r \in Row, NEW k, NEW pay \in Payment, NEW new,
         new.payments = Append(r.payments, pay)
  PROVE  /\ pay.key = k => Under(new, k) = Under(r, k) \union {pay}
         /\ pay.key # k => Under(new, k) = Under(r, k)
<1> DEFINE n == Len(r.payments)
<1>1. r.payments \in Seq(Payment)
  BY DEF Row
<1>2. /\ n \in Nat /\ DOMAIN new.payments = 1 .. n + 1 /\ DOMAIN r.payments = 1 .. n
      /\ new.payments[n + 1] = pay /\ \A i \in 1 .. n : new.payments[i] = r.payments[i]
  BY <1>1
<1> HIDE DEF n
<1>3. \A p : (\E i \in DOMAIN new.payments : new.payments[i] = p)
               <=> (p = pay \/ \E i \in DOMAIN r.payments : r.payments[i] = p)
  BY <1>2
<1> QED BY <1>3 DEF Under

\* Another key than the request's finds the payments it found before.
LEMMA LandedUnder ==
  ASSUME NEW r \in Row, NEW k, NEW new, Lands(r, k, new), NEW j \in Key, j # k
  PROVE  Under(new, j) = Under(r, j)
<1>1. CASE new.payments = r.payments
  BY <1>1 DEF Under
<1>2. ASSUME NEW p \in Payment, p.key \in {k, NoKey}, new.payments = Append(r.payments, p)
      PROVE  Under(new, j) = Under(r, j)
  <2>1. p.key # j
    BY <1>2
  <2> QED BY <1>2, <2>1, AppendUnder
<1> QED BY <1>1, <1>2 DEF Lands, TakesOne

LEMMA MovesUnder ==
  ASSUME OrderInv, NEW w \in Worker, req[w] # Idle, Moves(w),
         NEW o \in Order, NEW j \in Key, j # req[w].key
  PROVE  Under(row'[o], j) = Under(row[o], j)
<1>1. CASE Reply(w)
  BY <1>1 DEF Reply
<1>2. ASSUME NEW new, Lands(snap[w], req[w].key, new), WriteOrder(w, new)
      PROVE  Under(row'[o], j) = Under(row[o], j)
  <2>1. snap[w] = row[req[w].order] /\ req[w].order \in Order /\ row[req[w].order] \in Row
    BY <1>2 DEF OrderInv, OrderTypeOK, SnapshotCurrent, WriteOrder, Request
  <2>2. row' = [row EXCEPT ![req[w].order] = new] /\ row \in [Order -> Row]
    BY <1>2 DEF WriteOrder, OrderInv, OrderTypeOK
  <2>3. Under(new, j) = Under(row[req[w].order], j)
    BY <1>2, <2>1, LandedUnder
  <2> QED BY <2>1, <2>2, <2>3
<1> QED BY <1>1, <1>2 DEF Moves

\* What a request saw under its key is there still.
LEMMA SeenStays ==
  ASSUME OrderInv, NEW w \in Worker, req[w] # Idle, NEW k, HasKey(snap[w], k)
  PROVE  HasKey(row[req[w].order], k)
BY DEF OrderInv, PaymentsStay, HasKey

\* A charge under a key the order does not hold yet, with or without the close,
\* is committed, and is the one payment it adds.
LEMMA ChargeMoves ==
  ASSUME OrderInv, NEW w \in Worker, req[w] # Idle, NEW k \in Key, req[w].key = k,
         ~HasKey(snap[w], k), NEW a \in Nat, NEW v \in Op, NEW new,
         ~stale[w] /\ snap[w].state = "paid"
            => (snap[w].tendered + a) - snap[w].total \in Tolerated,
         a - Remaining(snap[w]) <= Eps,
         ~stale[w] /\ Exact => snap[w].state = "draft",
         \/ new = AddPayment(snap[w], k, a, v)
         \/ /\ new = Closed(AddPayment(snap[w], k, a, v))
            /\ MayClose(AddPayment(snap[w], k, a, v)),
         Commit(w, new)
  PROVE  /\ Moves(w) /\ snap[w] = row[req[w].order]
         /\ Under(row'[req[w].order], k)
              = Under(row[req[w].order], k) \union {[key |-> k, amount |-> a, via |-> v]}
<1> DEFINE r == snap[w]
           p == AddPayment(r, k, a, v)
           pay == [key |-> k, amount |-> a, via |-> v]
<1>1. r \in Row /\ req[w].order \in Order /\ row \in [Order -> Row]
  BY DEF OrderInv, OrderTypeOK, Request
<1>2. /\ p \in Row /\ p.tendered = r.tendered + a /\ p.amount_paid = p.tendered
      /\ p.total = r.total /\ p.state = r.state /\ p.announced = r.announced
      /\ TakesOne(r, k, p)
  BY <1>1, AddPaymentRow
<1>3. p.payments = Append(r.payments, pay)
  BY DEF AddPayment
<1> HIDE DEF p
<1>4. /\ Closed(p) \in Row /\ Closed(p).tendered = p.tendered /\ Closed(p).total = p.total
      /\ Closed(p).amount_paid = p.amount_paid /\ Closed(p).payments = p.payments
      /\ Closed(p).state = "paid"
  BY <1>2, ClosedRow
<1>5. new = p \/ (new = Closed(p) /\ MayClose(p))
  BY DEF p
<1>6. /\ new \in Row /\ new.payments = Append(r.payments, pay)
      /\ new.tendered = r.tendered + a /\ new.total = r.total /\ new.amount_paid = new.tendered
  BY <1>2, <1>3, <1>4, <1>5
<1>7. TakesOne(r, k, new)
  BY <1>2, <1>4, <1>5, SamePayments
<1>8. new # r
  <2>1. r.payments \in Seq(Payment)
    BY <1>1 DEF Row
  <2>2. Len(Append(r.payments, pay)) = Len(r.payments) + 1 /\ Len(r.payments) \in Nat
    BY <2>1
  <2> QED BY <1>6, <2>2
<1>9. WriteOrder(w, new) /\ ~stale[w] /\ r = row[req[w].order]
  BY <1>8 DEF Commit, WriteOrder, OrderInv, SnapshotCurrent
<1>10. /\ new.state = "paid" => new.tendered - new.total \in Tolerated
       /\ new.announced => new.state = "paid"
  <2>1. r.announced => r.state = "paid"
    BY <1>9, SnapRow
  <2>2. CASE new = p
    <3>1. new.announced => new.state = "paid"
      BY <1>2, <2>1, <2>2
    <3>2. r.state = "paid" => (r.tendered + a) - r.total \in Tolerated
      BY <1>9
    <3>3. new.state = r.state /\ new.tendered = r.tendered + a /\ new.total = r.total
      BY <1>2, <2>2
    <3> HIDE DEF r
    <3>4. new.tendered - new.total = (r.tendered + a) - r.total
      BY <3>3
    <3>5. new.state = "paid" => new.tendered - new.total \in Tolerated
      BY <3>2, <3>3, <3>4, Zenon
    <3> QED BY <3>1, <3>5
  <2>3. CASE new = Closed(p) /\ MayClose(p)
    BY <1>2, <1>4, <2>3 DEF MayClose
  <2> QED BY <1>5, <2>2, <2>3
<1>11. Lands(r, k, new)
  BY <1>6, <1>7, <1>10 DEF Lands
<1>12. pay \in Payment /\ pay.key = k
  BY DEF Payment
<1> HIDE DEF pay, r
<1>13. Under(new, k) = Under(r, k) \union {pay}
  <2>1. pay \in Payment /\ r \in Row /\ new.payments = Append(r.payments, pay)
    BY <1>1, <1>6, <1>12
  <2>2. pay.key = k => Under(new, k) = Under(r, k) \union {pay}
    <3>1. ASSUME NEW s \in Row, s = r PROVE pay.key = k => Under(new, k) = Under(s, k) \union {pay}
      BY <2>1, <3>1, AppendUnder
    <3> QED BY <2>1, <3>1
  <2> QED BY <1>12, <2>2
<1>14. row'[req[w].order] = new
  BY <1>1, <1>9 DEF WriteOrder, r
<1>15. new.tendered <= new.total + Eps
  BY <1>1, <1>6 DEF Remaining, Row, Eps, r
<1>16. Exact => Follows(snap[w], req[w].key, new)
  BY <1>9, <1>11, <1>15 DEF Follows, r
<1>17. Moves(w)
  BY <1>9, <1>11, <1>16 DEF Moves, r
<1> QED BY <1>6, <1>9, <1>13, <1>14, <1>17 DEF pay, r

\* What remains can be charged, also to an order closed one unit short.
LEMMA ChargeTolerated ==
  ASSUME NEW r \in Row, r.tendered - r.total \in Tolerated,
         NEW a \in Nat, a - Remaining(r) <= Eps, Remaining(r) > 0
  PROVE  (r.tendered + a) - r.total \in Tolerated /\ ~Exact
<1>1. Tolerated = {0} \/ Tolerated = -Eps .. Eps
  BY DEF Tolerated
<1> QED BY <1>1 DEF Eps, Remaining, Row, Exact

LEMMA MovesLeaves ==
  ASSUME NEW w \in Worker, Moves(w)
  PROVE  req' = [req EXCEPT ![w] = Idle]
BY DEF Moves, Reply, WriteOrder, Leave

\* A step of the order's own handlers is one of these.
LEMMA StepMoves ==
  ASSUME OrderInv, NEW w \in Worker, OrderStep(w)
  PROVE  req[w] # Idle /\ Moves(w)
<1>1. req[w] # Idle
  BY DEF OrderStep, PayAnswered, PayRejected, PayAccepted, QrPay, QrPayRefused, Comp,
         FireAppend, Abort, Serving
<1>2. Reply(w) \/ Settles(w)
  BY StepSettles
<1> QED BY <1>1, <1>2 DEF Settles, Follows, Moves

(***************************************************************************)
(* Terminal requests: the inductive invariant                              *)
(***************************************************************************)
TxnState == {"none", "waiting_customer"} \union UncertainStates \union FinalStates

Txn == [state : TxnState, amount : Nat, outcome : Outcomes,
        booked : BOOLEAN, forced : BOOLEAN]

OrderOps == {"orders/pay", "qr/pay", "orders/comp", "orders/fire"}
TxnOps == {"terminal/complete", "terminal/cancel", "terminal/force_done"}

TxnTypeOK == /\ txn \in [RequestId -> Txn]
             /\ txnSnap \in [Worker -> [RequestId -> Txn]]
             /\ txnStale \in [Worker -> BOOLEAN]

\* A handler serves a request that was started, on its own order, or carries
\* no request's key.
TxnServed ==
  \A w \in Worker : req[w] # Idle =>
    \/ /\ req[w].op \in OrderOps \union {"terminal/start"}
       /\ req[w].key \in ClientKey \union {NoKey}
    \/ /\ req[w].op \in TxnOps
       /\ req[w].key \in RequestId /\ req[w].order = OrderOf[req[w].key]
       /\ txn[req[w].key].state # "none"

\* One nobody overtook sees the committed request.
TxnCurrent ==
  \A w \in Worker : req[w] # Idle /\ req[w].key \in RequestId /\ ~txnStale[w]
                     => txnSnap[w][req[w].key] = txn[req[w].key]

\* A request is linked exactly when its order holds a payment under its id.
TxnLinked ==
  \A k \in RequestId :
    /\ txn[k].booked => txn[k].state # "none"
    /\ txn[k].booked <=> Under(row[OrderOf[k]], k) # {}

TerminalInv == OrderInv /\ TxnTypeOK /\ TxnServed /\ TxnCurrent /\ TxnLinked

LEMMA NoTxnsType == NoTxns \in [RequestId -> Txn]
BY DEF NoTxns, NewTxn, Txn, TxnState, Outcomes

\* What the updates of one field of a request leave of the others.
LEMMA InStateTxn ==
  ASSUME NEW t \in Txn, NEW s \in TxnState
  PROVE  LET d == InState(t, s)
         IN /\ d \in Txn /\ d.state = s /\ d.booked = t.booked /\ d.amount = t.amount
            /\ d.outcome = t.outcome /\ d.forced = t.forced
BY DEF InState, Txn

LEMMA LinkedTxn ==
  ASSUME NEW t \in Txn
  PROVE  LET d == Linked(t)
         IN /\ d \in Txn /\ d.state = t.state /\ d.booked = TRUE /\ d.amount = t.amount
            /\ d.outcome = t.outcome /\ d.forced = t.forced
BY DEF Linked, Txn

LEMMA ForcedTxn ==
  ASSUME NEW t \in Txn
  PROVE  LET d == Forced(t)
         IN /\ d \in Txn /\ d.state = t.state /\ d.booked = t.booked /\ d.amount = t.amount
            /\ d.outcome = t.outcome /\ d.forced = TRUE
BY DEF Forced, Txn

\* The handlers of the order, and a request's that answer, leave every request
\* and the payments under their ids alone.
LEMMA KeepKeeps ==
  ASSUME TerminalInv, NEW w \in Worker, req[w] # Idle, Moves(w), KeepTxns(w),
         \A k \in RequestId : Under(row'[OrderOf[k]], k) = Under(row[OrderOf[k]], k)
  PROVE  TerminalInv' /\ txn' = txn
<1> USE DEF TerminalInv
<1>1. OrderInv'
  BY MovesKeep
<1>2. /\ txn' = txn /\ txnSnap' = [txnSnap EXCEPT ![w] = NoTxns]
      /\ txnStale' = [txnStale EXCEPT ![w] = FALSE] /\ req' = [req EXCEPT ![w] = Idle]
  BY MovesLeaves DEF KeepTxns
<1>3. TxnTypeOK'
  BY <1>2, NoTxnsType DEF TxnTypeOK
<1>4. ASSUME NEW v \in Worker, req'[v] # Idle
      PROVE  req'[v] = req[v] /\ txnSnap'[v] = txnSnap[v] /\ txnStale'[v] = txnStale[v]
  BY <1>2, <1>4 DEF OrderInv, OrderTypeOK, TxnTypeOK
<1>5. TxnServed'
  BY <1>2, <1>4 DEF TxnServed
<1>6. TxnCurrent'
  <2>1. txn' = txn
    BY <1>2
  <2>2. TxnCurrent
    BY DEF TerminalInv
  <2> QED BY <1>4, <2>1, <2>2 DEF TxnCurrent
<1>7. TxnLinked'
  BY <1>2 DEF TxnLinked
<1> QED BY <1>1, <1>2, <1>3, <1>5, <1>6, <1>7

\* A request is rewritten: by a handler that holds its committed row or, if it
\* is new, by the start that mints it, and linked as the order then says.
Rewrites(w, k, t) ==
  /\ t \in Txn /\ t.state # "none"
  /\ txn[k].state \notin FinalStates
  /\ req[w].key \in RequestId => req[w].key = k
  /\ WriteTxn(w, k, t) /\ Moves(w)
  /\ t.booked <=> Under(row'[OrderOf[k]], k) # {}

LEMMA RewritesKeep ==
  ASSUME TerminalInv, NEW w \in Worker, req[w] # Idle,
         NEW k \in RequestId, NEW t, Rewrites(w, k, t)
  PROVE  /\ TerminalInv'
         /\ txn[k].state \notin FinalStates
         /\ \A j \in RequestId : j # k => txn'[j] = txn[j]
<1> USE DEF TerminalInv
<1>1. OrderInv'
  BY MovesKeep DEF Rewrites
<1>2. /\ txn' = [txn EXCEPT ![k] = t] /\ txnSnap' = [txnSnap EXCEPT ![w] = NoTxns]
      /\ req' = [req EXCEPT ![w] = Idle]
  BY MovesLeaves DEF WriteTxn, Rewrites
<1>3. TxnTypeOK'
  BY <1>2, NoTxnsType DEF TxnTypeOK, Rewrites, WriteTxn
<1>4. txn'[k] = t /\ \A j \in RequestId : j # k => txn'[j] = txn[j]
  BY <1>2 DEF TxnTypeOK
<1>5. ASSUME NEW v \in Worker, req'[v] # Idle
      PROVE  /\ req'[v] = req[v] /\ txnSnap'[v] = txnSnap[v]
             /\ ~txnStale'[v] => ~txnStale[v] /\ req[v].key # k
  <2>1. v # w /\ req'[v] = req[v] /\ txnSnap'[v] = txnSnap[v]
    BY <1>2, <1>5 DEF OrderInv, OrderTypeOK, TxnTypeOK
  <2> QED BY <1>5, <2>1 DEF WriteTxn, Rewrites
<1>6. TxnServed'
  <2> SUFFICES ASSUME NEW v \in Worker, req'[v] # Idle
               PROVE  \/ /\ req'[v].op \in OrderOps \union {"terminal/start"}
                         /\ req'[v].key \in ClientKey \union {NoKey}
                      \/ /\ req'[v].op \in TxnOps
                         /\ req'[v].key \in RequestId /\ req'[v].order = OrderOf[req'[v].key]
                         /\ txn'[req'[v].key].state # "none"
    BY DEF TxnServed
  <2>1. req'[v] = req[v]
    BY <1>5
  <2>2. \A j \in RequestId : txn[j].state # "none" => txn'[j].state # "none"
    BY <1>4 DEF Rewrites
  <2> QED BY <2>1, <2>2 DEF TxnServed
<1>7. TxnCurrent'
  <2> SUFFICES ASSUME NEW v \in Worker, req'[v] # Idle, req'[v].key \in RequestId, ~txnStale'[v]
               PROVE  txnSnap'[v][req'[v].key] = txn'[req'[v].key]
    BY DEF TxnCurrent
  <2>1. req'[v] = req[v] /\ txnSnap'[v] = txnSnap[v] /\ ~txnStale[v] /\ req[v].key # k
    BY <1>5
  <2> QED BY <1>4, <2>1 DEF TxnCurrent
<1>8. TxnLinked'
  <2> SUFFICES ASSUME NEW j \in RequestId
               PROVE  /\ txn'[j].booked => txn'[j].state # "none"
                      /\ txn'[j].booked <=> Under(row'[OrderOf[j]], j) # {}
    BY DEF TxnLinked
  <2>1. CASE j = k
    BY <1>4, <2>1 DEF Rewrites
  <2>2. CASE j # k
    <3>1. j \in Key /\ j # req[w].key /\ OrderOf[j] \in Order
      BY <2>2, TerminalAssumption DEF Rewrites
    <3>2. Under(row'[OrderOf[j]], j) = Under(row[OrderOf[j]], j)
      BY <3>1, MovesUnder DEF Rewrites
    <3>3. txn'[j] = txn[j]
      BY <1>4, <2>2
    <3> QED BY <3>2, <3>3 DEF TxnLinked
  <2> QED BY <2>1, <2>2
<1> QED BY <1>1, <1>3, <1>4, <1>6, <1>7, <1>8 DEF Rewrites

\* What the handler of a request knows of it.
LEMMA ServedTxn ==
  ASSUME TerminalInv, NEW w \in Worker, req[w] # Idle, req[w].op \in TxnOps
  PROVE  /\ req[w].key \in RequestId /\ req[w].key \in Key
         /\ req[w].order = OrderOf[req[w].key] /\ OrderOf[req[w].key] \in Order
         /\ Seen(w) \in Txn /\ txn[req[w].key].state # "none"
         /\ ~txnStale[w] => Seen(w) = txn[req[w].key]
<1>1. req[w].op \notin OrderOps \union {"terminal/start"}
  BY DEF TxnOps, OrderOps
<1>2. /\ req[w].key \in RequestId /\ req[w].order = OrderOf[req[w].key]
      /\ txn[req[w].key].state # "none"
  BY <1>1 DEF TerminalInv, TxnServed
<1>3. Seen(w) \in Txn
  BY <1>2 DEF TerminalInv, TxnTypeOK, Seen
<1>4. ~txnStale[w] => Seen(w) = txn[req[w].key]
  BY <1>2 DEF TerminalInv, TxnCurrent, Seen
<1> QED BY <1>2, <1>3, <1>4, TerminalAssumption

\* The close is decided on the balance after the charge.
LEMMA SettleRewrites ==
  ASSUME TerminalInv, NEW w \in Worker, req[w] # Idle, req[w].op \in TxnOps,
         NEW via \in Op, NEW done \in Txn, done.state # "none",
         done.booked = Seen(w).booked, Seen(w).state \notin FinalStates,
         Settle(w, req[w].key, via, done)
  PROVE  \E t : Rewrites(w, req[w].key, t)
<1> DEFINE k == req[w].key
           o == OrderOf[k]
           r == snap[w]
           t == txnSnap[w][k]
           p == AddPayment(r, k, Charge(r, t), via)
           closing == Remaining(p) <= Eps /\ r.state = "draft"
<1>1. /\ k \in RequestId /\ k \in Key /\ req[w].order = o /\ o \in Order
      /\ t = Seen(w) /\ t \in Txn /\ txn[k].state # "none"
      /\ ~txnStale[w] => t = txn[k]
  BY ServedTxn DEF Seen
<1>2. r \in Row /\ row[o] \in Row
  BY <1>1 DEF TerminalInv, OrderInv, OrderTypeOK
<1>3. ~txnStale[w] => (t.booked <=> Under(row[o], k) # {})
  BY <1>1 DEF TerminalInv, TxnLinked
<1>4. Linked(done) \in Txn /\ Linked(done).state = done.state /\ Linked(done).booked = TRUE
  BY LinkedTxn
<1>5. Linked(t) \in Txn /\ Linked(t).state = t.state /\ Linked(t).booked = TRUE
  BY <1>1, LinkedTxn
\* What was settled before, or is settled by nothing.
<1>6. CASE Settled(r, t, k) /\ Reply(w) /\ WriteTxn(w, k, Linked(done))
  <2>1. row' = row /\ Moves(w) /\ ~txnStale[w]
    BY <1>6 DEF Reply, Moves, WriteTxn
  <2>2. HasKey(r, k) => HasKey(row[o], k)
    BY <1>1, SeenStays DEF TerminalInv
  <2>3. Under(row[o], k) # {}
    BY <1>1, <1>2, <1>3, <1>6, <2>1, <2>2, HasKeyUnder DEF Settled
  <2> QED BY <1>1, <1>4, <1>6, <2>1, <2>3 DEF Rewrites
<1>7. CASE ~Settled(r, t, k) /\ Reply(w) /\ WriteTxn(w, k, done)
  <2>1. row' = row /\ Moves(w) /\ ~txnStale[w]
    BY <1>7 DEF Reply, Moves, WriteTxn
  <2> QED BY <1>1, <1>3, <1>7, <2>1 DEF Rewrites
\* What is charged now.
<1>8. ASSUME ~Settled(r, t, k), Charge(r, t) > 0, NEW new, Commit(w, new),
             new = p \/ (new = Closed(p) /\ MayClose(p)),
             NEW d \in Txn, d.state # "none", d.booked = TRUE, WriteTxn(w, k, d)
      PROVE  Rewrites(w, k, d)
  <2>1. Charge(r, t) \in Nat /\ Charge(r, t) <= Remaining(r)
    BY <1>1, <1>2, <1>8 DEF Charge, Remaining, Txn, Row
  <2>2. ~HasKey(r, k)
    BY <1>8 DEF Settled
  <2> DEFINE a == Charge(r, t)
  <2>3. a \in Nat /\ a - Remaining(r) <= Eps /\ Remaining(r) > 0
    BY <1>2, <1>8, <2>1 DEF Remaining, Row, Eps
  <2>4. p = AddPayment(r, k, a, via)
    OBVIOUS
  <2> HIDE DEF a, p
  <2>5. ~stale[w] /\ r.state = "paid" => (r.tendered + a) - r.total \in Tolerated /\ ~Exact
    BY <1>2, <2>3, SnapRow, ChargeTolerated DEF TerminalInv
  <2>6. r.state \in {"draft", "paid"}
    BY <1>2 DEF Row
  <2>7. /\ Moves(w)
        /\ Under(row'[req[w].order], k)
             = Under(row[req[w].order], k) \union {[key |-> k, amount |-> a, via |-> via]}
    BY <1>1, <1>8, <2>2, <2>3, <2>4, <2>5, <2>6, ChargeMoves, SMTT(40) DEF TerminalInv
  <2>8. Under(row'[o], k) # {}
    BY <1>1, <2>7
  <2>9. ~txnStale[w] /\ txn[k].state \notin FinalStates
    BY <1>1, <1>8 DEF WriteTxn
  <2> QED BY <1>8, <2>7, <2>8, <2>9 DEF Rewrites
<1>9. CASE /\ ~Settled(r, t, k) /\ Charge(r, t) > 0
           /\ closing => MayClose(p)
           /\ Commit(w, IF closing THEN Closed(p) ELSE p)
           /\ WriteTxn(w, k, Linked(done))
  <2> DEFINE new == IF closing THEN Closed(p) ELSE p
  <2>1. new = p \/ (new = Closed(p) /\ MayClose(p))
    BY <1>9
  <2>2. Commit(w, new)
    BY <1>9
  <2> HIDE DEF new, p
  <2> QED BY <1>4, <1>8, <1>9, <2>1, <2>2
<1>10. CASE /\ ~Settled(r, t, k) /\ Charge(r, t) > 0
            /\ Commit(w, p) /\ WriteTxn(w, k, Linked(t))
  <2>1. t = txn[k]
    BY <1>1, <1>10 DEF WriteTxn
  <2> HIDE DEF p
  <2> QED BY <1>1, <1>5, <1>8, <1>10, <2>1
<1>11. \/ Settled(r, t, k) /\ Reply(w) /\ WriteTxn(w, k, Linked(done))
       \/ ~Settled(r, t, k) /\ Reply(w) /\ WriteTxn(w, k, done)
       \/ /\ ~Settled(r, t, k) /\ Charge(r, t) > 0
          /\ closing => MayClose(p)
          /\ Commit(w, IF closing THEN Closed(p) ELSE p)
          /\ WriteTxn(w, k, Linked(done))
       \/ /\ ~Settled(r, t, k) /\ Charge(r, t) > 0
          /\ Commit(w, p) /\ WriteTxn(w, k, Linked(t))
  BY DEF Settle
<1> QED BY <1>6, <1>7, <1>9, <1>10, <1>11

\* Each handler of a request answers, or rewrites that request.
LEMMA StartRewrites ==
  ASSUME TerminalInv, NEW w \in Worker, Start(w)
  PROVE  \E k \in RequestId : \E t : Rewrites(w, k, t)
<1> DEFINE new(out) == [state |-> "waiting_customer", amount |-> TenderOf(snap[w], req[w]),
                        outcome |-> out, booked |-> FALSE, forced |-> FALSE]
<1>1. req[w] # Idle /\ req[w].op = "terminal/start" /\ Reply(w) /\ MayStart(w)
  BY DEF Start, Serving
<1>2. PICK k \in RequestId, out \in Outcome :
        txn[k].state = "none" /\ WriteTxn(w, k, new(out))
  BY DEF Start
<1>3. TenderOf(snap[w], req[w]) \in Nat
  <2>1. snap[w] \in Row /\ req[w] \in Request
    BY <1>1, SnapRow DEF TerminalInv
  <2>2. TenderOf(snap[w], req[w]) \in Int /\ TenderOf(snap[w], req[w]) > 0
    BY <1>1, <2>1 DEF MayStart, TenderAllowed, TenderOf, Remaining, Row, Request
  <2> QED BY <2>2
<1>4. new(out) \in Txn /\ new(out).state = "waiting_customer" /\ new(out).booked = FALSE
  BY <1>3, TerminalAssumption DEF Txn, TxnState
<1> HIDE DEF new
<1>5. row' = row /\ Moves(w)
  BY <1>1 DEF Reply, Moves
<1>6. Under(row[OrderOf[k]], k) = {}
  BY <1>2 DEF TerminalInv, TxnLinked
<1>7. req[w].key \notin RequestId
  <2>1. req[w].key \in ClientKey \union {NoKey}
    BY <1>1 DEF TerminalInv, TxnServed, TxnOps
  <2> QED BY <2>1, TerminalAssumption
<1>8. Rewrites(w, k, new(out))
  BY <1>2, <1>4, <1>5, <1>6, <1>7 DEF Rewrites, FinalStates
<1> QED BY <1>8

LEMMA CompleteApprovedRewrites ==
  ASSUME TerminalInv, NEW w \in Worker, CompleteApproved(w)
  PROVE  \E k \in RequestId : \E t : Rewrites(w, k, t)
<1>1. /\ req[w] # Idle /\ req[w].op \in TxnOps /\ Seen(w).state \notin FinalStates
      /\ Settle(w, req[w].key, "terminal/complete", InState(Seen(w), "approved"))
  BY DEF CompleteApproved, Serving, TxnOps
<1>2. Seen(w) \in Txn /\ req[w].key \in RequestId
  BY <1>1, ServedTxn
<1>3. "approved" \in TxnState /\ "terminal/complete" \in Op
  BY DEF TxnState, FinalStates, Op
<1> DEFINE done == InState(Seen(w), "approved")
<1>4. done \in Txn /\ done.state # "none" /\ done.booked = Seen(w).booked
  BY <1>2, <1>3, InStateTxn
<1> HIDE DEF done
<1>5. \E t : Rewrites(w, req[w].key, t)
  BY <1>1, <1>3, <1>4, SettleRewrites DEF done
<1> QED BY <1>2, <1>5

LEMMA ForceDoneRewrites ==
  ASSUME TerminalInv, NEW w \in Worker, ForceDone(w)
  PROVE  \E k \in RequestId : \E t : Rewrites(w, k, t)
<1>1. /\ req[w] # Idle /\ req[w].op \in TxnOps /\ Seen(w).state \in UncertainStates
      /\ Settle(w, req[w].key, "terminal/force_done", Forced(InState(Seen(w), "approved")))
  BY DEF ForceDone, Serving, TxnOps, MayForce
<1>2. Seen(w) \in Txn /\ req[w].key \in RequestId
  BY <1>1, ServedTxn
<1>3. "approved" \in TxnState /\ "terminal/force_done" \in Op /\ Seen(w).state \notin FinalStates
  BY <1>1 DEF TxnState, FinalStates, UncertainStates, Op
<1> DEFINE approved == InState(Seen(w), "approved")
           done == Forced(approved)
<1>4. approved \in Txn /\ approved.state = "approved" /\ approved.booked = Seen(w).booked
  BY <1>2, <1>3, InStateTxn
<1> HIDE DEF approved
<1>5. done \in Txn /\ done.state # "none" /\ done.booked = Seen(w).booked
  BY <1>4, ForcedTxn
<1> HIDE DEF done
<1>6. \E t : Rewrites(w, req[w].key, t)
  BY <1>1, <1>3, <1>5, SettleRewrites DEF done, approved
<1> QED BY <1>2, <1>6

\* No money moves: only the state of the request.
LEMMA InStateRewrites ==
  ASSUME TerminalInv, NEW w \in Worker, req[w] # Idle, req[w].op \in TxnOps,
         Seen(w).state \notin FinalStates, NEW s \in TxnState, s # "none",
         WriteTxn(w, req[w].key, InState(Seen(w), s)), Reply(w)
  PROVE  \E k \in RequestId : \E t : Rewrites(w, k, t)
<1> DEFINE k == req[w].key
           d == InState(Seen(w), s)
<1>1. /\ k \in RequestId /\ Seen(w) = txn[k] /\ Seen(w) \in Txn
  BY ServedTxn DEF WriteTxn
<1>2. d \in Txn /\ d.state = s /\ d.booked = Seen(w).booked
  BY <1>1, InStateTxn
<1>3. WriteTxn(w, k, d)
  OBVIOUS
<1> HIDE DEF d
<1>4. row' = row /\ Moves(w)
  BY DEF Reply, Moves
<1>5. d.booked <=> Under(row'[OrderOf[k]], k) # {}
  BY <1>1, <1>2, <1>4 DEF TerminalInv, TxnLinked
<1>6. Rewrites(w, k, d)
  BY <1>1, <1>2, <1>3, <1>4, <1>5 DEF Rewrites
<1> QED BY <1>1, <1>6

LEMMA CompleteOtherRewrites ==
  ASSUME TerminalInv, NEW w \in Worker, CompleteOther(w)
  PROVE  \E k \in RequestId : \E t : Rewrites(w, k, t)
<1> DEFINE s == IF Seen(w).outcome = "native" THEN "error" ELSE Seen(w).outcome
<1>1. /\ req[w] # Idle /\ req[w].op \in TxnOps /\ Seen(w).state \notin FinalStates
      /\ WriteTxn(w, req[w].key, InState(Seen(w), s)) /\ Reply(w)
  BY DEF CompleteOther, Serving, TxnOps
<1>2. s \in TxnState /\ s # "none"
  <2>1. Seen(w).outcome \in Outcomes
    BY <1>1, ServedTxn DEF Txn
  <2> QED BY <2>1 DEF Outcomes, TxnState, UncertainStates, FinalStates
<1> HIDE DEF s
<1> QED BY <1>1, <1>2, InStateRewrites

LEMMA CancelRewrites ==
  ASSUME TerminalInv, NEW w \in Worker, Cancel(w)
  PROVE  \E k \in RequestId : \E t : Rewrites(w, k, t)
<1>1. /\ req[w] # Idle /\ req[w].op \in TxnOps /\ Seen(w).state \notin FinalStates
      /\ WriteTxn(w, req[w].key, InState(Seen(w), "cancelled")) /\ Reply(w)
  BY DEF Cancel, Serving, TxnOps, MayCancel
<1>2. "cancelled" \in TxnState /\ "cancelled" # "none"
  BY DEF TxnState, FinalStates
<1> QED BY <1>1, <1>2, InStateRewrites

LEMMA TerminalStepRewrites ==
  ASSUME TerminalInv, NEW w \in Worker, TerminalStep(w)
  PROVE  /\ req[w] # Idle
         /\ (Reply(w) /\ KeepTxns(w)) \/ \E k \in RequestId : \E t : Rewrites(w, k, t)
<1>1. req[w] # Idle
  BY DEF TerminalStep, Start, StartRefused, CompleteAnswered, CompleteApproved,
         CompleteOther, Cancel, ForceDone, CancelOrForceRefused, Serving
<1>2. (Reply(w) /\ KeepTxns(w)) \/ \E k \in RequestId : \E t : Rewrites(w, k, t)
  BY StartRewrites, CompleteApprovedRewrites, ForceDoneRewrites, CompleteOtherRewrites,
     CancelRewrites
     DEF TerminalStep, StartRefused, CompleteAnswered, CancelOrForceRefused
<1> QED BY <1>1, <1>2

\* A request that begins reads the committed rows, and is typed for them.
LEMMA OrderRequestServes ==
  \A q \in OrderRequests : q.op \in OrderOps /\ q.key \in ClientKey \union {NoKey}
BY DEF OrderRequests, PayRequests, QrPayRequests, CompRequests, FireRequests, OrderOps

LEMMA TerminalRequestServes ==
  ASSUME TerminalInv, NEW q \in OrderRequests \union TerminalRequests
  PROVE  /\ q \in Request /\ Fits(q, row[q.order])
         /\ \/ /\ q.op \in OrderOps \union {"terminal/start"}
               /\ q.key \in ClientKey \union {NoKey}
            \/ /\ q.op \in TxnOps
               /\ q.key \in RequestId /\ q.order = OrderOf[q.key]
               /\ txn[q.key].state # "none"
         /\ q.key \in RequestId => Reads(q) = {q.key}
<1>1. CASE q \in OrderRequests
  <2>1. q.op \in OrderOps /\ q.key \in ClientKey \union {NoKey}
    BY <1>1, OrderRequestServes
  <2>2. q.key \notin RequestId
    BY <2>1, TerminalAssumption
  <2>3. q \in Request /\ Fits(q, row[q.order])
    BY <1>1, RequestType
  <2> QED BY <2>1, <2>2, <2>3
<1>2. CASE q \in [op : {"terminal/start"}, order : Order, key : {NoKey},
                  amount : 0 .. MaxAmount, extra : {0}]
  <2>1. q.op = "terminal/start" /\ q.key = NoKey /\ q.key \notin RequestId
    BY <1>2, TerminalAssumption
  <2>2. q \in Request
    <3>1. 0 .. MaxAmount \subseteq Nat /\ 0 \in Nat /\ "terminal/start" \in Op
      BY BoundAssumption DEF Op
    <3> QED BY <1>2, <3>1 DEF Request
  <2>3. Fits(q, row[q.order])
    BY <2>1 DEF Fits
  <2> QED BY <2>1, <2>2, <2>3
<1>3. CASE /\ q \in [op : {"terminal/complete", "terminal/cancel", "terminal/force_done"},
                     order : Order, key : RequestId, amount : {0}, extra : {0}]
           /\ txn[q.key].state # "none" /\ q.order = OrderOf[q.key]
  <2>1. /\ q.op \in TxnOps /\ q.op # "terminal/start" /\ q.key \in RequestId
        /\ q.op # "orders/pay" /\ q.op # "orders/comp"
    BY <1>3 DEF TxnOps
  <2>2. q \in Request
    <3>1. 0 \in Nat /\ TxnOps \subseteq Op /\ RequestId \subseteq Key
      BY TerminalAssumption DEF Op, TxnOps
    <3> QED BY <1>3, <3>1 DEF Request, TxnOps
  <2>3. Fits(q, row[q.order])
    BY <2>1 DEF Fits
  <2>4. Reads(q) = {q.key}
    BY <2>1 DEF Reads
  <2> QED BY <1>3, <2>1, <2>2, <2>3, <2>4
<1> QED BY <1>1, <1>2, <1>3 DEF TerminalRequests

LEMMA TerminalBeginKeeps ==
  ASSUME TerminalInv, NEW w \in Worker,
         NEW q \in OrderRequests \union TerminalRequests, TerminalBegin(w, q)
  PROVE  TerminalInv' /\ txn' = txn
<1> USE DEF TerminalInv
<1> DEFINE seen == [k \in RequestId |-> IF k \in Reads(q) THEN txn[k] ELSE NewTxn]
<1>1. Begin(w, q) /\ txn' = txn /\ txnStale' = txnStale /\ txnSnap' = [txnSnap EXCEPT ![w] = seen]
  BY DEF TerminalBegin
<1>2. OrderInv'
  BY <1>1, TerminalRequestServes, BeginKeeps
<1>3. seen \in [RequestId -> Txn]
  <2>1. NewTxn \in Txn
    BY DEF NewTxn, Txn, TxnState, Outcomes
  <2> QED BY <2>1 DEF TxnTypeOK
<1>4. q.key \in RequestId => seen[q.key] = txn[q.key]
  BY TerminalRequestServes
<1> HIDE DEF seen
<1>5. /\ req'[w] = q /\ txnSnap'[w] = seen
      /\ \A v \in Worker : v # w => req'[v] = req[v] /\ txnSnap'[v] = txnSnap[v]
  BY <1>1 DEF Begin, OrderInv, OrderTypeOK, TxnTypeOK
<1>6. TxnTypeOK'
  BY <1>1, <1>3 DEF TxnTypeOK
<1>7. TxnServed'
  BY <1>1, <1>5, TerminalRequestServes DEF TxnServed
<1>8. TxnCurrent'
  BY <1>1, <1>4, <1>5 DEF TxnCurrent
<1>9. TxnLinked'
  BY <1>1 DEF TxnLinked, Begin
<1> QED BY <1>1, <1>2, <1>6, <1>7, <1>8, <1>9

(***************************************************************************)
(* Terminal requests: the theorems                                         *)
(***************************************************************************)
\* What a step does, told in the requests and the order it touches.
TerminalMoves ==
  \E w \in Worker :
    \/ \E q \in OrderRequests \union TerminalRequests : TerminalBegin(w, q)
    \/ req[w] # Idle /\ Moves(w)

LEMMA TerminalStepKeeps ==
  ASSUME TerminalInv, TerminalNext
  PROVE  /\ TerminalInv' /\ TerminalMoves
         /\ \A k \in RequestId : txn[k].state \in FinalStates => txn'[k] = txn[k]
<1>1. PICK w \in Worker :
        \/ \E q \in OrderRequests \union TerminalRequests : TerminalBegin(w, q)
        \/ OrderStep(w) /\ KeepTxns(w)
        \/ TerminalStep(w)
  BY DEF TerminalNext
<1>2. ASSUME NEW q \in OrderRequests \union TerminalRequests, TerminalBegin(w, q)
      PROVE  TerminalInv' /\ TerminalMoves /\ txn' = txn
  BY <1>2, TerminalBeginKeeps DEF TerminalMoves
<1>3. CASE OrderStep(w) /\ KeepTxns(w)
  <2>1. req[w] # Idle /\ Moves(w)
    BY <1>3, StepMoves DEF TerminalInv
  <2>2. row' = row \/ req[w].op \in OrderOps
    BY <1>3 DEF OrderStep, PayAnswered, PayRejected, PayAccepted, QrPay, QrPayRefused, Comp,
                FireAppend, Abort, Reply, Serving, OrderOps
  <2>3. \A k \in RequestId : Under(row'[OrderOf[k]], k) = Under(row[OrderOf[k]], k)
    <3>1. CASE row' = row
      BY <3>1
    <3>2. CASE req[w].op \in OrderOps
      <4>1. req[w].key \in ClientKey \union {NoKey}
        BY <2>1, <3>2 DEF TerminalInv, TxnServed, TxnOps, OrderOps
      <4>2. req[w].key \notin RequestId
        BY <4>1, TerminalAssumption
      <4> QED BY <2>1, <4>2, MovesUnder, TerminalAssumption DEF TerminalInv
    <3> QED BY <2>2, <3>1, <3>2
  <2> QED BY <1>3, <2>1, <2>3, KeepKeeps DEF TerminalMoves
<1>4. CASE TerminalStep(w)
  <2>1. req[w] # Idle
    BY <1>4, TerminalStepRewrites
  <2>2. CASE Reply(w) /\ KeepTxns(w)
    <3>1. Moves(w) /\ row' = row
      BY <2>2 DEF Moves, Reply
    <3> QED BY <2>1, <2>2, <3>1, KeepKeeps DEF TerminalMoves
  <2>3. ASSUME NEW k \in RequestId, NEW t, Rewrites(w, k, t)
        PROVE  /\ TerminalInv' /\ TerminalMoves
               /\ \A j \in RequestId : txn[j].state \in FinalStates => txn'[j] = txn[j]
    BY <2>1, <2>3, RewritesKeep DEF TerminalMoves, Rewrites
  <2> QED BY <1>4, <2>2, <2>3, TerminalStepRewrites
<1> QED BY <1>1, <1>2, <1>3, <1>4

LEMMA TerminalInitInv == TerminalInit => TerminalInv
<1> SUFFICES ASSUME TerminalInit PROVE TerminalInv
  OBVIOUS
<1>1. OrderInv
  BY InitInv DEF TerminalInit
<1>2. TxnTypeOK
  BY NoTxnsType DEF TerminalInit, TxnTypeOK
<1>3. \A w \in Worker : req[w] = Idle
  BY DEF TerminalInit, OrderInit
<1>4. TxnServed /\ TxnCurrent
  BY <1>3 DEF TxnServed, TxnCurrent
<1>5. TxnLinked
  <2>1. \A o \in Order : row[o].payments = <<>>
    BY DEF TerminalInit, OrderInit, NewRow
  <2>2. \A k \in RequestId : Under(row[OrderOf[k]], k) = {}
    BY <2>1, TerminalAssumption DEF Under
  <2>3. \A k \in RequestId : txn[k].booked = FALSE
    BY DEF TerminalInit, NoTxns, NewTxn
  <2> QED BY <2>2, <2>3 DEF TxnLinked
<1> QED BY <1>1, <1>2, <1>4, <1>5 DEF TerminalInv

LEMMA TerminalNextInv == TerminalInv /\ [TerminalNext]_terminalAllVars => TerminalInv'
<1>1. ASSUME TerminalInv, UNCHANGED terminalAllVars
      PROVE  TerminalInv'
  <2>1. row' = row /\ req' = req /\ snap' = snap /\ stale' = stale
    BY <1>1 DEF terminalAllVars, orderVars
  <2>2. txn' = txn /\ txnSnap' = txnSnap /\ txnStale' = txnStale
    BY <1>1 DEF terminalAllVars, terminalVars
  <2>3. OrderInv'
    BY <1>1, <2>1 DEF TerminalInv, OrderInv, OrderTypeOK, SnapshotCurrent, PaymentsStay,
                      FinalIsBalanced, OneTenderPerKey, PaymentsAddUp
  <2>4. TxnTypeOK' /\ TxnServed' /\ TxnCurrent' /\ TxnLinked'
    BY <1>1, <2>1, <2>2 DEF TerminalInv, TxnTypeOK, TxnServed, TxnCurrent, TxnLinked
  <2> QED BY <2>3, <2>4 DEF TerminalInv
<1> QED BY <1>1, TerminalStepKeeps

\* The invariant says what the run asks of the two tables.
LEMMA TerminalInvBooked == TerminalInv => BookedOnce
<1> SUFFICES ASSUME TerminalInv, NEW k \in RequestId
             PROVE  LET ps == row[OrderOf[k]].payments
                        mine == {i \in DOMAIN ps : ps[i].key = k}
                    IN /\ txn[k].booked <=> mine # {}
                       /\ \A i, j \in mine : i = j
  BY DEF BookedOnce
<1>1. OrderOf[k] \in Order /\ k # NoKey
  BY TerminalAssumption
<1>2. row[OrderOf[k]].payments \in Seq(Payment)
  BY <1>1 DEF TerminalInv, OrderInv, OrderTypeOK, Row
<1>3. Under(row[OrderOf[k]], k) # {}
        <=> {i \in DOMAIN row[OrderOf[k]].payments : row[OrderOf[k]].payments[i].key = k} # {}
  BY <1>2 DEF Under
<1>4. \A i, j \in {i \in DOMAIN row[OrderOf[k]].payments : row[OrderOf[k]].payments[i].key = k} :
        i = j
  BY <1>1 DEF TerminalInv, OrderInv, OneTenderPerKey
<1> QED BY <1>3, <1>4 DEF TerminalInv, TxnLinked

\* A terminal or cash-machine request is booked by at most one payment, and is
\* known as booked exactly when the order holds it; what the order promises its
\* cashiers it keeps when the requests join in.
THEOREM TerminalSafety ==
  TerminalSpec => [](BookedOnce /\ FinalIsBalanced /\ OneTenderPerKey /\ PaymentsAddUp)
<1>1. TerminalInv => BookedOnce /\ FinalIsBalanced /\ OneTenderPerKey /\ PaymentsAddUp
  BY TerminalInvBooked DEF TerminalInv, OrderInv
<1> QED BY TerminalInitInv, TerminalNextInv, <1>1, PTL DEF TerminalSpec

\* A settled request stays as it was settled, whoever races it.
THEOREM SettledRequestsStay == TerminalSpec => SettledStays
<1>1. TerminalInv /\ [TerminalNext]_terminalAllVars
        => [\A k \in RequestId : txn[k].state \in FinalStates => txn'[k] = txn[k]]_terminalAllVars
  BY TerminalStepKeeps
<1> QED BY TerminalInitInv, TerminalNextInv, <1>1, PTL DEF TerminalSpec, SettledStays

(***************************************************************************)
(* Bank-app QRs: the inductive invariant                                   *)
(***************************************************************************)
Qr == [state : {"none", "pending", "confirmed", "cancelled"}, amount : Nat, shown : Nat]

QrOps == {"payment/qr/confirm", "payment/qr/cancel"}

QrTypeOK == /\ qr \in [Token -> Qr]
            /\ qrSnap \in [Worker -> [Token -> Qr]]
            /\ qrStale \in [Worker -> BOOLEAN]

\* A handler serves a token on its own order, or carries no token.
QrServed ==
  \A w \in Worker : req[w] # Idle =>
    \/ /\ req[w].op \in OrderOps \union {"payment/qr/generate"}
       /\ req[w].key \in ClientKey \union {NoKey}
    \/ /\ req[w].op \in QrOps
       /\ req[w].key \in Token /\ req[w].order = TokenOf[req[w].key]

\* One nobody overtook sees the committed QR.
QrCurrent ==
  \A w \in Worker : req[w] # Idle /\ req[w].key \in Token /\ ~qrStale[w]
                     => qrSnap[w][req[w].key] = qr[req[w].key]

\* A pending QR shows something owed; a confirmed one, and no other, was paid,
\* with its own amount.
QrLinked ==
  \A k \in Token :
    /\ qr[k].state = "pending" => qr[k].shown > Eps
    /\ qr[k].state = "confirmed" <=> Under(row[TokenOf[k]], k) # {}
    /\ \A p \in Under(row[TokenOf[k]], k) : p.amount = qr[k].amount

QrInv == OrderInv /\ QrTypeOK /\ QrServed /\ QrCurrent /\ QrLinked

LEMMA NoQrsType == NoQrs \in [Token -> Qr]
BY DEF NoQrs, NewQr, Qr

\* Handlers that write no QR leave the tokens and their payments alone.
LEMMA KeepQrsKeeps ==
  ASSUME QrInv, NEW w \in Worker, req[w] # Idle, Moves(w), KeepQrs(w),
         \A k \in Token : Under(row'[TokenOf[k]], k) = Under(row[TokenOf[k]], k)
  PROVE  QrInv' /\ qr' = qr
<1> USE DEF QrInv
<1>1. OrderInv'
  BY MovesKeep
<1>2. /\ qr' = qr /\ qrSnap' = [qrSnap EXCEPT ![w] = NoQrs]
      /\ qrStale' = [qrStale EXCEPT ![w] = FALSE] /\ req' = [req EXCEPT ![w] = Idle]
  BY MovesLeaves DEF KeepQrs
<1>3. QrTypeOK'
  BY <1>2, NoQrsType DEF QrTypeOK
<1>4. ASSUME NEW v \in Worker, req'[v] # Idle
      PROVE  req'[v] = req[v] /\ qrSnap'[v] = qrSnap[v] /\ qrStale'[v] = qrStale[v]
  BY <1>2, <1>4 DEF OrderInv, OrderTypeOK, QrTypeOK
<1>5. QrServed'
  BY <1>4 DEF QrServed
<1>6. QrCurrent'
  <2>1. qr' = qr
    BY <1>2
  <2>2. QrCurrent
    BY DEF QrInv
  <2> QED BY <1>4, <2>1, <2>2 DEF QrCurrent
<1>7. QrLinked'
  BY <1>2 DEF QrLinked
<1> QED BY <1>1, <1>2, <1>3, <1>5, <1>6, <1>7

\* A QR is rewritten: confirmed exactly when its payment is there, and only
\* while the order owes what it showed.
QrRewrites(w, k, c) ==
  /\ c \in Qr /\ (c.state = "pending" => c.shown > Eps)
  /\ req[w].key \in Token => req[w].key = k
  /\ WriteQr(w, k, c) /\ Moves(w)
  /\ c.state = "confirmed" <=> Under(row'[TokenOf[k]], k) # {}
  /\ \A p \in Under(row'[TokenOf[k]], k) : p.amount = c.amount
  /\ c.state = "confirmed" => Remaining(row[TokenOf[k]]) - qr[k].shown \in -Eps .. Eps

LEMMA QrRewritesKeep ==
  ASSUME QrInv, NEW w \in Worker, req[w] # Idle, NEW k \in Token, NEW c, QrRewrites(w, k, c)
  PROVE  /\ QrInv'
         /\ qr'[k].state = "confirmed" => Remaining(row[TokenOf[k]]) - qr[k].shown \in -Eps .. Eps
         /\ \A j \in Token : j # k => qr'[j] = qr[j]
<1> USE DEF QrInv
<1>1. OrderInv'
  BY MovesKeep DEF QrRewrites
<1>2. /\ qr' = [qr EXCEPT ![k] = c] /\ qrSnap' = [qrSnap EXCEPT ![w] = NoQrs]
      /\ req' = [req EXCEPT ![w] = Idle]
  BY MovesLeaves DEF WriteQr, QrRewrites
<1>3. QrTypeOK'
  BY <1>2, NoQrsType DEF QrTypeOK, QrRewrites, WriteQr
<1>4. qr'[k] = c /\ \A j \in Token : j # k => qr'[j] = qr[j]
  BY <1>2 DEF QrTypeOK
<1>5. ASSUME NEW v \in Worker, req'[v] # Idle
      PROVE  /\ req'[v] = req[v] /\ qrSnap'[v] = qrSnap[v]
             /\ ~qrStale'[v] => ~qrStale[v] /\ req[v].key # k
  <2>1. v # w /\ req'[v] = req[v] /\ qrSnap'[v] = qrSnap[v]
    BY <1>2, <1>5 DEF OrderInv, OrderTypeOK, QrTypeOK
  <2> QED BY <1>5, <2>1 DEF WriteQr, QrRewrites
<1>6. QrServed'
  BY <1>5 DEF QrServed
<1>7. QrCurrent'
  <2> SUFFICES ASSUME NEW v \in Worker, req'[v] # Idle, req'[v].key \in Token, ~qrStale'[v]
               PROVE  qrSnap'[v][req'[v].key] = qr'[req'[v].key]
    BY DEF QrCurrent
  <2>1. req'[v] = req[v] /\ qrSnap'[v] = qrSnap[v] /\ ~qrStale[v] /\ req[v].key # k
    BY <1>5
  <2> QED BY <1>4, <2>1 DEF QrCurrent
<1>8. QrLinked'
  <2> SUFFICES ASSUME NEW j \in Token
               PROVE  /\ qr'[j].state = "pending" => qr'[j].shown > Eps
                      /\ qr'[j].state = "confirmed" <=> Under(row'[TokenOf[j]], j) # {}
                      /\ \A p \in Under(row'[TokenOf[j]], j) : p.amount = qr'[j].amount
    BY DEF QrLinked
  <2>1. CASE j = k
    BY <1>4, <2>1 DEF QrRewrites
  <2>2. CASE j # k
    <3>1. j \in Key /\ j # req[w].key /\ TokenOf[j] \in Order
      BY <2>2, TokenAssumption DEF QrRewrites
    <3>2. Under(row'[TokenOf[j]], j) = Under(row[TokenOf[j]], j)
      BY <3>1, MovesUnder DEF QrRewrites
    <3>3. qr'[j] = qr[j]
      BY <1>4, <2>2
    <3> QED BY <3>2, <3>3 DEF QrLinked
  <2> QED BY <2>1, <2>2
<1> QED BY <1>1, <1>3, <1>4, <1>6, <1>7, <1>8 DEF QrRewrites

\* What the handler of a token knows of it.
LEMMA ServedQr ==
  ASSUME QrInv, NEW w \in Worker, req[w] # Idle, req[w].op \in QrOps
  PROVE  /\ req[w].key \in Token /\ req[w].key \in Key
         /\ req[w].order = TokenOf[req[w].key] /\ TokenOf[req[w].key] \in Order
         /\ SeenQr(w) \in Qr
         /\ ~qrStale[w] => SeenQr(w) = qr[req[w].key]
<1>1. req[w].op \notin OrderOps \union {"payment/qr/generate"}
  BY DEF QrOps, OrderOps
<1>2. req[w].key \in Token /\ req[w].order = TokenOf[req[w].key]
  BY <1>1 DEF QrInv, QrServed
<1>3. SeenQr(w) \in Qr
  BY <1>2 DEF QrInv, QrTypeOK, SeenQr
<1>4. ~qrStale[w] => SeenQr(w) = qr[req[w].key]
  BY <1>2 DEF QrInv, QrCurrent, SeenQr
<1> QED BY <1>2, <1>3, <1>4, TokenAssumption

(***************************************************************************)
(* Bank-app QRs: each handler answers, or rewrites its token               *)
(***************************************************************************)
LEMMA GenerateRewrites ==
  ASSUME QrInv, NEW w \in Worker, Generate(w)
  PROVE  \E k \in Token : \E c : QrRewrites(w, k, c)
<1> DEFINE t == TenderOf(snap[w], req[w])
           c == [state |-> "pending", amount |-> t, shown |-> Remaining(snap[w])]
<1>1. req[w] # Idle /\ req[w].op = "payment/qr/generate" /\ Reply(w) /\ MayGenerate(snap[w], t)
  BY DEF Generate, Serving
<1>2. PICK k \in Token : qr[k].state = "none" /\ WriteQr(w, k, c)
  BY DEF Generate
<1>3. t \in Nat /\ Remaining(snap[w]) \in Nat /\ Remaining(snap[w]) > Eps
  <2>1. snap[w] \in Row /\ req[w] \in Request
    BY <1>1, SnapRow DEF QrInv
  <2>2. Remaining(snap[w]) \in Int /\ Remaining(snap[w]) > Eps
    BY <1>1, <2>1 DEF MayGenerate, Remaining, Row
  <2>3. t \in Int /\ t > 0
    BY <1>1, <2>1, <2>2 DEF MayGenerate, TenderAllowed, TenderOf, Request
  <2> QED BY <2>2, <2>3 DEF Eps
<1> HIDE DEF t
<1>4. c \in Qr /\ c.state = "pending" /\ c.shown > Eps
  BY <1>3 DEF Qr
<1> HIDE DEF c
<1>5. row' = row /\ Moves(w)
  BY <1>1 DEF Reply, Moves
<1>6. Under(row[TokenOf[k]], k) = {}
  BY <1>2 DEF QrInv, QrLinked
<1>7. req[w].key \notin Token
  <2>1. req[w].key \in ClientKey \union {NoKey}
    BY <1>1 DEF QrInv, QrServed, QrOps
  <2> QED BY <2>1, TokenAssumption
<1>8. QrRewrites(w, k, c)
  BY <1>2, <1>4, <1>5, <1>6, <1>7 DEF QrRewrites
<1> QED BY <1>8

LEMMA ConfirmRewrites ==
  ASSUME QrInv, NEW w \in Worker, Confirm(w)
  PROVE  \E k \in Token : \E c : QrRewrites(w, k, c)
<1> DEFINE k == req[w].key
           o == TokenOf[k]
           r == snap[w]
           seen == SeenQr(w)
           a == seen.amount
           p == AddPayment(r, k, a, "payment/qr/confirm")
           closing == Remaining(p) <= Eps /\ r.state = "draft"
           c == [seen EXCEPT !.state = "confirmed"]
<1>1. /\ req[w] # Idle /\ req[w].op \in QrOps /\ seen.state = "pending"
      /\ UpToDate(r, seen) /\ WriteQr(w, k, c)
  BY DEF Confirm, Serving, QrOps
<1>2. /\ k \in Token /\ k \in Key /\ req[w].order = o /\ o \in Order
      /\ seen \in Qr /\ seen = qr[k]
  BY <1>1, ServedQr DEF WriteQr
<1>3. r \in Row /\ row[o] \in Row
  BY <1>2 DEF QrInv, OrderInv, OrderTypeOK
<1>4. seen.shown > Eps /\ Under(row[o], k) = {}
  BY <1>1, <1>2 DEF QrInv, QrLinked
<1>5. ~HasKey(r, k)
  <2>1. HasKey(r, k) => HasKey(row[o], k)
    BY <1>1, <1>2, SeenStays DEF QrInv
  <2> QED BY <1>2, <1>3, <1>4, <2>1, HasKeyUnder
<1>6. PICK new : Commit(w, new) /\ (new = p \/ (new = Closed(p) /\ MayClose(p)))
  <2>1. \/ (closing => MayClose(p)) /\ Commit(w, IF closing THEN Closed(p) ELSE p)
        \/ Commit(w, p)
    BY <1>5 DEF Confirm
  <2> HIDE DEF p
  <2> QED BY <2>1
<1>7. c \in Qr /\ c.state = "confirmed" /\ c.amount = a /\ a \in Nat
  BY <1>2 DEF Qr
<1>8. /\ a - Remaining(r) <= Eps /\ Remaining(r) > 0
      /\ Remaining(r) - seen.shown \in -Eps .. Eps
  <2>1. Remaining(r) \in Int /\ seen.shown \in Nat
    BY <1>2, <1>3 DEF Remaining, Row, Qr
  <2> QED BY <1>1, <1>4, <2>1 DEF UpToDate, Eps
<1> HIDE DEF a, c, p
<1>9. ~stale[w] /\ r.state = "paid" => (r.tendered + a) - r.total \in Tolerated /\ ~Exact
  BY <1>1, <1>3, <1>7, <1>8, SnapRow, ChargeTolerated DEF QrInv
<1>10. r.state \in {"draft", "paid"} /\ "payment/qr/confirm" \in Op
  BY <1>3 DEF Row, Op
<1> DEFINE pay == [key |-> k, amount |-> a, via |-> "payment/qr/confirm"]
<1>11. /\ Moves(w) /\ r = row[req[w].order]
       /\ Under(row'[req[w].order], k) = Under(row[req[w].order], k) \union {pay}
  BY <1>1, <1>2, <1>5, <1>6, <1>7, <1>8, <1>9, <1>10, ChargeMoves DEF QrInv, p
<1>12. Under(row'[o], k) = {pay} /\ pay.amount = a
  BY <1>2, <1>4, <1>11
<1>13. QrRewrites(w, k, c)
  BY <1>1, <1>2, <1>7, <1>8, <1>11, <1>12 DEF QrRewrites
<1> QED BY <1>2, <1>13

LEMMA CancelQrRewrites ==
  ASSUME QrInv, NEW w \in Worker, CancelQr(w)
  PROVE  (Reply(w) /\ KeepQrs(w)) \/ \E k \in Token : \E c : QrRewrites(w, k, c)
<1> DEFINE k == req[w].key
           c == [SeenQr(w) EXCEPT !.state = "cancelled"]
<1> SUFFICES ASSUME ~KeepQrs(w) PROVE \E j \in Token : \E d : QrRewrites(w, j, d)
  BY DEF CancelQr
<1>1. /\ req[w] # Idle /\ req[w].op \in QrOps /\ SeenQr(w).state = "pending"
      /\ WriteQr(w, k, c) /\ Reply(w)
  BY DEF CancelQr, Serving, QrOps
<1>2. k \in Token /\ SeenQr(w) \in Qr /\ SeenQr(w) = qr[k]
  BY <1>1, ServedQr DEF WriteQr
<1>3. c \in Qr /\ c.state = "cancelled"
  BY <1>2 DEF Qr
<1> HIDE DEF c
<1>4. Under(row[TokenOf[k]], k) = {}
  BY <1>1, <1>2 DEF QrInv, QrLinked
<1>5. row' = row /\ Moves(w)
  BY <1>1 DEF Reply, Moves
<1>6. QrRewrites(w, k, c)
  BY <1>1, <1>2, <1>3, <1>4, <1>5 DEF QrRewrites
<1> QED BY <1>2, <1>6

LEMMA QrStepRewrites ==
  ASSUME QrInv, NEW w \in Worker, QrStep(w)
  PROVE  /\ req[w] # Idle
         /\ (Reply(w) /\ KeepQrs(w)) \/ \E k \in Token : \E c : QrRewrites(w, k, c)
<1>1. req[w] # Idle
  BY DEF QrStep, Generate, GenerateRefused, Confirm, ConfirmRefused, CancelQr, Serving
<1>2. (Reply(w) /\ KeepQrs(w)) \/ \E k \in Token : \E c : QrRewrites(w, k, c)
  BY GenerateRewrites, ConfirmRewrites, CancelQrRewrites
     DEF QrStep, GenerateRefused, ConfirmRefused
<1> QED BY <1>1, <1>2


LEMMA QrRequestServes ==
  ASSUME NEW q \in OrderRequests \union QrRequests
  PROVE  /\ q \in Request /\ Fits(q, row[q.order])
         /\ \/ /\ q.op \in OrderOps \union {"payment/qr/generate"}
               /\ q.key \in ClientKey \union {NoKey}
            \/ /\ q.op \in QrOps /\ q.key \in Token /\ q.order = TokenOf[q.key]
<1>1. CASE q \in OrderRequests
  BY <1>1, OrderRequestServes, RequestType
<1>2. CASE q \in [op : {"payment/qr/generate"}, order : Order, key : {NoKey},
                  amount : 0 .. MaxAmount, extra : {0}]
  <2>1. q.op = "payment/qr/generate" /\ q.key = NoKey
    BY <1>2
  <2>2. q \in Request
    <3>1. 0 .. MaxAmount \subseteq Nat /\ 0 \in Nat /\ "payment/qr/generate" \in Op
      BY BoundAssumption DEF Op
    <3> QED BY <1>2, <3>1 DEF Request
  <2> QED BY <2>1, <2>2 DEF Fits
<1>3. CASE /\ q \in [op : {"payment/qr/confirm", "payment/qr/cancel"}, order : Order,
                     key : Token, amount : {0}, extra : {0}]
           /\ q.order = TokenOf[q.key]
  <2>1. q.op \in QrOps /\ q.key \in Token /\ q.op # "orders/pay" /\ q.op # "orders/comp"
    BY <1>3 DEF QrOps
  <2>2. q \in Request
    <3>1. 0 \in Nat /\ QrOps \subseteq Op /\ Token \subseteq Key
      BY TokenAssumption DEF Op, QrOps
    <3> QED BY <1>3, <3>1 DEF Request, QrOps
  <2> QED BY <1>3, <2>1, <2>2 DEF Fits
<1> QED BY <1>1, <1>2, <1>3 DEF QrRequests

LEMMA QrBeginKeeps ==
  ASSUME QrInv, NEW w \in Worker, NEW q \in OrderRequests \union QrRequests, QrBegin(w, q)
  PROVE  QrInv' /\ qr' = qr
<1> USE DEF QrInv
<1> DEFINE seen == [k \in Token |-> IF k = q.key THEN qr[k] ELSE NewQr]
<1>1. Begin(w, q) /\ qr' = qr /\ qrStale' = qrStale /\ qrSnap' = [qrSnap EXCEPT ![w] = seen]
  BY DEF QrBegin
<1>2. OrderInv'
  BY <1>1, QrRequestServes, BeginKeeps
<1>3. seen \in [Token -> Qr]
  <2>1. NewQr \in Qr
    BY DEF NewQr, Qr
  <2> QED BY <2>1 DEF QrTypeOK
<1>4. q.key \in Token => seen[q.key] = qr[q.key]
  OBVIOUS
<1> HIDE DEF seen
<1>5. /\ req'[w] = q /\ qrSnap'[w] = seen
      /\ \A v \in Worker : v # w => req'[v] = req[v] /\ qrSnap'[v] = qrSnap[v]
  BY <1>1 DEF Begin, OrderInv, OrderTypeOK, QrTypeOK
<1>6. QrTypeOK'
  BY <1>1, <1>3 DEF QrTypeOK
<1>7. QrServed'
  BY <1>5, QrRequestServes DEF QrServed
<1>8. QrCurrent'
  BY <1>1, <1>4, <1>5 DEF QrCurrent
<1>9. QrLinked'
  BY <1>1 DEF QrLinked, Begin
<1> QED BY <1>1, <1>2, <1>6, <1>7, <1>8, <1>9

(***************************************************************************)
(* Bank-app QRs: the theorems                                              *)
(***************************************************************************)
\* What a step does, told in the tokens and the order it touches.
QrMoves ==
  \E w \in Worker :
    \/ \E q \in OrderRequests \union QrRequests : QrBegin(w, q)
    \/ req[w] # Idle /\ Moves(w)

ConfirmsAsShown ==
  \A k \in Token :
    qr[k].state # "confirmed" /\ qr'[k].state = "confirmed"
      => Remaining(row[TokenOf[k]]) - qr[k].shown \in -Eps .. Eps

LEMMA QrStepKeeps ==
  ASSUME QrInv, QrNext
  PROVE  QrInv' /\ QrMoves /\ ConfirmsAsShown
<1>1. PICK w \in Worker :
        \/ \E q \in OrderRequests \union QrRequests : QrBegin(w, q)
        \/ OrderStep(w) /\ KeepQrs(w)
        \/ QrStep(w)
  BY DEF QrNext
<1>2. ASSUME NEW q \in OrderRequests \union QrRequests, QrBegin(w, q)
      PROVE  QrInv' /\ QrMoves /\ ConfirmsAsShown
  BY <1>2, QrBeginKeeps DEF QrMoves, ConfirmsAsShown
<1>3. CASE OrderStep(w) /\ KeepQrs(w)
  <2>1. req[w] # Idle /\ Moves(w)
    BY <1>3, StepMoves DEF QrInv
  <2>2. row' = row \/ req[w].op \in OrderOps
    BY <1>3 DEF OrderStep, PayAnswered, PayRejected, PayAccepted, QrPay, QrPayRefused, Comp,
                FireAppend, Abort, Reply, Serving, OrderOps
  <2>3. \A k \in Token : Under(row'[TokenOf[k]], k) = Under(row[TokenOf[k]], k)
    <3>1. CASE row' = row
      BY <3>1
    <3>2. CASE req[w].op \in OrderOps
      <4>1. req[w].key \in ClientKey \union {NoKey}
        BY <2>1, <3>2 DEF QrInv, QrServed, QrOps, OrderOps
      <4>2. req[w].key \notin Token
        BY <4>1, TokenAssumption
      <4> QED BY <2>1, <4>2, MovesUnder, TokenAssumption DEF QrInv
    <3> QED BY <2>2, <3>1, <3>2
  <2> QED BY <1>3, <2>1, <2>3, KeepQrsKeeps DEF QrMoves, ConfirmsAsShown
<1>4. CASE QrStep(w)
  <2>1. req[w] # Idle
    BY <1>4, QrStepRewrites
  <2>2. CASE Reply(w) /\ KeepQrs(w)
    <3>1. Moves(w) /\ row' = row
      BY <2>2 DEF Moves, Reply
    <3> QED BY <2>1, <2>2, <3>1, KeepQrsKeeps DEF QrMoves, ConfirmsAsShown
  <2>3. ASSUME NEW k \in Token, NEW c, QrRewrites(w, k, c)
        PROVE  QrInv' /\ QrMoves /\ ConfirmsAsShown
    BY <2>1, <2>3, QrRewritesKeep DEF QrMoves, QrRewrites, ConfirmsAsShown
  <2> QED BY <1>4, <2>2, <2>3, QrStepRewrites
<1> QED BY <1>1, <1>2, <1>3, <1>4

LEMMA QrInitInv == QrInit => QrInv
<1> SUFFICES ASSUME QrInit PROVE QrInv
  OBVIOUS
<1>1. OrderInv
  BY InitInv DEF QrInit
<1>2. QrTypeOK
  BY NoQrsType DEF QrInit, QrTypeOK
<1>3. \A w \in Worker : req[w] = Idle
  BY DEF QrInit, OrderInit
<1>4. QrServed /\ QrCurrent
  BY <1>3 DEF QrServed, QrCurrent
<1>5. QrLinked
  <2>1. \A o \in Order : row[o].payments = <<>>
    BY DEF QrInit, OrderInit, NewRow
  <2>2. \A k \in Token : Under(row[TokenOf[k]], k) = {}
    BY <2>1, TokenAssumption DEF Under
  <2>3. \A k \in Token : qr[k].state = "none"
    BY DEF QrInit, NoQrs, NewQr
  <2> QED BY <2>2, <2>3 DEF QrLinked
<1> QED BY <1>1, <1>2, <1>4, <1>5 DEF QrInv

LEMMA QrNextInv == QrInv /\ [QrNext]_qrAllVars => QrInv'
<1>1. ASSUME QrInv, UNCHANGED qrAllVars
      PROVE  QrInv'
  <2>1. row' = row /\ req' = req /\ snap' = snap /\ stale' = stale
    BY <1>1 DEF qrAllVars, orderVars
  <2>2. qr' = qr /\ qrSnap' = qrSnap /\ qrStale' = qrStale
    BY <1>1 DEF qrAllVars, qrVars
  <2>3. OrderInv'
    BY <1>1, <2>1 DEF QrInv, OrderInv, OrderTypeOK, SnapshotCurrent, PaymentsStay,
                      FinalIsBalanced, OneTenderPerKey, PaymentsAddUp
  <2>4. QrTypeOK' /\ QrServed' /\ QrCurrent' /\ QrLinked'
    BY <1>1, <2>1, <2>2 DEF QrInv, QrTypeOK, QrServed, QrCurrent, QrLinked
  <2> QED BY <2>3, <2>4 DEF QrInv
<1> QED BY <1>1, QrStepKeeps

LEMMA QrInvPaid == QrInv => ConfirmedIsPaid
<1> SUFFICES ASSUME QrInv, NEW k \in Token
             PROVE  LET ps == row[TokenOf[k]].payments
                        mine == {i \in DOMAIN ps : ps[i].key = k}
                    IN /\ qr[k].state = "confirmed" <=> mine # {}
                       /\ \A i, j \in mine : i = j /\ ps[i].amount = qr[k].amount
  BY DEF ConfirmedIsPaid
<1> DEFINE ps == row[TokenOf[k]].payments
           mine == {i \in DOMAIN ps : ps[i].key = k}
<1>1. TokenOf[k] \in Order /\ k # NoKey
  BY TokenAssumption
<1>2. \A i \in DOMAIN ps : ps[i] \in Payment
  BY <1>1 DEF QrInv, OrderInv, OrderTypeOK, Row
<1>3. Under(row[TokenOf[k]], k) # {} <=> mine # {}
  BY <1>2 DEF Under
<1>4. \A i, j \in mine : i = j
  BY <1>1 DEF QrInv, OrderInv, OneTenderPerKey
<1>5. \A i \in mine : ps[i].amount = qr[k].amount
  <2>1. \A i \in mine : ps[i] \in Under(row[TokenOf[k]], k)
    BY <1>2 DEF Under
  <2> QED BY <2>1 DEF QrInv, QrLinked
<1> QED BY <1>3, <1>4, <1>5 DEF QrInv, QrLinked

\* A bank-app QR is confirmed exactly when the order holds its payment, one and
\* of the amount it asked for; what the order promises its cashiers it keeps
\* when the QRs join in.
THEOREM QrSafety ==
  QrSpec => [](ConfirmedIsPaid /\ FinalIsBalanced /\ OneTenderPerKey /\ PaymentsAddUp)
<1>1. QrInv => ConfirmedIsPaid /\ FinalIsBalanced /\ OneTenderPerKey /\ PaymentsAddUp
  BY QrInvPaid DEF QrInv, OrderInv
<1> QED BY QrInitInv, QrNextInv, <1>1, PTL DEF QrSpec

\* A QR is confirmed only while the committed order still owes what it showed.
THEOREM QrConfirmedAsShown == QrSpec => ConfirmedAsShown
<1>1. QrInv /\ [QrNext]_qrAllVars
        => [\A k \in Token :
              qr[k].state # "confirmed" /\ qr'[k].state = "confirmed"
                => Remaining(row[TokenOf[k]]) - qr[k].shown \in -Eps .. Eps]_qrAllVars
  BY QrStepKeeps DEF ConfirmsAsShown
<1> QED BY QrInitInv, QrNextInv, <1>1, PTL DEF QrSpec, ConfirmedAsShown

(***************************************************************************)
(* Both roads keep to the ledger                                           *)
(***************************************************************************)
LEMMA MovesRefine ==
  ASSUME OrderInv, Exact, NEW w \in Worker, req[w] # Idle, Moves(w)
  PROVE  UNCHANGED Ledger!vars \/ Ledger!Next
<1>1. CASE Reply(w)
  BY <1>1 DEF Reply, Ledger!vars
<1>2. CASE Settles(w)
  BY <1>2, SettlesRefines
<1>3. Reply(w) \/ Settles(w)
  BY DEF Moves, Settles, WriteOrder
<1> QED BY <1>1, <1>2, <1>3

LEMMA TerminalStepRefines ==
  ASSUME TerminalInv, Exact, [TerminalNext]_terminalAllVars
  PROVE  [Ledger!Next]_Ledger!vars
<1>1. CASE UNCHANGED terminalAllVars
  BY <1>1 DEF terminalAllVars, orderVars, Ledger!vars
<1>2. CASE TerminalNext
  <2>1. PICK w \in Worker : \/ \E q \in OrderRequests \union TerminalRequests : TerminalBegin(w, q)
                            \/ req[w] # Idle /\ Moves(w)
    BY <1>2, TerminalStepKeeps DEF TerminalMoves
  <2>2. CASE req[w] # Idle /\ Moves(w)
    BY <2>2, MovesRefine DEF TerminalInv
  <2>3. ASSUME NEW q \in OrderRequests \union TerminalRequests, TerminalBegin(w, q)
        PROVE  UNCHANGED Ledger!vars
    BY <2>3 DEF TerminalBegin, Begin, Ledger!vars
  <2> QED BY <2>1, <2>2, <2>3
<1> QED BY <1>1, <1>2

\* Where Odoo closes an order on its exact total only, whatever cashiers,
\* terminals and managers race on, they keep to the ledger.
THEOREM TerminalRefinesLedger ==
  ASSUME ~CashRounding
  PROVE  TerminalSpec => ImplementsLedger
<1>1. Exact
  BY DEF Exact, Tolerated
<1>2. TerminalInv /\ [TerminalNext]_terminalAllVars => [Ledger!Next]_Ledger!vars
  BY <1>1, TerminalStepRefines
<1>3. TerminalInit => Ledger!Init
  BY InitRefines DEF TerminalInit
<1> QED BY TerminalInitInv, TerminalNextInv, <1>2, <1>3, PTL
        DEF TerminalSpec, ImplementsLedger, Ledger!Spec

LEMMA QrStepRefines ==
  ASSUME QrInv, Exact, [QrNext]_qrAllVars
  PROVE  [Ledger!Next]_Ledger!vars
<1>1. CASE UNCHANGED qrAllVars
  BY <1>1 DEF qrAllVars, orderVars, Ledger!vars
<1>2. CASE QrNext
  <2>1. PICK w \in Worker : \/ \E q \in OrderRequests \union QrRequests : QrBegin(w, q)
                            \/ req[w] # Idle /\ Moves(w)
    BY <1>2, QrStepKeeps DEF QrMoves
  <2>2. CASE req[w] # Idle /\ Moves(w)
    BY <2>2, MovesRefine DEF QrInv
  <2>3. ASSUME NEW q \in OrderRequests \union QrRequests, QrBegin(w, q)
        PROVE  UNCHANGED Ledger!vars
    BY <2>3 DEF QrBegin, Begin, Ledger!vars
  <2> QED BY <2>1, <2>2, <2>3
<1> QED BY <1>1, <1>2

\* So do they when guests scan and cashiers confirm QRs.
THEOREM QrRefinesLedger ==
  ASSUME ~CashRounding
  PROVE  QrSpec => ImplementsLedger
<1>1. Exact
  BY DEF Exact, Tolerated
<1>2. QrInv /\ [QrNext]_qrAllVars => [Ledger!Next]_Ledger!vars
  BY <1>1, QrStepRefines
<1>3. QrInit => Ledger!Init
  BY InitRefines DEF QrInit
<1> QED BY QrInitInv, QrNextInv, <1>2, <1>3, PTL
        DEF QrSpec, ImplementsLedger, Ledger!Spec
=============================================================================
