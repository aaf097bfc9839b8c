------------------------------ MODULE PosOrder ------------------------------
(***************************************************************************)
(* The money of pos.order: the request handlers of controllers/main.py     *)
(* that price an open order, take a tender against it and finalise it,     *)
(* each run by an HTTP worker as one REPEATABLE READ transaction.          *)
(*                                                                         *)
(* A request is two steps.  Begin takes the transaction's snapshot of the  *)
(* order; the handler's step decides on that snapshot and commits.  The    *)
(* commit of a changed order row succeeds only if nobody else committed a  *)
(* change of that row since the snapshot (PostgreSQL raises 40001          *)
(* otherwise).  A conflict, a crash or a killed request is Abort: nothing  *)
(* is kept, and Odoo's retrying() or the client may Begin again.           *)
(***************************************************************************)
EXTENDS Integers, Sequences

CONSTANTS Worker,         \* HTTP workers
          Order,          \* pos.order rows
          Key,            \* every idempotency key a tender can carry
          ClientKey,      \* those minted by the cashier client
          NoKey,          \* a tender without a key
          Idle,           \* a worker between two requests
          CashRounding,   \* the register rounds cash: Odoo tolerates eps
          OpeningTotal,   \* totals an order may open with
          MaxTotal,       \* bound on a total reached by appending items
          MaxAmount,      \* bound on an amount typed into a request
          MaxExtra        \* bound on a discount or tip

ASSUME KeyAssumption == ClientKey \subseteq Key /\ NoKey \notin Key
ASSUME RoundingAssumption == CashRounding \in BOOLEAN
ASSUME BoundAssumption == /\ OpeningTotal \subseteq Nat
                          /\ MaxTotal \in Nat
                          /\ MaxAmount \in Nat
                          /\ MaxExtra \in Nat

VARIABLES row,    \* [Order -> Row]: the committed order rows
          req,    \* [Worker -> Request or Idle]: the request a worker serves
          snap,   \* [Worker -> Row]: the order as its transaction sees it
          stale   \* [Worker -> BOOLEAN]: that row was updated since

orderVars == <<row, req, snap, stale>>

\* amounts in minor units; round(.., prec) keeps every one of them integral.
Eps == 1

\* The routes that read or write an order's money: this module's four, then
\* those of TerminalTxn and of PaymentQr.
Op == {"orders/pay", "qr/pay", "orders/comp", "orders/fire",
       "terminal/start", "terminal/complete", "terminal/cancel", "terminal/force_done",
       "payment/qr/generate", "payment/qr/confirm", "payment/qr/cancel"}

Payment == [key : Key \union {NoKey}, amount : Nat, via : Op]

\* tendered is the sum over payment_ids, which only ever grows; amount_paid is
\* the stored field of that name.
Row == [state : {"draft", "paid"}, total : Nat, tendered : Nat,
        amount_paid : Nat, payments : Seq(Payment), announced : BOOLEAN]

\* amount 0: the request leaves the amount out.  extra: the loyalty discount
\* of orders/pay, the tip of qr/pay.
Request == [op : Op, order : Order, key : Key \union {NoKey},
            amount : Nat, extra : Nat]

NewRow(t) == [state |-> "draft", total |-> t, tendered |-> 0, amount_paid |-> 0,
              payments |-> <<>>, announced |-> FALSE]

OrderInit == /\ row \in {[o \in Order |-> NewRow(t[o])] : t \in [Order -> OpeningTotal]}
             /\ req = [w \in Worker |-> Idle]
             /\ snap = [w \in Worker |-> NewRow(0)]
             /\ stale = [w \in Worker |-> FALSE]

(***************************************************************************)
(* Transactions                                                            *)
(***************************************************************************)
Begin(w, q) ==
  /\ req[w] = Idle
  /\ req' = [req EXCEPT ![w] = q]
  /\ snap' = [snap EXCEPT ![w] = row[q.order]]
  /\ UNCHANGED <<row, stale>>

Serving(w, op) == req[w] # Idle /\ req[w].op = op

Leave(w) == /\ req' = [req EXCEPT ![w] = Idle]
            /\ snap' = [snap EXCEPT ![w] = NewRow(0)]

\* The transaction ends having changed no order row.
Reply(w) == /\ Leave(w)
            /\ stale' = [stale EXCEPT ![w] = FALSE]
            /\ UNCHANGED row

\* Mutant: an update leaves the other transactions unaware.
WriteOrderUnseen(w, new) ==
  /\ ~stale[w]
  /\ row' = [row EXCEPT ![req[w].order] = new]
  /\ Leave(w) /\ UNCHANGED stale

\* First committer wins: the other transactions open on this order lose any
\* later update of it.
WriteOrder(w, new) ==
  /\ ~stale[w]
  /\ row' = [row EXCEPT ![req[w].order] = new]
  /\ stale' = [v \in Worker |->
                 /\ v # w
                 /\ stale[v] \/ (req[v] # Idle /\ req[v].order = req[w].order)]
  /\ Leave(w)

Commit(w, new) == IF new = snap[w] THEN Reply(w) ELSE WriteOrder(w, new)

Abort(w) == req[w] # Idle /\ Reply(w)

(***************************************************************************)
(* The operations the handlers share                                       *)
(***************************************************************************)
Remaining(r) == r.total - r.tendered

\* The sum over payment_ids.
AmountOf(ps) == LET upTo[n \in 0 .. Len(ps)] == IF n = 0 THEN 0 ELSE upTo[n - 1] + ps[n].amount
                IN  upTo[Len(ps)]

HasKey(r, k) == k # NoKey /\ \E i \in DOMAIN r.payments : r.payments[i].key = k

\* Mutant: amount_paid counts on from what orders/fire left of it.
AddPaymentCounting(r, k, a, v) ==
  [r EXCEPT !.tendered = @ + a, !.amount_paid = @ + a,
            !.payments = Append(@, [key |-> k, amount |-> a, via |-> v])]

\* pos.order.add_payment (Odoo): one more payment, amount_paid recomputed as
\* the sum over all of them.  unique(pos_order_id, mezze_tender_key) needs no
\* case of its own: two inserts for one order always update its row twice.
AddPayment(r, k, a, v) ==
  [state |-> r.state, total |-> r.total, announced |-> r.announced,
   tendered |-> r.tendered + a, amount_paid |-> r.tendered + a,
   payments |-> Append(r.payments, [key |-> k, amount |-> a, via |-> v])]

\* pos.order.action_pos_order_paid (Odoo) accepts an order whose amount_paid
\* equals its total and raises on any other, save that cash rounding, where the
\* register has it, may absorb a difference of one minor unit.
Tolerated == IF CashRounding THEN -Eps .. Eps ELSE {0}

MayClose(r) == r.amount_paid - r.total \in Tolerated
MayRefuse(r) == r.amount_paid # r.total

Closed(r) == [r EXCEPT !.state = "paid"]

\* _publish_order_paid, keyed by the order's uuid.
Announced(r) == [r EXCEPT !.announced = TRUE]

\* A discount or tip line and the totals recomputed over all the lines.
Repriced(r, d) == [r EXCEPT !.total = @ + d]

\* What a request takes off the total is a line of the order, or a discount
\* the client offered on what the order cost.
Fits(q, r) == /\ q.op = "orders/pay" => q.extra <= r.total
              /\ q.op = "orders/comp" => q.amount <= r.total

(***************************************************************************)
(* orders/pay                                                              *)
(***************************************************************************)
PayRequests == [op : {"orders/pay"}, order : Order, key : ClientKey \union {NoKey},
                amount : 0 .. MaxAmount, extra : 0 .. MaxExtra]

TenderOf(r, q) == IF q.amount = 0 THEN Remaining(r) ELSE q.amount

\* Mutant: only a settled order is recognised, not the key of a tender.
AlreadyFinal(r, q) == r.state # "draft"

\* A retried confirm finds its key, a late one finds the order settled.
AlreadyPaid(r, q) == HasKey(r, q.key) \/ r.state # "draft"

PayAnswered(w) ==
  /\ Serving(w, "orders/pay")
  /\ AlreadyPaid(snap[w], req[w])
  /\ Reply(w)

\* Every rejection comes after the discount line was written and returns
\* normally, so the line stays: the method's policy and the credit gate may
\* reject any tender, the two amount checks these.
PayRejected(w) ==
  /\ Serving(w, "orders/pay")
  /\ ~AlreadyPaid(snap[w], req[w])
  /\ Commit(w, Repriced(snap[w], -req[w].extra))

\* Mutant: a tender may be more than what remains.
TenderPositive(r, t) == t > 0

TenderAllowed(r, t) == t > 0 /\ t - Remaining(r) <= Eps

\* The order is finalised once what remains is within eps; when Odoo refuses,
\* the handler answers 400 but the tender has been taken.
Finalised(r) ==
  IF r.total - r.amount_paid > Eps THEN {r}
  ELSE {c \in {Announced(Closed(r))} : MayClose(r)}
       \union {c \in {r} : MayRefuse(r)}

PayAccepted(w) ==
  /\ Serving(w, "orders/pay")
  /\ ~AlreadyPaid(snap[w], req[w])
  /\ LET q == req[w]
         r == Repriced(snap[w], -q.extra)
         t == TenderOf(r, q)
     IN /\ TenderAllowed(r, t)
        /\ \E new \in Finalised(AddPayment(r, q.key, t, "orders/pay")) : Commit(w, new)

(***************************************************************************)
(* qr/pay: tip and settlement in one savepoint                             *)
(***************************************************************************)
QrPayRequests == [op : {"qr/pay"}, order : Order, key : {NoKey},
                  amount : {0}, extra : 0 .. MaxExtra]

QrPaid(r, tip) == LET p == Repriced(r, tip) IN AddPayment(p, NoKey, p.total, "qr/pay")

QrPay(w) ==
  /\ Serving(w, "qr/pay")
  /\ snap[w].state = "draft"
  /\ LET p == QrPaid(snap[w], req[w].extra)
     IN MayClose(p) /\ Commit(w, Closed(p))

\* No open bill, or action_pos_order_paid raised and the savepoint undid it.
QrPayRefused(w) ==
  /\ Serving(w, "qr/pay")
  /\ snap[w].state = "draft" => MayRefuse(QrPaid(snap[w], req[w].extra))
  /\ Reply(w)

(***************************************************************************)
(* orders/comp and orders/fire, as far as the money of the order goes      *)
(***************************************************************************)
CompRequests == [op : {"orders/comp"}, order : Order, key : {NoKey},
                 amount : 1 .. MaxAmount, extra : {0}]

FireRequests == {q \in [op : {"orders/fire"}, order : Order, key : {NoKey},
                        amount : 1 .. MaxAmount, extra : {0}] :
                   row[q.order].total + q.amount <= MaxTotal}

\* A line worth amount becomes free.
Comp(w) ==
  /\ Serving(w, "orders/comp")
  /\ IF snap[w].state = "draft" THEN Commit(w, Repriced(snap[w], -req[w].amount))
                                ELSE Reply(w)

Unpaid(r) == [r EXCEPT !.amount_paid = 0]

\* Mutant: items join the order whatever has become of it.
FireAppendAnyState(w) ==
  /\ Serving(w, "orders/fire")
  /\ Commit(w, Unpaid(Repriced(snap[w], req[w].amount)))

\* New items join the open draft; the write also zeroes amount_paid.
FireAppend(w) ==
  /\ Serving(w, "orders/fire")
  /\ IF snap[w].state = "draft"
       THEN Commit(w, Unpaid(Repriced(snap[w], req[w].amount)))
       ELSE Reply(w)

(***************************************************************************)
(* Specification                                                           *)
(***************************************************************************)
OrderStep(w) == \/ PayAnswered(w) \/ PayRejected(w) \/ PayAccepted(w)
                \/ QrPay(w) \/ QrPayRefused(w)
                \/ Comp(w) \/ FireAppend(w)
                \/ Abort(w)

OrderRequests == {q \in PayRequests \union QrPayRequests \union CompRequests \union FireRequests :
                    Fits(q, row[q.order])}

OrderNext == \E w \in Worker : \/ \E q \in OrderRequests : Begin(w, q)
                               \/ OrderStep(w)

OrderSpec == OrderInit /\ [][OrderNext]_orderVars

(***************************************************************************)
(* Properties                                                              *)
(***************************************************************************)
\* Every variable holds a value of its kind, and a request gives away no more
\* than the order it was typed for asks.
OrderTypeOK ==
  /\ row \in [Order -> Row]
  /\ req \in [Worker -> Request \union {Idle}]
  /\ snap \in [Worker -> Row]
  /\ stale \in [Worker -> BOOLEAN]
  /\ \A w \in Worker : req[w] # Idle => Fits(req[w], snap[w])

\* A transaction nobody overtook still sees the committed order: what a
\* handler decides on its snapshot is true of the row it then rewrites.
SnapshotCurrent ==
  \A w \in Worker : req[w] # Idle /\ ~stale[w] => snap[w] = row[req[w].order]

\* What it saw of the payments is there still, overtaken or not.
PaymentsStay ==
  \A w \in Worker : req[w] # Idle =>
    \A i \in DOMAIN snap[w].payments :
      /\ i \in DOMAIN row[req[w].order].payments
      /\ row[req[w].order].payments[i] = snap[w].payments[i]

\* An order is final, and order.paid.v1 published, only on a settled balance,
\* also when items, comps and tenders of other workers race the last tender.
FinalIsBalanced ==
  \A o \in Order :
    /\ row[o].state = "paid" => row[o].tendered - row[o].total \in Tolerated
    /\ row[o].announced => row[o].state = "paid"

\* A client key takes at most one tender, however often its confirm is
\* clicked, retried or run again after a conflict.
OneTenderPerKey ==
  \A o \in Order : \A i, j \in DOMAIN row[o].payments :
    /\ row[o].payments[i].key = row[o].payments[j].key
    /\ row[o].payments[i].key # NoKey
    => i = j

\* The running totals agree with the payment rows, and a final order's stored
\* amount_paid is again the sum, though orders/fire zeroes it on the way.
PaymentsAddUp ==
  \A o \in Order :
    /\ row[o].tendered = AmountOf(row[o].payments)
    /\ row[o].amount_paid \in {0, row[o].tendered}
    /\ row[o].state = "paid" => row[o].amount_paid = row[o].tendered

OrderInv == /\ OrderTypeOK /\ SnapshotCurrent /\ PaymentsStay
            /\ FinalIsBalanced /\ OneTenderPerKey /\ PaymentsAddUp

Ledger == INSTANCE TenderLedger WITH
            due <- [o \in Order |-> row[o].total],
            settled <- [o \in Order |-> row[o].tendered],
            closed <- [o \in Order |-> row[o].state = "paid"]

\* Whatever handlers race on an order, they settle it as TenderLedger promises:
\* no tender past what is due, no close off balance, nothing after the close.
ImplementsLedger == Ledger!Spec
=============================================================================
