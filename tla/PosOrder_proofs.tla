--------------------------- MODULE PosOrder_proofs ---------------------------
(***************************************************************************)
(* OrderSpec keeps OrderInv and implements TenderLedger, for every set of  *)
(* workers, orders and keys.                                               *)
(***************************************************************************)
EXTENDS PosOrder, TLAPS, WellFoundedInduction

USE KeyAssumption, BoundAssumption

(***************************************************************************)
(* Sums over a sequence of payments                                        *)
(***************************************************************************)
\* A nonempty set of numbers has a least one: a first counterexample.
LEMMA LeastNat ==
  ASSUME NEW T \in SUBSET Nat, T # {}
  PROVE  \E m \in T : \A n \in T : m <= n
<1>1. PICK m \in T : \A n \in T : ~(<<n, m>> \in OpToRel(<, Nat))
  BY NatLessThanWellFounded, WFMin
<1>2. \A n \in T : ~(n < m)
  BY <1>1 DEF OpToRel
<1> QED BY <1>2

IsRunning(f, ps) ==
  f = [n \in 0 .. Len(ps) |-> IF n = 0 THEN 0 ELSE f[n - 1] + ps[n].amount]

LEMMA RunningStep ==
  ASSUME NEW ps, NEW f, IsRunning(f, ps), Len(ps) \in Nat
  PROVE  f[0] = 0 /\ \A n \in 1 .. Len(ps) : f[n] = f[n - 1] + ps[n].amount
<1>1. \A n \in 0 .. Len(ps) : f[n] = IF n = 0 THEN 0 ELSE f[n - 1] + ps[n].amount
  BY DEF IsRunning
<1> HIDE DEF IsRunning
<1>2. 0 \in 0 .. Len(ps) /\ \A n \in 1 .. Len(ps) : n \in 0 .. Len(ps) /\ n # 0
  OBVIOUS
<1> QED BY <1>1, <1>2

\* The running sums of payments, if they exist, are what AmountOf ends with.
LEMMA AmountRuns ==
  ASSUME NEW ps, NEW f, IsRunning(f, ps)
  PROVE  \E g : IsRunning(g, ps) /\ AmountOf(ps) = g[Len(ps)]
<1> DEFINE g == CHOOSE h : IsRunning(h, ps)
<1>1. IsRunning(g, ps)
  OBVIOUS
<1>2. AmountOf(ps) = g[Len(ps)]
  BY DEF AmountOf, IsRunning
<1> QED BY <1>1, <1>2

\* Two running sums agree on the payments the sequences share.
LEMMA RunningAgree ==
  ASSUME NEW ps, NEW qs, NEW f, NEW g, IsRunning(f, ps), IsRunning(g, qs),
         Len(ps) \in Nat, Len(qs) \in Nat, Len(ps) <= Len(qs),
         \A i \in 1 .. Len(ps) : qs[i] = ps[i]
  PROVE  \A n \in 0 .. Len(ps) : f[n] = g[n]
<1> DEFINE T == {n \in 0 .. Len(ps) : f[n] # g[n]}
<1> SUFFICES ASSUME T # {} PROVE FALSE
  OBVIOUS
<1>1. T \subseteq Nat
  OBVIOUS
<1>2. PICK m \in T : \A n \in T : m <= n
  BY <1>1, LeastNat
<1>3. f[0] = 0 /\ g[0] = 0
  BY RunningStep
<1>4. m \in 1 .. Len(ps) /\ m \in 1 .. Len(qs) /\ m - 1 \in 0 .. Len(ps) /\ m - 1 \notin T
  BY <1>2, <1>3
<1>5. f[m] = f[m - 1] + ps[m].amount /\ g[m] = g[m - 1] + qs[m].amount
  BY <1>4, RunningStep
<1> QED BY <1>2, <1>4, <1>5

\* One more payment adds its amount.
HasSum(ps) == \E f : IsRunning(f, ps)

LEMMA EmptyAmount == HasSum(<<>>) /\ AmountOf(<<>>) = 0
<1>1. IsRunning([n \in 0 .. 0 |-> 0], <<>>)
  BY DEF IsRunning
<1>2. PICK g : IsRunning(g, <<>>) /\ AmountOf(<<>>) = g[Len(<<>>)]
  BY <1>1, AmountRuns
<1> QED BY <1>1, <1>2 DEF IsRunning, HasSum

LEMMA AppendAmount ==
  ASSUME NEW S, NEW ps \in Seq(S), NEW pay \in S, HasSum(ps)
  PROVE  /\ HasSum(Append(ps, pay))
         /\ AmountOf(Append(ps, pay)) = AmountOf(ps) + pay.amount
<1> DEFINE qs == Append(ps, pay)
           N == Len(ps)
<1>0. N \in Nat /\ Len(qs) = N + 1 /\ qs[N + 1] = pay /\ \A i \in 1 .. N : qs[i] = ps[i]
  OBVIOUS
<1>1. PICK f : IsRunning(f, ps) /\ AmountOf(ps) = f[N]
  BY AmountRuns DEF HasSum
<1> DEFINE h == [n \in 0 .. N + 1 |-> IF n <= N THEN f[n] ELSE f[N] + pay.amount]
<1> HIDE DEF qs
<1>2. IsRunning(h, qs)
  <2>1. h = [n \in 0 .. N + 1 |-> IF n = 0 THEN 0 ELSE h[n - 1] + qs[n].amount]
    <3> SUFFICES ASSUME NEW n \in 0 .. N + 1
                 PROVE  h[n] = IF n = 0 THEN 0 ELSE h[n - 1] + qs[n].amount
      OBVIOUS
    <3>1. CASE n = 0
      BY <1>0, <1>1, <3>1, RunningStep
    <3>2. CASE n \in 1 .. N
      BY <1>0, <1>1, <3>2, RunningStep
    <3>3. CASE n = N + 1
      BY <1>0, <1>1, <3>3
    <3> QED BY <1>0, <3>1, <3>2, <3>3
  <2> QED BY <1>0, <2>1 DEF IsRunning
<1>3. PICK g : IsRunning(g, qs) /\ AmountOf(qs) = g[Len(qs)]
  BY <1>2, AmountRuns
<1>4. g[N] = f[N]
  BY <1>0, <1>1, <1>3, RunningAgree
<1>5. g[N + 1] = g[N] + pay.amount
  BY <1>0, <1>3, RunningStep
<1> QED BY <1>0, <1>1, <1>2, <1>3, <1>4, <1>5 DEF qs, HasSum

\* Every sequence of payments has a sum.
LEMMA SumExists == ASSUME NEW S, NEW ps \in Seq(S) PROVE HasSum(ps)
<1> DEFINE T == {n \in Nat : \E qs \in Seq(S) : Len(qs) = n /\ ~HasSum(qs)}
<1> SUFFICES ASSUME T # {} PROVE FALSE
  OBVIOUS
<1>1. PICK m \in T : \A n \in T : m <= n
  BY LeastNat
<1>2. PICK qs \in Seq(S) : Len(qs) = m /\ ~HasSum(qs)
  OBVIOUS
<1>3. m # 0
  BY <1>2, EmptyAmount
<1> DEFINE front == [i \in 1 .. m - 1 |-> qs[i]]
<1>4. front \in Seq(S) /\ Len(front) = m - 1 /\ qs[m] \in S
  BY <1>1, <1>2, <1>3
<1>5. m - 1 \notin T
  BY <1>1
<1>6. HasSum(front)
  <2>1. m - 1 \in Nat
    BY <1>1, <1>3
  <2> HIDE DEF front
  <2> SUFFICES ASSUME ~HasSum(front) PROVE m - 1 \in T
    BY <1>5
  <2> QED BY <1>4, <2>1
<1>7. Append(front, qs[m]) = qs
  BY <1>2, <1>3, <1>4
<1>8. HasSum(Append(front, qs[m]))
  BY <1>4, <1>6, AppendAmount
<1> QED BY <1>2, <1>7, <1>8

(***************************************************************************)
(* What the shared operations do to one order row                          *)
(***************************************************************************)
\* A request with key k takes at most one tender, under a key the order does
\* not hold yet.
TakesOne(r, k, new) ==
  \/ new.payments = r.payments /\ new.tendered = r.tendered
  \/ \E p \in Payment : /\ p.key \in {k, NoKey} /\ ~HasKey(r, p.key)
                        /\ new.payments = Append(r.payments, p)
                        /\ new.tendered = r.tendered + p.amount

\* A row that may be committed over r by a request with key k.
Lands(r, k, new) ==
  /\ new \in Row /\ TakesOne(r, k, new)
  /\ new.amount_paid \in {0, new.tendered}
  /\ new.state = "paid" => /\ new.tendered - new.total \in Tolerated
                           /\ new.amount_paid = new.tendered
  /\ new.announced => new.state = "paid"

\* One that is also a step of TenderLedger.
Follows(r, k, new) ==
  /\ Lands(r, k, new)
  /\ r.state = "draft"
  /\ new.tendered > r.tendered => new.tendered <= new.total + Eps

\* What an open row of the committed state is like.
Open(r) == r \in Row /\ r.state = "draft" /\ ~r.announced /\ r.amount_paid \in {0, r.tendered}

LEMMA TenderedGrows ==
  ASSUME NEW r \in Row, NEW k, NEW new, TakesOne(r, k, new)
  PROVE  new.tendered >= r.tendered
BY DEF TakesOne, Payment, Row

LEMMA ToleratedEps == Tolerated \subseteq -Eps .. Eps /\ 0 \in Tolerated
BY DEF Tolerated, Eps

\* add_payment: one more payment, and amount_paid is again the sum.
LEMMA AddPaymentRow ==
  ASSUME NEW r \in Row, NEW k \in Key \union {NoKey}, NEW a \in Nat, NEW v \in Op
  PROVE  LET p == AddPayment(r, k, a, v)
         IN /\ p \in Row
            /\ p.tendered = r.tendered + a /\ p.amount_paid = p.tendered
            /\ p.total = r.total /\ p.state = r.state /\ p.announced = r.announced
            /\ ~HasKey(r, k) => TakesOne(r, k, p)
<1> DEFINE pay == [key |-> k, amount |-> a, via |-> v]
           p == AddPayment(r, k, a, v)
<1>1. pay \in Payment /\ pay.key = k /\ pay.amount = a
  BY DEF Payment
<1>2. Append(r.payments, pay) \in Seq(Payment)
  BY <1>1 DEF Row
<1> HIDE DEF pay
<1>3. p = [state |-> r.state, total |-> r.total, announced |-> r.announced,
           tendered |-> r.tendered + a, amount_paid |-> r.tendered + a,
           payments |-> Append(r.payments, pay)]
  BY DEF AddPayment, pay
<1> HIDE DEF p
<1>4. /\ p \in Row /\ p.payments = Append(r.payments, pay)
      /\ p.tendered = r.tendered + a /\ p.amount_paid = p.tendered
      /\ p.total = r.total /\ p.state = r.state /\ p.announced = r.announced
  BY <1>2, <1>3 DEF Row
<1>5. ~HasKey(r, k) => TakesOne(r, k, p)
  BY <1>1, <1>4 DEF TakesOne
<1> QED BY <1>4, <1>5 DEF p

\* A change of price touches the total alone.
LEMMA RepricedRow ==
  ASSUME NEW r \in Row, NEW d \in Int, r.total + d >= 0
  PROVE  LET p == Repriced(r, d)
         IN /\ p \in Row /\ p.total = r.total + d /\ p.payments = r.payments
            /\ p.tendered = r.tendered /\ p.amount_paid = r.amount_paid
            /\ p.state = r.state /\ p.announced = r.announced
BY DEF Repriced, Row

LEMMA UnpaidRow ==
  ASSUME NEW r \in Row
  PROVE  LET p == Unpaid(r)
         IN /\ p \in Row /\ p.total = r.total /\ p.payments = r.payments
            /\ p.tendered = r.tendered /\ p.amount_paid = 0
            /\ p.state = r.state /\ p.announced = r.announced
BY DEF Unpaid, Row

LEMMA ClosedRow ==
  ASSUME NEW r \in Row
  PROVE  LET p == Closed(r)
         IN /\ p \in Row /\ p.total = r.total /\ p.payments = r.payments
            /\ p.tendered = r.tendered /\ p.amount_paid = r.amount_paid
            /\ p.state = "paid" /\ p.announced = r.announced
BY DEF Closed, Row

LEMMA AnnouncedRow ==
  ASSUME NEW r \in Row
  PROVE  LET p == Announced(r)
         IN /\ p \in Row /\ p.total = r.total /\ p.payments = r.payments
            /\ p.tendered = r.tendered /\ p.amount_paid = r.amount_paid
            /\ p.state = r.state /\ p.announced
BY DEF Announced, Row

\* Which payments a row extends does not depend on anything else about it.
LEMMA SamePayments ==
  ASSUME NEW r, NEW q, NEW k, NEW new, NEW p, TakesOne(q, k, p),
         q.payments = r.payments, q.tendered = r.tendered,
         new.payments = p.payments, new.tendered = p.tendered
  PROVE  TakesOne(r, k, new)
BY DEF TakesOne, HasKey

\* Finalising keeps the money of the order and closes it only balanced.
LEMMA FinalisedRow ==
  ASSUME NEW r \in Row, NEW k \in Key \union {NoKey}, NEW t \in Nat, NEW v \in Op,
         r.state = "draft", ~r.announced, ~HasKey(r, k), TenderAllowed(r, t),
         NEW new \in Finalised(AddPayment(r, k, t, v))
  PROVE  Follows(r, k, new)
<1> DEFINE p == AddPayment(r, k, t, v)
           c == Announced(Closed(p))
<1>1. /\ p \in Row /\ p.tendered = r.tendered + t /\ p.amount_paid = p.tendered
      /\ p.total = r.total /\ p.state = "draft" /\ ~p.announced /\ TakesOne(r, k, p)
  BY AddPaymentRow
<1> HIDE DEF p
<1>2. p.tendered <= p.total + Eps
  BY <1>1 DEF TenderAllowed, Remaining, Row, Eps
<1>3. /\ c \in Row /\ c.tendered = p.tendered /\ c.total = p.total /\ c.payments = p.payments
      /\ c.state = "paid" /\ c.announced /\ c.amount_paid = p.amount_paid
  BY <1>1, ClosedRow, AnnouncedRow
<1>4. new = p \/ (new = c /\ MayClose(p))
  BY DEF Finalised, p
<1> HIDE DEF c
<1>5. TakesOne(r, k, c)
  BY <1>1, <1>3, SamePayments
<1>6. CASE new = p
  BY <1>1, <1>2, <1>6 DEF Follows, Lands
<1>7. CASE new = c /\ MayClose(p)
  BY <1>1, <1>2, <1>3, <1>5, <1>7 DEF Follows, Lands, MayClose
<1> QED BY <1>4, <1>6, <1>7

(***************************************************************************)
(* The three ways a transaction moves                                      *)
(***************************************************************************)
\* The placeholder of an idle worker is a row.
LEMMA NewRowType == NewRow(0) \in Row
BY DEF NewRow, Row

\* What the invariant says of the committed rows holds as long as they do.
LEMMA RowsKept ==
  ASSUME OrderInv, row' = row
  PROVE  FinalIsBalanced' /\ OneTenderPerKey' /\ PaymentsAddUp'
BY DEF OrderInv, FinalIsBalanced, OneTenderPerKey, PaymentsAddUp

\* A transaction that ends without a write keeps the invariant.
LEMMA ReplyKeeps ==
  ASSUME OrderInv, NEW w \in Worker, Reply(w)
  PROVE  OrderInv'
<1> USE DEF OrderInv
<1>1. OrderTypeOK'
  <2>1. row' \in [Order -> Row] /\ stale' \in [Worker -> BOOLEAN]
    BY DEF OrderTypeOK, Reply
  <2>2. req' \in [Worker -> Request \union {Idle}] /\ snap' \in [Worker -> Row]
    BY NewRowType DEF OrderTypeOK, Reply, Leave
  <2>3. ASSUME NEW v \in Worker
        PROVE  req'[v] # Idle => Fits(req'[v], snap'[v])
    BY DEF OrderTypeOK, Reply, Leave
  <2>4. QED
    BY <2>1, <2>2, <2>3 DEF OrderTypeOK
<1>2. ASSUME NEW v \in Worker, req'[v] # Idle
      PROVE  v # w /\ req'[v] = req[v] /\ snap'[v] = snap[v] /\ stale'[v] = stale[v]
  BY <1>2 DEF OrderTypeOK, Reply, Leave
<1>3. row' = row
  BY DEF Reply
<1>4. SnapshotCurrent'
  BY <1>2, <1>3 DEF SnapshotCurrent
<1>5. PaymentsStay'
  BY <1>2, <1>3 DEF PaymentsStay
<1> QED BY <1>1, <1>3, <1>4, <1>5, RowsKept

\* So does one that begins.
LEMMA BeginKeeps ==
  ASSUME OrderInv, NEW w \in Worker, NEW q \in Request, Begin(w, q),
         Fits(q, row[q.order])
  PROVE  OrderInv'
<1> USE DEF OrderInv
<1>0. q.order \in Order /\ row[q.order] \in Row
  BY DEF Request, OrderTypeOK
<1>1. OrderTypeOK'
  <2>1. row' \in [Order -> Row] /\ stale' \in [Worker -> BOOLEAN]
    BY DEF OrderTypeOK, Begin
  <2>2. req' \in [Worker -> Request \union {Idle}] /\ snap' \in [Worker -> Row]
    BY <1>0 DEF OrderTypeOK, Begin
  <2>3. ASSUME NEW v \in Worker
        PROVE  req'[v] # Idle => Fits(req'[v], snap'[v])
    BY DEF OrderTypeOK, Begin
  <2>4. QED
    BY <2>1, <2>2, <2>3 DEF OrderTypeOK
<1>2. row' = row /\ stale' = stale
  BY DEF Begin
<1>3. req'[w] = q /\ snap'[w] = row[q.order]
  BY DEF OrderTypeOK, Begin
<1>4. ASSUME NEW v \in Worker, v # w
      PROVE  req'[v] = req[v] /\ snap'[v] = snap[v]
  BY <1>4 DEF OrderTypeOK, Begin
<1>5. SnapshotCurrent'
  BY <1>2, <1>3, <1>4 DEF SnapshotCurrent
<1>6. PaymentsStay'
  BY <1>2, <1>3, <1>4 DEF PaymentsStay
<1> QED BY <1>1, <1>2, <1>5, <1>6, RowsKept

\* The payments a row had are those a row landed over it begins with.
LEMMA LandedPayments ==
  ASSUME NEW r \in Row, NEW k, NEW new, Lands(r, k, new)
  PROVE  \A i \in DOMAIN r.payments : /\ i \in DOMAIN new.payments
                                      /\ new.payments[i] = r.payments[i]
<1>1. r.payments \in Seq(Payment)
  BY DEF Row
<1>2. CASE new.payments = r.payments
  BY <1>2
<1>3. ASSUME NEW p \in Payment, new.payments = Append(r.payments, p)
      PROVE  \A i \in DOMAIN r.payments : /\ i \in DOMAIN new.payments
                                          /\ new.payments[i] = r.payments[i]
  BY <1>1, <1>3
<1> QED BY <1>2, <1>3 DEF Lands, TakesOne

\* A fresh key stays the only one of its name.
LEMMA LandedKeys ==
  ASSUME NEW r \in Row, NEW k, NEW new, Lands(r, k, new),
         \A i, j \in DOMAIN r.payments :
           r.payments[i].key = r.payments[j].key /\ r.payments[i].key # NoKey => i = j
  PROVE  \A i, j \in DOMAIN new.payments :
           new.payments[i].key = new.payments[j].key /\ new.payments[i].key # NoKey => i = j
<1>1. r.payments \in Seq(Payment)
  BY DEF Row
<1>2. CASE new.payments = r.payments
  BY <1>2
<1>3. ASSUME NEW p \in Payment, ~HasKey(r, p.key), new.payments = Append(r.payments, p),
             NEW i \in DOMAIN new.payments, NEW j \in DOMAIN new.payments,
             new.payments[i].key = new.payments[j].key, new.payments[i].key # NoKey
      PROVE  i = j
  <2> DEFINE n == Len(r.payments)
  <2>1. /\ n \in Nat /\ DOMAIN new.payments = 1 .. n + 1 /\ DOMAIN r.payments = 1 .. n
        /\ new.payments[n + 1] = p /\ \A x \in 1 .. n : new.payments[x] = r.payments[x]
    BY <1>1, <1>3
  <2>2. i \in 1 .. n \/ i = n + 1
    BY <1>3, <2>1
  <2>3. j \in 1 .. n \/ j = n + 1
    BY <1>3, <2>1
  <2>4. p.key # NoKey => \A x \in 1 .. n : r.payments[x].key # p.key
    BY <1>3, <2>1 DEF HasKey
  <2> HIDE DEF n
  <2>5. CASE i \in 1 .. n /\ j \in 1 .. n
    BY <1>3, <2>1, <2>5
  <2>6. CASE i = n + 1 /\ j \in 1 .. n
    BY <1>3, <2>1, <2>4, <2>6
  <2>7. CASE i \in 1 .. n /\ j = n + 1
    BY <1>3, <2>1, <2>4, <2>7
  <2> QED BY <2>2, <2>3, <2>5, <2>6, <2>7
<1> QED BY <1>2, <1>3 DEF Lands, TakesOne

\* The sum goes with the payments.
LEMMA LandedSum ==
  ASSUME NEW r \in Row, NEW k, NEW new, Lands(r, k, new), r.tendered = AmountOf(r.payments)
  PROVE  new.tendered = AmountOf(new.payments)
<1>1. r.payments \in Seq(Payment)
  BY DEF Row
<1>2. HasSum(r.payments)
  BY <1>1, SumExists
<1>3. ASSUME NEW p \in Payment, new.payments = Append(r.payments, p),
             new.tendered = r.tendered + p.amount
      PROVE  new.tendered = AmountOf(new.payments)
  BY <1>1, <1>2, <1>3, AppendAmount
<1> QED BY <1>3 DEF Lands, TakesOne

\* A transaction that commits a row that lands on the one it saw keeps it too.
LEMMA WriteKeeps ==
  ASSUME OrderInv, NEW w \in Worker, req[w] # Idle,
         NEW new, Lands(snap[w], req[w].key, new), WriteOrder(w, new)
  PROVE  OrderInv'
<1> DEFINE o == req[w].order
<1> USE DEF OrderInv
<1>0. o \in Order /\ new \in Row /\ row[o] \in Row /\ snap[w] = row[o]
  BY DEF OrderTypeOK, Request, Lands, SnapshotCurrent, WriteOrder
<1>1. OrderTypeOK'
  <2>1. row' \in [Order -> Row] /\ stale' \in [Worker -> BOOLEAN]
    BY <1>0 DEF OrderTypeOK, WriteOrder
  <2>2. req' \in [Worker -> Request \union {Idle}] /\ snap' \in [Worker -> Row]
    BY NewRowType DEF OrderTypeOK, WriteOrder, Leave
  <2>3. ASSUME NEW v \in Worker
        PROVE  req'[v] # Idle => Fits(req'[v], snap'[v])
    BY DEF OrderTypeOK, WriteOrder, Leave
  <2>4. QED
    BY <2>1, <2>2, <2>3 DEF OrderTypeOK
<1>2. row'[o] = new /\ \A p \in Order \ {o} : row'[p] = row[p]
  BY <1>0 DEF OrderTypeOK, WriteOrder
<1>3. ASSUME NEW v \in Worker, req'[v] # Idle
      PROVE  /\ v # w /\ req'[v] = req[v] /\ snap'[v] = snap[v] /\ req[v].order \in Order
             /\ ~stale'[v] => ~stale[v] /\ req[v].order # o
  <2>1. v # w /\ req'[v] = req[v] /\ snap'[v] = snap[v]
    BY <1>3 DEF OrderTypeOK, WriteOrder, Leave
  <2>2. req[v] \in Request
    BY <1>3, <2>1 DEF OrderTypeOK
  <2>3. ~stale'[v] => ~stale[v] /\ req[v].order # o
    BY <1>3, <2>1 DEF WriteOrder
  <2> QED BY <2>1, <2>2, <2>3 DEF Request
<1> HIDE DEF o
<1>4. SnapshotCurrent'
  <2> SUFFICES ASSUME NEW v \in Worker, req'[v] # Idle, ~stale'[v]
               PROVE  snap'[v] = row'[req'[v].order]
    BY DEF SnapshotCurrent
  <2>1. req'[v] = req[v] /\ snap'[v] = snap[v] /\ ~stale[v] /\ req[v].order \in Order \ {o}
    BY <1>3
  <2> QED BY <1>2, <2>1 DEF SnapshotCurrent
<1>5. PaymentsStay'
  <2> SUFFICES ASSUME NEW v \in Worker, req'[v] # Idle, NEW i \in DOMAIN snap'[v].payments
               PROVE  /\ i \in DOMAIN row'[req'[v].order].payments
                      /\ row'[req'[v].order].payments[i] = snap'[v].payments[i]
    BY DEF PaymentsStay
  <2>1. req'[v] = req[v] /\ snap'[v] = snap[v] /\ req[v].order \in Order /\ req[v] # Idle
    BY <1>3
  <2>2. /\ i \in DOMAIN row[req[v].order].payments
        /\ row[req[v].order].payments[i] = snap[v].payments[i]
    BY <2>1 DEF PaymentsStay
  <2>3. CASE req[v].order # o
    BY <1>2, <2>1, <2>2, <2>3
  <2>4. CASE req[v].order = o
    <3>1. i \in DOMAIN new.payments /\ new.payments[i] = row[o].payments[i]
      BY <1>0, <2>2, <2>4, LandedPayments
    <3> QED BY <1>2, <2>1, <2>2, <2>4, <3>1
  <2> QED BY <2>3, <2>4
<1>6. FinalIsBalanced'
  BY <1>0, <1>2 DEF FinalIsBalanced, Lands
<1>7. OneTenderPerKey'
  <2>1. \A i, j \in DOMAIN new.payments :
          new.payments[i].key = new.payments[j].key /\ new.payments[i].key # NoKey => i = j
    BY <1>0, LandedKeys DEF OneTenderPerKey
  <2>2. ASSUME NEW p \in Order, NEW i \in DOMAIN row'[p].payments, NEW j \in DOMAIN row'[p].payments,
               row'[p].payments[i].key = row'[p].payments[j].key, row'[p].payments[i].key # NoKey
        PROVE  i = j
    <3>1. CASE p = o
      BY <1>2, <2>1, <2>2, <3>1
    <3>2. CASE p # o
      BY <1>2, <2>2, <3>2 DEF OneTenderPerKey
    <3> QED BY <3>1, <3>2
  <2> QED BY <2>2 DEF OneTenderPerKey
<1>8. PaymentsAddUp'
  <2>1. new.tendered = AmountOf(new.payments)
    BY <1>0, LandedSum DEF PaymentsAddUp
  <2>2. /\ new.amount_paid \in {0, new.tendered}
        /\ new.state = "paid" => new.amount_paid = new.tendered
    BY DEF Lands
  <2> QED BY <1>2, <2>1, <2>2 DEF PaymentsAddUp
<1>9. QED
  BY <1>1, <1>4, <1>5, <1>6, <1>7, <1>8

(***************************************************************************)
(* Each handler either changes no row or commits one that Follows its      *)
(* snapshot                                                                *)
(***************************************************************************)
Settles(w) == /\ req[w] # Idle /\ ~stale[w]
              /\ \E new : Follows(snap[w], req[w].key, new) /\ WriteOrder(w, new)

\* The snapshot of a busy worker is a row that its request fits, and what is so
\* of the committed rows is so of one that is up to date.
LEMMA SnapRow ==
  ASSUME OrderInv, NEW w \in Worker, req[w] # Idle
  PROVE  /\ req[w] \in Request /\ req[w].key \in Key \union {NoKey}
         /\ snap[w] \in Row /\ Fits(req[w], snap[w])
         /\ ~stale[w] => /\ snap[w].state = "draft" => Open(snap[w])
                         /\ snap[w].amount_paid \in {0, snap[w].tendered}
                         /\ snap[w].state = "paid" =>
                              /\ snap[w].tendered - snap[w].total \in Tolerated
                              /\ snap[w].amount_paid = snap[w].tendered
                         /\ snap[w].announced => snap[w].state = "paid"
<1>1. req[w] \in Request /\ snap[w] \in Row /\ Fits(req[w], snap[w])
  BY DEF OrderInv, OrderTypeOK
<1>2. req[w].order \in Order /\ req[w].key \in Key \union {NoKey}
  BY <1>1 DEF Request
<1>3. ~stale[w] => snap[w] = row[req[w].order]
  BY DEF OrderInv, SnapshotCurrent
<1>4. ~stale[w] => /\ snap[w].amount_paid \in {0, snap[w].tendered}
                   /\ snap[w].state = "paid" =>
                        /\ snap[w].tendered - snap[w].total \in Tolerated
                        /\ snap[w].amount_paid = snap[w].tendered
                   /\ snap[w].announced => snap[w].state = "paid"
  BY <1>2, <1>3 DEF OrderInv, FinalIsBalanced, PaymentsAddUp
<1> QED BY <1>1, <1>2, <1>4 DEF Open

\* A handler that commits such a row settles its order.
LEMMA CommitSettles ==
  ASSUME NEW w \in Worker, req[w] # Idle, NEW new, Commit(w, new),
         ~stale[w] => Follows(snap[w], req[w].key, new)
  PROVE  Reply(w) \/ Settles(w)
BY DEF Commit, WriteOrder, Settles

\* A change of price alone follows any open row.
LEMMA RepricedFollows ==
  ASSUME NEW r, Open(r), NEW k, NEW d \in Int, r.total + d >= 0
  PROVE  Follows(r, k, Repriced(r, d)) /\ Follows(r, k, Unpaid(Repriced(r, d)))
<1> DEFINE p == Repriced(r, d)
           u == Unpaid(p)
<1>0. r \in Row /\ r.state = "draft" /\ ~r.announced /\ r.amount_paid \in {0, r.tendered}
  BY DEF Open
<1>1. /\ p \in Row /\ p.total = r.total + d /\ p.tendered = r.tendered /\ p.payments = r.payments
      /\ p.state = r.state /\ p.announced = r.announced /\ p.amount_paid = r.amount_paid
  BY <1>0, RepricedRow
<1> HIDE DEF p
<1>2. /\ u \in Row /\ u.total = p.total /\ u.tendered = p.tendered /\ u.payments = p.payments
      /\ u.state = p.state /\ u.announced = p.announced /\ u.amount_paid = 0
  BY <1>1, UnpaidRow
<1> HIDE DEF u
<1>3. TakesOne(r, k, p) /\ TakesOne(r, k, u)
  BY <1>1, <1>2 DEF TakesOne
<1>4. Follows(r, k, p)
  BY <1>0, <1>1, <1>3 DEF Follows, Lands, Row
<1>5. Follows(r, k, u)
  BY <1>0, <1>1, <1>2, <1>3 DEF Follows, Lands, Row
<1> QED BY <1>4, <1>5 DEF p, u

\* orders/pay, rejected, settles its order.
LEMMA PayRejectedSettles ==
  ASSUME OrderInv, NEW w \in Worker, PayRejected(w)
  PROVE  Reply(w) \/ Settles(w)
<1>1. req[w] # Idle /\ req[w].op = "orders/pay" /\ snap[w].state = "draft"
  BY DEF PayRejected, Serving, AlreadyPaid
<1>2. -req[w].extra \in Int /\ snap[w].total + (-req[w].extra) >= 0
  BY <1>1, SnapRow DEF Fits, Request, Row
<1>3. ~stale[w] => Follows(snap[w], req[w].key, Repriced(snap[w], -req[w].extra))
  BY <1>1, <1>2, SnapRow, RepricedFollows
<1> QED BY <1>1, <1>3, CommitSettles DEF PayRejected

\* A row that follows a repriced one follows the one before.
LEMMA FollowsThrough ==
  ASSUME NEW r \in Row, NEW k, NEW q, NEW new, Follows(q, k, new),
         q.payments = r.payments, q.tendered = r.tendered, q.state = r.state
  PROVE  Follows(r, k, new)
<1>1. TakesOne(r, k, new)
  BY SamePayments DEF Follows, Lands
<1> QED BY <1>1 DEF Follows, Lands

\* orders/pay, accepted, settles its order.
LEMMA PayAcceptedSettles ==
  ASSUME OrderInv, NEW w \in Worker, PayAccepted(w)
  PROVE  Reply(w) \/ Settles(w)
<1> DEFINE q == req[w]
           r == Repriced(snap[w], -q.extra)
           t == TenderOf(r, q)
<1>1. q # Idle /\ q.op = "orders/pay" /\ snap[w].state = "draft" /\ ~HasKey(snap[w], q.key)
  BY DEF PayAccepted, Serving, AlreadyPaid
<1>2. q \in Request /\ snap[w] \in Row /\ Fits(q, snap[w]) /\ q.key \in Key \union {NoKey}
  BY <1>1, SnapRow
<1>3. /\ r \in Row /\ r.tendered = snap[w].tendered /\ r.payments = snap[w].payments
      /\ r.state = "draft" /\ r.announced = snap[w].announced
  <2>1. -q.extra \in Int /\ snap[w].total + (-q.extra) >= 0
    BY <1>1, <1>2 DEF Fits, Request, Row
  <2>2. QED
    BY <1>1, <1>2, <2>1, RepricedRow
<1>4. TenderAllowed(r, t)
  BY DEF PayAccepted
<1>5. PICK new \in Finalised(AddPayment(r, q.key, t, "orders/pay")) : Commit(w, new)
  BY DEF PayAccepted
<1> HIDE DEF r
<1>6. t \in Nat
  BY <1>2, <1>3, <1>4 DEF TenderOf, Remaining, TenderAllowed, Request, Row
<1>7. ~HasKey(r, q.key)
  BY <1>1, <1>3 DEF HasKey
<1> HIDE DEF q, t
<1>8. ASSUME ~stale[w]
      PROVE  Follows(snap[w], q.key, new)
  <2>1. ~r.announced
    BY <1>1, <1>3, <1>8, SnapRow DEF q, Open
  <2>2. "orders/pay" \in Op
    BY DEF Op
  <2>3. Follows(r, q.key, new)
    BY <1>2, <1>3, <1>4, <1>5, <1>6, <1>7, <2>1, <2>2, FinalisedRow
  <2> QED BY <1>1, <1>2, <1>3, <2>3, FollowsThrough
<1>9. QED
  BY <1>1, <1>5, <1>8, CommitSettles DEF q

\* qr/pay settles its order.
LEMMA QrPaySettles ==
  ASSUME OrderInv, NEW w \in Worker, QrPay(w)
  PROVE  Reply(w) \/ Settles(w)
<1> DEFINE r == Repriced(snap[w], req[w].extra)
           p == AddPayment(r, NoKey, r.total, "qr/pay")
           k == req[w].key
<1>1. req[w] # Idle /\ snap[w].state = "draft"
  BY DEF QrPay, Serving
<1>2. req[w] \in Request /\ snap[w] \in Row
  BY <1>1, SnapRow
<1>3. /\ r \in Row /\ r.tendered = snap[w].tendered /\ r.payments = snap[w].payments
      /\ r.state = "draft" /\ r.announced = snap[w].announced
  <2>1. req[w].extra \in Int /\ snap[w].total + req[w].extra >= 0
    BY <1>2 DEF Request, Row
  <2>2. QED
    BY <1>1, <1>2, <2>1, RepricedRow
<1>4. MayClose(p) /\ Commit(w, Closed(p))
  BY DEF QrPay, QrPaid
<1> HIDE DEF r
<1>5. /\ p \in Row /\ p.tendered = r.tendered + r.total /\ p.amount_paid = p.tendered
      /\ p.total = r.total /\ p.announced = r.announced /\ TakesOne(r, NoKey, p)
  <2>1. r.total \in Nat /\ NoKey \in Key \union {NoKey} /\ "qr/pay" \in Op
    BY <1>3 DEF Row, Op
  <2>2. ~HasKey(r, NoKey)
    BY DEF HasKey
  <2> QED BY <1>3, <2>1, <2>2, AddPaymentRow
<1> HIDE DEF p
<1>6. /\ Closed(p) \in Row /\ Closed(p).state = "paid" /\ Closed(p).payments = p.payments
      /\ Closed(p).tendered = p.tendered /\ Closed(p).total = p.total
      /\ Closed(p).amount_paid = p.amount_paid
  BY <1>5, ClosedRow
<1>7. TakesOne(snap[w], k, Closed(p))
  <2>1. TakesOne(snap[w], NoKey, Closed(p))
    BY <1>3, <1>5, <1>6, SamePayments
  <2> QED BY <2>1 DEF TakesOne
<1>8. Closed(p).tendered - Closed(p).total \in Tolerated
  BY <1>4, <1>5, <1>6 DEF MayClose
<1>9. Closed(p).tendered <= Closed(p).total + Eps
  BY <1>5, <1>6, <1>8, ToleratedEps DEF Row, Eps
<1>10. Follows(snap[w], k, Closed(p))
  BY <1>1, <1>5, <1>6, <1>7, <1>8, <1>9 DEF Follows, Lands
<1> QED BY <1>1, <1>4, <1>10, CommitSettles

\* orders/comp settles its order.
LEMMA CompSettles ==
  ASSUME OrderInv, NEW w \in Worker, Comp(w)
  PROVE  Reply(w) \/ Settles(w)
<1>1. req[w] # Idle /\ req[w].op = "orders/comp"
  BY DEF Comp, Serving
<1>2. -req[w].amount \in Int /\ snap[w].total + (-req[w].amount) >= 0
  BY <1>1, SnapRow DEF Fits, Request, Row
<1>3. snap[w].state = "draft" /\ ~stale[w]
        => Follows(snap[w], req[w].key, Repriced(snap[w], -req[w].amount))
  BY <1>1, <1>2, SnapRow, RepricedFollows
<1> QED BY <1>1, <1>3, CommitSettles DEF Comp

\* orders/fire settles its order.
LEMMA FireAppendSettles ==
  ASSUME OrderInv, NEW w \in Worker, FireAppend(w)
  PROVE  Reply(w) \/ Settles(w)
<1>1. req[w] # Idle
  BY DEF FireAppend, Serving
<1>2. req[w].amount \in Int /\ snap[w].total + req[w].amount >= 0
  BY <1>1, SnapRow DEF Request, Row
<1>3. snap[w].state = "draft" /\ ~stale[w]
        => Follows(snap[w], req[w].key, Unpaid(Repriced(snap[w], req[w].amount)))
  BY <1>1, <1>2, SnapRow, RepricedFollows
<1> QED BY <1>1, <1>3, CommitSettles DEF FireAppend

\* Every step of a handler replies or settles.
LEMMA StepSettles ==
  ASSUME OrderInv, NEW w \in Worker, OrderStep(w)
  PROVE  Reply(w) \/ Settles(w)
BY PayRejectedSettles, PayAcceptedSettles, QrPaySettles, CompSettles, FireAppendSettles
   DEF OrderStep, PayAnswered, QrPayRefused, Abort

\* A request the client can make is one the types allow.
LEMMA RequestType == \A q \in OrderRequests : q \in Request /\ Fits(q, row[q.order])
<1> SUFFICES ASSUME NEW q \in OrderRequests
             PROVE  q \in Request
  BY DEF OrderRequests
<1>1. /\ 0 \in Nat /\ 0 .. MaxAmount \subseteq Nat /\ 1 .. MaxAmount \subseteq Nat
      /\ 0 .. MaxExtra \subseteq Nat
  OBVIOUS
<1>2. QED
  BY <1>1 DEF OrderRequests, PayRequests, QrPayRequests, CompRequests, FireRequests,
              Request, Op

(***************************************************************************)
(* The theorems                                                            *)
(***************************************************************************)
\* The initial states satisfy the invariant.
LEMMA InitInv == OrderInit => OrderInv
<1> SUFFICES ASSUME OrderInit PROVE OrderInv
  OBVIOUS
<1>1. \A t \in OpeningTotal : /\ NewRow(t) \in Row /\ NewRow(t).state = "draft" /\ ~NewRow(t).announced
                              /\ NewRow(t).payments = <<>> /\ NewRow(t).tendered = 0
                              /\ NewRow(t).amount_paid = 0
  BY DEF NewRow, Row
<1>2. PICK t \in [Order -> OpeningTotal] : row = [o \in Order |-> NewRow(t[o])]
  BY DEF OrderInit
<1>3. \A o \in Order : /\ row[o] \in Row /\ row[o].state = "draft" /\ ~row[o].announced
                       /\ row[o].payments = <<>> /\ row[o].tendered = 0 /\ row[o].amount_paid = 0
  BY <1>1, <1>2
<1>4. OrderTypeOK
  BY <1>1, <1>2, NewRowType DEF OrderInit, OrderTypeOK
<1>5. SnapshotCurrent /\ PaymentsStay
  BY DEF OrderInit, SnapshotCurrent, PaymentsStay
<1>6. FinalIsBalanced /\ PaymentsAddUp
  BY <1>3, EmptyAmount DEF FinalIsBalanced, PaymentsAddUp
<1>7. OneTenderPerKey
  BY <1>3 DEF OneTenderPerKey
<1> QED BY <1>4, <1>5, <1>6, <1>7 DEF OrderInv

\* The invariant is inductive.
LEMMA NextInv == OrderInv /\ [OrderNext]_orderVars => OrderInv'
<1> SUFFICES ASSUME OrderInv, [OrderNext]_orderVars PROVE OrderInv'
  OBVIOUS
<1>1. ASSUME NEW w \in Worker, NEW q \in OrderRequests, Begin(w, q)
      PROVE  OrderInv'
  BY <1>1, RequestType, BeginKeeps
<1>2. ASSUME NEW w \in Worker, OrderStep(w)
      PROVE  OrderInv'
  BY <1>2, StepSettles, ReplyKeeps, WriteKeeps DEF Settles, Follows
<1>3. CASE UNCHANGED orderVars
  BY <1>3 DEF orderVars, OrderInv, OrderTypeOK, SnapshotCurrent, PaymentsStay,
              FinalIsBalanced, OneTenderPerKey, PaymentsAddUp
<1>4. QED
  BY <1>1, <1>2, <1>3 DEF OrderNext

\* The types hold; a transaction nobody overtook still sees the committed order,
\* and none ever saw a payment that is gone; an order is final only on a settled
\* balance; a client key takes at most one tender; the totals are the sums.
THEOREM OrderSafety ==
  OrderSpec => []( /\ OrderTypeOK /\ SnapshotCurrent /\ PaymentsStay
                   /\ FinalIsBalanced /\ OneTenderPerKey /\ PaymentsAddUp )
BY InitInv, NextInv, PTL DEF OrderSpec, OrderInv

\* Settling one order is a step of the ledger.
LEMMA SettlesRefines ==
  ASSUME OrderInv, NEW w \in Worker, Settles(w)
  PROVE  Ledger!Next
<1>1. PICK new : Follows(snap[w], req[w].key, new) /\ WriteOrder(w, new)
  BY DEF Settles
<1>2. PICK ord \in Order : ord = req[w].order
  BY DEF OrderInv, OrderTypeOK, Settles, Request
<1>3. /\ snap[w] = row[ord] /\ row \in [Order -> Row]
      /\ row' = [row EXCEPT ![ord] = new]
  BY <1>1, <1>2 DEF OrderInv, OrderTypeOK, SnapshotCurrent, Settles, WriteOrder
<1>4. /\ row'[ord] = new /\ new \in Row /\ row[ord] \in Row
      /\ \A p \in Order : p # ord => row'[p] = row[p]
  BY <1>1, <1>3 DEF Follows, Lands
<1>5. /\ row[ord].state = "draft" /\ new.total \in Nat /\ new.tendered \in Nat
      /\ new.tendered >= row[ord].tendered
      /\ new.tendered > row[ord].tendered => new.tendered <= new.total + Eps
      /\ new.state = "paid" => /\ new.total - new.tendered <= Eps
                               /\ new.tendered - new.total <= Eps
  <2>1. /\ row[ord].state = "draft" /\ new.total \in Nat /\ new.tendered \in Nat
        /\ new.tendered > row[ord].tendered => new.tendered <= new.total + Eps
    BY <1>1, <1>3, <1>4 DEF Follows, Lands, Row
  <2>2. new.tendered >= row[ord].tendered
    BY <1>1, <1>3, <1>4, TenderedGrows DEF Follows, Lands
  <2>3. new.state = "paid" => new.tendered - new.total \in -Eps .. Eps
    BY <1>1, ToleratedEps DEF Follows, Lands
  <2> QED BY <2>1, <2>2, <2>3 DEF Eps
<1>6. Ledger!Settle(ord)
  BY <1>3, <1>4, <1>5 DEF Ledger!Settle, Ledger!Balanced, Ledger!Eps, Eps
<1>7. QED
  BY <1>6 DEF Ledger!Next

\* Every step of the handlers is a step of the ledger or a stutter.
LEMMA StepRefines == OrderInv /\ [OrderNext]_orderVars => [Ledger!Next]_Ledger!vars
<1> SUFFICES ASSUME OrderInv, OrderNext, row' # row PROVE Ledger!Next
  BY DEF orderVars, Ledger!vars
<1>1. PICK w \in Worker : (\E q \in OrderRequests : Begin(w, q)) \/ OrderStep(w)
  BY DEF OrderNext
<1>2. OrderStep(w)
  BY <1>1 DEF Begin
<1>3. Settles(w)
  BY <1>2, StepSettles DEF Reply
<1>4. QED
  BY <1>3, SettlesRefines

\* The initial states are initial states of the ledger.
LEMMA InitRefines == OrderInit => Ledger!Init
<1> SUFFICES ASSUME OrderInit PROVE Ledger!Init
  OBVIOUS
<1>1. PICK t \in [Order -> OpeningTotal] : row = [o \in Order |-> NewRow(t[o])]
  BY DEF OrderInit
<1>2. QED
  BY <1>1 DEF Ledger!Init, NewRow

\* Whatever the workers interleave, no tender carries an order past what it
\* asks for (by more than one minor unit), and a final order never changes.
THEOREM OrderRefinesLedger == OrderSpec => ImplementsLedger
BY InitInv, NextInv, InitRefines, StepRefines, PTL DEF OrderSpec, ImplementsLedger, Ledger!Spec
=============================================================================
