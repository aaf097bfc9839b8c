------------------------ MODULE CustomerOrder_proofs ------------------------
(***************************************************************************)
(* Proofs about CustomerOrder: cash is taken once, nothing leaves unpaid,  *)
(* a delivery that is finished stays so, and the kitchen makes an order    *)
(* once; and about KdsBoard: no board shows what never was.                *)
(***************************************************************************)
EXTENDS CustomerOrder, KdsBoard, TLAPS, FiniteSetTheorems

(***************************************************************************)
(* The inductive invariant                                                 *)
(***************************************************************************)
CarRow == [kind : {"car"}, order : Order,
           state : {"preparing", "ready", "at_window", "cancelled", "collected"}]
States == {"placed", "accepted", "preparing", "ready", "assigned", "out_for_delivery",
           "delivered", "cancelled", "rejected"}
DeliveryRows == [kind : {"delivery"}, order : Order, courier : Courier \union {NoCourier},
                 collected : BOOLEAN, state : States, mode : {"cod", "prepaid"}]
Payment == [order : Order, state : {"pending", "done", "failed"}, linked : BOOLEAN]

\* A row of an order that was placed: what left, left paid, and what is
\* assigned has a courier.
GoodRow(x, st, ch) ==
  \/ x = Free
  \/ x \in CarRow /\ ch[x.order] # "none" /\ (x.state = "collected" => st[x.order] = "paid")
  \/ /\ x \in DeliveryRows /\ ch[x.order] # "none"
     /\ x.collected => st[x.order] = "paid"
     /\ x.state = "assigned" => x.courier # NoCourier

\* A transaction for an order that was placed, and paid if it was booked.
GoodTx(y, st, ch) ==
  y = NoTx \/ (y \in Payment /\ ch[y.order] # "none" /\ (y.linked => st[y.order] = "paid"))

RowsGood == DOMAIN row = Row /\ row = [r \in Row |-> row[r]]
            /\ \A r \in Row : GoodRow(row[r], status, channel)
TxGood == DOMAIN tx = Tx /\ tx = [x \in Tx |-> tx[x]]
          /\ \A x \in Tx : GoodTx(tx[x], status, channel)

BooksType == /\ channel \in [Order -> AllChannels \union {"none"}]
             /\ status \in [Order -> {"none", "draft", "paid"}]
             /\ cash \in [Order -> Nat] /\ card \in [Order -> Nat]

\* Status and payments agree, and an order has a channel before it has a status.
BooksAgree ==
  \A o \in Order : /\ cash[o] <= 1
                   /\ status[o] = "paid" <=> cash[o] + card[o] > 0
                   /\ channel[o] = "none" => status[o] = "none"
                   /\ status[o] # "none" \/ cash[o] + card[o] = 0

CustomerInv == BooksType /\ BooksAgree /\ RowsGood /\ TxGood

(***************************************************************************)
(* What a step may do to the orders, to one row and to one transaction     *)
(***************************************************************************)
PaidKept == \A o \in Order : /\ status[o] = "paid" => status'[o] = "paid"
                             /\ channel[o] # "none" => channel'[o] # "none"
RowStep == row' = row \/ \E r \in Row : \E x : GoodRow(x, status', channel') /\ row' = [row EXCEPT ![r] = x]
TxStep == tx' = tx \/ \E x \in Tx : \E y : GoodTx(y, status', channel') /\ tx' = [tx EXCEPT ![x] = y]

Shape == BooksType' /\ BooksAgree' /\ PaidKept /\ RowStep /\ TxStep

LEMMA RowsKept == ASSUME RowsGood, PaidKept, RowStep PROVE RowsGood'
<1>1. ASSUME NEW x, GoodRow(x, status, channel) PROVE GoodRow(x, status', channel')
  <2>1. CASE x = Free
    BY <2>1 DEF GoodRow
  <2>2. CASE x # Free
    <3>1. x.order \in Order
      BY <1>1, <2>2 DEF GoodRow, CarRow, DeliveryRows
    <3> QED BY <1>1, <3>1 DEF GoodRow, PaidKept
  <2> QED BY <2>1, <2>2
<1>2. CASE row' = row
  BY <1>1, <1>2 DEF RowsGood
<1>3. CASE \E r \in Row : \E x : GoodRow(x, status', channel') /\ row' = [row EXCEPT ![r] = x]
  <2>1. PICK r \in Row : \E x : GoodRow(x, status', channel') /\ row' = [row EXCEPT ![r] = x]
    BY <1>3
  <2>2. PICK x : GoodRow(x, status', channel') /\ row' = [row EXCEPT ![r] = x]
    BY <2>1
  <2>3. row' = [s \in Row |-> IF s = r THEN x ELSE row[s]]
    BY <2>2 DEF RowsGood
  <2> QED BY <1>1, <2>2, <2>3 DEF RowsGood
<1> QED BY <1>2, <1>3 DEF RowStep

LEMMA TxKept == ASSUME TxGood, PaidKept, TxStep PROVE TxGood'
<1>1. ASSUME NEW y, GoodTx(y, status, channel) PROVE GoodTx(y, status', channel')
  <2>1. CASE y = NoTx
    BY <2>1 DEF GoodTx
  <2>2. CASE y # NoTx
    <3>1. y.order \in Order
      BY <1>1, <2>2 DEF GoodTx, Payment
    <3> QED BY <1>1, <3>1 DEF GoodTx, PaidKept
  <2> QED BY <2>1, <2>2
<1>2. CASE tx' = tx
  BY <1>1, <1>2 DEF TxGood
<1>3. CASE \E x \in Tx : \E y : GoodTx(y, status', channel') /\ tx' = [tx EXCEPT ![x] = y]
  <2>1. PICK x \in Tx : \E y : GoodTx(y, status', channel') /\ tx' = [tx EXCEPT ![x] = y]
    BY <1>3
  <2>2. PICK y : GoodTx(y, status', channel') /\ tx' = [tx EXCEPT ![x] = y]
    BY <2>1
  <2>3. tx' = [z \in Tx |-> IF z = x THEN y ELSE tx[z]]
    BY <2>2 DEF TxGood
  <2> QED BY <1>1, <2>2, <2>3 DEF TxGood
<1> QED BY <1>2, <1>3 DEF TxStep

LEMMA ShapeKeeps == CustomerInv /\ Shape => CustomerInv'
BY RowsKept, TxKept DEF CustomerInv, Shape

LEMMA Untouched == ASSUME CustomerInv, UNCHANGED <<channel, status, cash, card>>
                   PROVE BooksType' /\ BooksAgree' /\ PaidKept
BY DEF CustomerInv, BooksType, BooksAgree, PaidKept

LEMMA CustomerInitInv == CustomerInit => CustomerInv
BY DEF CustomerInit, CustomerInv, BooksType, BooksAgree, RowsGood, TxGood, GoodRow, GoodTx, Free, NoTx

(***************************************************************************)
(* Orders are placed                                                       *)
(***************************************************************************)
LEMMA TryType == ASSUME CustomerInv, NEW o \in Order, NEW ch, Try(o, ch)
                 PROVE  /\ channel' \in [Order -> AllChannels \union {"none"}]
                        /\ channel'[o] = ch /\ ch # "none"
                        /\ \A q \in Order : channel'[q] = IF q = o THEN ch ELSE channel[q]
BY CustomerAssumption DEF CustomerInv, BooksType, Try, AllChannels

\* An order in hand gets a status; what is placed as paid has its cash.
LEMMA Placed ==
  ASSUME CustomerInv, NEW o \in Order, NEW ch, Try(o, ch), card' = card,
         \/ /\ status' = [status EXCEPT ![o] = IF @ = "none" THEN "draft" ELSE @]
            /\ cash' = cash
         \/ UNCHANGED <<status, cash>>
         \/ /\ status[o] = "none"
            /\ status' = [status EXCEPT ![o] = "paid"] /\ cash' = [cash EXCEPT ![o] = @ + 1]
         \/ /\ status[o] = "none" /\ cash' = cash
            /\ status' = [status EXCEPT ![o] = "draft"]
  PROVE  BooksType' /\ BooksAgree' /\ PaidKept
<1>1. BooksType'
  BY TryType DEF CustomerInv, BooksType
<1>2. PaidKept
  BY TryType DEF CustomerInv, BooksType, PaidKept
<1>3. BooksAgree'
  BY TryType DEF CustomerInv, BooksType, BooksAgree
<1> QED BY <1>1, <1>2, <1>3

LEMMA NewRowStep ==
  ASSUME CustomerInv, NEW r \in Row, NEW x, GoodRow(x, status', channel'), NewRow(r, x)
  PROVE  RowStep
BY DEF NewRow, RowStep

LEMMA NewDelivery ==
  ASSUME NEW o \in Order, NEW ch, NEW st, NEW chs, chs[o] # "none"
  PROVE  GoodRow(DeliveryRow(o, ch), st, chs)
BY DEF GoodRow, DeliveryRow, DeliveryRows, States

LEMMA PickupShape == ASSUME CustomerInv, NEW o \in Order, PlacePickup(o) PROVE Shape
<1>1. PICK ch : Try(o, ch)
  BY DEF PlacePickup
<1>2. BooksType' /\ BooksAgree' /\ PaidKept
  BY <1>1, Placed DEF PlacePickup, FireDraft
<1> QED BY <1>2 DEF PlacePickup, Shape, RowStep, TxStep

LEMMA CarShape == ASSUME CustomerInv, NEW o \in Order, NEW r \in Row, PlaceCar(o, r) PROVE Shape
<1>1. BooksType' /\ BooksAgree' /\ PaidKept
  BY Placed DEF PlaceCar, FireDraft
<1>2. GoodRow([kind |-> "car", order |-> o, state |-> "preparing"], status', channel')
  BY TryType DEF PlaceCar, GoodRow, CarRow
<1>3. RowStep
  BY <1>2, NewRowStep DEF PlaceCar
<1> QED BY <1>1, <1>3 DEF PlaceCar, Shape, TxStep

LEMMA DeliveryShape ==
  ASSUME CustomerInv, NEW o \in Order, NEW ch, PlaceDelivery(o, ch) PROVE Shape
<1>1. BooksType' /\ BooksAgree' /\ PaidKept
  <2>1. CASE status[o] # "none"
    BY <2>1, Placed DEF PlaceDelivery
  <2>2. CASE status[o] = "none" /\ ch = "shop_cod"
    BY <2>2, Placed DEF PlaceDelivery
  <2>3. CASE status[o] = "none" /\ ch # "shop_cod"
    BY <2>3, Placed DEF PlaceDelivery
  <2> QED BY <2>1, <2>2, <2>3
<1>2. RowStep
  BY TryType, NewDelivery, NewRowStep DEF PlaceDelivery, RowStep
<1> QED BY <1>1, <1>2 DEF PlaceDelivery, Shape, TxStep

LEMMA CheckoutShape ==
  ASSUME CustomerInv, NEW o \in Order, NEW ch, Checkout(o, ch) PROVE Shape
<1>1. status[o] = "none"
  BY DEF Checkout, CustomerInv, BooksAgree
<1>2. BooksType' /\ BooksAgree' /\ PaidKept
  BY <1>1, Placed DEF Checkout
<1>3. RowStep
  BY TryType, NewDelivery, NewRowStep DEF Checkout, RowStep
<1> QED BY <1>2, <1>3 DEF Checkout, Shape, TxStep

LEMMA RejectIngestShape == ASSUME CustomerInv, NEW o \in Order, RejectIngest(o) PROVE Shape
<1>1. BooksType' /\ BooksAgree' /\ PaidKept
  BY Placed DEF RejectIngest
<1> QED BY <1>1 DEF RejectIngest, Shape, RowStep, TxStep

LEMMA IngestShape == ASSUME CustomerInv, NEW o \in Order, Ingest(o) PROVE Shape
<1>1. BooksType' /\ PaidKept
  BY TryType DEF Ingest, CustomerInv, BooksType, PaidKept
<1>2. BooksAgree'
  BY TryType DEF Ingest, CustomerInv, BooksType, BooksAgree
<1>3. RowStep
  BY TryType, NewDelivery, NewRowStep DEF Ingest, RowStep
<1> QED BY <1>1, <1>2, <1>3 DEF Ingest, Shape, TxStep

(***************************************************************************)
(* Money                                                                   *)
(***************************************************************************)
LEMMA CashTaken ==
  ASSUME CustomerInv, NEW o \in Order, TakeCash(o), cash[o] + card[o] = 0,
         UNCHANGED <<channel, card>>, channel[o] # "none"
  PROVE  BooksType' /\ BooksAgree' /\ PaidKept /\ status'[o] = "paid"
<1>1. BooksType' /\ PaidKept /\ status'[o] = "paid"
  BY DEF TakeCash, CustomerInv, BooksType, PaidKept
<1>2. cash[o] = 0
  BY DEF CustomerInv, BooksType
<1>3. BooksAgree'
  BY <1>2 DEF TakeCash, CustomerInv, BooksType, BooksAgree
<1> QED BY <1>1, <1>3

LEMMA CounterShape == ASSUME CustomerInv, NEW o \in Order, CounterPay(o) PROVE Shape
<1>1. cash[o] + card[o] = 0 /\ channel[o] # "none"
  BY DEF CounterPay, CustomerInv, BooksAgree, BooksType
<1>2. BooksType' /\ BooksAgree' /\ PaidKept
  BY <1>1, CashTaken DEF CounterPay, moneyFrame
<1> QED BY <1>2 DEF CounterPay, Shape, RowStep, TxStep


LEMMA CollectShape == ASSUME CustomerInv, NEW r \in Row, CollectCod(r) PROVE Shape
<1> DEFINE x == [row[r] EXCEPT !.collected = TRUE]
           o == row[r].order
<1>1. row[r] \in DeliveryRows /\ o \in Order /\ channel[o] # "none"
  BY DEF CollectCod, CustomerInv, RowsGood, GoodRow, Free, CarRow, DeliveryRows
<1>2. x \in DeliveryRows /\ x.order = o /\ x.state = row[r].state /\ x.courier = row[r].courier
  BY <1>1 DEF DeliveryRows
<1>3. x.state = "assigned" => x.courier # NoCourier
  BY <1>1, <1>2 DEF CustomerInv, RowsGood, GoodRow, Free, CarRow, DeliveryRows
<1>4. channel' = channel /\ card' = card /\ row' = [row EXCEPT ![r] = x]
  BY DEF CollectCod, moneyFrame
<1> HIDE DEF x, o
<1>5. CASE Due(o) > 0
  <2>1. TakeCash(o)
    BY <1>5 DEF CollectCod, o
  <2>2. cash[o] + card[o] = 0
    BY <1>1, <1>5 DEF Due, CustomerInv, BooksType
  <2>3. BooksType' /\ BooksAgree' /\ PaidKept /\ status'[o] = "paid"
    BY <1>1, <1>4, <2>1, <2>2, CashTaken
  <2>4. GoodRow(x, status', channel')
    BY <1>1, <1>2, <1>3, <1>4, <2>3 DEF GoodRow
  <2> QED BY <1>4, <2>3, <2>4 DEF Shape, RowStep, TxStep, CollectCod
<1>6. CASE ~(Due(o) > 0)
  <2>1. UNCHANGED <<cash, status>>
    BY <1>6 DEF CollectCod, o
  <2>2. status[o] = "paid"
    BY <1>1, <1>6 DEF Due, CustomerInv, BooksType, BooksAgree
  <2>3. BooksType' /\ BooksAgree' /\ PaidKept
    BY <1>4, <2>1, Untouched
  <2>4. GoodRow(x, status', channel')
    BY <1>1, <1>2, <1>3, <1>4, <2>1, <2>2 DEF GoodRow
  <2> QED BY <1>4, <2>3, <2>4 DEF Shape, RowStep, TxStep, CollectCod
<1> QED BY <1>5, <1>6

LEMMA PageShape == ASSUME CustomerInv, NEW o \in Order, NEW x \in Tx, OpenPage(o, x) PROVE Shape
<1>1. BooksType' /\ BooksAgree' /\ PaidKept
  BY Untouched DEF OpenPage, moneyFrame
<1>2. GoodTx([order |-> o, state |-> "pending", linked |-> FALSE], status', channel')
  BY DEF OpenPage, GoodTx, Payment, Online, moneyFrame
<1> QED BY <1>1, <1>2 DEF OpenPage, Shape, RowStep, TxStep

LEMMA ProviderShape == ASSUME CustomerInv, NEW x \in Tx, Provider(x) PROVE Shape
<1>1. BooksType' /\ BooksAgree' /\ PaidKept
  BY Untouched DEF Provider, moneyFrame
<1>2. PICK s \in {"done", "failed"} : tx' = [tx EXCEPT ![x] = [tx[x] EXCEPT !.state = s]]
  BY DEF Provider
<1>3. tx[x] \in Payment /\ GoodTx(tx[x], status, channel)
  BY DEF Provider, CustomerInv, TxGood, GoodTx, NoTx
<1>4. GoodTx([tx[x] EXCEPT !.state = s], status', channel')
  <2> DEFINE y == [tx[x] EXCEPT !.state = s]
  <2>1. y \in Payment /\ y.order = tx[x].order /\ y.linked = tx[x].linked
    BY <1>3 DEF Payment
  <2>2. status' = status /\ channel' = channel
    BY DEF Provider, moneyFrame
  <2>3. tx[x] # NoTx
    BY <1>3 DEF NoTx, Payment
  <2> HIDE DEF y
  <2>4. GoodTx(y, status', channel')
    BY <1>3, <2>1, <2>2, <2>3 DEF GoodTx
  <2> QED BY <2>4 DEF y
<1> QED BY <1>1, <1>2, <1>4 DEF Provider, Shape, RowStep, TxStep

LEMMA ProcessShape == ASSUME CustomerInv, NEW x \in Tx, Process(x) PROVE Shape
<1> DEFINE o == tx[x].order
           y == [tx[x] EXCEPT !.linked = TRUE]
<1>1. tx[x] \in Payment /\ tx[x] # NoTx /\ o \in Order /\ channel[o] # "none"
      /\ (tx[x].linked => status[o] = "paid")
  BY DEF Process, CustomerInv, TxGood, GoodTx, NoTx, Payment
<1>2. y \in Payment /\ y.order = o
  BY <1>1 DEF Payment
<1>3. /\ channel' = channel /\ cash' = cash /\ row' = row
      /\ status' = [status EXCEPT ![o] = "paid"] /\ tx' = [tx EXCEPT ![x] = y]
      /\ card' = IF tx[x].linked THEN card ELSE [card EXCEPT ![o] = @ + 1]
  BY DEF Process, moneyFrame
<1> HIDE DEF o, y
<1>4. BooksType' /\ PaidKept /\ status'[o] = "paid"
  BY <1>1, <1>3 DEF CustomerInv, BooksType, PaidKept
<1>5. BooksAgree'
  <2>1. CASE tx[x].linked
    BY <1>1, <1>3, <2>1 DEF CustomerInv, BooksType, BooksAgree
  <2>2. CASE ~tx[x].linked
    BY <1>1, <1>3, <2>2 DEF CustomerInv, BooksType, BooksAgree
  <2> QED BY <2>1, <2>2
<1>6. GoodTx(y, status', channel')
  BY <1>1, <1>2, <1>3, <1>4 DEF GoodTx
<1> QED BY <1>3, <1>4, <1>5, <1>6 DEF Shape, RowStep, TxStep

(***************************************************************************)
(* Deliveries and cars                                                     *)
(***************************************************************************)
LEMMA LegalStates == \A s \in States : \A act : NextState(s, act) \subseteq States
BY DEF NextState, Legal, States

LEMMA Unassigned == "assigned" \notin NextState("assigned", "unassign")
<1>1. \E l \in Legal : l[1] = "assigned" /\ l[2] = "unassign"
  BY <<"assigned", "unassign", "ready">> \in Legal DEF Legal
<1>2. \A l \in Legal : l[1] = "assigned" /\ l[2] = "unassign" => l[3] = "ready"
  BY DEF Legal
<1> QED BY <1>1, <1>2 DEF NextState

\* The two changes _transition makes, field by field.
MovedTo(x, s, c) == [[x EXCEPT !.state = s] EXCEPT !.courier = c]

LEMMA MovedRow ==
  ASSUME NEW x \in DeliveryRows, NEW s \in States, NEW c \in Courier \union {NoCourier}
  PROVE  /\ MovedTo(x, s, c) \in DeliveryRows
         /\ MovedTo(x, s, c).order = x.order
         /\ MovedTo(x, s, c).collected = x.collected
         /\ MovedTo(x, s, c).state = s /\ MovedTo(x, s, c).courier = c
<1> DEFINE z == [x EXCEPT !.state = s]
           y == [z EXCEPT !.courier = c]
<1>1. z \in DeliveryRows /\ z.order = x.order /\ z.collected = x.collected /\ z.state = s
  BY DEF DeliveryRows
<1> HIDE DEF z
<1>2. y \in DeliveryRows /\ y.order = z.order /\ y.collected = z.collected
      /\ y.state = z.state /\ y.courier = c
  BY <1>1 DEF DeliveryRows
<1> QED BY <1>1, <1>2 DEF z, MovedTo

LEMMA TransitionShape ==
  ASSUME CustomerInv, NEW r \in Row, NEW act \in Actions, NEW c \in Courier,
         row[r].kind = "delivery", Transition(r, act, c)
  PROVE  Shape /\ (row[r].state \in Finished => row'[r].state = row[r].state) /\ row'[r] # Free
               /\ \A q \in Row \ {r} : row'[q] = row[q]
<1> DEFINE x == row[r]
<1>1. x \in DeliveryRows /\ GoodRow(x, status, channel) /\ x # Free
  BY DEF CustomerInv, RowsGood, GoodRow, CarRow, DeliveryRows, Free
<1>2. PICK s \in NextState(x.state, act) :
        row' = [row EXCEPT ![r] = [[x EXCEPT !.state = s] EXCEPT !.courier = CourierAfter(r, act, c)]]
  BY DEF Transition
<1>3. s \in States /\ x.state \in States
  BY <1>1, LegalStates DEF DeliveryRows
<1> DEFINE k == CourierAfter(r, act, c)
           y == MovedTo(x, s, k)
<1>4. k \in Courier \union {NoCourier}
  BY <1>1 DEF CourierAfter, DeliveryRows
<1>5. s = "assigned" => k # NoCourier
  <2>1. CASE act = "assign"
    BY <2>1, CustomerAssumption DEF CourierAfter
  <2>2. CASE act = "unassign"
    <3>1. x.state # "assigned" => s # "assigned"
      BY <2>2, <1>2, <1>3 DEF NextState, Legal, States
    <3>2. x.state = "assigned" => s # "assigned"
      BY <2>2, <1>2, Unassigned
    <3> QED BY <3>1, <3>2
  <2>3. CASE act # "assign" /\ act # "unassign"
    <3>1. s = "assigned" => x.state = "assigned"
      BY <2>3, <1>2, <1>3 DEF NextState, Legal, States
    <3>2. k = x.courier
      BY <2>3 DEF CourierAfter
    <3>3. x.state = "assigned" => x.courier # NoCourier
      BY <1>1 DEF GoodRow, CarRow, DeliveryRows, Free
    <3> QED BY <3>1, <3>2, <3>3
  <2> QED BY <2>1, <2>2, <2>3
<1>6. x.state \in Finished => s = x.state
  BY <1>2 DEF NextState, Legal, Finished
<1> HIDE DEF k
<1>7. y \in DeliveryRows /\ y.order = x.order /\ y.collected = x.collected
      /\ y.state = s /\ y.courier = k
  BY <1>1, <1>3, <1>4, MovedRow
<1> HIDE DEF y
<1>8. row' = [row EXCEPT ![r] = y]
  BY <1>2 DEF y, k, MovedTo
<1>9. row'[r] = y /\ \A q \in Row \ {r} : row'[q] = row[q]
  BY <1>8 DEF CustomerInv, RowsGood
<1>10. UNCHANGED <<channel, status, cash, card, tx>>
  BY DEF Transition
<1>11. x \notin CarRow
  BY <1>1 DEF CarRow, DeliveryRows
<1> HIDE DEF x
<1>12. x.collected => status[x.order] = "paid"
  BY <1>1, <1>11 DEF GoodRow
<1>13. channel[x.order] # "none"
  BY <1>1 DEF GoodRow
<1>14. GoodRow(y, status', channel')
  BY <1>5, <1>7, <1>10, <1>12, <1>13 DEF GoodRow
<1>15. BooksType' /\ BooksAgree' /\ PaidKept
  BY <1>10, Untouched
<1>16. y # Free
  BY <1>7 DEF DeliveryRows, Free
<1> QED BY <1>6, <1>7, <1>8, <1>9, <1>10, <1>16, <1>14, <1>15 DEF Shape, RowStep, TxStep, x

LEMMA CarToShape ==
  ASSUME CustomerInv, NEW r \in Row, row[r].kind = "car",
         NEW s \in {"ready", "at_window", "cancelled", "collected"}, CarTo(r, s),
         s = "collected" => MayCollect(r)
  PROVE  Shape /\ \A q \in Row \ {r} : row'[q] = row[q]
<1> DEFINE x == row[r]
           y == [x EXCEPT !.state = s]
<1>1. x \in CarRow /\ channel[x.order] # "none"
  BY DEF CustomerInv, RowsGood, GoodRow, CarRow, DeliveryRows, Free
<1>2. y \in CarRow /\ y.order = x.order /\ y.state = s
  BY <1>1 DEF CarRow
<1>3. UNCHANGED <<channel, status, cash, card, tx>> /\ row' = [row EXCEPT ![r] = y]
  BY DEF CarTo
<1>4. s = "collected" => status[x.order] = "paid"
  BY DEF MayCollect
<1> HIDE DEF x, y
<1>5. GoodRow(y, status', channel')
  BY <1>1, <1>2, <1>3, <1>4 DEF GoodRow
<1>6. BooksType' /\ BooksAgree' /\ PaidKept
  BY <1>3, Untouched
<1>7. \A q \in Row \ {r} : row'[q] = row[q]
  BY <1>3 DEF CustomerInv, RowsGood
<1> QED BY <1>3, <1>5, <1>6, <1>7 DEF Shape, RowStep, TxStep

(***************************************************************************)
(* Every step                                                              *)
(***************************************************************************)
LEMMA QuietShape ==
  ASSUME CustomerInv, UNCHANGED <<channel, status, cash, card, row, tx>> PROVE Shape
BY Untouched DEF Shape, RowStep, TxStep

LEMMA NextShape == CustomerInv /\ [CustomerNext]_customerVars => Shape
<1> SUFFICES ASSUME CustomerInv, [CustomerNext]_customerVars PROVE Shape
  OBVIOUS
<1>1. CASE UNCHANGED customerVars
  BY <1>1, QuietShape DEF customerVars
<1>2. ASSUME NEW o \in Order, PlacePickup(o) \/ CounterPay(o) \/ RejectIngest(o) \/ Ingest(o)
      PROVE Shape
  BY <1>2, PickupShape, CounterShape, RejectIngestShape, IngestShape
<1>3. ASSUME NEW o \in Order, KitchenDone(o) \/ CancelIngest(o) PROVE Shape
  BY <1>3, QuietShape DEF KitchenDone, CancelIngest
<1>4. ASSUME NEW o \in Order, NEW r \in Row, PlaceCar(o, r) PROVE Shape
  BY <1>4, CarShape
<1>5. ASSUME NEW o \in Order, NEW ch \in Channels, PlaceDelivery(o, ch) \/ Checkout(o, ch) PROVE Shape
  BY <1>5, DeliveryShape, CheckoutShape
<1>6. ASSUME NEW o \in Order, NEW x \in Tx, OpenPage(o, x) PROVE Shape
  BY <1>6, PageShape
<1>7. ASSUME NEW x \in Tx, Provider(x) \/ Process(x) PROVE Shape
  BY <1>7, ProviderShape, ProcessShape
<1>8. ASSUME NEW r \in Row, CollectCod(r) PROVE Shape
  BY <1>8, CollectShape
<1>9. ASSUME NEW r \in Row, DeliveryState(r) \/ ManagerState(r) PROVE Shape
  BY <1>9, TransitionShape DEF DeliveryState, ManagerState
<1>10. ASSUME NEW r \in Row, Board(r) \/ Stage(r) PROVE Shape
  BY <1>10, CarToShape DEF Board, Stage
<1>11. ASSUME NEW k, Pause(k) PROVE Shape
  BY <1>11, QuietShape DEF Pause
<1> QED
  BY <1>1, <1>2, <1>3, <1>4, <1>5, <1>6, <1>7, <1>8, <1>9, <1>10, <1>11 DEF CustomerNext

LEMMA CustomerNextInv == CustomerInv /\ [CustomerNext]_customerVars => CustomerInv'
BY NextShape, ShapeKeeps

LEMMA PaidFollows == CustomerInv => PaidOnce
<1> SUFFICES ASSUME CustomerInv, NEW o \in Order, NEW r \in Row, row[r].kind # "free", row[r].order = o
             PROVE  /\ row[r].kind = "car" /\ row[r].state = "collected" => status[o] = "paid"
                    /\ row[r].kind = "delivery" /\ row[r].collected => status[o] = "paid"
  BY DEF PaidOnce, CustomerInv, BooksAgree
<1> QED BY DEF CustomerInv, RowsGood, GoodRow, CarRow, DeliveryRows, Free

\* Whatever order of placing, paying at a till, a window, a door or a page, and
\* whatever retries, notifications and overrides: an order's cash is taken once,
\* its status says what was paid, and nothing leaves or is collected unpaid.
THEOREM CashSafety == CustomerSpec => []PaidOnce
<1>1. CustomerInit => CustomerInv
  BY CustomerInitInv
<1>2. CustomerInv /\ [CustomerNext]_customerVars => CustomerInv'
  BY CustomerNextInv
<1>3. CustomerInv => PaidOnce
  BY PaidFollows
<1> QED BY <1>1, <1>2, <1>3, PTL DEF CustomerSpec

(***************************************************************************)
(* What is finished                                                        *)
(***************************************************************************)
\* A step fills a free row, or changes one row and keeps it if it is finished.
FreshRow == \E r \in Row : row[r] = Free /\ \E x : row' = [row EXCEPT ![r] = x]
Finishes(r) == /\ row[r].kind = "delivery" => row'[r] # Free
               /\ row[r].kind = "delivery" /\ row[r].state \in Finished => row'[r].state = row[r].state
               /\ \A q \in Row \ {r} : row'[q] = row[q]

FinishedKept ==
  \A r \in Row : row[r].kind = "delivery" =>
    row'[r] # Free /\ (row[r].state \in Finished => row'[r].state = row[r].state)

LEMMA FreshKeeps == ASSUME CustomerInv, FreshRow PROVE FinishedKept
<1>1. PICK r \in Row : row[r] = Free /\ \E x : row' = [row EXCEPT ![r] = x]
  BY DEF FreshRow
<1>2. \A q \in Row \ {r} : row'[q] = row[q]
  BY <1>1 DEF CustomerInv, RowsGood
<1>3. \A q \in Row : row[q].kind = "delivery" => row[q] # Free
  BY DEF Free
<1>4. \A q \in Row : row[q].kind = "delivery" => row'[q] = row[q]
  BY <1>1, <1>2, <1>3
<1> QED BY <1>3, <1>4 DEF FinishedKept

LEMMA FinishesKeeps == ASSUME NEW r \in Row, Finishes(r) PROVE FinishedKept
<1>1. \A q \in Row : row[q].kind = "delivery" => row[q] # Free
  BY DEF Free
<1> QED BY <1>1 DEF Finishes, FinishedKept

LEMMA CollectKeeps == ASSUME CustomerInv, NEW r \in Row, CollectCod(r) PROVE Finishes(r)
<1>1. row[r] \in DeliveryRows
  BY DEF CollectCod, CustomerInv, RowsGood, GoodRow, Free, CarRow, DeliveryRows
<1>2. /\ [row[r] EXCEPT !.collected = TRUE].state = row[r].state
      /\ [row[r] EXCEPT !.collected = TRUE] # Free
  BY <1>1 DEF DeliveryRows, Free
<1>3. row' = [row EXCEPT ![r] = [row[r] EXCEPT !.collected = TRUE]]
  BY DEF CollectCod
<1> QED BY <1>2, <1>3 DEF Finishes, CustomerInv, RowsGood

LEMMA NextKeepsFinished == CustomerInv /\ [CustomerNext]_customerVars => FinishedKept
<1> SUFFICES ASSUME CustomerInv, [CustomerNext]_customerVars PROVE FinishedKept
  OBVIOUS
<1>1. CASE row' = row
  BY <1>1 DEF FinishedKept, CustomerInv, RowsGood, GoodRow, Free
<1>2. ASSUME NEW o \in Order, NEW r \in Row, PlaceCar(o, r) PROVE FinishedKept
  BY <1>2, FreshKeeps DEF PlaceCar, NewRow, FreshRow
<1>3. ASSUME NEW o \in Order, NEW ch \in Channels,
             PlaceDelivery(o, ch) \/ Checkout(o, ch), row' # row
      PROVE FinishedKept
  BY <1>3, FreshKeeps DEF PlaceDelivery, Checkout, NewRow, FreshRow
<1>4. ASSUME NEW r \in Row, CollectCod(r) PROVE FinishedKept
  BY <1>4, CollectKeeps, FinishesKeeps
<1>5. ASSUME NEW r \in Row, DeliveryState(r) \/ ManagerState(r) PROVE FinishedKept
  BY <1>5, TransitionShape, FinishesKeeps DEF DeliveryState, ManagerState, Finishes
<1>6. ASSUME NEW r \in Row, Board(r) \/ Stage(r) PROVE FinishedKept
  BY <1>6, CarToShape, FinishesKeeps DEF Board, Stage, Finishes
<1>7. ASSUME NEW o \in Order, Ingest(o), row' # row PROVE FinishedKept
  BY <1>7, FreshKeeps DEF Ingest, NewRow, FreshRow
<1>8. CASE UNCHANGED customerVars
  BY <1>1, <1>8 DEF customerVars
<1>9. ASSUME NEW o \in Order, \/ PlacePickup(o) \/ KitchenDone(o) \/ CounterPay(o)
                              \/ RejectIngest(o) \/ CancelIngest(o)
                              \/ \E x \in Tx : OpenPage(o, x)
      PROVE row' = row
  BY <1>9 DEF PlacePickup, KitchenDone, CounterPay, RejectIngest, CancelIngest, OpenPage
<1>10. ASSUME NEW x \in Tx, Provider(x) \/ Process(x) PROVE row' = row
  BY <1>10 DEF Provider, Process
<1>11. ASSUME NEW k, Pause(k) PROVE row' = row
  BY <1>11 DEF Pause
<1> QED
  BY <1>1, <1>2, <1>3, <1>4, <1>5, <1>6, <1>7, <1>8, <1>9, <1>10, <1>11 DEF CustomerNext

\* Neither a manager's override, nor a collection, nor a retried submission takes
\* a delivery out of the state it finished in; none is assigned to nobody.
THEOREM DeliveriesStayFinished == CustomerSpec => FinishedStays
<1> DEFINE Stays == \A r \in Row : row[r].kind = "delivery" =>
                       /\ row[r].state \in Finished => row'[r].state = row[r].state
                       /\ row'[r].state = "assigned" => row'[r].courier # NoCourier
<1>1. CustomerInit => CustomerInv
  BY CustomerInitInv
<1>2. CustomerInv /\ [CustomerNext]_customerVars => CustomerInv'
  BY CustomerNextInv
<1>3. CustomerInv /\ [CustomerNext]_customerVars => Stays
  <2> SUFFICES ASSUME CustomerInv, [CustomerNext]_customerVars, NEW r \in Row, row[r].kind = "delivery"
               PROVE  /\ row[r].state \in Finished => row'[r].state = row[r].state
                      /\ row'[r].state = "assigned" => row'[r].courier # NoCourier
    OBVIOUS
  <2>1. row[r].state \in Finished => row'[r].state = row[r].state
    BY NextKeepsFinished DEF FinishedKept
  <2>2. GoodRow(row'[r], status', channel')
    BY CustomerNextInv DEF CustomerInv, RowsGood
  <2>3. row'[r].state = "assigned" => row'[r].courier # NoCourier
    BY <2>2, NextKeepsFinished DEF FinishedKept, GoodRow, CarRow, Free
  <2> QED BY <2>1, <2>3
<1> QED BY <1>1, <1>2, <1>3, PTL DEF CustomerSpec, FinishedStays
(***************************************************************************)
(* What is cooked                                                          *)
(***************************************************************************)
\* Tickets are paid for by submissions or by the payment that fires them, and a
\* channel that fires drafts fires them once.
KitchenBooks ==
  /\ cooked \in [Order -> Nat] /\ tries \in [Order -> Nat]
  /\ agg \in [Order -> {"none", "rejected", "received", "cancelled"}]
  /\ \A o \in Order :
       /\ cooked[o] <= tries[o]
       /\ channel[o] \notin Deliveries \union {"aggregator"} => cooked[o] <= 1
       /\ channel[o] = "none" => cooked[o] = 0 /\ o \notin fired
       /\ channel[o] # "none" => tries[o] > 0
       /\ channel[o] \in Online /\ o \notin fired => cooked[o] = 0
       /\ channel[o] \in Online /\ o \in fired => card[o] > 0
       /\ agg[o] # "none" => channel[o] = "aggregator"

LinkedPaid == \A x \in Tx : tx[x] # NoTx /\ tx[x].linked => card[tx[x].order] > 0

Delivers(r, o) == row[r].kind = "delivery" /\ row[r].order = o

\* The record of an external order and its delivery are made together.
OneDelivery ==
  \A o \in Order :
    /\ agg[o] = "received" => \E r \in Row : \A q \in Row : Delivers(q, o) <=> q = r
    /\ channel[o] = "aggregator" /\ agg[o] # "received" => \A q \in Row : ~Delivers(q, o)

KitchenInv == KitchenBooks /\ LinkedPaid /\ OneDelivery

LEMMA KitchenInitInv == CustomerInit => KitchenInv
BY DEF CustomerInit, KitchenInv, KitchenBooks, LinkedPaid, OneDelivery, Delivers, NoTx, Free,
       Online, Deliveries

LEMMA KitchenFollows == KitchenInv => CookedOnce
<1> SUFFICES ASSUME KitchenInv, NEW o \in Order
             PROVE  /\ cooked[o] <= IF channel[o] \in Deliveries \union {"aggregator"}
                                    THEN tries[o] ELSE 1
                    /\ channel[o] \in Online /\ cooked[o] > 0 => card[o] > 0
                    /\ agg[o] = "received" =>
                         Cardinality({r \in Row : row[r].kind = "delivery" /\ row[r].order = o}) = 1
  BY DEF CookedOnce
<1>1. cooked[o] <= IF channel[o] \in Deliveries \union {"aggregator"} THEN tries[o] ELSE 1
  BY DEF KitchenInv, KitchenBooks
<1>2. channel[o] \in Online /\ cooked[o] > 0 => card[o] > 0
  BY DEF KitchenInv, KitchenBooks
<1>3. ASSUME agg[o] = "received"
      PROVE  Cardinality({r \in Row : row[r].kind = "delivery" /\ row[r].order = o}) = 1
  <2>1. PICK r \in Row : \A q \in Row : Delivers(q, o) <=> q = r
    BY <1>3 DEF KitchenInv, OneDelivery
  <2>2. {q \in Row : row[q].kind = "delivery" /\ row[q].order = o} = {r}
    BY <2>1 DEF Delivers
  <2> QED BY <2>2, FS_Singleton
<1> QED BY <1>1, <1>2, <1>3

\* What a step may do to the deliveries: nothing, or file one more of an order.
SameDeliveries == \A r \in Row, o \in Order : Delivers(r, o)' <=> Delivers(r, o)
Delivered(o) == \E r \in Row : /\ \A q \in Row : Delivers(q, o)' <=> Delivers(q, o) \/ q = r
                               /\ \A q \in Row, p \in Order \ {o} : Delivers(q, p)' <=> Delivers(q, p)

LEMMA NoneDelivered ==
  ASSUME CustomerInv, NEW o \in Order, channel[o] = "none" PROVE \A q \in Row : ~Delivers(q, o)
BY DEF CustomerInv, RowsGood, GoodRow, Delivers, Free, CarRow, DeliveryRows

LEMMA FiledDelivery ==
  ASSUME CustomerInv, NEW o \in Order, NEW ch, NEW r \in Row, NewRow(r, DeliveryRow(o, ch))
  PROVE  Delivered(o)
<1>1. row[r] = Free /\ row' = [q \in Row |-> IF q = r THEN DeliveryRow(o, ch) ELSE row[q]]
  BY DEF NewRow, CustomerInv, RowsGood
<1>2. DeliveryRow(o, ch).kind = "delivery" /\ DeliveryRow(o, ch).order = o
  BY DEF DeliveryRow
<1>3. row[r].kind # "delivery"
  BY <1>1 DEF Free
<1> HIDE DEF DeliveryRow
<1> QED BY <1>1, <1>2, <1>3 DEF Delivered, Delivers

LEMMA FiledCar ==
  ASSUME CustomerInv, NEW o \in Order, NEW r \in Row, PlaceCar(o, r) PROVE SameDeliveries
<1> DEFINE x == [kind |-> "car", order |-> o, state |-> "preparing"]
<1>1. row[r] = Free /\ row' = [q \in Row |-> IF q = r THEN x ELSE row[q]]
  BY DEF PlaceCar, NewRow, CustomerInv, RowsGood
<1>2. x.kind # "delivery" /\ row[r].kind # "delivery"
  BY <1>1 DEF Free
<1> HIDE DEF x
<1> QED BY <1>1, <1>2 DEF SameDeliveries, Delivers

LEMMA ChangedInPlace ==
  ASSUME CustomerInv, NEW r \in Row, NEW x, row' = [row EXCEPT ![r] = x],
         x.kind = row[r].kind, x.order = row[r].order
  PROVE  SameDeliveries
<1>1. row' = [q \in Row |-> IF q = r THEN x ELSE row[q]]
  BY DEF CustomerInv, RowsGood
<1> QED BY <1>1 DEF SameDeliveries, Delivers

LEMMA TransitionInPlace ==
  ASSUME CustomerInv, NEW r \in Row, NEW act \in Actions, NEW c \in Courier,
         row[r].kind = "delivery", Transition(r, act, c)
  PROVE  SameDeliveries
<1> DEFINE x == row[r]
           k == CourierAfter(r, act, c)
<1>1. x \in DeliveryRows
  BY DEF CustomerInv, RowsGood, GoodRow, CarRow, DeliveryRows, Free
<1>2. PICK s \in NextState(x.state, act) :
        row' = [row EXCEPT ![r] = [[x EXCEPT !.state = s] EXCEPT !.courier = k]]
  BY DEF Transition
<1>3. s \in States
  BY <1>1, <1>2, LegalStates DEF DeliveryRows
<1>4. k \in Courier \union {NoCourier}
  BY <1>1 DEF CourierAfter, DeliveryRows
<1> HIDE DEF k
<1>5. MovedTo(x, s, k) \in DeliveryRows /\ MovedTo(x, s, k).order = x.order
  BY <1>1, <1>3, <1>4, MovedRow
<1>6. row' = [row EXCEPT ![r] = MovedTo(x, s, k)]
  BY <1>2 DEF MovedTo
<1>7. MovedTo(x, s, k).kind = x.kind
  BY <1>1, <1>5 DEF DeliveryRows
<1> QED BY <1>5, <1>6, <1>7, ChangedInPlace

LEMMA CarInPlace ==
  ASSUME CustomerInv, NEW r \in Row, row[r].kind = "car", NEW s, CarTo(r, s) PROVE SameDeliveries
<1>1. row[r] \in CarRow
  BY DEF CustomerInv, RowsGood, GoodRow, CarRow, DeliveryRows, Free
<1> DEFINE x == [row[r] EXCEPT !.state = s]
<1>2. x.kind = row[r].kind /\ x.order = row[r].order /\ row' = [row EXCEPT ![r] = x]
  BY <1>1 DEF CarRow, CarTo
<1> HIDE DEF x
<1> QED BY <1>2, ChangedInPlace

LEMMA CollectInPlace ==
  ASSUME CustomerInv, NEW r \in Row, CollectCod(r) PROVE SameDeliveries
<1>1. row[r] \in DeliveryRows
  BY DEF CollectCod, CustomerInv, RowsGood, GoodRow, Free, CarRow, DeliveryRows
<1> DEFINE x == [row[r] EXCEPT !.collected = TRUE]
<1>2. x.kind = row[r].kind /\ x.order = row[r].order /\ row' = [row EXCEPT ![r] = x]
  BY <1>1 DEF DeliveryRows, CollectCod
<1> HIDE DEF x
<1> QED BY <1>2, ChangedInPlace

(***************************************************************************)
(* The kitchen's invariant is kept                                         *)
(***************************************************************************)
\* No ticket, payment, submission or external record.
LEMMA QuietKitchen ==
  ASSUME CustomerInv, KitchenInv, SameDeliveries,
         UNCHANGED <<channel, card, tries, cooked, fired, tx, agg>>
  PROVE  KitchenInv'
<1>1. KitchenBooks' /\ LinkedPaid'
  BY DEF KitchenInv, KitchenBooks, LinkedPaid
<1>2. OneDelivery'
  BY DEF KitchenInv, OneDelivery, SameDeliveries
<1> QED BY <1>1, <1>2 DEF KitchenInv

LEMMA Tried ==
  ASSUME CustomerInv, KitchenInv, NEW o \in Order, NEW ch, Try(o, ch)
  PROVE  /\ \A q \in Order : channel'[q] = IF q = o THEN ch ELSE channel[q]
         /\ \A q \in Order : tries'[q] = IF q = o THEN tries[o] + 1 ELSE tries[q]
         /\ tries' \in [Order -> Nat] /\ channel[o] \in {"none", ch} /\ ch # "none"
<1>1. \A q \in Order : channel'[q] = IF q = o THEN ch ELSE channel[q]
  BY TryType
<1>2. ch # "none" /\ channel[o] \in {"none", ch}
  BY TryType DEF Try
<1>3. /\ \A q \in Order : tries'[q] = IF q = o THEN tries[o] + 1 ELSE tries[q]
      /\ tries' \in [Order -> Nat]
  BY DEF Try, KitchenInv, KitchenBooks
<1> QED BY <1>1, <1>2, <1>3

\* A submission by a channel that keeps no external record.
LEMMA SubmittedKitchen ==
  ASSUME CustomerInv, KitchenInv, NEW o \in Order, NEW ch, Try(o, ch), ch # "aggregator",
         UNCHANGED <<card, fired, tx, agg>>,
         SameDeliveries \/ Delivered(o),
         \/ cooked' = cooked
         \/ /\ cooked' = [cooked EXCEPT ![o] = @ + 1] /\ ch \notin Online
            /\ cooked[o] = 0 \/ ch \in Deliveries
  PROVE  KitchenInv'
<1>1. /\ \A q \in Order : channel'[q] = IF q = o THEN ch ELSE channel[q]
      /\ \A q \in Order : tries'[q] = IF q = o THEN tries[o] + 1 ELSE tries[q]
      /\ tries' \in [Order -> Nat] /\ channel[o] \in {"none", ch} /\ ch # "none"
  BY Tried
<1>2. agg[o] = "none"
  BY <1>1 DEF KitchenInv, KitchenBooks
<1>3. KitchenBooks'
  <2>1. CASE cooked' = cooked
    BY <1>1, <1>2, <2>1 DEF KitchenInv, KitchenBooks, Online, Deliveries
  <2>2. CASE cooked' # cooked
    BY <1>1, <1>2, <2>2 DEF KitchenInv, KitchenBooks, Online, Deliveries
  <2> QED BY <2>1, <2>2
<1>4. LinkedPaid'
  BY DEF KitchenInv, LinkedPaid
<1>5. OneDelivery'
  BY <1>1, <1>2 DEF KitchenInv, OneDelivery, SameDeliveries, Delivered
<1> QED BY <1>3, <1>4, <1>5 DEF KitchenInv

LEMMA PickupKitchen ==
  ASSUME CustomerInv, KitchenInv, NEW o \in Order, PlacePickup(o) PROVE KitchenInv'
<1>1. PICK ch \in {"pickup", "table"} : Try(o, ch)
  BY DEF PlacePickup
<1>2. SameDeliveries
  BY DEF PlacePickup, SameDeliveries, Delivers
<1> QED BY <1>1, <1>2, SubmittedKitchen DEF PlacePickup, FireDraft, FireNeeded, Cook, Online

LEMMA CarKitchen ==
  ASSUME CustomerInv, KitchenInv, NEW o \in Order, NEW r \in Row, PlaceCar(o, r) PROVE KitchenInv'
BY FiledCar, SubmittedKitchen DEF PlaceCar, FireDraft, FireNeeded, Cook, Online

LEMMA DeliveryKitchen ==
  ASSUME CustomerInv, KitchenInv, NEW o \in Order, NEW ch, PlaceDelivery(o, ch) PROVE KitchenInv'
<1>1. SameDeliveries \/ Delivered(o)
  <2>1. CASE row' = row
    BY <2>1 DEF SameDeliveries, Delivers
  <2>2. CASE row' # row
    BY <2>2, FiledDelivery DEF PlaceDelivery
  <2> QED BY <2>1, <2>2
<1>2. ch # "aggregator" /\ ch \notin Online /\ ch \in Deliveries
  BY DEF PlaceDelivery, Deliveries, Online
<1> QED BY <1>1, <1>2, SubmittedKitchen DEF PlaceDelivery, Cook

LEMMA CheckoutKitchen ==
  ASSUME CustomerInv, KitchenInv, NEW o \in Order, NEW ch, Checkout(o, ch) PROVE KitchenInv'
<1>1. SameDeliveries \/ Delivered(o)
  <2>1. CASE row' = row
    BY <2>1 DEF SameDeliveries, Delivers
  <2>2. CASE row' # row
    BY <2>2, FiledDelivery DEF Checkout
  <2> QED BY <2>1, <2>2
<1>2. ch # "aggregator"
  BY DEF Checkout, Online
<1> QED BY <1>1, <1>2, SubmittedKitchen DEF Checkout

\* The external order: nothing is delivered before its record.
LEMMA ExternalKitchen ==
  ASSUME CustomerInv, KitchenInv, NEW o \in Order, Unknown(o), Try(o, "aggregator"),
         UNCHANGED <<card, fired, tx>>, cooked' = cooked \/ cooked' = [cooked EXCEPT ![o] = @ + 1],
         NEW a \in {"none", "rejected", "received"}, agg' = [agg EXCEPT ![o] = a],
         IF a = "received" THEN Delivered(o) ELSE SameDeliveries
  PROVE  KitchenInv'
<1>1. /\ \A q \in Order : channel'[q] = IF q = o THEN "aggregator" ELSE channel[q]
      /\ \A q \in Order : tries'[q] = IF q = o THEN tries[o] + 1 ELSE tries[q]
      /\ tries' \in [Order -> Nat] /\ channel[o] \in {"none", "aggregator"}
  BY Tried
<1>2. /\ \A q \in Order : agg'[q] = IF q = o THEN a ELSE agg[q]
      /\ agg' \in [Order -> {"none", "rejected", "received", "cancelled"}] /\ agg[o] = "none"
  BY DEF Unknown, KitchenInv, KitchenBooks
<1>3. KitchenBooks'
  <2>1. CASE cooked' = cooked
    BY <1>1, <1>2, <2>1 DEF KitchenInv, KitchenBooks, Online, Deliveries
  <2>2. CASE cooked' # cooked
    BY <1>1, <1>2, <2>2 DEF KitchenInv, KitchenBooks, Online, Deliveries
  <2> QED BY <2>1, <2>2
<1>4. LinkedPaid'
  BY DEF KitchenInv, LinkedPaid
<1>5. \A q \in Row : ~Delivers(q, o)
  BY <1>1, <1>2, NoneDelivered DEF KitchenInv, OneDelivery
<1>6. OneDelivery'
  <2>1. CASE a = "received"
    BY <1>1, <1>2, <1>5, <2>1 DEF KitchenInv, OneDelivery, Delivered
  <2>2. CASE a # "received"
    BY <1>1, <1>2, <1>5, <2>2 DEF KitchenInv, OneDelivery, SameDeliveries
  <2> QED BY <2>1, <2>2
<1> QED BY <1>3, <1>4, <1>6 DEF KitchenInv

LEMMA RejectIngestKitchen ==
  ASSUME CustomerInv, KitchenInv, NEW o \in Order, RejectIngest(o) PROVE KitchenInv'
<1>1. SameDeliveries
  BY DEF RejectIngest, SameDeliveries, Delivers
<1> QED BY <1>1, ExternalKitchen DEF RejectIngest

LEMMA IngestKitchen ==
  ASSUME CustomerInv, KitchenInv, NEW o \in Order, Ingest(o) PROVE KitchenInv'
<1>1. CASE row' = row /\ agg' = agg
  <2>1. SameDeliveries
    BY <1>1 DEF SameDeliveries, Delivers
  <2>2. agg' = [agg EXCEPT ![o] = "none"]
    BY <1>1 DEF Ingest, Unknown, KitchenInv, KitchenBooks
  <2> QED BY <2>1, <2>2, ExternalKitchen DEF Ingest, Cook
<1>2. CASE ~(row' = row /\ agg' = agg)
  <2>1. Delivered(o) /\ agg' = [agg EXCEPT ![o] = "received"]
    BY <1>2, FiledDelivery DEF Ingest
  <2> QED BY <1>2, <2>1, ExternalKitchen DEF Ingest, Cook
<1> QED BY <1>1, <1>2

LEMMA CancelIngestKitchen ==
  ASSUME CustomerInv, KitchenInv, NEW o \in Order, CancelIngest(o) PROVE KitchenInv'
<1>1. /\ agg[o] = "rejected" /\ UNCHANGED <<channel, card, tries, cooked, fired, tx, row>>
      /\ \A q \in Order : agg'[q] = IF q = o THEN "cancelled" ELSE agg[q]
      /\ agg' \in [Order -> {"none", "rejected", "received", "cancelled"}]
  BY DEF CancelIngest, KitchenInv, KitchenBooks
<1>2. KitchenBooks' /\ LinkedPaid'
  BY <1>1 DEF KitchenInv, KitchenBooks, LinkedPaid
<1>3. OneDelivery'
  BY <1>1 DEF KitchenInv, OneDelivery, Delivers
<1> QED BY <1>2, <1>3 DEF KitchenInv

LEMMA PageKitchen ==
  ASSUME CustomerInv, KitchenInv, NEW o \in Order, NEW x \in Tx, OpenPage(o, x) PROVE KitchenInv'
<1>1. KitchenBooks' /\ OneDelivery'
  BY DEF OpenPage, moneyFrame, KitchenInv, KitchenBooks, OneDelivery, Delivers
<1>2. tx' = [z \in Tx |-> IF z = x THEN [order |-> o, state |-> "pending", linked |-> FALSE] ELSE tx[z]]
      /\ card' = card
  BY DEF OpenPage, CustomerInv, TxGood
<1>3. LinkedPaid'
  BY <1>2 DEF KitchenInv, LinkedPaid
<1> QED BY <1>1, <1>3 DEF KitchenInv

LEMMA ProviderKitchen ==
  ASSUME CustomerInv, KitchenInv, NEW x \in Tx, Provider(x) PROVE KitchenInv'
<1>1. KitchenBooks' /\ OneDelivery'
  BY DEF Provider, moneyFrame, KitchenInv, KitchenBooks, OneDelivery, Delivers
<1>2. PICK s \in {"done", "failed"} : tx' = [tx EXCEPT ![x] = [tx[x] EXCEPT !.state = s]]
  BY DEF Provider
<1>3. tx[x] \in Payment /\ tx[x] # NoTx
  BY DEF Provider, CustomerInv, TxGood, GoodTx, NoTx, Payment
<1> DEFINE y == [tx[x] EXCEPT !.state = s]
<1>4. y.linked = tx[x].linked /\ y.order = tx[x].order
  BY <1>3 DEF Payment
<1>5. tx' = [z \in Tx |-> IF z = x THEN y ELSE tx[z]] /\ card' = card
  BY <1>2 DEF Provider, CustomerInv, TxGood
<1> HIDE DEF y
<1>6. LinkedPaid'
  BY <1>3, <1>4, <1>5 DEF KitchenInv, LinkedPaid
<1> QED BY <1>1, <1>6 DEF KitchenInv

\* The payment fires an online order that is not fired yet.
LEMMA ProcessKitchen ==
  ASSUME CustomerInv, KitchenInv, NEW x \in Tx, Process(x) PROVE KitchenInv'
<1> DEFINE o == tx[x].order
           y == [tx[x] EXCEPT !.linked = TRUE]
<1>1. tx[x] \in Payment /\ tx[x] # NoTx /\ o \in Order /\ channel[o] # "none"
  BY DEF Process, CustomerInv, TxGood, GoodTx, NoTx, Payment
<1>2. y.order = o
  BY <1>1 DEF Payment
<1>3. /\ channel' = channel /\ tries' = tries /\ agg' = agg /\ row' = row
      /\ tx' = [z \in Tx |-> IF z = x THEN y ELSE tx[z]]
      /\ card' = IF tx[x].linked THEN card ELSE [card EXCEPT ![o] = @ + 1]
      /\ \/ /\ channel[o] \in Online /\ o \notin fired
            /\ cooked' = [cooked EXCEPT ![o] = @ + 1] /\ fired' = fired \union {o}
         \/ UNCHANGED <<cooked, fired>>
  BY DEF Process, moneyFrame, OnlineFires, AlreadyFired, Cook, CustomerInv, TxGood
<1> HIDE DEF o, y
<1>4. card'[o] > 0 /\ \A q \in Order : card'[q] >= card[q]
  <2>1. CASE tx[x].linked
    <3>1. card[o] > 0
      BY <1>1, <2>1 DEF KitchenInv, LinkedPaid, o
    <3> QED BY <1>1, <1>3, <2>1, <3>1 DEF CustomerInv, BooksType
  <2>2. CASE ~tx[x].linked
    BY <1>1, <1>3, <2>2 DEF CustomerInv, BooksType
  <2> QED BY <2>1, <2>2
<1>5. card' \in [Order -> Nat] /\ card \in [Order -> Nat]
  BY <1>1, <1>3 DEF CustomerInv, BooksType
<1>6. KitchenBooks'
  <2>1. CASE UNCHANGED <<cooked, fired>>
    BY <1>3, <1>4, <1>5, <2>1 DEF KitchenInv, KitchenBooks
  <2>2. CASE /\ channel[o] \in Online /\ o \notin fired
             /\ cooked' = [cooked EXCEPT ![o] = @ + 1] /\ fired' = fired \union {o}
    BY <1>1, <1>3, <1>4, <1>5, <2>2 DEF KitchenInv, KitchenBooks
  <2> QED BY <1>3, <2>1, <2>2
<1>7. LinkedPaid'
  <2>1. \A z \in Tx : tx[z] # NoTx => tx[z].order \in Order
    BY DEF CustomerInv, TxGood, GoodTx, Payment
  <2> QED BY <1>2, <1>3, <1>4, <1>5, <2>1 DEF KitchenInv, LinkedPaid
<1>8. OneDelivery'
  BY <1>3 DEF KitchenInv, OneDelivery, Delivers
<1> QED BY <1>6, <1>7, <1>8 DEF KitchenInv

LEMMA KitchenNextInv == CustomerInv /\ KitchenInv /\ [CustomerNext]_customerVars => KitchenInv'
<1> SUFFICES ASSUME CustomerInv, KitchenInv, [CustomerNext]_customerVars PROVE KitchenInv'
  OBVIOUS
<1>1. CASE UNCHANGED customerVars
  <2>1. SameDeliveries
    BY <1>1 DEF customerVars, SameDeliveries, Delivers
  <2> QED BY <1>1, <2>1, QuietKitchen DEF customerVars
<1>2. ASSUME NEW o \in Order, PlacePickup(o) \/ RejectIngest(o) \/ Ingest(o) \/ CancelIngest(o)
      PROVE KitchenInv'
  BY <1>2, PickupKitchen, RejectIngestKitchen, IngestKitchen, CancelIngestKitchen
<1>3. ASSUME NEW o \in Order, KitchenDone(o) \/ CounterPay(o) PROVE KitchenInv'
  <2>1. SameDeliveries
    BY <1>3 DEF KitchenDone, CounterPay, SameDeliveries, Delivers
  <2> QED BY <1>3, <2>1, QuietKitchen DEF KitchenDone, CounterPay, moneyFrame
<1>4. ASSUME NEW o \in Order, NEW r \in Row, PlaceCar(o, r) PROVE KitchenInv'
  BY <1>4, CarKitchen
<1>5. ASSUME NEW o \in Order, NEW ch \in Channels, PlaceDelivery(o, ch) \/ Checkout(o, ch)
      PROVE KitchenInv'
  BY <1>5, DeliveryKitchen, CheckoutKitchen
<1>6. ASSUME NEW o \in Order, NEW x \in Tx, OpenPage(o, x) PROVE KitchenInv'
  BY <1>6, PageKitchen
<1>7. ASSUME NEW x \in Tx, Provider(x) \/ Process(x) PROVE KitchenInv'
  BY <1>7, ProviderKitchen, ProcessKitchen
<1>8. ASSUME NEW r \in Row, CollectCod(r) PROVE KitchenInv'
  BY <1>8, CollectInPlace, QuietKitchen DEF CollectCod, moneyFrame
<1>9. ASSUME NEW r \in Row, DeliveryState(r) \/ ManagerState(r) PROVE KitchenInv'
  <2>1. PICK act \in Actions, c \in Courier : row[r].kind = "delivery" /\ Transition(r, act, c)
    BY <1>9 DEF DeliveryState, ManagerState
  <2> QED BY <2>1, TransitionInPlace, QuietKitchen DEF Transition
<1>10. ASSUME NEW r \in Row, Board(r) \/ Stage(r) PROVE KitchenInv'
  <2>1. PICK s \in {"ready", "at_window", "cancelled", "collected"} :
          row[r].kind = "car" /\ CarTo(r, s)
    BY <1>10 DEF Board, Stage
  <2> QED BY <2>1, CarInPlace, QuietKitchen DEF CarTo
<1>11. ASSUME NEW k, Pause(k) PROVE KitchenInv'
  <2>1. SameDeliveries
    BY <1>11 DEF Pause, SameDeliveries, Delivers
  <2> QED BY <1>11, <2>1, QuietKitchen DEF Pause
<1> QED
  BY <1>1, <1>2, <1>3, <1>4, <1>5, <1>6, <1>7, <1>8, <1>9, <1>10, <1>11 DEF CustomerNext

\* Whatever is submitted, notified or sent again: the kitchen makes no more
\* tickets for an order than its channel allows, none for an online order that
\* is not paid, and an external order that was received has one delivery.
THEOREM KitchenSafety == CustomerSpec => []CookedOnce
<1>1. CustomerInit => CustomerInv /\ KitchenInv
  BY CustomerInitInv, KitchenInitInv
<1>2. CustomerInv /\ KitchenInv /\ [CustomerNext]_customerVars => CustomerInv' /\ KitchenInv'
  BY CustomerNextInv, KitchenNextInv
<1>3. KitchenInv => CookedOnce
  BY KitchenFollows
<1> QED BY <1>1, <1>2, <1>3, PTL DEF CustomerSpec

(***************************************************************************)
(* KdsBoard: what the boards show                                          *)
(***************************************************************************)
TicketStates == {"none", "fired", "accepted", "preparing", "ready", "served", "cancel"}
News == UNION {[D -> TicketStates] : D \in SUBSET Ticket}
EventRow == [news : News, done : BOOLEAN]
BusRow == [news : News, phase : {"open", "sent", "lost"}]

KdsTypeOK ==
  /\ state \in [Ticket -> TicketStates] /\ had \in [Ticket -> SUBSET TicketStates]
  /\ outbox \in Seq(EventRow)
  /\ bus \in Seq(BusRow)
  /\ shown \in [Screen -> [Ticket -> TicketStates]]
  /\ DOMAIN call = Screen /\ \A s \in Screen : DOMAIN call[s] = Channel
  /\ call = [s \in Screen |-> [c \in Channel |-> call[s][c]]]

\* It tells of states that tickets had.
TrueNews(n, h) == \A t \in DOMAIN n : n[t] \in h[t]
TrueBoard(b, h) == b \in [Ticket -> TicketStates] /\ \A t \in Ticket : b[t] \in h[t]

\* An open transition owns the row it wrote; every answer under way is true.
GoodCall(m, b, h) ==
  /\ m.kind = "open" => /\ m.ticket \in Ticket /\ m.row \in DOMAIN b /\ m.to \in TicketStates
                        /\ b[m.row].news = [x \in {m.ticket} |-> m.to]
  /\ m.kind = "rows" => m.news \in News /\ TrueNews(m.news, h)
  /\ m.kind = "board" => TrueBoard(m.view, h)
  /\ m.kind = "reply" => m.ticket \in Ticket /\ m.state \in TicketStates /\ m.state \in h[m.ticket]

CallsGood == \A s \in Screen : \A c \in Channel : GoodCall(call[s][c], bus, had)
OutboxTrue == \A e \in DOMAIN outbox : TrueNews(outbox[e].news, had)
BusTrue == \A i \in DOMAIN bus : bus[i].phase = "sent" => TrueNews(bus[i].news, had)
SendingTrue == sending # NotSending =>
                 /\ sending.event \in DOMAIN outbox /\ sending.row \in DOMAIN bus
                 /\ TrueNews(bus[sending.row].news, had)
BoardsTrue == TrueBoard(state, had) /\ \A s \in Screen : TrueBoard(shown[s], had)

KdsInv == KdsTypeOK /\ CallsGood /\ OutboxTrue /\ BusTrue /\ SendingTrue /\ BoardsTrue

LEMMA NewsOf ==
  ASSUME NEW D \in SUBSET Ticket, NEW n \in [D -> TicketStates]
  PROVE  n \in News
BY DEF News

LEMMA NewsHas ==
  ASSUME NEW n \in News
  PROVE  DOMAIN n \in SUBSET Ticket /\ n \in [DOMAIN n -> TicketStates]
BY DEF News

LEMMA SeqHas ==
  ASSUME NEW S, NEW q \in Seq(S)
  PROVE  DOMAIN q = 1 .. Len(q) /\ Len(q) \in Nat /\ \A i \in DOMAIN q : q[i] \in S
OBVIOUS

LEMMA RowsTyped ==
  ASSUME KdsTypeOK
  PROVE  /\ bus \in Seq(BusRow) /\ DOMAIN bus = 1 .. Len(bus) /\ Len(bus) \in Nat
         /\ outbox \in Seq(EventRow) /\ DOMAIN outbox = 1 .. Len(outbox) /\ Len(outbox) \in Nat
         /\ \A i \in DOMAIN bus : bus[i] \in BusRow /\ bus[i].news \in News
         /\ \A e \in DOMAIN outbox : outbox[e] \in EventRow /\ outbox[e].news \in News
<1>1. bus \in Seq(BusRow) /\ outbox \in Seq(EventRow)
  BY DEF KdsTypeOK
<1>2. (\A x \in BusRow : x.news \in News) /\ \A x \in EventRow : x.news \in News
  BY DEF BusRow, EventRow
<1> QED BY <1>1, <1>2, SeqHas

LEMMA CallQuiet ==
  ASSUME NEW b, NEW h
  PROVE  GoodCall(Quiet, b, h) /\ GoodCall(Wanted, b, h)
BY DEF GoodCall, Quiet, Wanted

LEMMA KdsInitInv == KdsInit => KdsInv
<1> SUFFICES ASSUME KdsInit PROVE KdsInv
  OBVIOUS
<1> USE DEF KdsInit
<1>1. state \in [Ticket -> TicketStates] /\ had \in [Ticket -> SUBSET TicketStates]
  BY DEF TicketStates
<1>2. TrueBoard(state, had)
  BY <1>1 DEF TrueBoard
<1>3. KdsTypeOK
  BY <1>1 DEF KdsTypeOK
<1>4. CallsGood
  BY CallQuiet DEF CallsGood
<1>5. DOMAIN outbox = {} /\ DOMAIN bus = {}
  OBVIOUS
<1> QED BY <1>2, <1>3, <1>4, <1>5 DEF KdsInv, OutboxTrue, BusTrue, SendingTrue, BoardsTrue

(***************************************************************************)
(* What is true stays so                                                   *)
(***************************************************************************)
HadGrows == \A t \in Ticket : had[t] \subseteq had'[t]
BusGrows == /\ DOMAIN bus \subseteq DOMAIN bus'
            /\ \A i \in DOMAIN bus : bus'[i].news = bus[i].news

LEMMA StaysTrue ==
  ASSUME HadGrows
  PROVE  /\ \A n \in News : TrueNews(n, had) => TrueNews(n, had')
         /\ \A b : TrueBoard(b, had) => TrueBoard(b, had')
<1>1. ASSUME NEW n \in News, TrueNews(n, had) PROVE TrueNews(n, had')
  BY <1>1, NewsHas DEF TrueNews, HadGrows
<1> QED BY <1>1 DEF TrueBoard, HadGrows

LEMMA CallStaysGood ==
  ASSUME HadGrows, BusGrows, NEW m, GoodCall(m, bus, had)
  PROVE  GoodCall(m, bus', had')
<1>1. m.kind = "open" => /\ m.ticket \in Ticket /\ m.row \in DOMAIN bus' /\ m.to \in TicketStates
                         /\ bus'[m.row].news = [x \in {m.ticket} |-> m.to]
  BY DEF GoodCall, BusGrows
<1>2. m.kind = "rows" => m.news \in News /\ TrueNews(m.news, had')
  BY StaysTrue DEF GoodCall
<1>3. m.kind = "board" => TrueBoard(m.view, had')
  BY StaysTrue DEF GoodCall
<1>4. m.kind = "reply" => /\ m.ticket \in Ticket /\ m.state \in TicketStates
                          /\ m.state \in had'[m.ticket]
  BY DEF GoodCall, HadGrows
<1> QED BY <1>1, <1>2, <1>3, <1>4 DEF GoodCall

\* A call is replaced by a good one.
LEMMA SetCallGood ==
  ASSUME KdsTypeOK, CallsGood, HadGrows, BusGrows, NEW s \in Screen, NEW c \in Channel, NEW m,
         SetCall(s, c, m), GoodCall(m, bus', had')
  PROVE  /\ CallsGood'
         /\ DOMAIN call' = Screen /\ \A x \in Screen : DOMAIN call'[x] = Channel
         /\ call' = [x \in Screen |-> [d \in Channel |-> call'[x][d]]]
<1>1. /\ DOMAIN call = Screen /\ \A x \in Screen : DOMAIN call[x] = Channel
      /\ call = [x \in Screen |-> [d \in Channel |-> call[x][d]]]
  BY DEF KdsTypeOK
<1>2. call' = [call EXCEPT ![s] = [call[s] EXCEPT ![c] = m]]
  BY DEF SetCall
<1>3. /\ DOMAIN call' = Screen
      /\ call'[s] = [call[s] EXCEPT ![c] = m] /\ \A x \in Screen \ {s} : call'[x] = call[x]
  BY <1>1, <1>2
<1>4. DOMAIN call[s] = Channel /\ call[s] = [d \in Channel |-> call[s][d]]
  BY <1>1
<1>5. /\ DOMAIN call'[s] = Channel /\ call'[s] = [d \in Channel |-> call'[s][d]]
      /\ call'[s][c] = m /\ \A d \in Channel \ {c} : call'[s][d] = call[s][d]
  BY <1>3, <1>4
<1>6. \A x \in Screen : DOMAIN call'[x] = Channel /\ call'[x] = [d \in Channel |-> call'[x][d]]
  BY <1>1, <1>3, <1>5
<1>7. call' = [x \in Screen |-> [d \in Channel |-> call'[x][d]]]
  <2>1. call' = [x \in Screen |-> call'[x]]
    BY <1>2, <1>3
  <2> QED BY <1>6, <2>1
<1>8. ASSUME NEW x \in Screen, NEW d \in Channel PROVE GoodCall(call'[x][d], bus', had')
  <2>1. CASE x = s /\ d = c
    BY <1>5, <2>1
  <2>2. CASE ~(x = s /\ d = c)
    <3>1. call'[x][d] = call[x][d]
      BY <1>3, <1>5, <2>2
    <3>2. GoodCall(call[x][d], bus, had)
      BY DEF CallsGood
    <3> QED BY <3>1, <3>2, CallStaysGood
  <2> QED BY <2>1, <2>2
<1> QED BY <1>3, <1>6, <1>7, <1>8 DEF CallsGood

LEMMA CallsStayGood ==
  ASSUME KdsTypeOK, CallsGood, HadGrows, BusGrows, call' = call
  PROVE  /\ CallsGood'
         /\ DOMAIN call' = Screen /\ \A x \in Screen : DOMAIN call'[x] = Channel
         /\ call' = [x \in Screen |-> [d \in Channel |-> call'[x][d]]]
<1>1. ASSUME NEW x \in Screen, NEW d \in Channel PROVE GoodCall(call'[x][d], bus', had')
  BY CallStaysGood DEF CallsGood
<1> QED BY <1>1 DEF CallsGood, KdsTypeOK
LEMMA HadSame == ASSUME had' = had PROVE HadGrows
BY DEF HadGrows

\* States are set: each ticket's is one it has had from then on.
LEMMA SetStatesTrue ==
  ASSUME KdsTypeOK, BoardsTrue, NEW D \in SUBSET Ticket, NEW new \in [D -> TicketStates],
         SetStates(new)
  PROVE  /\ HadGrows /\ state' \in [Ticket -> TicketStates]
         /\ had' \in [Ticket -> SUBSET TicketStates]
         /\ TrueBoard(state', had') /\ TrueNews(new, had')
<1>1. /\ state' = [t \in Ticket |-> IF t \in DOMAIN new THEN new[t] ELSE state[t]]
      /\ had' = [t \in Ticket |-> had[t] \union {state'[t]}]
  BY DEF SetStates
<1>2. state' \in [Ticket -> TicketStates]
  BY <1>1 DEF KdsTypeOK
<1>3. \A t \in Ticket : had'[t] = had[t] \union {state'[t]}
  BY <1>1
<1>4. had' \in [Ticket -> SUBSET TicketStates]
  <2>1. \A t \in Ticket : had[t] \union {state'[t]} \in SUBSET TicketStates
    BY <1>2 DEF KdsTypeOK
  <2> QED BY <1>1, <2>1
<1>5. HadGrows
  BY <1>3 DEF HadGrows
<1>6. TrueBoard(state', had')
  BY <1>2, <1>3 DEF TrueBoard
<1>7. TrueNews(new, had')
  BY <1>1, <1>3 DEF TrueNews
<1> QED BY <1>2, <1>4, <1>5, <1>6, <1>7

LEMMA BusSame ==
  ASSUME KdsTypeOK, BusTrue, HadGrows, bus' = bus
  PROVE  BusGrows /\ BusTrue'
<1>1. \A i \in DOMAIN bus : bus[i].news \in News
  BY RowsTyped
<1> QED BY <1>1, StaysTrue DEF BusGrows, BusTrue

LEMMA BusWritten ==
  ASSUME KdsTypeOK, BusTrue, HadGrows, NEW news \in News, WriteBus(news)
  PROVE  /\ BusGrows /\ BusTrue'
         /\ bus' \in Seq(BusRow)
         /\ Len(bus) + 1 \in DOMAIN bus' /\ bus'[Len(bus) + 1].news = news
<1> DEFINE new == [news |-> news, phase |-> "open"]
<1>1. bus' = Append(bus, new) /\ new \in BusRow
      /\ new.news = news /\ new.phase = "open"
  BY DEF WriteBus, BusRow
<1> HIDE DEF new
<1>2. /\ bus' \in Seq(BusRow)
      /\ DOMAIN bus = 1 .. Len(bus) /\ DOMAIN bus' = 1 .. Len(bus) + 1 /\ Len(bus) \in Nat
      /\ bus'[Len(bus) + 1] = new /\ \A i \in 1 .. Len(bus) : bus'[i] = bus[i]
  BY <1>1, RowsTyped
<1>3. BusGrows
  BY <1>2 DEF BusGrows
<1>4. \A i \in DOMAIN bus : bus[i].news \in News
  BY RowsTyped
<1>5. ASSUME NEW i \in DOMAIN bus', bus'[i].phase = "sent" PROVE TrueNews(bus'[i].news, had')
  <2>1. i \in DOMAIN bus /\ bus'[i] = bus[i]
    BY <1>1, <1>2, <1>5
  <2> QED BY <1>4, <1>5, <2>1, StaysTrue DEF BusTrue
<1> QED BY <1>1, <1>2, <1>3, <1>5 DEF BusTrue

\* A transaction ends: its row may be sent if it is true by then.
LEMMA RowEnded ==
  ASSUME KdsTypeOK, BusTrue, HadGrows, NEW i \in DOMAIN bus, NEW phase \in {"sent", "lost"},
         phase = "sent" => TrueNews(bus[i].news, had'), EndRow(i, phase)
  PROVE  /\ BusGrows /\ BusTrue'
         /\ bus' \in Seq(BusRow)
<1> DEFINE new == [news |-> bus[i].news, phase |-> phase]
<1>1. bus[i] \in BusRow
  BY RowsTyped
<1>2. [bus[i] EXCEPT !.phase = phase] = new
      /\ new \in BusRow
      /\ new.news = bus[i].news /\ new.phase = phase
  BY <1>1 DEF BusRow
<1> HIDE DEF new
<1>3. bus' = [bus EXCEPT ![i] = new]
  BY <1>2 DEF EndRow
<1>4. /\ bus' \in Seq(BusRow)
      /\ DOMAIN bus' = DOMAIN bus
      /\ bus'[i] = new /\ \A j \in DOMAIN bus \ {i} : bus'[j] = bus[j]
  BY <1>2, <1>3, RowsTyped
<1>5. BusGrows
  BY <1>2, <1>4 DEF BusGrows
<1>6. \A j \in DOMAIN bus : bus[j].news \in News
  BY RowsTyped
<1>7. ASSUME NEW j \in DOMAIN bus', bus'[j].phase = "sent" PROVE TrueNews(bus'[j].news, had')
  <2>1. CASE j = i
    BY <1>2, <1>4, <1>7, <2>1
  <2>2. CASE j # i
    BY <1>4, <1>6, <1>7, <2>2, StaysTrue DEF BusTrue
  <2> QED BY <2>1, <2>2
<1> QED BY <1>4, <1>5, <1>7 DEF BusTrue

LEMMA OutboxSame ==
  ASSUME KdsTypeOK, OutboxTrue, HadGrows, outbox' = outbox
  PROVE  OutboxTrue'
<1>1. \A e \in DOMAIN outbox : outbox[e].news \in News
  BY RowsTyped
<1> QED BY <1>1, StaysTrue DEF OutboxTrue

LEMMA Published ==
  ASSUME KdsTypeOK, OutboxTrue, HadGrows, NEW news \in News, TrueNews(news, had'),
         Publish(news)
  PROVE  /\ OutboxTrue' /\ DOMAIN outbox \subseteq DOMAIN outbox'
         /\ outbox' \in Seq(EventRow)
<1> DEFINE new == [news |-> news, done |-> FALSE]
<1>1. outbox' = Append(outbox, new) /\ new.news = news
  BY DEF Publish
<1>2. new \in EventRow
  BY Zenon DEF EventRow
<1> HIDE DEF new
<1>3. /\ outbox' \in Seq(EventRow)
      /\ DOMAIN outbox = 1 .. Len(outbox) /\ DOMAIN outbox' = 1 .. Len(outbox) + 1
      /\ Len(outbox) \in Nat
      /\ outbox'[Len(outbox) + 1] = new /\ \A e \in 1 .. Len(outbox) : outbox'[e] = outbox[e]
  BY <1>1, <1>2, RowsTyped
<1>4. \A e \in DOMAIN outbox : outbox[e].news \in News
  BY RowsTyped
<1>5. ASSUME NEW e \in DOMAIN outbox' PROVE TrueNews(outbox'[e].news, had')
  <2>1. CASE e = Len(outbox) + 1
    BY <1>1, <1>3, <2>1
  <2>2. CASE e # Len(outbox) + 1
    <3>1. e \in DOMAIN outbox /\ outbox'[e] = outbox[e]
      BY <1>3, <2>2
    <3> QED BY <1>4, <3>1, StaysTrue DEF OutboxTrue
  <2> QED BY <2>1, <2>2
<1> QED BY <1>3, <1>5 DEF OutboxTrue

\* An event is marked: it tells what it told.
LEMMA Marked ==
  ASSUME KdsTypeOK, OutboxTrue, HadGrows, NEW e \in DOMAIN outbox, NEW d \in BOOLEAN,
         outbox' = [outbox EXCEPT ![e] = [outbox[e] EXCEPT !.done = d]]
  PROVE  /\ OutboxTrue' /\ DOMAIN outbox' = DOMAIN outbox
         /\ outbox' \in Seq(EventRow)
<1> DEFINE new == [outbox[e] EXCEPT !.done = d]
<1>1. outbox[e] \in EventRow
  BY RowsTyped
<1>2. new \in EventRow
  BY <1>1, Zenon DEF EventRow
<1>3. new.news = outbox[e].news
  BY <1>1 DEF EventRow
<1> HIDE DEF new
<1>4. outbox' = [outbox EXCEPT ![e] = new]
  BY DEF new
<1>5. /\ outbox' \in Seq(EventRow) /\ DOMAIN outbox' = DOMAIN outbox
      /\ \A f \in DOMAIN outbox : outbox'[f].news = outbox[f].news
  BY <1>2, <1>3, <1>4, RowsTyped
<1>6. \A f \in DOMAIN outbox : outbox[f].news \in News
  BY RowsTyped
<1> QED BY <1>5, <1>6, StaysTrue DEF OutboxTrue

LEMMA SendingSame ==
  ASSUME KdsTypeOK, SendingTrue, HadGrows, BusGrows, DOMAIN outbox \subseteq DOMAIN outbox',
         sending' = sending
  PROVE  SendingTrue'
<1>1. ASSUME sending # NotSending
      PROVE  /\ sending.event \in DOMAIN outbox' /\ sending.row \in DOMAIN bus'
             /\ TrueNews(bus'[sending.row].news, had')
  <2>1. /\ sending.event \in DOMAIN outbox /\ sending.row \in DOMAIN bus
        /\ TrueNews(bus[sending.row].news, had)
    BY <1>1 DEF SendingTrue
  <2>2. bus[sending.row].news \in News /\ bus'[sending.row].news = bus[sending.row].news
    BY <2>1, RowsTyped DEF BusGrows
  <2> QED BY <2>1, <2>2, StaysTrue DEF BusGrows
<1> QED BY <1>1 DEF SendingTrue

LEMMA BoardsSame ==
  ASSUME BoardsTrue, HadGrows, shown' = shown
  PROVE  \A s \in Screen : TrueBoard(shown'[s], had')
BY StaysTrue DEF BoardsTrue
(***************************************************************************)
(* Fires, voids and the dispatcher                                         *)
(***************************************************************************)
LEMMA FirstNumber ==
  ASSUME NEW S \in SUBSET Nat, S # {}
  PROVE  Min(S) \in S
<1>1. PICK m \in S : \A n \in S : ~(<<n, m>> \in OpToRel(<, Nat))
  BY NatLessThanWellFounded, WFMin
<1>2. \A n \in S : ~(n < m)
  BY <1>1 DEF OpToRel
<1>3. \A n \in S : m <= n
  <2> SUFFICES ASSUME NEW n \in S PROVE m <= n
    OBVIOUS
  <2>1. n \in Nat /\ m \in Nat
    OBVIOUS
  <2> QED BY <1>2, <2>1
<1> QED BY <1>3 DEF Min

LEMMA LastNumber ==
  ASSUME NEW S \in SUBSET Nat, S # {}, NEW b \in Nat, \A i \in S : i <= b
  PROVE  Max(S) \in S
<1> DEFINE R == {r \in Nat : \E i \in S : r + i = b}
<1>1. PICK i \in S : TRUE
  OBVIOUS
<1>2. b - i \in R
  <2>1. i \in Nat /\ i <= b
    OBVIOUS
  <2>2. b - i \in Nat /\ (b - i) + i = b
    BY <2>1
  <2> QED BY <2>2
<1>3. PICK r \in R : \A n \in R : ~(<<n, r>> \in OpToRel(<, Nat))
  <2> HIDE DEF R
  <2>1. R \subseteq Nat
    BY DEF R
  <2> QED BY <1>2, <2>1, NatLessThanWellFounded, WFMin
<1>4. PICK m \in S : r + m = b
  OBVIOUS
<1>5. ASSUME NEW j \in S PROVE j <= m
  <2>1. j \in Nat /\ j <= b /\ m \in Nat /\ r \in Nat
    OBVIOUS
  <2>2. b - j \in Nat /\ (b - j) + j = b
    BY <2>1
  <2>3. b - j \in R
    BY <2>2
  <2>4. ~(b - j < r)
    BY <1>3, <2>2, <2>3, <2>1 DEF OpToRel
  <2> QED BY <1>4, <2>1, <2>2, <2>4
<1> QED BY <1>5 DEF Max

LEMMA FiredKeeps == ASSUME KdsInv, NEW f \in Fire, SendFired(f) PROVE KdsInv'
<1> DEFINE new == {t \in Ticket : FireOf[t] = f}
           news == [t \in new |-> "fired"]
<1>1. news \in [new -> TicketStates] /\ new \in SUBSET Ticket
  BY DEF TicketStates
<1>2. SetStates(news) /\ Publish(news)
      /\ UNCHANGED <<bus, sending, shown, call>>
  BY DEF SendFired
<1> HIDE DEF new, news
<1>3. news \in News
  BY <1>1, NewsOf
<1>4. KdsTypeOK /\ CallsGood /\ OutboxTrue /\ BusTrue /\ SendingTrue /\ BoardsTrue
  BY DEF KdsInv
<1>5. /\ HadGrows /\ state' \in [Ticket -> TicketStates]
      /\ had' \in [Ticket -> SUBSET TicketStates]
      /\ TrueBoard(state', had') /\ TrueNews(news, had')
  BY <1>1, <1>2, <1>4, SetStatesTrue
<1>6. BusGrows /\ BusTrue'
  BY <1>2, <1>4, <1>5, BusSame
<1>7. /\ OutboxTrue' /\ DOMAIN outbox \subseteq DOMAIN outbox' /\ outbox' \in Seq(EventRow)
  BY <1>2, <1>3, <1>4, <1>5, Published
<1>8. SendingTrue'
  BY <1>2, <1>4, <1>5, <1>6, <1>7, SendingSame
<1>9. /\ CallsGood' /\ DOMAIN call' = Screen /\ \A x \in Screen : DOMAIN call'[x] = Channel
      /\ call' = [x \in Screen |-> [d \in Channel |-> call'[x][d]]]
  BY <1>2, <1>4, <1>5, <1>6, CallsStayGood
<1>10. BoardsTrue'
  BY <1>2, <1>4, <1>5, BoardsSame DEF BoardsTrue
<1>11. bus' \in Seq(BusRow) /\ shown' \in [Screen -> [Ticket -> TicketStates]]
  BY <1>2, <1>4 DEF KdsTypeOK
<1>12. KdsTypeOK'
  BY <1>5, <1>7, <1>9, <1>11 DEF KdsTypeOK
<1> QED BY <1>6, <1>7, <1>8, <1>9, <1>10, <1>12 DEF KdsInv

LEMMA VoidKeeps == ASSUME KdsInv, Void PROVE KdsInv'
<1> DEFINE live == {t \in Ticket : state[t] \in Live}
           news == [t \in live |-> "cancel"]
<1>1. news \in [live -> TicketStates] /\ live \in SUBSET Ticket
  BY DEF TicketStates
<1>2. /\ SetStates(news) /\ (outbox' = outbox \/ Publish(news))
      /\ UNCHANGED <<bus, sending, shown, call>>
  BY DEF Void
<1> HIDE DEF live, news
<1>3. news \in News
  BY <1>1, NewsOf
<1>4. KdsTypeOK /\ CallsGood /\ OutboxTrue /\ BusTrue /\ SendingTrue /\ BoardsTrue
  BY DEF KdsInv
<1>5. /\ HadGrows /\ state' \in [Ticket -> TicketStates]
      /\ had' \in [Ticket -> SUBSET TicketStates]
      /\ TrueBoard(state', had') /\ TrueNews(news, had')
  BY <1>1, <1>2, <1>4, SetStatesTrue
<1>6. BusGrows /\ BusTrue'
  BY <1>2, <1>4, <1>5, BusSame
<1>7. /\ OutboxTrue' /\ DOMAIN outbox \subseteq DOMAIN outbox' /\ outbox' \in Seq(EventRow)
  <2>1. CASE outbox' = outbox
    BY <1>4, <1>5, <2>1, OutboxSame, RowsTyped
  <2>2. CASE Publish(news)
    BY <1>3, <1>4, <1>5, <2>2, Published
  <2> QED BY <1>2, <2>1, <2>2
<1>8. SendingTrue'
  BY <1>2, <1>4, <1>5, <1>6, <1>7, SendingSame
<1>9. /\ CallsGood' /\ DOMAIN call' = Screen /\ \A x \in Screen : DOMAIN call'[x] = Channel
      /\ call' = [x \in Screen |-> [d \in Channel |-> call'[x][d]]]
  BY <1>2, <1>4, <1>5, <1>6, CallsStayGood
<1>10. BoardsTrue'
  BY <1>2, <1>4, <1>5, BoardsSame DEF BoardsTrue
<1>11. bus' \in Seq(BusRow) /\ shown' \in [Screen -> [Ticket -> TicketStates]]
  BY <1>2, <1>4 DEF KdsTypeOK
<1>12. KdsTypeOK'
  BY <1>5, <1>7, <1>9, <1>11 DEF KdsTypeOK
<1> QED BY <1>6, <1>7, <1>8, <1>9, <1>10, <1>12 DEF KdsInv

\* Where the tickets stay as they are, what is left to show is that of the bus,
\* the outbox, the calls and the boards.
LEMMA StatesSame ==
  ASSUME KdsInv, UNCHANGED <<state, had>>
  PROVE  /\ KdsTypeOK /\ CallsGood /\ OutboxTrue /\ BusTrue /\ SendingTrue /\ BoardsTrue
         /\ HadGrows /\ TrueBoard(state', had')
         /\ state' \in [Ticket -> TicketStates] /\ had' \in [Ticket -> SUBSET TicketStates]
BY HadSame DEF KdsInv, KdsTypeOK, BoardsTrue

\* A step of the dispatcher or an operator.
LEMMA ServerKeeps ==
  ASSUME KdsInv, UNCHANGED <<state, had, shown, call>>, BusGrows, BusTrue', OutboxTrue',
         SendingTrue', bus' \in Seq(BusRow), outbox' \in Seq(EventRow)
  PROVE  KdsInv'
<1>1. /\ KdsTypeOK /\ CallsGood /\ BoardsTrue /\ HadGrows /\ TrueBoard(state', had')
      /\ state' \in [Ticket -> TicketStates] /\ had' \in [Ticket -> SUBSET TicketStates]
  BY StatesSame
<1>2. /\ CallsGood' /\ DOMAIN call' = Screen /\ \A x \in Screen : DOMAIN call'[x] = Channel
      /\ call' = [x \in Screen |-> [d \in Channel |-> call'[x][d]]]
  BY <1>1, CallsStayGood
<1>3. BoardsTrue'
  BY <1>1, BoardsSame DEF BoardsTrue
<1>4. shown' \in [Screen -> [Ticket -> TicketStates]]
  BY <1>1 DEF KdsTypeOK
<1>5. KdsTypeOK'
  BY <1>1, <1>2, <1>4 DEF KdsTypeOK
<1> QED BY <1>2, <1>3, <1>5 DEF KdsInv

LEMMA DispatchKeeps == ASSUME KdsInv, Dispatch PROVE KdsInv'
<1> DEFINE e == Min(Undelivered)
<1>1. KdsTypeOK /\ BusTrue /\ OutboxTrue /\ HadGrows
  BY StatesSame DEF Dispatch
<1>2. e \in DOMAIN outbox
  <2>1. Undelivered \in SUBSET Nat /\ Undelivered # {} /\ Undelivered \subseteq DOMAIN outbox
    BY <1>1, RowsTyped DEF Undelivered, Dispatch
  <2> QED BY <2>1, FirstNumber
<1>3. outbox[e].news \in News /\ TrueNews(outbox[e].news, had)
  BY <1>1, <1>2, RowsTyped DEF OutboxTrue
<1>4. /\ WriteBus(outbox[e].news) /\ sending' = [event |-> e, row |-> Len(bus) + 1]
      /\ UNCHANGED <<state, had, shown, call, outbox>>
  BY DEF Dispatch
<1> HIDE DEF e
<1>5. /\ BusGrows /\ BusTrue' /\ bus' \in Seq(BusRow)
      /\ Len(bus) + 1 \in DOMAIN bus' /\ bus'[Len(bus) + 1].news = outbox[e].news
  BY <1>1, <1>3, <1>4, BusWritten
<1>6. OutboxTrue' /\ outbox' \in Seq(EventRow)
  BY <1>1, <1>4, OutboxSame, RowsTyped
<1>7. SendingTrue'
  BY <1>2, <1>3, <1>4, <1>5 DEF SendingTrue
<1> QED BY <1>4, <1>5, <1>6, <1>7, ServerKeeps

LEMMA DispatchCommitKeeps == ASSUME KdsInv, DispatchCommit PROVE KdsInv'
<1>1. KdsTypeOK /\ BusTrue /\ OutboxTrue /\ SendingTrue /\ HadGrows
  BY StatesSame DEF DispatchCommit
<1>2. /\ sending # NotSending /\ EndRow(sending.row, "sent") /\ sending' = NotSending
      /\ outbox' = [outbox EXCEPT ![sending.event] = [outbox[sending.event] EXCEPT !.done = TRUE]]
      /\ UNCHANGED <<state, had, shown, call>>
  BY DEF DispatchCommit
<1>3. /\ sending.event \in DOMAIN outbox /\ sending.row \in DOMAIN bus
      /\ TrueNews(bus[sending.row].news, had')
  BY <1>1, <1>2 DEF SendingTrue
<1>4. BusGrows /\ BusTrue' /\ bus' \in Seq(BusRow)
  BY <1>1, <1>2, <1>3, RowEnded
<1>5. OutboxTrue' /\ outbox' \in Seq(EventRow)
  BY <1>1, <1>2, <1>3, Marked
<1>6. SendingTrue'
  BY <1>2 DEF SendingTrue
<1> QED BY <1>2, <1>4, <1>5, <1>6, ServerKeeps

LEMMA DispatchLostKeeps == ASSUME KdsInv, DispatchLost PROVE KdsInv'
<1>1. KdsTypeOK /\ BusTrue /\ OutboxTrue /\ SendingTrue /\ HadGrows
  BY StatesSame DEF DispatchLost
<1>2. /\ sending # NotSending /\ EndRow(sending.row, "lost") /\ sending' = NotSending
      /\ UNCHANGED <<state, had, shown, call, outbox>>
  BY DEF DispatchLost
<1>3. sending.row \in DOMAIN bus
  BY <1>1, <1>2 DEF SendingTrue
<1>4. BusGrows /\ BusTrue' /\ bus' \in Seq(BusRow)
  BY <1>1, <1>2, <1>3, RowEnded
<1>5. OutboxTrue' /\ outbox' \in Seq(EventRow)
  BY <1>1, <1>2, OutboxSame, RowsTyped
<1>6. SendingTrue'
  BY <1>2 DEF SendingTrue
<1> QED BY <1>2, <1>4, <1>5, <1>6, ServerKeeps

LEMMA ReplayKeeps == ASSUME KdsInv, Replay PROVE KdsInv'
<1>1. KdsTypeOK /\ BusTrue /\ OutboxTrue /\ SendingTrue /\ HadGrows
  BY StatesSame DEF Replay
<1>2. UNCHANGED <<state, had, shown, call, bus, sending>>
  BY DEF Replay
<1>3. PICK e \in DOMAIN outbox :
        outbox' = [outbox EXCEPT ![e] = [outbox[e] EXCEPT !.done = FALSE]]
  BY DEF Replay
<1>4. BusGrows /\ BusTrue' /\ bus' \in Seq(BusRow)
  BY <1>1, <1>2, BusSame, RowsTyped
<1>5. OutboxTrue' /\ outbox' \in Seq(EventRow) /\ DOMAIN outbox' = DOMAIN outbox
  BY <1>1, <1>3, Marked
<1>6. SendingTrue'
  BY <1>1, <1>2, <1>4, <1>5, SendingSame
<1> QED BY <1>2, <1>4, <1>5, <1>6, ServerKeeps
(***************************************************************************)
(* Transitions, polls and their answers                                    *)
(***************************************************************************)
\* One call is replaced by a good one, and the boards show what is true.
LEMMA ScreenKeeps ==
  ASSUME KdsInv, UNCHANGED <<outbox, sending>>, HadGrows, TrueBoard(state', had'),
         had' \in [Ticket -> SUBSET TicketStates],
         BusGrows, BusTrue', bus' \in Seq(BusRow),
         shown' \in [Screen -> [Ticket -> TicketStates]],
         \A x \in Screen : TrueBoard(shown'[x], had'),
         NEW s \in Screen, NEW c \in Channel, NEW m, SetCall(s, c, m), GoodCall(m, bus', had')
  PROVE  KdsInv'
<1>1. KdsTypeOK /\ CallsGood /\ OutboxTrue /\ SendingTrue
  BY DEF KdsInv
<1>2. /\ CallsGood' /\ DOMAIN call' = Screen /\ \A x \in Screen : DOMAIN call'[x] = Channel
      /\ call' = [x \in Screen |-> [d \in Channel |-> call'[x][d]]]
  BY <1>1, SetCallGood
<1>3. OutboxTrue' /\ outbox' \in Seq(EventRow)
  BY <1>1, OutboxSame, RowsTyped
<1>4. SendingTrue'
  BY <1>1, SendingSame
<1>5. BoardsTrue'
  BY DEF BoardsTrue
<1>6. state' \in [Ticket -> TicketStates]
  BY DEF TrueBoard
<1>7. KdsTypeOK'
  BY <1>2, <1>3, <1>6 DEF KdsTypeOK
<1> QED BY <1>2, <1>3, <1>4, <1>5, <1>7 DEF KdsInv

\* One that leaves the tickets and the bus as they are.
LEMMA AnswerKeeps ==
  ASSUME KdsInv, UNCHANGED <<state, had, outbox, bus, sending>>,
         shown' \in [Screen -> [Ticket -> TicketStates]],
         \A x \in Screen : TrueBoard(shown'[x], had),
         NEW s \in Screen, NEW c \in Channel, NEW m, SetCall(s, c, m), GoodCall(m, bus, had)
  PROVE  KdsInv'
<1>1. /\ KdsTypeOK /\ BusTrue /\ HadGrows /\ TrueBoard(state', had')
      /\ had' \in [Ticket -> SUBSET TicketStates]
  BY StatesSame
<1>2. BusGrows /\ BusTrue' /\ bus' \in Seq(BusRow)
  BY <1>1, BusSame, RowsTyped
<1>3. GoodCall(m, bus', had') /\ \A x \in Screen : TrueBoard(shown'[x], had')
  BY <1>1
<1> QED BY <1>1, <1>2, <1>3, ScreenKeeps

\* One that leaves the boards alone as well.
LEMMA AskKeeps ==
  ASSUME KdsInv, UNCHANGED <<state, had, outbox, bus, sending, shown>>,
         NEW s \in Screen, NEW c \in Channel, NEW m, SetCall(s, c, m), GoodCall(m, bus, had)
  PROVE  KdsInv'
<1>1. shown' \in [Screen -> [Ticket -> TicketStates]] /\ \A x \in Screen : TrueBoard(shown'[x], had)
  BY DEF KdsInv, KdsTypeOK, BoardsTrue
<1> QED BY <1>1, AnswerKeeps

LEMMA FlowRanks ==
  /\ \A s \in DOMAIN Rank : Rank[s] \in 1 .. 5 /\ FLOW[Rank[s]] = s
  /\ \A i \in 1 .. 5 : FLOW[i] \in TicketStates /\ FLOW[i] \in DOMAIN Rank
  /\ FLOW[1] = "fired" /\ FLOW[5] = "served" /\ Live \subseteq DOMAIN Rank
<1>1. /\ FLOW[1] = "fired" /\ FLOW[2] = "accepted" /\ FLOW[3] = "preparing"
      /\ FLOW[4] = "ready" /\ FLOW[5] = "served"
  BY DEF FLOW
<1>2. \A i \in 1 .. 5 : i = 1 \/ i = 2 \/ i = 3 \/ i = 4 \/ i = 5
  OBVIOUS
<1>3. \A i \in 1 .. 5 : FLOW[i] \in TicketStates /\ FLOW[i] \in DOMAIN Rank
  BY <1>1, <1>2 DEF TicketStates, Rank
<1>4. \A s \in DOMAIN Rank : Rank[s] \in 1 .. 5 /\ FLOW[Rank[s]] = s
  BY DEF Rank
<1>5. Live \subseteq DOMAIN Rank
  <2>1. 1 \in 1 .. 5 /\ 2 \in 1 .. 5 /\ 3 \in 1 .. 5 /\ 4 \in 1 .. 5
    OBVIOUS
  <2> QED BY <1>1, <1>3, <2>1 DEF Live
<1> QED BY <1>1, <1>3, <1>4, <1>5

LEMMA TargetState ==
  ASSUME NEW cur \in TicketStates, NEW v, NEW action \in Offered(v)
  PROVE  Target(cur, action) \in TicketStates
<1>1. action = "recall" \/ action \in TicketStates
  <2>1. ASSUME v \in Live PROVE FLOW[Rank[v] + 1] \in TicketStates
    <3>1. v \in DOMAIN Rank /\ v # "served"
      BY <2>1, FlowRanks DEF Live
    <3>2. Rank[v] \in 1 .. 5 /\ Rank[v] # 5
      BY <3>1, FlowRanks
    <3>3. Rank[v] + 1 \in 1 .. 5
      BY <3>2
    <3> QED BY <3>3, FlowRanks
  <2> QED BY <2>1 DEF Offered
<1>2. ASSUME cur \in DOMAIN Rank \ {"fired"} PROVE FLOW[Rank[cur] - 1] \in TicketStates
  <2>1. Rank[cur] \in 1 .. 5 /\ Rank[cur] # 1
    BY <1>2, FlowRanks
  <2>2. Rank[cur] - 1 \in 1 .. 5
    BY <2>1
  <2> QED BY <2>2, FlowRanks
<1> QED BY <1>1, <1>2 DEF Target

LEMMA MoveKeeps ==
  ASSUME KdsInv, NEW s \in Screen, NEW t \in Ticket, Move(s, t) PROVE KdsInv'
<1>1. /\ KdsTypeOK /\ BusTrue /\ BoardsTrue /\ HadGrows /\ TrueBoard(state', had')
      /\ had' \in [Ticket -> SUBSET TicketStates]
  BY StatesSame DEF Move
<1>2. UNCHANGED <<state, had, outbox, sending, shown>>
  BY DEF Move
<1>3. PICK action \in Offered(shown[s][t]) :
        /\ SetCall(s, "move", [kind |-> "open", ticket |-> t, row |-> Len(bus) + 1,
                               to |-> Target(state[t], action)])
        /\ WriteBus([x \in {t} |-> Target(state[t], action)])
  BY DEF Move
<1> DEFINE to == Target(state[t], action)
           news == [x \in {t} |-> to]
           m == [kind |-> "open", ticket |-> t, row |-> Len(bus) + 1, to |-> to]
<1>4. to \in TicketStates
  BY <1>1, TargetState DEF KdsTypeOK
<1>5. SetCall(s, "move", m) /\ WriteBus(news)
  BY <1>3
<1> HIDE DEF to
<1>6. news \in News
  BY <1>4, NewsOf
<1> HIDE DEF news
<1>7. /\ BusGrows /\ BusTrue' /\ bus' \in Seq(BusRow)
      /\ Len(bus) + 1 \in DOMAIN bus' /\ bus'[Len(bus) + 1].news = news
  BY <1>1, <1>5, <1>6, BusWritten
<1>8. /\ m.kind = "open" /\ m.ticket = t /\ m.row = Len(bus) + 1 /\ m.to = to
  OBVIOUS
<1> HIDE DEF m
<1>9. GoodCall(m, bus', had')
  BY <1>4, <1>7, <1>8 DEF GoodCall, news
<1>10. /\ shown' \in [Screen -> [Ticket -> TicketStates]] /\ "move" \in Channel
       /\ \A x \in Screen : TrueBoard(shown'[x], had')
  BY <1>1, <1>2 DEF KdsTypeOK, BoardsTrue, Channel
<1> QED BY <1>1, <1>2, <1>5, <1>7, <1>9, <1>10, ScreenKeeps

LEMMA AnswersGood ==
  ASSUME NEW t \in Ticket, NEW v \in TicketStates, NEW b, NEW h, v \in h[t], NEW m \in Answers(t, v)
  PROVE  GoodCall(m, b, h)
<1>1. CASE m = Wanted
  BY <1>1, CallQuiet
<1>2. CASE m = [kind |-> "reply", ticket |-> t, state |-> v]
  BY <1>2 DEF GoodCall
<1> QED BY <1>1, <1>2 DEF Answers

LEMMA MoveRefusedKeeps ==
  ASSUME KdsInv, NEW s \in Screen, NEW t \in Ticket, MoveRefused(s, t) PROVE KdsInv'
<1>1. UNCHANGED <<state, had, outbox, bus, sending, shown>>
  BY DEF MoveRefused
<1>2. PICK m \in Answers(t, state[t]) : SetCall(s, "move", m)
  BY DEF MoveRefused
<1>3. state[t] \in TicketStates /\ state[t] \in had[t]
  BY DEF KdsInv, BoardsTrue, TrueBoard
<1>4. GoodCall(m, bus, had) /\ "move" \in Channel
  BY <1>2, <1>3, AnswersGood DEF Channel
<1> QED BY <1>1, <1>2, <1>4, AskKeeps

LEMMA MoveCommitKeeps ==
  ASSUME KdsInv, NEW s \in Screen, MoveCommit(s) PROVE KdsInv'
<1> DEFINE m == call[s]["move"]
           news == [x \in {m.ticket} |-> m.to]
<1>1. /\ KdsTypeOK /\ BusTrue /\ BoardsTrue /\ "move" \in Channel
  BY DEF KdsInv, Channel
<1>2. /\ m.kind = "open" /\ EndRow(m.row, "sent") /\ SetStates(news)
      /\ UNCHANGED <<outbox, sending, shown>>
  BY DEF MoveCommit
<1>3. PICK a \in Answers(m.ticket, m.to) : SetCall(s, "move", a)
  BY DEF MoveCommit
<1>4. GoodCall(m, bus, had)
  BY <1>1 DEF KdsInv, CallsGood
<1> HIDE DEF m
<1>5. /\ m.ticket \in Ticket /\ m.row \in DOMAIN bus /\ m.to \in TicketStates
      /\ bus[m.row].news = news
  BY <1>2, <1>4 DEF GoodCall
<1>6. {m.ticket} \in SUBSET Ticket /\ news \in [{m.ticket} -> TicketStates]
  BY <1>5
<1>7. m.ticket \in DOMAIN news /\ news[m.ticket] = m.to
  OBVIOUS
<1> HIDE DEF news
<1>8. /\ HadGrows /\ state' \in [Ticket -> TicketStates]
      /\ had' \in [Ticket -> SUBSET TicketStates]
      /\ TrueBoard(state', had') /\ TrueNews(news, had')
  BY <1>1, <1>2, <1>6, SetStatesTrue
<1>9. BusGrows /\ BusTrue' /\ bus' \in Seq(BusRow)
  BY <1>1, <1>2, <1>5, <1>8, RowEnded
<1>10. m.to \in had'[m.ticket]
  BY <1>7, <1>8 DEF TrueNews
<1>11. GoodCall(a, bus', had')
  BY <1>3, <1>5, <1>10, AnswersGood
<1>12. /\ shown' \in [Screen -> [Ticket -> TicketStates]]
       /\ \A x \in Screen : TrueBoard(shown'[x], had')
  BY <1>1, <1>2, <1>8, BoardsSame DEF KdsTypeOK
<1> QED BY <1>1, <1>2, <1>3, <1>8, <1>9, <1>11, <1>12, ScreenKeeps

LEMMA MoveLostKeeps ==
  ASSUME KdsInv, NEW s \in Screen, MoveLost(s) PROVE KdsInv'
<1> DEFINE m == call[s]["move"]
<1>1. /\ KdsTypeOK /\ BusTrue /\ BoardsTrue /\ HadGrows /\ TrueBoard(state', had')
      /\ had' \in [Ticket -> SUBSET TicketStates] /\ "move" \in Channel
  BY StatesSame DEF MoveLost, Channel
<1>2. /\ m.kind = "open" /\ EndRow(m.row, "lost") /\ SetCall(s, "move", Wanted)
      /\ UNCHANGED <<state, had, outbox, sending, shown>>
  BY DEF MoveLost
<1>3. GoodCall(m, bus, had)
  BY <1>1 DEF KdsInv, CallsGood
<1> HIDE DEF m
<1>4. m.row \in DOMAIN bus
  BY <1>2, <1>3 DEF GoodCall
<1>5. BusGrows /\ BusTrue' /\ bus' \in Seq(BusRow)
  BY <1>1, <1>2, <1>4, RowEnded
<1>6. /\ shown' \in [Screen -> [Ticket -> TicketStates]]
      /\ \A x \in Screen : TrueBoard(shown'[x], had')
  BY <1>1, <1>2, BoardsSame DEF KdsTypeOK
<1> QED BY <1>1, <1>2, <1>5, <1>6, CallQuiet, ScreenKeeps

\* The rows of a poll are sent ones, and what they say last is true.
LEMMA NewestTrue ==
  ASSUME KdsTypeOK, BusTrue, NEW rows \in SUBSET Rows
  PROVE  Newest(rows) \in News /\ TrueNews(Newest(rows), had)
<1> DEFINE about(t) == {i \in rows : t \in DOMAIN bus[i].news}
           D == {x \in Ticket : about(x) # {}}
<1>1. \A i \in rows : i \in DOMAIN bus /\ bus[i].phase = "sent"
  BY DEF Rows
<1>2. ASSUME NEW t \in D
      PROVE  /\ bus[Max(about(t))].news[t] \in TicketStates
             /\ bus[Max(about(t))].news[t] \in had[t]
  <2> DEFINE S == about(t)
             last == Max(S)
  <2>1. /\ S \in SUBSET Nat /\ S # {} /\ Len(bus) \in Nat /\ \A i \in S : i <= Len(bus)
    BY <1>1, RowsTyped
  <2>2. last \in S
    <3> HIDE DEF S
    <3> QED BY <2>1, LastNumber
  <2>3. last \in rows /\ t \in DOMAIN bus[last].news
    BY <2>2
  <2> HIDE DEF last
  <2>4. bus[last].news \in News /\ TrueNews(bus[last].news, had)
    BY <1>1, <2>3, RowsTyped DEF BusTrue
  <2>5. bus[last].news \in [DOMAIN bus[last].news -> TicketStates]
    BY <2>4, NewsHas
  <2>6. bus[last].news[t] \in TicketStates /\ bus[last].news[t] \in had[t]
    BY <2>3, <2>4, <2>5 DEF TrueNews
  <2> QED BY <2>6 DEF last
<1>3. Newest(rows) = [t \in D |-> bus[Max(about(t))].news[t]]
  BY DEF Newest
<1>4. D \in SUBSET Ticket
  OBVIOUS
<1> HIDE DEF D, about
<1>5. Newest(rows) \in [D -> TicketStates] /\ \A t \in D : Newest(rows)[t] \in had[t]
  BY <1>2, <1>3
<1>6. Newest(rows) \in News
  BY <1>4, <1>5, NewsOf
<1>7. TrueNews(Newest(rows), had)
  BY <1>5 DEF TrueNews
<1> QED BY <1>6, <1>7

LEMMA PollKeeps == ASSUME KdsInv, NEW s \in Screen, Poll(s) PROVE KdsInv'
<1> DEFINE m == [kind |-> "rows", news |-> Newest(New(s)), last |-> Last(New(s), cursor[s])]
<1>1. UNCHANGED <<state, had, outbox, bus, sending, shown>> /\ SetCall(s, "poll", m)
  BY DEF Poll
<1>2. New(s) \in SUBSET Rows /\ "poll" \in Channel
  BY DEF New, Channel
<1>3. Newest(New(s)) \in News /\ TrueNews(Newest(New(s)), had)
  BY <1>2, NewestTrue DEF KdsInv
<1>4. m.kind = "rows" /\ m.news = Newest(New(s))
  OBVIOUS
<1> HIDE DEF m
<1>5. GoodCall(m, bus, had)
  BY <1>3, <1>4 DEF GoodCall
<1> QED BY <1>1, <1>2, <1>5, AskKeeps

LEMMA SnapshotKeeps ==
  ASSUME KdsInv, NEW s \in Screen, NEW c \in Channel, Snapshot(s, c) PROVE KdsInv'
<1> DEFINE m == [kind |-> "board", view |-> state, last |-> Last(Rows, 0)]
<1>1. UNCHANGED <<state, had, outbox, bus, sending, shown>> /\ SetCall(s, c, m)
  BY DEF Snapshot
<1>2. m.kind = "board" /\ m.view = state
  OBVIOUS
<1> HIDE DEF m
<1>3. GoodCall(m, bus, had)
  BY <1>2 DEF GoodCall, KdsInv, BoardsTrue
<1> QED BY <1>1, <1>3, AskKeeps

\* A board replaces one of those shown.
LEMMA BoardShown ==
  ASSUME KdsInv, NEW s \in Screen, NEW b, TrueBoard(b, had), shown' = [shown EXCEPT ![s] = b]
  PROVE  /\ shown' \in [Screen -> [Ticket -> TicketStates]]
         /\ \A x \in Screen : TrueBoard(shown'[x], had)
<1>1. shown \in [Screen -> [Ticket -> TicketStates]] /\ \A x \in Screen : TrueBoard(shown[x], had)
  BY DEF KdsInv, KdsTypeOK, BoardsTrue
<1>2. b \in [Ticket -> TicketStates]
  BY DEF TrueBoard
<1>3. shown'[s] = b /\ \A x \in Screen \ {s} : shown'[x] = shown[x]
  BY <1>1
<1> QED BY <1>1, <1>2, <1>3

LEMMA RowsArriveKeeps == ASSUME KdsInv, NEW s \in Screen, RowsArrive(s) PROVE KdsInv'
<1> DEFINE m == call[s]["poll"]
<1>1. UNCHANGED <<state, had, outbox, bus, sending>> /\ m.kind = "rows" /\ "poll" \in Channel
  BY DEF RowsArrive, Channel
<1>2. CASE offline[s]
  <2>1. SetCall(s, "poll", Wanted) /\ shown' = shown
    BY <1>2 DEF RowsArrive
  <2> QED BY <1>1, <2>1, CallQuiet, AskKeeps
<1>3. CASE ~offline[s]
  <2> DEFINE b == Overlay(m.news, shown[s])
  <2>1. SetCall(s, "poll", Quiet) /\ shown' = [shown EXCEPT ![s] = b]
    BY <1>3 DEF RowsArrive
  <2>2. GoodCall(m, bus, had)
    BY <1>1 DEF KdsInv, CallsGood
  <2> HIDE DEF m
  <2>3. m.news \in News /\ TrueNews(m.news, had)
    BY <1>1, <2>2 DEF GoodCall
  <2>4. TrueBoard(shown[s], had)
    BY DEF KdsInv, BoardsTrue
  <2>5. b = [t \in Ticket |-> IF t \in DOMAIN m.news THEN m.news[t] ELSE shown[s][t]]
    BY DEF Overlay
  <2>6. m.news \in [DOMAIN m.news -> TicketStates]
    BY <2>3, NewsHas
  <2>7. \A t \in Ticket : /\ b[t] = IF t \in DOMAIN m.news THEN m.news[t] ELSE shown[s][t]
                          /\ b[t] \in TicketStates /\ b[t] \in had[t]
    BY <2>3, <2>4, <2>5, <2>6 DEF TrueBoard, TrueNews
  <2>8. TrueBoard(b, had)
    BY <2>5, <2>7 DEF TrueBoard
  <2> HIDE DEF b
  <2> QED BY <1>1, <2>1, <2>8, BoardShown, CallQuiet, AnswerKeeps
<1> QED BY <1>2, <1>3

LEMMA BoardArrivesKeeps ==
  ASSUME KdsInv, NEW s \in Screen, NEW c \in Channel, BoardArrives(s, c) PROVE KdsInv'
<1> DEFINE m == call[s][c]
<1>1. /\ UNCHANGED <<state, had, outbox, bus, sending>> /\ m.kind = "board"
      /\ SetCall(s, c, Quiet) /\ shown' = [shown EXCEPT ![s] = m.view]
  BY DEF BoardArrives
<1>2. GoodCall(m, bus, had)
  BY DEF KdsInv, CallsGood
<1> HIDE DEF m
<1>3. TrueBoard(m.view, had)
  BY <1>1, <1>2 DEF GoodCall
<1> QED BY <1>1, <1>3, BoardShown, CallQuiet, AnswerKeeps

LEMMA ReplyArrivesKeeps == ASSUME KdsInv, NEW s \in Screen, ReplyArrives(s) PROVE KdsInv'
<1> DEFINE m == call[s]["move"]
           b == [shown[s] EXCEPT ![m.ticket] = m.state]
<1>1. /\ UNCHANGED <<state, had, outbox, bus, sending>> /\ m.kind = "reply"
      /\ SetCall(s, "move", Quiet) /\ shown' = [shown EXCEPT ![s] = b] /\ "move" \in Channel
  BY DEF ReplyArrives, Channel
<1>2. GoodCall(m, bus, had)
  BY <1>1 DEF KdsInv, CallsGood
<1> HIDE DEF m
<1>3. m.ticket \in Ticket /\ m.state \in TicketStates /\ m.state \in had[m.ticket]
  BY <1>1, <1>2 DEF GoodCall
<1>4. TrueBoard(shown[s], had)
  BY DEF KdsInv, BoardsTrue
<1>5. TrueBoard(b, had)
  BY <1>3, <1>4 DEF TrueBoard
<1> HIDE DEF b
<1> QED BY <1>1, <1>5, BoardShown, CallQuiet, AnswerKeeps

LEMMA PollLostKeeps == ASSUME KdsInv, UNCHANGED <<state, had, outbox, bus, sending, shown, call>>
                       PROVE  KdsInv'
<1>1. /\ KdsTypeOK /\ BusTrue /\ OutboxTrue /\ SendingTrue /\ HadGrows
  BY StatesSame
<1>2. BusGrows /\ BusTrue' /\ bus' \in Seq(BusRow) /\ OutboxTrue' /\ outbox' \in Seq(EventRow)
  BY <1>1, BusSame, OutboxSame, RowsTyped
<1>3. SendingTrue'
  BY <1>1, <1>2, SendingSame
<1> QED BY <1>2, <1>3, ServerKeeps

LEMMA KdsStep == KdsInv /\ [KdsNext]_kdsVars => KdsInv'
<1> SUFFICES ASSUME KdsInv, [KdsNext]_kdsVars PROVE KdsInv'
  OBVIOUS
<1>1. CASE UNCHANGED kdsVars
  BY <1>1, PollLostKeeps DEF kdsVars
<1>2. ASSUME NEW f \in Fire, SendFired(f) PROVE KdsInv'
  BY <1>2, FiredKeeps
<1>3. CASE Void \/ Dispatch \/ DispatchCommit \/ DispatchLost \/ Replay
  BY <1>3, VoidKeeps, DispatchKeeps, DispatchCommitKeeps, DispatchLostKeeps, ReplayKeeps
<1>4. ASSUME NEW s \in Screen, NEW t \in Ticket, Move(s, t) \/ MoveRefused(s, t) PROVE KdsInv'
  BY <1>4, MoveKeeps, MoveRefusedKeeps
<1>5. ASSUME NEW s \in Screen, MoveCommit(s) \/ MoveLost(s) \/ Poll(s) PROVE KdsInv'
  BY <1>5, MoveCommitKeeps, MoveLostKeeps, PollKeeps
<1>6. ASSUME NEW s \in Screen, PollLost(s) PROVE KdsInv'
  BY <1>6, PollLostKeeps DEF PollLost
<1>7. ASSUME NEW s \in Screen, NEW c \in Channel, Snapshot(s, c) PROVE KdsInv'
  BY <1>7, SnapshotKeeps
<1>8. ASSUME NEW s \in Screen, NEW c \in Channel, SnapshotLost(s, c) PROVE KdsInv'
  BY <1>8, CallQuiet, AskKeeps DEF SnapshotLost
<1>9. ASSUME NEW s \in Screen, NEW c \in Channel, Arrive(s, c) PROVE KdsInv'
  BY <1>9, RowsArriveKeeps, ReplyArrivesKeeps, BoardArrivesKeeps DEF Arrive
<1> QED BY <1>1, <1>2, <1>3, <1>4, <1>5, <1>6, <1>7, <1>8, <1>9 DEF KdsNext

\* No board ever shows a state that its ticket never had, whatever calls are
\* lost, transactions rolled back and events replayed: an open transition's
\* row is not read before it commits, and everything that was sent was true
\* then, and states a ticket had are not forgotten.
THEOREM BoardSafety == KdsSpec => []ShownWasTrue
<1>1. KdsInv => ShownWasTrue
  BY DEF KdsInv, BoardsTrue, TrueBoard, ShownWasTrue
<1> QED BY KdsInitInv, KdsStep, <1>1, PTL DEF KdsSpec
=============================================================================
