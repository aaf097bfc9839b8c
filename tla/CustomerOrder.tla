---------------------------- MODULE CustomerOrder ----------------------------
(***************************************************************************)
(* Orders that reach the kitchen without a waiter: the storefront, the     *)
(* counter's deliveries, the drive-thru lane, a food aggregator's webhook, *)
(* a table's bill paid online and the online checkout, whose kitchen waits *)
(* for the payment.                                                        *)
(*                                                                         *)
(* controllers/main.py (shop_order and the delivery, drivethru and         *)
(* selforder routes), controllers/checkout.py, controllers/aggregator.py,  *)
(* models/delivery.py, models/drivethru.py, models/aggregator.py and       *)
(* models/mezze_online_payment.py.  The provider and Odoo's own payment    *)
(* page are external: a transaction that is done stays done, and           *)
(* post-processing of it may run any number of times.                      *)
(*                                                                         *)
(* A handler is one step: whatever takes money updates the order's row,    *)
(* and a lifecycle step its own, so two that overlap on one fail with      *)
(* 40001 and keep nothing.  One that raises an error of its own is caught  *)
(* and commits what it wrote before.  Every order costs one unit.          *)
(***************************************************************************)
EXTENDS Naturals, FiniteSets

CONSTANTS Order,
          Row,        \* ids of delivery and drive-thru records
          Courier, NoCourier,
          Tx,         \* payment transactions of the provider
          Channels,   \* those offered in this instance
          MaxTries    \* bound on how often an order is submitted

AllChannels == {"pickup", "table", "drivethru", "shop_cod", "shop_prepaid",
                "counter_delivery", "online_pickup", "online_delivery", "aggregator"}
Online == {"online_pickup", "online_delivery"}
Deliveries == {"shop_cod", "shop_prepaid", "counter_delivery"}

ASSUME CustomerAssumption ==
  /\ Row \subseteq Nat /\ MaxTries \in Nat \ {0}
  /\ NoCourier \notin Courier /\ Channels \subseteq AllChannels

VARIABLES channel,  \* [Order -> channel or "none"]
          status,   \* [Order -> {"none", "draft", "paid"}]
          cash,     \* [Order -> Nat]: payments taken at a till or a door
          card,     \* [Order -> Nat]: payments of online transactions
          tries,    \* [Order -> Nat]: requests that placed it
          cooked,   \* [Order -> Nat]: times its tickets were made
          ready,    \* orders whose tickets are all ready
          fired,    \* mezze_kds_fired
          row,      \* [Row -> record]
          courier,  \* [Courier -> status]
          tx,       \* [Tx -> transaction]
          unfired,  \* history: online orders whose firing raised
          agg,      \* [Order -> state of its mezze.aggregator.order, or "none"]
          paused    \* self-order channels the staff paused

customerVars == <<channel, status, cash, card, tries, cooked, ready, fired, row,
                  courier, tx, unfired, agg, paused>>

Free == [kind |-> "free"]
NoTx == [state |-> "none"]

CustomerInit ==
  /\ channel = [o \in Order |-> "none"] /\ status = [o \in Order |-> "none"]
  /\ cash = [o \in Order |-> 0] /\ card = [o \in Order |-> 0]
  /\ tries = [o \in Order |-> 0] /\ cooked = [o \in Order |-> 0]
  /\ ready = {} /\ fired = {} /\ unfired = {} /\ paused = {}
  /\ agg = [o \in Order |-> "none"]
  /\ row = [r \in Row |-> Free]
  /\ courier = [c \in Courier |-> "available"]
  /\ tx = [x \in Tx |-> NoTx]

(***************************************************************************)
(* Placing an order                                                        *)
(***************************************************************************)
Try(o, ch) == /\ ch \in Channels /\ channel[o] \in {"none", ch} /\ tries[o] < MaxTries
              /\ channel' = [channel EXCEPT ![o] = ch]
              /\ tries' = [tries EXCEPT ![o] = @ + 1]

Cook(o) == cooked' = [cooked EXCEPT ![o] = @ + 1] /\ ready' = ready \ {o}

\* A new record takes the next id.
NewRow(r, rec) == /\ row[r] = Free /\ \A s \in Row : s < r => row[s] # Free
                  /\ row' = [row EXCEPT ![r] = rec]

\* selforder_pause
Pause(k) == /\ paused' = IF k \in paused THEN paused \ {k} ELSE paused \union {k}
            /\ UNCHANGED <<channel, status, cash, card, tries, cooked, ready, fired,
                           row, courier, tx, unfired, agg>>

\* _do_fire: a draft, whose tickets are made once per fire_uuid.
FireNeeded(o) == cooked[o] = 0

FireDraft(o) ==
  /\ status' = [status EXCEPT ![o] = IF @ = "none" THEN "draft" ELSE @]
  /\ IF FireNeeded(o) THEN Cook(o) ELSE UNCHANGED <<cooked, ready>>

\* shop_order for pickup and kiosk; a table's order is fired to be paid later.
PlacePickup(o) == /\ \/ Try(o, "pickup") /\ "pickup" \notin paused
                     \/ Try(o, "table")
                  /\ FireDraft(o)
                  /\ UNCHANGED <<cash, card, fired, row, courier, tx, unfired, agg, paused>>

\* drivethru_create: each call files a car.
PlaceCar(o, r) == /\ Try(o, "drivethru") /\ FireDraft(o)
                  /\ NewRow(r, [kind |-> "car", order |-> o, state |-> "preparing"])
                  /\ UNCHANGED <<cash, card, fired, courier, tx, unfired, agg, paused>>

DeliveryRow(o, ch) ==
  [kind |-> "delivery", order |-> o, courier |-> NoCourier, collected |-> FALSE,
   state |-> IF ch \in {"counter_delivery", "aggregator"} THEN "preparing" ELSE "accepted",
   mode |-> IF ch = "shop_prepaid" THEN "prepaid" ELSE "cod"]

\* shop_order for delivery, delivery_create: the order, then its tickets, then
\* the delivery; a submission that was made before repeats all but the order.
PlaceDelivery(o, ch) ==
  /\ ch \in Deliveries /\ Try(o, ch)
  /\ ch # "counter_delivery" => "delivery" \notin paused
  /\ IF status[o] # "none" THEN UNCHANGED <<status, cash>>
     ELSE IF ch = "shop_cod"
     THEN status' = [status EXCEPT ![o] = "draft"] /\ UNCHANGED cash
     ELSE status' = [status EXCEPT ![o] = "paid"] /\ cash' = [cash EXCEPT ![o] = @ + 1]
  /\ \/ UNCHANGED <<cooked, ready, row>>
     \/ Cook(o) /\ UNCHANGED row
     \/ Cook(o) /\ \E r \in Row : NewRow(r, DeliveryRow(o, ch))
  /\ UNCHANGED <<card, fired, courier, tx, unfired, agg, paused>>

\* checkout_create: always a fresh uuid; nothing is fired yet.
Checkout(o, ch) ==
  /\ ch \in Online /\ channel[o] = "none" /\ Try(o, ch)
  /\ status' = [status EXCEPT ![o] = "draft"]
  /\ IF ch = "online_delivery" THEN \E r \in Row : NewRow(r, DeliveryRow(o, ch))
                               ELSE UNCHANGED row
  /\ UNCHANGED <<cash, card, cooked, ready, fired, courier, tx, unfired, agg, paused>>

(***************************************************************************)
(* A food aggregator's webhook: prepaid, on one record per external id     *)
(***************************************************************************)
\* A replay of what has its record, rejected or not, is answered from it.
Unknown(o) == agg[o] = "none"

\* An item that is not mapped rejects the order: this request makes no pos.order.
RejectIngest(o) == /\ Unknown(o) /\ Try(o, "aggregator")
                   /\ agg' = [agg EXCEPT ![o] = "rejected"]
                   /\ UNCHANGED <<status, cash, card, cooked, ready, fired, row, courier,
                                  tx, unfired, paused>>

\* _create_order, then the record: an error on the way keeps what was made, and
\* the retry that finds no record repeats all but the order.
Ingest(o) ==
  /\ Unknown(o) /\ Try(o, "aggregator")
  /\ status' = [status EXCEPT ![o] = "paid"]
  /\ cash' = [cash EXCEPT ![o] = 1]
  /\ \/ UNCHANGED <<cooked, ready, row, agg>>
     \/ Cook(o) /\ UNCHANGED <<row, agg>>
     \/ /\ Cook(o) /\ \E r \in Row : NewRow(r, DeliveryRow(o, "aggregator"))
        /\ agg' = [agg EXCEPT ![o] = "received"]
  /\ UNCHANGED <<card, fired, courier, tx, unfired, paused>>

\* _cancel: of an ingested order it writes a state no delivery has, which
\* raises, and nothing is kept; only a rejection is ever cancelled.
CancelIngest(o) == /\ agg[o] = "rejected"
                   /\ agg' = [agg EXCEPT ![o] = "cancelled"]
                   /\ UNCHANGED <<channel, status, cash, card, tries, cooked, ready, fired,
                                  row, courier, tx, unfired, paused>>

KitchenDone(o) == /\ cooked[o] > 0 /\ o \notin ready
                  /\ ready' = ready \union {o}
                  /\ UNCHANGED <<channel, status, cash, card, tries, cooked, fired, row,
                                 courier, tx, unfired, agg, paused>>

(***************************************************************************)
(* Money                                                                   *)
(***************************************************************************)
moneyFrame == <<channel, tries, agg, paused>>

TakeCash(o) == /\ cash' = [cash EXCEPT ![o] = @ + 1]
               /\ status' = [status EXCEPT ![o] = "paid"]

\* The till settles a draft; so does drivethru_stage 'pay'.
CounterPay(o) == /\ status[o] = "draft" /\ TakeCash(o)
                 /\ UNCHANGED <<card, cooked, ready, fired, row, courier, tx, unfired, moneyFrame>>

\* Mutant: what was paid otherwise is not asked.
DueOfTotal(o) == 1

Due(o) == IF cash[o] + card[o] > 0 THEN 0 ELSE 1

\* _collect_cod: under the row's lock, once; nothing due is only flagged.
CollectCod(r) ==
  /\ row[r].kind = "delivery" /\ row[r].mode = "cod" /\ ~row[r].collected
  /\ row' = [row EXCEPT ![r] = [row[r] EXCEPT !.collected = TRUE]]
  /\ IF Due(row[r].order) > 0 THEN TakeCash(row[r].order) ELSE UNCHANGED <<cash, status>>
  /\ UNCHANGED <<card, cooked, ready, fired, courier, tx, unfired, moneyFrame>>

\* checkout_pay, checkout_table_pay: a page for a draft, and on it a transaction.
OpenPage(o, x) ==
  /\ channel[o] \in Online \union {"table"} /\ status[o] = "draft" /\ tx[x] = NoTx
  /\ tx' = [tx EXCEPT ![x] = [order |-> o, state |-> "pending", linked |-> FALSE]]
  /\ UNCHANGED <<status, cash, card, cooked, ready, fired, row, courier, unfired, moneyFrame>>

\* The provider decides, and says so when it likes.
Provider(x) ==
  /\ tx[x].state = "pending"
  /\ \E s \in {"done", "failed"} : tx' = [tx EXCEPT ![x] = [tx[x] EXCEPT !.state = s]]
  /\ UNCHANGED <<status, cash, card, cooked, ready, fired, row, courier, unfired, moneyFrame>>

\* Mutant: the flag is not read again under the row's lock.
AlreadyFiredNever(o) == FALSE

AlreadyFired(o) == o \in fired

\* Mutant: only the payment that settles the order fires it.
DraftFires(o) == channel[o] \in Online /\ status[o] = "draft"

OnlineFires(o) == channel[o] \in Online

\* _process_pos_online_payment: Odoo books the payment once per transaction,
\* then _mezze_fire_online_kds; an error in the kitchen does not undo it.
Process(x) ==
  LET o == tx[x].order
      fires == OnlineFires(o) /\ ~AlreadyFired(o)
  IN /\ tx[x].state = "done"
     /\ ~tx[x].linked \/ fires
     /\ tx' = [tx EXCEPT ![x] = [tx[x] EXCEPT !.linked = TRUE]]
     /\ card' = IF tx[x].linked THEN card ELSE [card EXCEPT ![o] = @ + 1]
     /\ status' = [status EXCEPT ![o] = "paid"]
     /\ \/ fires /\ Cook(o) /\ fired' = fired \union {o} /\ UNCHANGED unfired
        \/ fires /\ unfired' = unfired \union {o} /\ UNCHANGED <<cooked, ready, fired>>
        \/ ~fires /\ UNCHANGED <<cooked, ready, fired, unfired>>
     /\ UNCHANGED <<cash, row, courier, moneyFrame>>

(***************************************************************************)
(* models/delivery.py _transition, through delivery_state                  *)
(***************************************************************************)
Finished == {"delivered", "cancelled", "rejected"}

Legal == {<<"placed", "accept", "accepted">>, <<"placed", "reject", "rejected">>,
          <<"accepted", "start_prep", "preparing">>, <<"preparing", "ready", "ready">>,
          <<"ready", "assign", "assigned">>, <<"ready", "out", "out_for_delivery">>,
          <<"assigned", "out", "out_for_delivery">>, <<"assigned", "unassign", "ready">>,
          <<"out_for_delivery", "delivered", "delivered">>}
         \union {<<s, "cancel", "cancelled">> :
                   s \in {"placed", "accepted", "preparing", "ready", "assigned", "out_for_delivery"}}

Actions == {l[2] : l \in Legal}

\* Mutant: an override takes the action's state from anywhere.
NextAnywhere(s, act) == IF \E l \in Legal : l[2] = act
                        THEN {l[3] : l \in {k \in Legal : k[2] = act}} ELSE {s}

\* An illegal action, overridden by a manager, leaves the state.
NextState(s, act) == IF \E l \in Legal : l[1] = s /\ l[2] = act
                     THEN {l[3] : l \in {k \in Legal : k[1] = s /\ k[2] = act}} ELSE {s}

CourierAfter(r, act, c) == CASE act = "assign" -> c
                             [] act = "unassign" -> NoCourier
                             [] OTHER -> row[r].courier

IsLegal(s, act) == \E l \in Legal : l[1] = s /\ l[2] = act

\* A manager is needed to jump, and to cancel or reject what was fired.
NeedsManager(s, act) == \/ ~IsLegal(s, act)
                        \/ act \in {"cancel", "reject"} /\ s \notin {"placed", "accepted"}

\* Completing a delivery frees its courier; assigning engages the new one.
Transition(r, act, c) ==
  LET s == row[r].state
  IN /\ \E next \in NextState(s, act) :
          /\ row' = [row EXCEPT ![r] = [[row[r] EXCEPT !.state = next]
                                         EXCEPT !.courier = CourierAfter(r, act, c)]]
          /\ courier' = [k \in Courier |->
               CASE act = "assign" /\ k = c -> "on_delivery"
                 [] act # "assign" /\ next \in Finished /\ IsLegal(s, act) /\ k = row[r].courier
                      -> "available"
                 [] OTHER -> courier[k]]
     /\ UNCHANGED <<channel, status, cash, card, tries, cooked, ready, fired, tx, unfired,
                   agg, paused>>

DeliveryState(r) == /\ row[r].kind = "delivery"
                    /\ \E act \in Actions, c \in Courier :
                         ~NeedsManager(row[r].state, act) /\ Transition(r, act, c)
ManagerState(r) == /\ row[r].kind = "delivery"
                   /\ \E act \in Actions, c \in Courier :
                        NeedsManager(row[r].state, act) /\ Transition(r, act, c)

(***************************************************************************)
(* The drive-thru lane                                                     *)
(***************************************************************************)
CarTo(r, s) == /\ row' = [row EXCEPT ![r] = [row[r] EXCEPT !.state = s]]
               /\ UNCHANGED <<channel, status, cash, card, tries, cooked, ready, fired,
                              courier, tx, unfired, agg, paused>>

\* drivethru_board lights up a car whose kitchen is done.
Board(r) == /\ row[r].kind = "car" /\ row[r].state = "preparing" /\ row[r].order \in ready
            /\ CarTo(r, "ready")

MayCollect(r) == status[row[r].order] = "paid"

\* drivethru_stage: only the hand-off has a condition.
Stage(r) == /\ row[r].kind = "car"
            /\ \/ \E s \in {"ready", "at_window", "cancelled"} : CarTo(r, s)
               \/ MayCollect(r) /\ CarTo(r, "collected")

(***************************************************************************)
(* Specification                                                           *)
(***************************************************************************)
CustomerNext ==
  \/ \E o \in Order : \/ PlacePickup(o) \/ KitchenDone(o) \/ CounterPay(o)
                      \/ RejectIngest(o) \/ Ingest(o) \/ CancelIngest(o)
                      \/ \E r \in Row : PlaceCar(o, r)
                      \/ \E ch \in Channels : PlaceDelivery(o, ch) \/ Checkout(o, ch)
                      \/ \E x \in Tx : OpenPage(o, x)
  \/ \E x \in Tx : Provider(x) \/ Process(x)
  \/ \E r \in Row : CollectCod(r) \/ DeliveryState(r) \/ ManagerState(r) \/ Board(r) \/ Stage(r)
  \/ \E k \in {"pickup", "delivery"} : Pause(k)

\* Odoo post-processes a transaction that is done, from the page or its cron.
CustomerFairness == \A x \in Tx : WF_customerVars(Process(x))

CustomerSpec == CustomerInit /\ [][CustomerNext]_customerVars /\ CustomerFairness

(***************************************************************************)
(* Properties                                                              *)
(***************************************************************************)
\* The kitchen never starts on an online order that is not paid, and cooks it
\* once whatever is notified twice; a retried submission is cooked once too,
\* save a delivery's, which is cooked for every try.  What an aggregator sent is
\* recorded as received with one delivery, however often it is sent.
CookedOnce ==
  \A o \in Order : /\ cooked[o] <= IF channel[o] \in Deliveries \union {"aggregator"}
                                  THEN tries[o] ELSE 1
                   /\ channel[o] \in Online /\ cooked[o] > 0 => card[o] > 0
                   /\ agg[o] = "received" =>
                        Cardinality({r \in Row : row[r].kind = "delivery" /\ row[r].order = o}) = 1

\* Cash is taken once per order, be it at the till, at the window or at the
\* door of any of its deliveries; what is paid has a payment and a draft has
\* none; a car that left was paid for, and so was a delivery that was collected.
PaidOnce ==
  \A o \in Order :
    /\ cash[o] <= 1
    /\ status[o] = "paid" <=> cash[o] + card[o] > 0
    /\ \A r \in Row : row[r].kind # "free" /\ row[r].order = o =>
         /\ row[r].kind = "car" /\ row[r].state = "collected" => status[o] = "paid"
         /\ row[r].kind = "delivery" /\ row[r].collected => status[o] = "paid"

\* A delivery that was delivered, cancelled or rejected stays so, whatever a
\* manager overrides, and one that is assigned has a courier.
FinishedStays ==
  [][\A r \in Row : row[r].kind = "delivery" =>
       /\ row[r].state \in Finished => row'[r].state = row[r].state
       /\ row'[r].state = "assigned" => row'[r].courier # NoCourier]_customerVars

\* An online order that was paid on its page is in the end cooked, though the
\* notification be late or lost, unless firing it raised an error.
PaidGetsCooked ==
  \A x \in Tx : tx[x].state = "done" ~>
    /\ tx[x].state = "done"
    /\ tx[x].order \in unfired \/ cooked[tx[x].order] > 0
=============================================================================
