------------------------------ MODULE PaymentQr ------------------------------
(***************************************************************************)
(* models/mezze_payment_qr.py: a bank-app QR shown for what an order owes, *)
(* confirmed by hand once the guest has scanned it, or cancelled -- while  *)
(* other requests tender, comp and append on the same order (PosOrder).    *)
(*                                                                         *)
(* Several QRs of one order may be pending at once.  As in TerminalTxn the *)
(* rows are versioned and FOR UPDATE adds nothing to the commit's conflict.*)
(***************************************************************************)
EXTENDS PosOrder

CONSTANTS Token,          \* server-minted tokens; also tender keys
          TokenOf,        \* [Token -> Order]: the order one is minted for
          AllowPartialQr  \* the method's mezze_allow_partial

ASSUME TokenAssumption ==
  /\ Token \subseteq Key /\ Token \intersect ClientKey = {}
  /\ TokenOf \in [Token -> Order]
  /\ AllowPartialQr \in BOOLEAN

VARIABLES qr,      \* [Token -> [state, amount, shown]]: the committed rows
          qrSnap,  \* [Worker -> rows]: as a request sees them
          qrStale  \* [Worker -> BOOLEAN]: the one it is for was updated since

qrVars == <<qr, qrSnap, qrStale>>

NewQr == [state |-> "none", amount |-> 0, shown |-> 0]
NoQrs == [k \in Token |-> NewQr]

QrInit == /\ OrderInit
          /\ qr = NoQrs
          /\ qrSnap = [w \in Worker |-> NoQrs]
          /\ qrStale = [w \in Worker |-> FALSE]

QrRequests ==
  [op : {"payment/qr/generate"}, order : Order, key : {NoKey}, amount : 0 .. MaxAmount,
   extra : {0}]
  \union {q \in [op : {"payment/qr/confirm", "payment/qr/cancel"}, order : Order,
                 key : Token, amount : {0}, extra : {0}] :
            qr[q.key].state # "none" /\ q.order = TokenOf[q.key]}

\* Only the handlers of a token read its row.
QrBegin(w, q) ==
  /\ Begin(w, q)
  /\ qrSnap' = [qrSnap EXCEPT ![w] = [k \in Token |-> IF k = q.key THEN qr[k] ELSE NewQr]]
  /\ UNCHANGED <<qr, qrStale>>

KeepQrs(w) == /\ qrSnap' = [qrSnap EXCEPT ![w] = NoQrs]
              /\ qrStale' = [qrStale EXCEPT ![w] = FALSE]
              /\ UNCHANGED qr

WriteQr(w, k, c) ==
  /\ ~qrStale[w]
  /\ qr' = [qr EXCEPT ![k] = c]
  /\ qrSnap' = [qrSnap EXCEPT ![w] = NoQrs]
  /\ qrStale' = [v \in Worker |->
                   /\ v # w
                   /\ qrStale[v] \/ (req[v] # Idle /\ req[v].key = k)]

(***************************************************************************)
(* payment/qr/generate                                                     *)
(***************************************************************************)

MayGenerate(r, t) == /\ r.state = "draft"
                     /\ Remaining(r) > Eps
                     /\ TenderAllowed(r, t)
                     /\ t + Eps < Remaining(r) => AllowPartialQr

Generate(w) ==
  /\ Serving(w, "payment/qr/generate")
  /\ LET t == TenderOf(snap[w], req[w])
     IN /\ MayGenerate(snap[w], t)
        /\ \E k \in Token :
             /\ qr[k].state = "none" /\ TokenOf[k] = req[w].order
             /\ WriteQr(w, k, [state |-> "pending", amount |-> t,
                               shown |-> Remaining(snap[w])])
  /\ Reply(w)

GenerateRefused(w) == /\ Serving(w, "payment/qr/generate")
                      /\ ~MayGenerate(snap[w], TenderOf(snap[w], req[w]))
                      /\ Reply(w) /\ KeepQrs(w)

(***************************************************************************)
(* payment/qr/confirm                                                      *)
(***************************************************************************)
SeenQr(w) == qrSnap[w][req[w].key]

\* Mutant: what was shown is not compared.
AmountFits(r, c) == c.amount - Remaining(r) <= Eps

\* The QR still says what the order owes.
UpToDate(r, c) == /\ Remaining(r) - c.shown \in -Eps .. Eps
                  /\ c.amount - Remaining(r) <= Eps

\* The order's state is not looked at before the payment is added.
Confirm(w) ==
  /\ Serving(w, "payment/qr/confirm")
  /\ SeenQr(w).state = "pending" /\ UpToDate(snap[w], SeenQr(w))
  /\ LET r == snap[w]
         p == AddPayment(r, req[w].key, SeenQr(w).amount, "payment/qr/confirm")
         closing == Remaining(p) <= Eps /\ r.state = "draft"
     IN IF HasKey(r, req[w].key) THEN Reply(w)
        ELSE \/ (closing => MayClose(p)) /\ Commit(w, IF closing THEN Closed(p) ELSE p)
             \* action_pos_order_paid raised: 409, what was written stays.
             \/ closing /\ MayRefuse(p) /\ Commit(w, p)
  /\ WriteQr(w, req[w].key, [SeenQr(w) EXCEPT !.state = "confirmed"])

\* Confirmed before, cancelled, or drawn for another balance.
ConfirmRefused(w) ==
  /\ Serving(w, "payment/qr/confirm")
  /\ SeenQr(w).state # "pending" \/ ~UpToDate(snap[w], SeenQr(w))
  /\ Reply(w) /\ KeepQrs(w)

(***************************************************************************)
(* payment/qr/cancel                                                       *)
(***************************************************************************)
\* Mutant: a QR is cancelled in any state.
CancelQrAnyState(w) ==
  /\ Serving(w, "payment/qr/cancel")
  /\ WriteQr(w, req[w].key, [SeenQr(w) EXCEPT !.state = "cancelled"])
  /\ Reply(w)

CancelQr(w) ==
  /\ Serving(w, "payment/qr/cancel")
  /\ IF SeenQr(w).state = "pending"
       THEN WriteQr(w, req[w].key, [SeenQr(w) EXCEPT !.state = "cancelled"])
       ELSE KeepQrs(w)
  /\ Reply(w)

(***************************************************************************)
(* Specification                                                           *)
(***************************************************************************)
QrStep(w) == \/ Generate(w) \/ GenerateRefused(w)
             \/ Confirm(w) \/ ConfirmRefused(w)
             \/ CancelQr(w)

QrNext == \E w \in Worker :
            \/ \E q \in OrderRequests \union QrRequests : QrBegin(w, q)
            \/ OrderStep(w) /\ KeepQrs(w)
            \/ QrStep(w)

qrAllVars == <<orderVars, qrVars>>

QrSpec == QrInit /\ [][QrNext]_qrAllVars

(***************************************************************************)
(* Properties                                                              *)
(***************************************************************************)
\* A token is confirmed exactly when its order holds a payment under it, and
\* that payment is one and of the amount the QR asked for -- so a cancelled or
\* a pending QR never charged anybody.
ConfirmedIsPaid ==
  \A k \in Token :
    LET ps == row[TokenOf[k]].payments
        mine == {i \in DOMAIN ps : ps[i].key = k}
    IN /\ qr[k].state = "confirmed" <=> mine # {}
       /\ \A i, j \in mine : i = j /\ ps[i].amount = qr[k].amount

\* A QR is confirmed only while the committed order still owes what it showed,
\* also when another tender, a comp or an append commits during the request.
ConfirmedAsShown ==
  [][\A k \in Token :
       qr[k].state # "confirmed" /\ qr'[k].state = "confirmed"
         => Remaining(row[TokenOf[k]]) - qr[k].shown \in -Eps .. Eps]_qrAllVars
=============================================================================
