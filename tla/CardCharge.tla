----------------------------- MODULE CardCharge -----------------------------
(***************************************************************************)
(* A card charge at the counter and its reversal: payment/intent, /status, *)
(* /void and the reversals queue of controllers/w1.py, mezze.reversal.     *)
(* The till (static/pos.html) opens a charge, polls it for 90 seconds,     *)
(* records the sale once it is captured, and voids a charge it could not   *)
(* confirm or whose sale failed.  Every call, and every answer, may be     *)
(* lost.  The provider's webhook (payment_paymob) is external.             *)
(* The attempts below are those of one sale, whose uuid they share.        *)
(***************************************************************************)
EXTENDS FiniteSets

CONSTANTS Attempt,        \* charges opened for the sale
          SupportsRefund, \* provider.support_refund, for those in play
          NoCharge

ASSUME ChargeAssumption == NoCharge \notin Attempt /\ SupportsRefund \subseteq BOOLEAN

VARIABLES tx,       \* [Attempt -> state of its payment.transaction]
          till,     \* the charge the till works on, and what it does
          sale,     \* the attempts under which the till asked for the sale
          recorded, \* whether the sale is recorded
          reversal, \* [Attempt -> state of its mezze.reversal]
          back,     \* attempts whose money Odoo gave back
          missed    \* [Attempt -> "no", "early", "lost"]: history, its void

chargeVars == <<tx, till, sale, recorded, reversal, back, missed>>

AtRest == [charge |-> NoCharge, stage |-> "rest"]

ChargeInit == /\ tx = [a \in Attempt |-> "none"] /\ till = AtRest
              /\ sale = {} /\ recorded = FALSE
              /\ reversal = [a \in Attempt |-> "none"] /\ back = {}
              /\ missed = [a \in Attempt |-> "no"]

\* payment_intent: a draft transaction; without a checkout page nobody pays it.
Intent(a) ==
  /\ till = AtRest /\ tx[a] = "none"
  /\ \/ tx' = [tx EXCEPT ![a] = "draft"] /\ till' = [charge |-> a, stage |-> "poll"]
     \/ tx' = [tx EXCEPT ![a] = "unpaid"] /\ till' \in {AtRest, [charge |-> a, stage |-> "poll"]}
  /\ UNCHANGED <<sale, recorded, reversal, back, missed>>

\* The provider's webhook, at any time.
Webhook(a) == /\ tx[a] = "draft" /\ \E s \in {"done", "error"} : tx' = [tx EXCEPT ![a] = s]
              /\ UNCHANGED <<till, sale, recorded, reversal, back, missed>>

\* payment_status; a charge that failed, or took too long, is to be voided.
Poll(a) == /\ till = [charge |-> a, stage |-> "poll"]
           /\ till' \in {[charge |-> a, stage |-> "void"]} \union
                        (IF tx[a] = "done" THEN {[charge |-> a, stage |-> "sale"]} ELSE {})
           /\ UNCHANGED <<tx, sale, recorded, reversal, back, missed>>

\* orders/sync: the uuid records one sale; the till believes what it hears.
RecordSale(a) ==
  /\ till = [charge |-> a, stage |-> "sale"]
  /\ \/ /\ recorded' = TRUE /\ sale' = sale \union {a}
        /\ till' = [charge |-> a, stage |-> "sold"]
     \/ /\ recorded' \in {recorded, TRUE} /\ till' = [charge |-> a, stage |-> "void"]
        /\ UNCHANGED sale
  /\ UNCHANGED <<tx, reversal, back, missed>>

Captured(a) == tx[a] \in {"authorized", "done"}

\* Mutant: a refund that raises leaves nothing behind.
OutcomesNoFlag == [reverse |-> {"reversed", "none"}, flag |-> {"open"}]

\* What payment_void files: _refund may raise; without one a manager must do it.
Outcomes == [reverse |-> {"reversed", "open"}, flag |-> {"open"}]

VoidCaptured(a) ==
  \E s \in SupportsRefund : \E r \in Outcomes[IF s THEN "reverse" ELSE "flag"] :
    /\ reversal' = [reversal EXCEPT ![a] = r]
    /\ back' = IF r = "reversed" THEN back \union {a} ELSE back
    /\ UNCHANGED missed

\* Nothing captured, nothing to reverse: only the audit log knows.
VoidNoop(a) == missed' = [missed EXCEPT ![a] = "early"] /\ UNCHANGED <<reversal, back>>

Void(a) ==
  /\ till = [charge |-> a, stage |-> "void"] /\ till' = AtRest
  /\ \/ IF Captured(a) THEN VoidCaptured(a) ELSE VoidNoop(a)
     \/ missed' = [missed EXCEPT ![a] = "lost"] /\ UNCHANGED <<reversal, back>>
  /\ UNCHANGED <<tx, sale, recorded>>

\* reversals_resolve, whatever the state of the row.
Resolve(a) == /\ reversal[a] \in {"open", "reversed"}
              /\ reversal' = [reversal EXCEPT ![a] = "resolved"]
              /\ UNCHANGED <<tx, till, sale, recorded, back, missed>>

ChargeNext == \E a \in Attempt : \/ Intent(a) \/ Webhook(a) \/ Poll(a) \/ RecordSale(a)
                                 \/ Void(a) \/ Resolve(a)

ChargeSpec == ChargeInit /\ [][ChargeNext]_chargeVars

(***************************************************************************)
(* Properties                                                              *)
(***************************************************************************)
\* The till is not working on it, and took no sale for it.
LeftOver(a) == Captured(a) /\ till.charge # a /\ a \notin sale

\* Captured money that paid no sale is in the managers' queue or given back,
\* unless its void was lost or came before the capture; and money that paid a
\* sale the till knows of is never given back.
ChargesAccounted ==
  \A a \in Attempt : /\ LeftOver(a) /\ missed[a] = "no" => reversal[a] # "none"
                     /\ a \in sale => recorded /\ Captured(a) /\ reversal[a] = "none"

\* "a captured (or unconfirmed) charge is reversed or flagged ... money can't be
\* stranded silently": so too when the void came before the capture.
NeverStranded == \A a \in Attempt : LeftOver(a) /\ missed[a] # "lost" => reversal[a] # "none"
=============================================================================
