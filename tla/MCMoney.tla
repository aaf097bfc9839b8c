------------------------------ MODULE MCMoney ------------------------------
(***************************************************************************)
(* Four components of the money side that share no state, each explored    *)
(* with the others at rest.                                                *)
(*   CreditGate: two registers, so that one may decide while the other     *)
(*     does; a tender of the size of the limit is over it as soon as       *)
(*     anything is charged.                                                *)
(*   Refund: three uuids on two lines, with less paid than the lines add   *)
(*     up to, so that each ceiling binds on its own.                       *)
(*   CounterSale: two orders for two cards, one coupon and one reward; a   *)
(*     combo whose children do not divide its price.                       *)
(*   CardCharge: two attempts for one sale.                                *)
(***************************************************************************)
EXTENDS CreditGate, Refund, CounterSale, CardCharge, TLC

CONSTANTS w1, w2, o1, o2, o3, l1, l2

MCAll == {"hard_block", "manager_approval"}
MCHard == {"hard_block"}
MCSold == l1 :> 2 @@ l2 :> 1

PlainCart == [plain |-> 3, bases |-> <<>>, list |-> 0, extra |-> 0, card |-> 0]
ComboCart == [plain |-> 1, bases |-> <<1, 1, 1>>, list |-> 2, extra |-> 1, card |-> 0]
CardCart == [plain |-> 0, bases |-> <<>>, list |-> 0, extra |-> 0, card |-> 2]
MCCarts == {PlainCart, ComboCart, CardCart}
MCTenders == {<<>>, <<1, 1>>}

\* The registers' names also name cards and attempts, those of orders refunds.
MCSymmetry == Permutations({w1, w2}) \union Permutations({o1, o2})

CreditRests == CreditInit
RefundRests == refunds = NoRefunds /\ \A w \in Till : req[w] = Idle /\ conflicts
SaleRests == SaleInit
ChargeRests == ChargeInit

MoneyInit == CreditInit /\ RefundInit /\ SaleInit /\ ChargeInit

MoneyNext ==
  \/ /\ RefundRests /\ SaleRests /\ ChargeRests /\ CreditNext
     /\ UNCHANGED <<refundVars, saleVars, chargeVars>>
  \/ /\ CreditRests /\ SaleRests /\ ChargeRests /\ RefundNext
     /\ UNCHANGED <<creditVars, saleVars, chargeVars>>
  \/ /\ CreditRests /\ RefundRests /\ ChargeRests /\ SaleNext
     /\ UNCHANGED <<creditVars, refundVars, chargeVars>>
  \/ /\ CreditRests /\ RefundRests /\ SaleRests /\ ChargeNext
     /\ UNCHANGED <<creditVars, refundVars, saleVars>>

MoneySpec == MoneyInit /\ [][MoneyNext]_<<creditVars, refundVars, saleVars, chargeVars>>

\* "two registers cannot both pass on the same stale available credit"
LimitHeld == Policies = {"hard_block"} => Exposure <= Limit

\* Bound on the sales explored: two of these at a time.
TwoAspects ==
  Cardinality({i \in 1 .. 6 :
    <<\E k \in Card : issued[k] > 0, redeemed > 0, \E o \in Order : order[o].tries > 0,
      approvals # {}, returned # {}, \E o \in Order : 0 \in Range(order[o].lines)>>[i]}) <= 2
=============================================================================
