------------------------------- MODULE MCBank -------------------------------
(***************************************************************************)
(* The two roads on which a bank, not the cashier, says that an order is   *)
(* paid: terminal requests and bank-app QRs.  Two workers on one order,    *)
(* with one request or two pending QRs: each handler of the road against   *)
(* each other one, and against the handlers of the order.  The roads meet  *)
(* only in the order, so each is explored with the other not begun.        *)
(***************************************************************************)
EXTENDS TerminalTxn, PaymentQr, TLC

CONSTANTS w1, w2, m1, q1, q2, o1

MCOrderOf == [k \in RequestId |-> o1]
MCTokenOf == [k \in Token |-> o1]
MCOpeningTotal == {2}
MCSomeOutcome == {"approved", "unknown"}
MCSymmetry == Permutations({w1, w2}) \union Permutations({q1, q2})

InFlightOps == {req[w].op : w \in {v \in Worker : req[v] # Idle}}
TerminalRests == /\ txn = NoTxns
                 /\ InFlightOps \subseteq {"orders/pay", "qr/pay", "orders/comp", "orders/fire",
                      "payment/qr/generate", "payment/qr/confirm", "payment/qr/cancel"}
QrRests == qr = NoQrs /\ "payment/qr/generate" \notin InFlightOps

BankInit == TerminalInit /\ QrInit
BankNext == \/ QrRests /\ TerminalNext /\ UNCHANGED qrVars
            \/ TerminalRests /\ QrNext /\ UNCHANGED terminalVars
BankSpec == BankInit /\ [][BankNext]_<<orderVars, terminalVars, qrVars>>
=============================================================================
