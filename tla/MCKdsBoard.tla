----------------------------- MODULE MCKdsBoard -----------------------------
(***************************************************************************)
(* One ticket on two screens, and, for the void of a later fire, two       *)
(* tickets on one.                                                         *)
(***************************************************************************)
EXTENDS KdsBoard, TLC

CONSTANTS t1, t2, s1, s2

MCOneTicket == {t1}
MCTwoTickets == {t1, t2}
MCTwoScreens == {s1, s2}
MCOneScreen == {s1}
MCFireOf == [t \in Ticket |-> IF t = t1 THEN 1 ELSE 2]

\* "a void cascades an explicit CANCELLATION to the KDS so the kitchen stops
\* cooking" (orders/void): a cancelled ticket was announced as cancelled.
CancelIsAnnounced == \A t \in Ticket : state[t] = "cancel" => Announced(t)
=============================================================================
