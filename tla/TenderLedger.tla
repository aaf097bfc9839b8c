---------------------------- MODULE TenderLedger ----------------------------
(***************************************************************************)
(* What settling an order promises, whatever handler takes the money: an   *)
(* open order may be repriced, a tender never carries what is settled past *)
(* what is due, an order closes only on a settled balance, and nothing     *)
(* about its money moves once it is closed.                                *)
(***************************************************************************)
EXTENDS Integers

CONSTANT Order

VARIABLES due,      \* [Order -> Nat]      what the order's lines add up to
          settled,  \* [Order -> Nat]      what its tenders add up to
          closed    \* [Order -> BOOLEAN]  the sale is final

vars == <<due, settled, closed>>

\* One minor unit of the currency: every comparison of the settlement code
\* is made "within eps".
Eps == 1

Balanced(d, s) == d - s <= Eps /\ s - d <= Eps

Init == /\ due \in [Order -> Nat]
        /\ settled = [o \in Order |-> 0]
        /\ closed = [o \in Order |-> FALSE]

\* One request's effect on one open order: its price may change, at most one
\* tender is added, and the order may close.
Settle(o) ==
  /\ ~closed[o]
  /\ due'[o] \in Nat
  /\ settled'[o] >= settled[o]
  /\ settled'[o] > settled[o] => settled'[o] <= due'[o] + Eps
  /\ closed'[o] \in BOOLEAN
  /\ closed'[o] => Balanced(due'[o], settled'[o])
  /\ due' = [due EXCEPT ![o] = due'[o]]
  /\ settled' = [settled EXCEPT ![o] = settled'[o]]
  /\ closed' = [closed EXCEPT ![o] = closed'[o]]

Next == \E o \in Order : Settle(o)

Spec == Init /\ [][Next]_vars
=============================================================================
