----------------------------- MODULE CreditGate -----------------------------
(***************************************************************************)
(* The credit limit of a customer account: orders/pay with a pay-later     *)
(* method, _mezze_credit_gate in controllers/main.py and                   *)
(* _mezze_credit_position in models/mezze_customer_credit.py.              *)
(*                                                                         *)
(* The workers charge one customer on orders of their own, so nothing but  *)
(* the lock of the gate makes them wait for each other.  A worker's        *)
(* transaction reads exposure from the snapshot its first statement took;  *)
(* FOR UPDATE waits for the holder of the customer's row and, as no tender *)
(* updates that row, then succeeds without a new snapshot.                 *)
(***************************************************************************)
EXTENDS Integers, FiniteSets

CONSTANTS Worker,
          Limit,      \* credit_limit; active
          Policies,   \* mezze_credit_policy of the methods in play
          MaxAmount,  \* bound on one tender
          MaxCharged, \* bound on exposure and on what is agreed to
          Nobody

ASSUME CreditAssumption ==
  /\ IsFiniteSet(Worker) /\ Worker # {}
  /\ Limit \in Nat \ {0} /\ MaxAmount \in Nat \ {0} /\ MaxCharged \in Nat
  /\ Policies \subseteq {"odoo_warning", "manager_approval", "hard_block"}
  /\ Policies # {}
  /\ Nobody \notin Worker

VARIABLES posted,    \* receivables posted, less what was paid in: comp.credit
          unsettled, \* pay-later tenders of sessions that are not closed
          tender,    \* [Worker -> Nat]: the amount it asks for; 0: idle
          policy,    \* [Worker -> Policies]: that of the tender's method
          consent,   \* [Worker -> BOOLEAN]: a manager, or allow_credit
          seen,      \* [Worker -> Int]: exposure in its snapshot
          lock,      \* who holds the customer's row
          agreed     \* history: charged over the limit with consent

creditVars == <<posted, unsettled, tender, policy, consent, seen, lock, agreed>>

NoPolicy == "none"

Exposure == posted + unsettled

CreditInit == /\ posted = 0 /\ unsettled = 0
              /\ tender = [w \in Worker |-> 0]
              /\ policy = [w \in Worker |-> NoPolicy]
              /\ consent = [w \in Worker |-> FALSE]
              /\ seen = [w \in Worker |-> 0]
              /\ lock = Nobody
              /\ agreed = 0

Ask(w) ==
  /\ tender[w] = 0
  /\ \E a \in 1 .. MaxAmount, p \in Policies, c \in BOOLEAN :
       /\ tender' = [tender EXCEPT ![w] = a]
       /\ policy' = [policy EXCEPT ![w] = p]
       /\ consent' = [consent EXCEPT ![w] = c]
  /\ seen' = [seen EXCEPT ![w] = Exposure]
  /\ UNCHANGED <<posted, unsettled, lock, agreed>>

Lock(w) == /\ tender[w] > 0 /\ lock = Nobody
           /\ lock' = w
           /\ UNCHANGED <<posted, unsettled, tender, policy, consent, seen, agreed>>

\* The transaction ends, and with it the lock.
Leave(w) == /\ tender' = [tender EXCEPT ![w] = 0]
            /\ policy' = [policy EXCEPT ![w] = NoPolicy]
            /\ consent' = [consent EXCEPT ![w] = FALSE]
            /\ seen' = [seen EXCEPT ![w] = 0]
            /\ lock' = IF lock = w THEN Nobody ELSE lock

Over(w) == seen[w] + tender[w] > Limit

\* Mutant: a manager may consent whatever the policy.
AllowedByConsent(w) == Over(w) => consent[w]

\* A hard block allows nobody over the limit; the other policies ask.
Allowed(w) == Over(w) => policy[w] # "hard_block" /\ consent[w]

Charge(w) == /\ lock = w /\ Allowed(w)
             /\ unsettled' = unsettled + tender[w]
             /\ agreed' = IF Over(w) /\ policy[w] # "hard_block" THEN agreed + tender[w] ELSE agreed
             /\ Exposure + tender[w] <= MaxCharged /\ agreed' <= MaxCharged
             /\ Leave(w)
             /\ UNCHANGED posted

Reject(w) == /\ lock = w /\ ~Allowed(w)
             /\ Leave(w)
             /\ UNCHANGED <<posted, unsettled, agreed>>

\* A crash, a conflict on the order's own row, or a later check that fails.
Abort(w) == /\ tender[w] > 0
            /\ Leave(w)
            /\ UNCHANGED <<posted, unsettled, agreed>>

\* Closing the session posts its tenders as receivables.
CloseSession == /\ unsettled > 0
                /\ posted' = posted + unsettled /\ unsettled' = 0
                /\ UNCHANGED <<tender, policy, consent, seen, lock, agreed>>

\* _mezze_customer_payment: a deposit, or the settlement of what is owed.
PayIn == /\ \E a \in 1 .. MaxAmount : /\ posted - a >= -MaxAmount
                                      /\ posted' = posted - a
         /\ UNCHANGED <<unsettled, tender, policy, consent, seen, lock, agreed>>

CreditNext == \/ \E w \in Worker : Ask(w) \/ Lock(w) \/ Charge(w) \/ Reject(w) \/ Abort(w)
              \/ CloseSession \/ PayIn

CreditSpec == CreditInit /\ [][CreditNext]_creditVars

(***************************************************************************)
(* Properties                                                              *)
(***************************************************************************)
\* What the customer owes beyond the limit was agreed to under a policy that
\* asks, save one tender for each register but one: those charged while the
\* others were deciding on their snapshots.
OverrunBounded == Exposure <= Limit + agreed + (Cardinality(Worker) - 1) * MaxAmount
=============================================================================
