------------------------------- MODULE Refund -------------------------------
(***************************************************************************)
(* orders/refund against one paid order (order_refund, _lock_original and  *)
(* _resolve_refund_lines in controllers/main.py, domain/refund.py, and the *)
(* constraint on refund lines in models/pos_order.py).                     *)
(*                                                                         *)
(* The request's transaction has read, and so taken its snapshot, before   *)
(* it waits for the advisory lock of the original.  Whether two refunds of *)
(* one order also update a row in common is up to Odoo's sync_from_ui (a   *)
(* stock quantity, a sequence without gaps) and fixed by the register's    *)
(* configuration: conflicts says if they do.                               *)
(***************************************************************************)
EXTENDS Integers, FiniteSets, Functions

CONSTANTS Till,
          Uuid,       \* refund uuids, minted by the client
          Line,       \* the lines of the original order
          Sold,       \* [Line -> Nat]: units sold, at one minor unit each
          Paid,       \* orig.amount_paid
          MaxQty,     \* bound on the units of one line a request asks for
          Idle, NoTill

ASSUME RefundAssumption ==
  /\ IsFiniteSet(Till) /\ Till # {} /\ IsFiniteSet(Uuid) /\ IsFiniteSet(Line)
  /\ Sold \in [Line -> Nat] /\ Paid \in Nat /\ MaxQty \in Nat
  /\ NoTill \notin Till

VARIABLES refunds,  \* [Uuid -> [Line -> Nat]]: committed refund orders
          req,      \* [Till -> Request or Idle]
          known,    \* [Till -> [Uuid -> [Line -> Nat]]]: its snapshot of them
          stale,    \* [Till -> BOOLEAN]: a refund committed since
          holder,   \* who holds the original's advisory lock
          conflicts \* BOOLEAN: refunds of one order update a common row

refundVars == <<refunds, req, known, stale, holder, conflicts>>

\* A refund that gives nothing back is none.
Nothing == [l \in Line |-> 0]
NoRefunds == [u \in Uuid |-> Nothing]

RefundInit == /\ refunds = NoRefunds
              /\ req = [w \in Till |-> Idle]
              /\ known = [w \in Till |-> NoRefunds]
              /\ stale = [w \in Till |-> FALSE]
              /\ holder = NoTill
              /\ conflicts \in BOOLEAN

Begin(w) ==
  /\ req[w] = Idle
  /\ \E u \in Uuid, q \in [Line -> 0 .. MaxQty] : req' = [req EXCEPT ![w] = [uuid |-> u, qty |-> q]]
  /\ known' = [known EXCEPT ![w] = refunds]
  /\ UNCHANGED <<refunds, stale, holder, conflicts>>

Drop(w) == /\ req' = [req EXCEPT ![w] = Idle]
           /\ known' = [known EXCEPT ![w] = NoRefunds]
           /\ holder' = IF holder = w THEN NoTill ELSE holder

Reply(w) == /\ Drop(w)
            /\ stale' = [stale EXCEPT ![w] = FALSE]
            /\ UNCHANGED <<refunds, conflicts>>

\* A uuid that is known answers with the refund it names.
Answered(w) == /\ req[w] # Idle /\ known[w][req[w].uuid] # Nothing
               /\ Reply(w)

\* pg_advisory_xact_lock; dropping the ORM's cache leaves the snapshot.
Acquire(w) == /\ req[w] # Idle /\ known[w][req[w].uuid] = Nothing /\ holder = NoTill
              /\ holder' = w
              /\ UNCHANGED <<refunds, req, known, stale, conflicts>>

Refunded(rs, l) == SumFunctionOnSet([u \in Uuid |-> rs[u][l]], Uuid)
Total(q) == SumFunctionOnSet(q, Line)
AllRefunded(rs) == SumFunctionOnSet([u \in Uuid |-> Total(rs[u])], Uuid)

\* Mutant: the lines are checked, the money is not.
WithinQuantities(rs, q) ==
  0 < Total(q) /\ \A l \in Line : q[l] > 0 => q[l] <= Sold[l] - Refunded(rs, l)

\* check_line_quantity on every line named, then check_refund on the order.
WithinCeilings(rs, q) ==
  /\ \A l \in Line : q[l] > 0 => q[l] <= Sold[l] - Refunded(rs, l)
  /\ 0 < Total(q) /\ Total(q) <= Paid - AllRefunded(rs)

Refuse(w) == /\ holder = w /\ ~WithinCeilings(known[w], req[w].qty)
             /\ Reply(w)

\* sync_from_ui creates the refund order; unique(uuid) refuses a second one.
Create(w) ==
  /\ holder = w /\ WithinCeilings(known[w], req[w].qty)
  /\ refunds[req[w].uuid] = Nothing
  /\ conflicts => ~stale[w]
  /\ refunds' = [refunds EXCEPT ![req[w].uuid] = req[w].qty]
  /\ stale' = [v \in Till |-> v # w /\ (stale[v] \/ req[v] # Idle)]
  /\ Drop(w) /\ UNCHANGED conflicts

\* 40001, the uuid's constraint, or a crash.
Fail(w) == req[w] # Idle /\ Reply(w)

RefundNext == \E w \in Till : \/ Begin(w) \/ Answered(w) \/ Acquire(w)
                              \/ Refuse(w) \/ Create(w) \/ Fail(w)

RefundSpec == RefundInit /\ [][RefundNext]_refundVars

(***************************************************************************)
(* Properties                                                              *)
(***************************************************************************)
\* All refunds of an order together give back, line by line, no more units
\* than were sold, and in money no more than was paid -- where they conflict;
\* where they do not, once that much for each request that overlaps.
RefundsWithinSale ==
  LET times == IF conflicts THEN 1 ELSE Cardinality(Till)
  IN /\ \A l \in Line : Refunded(refunds, l) <= Sold[l] * times
     /\ AllRefunded(refunds) <= Paid * times
=============================================================================
