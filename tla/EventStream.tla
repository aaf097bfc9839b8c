----------------------------- MODULE EventStream -----------------------------
(***************************************************************************)
(* What the outbox promises: per aggregate, events are acknowledged in the *)
(* order they were published, none twice and none that was not published.  *)
(***************************************************************************)
EXTENDS Naturals

CONSTANTS Event,      \* events, named by their ids
          Aggregate,
          AggregateOf \* [Event -> Aggregate]

VARIABLES published,    \* the events whose business change committed
          acknowledged  \* those a consumer has accepted

vars == <<published, acknowledged>>

Before(p, e) == p < e /\ AggregateOf[p] = AggregateOf[e]

Init == published = {} /\ acknowledged = {}

Publish(e) == /\ e \notin published
              /\ \A x \in published : ~Before(e, x)
              /\ published' = published \union {e}
              /\ UNCHANGED acknowledged

\* A batch holds at most one event of an aggregate, the first still to come.
Acknowledge(batch) ==
  /\ batch \subseteq published
  /\ \A e \in batch \ acknowledged : \A p \in published : Before(p, e) => p \in acknowledged
  /\ acknowledged' = acknowledged \union batch
  /\ UNCHANGED published

Next == \/ \E e \in Event : Publish(e)
        \/ \E batch \in SUBSET Event : Acknowledge(batch)

Spec == Init /\ [][Next]_vars
=============================================================================
