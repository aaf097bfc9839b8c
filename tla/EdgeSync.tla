------------------------------ MODULE EdgeSync ------------------------------
(***************************************************************************)
(* controllers/sync.py, push: the cloud's end of offline terminals.        *)
(*                                                                         *)
(* A terminal journals what it did (mezze.sync.outbox) and its worker,     *)
(* which is not in the repository, sends it in order, from the first event *)
(* not known to be acknowledged.  A request may be late, lost or repeated: *)
(* what arrives is any batch from an event the worker has got to.  So may  *)
(* an answer: what it acknowledges is anything the cloud has taken in.     *)
(*                                                                         *)
(* A push is one snapshot-isolated transaction of an HTTP worker: Receive  *)
(* takes its snapshot, Commit writes, Abort keeps nothing.  A push that    *)
(* takes in an event updates its terminal's row, and one with points its   *)
(* loyalty card's, so a transaction that overlaps a committed one on       *)
(* either fails with 40001 ('stale').  Stock rows do not conflict:         *)
(* _update_available_quantity steps aside of a locked row.                 *)
(***************************************************************************)
EXTENDS Integers, Sequences, FiniteSets

CONSTANTS Terminal,
          Journals,    \* what they may journal: [Terminal -> Seq(events)]
          MaxOpen,     \* the cloud's HTTP workers
          BatchSize,
          NoUuid,      \* an event that came without its res_uuid
          Opening      \* [Delta -> Nat]: the balances to begin with

\* A delta event takes one unit of stock, or one point.
Delta == {"stock", "points"}
Kind == {"sale", "poison"} \union Delta

ASSUME EdgeAssumption ==
  /\ \A j \in Journals : \A t \in Terminal :
       /\ j[t] \in Seq({j[t][i] : i \in DOMAIN j[t]})
       /\ \A i \in DOMAIN j[t] : j[t][i].kind \in Kind
       \* A res_uuid is its record's, and the record's model gives the kind.
       /\ \A i, k \in DOMAIN j[t] : j[t][i].uuid = j[t][k].uuid /\ j[t][i].uuid # NoUuid
                                      => j[t][i].kind = j[t][k].kind
  /\ MaxOpen \in Nat \ {0} /\ BatchSize \in Nat \ {0}
  /\ Opening \in [Delta -> Nat]

VARIABLES journal,          \* what the terminals journal in this behaviour
          registered,
          written, synced,  \* [Terminal -> Nat]: events journalled, and known acknowledged
          cursor,           \* [Terminal -> Nat]: last_acked_seq
          outcome,          \* [Terminal -> [seq -> Outcome]]: mezze.sync.applied
          effects,          \* [Terminal -> [seq -> Nat]]: times the event was applied
          orders,           \* the res_uuids the cloud has a sale for
          balance,          \* [Delta -> Int]
          open              \* the transactions under way, each with its snapshot

edgeVars == <<journal, registered, written, synced, cursor, outcome, effects,
              orders, balance, open>>

Outcome == {"none", "applied", "skipped", "flagged", "failed"}
Seqs(t) == DOMAIN journal[t]
Uuid(t, i) == journal[t][i].uuid
KindOf(t, i) == journal[t][i].kind

EdgeInit ==
  /\ journal \in Journals /\ registered = {}
  /\ written = [t \in Terminal |-> 0] /\ synced = [t \in Terminal |-> 0]
  /\ cursor = [t \in Terminal |-> 0]
  /\ outcome = [t \in Terminal |-> [i \in Seqs(t) |-> "none"]]
  /\ effects = [t \in Terminal |-> [i \in Seqs(t) |-> 0]]
  /\ orders = {} /\ balance = Opening
  /\ open = {}

(***************************************************************************)
(* The terminal                                                            *)
(***************************************************************************)
cloudVars == <<cursor, outcome, effects, orders, balance, open>>

\* register(): an identifier already known keeps its row and its cursor.
Register(t) ==
  /\ t \notin registered
  /\ registered' = registered \union {t}
  /\ UNCHANGED <<journal, written, synced, cloudVars>>

\* What was journalled before then has only been waiting.
WriteEvent(t) ==
  /\ t \in registered /\ written[t] < Len(journal[t])
  /\ written' = [written EXCEPT ![t] = @ + 1]
  /\ UNCHANGED <<journal, registered, synced, cloudVars>>

\* How far a batch may reach that the worker sends, or has sent.  It starts at
\* or before the event after synced, so the cloud misses none in between.
Reach(t) == {to \in 1..written[t] : to <= synced[t] + BatchSize}

\* An answer arrives: everything up to its up_to_seq is flagged synced.
Acked(t) ==
  /\ \E upTo \in synced[t] + 1..cursor[t] : synced' = [synced EXCEPT ![t] = upTo]
  /\ UNCHANGED <<journal, registered, written, cloudVars>>

\* A sale the client also sent to the cloud's own order endpoint.
DirectSale(t, i) ==
  /\ i <= written[t] /\ KindOf(t, i) = "sale" /\ Uuid(t, i) \notin orders
  /\ orders' = orders \union {Uuid(t, i)}
  /\ UNCHANGED <<journal, registered, written, synced, cursor, outcome, effects,
                 balance, open>>

(***************************************************************************)
(* push                                                                    *)
(***************************************************************************)
\* Two open pushes that are alike count for one: the second can only be stale.
Receive(t, to) ==
  /\ Cardinality(open) < MaxOpen
  /\ open' = open \union {[terminal |-> t, to |-> to, orders |-> orders,
                           balance |-> balance, stale |-> FALSE]}
  /\ UNCHANGED <<journal, registered, written, synced, cursor, outcome, effects, orders, balance>>

\* Events at or below the cursor are skipped.
New(p) == cursor[p.terminal] + 1..p.to

\* Mutant: the ledger is not looked up.
RecordedNever(t, i, new) == FALSE

\* The res_uuid has a ledger row, from an earlier push or from this one.
Recorded(t, i, new) ==
  \E j \in Seqs(t) : /\ j < i /\ Uuid(t, j) = Uuid(t, i)
                     /\ outcome[t][j] # "none" \/ j \in new

\* Of this push, the delta events on account k up to i.
Taken(p, k, i) ==
  LET t == p.terminal
  IN {j \in New(p) : j <= i /\ KindOf(t, j) = k /\ ~Recorded(t, j, New(p)) /\ Uuid(t, j) # NoUuid}

\* _apply_stock_delta, _apply_loyalty_txn: read in the push's own snapshot.
DeltaOutcome(p, i) ==
  LET k == KindOf(p.terminal, i)
  IN IF p.balance[k] - Cardinality(Taken(p, k, i)) < 0 THEN "flagged" ELSE "applied"

\* _apply_sale: a sale its snapshot shows is skipped; one inserted since breaks
\* the unique uuid, and that is a dead letter.
SaleOutcome(p, i) ==
  LET u == Uuid(p.terminal, i)
  IN CASE u \in p.orders -> "skipped" [] u \in orders \ p.orders -> "failed" [] OTHER -> "applied"

Settle(p, i) ==
  LET t == p.terminal
  IN CASE Uuid(t, i) = NoUuid -> "failed"
       [] Uuid(t, i) # NoUuid /\ Recorded(t, i, New(p)) -> "skipped"
       [] OTHER -> CASE KindOf(t, i) = "sale" -> SaleOutcome(p, i)
                     [] KindOf(t, i) \in Delta -> DeltaOutcome(p, i)
                     [] OTHER -> "failed"

Applies(p) == {i \in New(p) : Settle(p, i) \in {"applied", "flagged"}}

\* Mutant: no savepoint around an event: one that fails takes the batch with it.
AnyFailure(p) == \E i \in New(p) : Settle(p, i) = "failed"

\* Rows without a res_uuid are all filed under '(none)', of which the ledger's
\* unique key leaves a terminal one; the insert is outside of the savepoint.
SecondNameless(p) ==
  LET t == p.terminal
      nameless == {i \in Seqs(t) : Uuid(t, i) = NoUuid /\ (outcome[t][i] # "none" \/ i \in New(p))}
  IN Cardinality(nameless) > 1 /\ nameless \intersect New(p) # {}

WritesPoints(p) == \E i \in Applies(p) : KindOf(p.terminal, i) = "points"

\* Mutant: a card's points are written blind.
OverlapsTerminal(p, q) == New(p) # {} /\ q.terminal = p.terminal

\* What another open push q can no longer commit once p has.
Overlaps(p, q) == \/ New(p) # {} /\ q.terminal = p.terminal
                  \/ WritesPoints(p) /\ \E i \in New(q) : KindOf(q.terminal, i) = "points"

\* Mutant: the end of the batch, whatever the cursor was.
CursorToBatch(p) == p.to

CursorAfter(p) == IF p.to > cursor[p.terminal] THEN p.to ELSE cursor[p.terminal]

Commit(p) ==
  LET t == p.terminal
  IN /\ ~p.stale /\ ~SecondNameless(p)
     /\ outcome' = [outcome EXCEPT ![t] =
          [i \in Seqs(t) |-> IF i \in New(p) THEN Settle(p, i) ELSE outcome[t][i]]]
     /\ effects' = [effects EXCEPT ![t] =
          [i \in Seqs(t) |-> IF i \in Applies(p) THEN effects[t][i] + 1 ELSE effects[t][i]]]
     /\ orders' = orders \union {Uuid(t, i) : i \in {j \in Applies(p) : KindOf(t, j) = "sale"}}
     /\ balance' = [k \in Delta |->
          balance[k] - Cardinality({i \in Applies(p) : KindOf(t, i) = k})]
     /\ cursor' = [cursor EXCEPT ![t] = CursorAfter(p)]
     /\ open' = {[q EXCEPT !.stale = @ \/ Overlaps(p, q)] : q \in open \ {p}}
     /\ UNCHANGED <<journal, registered, written, synced>>

\* 40001 on a stale snapshot; the ledger's unique key; or the process ends.
Abort(p) ==
  /\ open' = open \ {p}
  /\ UNCHANGED <<journal, registered, written, synced, cursor, outcome, effects, orders, balance>>

(***************************************************************************)
(* Specification                                                           *)
(***************************************************************************)
EdgeNext ==
  \/ \E t \in Terminal : \/ Register(t) \/ WriteEvent(t) \/ Acked(t)
                         \/ \E i \in Seqs(t) : DirectSale(t, i)
                         \/ \E to \in Reach(t) : Receive(t, to)
  \/ \E p \in open : Commit(p) \/ Abort(p)

\* The terminal's worker keeps sending from the event it is at until it is
\* answered; some request and some answer get through, a transaction ends, and
\* neither crashes nor conflicts undo every push of a terminal for ever.
Hear(t) == \E to \in Reach(t) : to > synced[t] /\ Receive(t, to)
TakeIn(t) == \E p \in open : p.terminal = t /\ New(p) # {} /\ Commit(p)

EdgeFairness ==
  /\ \A t \in Terminal : /\ WF_edgeVars(Register(t)) /\ WF_edgeVars(Acked(t))
                         /\ SF_edgeVars(Hear(t)) /\ SF_edgeVars(TakeIn(t))
  /\ WF_edgeVars(\E p \in open : Commit(p) \/ Abort(p))

EdgeSpec == EdgeInit /\ [][EdgeNext]_edgeVars
FairEdgeSpec == EdgeSpec /\ EdgeFairness

(***************************************************************************)
(* Properties                                                              *)
(***************************************************************************)
\* How an event ended, as far as the cursor goes: its ledger state, if that is
\* what happened to it.
Ending(t, i) ==
  CASE outcome[t][i] \in {"applied", "flagged"} /\ effects[t][i] = 1 -> outcome[t][i]
    [] outcome[t][i] \in {"skipped", "failed"} /\ effects[t][i] = 0 -> outcome[t][i]
    [] OTHER -> "lost or repeated"

Ingested == [t \in Terminal |-> [i \in 1..cursor[t] |-> Ending(t, i)]]

Intake == INSTANCE OrderedIngest WITH taken <- Ingested, Settled <- Outcome \ {"none"}

\* Pushes that are late, repeated, overlapping or rolled back amount to an
\* in-order, exactly-once intake of every journal: push()'s own promise.
ImplementsIngest == Intake!Spec

Distinct(t, k) == {<<t, Uuid(t, i)>> : i \in
  {j \in 1..written[t] : KindOf(t, j) = k /\ Uuid(t, j) # NoUuid}}

\* Once all that was journalled is in, the cloud stands where the terminals'
\* work put it, in whatever order they were heard: every sale that has its uuid
\* is there, and each account is down by one for every distinct delta event.
Converges ==
  (\A t \in Terminal : cursor[t] = written[t]) =>
     /\ \A t \in Terminal : \A i \in 1..written[t] :
          KindOf(t, i) = "sale" /\ Uuid(t, i) # NoUuid => Uuid(t, i) \in orders
     /\ \A k \in Delta : balance[k] = Opening[k] -
          Cardinality(UNION {Distinct(t, k) : t \in Terminal})

\* Points that went below zero left a flagged event for the manager to see.
OverdraftFlagged ==
  balance["points"] < 0 =>
    \E t \in Terminal : \E i \in Seqs(t) : KindOf(t, i) = "points" /\ outcome[t][i] = "flagged"

\* What a terminal has journalled it is in the end told was taken in: a poison
\* event, a crash, a lost answer hold nothing up, only a second event without
\* its res_uuid does.
EventuallySynced ==
  \A t \in Terminal : \A i \in UNION {DOMAIN j[t] : j \in Journals} :
    written[t] >= i ~>
      \/ synced[t] >= i
      \/ Cardinality({j \in 1..written[t] : Uuid(t, j) = NoUuid}) > 1
=============================================================================
