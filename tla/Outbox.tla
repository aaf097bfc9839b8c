------------------------------- MODULE Outbox -------------------------------
(***************************************************************************)
(* models/outbox_event.py: events written in the business transaction,     *)
(* delivered after it commits by dispatchers -- the post-commit hook of a  *)
(* request, the cron of any process -- each claiming, delivering and       *)
(* acknowledging a batch in one transaction.                               *)
(*                                                                         *)
(* A dispatcher's transaction is Claim (its snapshot and its row locks),   *)
(* one Deliver or Fail per event, then Finish, which commits; Rollback, a  *)
(* crash or an error 40001, drops all of it save what a consumer has       *)
(* already sent outside the database.  So 'inflight' is never committed.   *)
(* A claim on an older snapshot fails with 40001 on any row delivered      *)
(* since, so a claim that succeeds has seen its rows as they are.          *)
(***************************************************************************)
EXTENDS Integers, FiniteSets

CONSTANTS Event,        \* ids, in the order the sequence hands them out
          Aggregate,
          AggregateOf,  \* [Event -> Aggregate]
          KindOf,       \* [Event -> Kind]: the consumer of its type
          Serial,       \* publishers of an aggregate update its row first
          Dispatcher,
          BatchSize,
          MaxAttempts,  \* [Dispatcher -> Nat]: 5 after a commit, 8 in the cron
          MaxRollbacks, \* bound on crashes and conflicts of dispatchers
          MaxReplays    \* bound on operator replays

\* bus and projection write to the database; the others leave it.
Kind == {"bus", "projection", "webhook", "print", "drawer"}
Escapes == {"webhook", "print", "drawer"}

ASSUME OutboxAssumption ==
  /\ Event \subseteq Nat /\ IsFiniteSet(Event)
  /\ AggregateOf \in [Event -> Aggregate]
  /\ KindOf \in [Event -> Kind]
  /\ Serial \in BOOLEAN
  /\ BatchSize \in Nat \ {0}
  /\ MaxAttempts \in [Dispatcher -> Nat \ {0}]
  /\ MaxRollbacks \in Nat /\ MaxReplays \in Nat

VARIABLES status,    \* [Event -> Status]
          attempts,  \* [Event -> Nat]: attempt_count
          due,       \* next_retry is unset or past
          claimed,   \* [Dispatcher -> SUBSET Event]: its uncommitted batch
          result,    \* [Event -> Result]: the outcome it has written so far
          ledger,    \* hardware jobs recorded as done (mezze.hw.job)
          effects,   \* [Event -> Nat]: times the consumer's effect took place;
                     \* of a print, the complete receipts
          acked,     \* history: the events ever done
          rollbacks, replays

outboxVars == <<status, attempts, due, claimed, result, ledger, effects, acked,
                rollbacks, replays>>

\* unborn: no id yet; open: inserted by a transaction that has not ended;
\* lost: that transaction rolled back.
Status == {"unborn", "open", "lost", "pending", "failed", "done", "dead"}
Result == {"none", "done", "expired", "failed", "dead"}

Committed == {e \in Event : status[e] \in {"pending", "failed", "done", "dead"}}

Before(p, e) == p < e /\ AggregateOf[p] = AggregateOf[e]

OutboxInit == /\ status = [e \in Event |-> "unborn"]
              /\ attempts = [e \in Event |-> 0]
              /\ due = Event
              /\ claimed = [d \in Dispatcher |-> {}]
              /\ result = [e \in Event |-> "none"]
              /\ ledger = {} /\ acked = {}
              /\ effects = [e \in Event |-> 0]
              /\ rollbacks = 0 /\ replays = 0

(***************************************************************************)
(* publish, and the end of the business transaction                        *)
(***************************************************************************)
\* A key published before is swallowed: an event is inserted once.
Publish(e) ==
  /\ status[e] = "unborn"
  /\ \A x \in Event : x < e => status[x] # "unborn"
  /\ Serial => \A x \in Event : status[x] = "open" => AggregateOf[x] # AggregateOf[e]
  /\ status' = [status EXCEPT ![e] = "open"]
  /\ UNCHANGED <<attempts, due, claimed, result, ledger, effects, acked, rollbacks, replays>>

EndBusiness(e) ==
  /\ status[e] = "open"
  /\ \E s \in {"pending", "lost"} : status' = [status EXCEPT ![e] = s]
  /\ UNCHANGED <<attempts, due, claimed, result, ledger, effects, acked, rollbacks, replays>>

(***************************************************************************)
(* _claim                                                                  *)
(***************************************************************************)

Locked == UNION {claimed[d] : d \in Dispatcher}

\* Mutants: a dead event does not hold its aggregate back; a failed one is
\* never claimed again.
ClaimablePastDead ==
  {e \in Event : /\ status[e] \in {"pending", "failed"} /\ e \in due
                 /\ \A p \in Committed : Before(p, e) => status[p] \in {"done", "dead"}}
ClaimableOnce ==
  {e \in Event : /\ status[e] = "pending"
                 /\ \A p \in Committed : Before(p, e) => status[p] = "done"}

Claimable == {e \in Event :
                /\ status[e] \in {"pending", "failed"} /\ e \in due
                /\ \A p \in Committed : Before(p, e) => status[p] = "done"}

\* ORDER BY id LIMIT BatchSize FOR UPDATE SKIP LOCKED
Claim(d) ==
  /\ claimed[d] = {}
  /\ \E batch \in SUBSET (Claimable \ Locked) :
       LET left == (Claimable \ Locked) \ batch
       IN /\ batch # {} /\ Cardinality(batch) <= BatchSize
          /\ left # {} => Cardinality(batch) = BatchSize
          /\ \A x \in batch, y \in left : x < y
          /\ claimed' = [claimed EXCEPT ![d] = batch]
  /\ UNCHANGED <<status, attempts, due, result, ledger, effects, acked, rollbacks, replays>>

(***************************************************************************)
(* _dispatch_batch                                                         *)
(***************************************************************************)
\* Events are delivered oldest first.
Current(d, e) == /\ e \in claimed[d] /\ result[e] = "none"
                 /\ \A x \in claimed[d] : x < e => result[x] # "none"

\* Mutant: hardware jobs are not looked up in their ledger.
DuplicateProjection(e) == KindOf[e] = "projection" /\ effects[e] > 0

\* Sent before: the job ledger and the projection's own search know it.
Duplicate(e) == \/ KindOf[e] \in {"print", "drawer"} /\ e \in ledger
                \/ KindOf[e] = "projection" /\ effects[e] > 0

Sends(e) == [effects EXCEPT ![e] = @ + 1]

Deliver(d, e) ==
  /\ Current(d, e)
  /\ result' = [result EXCEPT ![e] = "done"]
  /\ effects' = IF KindOf[e] \in Escapes /\ ~Duplicate(e) THEN Sends(e) ELSE effects
  /\ UNCHANGED <<status, attempts, due, claimed, ledger, acked, rollbacks, replays>>

\* A drawer command that has grown old is acknowledged and not executed.
Expire(d, e) ==
  /\ Current(d, e) /\ KindOf[e] = "drawer"
  /\ result' = [result EXCEPT ![e] = "expired"]
  /\ UNCHANGED <<status, attempts, due, claimed, ledger, effects, acked, rollbacks, replays>>

\* domain/outbox.py decide: the claim has counted this attempt.
Decide(permanent, attempt, budget) ==
  IF permanent \/ attempt >= budget THEN "dead" ELSE "failed"

\* The consumer raised; its savepoint is undone.  A webhook may have arrived
\* and the answer been lost.
Fail(d, e) ==
  /\ Current(d, e)
  /\ \E permanent \in BOOLEAN :
       result' = [result EXCEPT ![e] = Decide(permanent, attempts[e] + 1, MaxAttempts[d])]
  /\ \/ UNCHANGED effects
     \/ KindOf[e] = "webhook" /\ effects' = Sends(e)
  /\ UNCHANGED <<status, attempts, due, claimed, ledger, acked, rollbacks, replays>>

Release(d) == /\ claimed' = [claimed EXCEPT ![d] = {}]
              /\ result' = [e \in Event |-> IF e \in claimed[d] THEN "none" ELSE result[e]]

\* Mutant: the batch is acknowledged as a whole.
AcceptedBatch(d) == claimed[d]

Accepted(d) == {e \in claimed[d] : result[e] \in {"done", "expired"}}

Finish(d) ==
  LET batch == claimed[d]
      written == {e \in Accepted(d) : KindOf[e] \notin Escapes /\ ~Duplicate(e)}
  IN /\ batch # {} /\ \A e \in batch : result[e] # "none"
     /\ status' = [e \in Event |-> CASE e \in Accepted(d) -> "done"
                                     [] e \in batch \ Accepted(d) -> result[e]
                                     [] OTHER -> status[e]]
     /\ attempts' = [e \in Event |-> IF e \in batch THEN attempts[e] + 1 ELSE attempts[e]]
     /\ due' = due \ {e \in batch : result[e] = "failed"}
     /\ ledger' = ledger \union {e \in batch : /\ result[e] = "done"
                                               /\ KindOf[e] \in {"print", "drawer"}}
     /\ effects' = [e \in Event |-> IF e \in written THEN effects[e] + 1 ELSE effects[e]]
     /\ acked' = acked \union Accepted(d)
     /\ Release(d)
     /\ UNCHANGED <<rollbacks, replays>>

Rollback(d) ==
  /\ claimed[d] # {} /\ rollbacks < MaxRollbacks
  /\ rollbacks' = rollbacks + 1
  /\ Release(d)
  /\ UNCHANGED <<status, attempts, due, ledger, effects, acked, replays>>

(***************************************************************************)
(* Time, and the operator's replay()                                       *)
(***************************************************************************)
BackoffEnds(e) ==
  /\ status[e] = "failed" /\ e \notin due
  /\ due' = due \union {e}
  /\ UNCHANGED <<status, attempts, claimed, result, ledger, effects, acked, rollbacks, replays>>

Replay(e) ==
  /\ status[e] \in {"dead", "done"} /\ replays < MaxReplays
  /\ replays' = replays + 1
  /\ status' = [status EXCEPT ![e] = "pending"]
  /\ attempts' = [attempts EXCEPT ![e] = 0]
  /\ due' = due \union {e}
  /\ UNCHANGED <<claimed, result, ledger, effects, acked, rollbacks>>

(***************************************************************************)
(* Specification                                                           *)
(***************************************************************************)
Dispatch(d) == \/ \E e \in Event : Deliver(d, e) \/ Expire(d, e) \/ Fail(d, e)
               \/ Finish(d)

OutboxNext ==
  \/ \E e \in Event : Publish(e) \/ EndBusiness(e) \/ BackoffEnds(e) \/ Replay(e)
  \/ \E d \in Dispatcher : Claim(d) \/ Dispatch(d) \/ Rollback(d)

\* The cron claims every minute, a transaction that is not rolled back ends,
\* and a backoff is finite.
Fairness == /\ WF_outboxVars(\E d \in Dispatcher : Claim(d))
            /\ \A d \in Dispatcher : WF_outboxVars(Dispatch(d))
            /\ \A e \in Event : WF_outboxVars(BackoffEnds(e))

OutboxSpec == OutboxInit /\ [][OutboxNext]_outboxVars
FairOutboxSpec == OutboxSpec /\ Fairness

(***************************************************************************)
(* Properties                                                              *)
(***************************************************************************)
\* Every variable holds a value of its kind.
OutboxTypeOK ==
  /\ status \in [Event -> Status]
  /\ attempts \in [Event -> Nat]
  /\ due \subseteq Event
  /\ claimed \in [Dispatcher -> SUBSET Event]
  /\ result \in [Event -> Result]
  /\ ledger \subseteq Event /\ acked \subseteq Event
  /\ effects \in [Event -> Nat]
  /\ rollbacks \in Nat /\ replays \in Nat

\* What a dispatcher holds nobody else holds, and it is still to be delivered
\* in the database.
ClaimsAreExclusive ==
  \A d \in Dispatcher :
    /\ \A e \in claimed[d] : status[e] \in {"pending", "failed"}
    /\ \A c \in Dispatcher : c # d => claimed[c] \intersect claimed[d] = {}

\* No event reaches its consumer while an earlier one of its aggregate that
\* committed has never been acknowledged -- through retries, dead letters,
\* replays, rollbacks and concurrent dispatchers.
InOrder ==
  \A e \in Event : effects[e] > 0 \/ e \in acked =>
    \A p \in Committed : Before(p, e) => p \in acked

\* An acknowledged event took effect: a duplicate is suppressed only when what
\* it duplicates happened.  (A drawer command may expire.)
AckedTookEffect ==
  \A e \in acked : KindOf[e] # "drawer" => effects[e] > 0

\* Replays and retries never repeat a projection, nor print a second receipt
\* or open the drawer again: only a dispatcher that dies after the hardware
\* answered and before it commits does.
NotRepeated ==
  \A e \in Event : /\ KindOf[e] = "projection" => effects[e] <= 1
                   /\ KindOf[e] \in {"print", "drawer"} => effects[e] <= 1 + rollbacks

\* Every event that committed is in the end accepted or dead, unless a dead
\* letter halts its aggregate.
EventuallySettled ==
  \A e \in Event :
    status[e] = "pending" ~>
      \/ status[e] \in {"done", "dead"}
      \/ \E p \in Event : Before(p, e) /\ status[p] = "dead"

Stream == INSTANCE EventStream WITH published <- Committed, acknowledged <- acked

\* Claiming, retrying, dead-lettering, replaying and rolling back, seen from
\* outside, are the in-order stream of acknowledgements: _dispatch_batch and
\* _claim keep what publish() promised.
ImplementsStream == Stream!Spec
=============================================================================
