---------------------------- MODULE Outbox_proofs ----------------------------
(***************************************************************************)
(* Proofs about Outbox: a claimed event is held once, an acknowledgement   *)
(* stands for an effect, effects are repeated only by rollbacks, and, when *)
(* the publishers of an aggregate take turns, delivery is in order.        *)
(***************************************************************************)
EXTENDS Outbox, TLAPS

(***************************************************************************)
(* The inductive invariant                                                 *)
(***************************************************************************)
\* Done rows have been acknowledged.
DoneIsAcked == \A e \in Event : status[e] = "done" => e \in acked

\* An outcome or a ledger row stands for an effect that happened.
OutcomeTookEffect ==
  /\ \A e \in ledger : effects[e] > 0
  /\ \A e \in Event : result[e] = "done" /\ KindOf[e] \in Escapes => effects[e] > 0
  /\ \A e \in Event : result[e] = "expired" => KindOf[e] = "drawer"

\* The hardware's effects that no ledger row and no outcome in hand accounts
\* for were left behind by rollbacks.
HardwareAccounted ==
  \A e \in Event : KindOf[e] \in {"print", "drawer"} /\ e \notin ledger /\ result[e] # "done"
    => effects[e] <= rollbacks

EffectInv == AckedTookEffect /\ OutcomeTookEffect /\ NotRepeated /\ HardwareAccounted

\* Ids are handed out in order and, while the publishers of an aggregate take
\* turns, the one that has not ended holds its last id.
IdsInOrder ==
  /\ \A x, e \in Event : x < e /\ status[x] = "unborn" => status[e] = "unborn"
  /\ \A x, e \in Event : status[x] = "open" /\ Before(x, e) => status[e] = "unborn"

\* Only what committed is acknowledged or takes effect.
OnlyCommitted == \A e \in Event : effects[e] > 0 \/ e \in acked => e \in Committed

\* A claimed event is its aggregate's next.
ClaimedIsNext == \A d \in Dispatcher : \A e \in claimed[d] :
                   \A p \in Committed : Before(p, e) => p \in acked

OrderInv == DoneIsAcked /\ IdsInOrder /\ OnlyCommitted /\ ClaimedIsNext /\ InOrder

(***************************************************************************)
(* Types and claims                                                        *)
(***************************************************************************)
\* The type invariant is inductive.
LEMMA TypeInit == OutboxInit => OutboxTypeOK
BY OutboxAssumption DEF OutboxInit, OutboxTypeOK, Status, Result

\* Every action of the outbox keeps the kinds of the variables.
LEMMA TypeStep == OutboxTypeOK /\ [OutboxNext]_outboxVars => OutboxTypeOK'
<1> SUFFICES ASSUME OutboxTypeOK, [OutboxNext]_outboxVars PROVE OutboxTypeOK'
  OBVIOUS
<1> USE OutboxAssumption DEF OutboxTypeOK
<1>1. ASSUME NEW e \in Event, Publish(e) PROVE OutboxTypeOK'
  BY <1>1 DEF Publish, Status
<1>2. ASSUME NEW e \in Event, EndBusiness(e) PROVE OutboxTypeOK'
  BY <1>2 DEF EndBusiness, Status
<1>3. ASSUME NEW e \in Event, BackoffEnds(e) PROVE OutboxTypeOK'
  BY <1>3 DEF BackoffEnds
<1>4. ASSUME NEW e \in Event, Replay(e) PROVE OutboxTypeOK'
  BY <1>4 DEF Replay, Status
<1>5. ASSUME NEW d \in Dispatcher, Claim(d) PROVE OutboxTypeOK'
  <2>1. PICK batch \in SUBSET (Claimable \ Locked) : claimed' = [claimed EXCEPT ![d] = batch]
    BY <1>5 DEF Claim
  <2>2. batch \subseteq Event
    BY DEF Claimable
  <2> QED BY <1>5, <2>1, <2>2 DEF Claim
<1>6. ASSUME NEW d \in Dispatcher, NEW e \in Event, Deliver(d, e) PROVE OutboxTypeOK'
  BY <1>6 DEF Deliver, Sends, Result
<1>7. ASSUME NEW d \in Dispatcher, NEW e \in Event, Expire(d, e) PROVE OutboxTypeOK'
  BY <1>7 DEF Expire, Result
<1>8. ASSUME NEW d \in Dispatcher, NEW e \in Event, Fail(d, e) PROVE OutboxTypeOK'
  <2>1. result' \in [Event -> Result]
    BY <1>8 DEF Fail, Decide, Result
  <2>2. effects' \in [Event -> Nat]
    BY <1>8 DEF Fail, Sends
  <2> QED BY <1>8, <2>1, <2>2 DEF Fail
<1>9. ASSUME NEW d \in Dispatcher, Finish(d) PROVE OutboxTypeOK'
  <2>1. claimed' \in [Dispatcher -> SUBSET Event] /\ result' \in [Event -> Result]
    BY <1>9 DEF Finish, Release, Result
  <2>2. status' \in [Event -> Status]
    BY <1>9 DEF Finish, Accepted, Status, Result
  <2>3. attempts' \in [Event -> Nat] /\ effects' \in [Event -> Nat]
    BY <1>9 DEF Finish
  <2>4. due' \subseteq Event /\ ledger' \subseteq Event /\ acked' \subseteq Event
    BY <1>9 DEF Finish, Accepted
  <2> QED BY <1>9, <2>1, <2>2, <2>3, <2>4 DEF Finish
<1>10. ASSUME NEW d \in Dispatcher, Rollback(d) PROVE OutboxTypeOK'
  BY <1>10 DEF Rollback, Release, Result
<1>11. CASE UNCHANGED outboxVars
  BY <1>11 DEF outboxVars
<1> QED BY <1>1, <1>2, <1>3, <1>4, <1>5, <1>6, <1>7, <1>8, <1>9, <1>10, <1>11
        DEF OutboxNext, Dispatch

\* What a dispatcher holds nobody else holds.
LEMMA ClaimsStep ==
  OutboxTypeOK /\ ClaimsAreExclusive /\ [OutboxNext]_outboxVars => ClaimsAreExclusive'
<1> SUFFICES ASSUME OutboxTypeOK, ClaimsAreExclusive, [OutboxNext]_outboxVars
             PROVE ClaimsAreExclusive'
  OBVIOUS
<1> USE OutboxAssumption DEF OutboxTypeOK, ClaimsAreExclusive
<1>1. ASSUME NEW e \in Event, Publish(e) PROVE ClaimsAreExclusive'
  BY <1>1 DEF Publish
<1>2. ASSUME NEW e \in Event, EndBusiness(e) PROVE ClaimsAreExclusive'
  BY <1>2 DEF EndBusiness
<1>3. ASSUME NEW e \in Event, BackoffEnds(e) PROVE ClaimsAreExclusive'
  BY <1>3 DEF BackoffEnds
<1>4. ASSUME NEW e \in Event, Replay(e) PROVE ClaimsAreExclusive'
  BY <1>4 DEF Replay
<1>5. ASSUME NEW d \in Dispatcher, Claim(d) PROVE ClaimsAreExclusive'
  <2>1. PICK batch \in SUBSET (Claimable \ Locked) : claimed' = [claimed EXCEPT ![d] = batch]
    BY <1>5 DEF Claim
  <2>2. \A e \in batch : status[e] \in {"pending", "failed"}
    BY DEF Claimable
  <2>3. \A c \in Dispatcher : claimed[c] \intersect batch = {}
    BY DEF Locked
  <2>4. claimed'[d] = batch /\ \A c \in Dispatcher : c # d => claimed'[c] = claimed[c]
    BY <2>1
  <2>5. status' = status
    BY <1>5 DEF Claim
  <2> QED BY <2>2, <2>3, <2>4, <2>5
<1>6. ASSUME NEW d \in Dispatcher, NEW e \in Event, Deliver(d, e) PROVE ClaimsAreExclusive'
  BY <1>6 DEF Deliver
<1>7. ASSUME NEW d \in Dispatcher, NEW e \in Event, Expire(d, e) PROVE ClaimsAreExclusive'
  BY <1>7 DEF Expire
<1>8. ASSUME NEW d \in Dispatcher, NEW e \in Event, Fail(d, e) PROVE ClaimsAreExclusive'
  BY <1>8 DEF Fail
<1>9. ASSUME NEW d \in Dispatcher, Finish(d) PROVE ClaimsAreExclusive'
  <2>1. claimed'[d] = {} /\ \A c \in Dispatcher : c # d => claimed'[c] = claimed[c]
    BY <1>9 DEF Finish, Release
  <2>2. \A e \in Event : e \notin claimed[d] => status'[e] = status[e]
    BY <1>9 DEF Finish, Accepted
  <2> QED BY <2>1, <2>2
<1>10. ASSUME NEW d \in Dispatcher, Rollback(d) PROVE ClaimsAreExclusive'
  BY <1>10 DEF Rollback, Release
<1>11. CASE UNCHANGED outboxVars
  BY <1>11 DEF outboxVars
<1> QED BY <1>1, <1>2, <1>3, <1>4, <1>5, <1>6, <1>7, <1>8, <1>9, <1>10, <1>11
        DEF OutboxNext, Dispatch

(***************************************************************************)
(* Effects                                                                 *)
(***************************************************************************)
\* Every action keeps what relates effects to the job ledger, to the
\* acknowledgements and to the rollbacks so far.
LEMMA EffectStep ==
  OutboxTypeOK /\ ClaimsAreExclusive /\ EffectInv /\ [OutboxNext]_outboxVars => EffectInv'
<1> SUFFICES ASSUME OutboxTypeOK, ClaimsAreExclusive, EffectInv, [OutboxNext]_outboxVars
             PROVE EffectInv'
  OBVIOUS
<1> USE OutboxAssumption DEF OutboxTypeOK, EffectInv, AckedTookEffect, OutcomeTookEffect,
                             NotRepeated, HardwareAccounted, Escapes
<1>1. ASSUME NEW e \in Event, Publish(e) PROVE EffectInv'
  BY <1>1 DEF Publish
<1>2. ASSUME NEW e \in Event, EndBusiness(e) PROVE EffectInv'
  BY <1>2 DEF EndBusiness
<1>3. ASSUME NEW e \in Event, BackoffEnds(e) PROVE EffectInv'
  BY <1>3 DEF BackoffEnds
<1>4. ASSUME NEW e \in Event, Replay(e) PROVE EffectInv'
  BY <1>4 DEF Replay
<1>5. ASSUME NEW d \in Dispatcher, Claim(d) PROVE EffectInv'
  BY <1>5 DEF Claim
<1>6. ASSUME NEW d \in Dispatcher, NEW e \in Event, Deliver(d, e) PROVE EffectInv'
  <2>1. result[e] = "none" /\ result' = [result EXCEPT ![e] = "done"]
    BY <1>6 DEF Deliver, Current
  <2>2. UNCHANGED <<ledger, acked, rollbacks>>
    BY <1>6 DEF Deliver
  <2>3. CASE KindOf[e] \in Escapes /\ ~Duplicate(e)
    <3>1. effects' = [effects EXCEPT ![e] = @ + 1]
      BY <1>6, <2>3 DEF Deliver, Sends
    <3>2. KindOf[e] # "projection"
      BY <2>3
    <3>3. KindOf[e] \in {"print", "drawer"} => effects[e] <= rollbacks
      BY <2>1, <2>3 DEF Duplicate
    <3> QED BY <2>1, <2>2, <3>1, <3>2, <3>3
  <2>4. CASE ~(KindOf[e] \in Escapes /\ ~Duplicate(e))
    <3>1. effects' = effects
      BY <1>6, <2>4 DEF Deliver
    <3>2. KindOf[e] \in Escapes => effects[e] > 0
      BY <2>4 DEF Duplicate
    <3>3. KindOf[e] \in {"print", "drawer"} => e \in ledger
      BY <2>4 DEF Duplicate
    <3> QED BY <2>1, <2>2, <3>1, <3>2, <3>3
  <2> QED BY <2>3, <2>4
<1>7. ASSUME NEW d \in Dispatcher, NEW e \in Event, Expire(d, e) PROVE EffectInv'
  BY <1>7 DEF Expire, Current
<1>8. ASSUME NEW d \in Dispatcher, NEW e \in Event, Fail(d, e) PROVE EffectInv'
  <2>1. /\ result[e] = "none" /\ result'[e] \in {"failed", "dead"}
        /\ \A x \in Event : x # e => result'[x] = result[x]
    BY <1>8 DEF Fail, Current, Decide
  <2>2. UNCHANGED <<ledger, acked, rollbacks>>
    BY <1>8 DEF Fail
  <2>3. /\ \A x \in Event : effects'[x] >= effects[x] /\ effects'[x] \in Nat
        /\ \A x \in Event : effects'[x] # effects[x] => KindOf[x] = "webhook"
    BY <1>8 DEF Fail, Sends
  <2> QED BY <2>1, <2>2, <2>3
<1>9. ASSUME NEW d \in Dispatcher, Finish(d) PROVE EffectInv'
  <2> DEFINE written == {e \in Accepted(d) : KindOf[e] \notin Escapes /\ ~Duplicate(e)}
  <2>1. effects' = [e \in Event |-> IF e \in written THEN effects[e] + 1 ELSE effects[e]]
    BY <1>9 DEF Finish
  <2>2. result' = [e \in Event |-> IF e \in claimed[d] THEN "none" ELSE result[e]]
    BY <1>9 DEF Finish, Release
  <2>3. /\ ledger' = ledger \union {e \in claimed[d] : /\ result[e] = "done"
                                                       /\ KindOf[e] \in {"print", "drawer"}}
        /\ acked' = acked \union Accepted(d) /\ rollbacks' = rollbacks
    BY <1>9 DEF Finish
  <2>4. \A e \in written : KindOf[e] \notin Escapes /\ (KindOf[e] = "projection" => ~(effects[e] > 0))
    BY DEF Duplicate
  <2>5. \A e \in Event : /\ effects'[e] >= effects[e] /\ effects'[e] \in Nat
                         /\ e \in written => effects'[e] = effects[e] + 1
                         /\ e \notin written => effects'[e] = effects[e]
    BY <2>1
  <2>6. \A e \in Accepted(d) : KindOf[e] # "drawer" => effects'[e] > 0
    <3>1. ASSUME NEW e \in Accepted(d), KindOf[e] # "drawer" PROVE effects'[e] > 0
      <4>1. e \in Event /\ e \in claimed[d] /\ result[e] = "done"
        BY <3>1 DEF Accepted
      <4>2. CASE KindOf[e] \in Escapes
        BY <4>1, <4>2, <2>5
      <4>3. CASE e \in written
        BY <4>1, <4>3, <2>5
      <4>4. CASE KindOf[e] \notin Escapes /\ e \notin written
        <5>1. Duplicate(e)
          BY <4>4
        <5>2. KindOf[e] = "projection" /\ effects[e] > 0
          BY <5>1, <4>4 DEF Duplicate
        <5> QED BY <5>2, <4>1, <2>5
      <4> QED BY <4>2, <4>3, <4>4
    <3> QED BY <3>1
  <2>7. AckedTookEffect'
    BY <2>3, <2>5, <2>6
  <2>8. OutcomeTookEffect'
    BY <2>2, <2>3, <2>5
  <2>9. NotRepeated'
    BY <2>3, <2>4, <2>5
  <2>10. HardwareAccounted'
    BY <2>2, <2>3, <2>4, <2>5
  <2> QED BY <2>7, <2>8, <2>9, <2>10
<1>10. ASSUME NEW d \in Dispatcher, Rollback(d) PROVE EffectInv'
  <2>1. /\ result' = [e \in Event |-> IF e \in claimed[d] THEN "none" ELSE result[e]]
        /\ UNCHANGED <<effects, ledger, acked>> /\ rollbacks' = rollbacks + 1
    BY <1>10 DEF Rollback, Release
  <2> QED BY <2>1
<1>11. CASE UNCHANGED outboxVars
  BY <1>11 DEF outboxVars
<1> QED BY <1>1, <1>2, <1>3, <1>4, <1>5, <1>6, <1>7, <1>8, <1>9, <1>10, <1>11
        DEF OutboxNext, Dispatch

\* Claims are exclusive, an acknowledged event took effect, and only rollbacks
\* repeat what hardware did: for any number of events and dispatchers.
THEOREM OutboxSafety ==
  OutboxSpec => [](OutboxTypeOK /\ ClaimsAreExclusive /\ AckedTookEffect /\ NotRepeated)
<1> DEFINE Inv == OutboxTypeOK /\ ClaimsAreExclusive /\ EffectInv
<1>1. OutboxInit => Inv
  <2>1. OutboxInit => ClaimsAreExclusive /\ EffectInv
    BY DEF OutboxInit, ClaimsAreExclusive, EffectInv, AckedTookEffect, OutcomeTookEffect,
           NotRepeated, HardwareAccounted
  <2> QED BY <2>1, TypeInit
<1>2. Inv /\ [OutboxNext]_outboxVars => Inv'
  BY TypeStep, ClaimsStep, EffectStep
<1>3. Inv => OutboxTypeOK /\ ClaimsAreExclusive /\ AckedTookEffect /\ NotRepeated
  BY DEF EffectInv
<1> QED BY <1>1, <1>2, <1>3, PTL DEF OutboxSpec

(***************************************************************************)
(* Order                                                                   *)
(***************************************************************************)
\* Every action keeps the order of an aggregate, given that its publishers
\* wait for each other.
LEMMA OrderStep ==
  ASSUME Serial, OutboxTypeOK, ClaimsAreExclusive, OrderInv, [OutboxNext]_outboxVars
  PROVE  OrderInv'
<1> USE OutboxAssumption DEF OutboxTypeOK, Committed, Before
<1>1. ASSUME NEW e \in Event, Publish(e) PROVE OrderInv'
  <2>1. /\ status[e] = "unborn" /\ status' = [status EXCEPT ![e] = "open"]
        /\ \A x \in Event : x < e => status[x] # "unborn"
        /\ \A x \in Event : status[x] = "open" => AggregateOf[x] # AggregateOf[e]
        /\ UNCHANGED <<claimed, effects, acked>>
    BY <1>1 DEF Publish
  <2>2. Committed' = Committed
    BY <2>1
  <2>3. IdsInOrder'
    BY <2>1 DEF OrderInv, IdsInOrder
  <2> QED BY <2>1, <2>2, <2>3
          DEF OrderInv, DoneIsAcked, OnlyCommitted, ClaimedIsNext, InOrder
<1>2. ASSUME NEW e \in Event, EndBusiness(e) PROVE OrderInv'
  <2>1. /\ status[e] = "open" /\ UNCHANGED <<claimed, effects, acked>>
        /\ status'[e] \in {"pending", "lost"} /\ \A x \in Event \ {e} : status'[x] = status[x]
    BY <1>2 DEF EndBusiness
  <2>2. \A x \in Event : Before(e, x) => status[x] = "unborn"
    BY <2>1 DEF OrderInv, IdsInOrder
  <2>3. Committed \subseteq Committed' /\ Committed' \subseteq Committed \union {e}
    BY <2>1
  <2>4. \A x \in Committed : ~Before(e, x)
    BY <2>2
  <2>5. DoneIsAcked' /\ IdsInOrder'
    BY <2>1, <2>2 DEF OrderInv, DoneIsAcked, IdsInOrder
  <2>6. OnlyCommitted'
    BY <2>1, <2>3 DEF OrderInv, OnlyCommitted
  <2>7. ClaimedIsNext'
    <3>1. \A d \in Dispatcher : \A x \in claimed[d] : x \in Committed
      BY DEF ClaimsAreExclusive
    <3> QED BY <3>1, <2>1, <2>3, <2>4 DEF OrderInv, ClaimedIsNext
  <2>8. InOrder'
    BY <2>1, <2>3, <2>4 DEF OrderInv, OnlyCommitted, InOrder
  <2> QED BY <2>5, <2>6, <2>7, <2>8 DEF OrderInv
<1>3. ASSUME NEW e \in Event, BackoffEnds(e) PROVE OrderInv'
  BY <1>3 DEF BackoffEnds, OrderInv, DoneIsAcked, IdsInOrder, OnlyCommitted, ClaimedIsNext, InOrder
<1>4. ASSUME NEW e \in Event, Replay(e) PROVE OrderInv'
  <2>1. /\ status[e] \in {"dead", "done"} /\ status' = [status EXCEPT ![e] = "pending"]
        /\ UNCHANGED <<claimed, effects, acked>>
    BY <1>4 DEF Replay
  <2>2. Committed' = Committed
    BY <2>1
  <2>3. DoneIsAcked' /\ IdsInOrder'
    BY <2>1 DEF OrderInv, DoneIsAcked, IdsInOrder
  <2> QED BY <2>1, <2>2, <2>3 DEF OrderInv, OnlyCommitted, ClaimedIsNext, InOrder
<1>5. ASSUME NEW d \in Dispatcher, Claim(d) PROVE OrderInv'
  <2>1. PICK batch \in SUBSET (Claimable \ Locked) : claimed' = [claimed EXCEPT ![d] = batch]
    BY <1>5 DEF Claim
  <2>2. UNCHANGED <<status, effects, acked>>
    BY <1>5 DEF Claim
  <2>3. \A e \in batch : \A p \in Committed : Before(p, e) => p \in acked
    BY DEF Claimable, OrderInv, DoneIsAcked
  <2>4. ClaimedIsNext'
    BY <2>1, <2>2, <2>3 DEF OrderInv, ClaimedIsNext
  <2> QED BY <2>2, <2>4 DEF OrderInv, DoneIsAcked, IdsInOrder, OnlyCommitted, InOrder
<1>6. ASSUME NEW d \in Dispatcher, NEW e \in Event, e \in claimed[d],
             UNCHANGED <<status, claimed, acked>>, effects' \in [Event -> Nat],
             \A x \in Event : x # e => effects'[x] = effects[x]
      PROVE  OrderInv'
  <2>1. e \in Committed /\ \A p \in Committed : Before(p, e) => p \in acked
    BY <1>6 DEF ClaimsAreExclusive, OrderInv, ClaimedIsNext
  <2>2. Committed' = Committed
    BY <1>6
  <2>3. OnlyCommitted' /\ InOrder'
    BY <1>6, <2>1, <2>2 DEF OrderInv, OnlyCommitted, InOrder
  <2> QED BY <1>6, <2>2, <2>3 DEF OrderInv, DoneIsAcked, IdsInOrder, ClaimedIsNext
<1>7. ASSUME NEW d \in Dispatcher, NEW e \in Event, Deliver(d, e) \/ Expire(d, e) \/ Fail(d, e)
      PROVE  OrderInv'
  <2>1. e \in claimed[d] /\ UNCHANGED <<status, claimed, acked>>
    BY <1>7 DEF Deliver, Expire, Fail, Current
  <2>2. effects' = effects \/ effects' = Sends(e)
    BY <1>7 DEF Deliver, Expire, Fail
  <2>3. effects' \in [Event -> Nat] /\ \A x \in Event : x # e => effects'[x] = effects[x]
    BY <2>2 DEF Sends
  <2> QED BY <1>6, <2>1, <2>3
<1>8. ASSUME NEW d \in Dispatcher, Finish(d) PROVE OrderInv'
  <2>1. \A e \in claimed[d] : e \in Event /\ e \in Committed /\ result[e] \in {"done", "expired", "failed", "dead"}
    BY <1>8 DEF Finish, ClaimsAreExclusive, Result
  <2>2. /\ \A e \in Event : e \notin claimed[d] => status'[e] = status[e]
        /\ \A e \in claimed[d] : status'[e] \in {"done", "failed", "dead"}
        /\ \A e \in claimed[d] : status'[e] = "done" => e \in Accepted(d)
    BY <1>8, <2>1 DEF Finish, Accepted
  <2>3. /\ acked' = acked \union Accepted(d) /\ Accepted(d) \subseteq claimed[d]
        /\ \A c \in Dispatcher : claimed'[c] \subseteq claimed[c]
        /\ \A e \in Event : e \notin Accepted(d) => effects'[e] = effects[e]
    BY <1>8 DEF Finish, Release, Accepted
  <2>4. Committed' = Committed
    BY <2>1, <2>2
  <2>5. DoneIsAcked'
    BY <2>2, <2>3 DEF OrderInv, DoneIsAcked
  <2>6. IdsInOrder'
    <3>1. \A e \in Event : /\ status'[e] = "unborn" <=> status[e] = "unborn"
                           /\ status'[e] = "open" <=> status[e] = "open"
      BY <2>1, <2>2
    <3> QED BY <3>1 DEF OrderInv, IdsInOrder
  <2>7. OnlyCommitted'
    BY <2>1, <2>3, <2>4 DEF OrderInv, OnlyCommitted
  <2>8. ClaimedIsNext'
    BY <2>3, <2>4 DEF OrderInv, ClaimedIsNext
  <2>9. InOrder'
    BY <2>3, <2>4 DEF OrderInv, ClaimedIsNext, InOrder
  <2> QED BY <2>5, <2>6, <2>7, <2>8, <2>9 DEF OrderInv
<1>9. ASSUME NEW d \in Dispatcher, Rollback(d) PROVE OrderInv'
  <2>1. UNCHANGED <<status, effects, acked>> /\ \A c \in Dispatcher : claimed'[c] \subseteq claimed[c]
    BY <1>9 DEF Rollback, Release
  <2> QED BY <2>1 DEF OrderInv, DoneIsAcked, IdsInOrder, OnlyCommitted, ClaimedIsNext, InOrder
<1>10. CASE UNCHANGED outboxVars
  BY <1>10 DEF outboxVars, OrderInv, DoneIsAcked, IdsInOrder, OnlyCommitted, ClaimedIsNext, InOrder
<1> QED BY <1>1, <1>2, <1>3, <1>4, <1>5, <1>7, <1>8, <1>9, <1>10 DEF OutboxNext, Dispatch

\* The initial state is in order.
LEMMA OrderedInit == OutboxInit => OutboxTypeOK /\ ClaimsAreExclusive /\ OrderInv
<1>1. OutboxInit => ClaimsAreExclusive /\ OrderInv
  BY DEF OutboxInit, ClaimsAreExclusive, OrderInv, DoneIsAcked, IdsInOrder, OnlyCommitted,
         ClaimedIsNext, InOrder, Committed
<1> QED BY <1>1, TypeInit

\* No event overtakes an earlier one of its aggregate, for any number of
\* events, aggregates, dispatchers, failures, replays and rollbacks.
THEOREM OutboxInOrder ==
  ASSUME Serial PROVE OutboxSpec => []InOrder
<1> DEFINE Inv == OutboxTypeOK /\ ClaimsAreExclusive /\ OrderInv
<1>1. OutboxInit => Inv
  BY OrderedInit
<1>2. Inv /\ [OutboxNext]_outboxVars => Inv'
  BY TypeStep, ClaimsStep, OrderStep
<1>3. Inv => InOrder
  BY DEF OrderInv
<1> QED BY <1>1, <1>2, <1>3, PTL DEF OutboxSpec

(***************************************************************************)
(* Refinement                                                              *)
(***************************************************************************)
\* Every action publishes one event, acknowledges one batch, or stutters.
LEMMA StreamStep ==
  ASSUME OutboxTypeOK, ClaimsAreExclusive, OrderInv, [OutboxNext]_outboxVars
  PROVE  [Stream!Next]_(Stream!vars)
<1> USE OutboxAssumption DEF OutboxTypeOK
<1>1. ASSUME NEW e \in Event, EndBusiness(e) PROVE [Stream!Next]_(Stream!vars)
  <2>1. /\ status[e] = "open" /\ acked' = acked
        /\ status'[e] \in {"pending", "lost"} /\ \A x \in Event \ {e} : status'[x] = status[x]
    BY <1>1 DEF EndBusiness
  <2>2. CASE status'[e] = "lost"
    <3>1. Committed' = Committed
      BY <2>1, <2>2 DEF Committed
    <3> QED BY <2>1, <3>1 DEF Stream!vars
  <2>3. CASE status'[e] = "pending"
    <3>1. e \notin Committed /\ Committed' = Committed \union {e}
      BY <2>1, <2>3 DEF Committed
    <3>2. \A x \in Committed : ~Stream!Before(e, x)
      BY <2>1 DEF OrderInv, IdsInOrder, Committed, Before, Stream!Before
    <3>3. Stream!Publish(e)
      BY <2>1, <3>1, <3>2 DEF Stream!Publish
    <3> QED BY <3>3 DEF Stream!Next
  <2> QED BY <2>1, <2>2, <2>3
<1>2. ASSUME NEW d \in Dispatcher, Finish(d) PROVE [Stream!Next]_(Stream!vars)
  <2>1. \A e \in claimed[d] : e \in Committed /\ result[e] \in {"done", "expired", "failed", "dead"}
    BY <1>2 DEF Finish, ClaimsAreExclusive, Committed, Result
  <2>2. /\ \A e \in Event : e \notin claimed[d] => status'[e] = status[e]
        /\ \A e \in claimed[d] : status'[e] \in {"done", "failed", "dead"}
    BY <1>2, <2>1 DEF Finish, Accepted
  <2>3. Committed' = Committed
    BY <2>1, <2>2 DEF Committed
  <2>4. Accepted(d) \subseteq claimed[d] /\ Accepted(d) \in SUBSET Event
    BY DEF Accepted
  <2>5. acked' = acked \union Accepted(d)
    BY <1>2 DEF Finish
  <2>6. Stream!Acknowledge(Accepted(d))
    BY <2>1, <2>3, <2>4, <2>5
       DEF OrderInv, ClaimedIsNext, Before, Stream!Before, Stream!Acknowledge
  <2> QED BY <2>4, <2>6 DEF Stream!Next
<1>3. ASSUME Committed' = Committed, acked' = acked PROVE [Stream!Next]_(Stream!vars)
  BY <1>3 DEF Stream!vars
<1>4. ASSUME NEW e \in Event, Publish(e) \/ BackoffEnds(e) \/ Replay(e)
      PROVE  [Stream!Next]_(Stream!vars)
  <2>1. acked' = acked /\ \A x \in Event \ {e} : status'[x] = status[x]
    BY <1>4 DEF Publish, BackoffEnds, Replay
  <2>2. status'[e] \in {"pending", "failed", "done", "dead"}
          <=> status[e] \in {"pending", "failed", "done", "dead"}
    BY <1>4 DEF Publish, BackoffEnds, Replay
  <2>3. Committed' = Committed
    BY <2>1, <2>2 DEF Committed
  <2> QED BY <2>1, <2>3, <1>3
<1>5. ASSUME NEW d \in Dispatcher, NEW e \in Event,
             Deliver(d, e) \/ Expire(d, e) \/ Fail(d, e)
      PROVE  [Stream!Next]_(Stream!vars)
  <2>1. status' = status /\ acked' = acked
    BY <1>5 DEF Deliver, Expire, Fail
  <2>2. Committed' = Committed
    BY <2>1 DEF Committed
  <2> QED BY <2>1, <2>2, <1>3
<1>6. ASSUME NEW d \in Dispatcher, Claim(d) \/ Rollback(d) PROVE [Stream!Next]_(Stream!vars)
  <2>1. status' = status /\ acked' = acked
    BY <1>6 DEF Claim, Rollback
  <2>2. Committed' = Committed
    BY <2>1 DEF Committed
  <2> QED BY <2>1, <2>2, <1>3
<1>7. CASE UNCHANGED outboxVars
  <2>1. Committed' = Committed /\ acked' = acked
    BY <1>7 DEF outboxVars, Committed
  <2> QED BY <2>1, <1>3
<1> QED BY <1>1, <1>2, <1>4, <1>5, <1>6, <1>7 DEF OutboxNext, Dispatch

\* The outbox is, per aggregate, the in-order stream of acknowledgements.
THEOREM OutboxRefinesStream ==
  ASSUME Serial PROVE OutboxSpec => ImplementsStream
<1> DEFINE Inv == OutboxTypeOK /\ ClaimsAreExclusive /\ OrderInv
<1>1. OutboxInit => Inv
  BY OrderedInit
<1>2. Inv /\ [OutboxNext]_outboxVars => Inv'
  BY TypeStep, ClaimsStep, OrderStep
<1>3. OutboxInit => Stream!Init
  BY DEF OutboxInit, Stream!Init, Committed
<1>4. Inv /\ [OutboxNext]_outboxVars => [Stream!Next]_(Stream!vars)
  BY StreamStep
<1> QED BY <1>1, <1>2, <1>3, <1>4, PTL DEF OutboxSpec, ImplementsStream, Stream!Spec
=============================================================================
