----------------------------- MODULE TerminalTxn -----------------------------
(***************************************************************************)
(* models/mezze_terminal_txn.py: one card-terminal or cash-machine request *)
(* against an open order, settled by the server, cancelled, or forced done *)
(* by a manager -- while cashiers tender, comp and append on the same      *)
(* order (PosOrder).                                                       *)
(*                                                                         *)
(* The transaction rows are versioned like the order row: a request sees   *)
(* the rows of its snapshot and cannot update one updated since.  SELECT   *)
(* ... FOR UPDATE therefore only decides who waits, not what is read.      *)
(***************************************************************************)
EXTENDS PosOrder

CONSTANTS RequestId,      \* server-minted ids; also tender keys
          OrderOf,        \* [RequestId -> Order]: the order one is minted for
          AllowPartial,   \* the method's mezze_allow_partial
          Outcome         \* outcomes the scenarios in play resolve to

Outcomes == {"approved", "declined", "cancelled", "error", "timeout", "unknown",
             "native"}   \* native: a real provider, which nothing answers for

ASSUME TerminalAssumption ==
  /\ RequestId \subseteq Key /\ RequestId \intersect ClientKey = {}
  /\ OrderOf \in [RequestId -> Order]
  /\ AllowPartial \in BOOLEAN
  /\ Outcome \subseteq Outcomes

VARIABLES txn,      \* [RequestId -> request]: the committed rows
          txnSnap,  \* [Worker -> rows]: as a request sees them
          txnStale  \* [Worker -> BOOLEAN]: the one it is for was updated since

terminalVars == <<txn, txnSnap, txnStale>>

UncertainStates == {"error", "timeout", "unknown"}
FinalStates == {"approved", "declined", "cancelled"}

NewTxn == [state |-> "none", amount |-> 0, outcome |-> "native",
           booked |-> FALSE, forced |-> FALSE]
NoTxns == [k \in RequestId |-> NewTxn]

InState(t, s) == [t EXCEPT !.state = s]
Linked(t) == [t EXCEPT !.booked = TRUE]
Forced(t) == [t EXCEPT !.forced = TRUE]

TerminalInit == /\ OrderInit
                /\ txn = NoTxns
                /\ txnSnap = [w \in Worker |-> NoTxns]
                /\ txnStale = [w \in Worker |-> FALSE]

TerminalRequests ==
  [op : {"terminal/start"}, order : Order, key : {NoKey}, amount : 0 .. MaxAmount, extra : {0}]
  \union {q \in [op : {"terminal/complete", "terminal/cancel", "terminal/force_done"},
                 order : Order, key : RequestId, amount : {0}, extra : {0}] :
            txn[q.key].state # "none" /\ q.order = OrderOf[q.key]}

\* A start looks at every request of its order, the others at their own; the
\* handlers of PosOrder look at none.
Reads(q) == CASE q.op = "terminal/start" -> RequestId
              [] q.key \in RequestId -> {q.key}
              [] OTHER -> {}

TerminalBegin(w, q) ==
  /\ Begin(w, q)
  /\ txnSnap' = [txnSnap EXCEPT ![w] = [k \in RequestId |-> IF k \in Reads(q) THEN txn[k]
                                                            ELSE NewTxn]]
  /\ UNCHANGED <<txn, txnStale>>

\* The transaction ends having changed no terminal row, or one of them.
KeepTxns(w) == /\ txnSnap' = [txnSnap EXCEPT ![w] = NoTxns]
               /\ txnStale' = [txnStale EXCEPT ![w] = FALSE]
               /\ UNCHANGED txn

\* Mutant: the last writer wins.
WriteTxnBlind(w, k, t) ==
  /\ txn' = [txn EXCEPT ![k] = t]
  /\ txnSnap' = [txnSnap EXCEPT ![w] = NoTxns]
  /\ UNCHANGED txnStale

WriteTxn(w, k, t) ==
  /\ ~txnStale[w]
  /\ txn' = [txn EXCEPT ![k] = t]
  /\ txnSnap' = [txnSnap EXCEPT ![w] = NoTxns]
  /\ txnStale' = [v \in Worker |->
                    /\ v # w
                    /\ txnStale[v] \/ (req[v] # Idle /\ req[v].key = k)]

(***************************************************************************)
(* terminal/start and cashmachine/start                                    *)
(***************************************************************************)
InFlight(txns, o) == {k \in RequestId : OrderOf[k] = o /\ txns[k].state = "waiting_customer"}

MayStart(w) ==
  LET r == snap[w]
      t == TenderOf(r, req[w])
  IN /\ r.state = "draft"
     /\ InFlight(txnSnap[w], req[w].order) = {}
     /\ Remaining(r) > Eps
     /\ TenderAllowed(r, t)
     /\ t + Eps < Remaining(r) => AllowPartial

Start(w) ==
  /\ Serving(w, "terminal/start")
  /\ MayStart(w)
  /\ \E k \in RequestId, out \in Outcome :
       /\ txn[k].state = "none" /\ OrderOf[k] = req[w].order
       /\ WriteTxn(w, k, [state |-> "waiting_customer", amount |-> TenderOf(snap[w], req[w]),
                          outcome |-> out, booked |-> FALSE, forced |-> FALSE])
  /\ Reply(w)

StartRefused(w) == /\ Serving(w, "terminal/start")
                   /\ ~MayStart(w)
                   /\ Reply(w) /\ KeepTxns(w)

(***************************************************************************)
(* _settle_payment                                                         *)
(***************************************************************************)

Charge(r, t) == IF t.amount <= Remaining(r) THEN t.amount ELSE Remaining(r)

\* Mutant: the state is trusted instead of the payment.
SettledByState(r, t, k) == t.state = "approved"

\* The request's payment exists: its row is linked again, nothing is charged.
Settled(r, t, k) == t.booked \/ HasKey(r, k)

\* t becomes done(t), with the one payment it stands for -- unless nothing was
\* left to charge, when it is done without a payment.
Settle(w, k, via, done) ==
  LET r == snap[w]
      t == txnSnap[w][k]
      p == AddPayment(r, k, Charge(r, t), via)
      closing == Remaining(p) <= Eps /\ r.state = "draft"
  IN \/ /\ Settled(r, t, k)
        /\ Reply(w) /\ WriteTxn(w, k, Linked(done))
     \/ /\ ~Settled(r, t, k) /\ Charge(r, t) <= 0
        /\ Reply(w) /\ WriteTxn(w, k, done)
     \/ /\ ~Settled(r, t, k) /\ Charge(r, t) > 0
        /\ closing => MayClose(p)
        /\ Commit(w, IF closing THEN Closed(p) ELSE p)
        /\ WriteTxn(w, k, Linked(done))
     \* action_pos_order_paid raised: the answer is 409, the payment stays.
     \/ /\ ~Settled(r, t, k) /\ Charge(r, t) > 0
        /\ closing /\ MayRefuse(p)
        /\ Commit(w, p) /\ WriteTxn(w, k, Linked(t))

(***************************************************************************)
(* terminal/complete and cashmachine/complete                              *)
(***************************************************************************)
Seen(w) == txnSnap[w][req[w].key]

\* Settled requests answer again; a browser's claim decides nothing.
CompleteAnswered(w) == /\ Serving(w, "terminal/complete")
                       /\ Seen(w).state \in FinalStates
                       /\ Reply(w) /\ KeepTxns(w)

CompleteApproved(w) ==
  /\ Serving(w, "terminal/complete")
  /\ Seen(w).state \notin FinalStates
  /\ Seen(w).outcome = "approved"
  /\ Settle(w, req[w].key, "terminal/complete", InState(Seen(w), "approved"))

\* No money: the outcome becomes the state; a real provider is an error.
CompleteOther(w) ==
  /\ Serving(w, "terminal/complete")
  /\ Seen(w).state \notin FinalStates
  /\ Seen(w).outcome # "approved"
  /\ LET s == IF Seen(w).outcome = "native" THEN "error" ELSE Seen(w).outcome
     IN WriteTxn(w, req[w].key, InState(Seen(w), s))
  /\ Reply(w)

(***************************************************************************)
(* cancel and force_done                                                   *)
(***************************************************************************)
MayCancel(t) == t.state \notin FinalStates

Cancel(w) == /\ Serving(w, "terminal/cancel")
             /\ MayCancel(Seen(w))
             /\ WriteTxn(w, req[w].key, InState(Seen(w), "cancelled"))
             /\ Reply(w)

MayForce(t) == t.state \in UncertainStates

\* The manager's PIN and reason are verified before: only what follows a
\* verified override is modelled.
ForceDone(w) ==
  /\ Serving(w, "terminal/force_done")
  /\ MayForce(Seen(w))
  /\ Settle(w, req[w].key, "terminal/force_done",
            Forced(InState(Seen(w), "approved")))

CancelOrForceRefused(w) ==
  /\ \/ Serving(w, "terminal/cancel") /\ ~MayCancel(Seen(w))
     \/ Serving(w, "terminal/force_done") /\ ~MayForce(Seen(w))
  /\ Reply(w) /\ KeepTxns(w)

(***************************************************************************)
(* Specification                                                           *)
(***************************************************************************)
TerminalStep(w) == \/ Start(w) \/ StartRefused(w)
                   \/ CompleteAnswered(w) \/ CompleteApproved(w) \/ CompleteOther(w)
                   \/ Cancel(w) \/ ForceDone(w) \/ CancelOrForceRefused(w)

TerminalNext ==
  \E w \in Worker :
    \/ \E q \in OrderRequests \union TerminalRequests : TerminalBegin(w, q)
    \/ OrderStep(w) /\ KeepTxns(w)
    \/ TerminalStep(w)

terminalAllVars == <<orderVars, terminalVars>>

TerminalSpec == TerminalInit /\ [][TerminalNext]_terminalAllVars

(***************************************************************************)
(* Properties                                                              *)
(***************************************************************************)
\* The two tables agree: a request is linked to a payment exactly when the
\* order holds one under the request's id, and it is the only one, whoever
\* completes, forces or cancels it at the same time.
BookedOnce ==
  \A k \in RequestId :
    LET ps == row[OrderOf[k]].payments
        mine == {i \in DOMAIN ps : ps[i].key = k}
    IN /\ txn[k].booked <=> mine # {}
       /\ \A i, j \in mine : i = j

\* A settled request stays as it was settled: a cancel, a second completion or
\* an override that raced it changes nothing.
SettledStays ==
  [][\A k \in RequestId : txn[k].state \in FinalStates => txn'[k] = txn[k]]_terminalAllVars
=============================================================================
