------------------------------- MODULE Seating -------------------------------
(***************************************************************************)
(* The host stand: reservations of tables, the walk-in queue, and the      *)
(* attachment of a seated party to the open order of its table.            *)
(*                                                                         *)
(* controllers/main.py (the reservations and waitlist routes),             *)
(* models/reservation.py and models/waitlist.py.  A request that moves a   *)
(* record is one step: two that write it conflict, and what it reads of    *)
(* the floor it reads in its snapshot.  A booking writes a row of its own  *)
(* and conflicts with nothing, so its snapshot and its commit are apart.   *)
(***************************************************************************)
EXTENDS Naturals

CONSTANTS Res,      \* reservations that may be made
          Party,    \* walk-in parties that may queue
          Spot, NoSpot,
          Ord, NoOrd,
          Starts,   \* start times, in slots
          Lengths   \* durations, in slots

ASSUME SeatingAssumption ==
  /\ Starts \subseteq Nat /\ Lengths \subseteq Nat \ {0}
  /\ NoSpot \notin Spot /\ NoOrd \notin Ord

VARIABLES res,      \* [Res -> reservation, or None before it is made]
          party,    \* [Party -> waitlist entry, or None]
          draft,    \* [Ord -> [table, open]]: the drafts of the floor
          view,     \* [Res -> what the running request that makes it sees, or Idle]
          intact,   \* history: bookings that always blocked their first table
          knew      \* history: [Res -> bookings seen by the request that made it]

seatingVars == <<res, party, draft, view, intact, knew>>

None == [state |-> "none"]
Unasked == [r \in Res |-> [state |-> "idle"]]
ResStates == {"booked", "confirmed", "late", "waiting", "arrived", "seated",
              "done", "no_show", "cancelled"}

SeatingInit ==
  /\ res = [r \in Res |-> None] /\ party = [p \in Party |-> None]
  /\ draft = [o \in Ord |-> [table |-> NoSpot, open |-> FALSE]]
  /\ view = [r \in Res |-> Unasked]
  /\ intact = {} /\ knew = [r \in Res |-> {}]

\* A request to book takes its snapshot; one that is refused changes nothing.
AskBooking(r) == /\ view[r] = Unasked /\ res[r] = None
                 /\ view' = [view EXCEPT ![r] = res]
                 /\ UNCHANGED <<res, party, draft, intact, knew>>

\* The floor fires and closes orders of its own accord.
OpenOrder(o, t) == /\ draft[o].table = NoSpot
                   /\ draft' = [draft EXCEPT ![o] = [table |-> t, open |-> TRUE]]
                   /\ UNCHANGED <<res, party, view, intact, knew>>
CloseOrder(o) == /\ draft[o].open
                 /\ draft' = [draft EXCEPT ![o].open = FALSE]
                 /\ UNCHANGED <<res, party, view, intact, knew>>

(***************************************************************************)
(* Bookings                                                                *)
(***************************************************************************)
\* Mutant: a party at the table does not hold it.
HoldsBookedOnly(s) == s = "booked"

Holds(s) == s \in {"booked", "seated"}

Overlap(a, b) == a.start < b.start + b.length /\ b.start < a.start + a.length

\* _res_conflict: only booked and seated reservations hold their table.
Conflict(v, new) == \E r \in Res : /\ Holds(v[r].state) /\ v[r].table = new.table
                                   /\ Overlap(v[r], new)

\* reservations_create
Book(r) ==
  /\ view[r] # Unasked
  /\ \E t \in Spot, s \in Starts, n \in Lengths :
       LET new == [state |-> "booked", table |-> t, start |-> s, length |-> n, order |-> NoOrd]
       IN ~Conflict(view[r], new) /\ res' = [res EXCEPT ![r] = new]
  /\ intact' = intact \union {r}
  /\ knew' = [knew EXCEPT ![r] = {q \in Res : view[r][q] # None}]
  /\ view' = [view EXCEPT ![r] = Unasked] /\ UNCHANGED <<party, draft>>

(***************************************************************************)
(* Lifecycles                                                              *)
(***************************************************************************)
ResNext(s) ==
  CASE s = "booked"    -> {"confirmed", "arrived", "waiting", "late", "no_show", "cancelled", "seated"}
    [] s = "confirmed" -> {"arrived", "waiting", "late", "no_show", "cancelled", "seated"}
    [] s = "late"      -> {"arrived", "waiting", "no_show", "cancelled", "seated"}
    [] s = "waiting"   -> {"arrived", "seated", "no_show", "cancelled"}
    [] s = "arrived"   -> {"seated", "waiting", "no_show", "cancelled"}
    [] s = "seated"    -> {"done", "cancelled"}
    [] s = "done"      -> {}
    [] OTHER           -> {"booked"}

PartyNext(s) ==
  CASE s = "waiting"   -> {"notified", "seating", "seated", "cancelled", "left", "no_response"}
    [] s = "notified"  -> {"seating", "seated", "cancelled", "left", "no_response"}
    [] s = "seating"   -> {"seated", "waiting", "cancelled", "left"}
    [] s = "seated"    -> {"cancelled"}
    [] s = "no_response" -> {"waiting", "notified"}
    [] OTHER           -> {"waiting"}

\* _seat_attach_order: an open order of the table, if there is one.
Attached(rec) ==
  LET found == {o \in Ord : draft[o].open /\ draft[o].table = rec.table}
  IN IF rec.state # "seated" \/ found = {} THEN {rec}
     ELSE {[rec EXCEPT !.order = o] : o \in found}

\* Mutant: restoring keeps the seating.
RestoredLinked(rec) == rec

\* Going back to the start of the lifecycle drops the order.
Restored(rec) == [rec EXCEPT !.order = NoOrd]

ResMoved(rec, s) == IF s = rec.state THEN rec
                    ELSE IF s = "booked" THEN Restored([rec EXCEPT !.state = s])
                    ELSE [rec EXCEPT !.state = s]

\* reservations_state: the new table is written before the move is judged, and
\* stays when it is refused.
ResState(r) ==
  /\ res[r] # None
  /\ \E t \in Spot, s \in ResStates :
       LET rec == [res[r] EXCEPT !.table = t]
           legal == s = rec.state \/ s \in ResNext(rec.state)
       IN \E new \in IF legal THEN Attached(ResMoved(rec, s)) ELSE {rec} :
            /\ res' = [res EXCEPT ![r] = new]
            /\ intact' = IF new.table = res[r].table /\ new.state \in {"booked", "seated"}
                         THEN intact ELSE intact \ {r}
  /\ UNCHANGED <<party, draft, view, knew>>

\* waitlist_add
Queue(p) == /\ party[p] = None
            /\ party' = [party EXCEPT ![p] = [state |-> "waiting", table |-> NoSpot, order |-> NoOrd]]
            /\ UNCHANGED <<res, draft, view, intact, knew>>

PartyMoved(rec, s, t) ==
  IF s = "seated" /\ t # NoSpot THEN [state |-> s, table |-> t, order |-> rec.order]
  ELSE IF s = rec.state THEN rec
  ELSE IF s = "waiting" THEN Restored([state |-> s, table |-> NoSpot, order |-> rec.order])
  ELSE [rec EXCEPT !.state = s]

\* waitlist_state: a party that is seated may be seated at another table.
PartyState(p) ==
  /\ party[p] # None
  /\ \E t \in Spot \union {NoSpot}, s \in {party[p].state} \union PartyNext(party[p].state) :
       \E new \in Attached(PartyMoved(party[p], s, t)) :
         party' = [party EXCEPT ![p] = new]
  /\ UNCHANGED <<res, draft, view, intact, knew>>

(***************************************************************************)
(* Specification                                                           *)
(***************************************************************************)
SeatingNext ==
  \/ \E r \in Res : AskBooking(r) \/ Book(r) \/ ResState(r)
  \/ \E p \in Party : Queue(p) \/ PartyState(p)
  \/ \E o \in Ord : CloseOrder(o) \/ \E t \in Spot : OpenOrder(o, t)

SeatingSpec == SeatingInit /\ [][SeatingNext]_seatingVars

(***************************************************************************)
(* Properties                                                              *)
(***************************************************************************)
\* Two bookings of one table, each of which held it ever since it was made,
\* are at different times unless they were made at once: what was double
\* booked was double booked by two overlapping requests, or went through a
\* state that does not hold the table, or changed tables.
HeldApart ==
  \A r, q \in intact : r # q /\ res[r].table = res[q].table /\ q \in knew[r]
                         => ~Overlap(res[r], res[q])

\* A party carries an order only while it is seated or after: one that is
\* restored, cancelled by mistake or sent back to the queue starts without the
\* order it sat at before, whose bill is another party's by now.
NoLeftoverOrder ==
  /\ \A r \in Res : res[r] # None /\ res[r].order # NoOrd =>
       res[r].state \in {"seated", "done", "cancelled"}
  /\ \A p \in Party : party[p] # None /\ party[p].order # NoOrd =>
       party[p].state \in {"seated", "cancelled"}
=============================================================================
