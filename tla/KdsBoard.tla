------------------------------ MODULE KdsBoard ------------------------------
(***************************************************************************)
(* The kitchen display: the tickets of one order on the server             *)
(* (models/kds_ticket.py, kds_state, kds_transition, bus_poll and          *)
(* order_void in controllers/main.py) and the boards that show them        *)
(* (static/src/kds/root.js and store.js).                                  *)
(*                                                                         *)
(* News of a ticket reaches the bus by two roads.  A fire or a void        *)
(* publishes the state it wrote to the outbox, whose dispatcher writes it  *)
(* to the bus in a later transaction; a transition writes to the bus in    *)
(* its own.  A bus row has its id when it is written and is readable when  *)
(* its transaction commits.  A board polls for the rows above its cursor,  *)
(* and falls back on a snapshot of all tickets.                            *)
(*                                                                         *)
(* A transition that meets a row updated since its snapshot fails with     *)
(* 40001 and is retried, so what it decides on is the committed state.     *)
(***************************************************************************)
EXTENDS Integers, Sequences, FiniteSetsExt

CONSTANTS Ticket,
          Fire, FireOf, \* [Ticket -> Fire]: the fire that creates it
          Screen,
          InIdOrder,    \* bus rows commit in the order of their ids
          MaxMoves,     \* bound on transitions that change a ticket
          MaxMishaps    \* bound on lost calls, transactions rolled back, and
                        \* operator replays, together

ASSUME KdsAssumption ==
  /\ FireOf \in [Ticket -> Fire]
  /\ InIdOrder \in BOOLEAN
  /\ MaxMoves \in Nat /\ MaxMishaps \in Nat

VARIABLES state,   \* [Ticket -> state or "none"]: committed
          had,     \* history: [Ticket -> set of states]: states it had
          outbox,  \* bus events of the order: [news, done]
          voided,  \* the event key void:<order uuid> is taken
          bus,     \* bus rows by id, those of one transaction as one: [news, phase]
          sending, \* the dispatcher's open transaction: [event, row]
          shown,   \* [Screen -> [Ticket -> state]]: store.byId
          cursor,  \* [Screen -> Nat]: store.busLast
          offline, \* [Screen -> BOOLEAN]: _busOffline
          call,    \* [Screen -> [Channel -> Call]]: its requests in flight
          moves, replays, losses

kdsVars == <<state, had, outbox, voided, bus, sending, shown, cursor, offline,
             call, moves, replays, losses>>

FLOW == <<"fired", "accepted", "preparing", "ready", "served">>
Rank == [s \in {FLOW[i] : i \in 1 .. 5} |-> CHOOSE i \in 1 .. 5 : FLOW[i] = s]
Live == {"fired", "accepted", "preparing", "ready"}

\* pollBus and _transition of a screen run side by side, each with one request
\* at a time; both may ask for a snapshot.
Channel == {"poll", "move"}
Quiet == [kind |-> "quiet"]
Wanted == [kind |-> "wanted"]
NotSending == [event |-> 0, row |-> 0]

KdsInit == /\ state = [t \in Ticket |-> "none"]
           /\ had = [t \in Ticket |-> {"none"}]
           /\ outbox = <<>> /\ voided = FALSE
           /\ bus = <<>> /\ sending = NotSending
           /\ shown = [s \in Screen |-> state]
           /\ cursor = [s \in Screen |-> 0]
           /\ offline = [s \in Screen |-> FALSE]
           /\ call = [s \in Screen |-> [c \in Channel |-> Quiet]]
           /\ moves = 0 /\ replays = 0 /\ losses = 0

MayFail == replays + losses < MaxMishaps

SetCall(s, c, m) == call' = [call EXCEPT ![s] = [@ EXCEPT ![c] = m]]

SetStates(new) ==
  /\ state' = [t \in Ticket |-> IF t \in DOMAIN new THEN new[t] ELSE state[t]]
  /\ had' = [t \in Ticket |-> had[t] \union {state'[t]}]

Overlay(new, view) == [t \in Ticket |-> IF t \in DOMAIN new THEN new[t] ELSE view[t]]

(***************************************************************************)
(* Fires and voids                                                         *)
(***************************************************************************)
Publish(news) == outbox' = Append(outbox, [news |-> news, done |-> FALSE])

SendFired(f) ==
  LET new == {t \in Ticket : FireOf[t] = f}
      news == [t \in new |-> "fired"]
  IN /\ \A t \in new : state[t] = "none"
     /\ SetStates(news) /\ Publish(news)
     /\ UNCHANGED <<voided, bus, sending, shown, cursor, offline, call, moves, replays, losses>>

\* The tickets whose rows an open transition has locked.
RowLocked(t) == \E s \in Screen : call[s]["move"].kind = "open" /\ call[s]["move"].ticket = t

\* cancel_for_order and _publish_kds: the event key is the order's, so the
\* event of a second void is swallowed.
Void ==
  LET live == {t \in Ticket : state[t] \in Live}
      news == [t \in live |-> "cancel"]
  IN /\ live # {} /\ \A t \in live : ~RowLocked(t)
     /\ SetStates(news)
     /\ IF voided THEN UNCHANGED outbox ELSE Publish(news)
     /\ voided' = TRUE
     /\ UNCHANGED <<bus, sending, shown, cursor, offline, call, moves, replays, losses>>

(***************************************************************************)
(* The bus                                                                 *)
(***************************************************************************)
WriteBus(news) == bus' = Append(bus, [news |-> news, phase |-> "open"])

MayCommit(i) == InIdOrder => \A j \in 1 .. i - 1 : bus[j].phase # "open"

EndRow(i, phase) == bus' = [bus EXCEPT ![i] = [@ EXCEPT !.phase = phase]]

Undelivered == {e \in DOMAIN outbox : ~outbox[e].done}

\* An aggregate is delivered in order (Outbox).
Dispatch ==
  /\ sending = NotSending /\ Undelivered # {}
  /\ LET e == Min(Undelivered)
     IN /\ WriteBus(outbox[e].news)
        /\ sending' = [event |-> e, row |-> Len(bus) + 1]
  /\ UNCHANGED <<state, had, outbox, voided, shown, cursor, offline, call, moves, replays, losses>>

DispatchCommit ==
  /\ sending # NotSending /\ MayCommit(sending.row)
  /\ EndRow(sending.row, "sent")
  /\ outbox' = [outbox EXCEPT ![sending.event] = [@ EXCEPT !.done = TRUE]]
  /\ sending' = NotSending
  /\ UNCHANGED <<state, had, voided, shown, cursor, offline, call, moves, replays, losses>>

DispatchLost ==
  /\ sending # NotSending /\ MayFail
  /\ losses' = losses + 1
  /\ EndRow(sending.row, "lost")
  /\ sending' = NotSending
  /\ UNCHANGED <<state, had, outbox, voided, shown, cursor, offline, call, moves, replays>>

Replay ==
  /\ MayFail
  /\ replays' = replays + 1
  /\ \E e \in DOMAIN outbox : /\ outbox[e].done
                              /\ outbox' = [outbox EXCEPT ![e] = [@ EXCEPT !.done = FALSE]]
  /\ UNCHANGED <<state, had, voided, bus, sending, shown, cursor, offline, call, moves, losses>>

(***************************************************************************)
(* kds_transition                                                          *)
(***************************************************************************)
\* What the board offers for the state it shows: the next one, or a recall.
Offered(v) == (IF v \in Live THEN {FLOW[Rank[v] + 1]} ELSE {})
              \union (IF v \in Live \ {"fired"} THEN {"recall"} ELSE {})

\* _set_state and action_recall: the state to move to, or the current one.
Target(cur, action) ==
  IF action = "recall"
  THEN IF cur \in DOMAIN Rank \ {"fired"} THEN FLOW[Rank[cur] - 1] ELSE cur
  ELSE IF cur \in Live /\ Rank[action] > Rank[cur] THEN action ELSE cur

\* The answer; or it is lost, and the screen asks for a snapshot instead.
Answers(t, v) == {[kind |-> "reply", ticket |-> t, state |-> v]}
                 \union (IF MayFail THEN {Wanted} ELSE {})

CountLoss(m) == losses' = IF m = Wanted THEN losses + 1 ELSE losses

Move(s, t) ==
  /\ call[s]["move"] = Quiet /\ ~RowLocked(t) /\ moves < MaxMoves
  /\ \E action \in Offered(shown[s][t]) :
       /\ Target(state[t], action) # state[t]
       /\ SetCall(s, "move", [kind |-> "open", ticket |-> t, row |-> Len(bus) + 1,
                              to |-> Target(state[t], action)])
       /\ WriteBus([x \in {t} |-> Target(state[t], action)])
  /\ moves' = moves + 1
  /\ UNCHANGED <<state, had, outbox, voided, sending, shown, cursor, offline, replays, losses>>

\* noop, terminal, illegal or floor: the answer still carries the ticket.
MoveRefused(s, t) ==
  /\ call[s]["move"] = Quiet /\ ~RowLocked(t)
  /\ \E action \in Offered(shown[s][t]) : Target(state[t], action) = state[t]
  /\ \E m \in Answers(t, state[t]) : SetCall(s, "move", m) /\ CountLoss(m)
  /\ UNCHANGED <<state, had, outbox, voided, bus, sending, shown, cursor, offline, moves, replays>>

MoveCommit(s) ==
  LET m == call[s]["move"]
  IN /\ m.kind = "open" /\ MayCommit(m.row)
     /\ EndRow(m.row, "sent")
     /\ SetStates([x \in {m.ticket} |-> m.to])
     /\ \E a \in Answers(m.ticket, m.to) : SetCall(s, "move", a) /\ CountLoss(a)
     /\ UNCHANGED <<outbox, voided, sending, shown, cursor, offline, moves, replays>>

MoveLost(s) ==
  LET m == call[s]["move"]
  IN /\ m.kind = "open" /\ MayFail
     /\ losses' = losses + 1
     /\ EndRow(m.row, "lost")
     /\ SetCall(s, "move", Wanted)
     /\ UNCHANGED <<state, had, outbox, voided, sending, shown, cursor, offline, moves, replays>>

(***************************************************************************)
(* bus_poll and kds_state, on the server                                   *)
(***************************************************************************)
\* Mutant: a row is readable before its transaction commits.
WrittenRows == {i \in DOMAIN bus : bus[i].phase # "lost"}

Rows == {i \in DOMAIN bus : bus[i].phase = "sent"}

Last(rows, otherwise) == IF rows = {} THEN otherwise ELSE Max(rows)

\* Mutant: rows are applied newest first.
Oldest(rows) ==
  LET about(t) == {i \in rows : t \in DOMAIN bus[i].news}
  IN [t \in {x \in Ticket : about(x) # {}} |-> bus[Min(about(t))].news[t]]

\* What a board makes of rows applied in order of their ids.
Newest(rows) ==
  LET about(t) == {i \in rows : t \in DOMAIN bus[i].news}
  IN [t \in {x \in Ticket : about(x) # {}} |-> bus[Max(about(t))].news[t]]

\* A poll is worth a step when there is something new or the screen was offline.
New(s) == {i \in Rows : i > cursor[s]}
MayPoll(s) == call[s]["poll"] = Quiet /\ (New(s) # {} \/ offline[s])

Poll(s) ==
  /\ MayPoll(s)
  /\ SetCall(s, "poll", [kind |-> "rows", news |-> Newest(New(s)), last |-> Last(New(s), cursor[s])])
  /\ UNCHANGED <<state, had, outbox, voided, bus, sending, shown, cursor, offline, moves,
                 replays, losses>>

\* A failed poll leaves the screen offline.
PollLost(s) ==
  /\ MayPoll(s) /\ MayFail
  /\ losses' = losses + 1
  /\ offline' = [offline EXCEPT ![s] = TRUE]
  /\ UNCHANGED <<state, had, outbox, voided, bus, sending, shown, cursor, call, moves, replays>>

Snapshot(s, c) ==
  /\ call[s][c] = Wanted
  /\ SetCall(s, c, [kind |-> "board", view |-> state, last |-> Last(Rows, 0)])
  /\ UNCHANGED <<state, had, outbox, voided, bus, sending, shown, cursor, offline, moves,
                 replays, losses>>

\* seedSnapshot keeps the last board when it fails.  It follows a mishap, and so
\* is not counted as one of its own.
SnapshotLost(s, c) ==
  /\ call[s][c] = Wanted
  /\ SetCall(s, c, Quiet)
  /\ UNCHANGED <<state, had, outbox, voided, bus, sending, shown, cursor, offline, moves,
                 replays, losses>>

(***************************************************************************)
(* Answers reach the screen                                                *)
(***************************************************************************)
\* pollBus drops the rows of the first poll after an outage, leaves them above
\* its cursor, and asks for a snapshot.
RowsArrive(s) ==
  LET m == call[s]["poll"]
  IN /\ m.kind = "rows"
     /\ IF offline[s]
        THEN SetCall(s, "poll", Wanted) /\ UNCHANGED <<shown, cursor>>
        ELSE /\ SetCall(s, "poll", Quiet)
             /\ shown' = [shown EXCEPT ![s] = Overlay(m.news, @)]
             /\ cursor' = [cursor EXCEPT ![s] = m.last]
     /\ offline' = [offline EXCEPT ![s] = FALSE]
     /\ UNCHANGED <<state, had, outbox, voided, bus, sending, moves, replays, losses>>

BoardArrives(s, c) ==
  LET m == call[s][c]
  IN /\ m.kind = "board"
     /\ shown' = [shown EXCEPT ![s] = m.view]
     /\ cursor' = [cursor EXCEPT ![s] = m.last]
     /\ SetCall(s, c, Quiet)
     /\ UNCHANGED <<state, had, outbox, voided, bus, sending, offline, moves, replays, losses>>

ReplyArrives(s) ==
  LET m == call[s]["move"]
  IN /\ m.kind = "reply"
     /\ shown' = [shown EXCEPT ![s] = [@ EXCEPT ![m.ticket] = m.state]]
     /\ SetCall(s, "move", Quiet)
     /\ UNCHANGED <<state, had, outbox, voided, bus, sending, cursor, offline, moves,
                    replays, losses>>

(***************************************************************************)
(* Specification                                                           *)
(***************************************************************************)
Arrive(s, c) == \/ c = "poll" /\ RowsArrive(s)
                \/ c = "move" /\ ReplyArrives(s)
                \/ BoardArrives(s, c)

KdsNext ==
  \/ \E f \in Fire : SendFired(f)
  \/ Void \/ Dispatch \/ DispatchCommit \/ DispatchLost \/ Replay
  \/ \E s \in Screen :
       \/ \E t \in Ticket : Move(s, t) \/ MoveRefused(s, t)
       \/ MoveCommit(s) \/ MoveLost(s) \/ Poll(s) \/ PollLost(s)
       \/ \E c \in Channel : Snapshot(s, c) \/ SnapshotLost(s, c) \/ Arrive(s, c)

KdsSpec == KdsInit /\ [][KdsNext]_kdsVars

\* The server keeps working: the cron dispatches every minute and transactions
\* end.  A screen polls every four seconds, and its request is answered or
\* times out.
Working == Dispatch \/ DispatchCommit \/ \E s \in Screen : MoveCommit(s)
Polling(s) == Poll(s) \/ Snapshot(s, "poll") \/ Arrive(s, "poll")
KdsFairness == WF_kdsVars(Working) /\ \A s \in Screen : WF_kdsVars(Polling(s))

FairKdsSpec == KdsSpec /\ KdsFairness

(***************************************************************************)
(* Properties                                                              *)
(***************************************************************************)
\* A board shows no state that its ticket never had: nothing that was rolled
\* back reaches the kitchen, by whichever road.
ShownWasTrue == \A s \in Screen, t \in Ticket : shown[s][t] \in had[t]

Announced(t) == \E e \in DOMAIN outbox : /\ t \in DOMAIN outbox[e].news
                                         /\ outbox[e].news[t] = "cancel"

\* A cancellation that was published appears on every board, through outages,
\* failed snapshots, lost answers and rolled back dispatches -- unless an
\* operator replays an older event of the ticket.
CancelReachesScreens ==
  \A s \in Screen, t \in Ticket :
    <>Announced(t) => <>(shown[s][t] = "cancel" \/ replays > 0)
=============================================================================
