------------------------------ MODULE OrderFsm ------------------------------
(***************************************************************************)
(* The lifecycle table of an order (domain/order_fsm.py) and the guard     *)
(* that judges a request by it (domain/order_guard.py; _fsm_guard in       *)
(* controllers/main.py).  pos.order.state is a projection: what the kitchen *)
(* does between open and paid, Odoo does not show.                          *)
(***************************************************************************)

FsmStates == {"draft", "open", "held", "confirmed", "sent", "cooking", "ready", "served",
              "paid", "closed", "cancelled", "refunded", "archived"}

Events == {"add_line", "open", "hold", "resume", "confirm", "send", "start_cooking", "mark_ready",
           "serve", "pay_partial", "pay_full", "close", "cancel", "refund", "archive"}

Payable == {"open", "confirmed", "sent", "cooking", "ready", "served"}

\* _T: <<state, event, next>>; what is absent is forbidden.
Table ==
  {<<s, "pay_partial", s>> : s \in Payable}
  \union {<<s, "pay_full", "paid">> : s \in Payable}
  \union {<<s, "add_line", s>> : s \in {"draft", "open"}}
  \union {<<s, "cancel", "cancelled">> :
            s \in {"draft", "open", "held", "confirmed", "sent", "served"}}
  \union {<<s, "refund", "refunded">> : s \in {"paid", "closed"}}
  \union {<<s, "archive", "archived">> : s \in {"closed", "cancelled", "refunded"}}
  \union {<<s, "send", "sent">> : s \in {"open", "confirmed"}}
  \union {<<"draft", "open", "open">>, <<"open", "hold", "held">>, <<"held", "resume", "open">>,
          <<"open", "confirm", "confirmed">>, <<"sent", "start_cooking", "cooking">>,
          <<"cooking", "mark_ready", "ready">>, <<"ready", "serve", "served">>,
          <<"paid", "close", "closed">>}

AllowedEvents(s) == {t[2] : t \in {x \in Table : x[1] = s}}

Settled == {"paid", "closed", "refunded"}
PrePayment == {"draft", "open", "held", "confirmed", "sent", "cooking", "ready", "served"}

\* check_operation: a pos.order.state and an operation, through the table.
OdooState == [draft |-> "open", paid |-> "paid", done |-> "closed", invoiced |-> "closed",
              cancel |-> "cancelled"]
OperationEvent == [pay |-> "pay_full", pay_partial |-> "pay_partial", refund |-> "refund",
                   cancel |-> "cancel", close |-> "close", comp |-> "add_line",
                   modify |-> "add_line", add_line |-> "add_line", fire |-> "send"]

Permitted(state, op) ==
  state \in DOMAIN OdooState /\ op \in DOMAIN OperationEvent
    => OperationEvent[op] \in AllowedEvents(OdooState[state])

\* evaluate: only "enforce" rejects; "observe", the default, takes a note.
Blocked(mode, state, op) == mode = "enforce" /\ ~Permitted(state, op)
=============================================================================
