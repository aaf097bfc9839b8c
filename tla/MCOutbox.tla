------------------------------ MODULE MCOutbox ------------------------------
(***************************************************************************)
(* Three events: two of one aggregate, so that order matters, and one of   *)
(* another, so that a batch holds more than one; two dispatchers with      *)
(* different budgets of attempts.  Between them the kinds write to the     *)
(* database, may expire, keep a job ledger, and lose an answer.            *)
(***************************************************************************)
EXTENDS Outbox, TLC

CONSTANTS d1, d2

MCDispatcher == {d1, d2}
MCMaxAttempts == d1 :> 1 @@ d2 :> 2
MCAggregateOf == <<"a", "a", "b">>
MCKindOf == <<"drawer", "projection", "webhook">>
=============================================================================
