----------------------------- MODULE MCPosOrder -----------------------------
(***************************************************************************)
(* What a request passes, then what it does, each explored with the other  *)
(* at rest.                                                                *)
(*                                                                         *)
(* PosOrder: two workers on one order, enough for every pair of handlers   *)
(* to interleave, since a transaction is a snapshot and a commit.          *)
(*                                                                         *)
(* RequestGate: two workers serve requests that are delivered up to twice: *)
(* one of a terminal while its keys rotate and are revoked; two of it that *)
(* share a window; one with the shared token while emergencies come and go.*)
(***************************************************************************)
EXTENDS PosOrder, RequestGate, TLC

CONSTANTS w1, w2, k1, q1, q2, q3

WorkerSymmetry == Permutations({w1, w2})
MCOpeningTotal == {2}

OrderRests == \A o \in Order : row[o] = NewRow(2) /\ \A w \in Worker : req[w] = Idle
GateRests == GateInit

RequestInit == OrderInit /\ GateInit
RequestNext == \/ GateRests /\ OrderNext /\ UNCHANGED gateVars
               \/ OrderRests /\ GateNext /\ UNCHANGED orderVars
RequestSpec == RequestInit /\ [][RequestNext]_<<orderVars, gateVars>>

Rested == [active |-> TRUE, kid |-> 1, prev |-> 0, rotated |-> 0]

\* Bound on the requests explored: the three kinds one at a time.
OneKind ==
  \/ sent[q2] = Unsent /\ sent[q3] = Unsent /\ emergency = 0 /\ exempt = {}
  \/ sent[q3] = Unsent /\ emergency = 0 /\ exempt = {} /\ terminal = Rested
  \/ sent[q1] = Unsent /\ sent[q2] = Unsent /\ terminal = Rested /\ now < 4
=============================================================================
