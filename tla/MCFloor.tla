------------------------------ MODULE MCFloor ------------------------------
(***************************************************************************)
(* The floor of a restaurant, each part explored with the other at rest.   *)
(*                                                                         *)
(* TableFire: two clients fire to one of two tables, each with an order    *)
(* uuid of its own, and two workers: fires, retries, moves, merges and     *)
(* tenders.                                                                *)
(*                                                                         *)
(* Seating: two tables, a party in the queue, and two bookings whose       *)
(* windows may coincide, overlap or touch and whose requests may overlap.  *)
(***************************************************************************)
EXTENDS TableFire, Seating, TLC

CONSTANTS w1, w2, u1, u2, f1, f2, b1, b2, p1, t1, t2, d1

MCOrderOf == f1 :> u1 @@ f2 :> u2
MCTableOf == f1 :> 1 @@ f2 :> 1

\* Merges either way, one of them confirmed or not, and a transfer.
Move(op, from, to, confirm) == [op |-> op, from |-> from, to |-> to, confirm |-> confirm]
MCMoves == {Move("tables/transfer", 1, 2, FALSE), Move("tables/merge", 1, 2, FALSE),
            Move("tables/merge", 2, 1, FALSE), Move("tables/merge", 2, 1, TRUE)}

\* The workers are alike, and so are the two clients.
MCClients == f1 :> f2 @@ f2 :> f1 @@ u1 :> u2 @@ u2 :> u1
MCSymmetry == Permutations({w1, w2}) \union {p @@ MCClients : p \in Permutations({w1, w2})}

TablesRest == /\ order = [u \in Uuid |-> NoOrder] /\ items = {}
              /\ \A w \in Worker : req[w] = Idle
SeatsRest == SeatingInit

FloorInit == TableInit /\ SeatingInit
FloorNext == \/ SeatsRest /\ TableNext /\ UNCHANGED seatingVars
             \/ TablesRest /\ SeatingNext /\ UNCHANGED tableVars
FloorSpec == FloorInit /\ [][FloorNext]_<<tableVars, seatingVars>>

\* One book at a time is explored: the queue or the reservations.
OneBook == (\A r \in Res : res[r] = None) \/ (\A p \in Party : party[p] = None)
=============================================================================
