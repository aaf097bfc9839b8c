------------------------------- MODULE MCEdge -------------------------------
(***************************************************************************)
(* Two terminals, two open pushes.  In one journal both redeem points of   *)
(* which there is one, beside a sale and a poisonous event; in the other a *)
(* terminal journals one record twice and one forgets the uuid of two.     *)
(* Push and pull share no state: each is explored with the other at rest.  *)
(***************************************************************************)
EXTENDS EdgeSync, ConfigPull, TLC

CONSTANTS t1, t2, none

MCTerminal == {t1, t2}
Ev(u, k) == [uuid |-> u, kind |-> k]
MCJournals ==
  {t1 :> <<Ev("a", "sale"), Ev("b", "points")>> @@ t2 :> <<Ev("d", "points"), Ev("e", "poison")>>,
   t1 :> <<Ev("f", "stock"), Ev("f", "stock")>> @@ t2 :> <<Ev(none, "stock"), Ev(none, "sale")>>}
MCOpening == [k \in Delta |-> 1]

PullAtRest == clock = 2 /\ \A r \in Record : stamp[r] = 0 /\ editing[r] = 0
PushAtRest == registered = {} /\ orders = {} /\ journal = CHOOSE j \in Journals : TRUE

MCInit == EdgeInit /\ PullInit
MCNext == \/ EdgeNext /\ PullAtRest /\ UNCHANGED pullVars
          \/ PullNext /\ PushAtRest /\ UNCHANGED edgeVars
MCSpec == MCInit /\ [][MCNext]_<<edgeVars, pullVars>> /\ EdgeFairness
=============================================================================
