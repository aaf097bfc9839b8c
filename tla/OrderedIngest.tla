---------------------------- MODULE OrderedIngest ----------------------------
(***************************************************************************)
(* What push promises an offline terminal: its journal is taken in, in     *)
(* order and with no gap, and every event settles once and for good.       *)
(***************************************************************************)
EXTENDS Naturals, Sequences

CONSTANTS Terminal, Settled  \* Settled: the ways an event may end

VARIABLE taken  \* [Terminal -> Seq(Settled)]

Init == taken = [t \in Terminal |-> <<>>]

Ingest(t) == /\ taken' = [taken EXCEPT ![t] = taken'[t]]
             /\ taken'[t] \in Seq(Settled)
             /\ Len(taken[t]) < Len(taken'[t])
             /\ SubSeq(taken'[t], 1, Len(taken[t])) = taken[t]

Next == \E t \in Terminal : Ingest(t)

Spec == Init /\ [][Next]_taken
=============================================================================
