----------------------------- MODULE ConfigPull -----------------------------
(***************************************************************************)
(* controllers/sync.py, pull: a terminal mirrors the configuration rows of *)
(* one model, a page at a time, from a watermark of their write dates.     *)
(*                                                                         *)
(* A row carries the time its transaction began, to the microsecond; the   *)
(* watermark keeps only the second.  So a page starts again at the rows of *)
(* the watermark's own second, and a row that commits later than rows      *)
(* pulled already is not seen when its second is behind the watermark.     *)
(***************************************************************************)
EXTENDS Naturals, FiniteSets

CONSTANTS Record,        \* ids, which break ties of the order
          PullLimit,     \* PULL_LIMIT
          MaxClock       \* bound on time, two ticks to the second

ASSUME PullAssumption == /\ Record \subseteq Nat /\ IsFiniteSet(Record)
                         /\ PullLimit \in Nat \ {0} /\ MaxClock \in Nat

VARIABLES clock,     \* now, in ticks
          stamp,     \* [Record -> Nat]: write_date; 0: the row is not there yet
          editing,   \* [Record -> Nat]: when the open transaction on it began, or 0
          mirrored,  \* rows the terminal has as they are (an archived one as archived)
          watermark, \* the second it asks from
          complete,  \* the last answer said so and nothing has committed since
          late       \* rows committed behind the watermark of their time

pullVars == <<clock, stamp, editing, mirrored, watermark, complete, late>>

Second(x) == x \div 2

PullInit == /\ clock = 2
            /\ stamp = [r \in Record |-> 0] /\ editing = [r \in Record |-> 0]
            /\ mirrored = Record /\ watermark = 0 /\ complete = FALSE /\ late = {}

Tick == /\ clock < MaxClock
        /\ clock' = clock + 1
        /\ UNCHANGED <<stamp, editing, mirrored, watermark, complete, late>>

BeginEdit(r) == /\ editing[r] = 0
                /\ editing' = [editing EXCEPT ![r] = clock]
                /\ UNCHANGED <<clock, stamp, mirrored, watermark, complete, late>>

\* Its change, or its archiving, is committed with the date it began.
CommitEdit(r) ==
  /\ editing[r] > 0
  /\ stamp' = [stamp EXCEPT ![r] = editing[r]]
  /\ editing' = [editing EXCEPT ![r] = 0]
  /\ mirrored' = mirrored \ {r}
  /\ late' = IF Second(editing[r]) < watermark THEN late \union {r} ELSE late \ {r}
  /\ complete' = FALSE
  /\ UNCHANGED <<clock, watermark>>

\* Mutant: the watermark's own second is taken as pulled.
ChangedAfterSecond == {r \in Record : stamp[r] > 0 /\ Second(stamp[r]) > watermark}

\* write_date > watermark, whose fraction of a second is gone.
Changed == {r \in Record : stamp[r] > 0 /\ Second(stamp[r]) >= watermark}

Earlier(r, s) == \/ stamp[r] < stamp[s]
                 \/ stamp[r] = stamp[s] /\ r < s

Page == {r \in Changed : Cardinality({s \in Changed : Earlier(s, r)}) < PullLimit}

HasMore(page) == Cardinality(page) = PullLimit

Pull ==
  /\ mirrored' = mirrored \union Page
  /\ late' = late \ Page
  /\ \/ Page = {} /\ UNCHANGED watermark
     \/ \E last \in Page : /\ \A r \in Page : ~Earlier(last, r)
                           /\ watermark' = Second(stamp[last])
  /\ complete' = ~HasMore(Page)
  /\ UNCHANGED <<clock, stamp, editing>>

PullNext == Tick \/ Pull \/ \E r \in Record : BeginEdit(r) \/ CommitEdit(r)

PullSpec == PullInit /\ [][PullNext]_pullVars

(***************************************************************************)
(* Properties                                                              *)
(***************************************************************************)
\* An answer that says it is complete leaves the terminal with every row as it
\* is, save those that committed behind the watermark.
CompleteIsCurrent == complete => Record \ late \subseteq mirrored
=============================================================================
