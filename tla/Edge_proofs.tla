---------------------------- MODULE Edge_proofs ----------------------------
(***************************************************************************)
(* Proofs about the cloud's end of offline terminals.  EdgeSync: the       *)
(* ledger of a terminal is its journal up to the cursor, each account is   *)
(* down by the distinct uuids the ledger knows, and what an open push saw  *)
(* of the points still holds unless another overtook it -- from which      *)
(* follow the intake in order, the balances and the flags.  ConfigPull:    *)
(* what a terminal lacks is ahead of its watermark, or was late.           *)
(***************************************************************************)
EXTENDS EdgeSync, ConfigPull, TLAPS, FiniteSetTheorems, WellFoundedInduction

\* A nonempty set of numbers has a least one.
LEMMA LeastNumber ==
  ASSUME NEW S \in SUBSET Nat, S # {}
  PROVE  \E m \in S : \A n \in S : ~(n < m)
<1>1. PICK m \in S : \A n \in S : ~(<<n, m>> \in OpToRel(<, Nat))
  BY NatLessThanWellFounded, WFMin
<1> QED BY <1>1 DEF OpToRel

(***************************************************************************)
(* The order of a page                                                     *)
(***************************************************************************)
Stamps == [Record -> Nat]

Before(r) == {s \in Changed : Earlier(s, r)}
Rank(r) == Cardinality(Before(r))

PullTypes == /\ stamp \in Stamps /\ editing \in Stamps
             /\ mirrored \subseteq Record /\ watermark \in Nat /\ clock \in Nat

LEMMA EarlierOrders ==
  ASSUME PullTypes, NEW r \in Record, NEW s \in Record
  PROVE  /\ ~Earlier(r, r)
         /\ Earlier(r, s) \/ Earlier(s, r) \/ r = s
         /\ Earlier(r, s) => ~Earlier(s, r)
         /\ \A q \in Record : Earlier(q, r) /\ Earlier(r, s) => Earlier(q, s)
BY PullAssumption DEF PullTypes, Stamps, Earlier

LEMMA PageRanks == Page = {r \in Changed : Rank(r) < PullLimit}
BY DEF Page, Rank, Before

LEMMA ChangedFinite ==
  /\ Changed \subseteq Record /\ IsFiniteSet(Changed) /\ Page \subseteq Changed /\ IsFiniteSet(Page)
  /\ \A r : Before(r) \subseteq Changed /\ IsFiniteSet(Before(r)) /\ Rank(r) \in Nat
<1>1. Changed \subseteq Record /\ IsFiniteSet(Changed)
  BY PullAssumption, FS_Subset DEF Changed
<1>2. Page \subseteq Changed /\ IsFiniteSet(Page)
  BY <1>1, FS_Subset DEF Page
<1>3. \A r : Before(r) \subseteq Changed /\ IsFiniteSet(Before(r)) /\ Rank(r) \in Nat
  BY <1>1, FS_Subset, FS_CardinalityType DEF Before, Rank
<1> QED BY <1>1, <1>2, <1>3

\* An earlier row has a lower rank.
LEMMA RankRises ==
  ASSUME PullTypes, NEW r \in Changed, NEW s \in Changed, Earlier(r, s)
  PROVE  Rank(r) < Rank(s)
<1>1. Before(r) \subseteq Before(s)
  BY EarlierOrders, ChangedFinite DEF Before
<1>2. r \in Before(s) /\ r \notin Before(r)
  BY EarlierOrders, ChangedFinite DEF Before
<1>3. Before(r) # Before(s)
  BY <1>2
<1> QED BY <1>1, <1>3, ChangedFinite, FS_Subset DEF Rank

\* What a page leaves is later than all it takes.
LEMMA PageFirst ==
  ASSUME PullTypes, NEW r \in Changed \ Page, NEW s \in Page
  PROVE  Earlier(s, r)
<1>1. Rank(r) >= PullLimit /\ Rank(s) < PullLimit
  BY PageRanks, ChangedFinite, PullAssumption
<1>2. ~Earlier(r, s) /\ r # s
  BY <1>1, RankRises, ChangedFinite, PullAssumption
<1> QED BY <1>2, EarlierOrders, ChangedFinite

\* A page that leaves anything is full.
LEMMA PageFills ==
  ASSUME PullTypes, Changed # Page
  PROVE  Cardinality(Page) >= PullLimit /\ Cardinality(Page) \in Nat
<1> DEFINE Rest == Changed \ Page
<1>1. Rest # {} /\ Rest \subseteq Changed
  BY ChangedFinite
<1>2. PICK r \in Rest : \A s \in Rest : ~(Rank(s) < Rank(r))
  <2> DEFINE ranks == {Rank(s) : s \in Rest}
  <2>1. ranks \subseteq Nat /\ ranks # {}
    BY <1>1, ChangedFinite
  <2> HIDE DEF ranks
  <2>2. PICK n \in ranks : \A m \in ranks : ~(m < n)
    BY <2>1, LeastNumber
  <2> QED BY <2>2 DEF ranks
<1>3. Before(r) = Page
  <2>1. \A s \in Before(r) : s \in Page
    BY <1>1, <1>2, RankRises, ChangedFinite DEF Before
  <2>2. \A s \in Page : s \in Before(r)
    BY PageFirst, ChangedFinite DEF Before
  <2> QED BY <2>1, <2>2
<1>4. Cardinality(Page) >= PullLimit
  <2>1. Rank(r) = Cardinality(Page)
    BY <1>3 DEF Rank
  <2>2. Rank(r) >= PullLimit
    BY <1>1, PageRanks, ChangedFinite, PullAssumption
  <2> QED BY <2>1, <2>2
<1> QED BY <1>4, ChangedFinite, FS_CardinalityType

\* A page that is not full takes all there is.
LEMMA PartPageIsAll ==
  ASSUME PullTypes, Changed # Page, NEW last \in Page, \A r \in Page : ~Earlier(last, r)
  PROVE  HasMore(Page)
<1>1. Cardinality(Page) <= PullLimit
  <2>1. Page \ {last} \subseteq Before(last)
    BY EarlierOrders, ChangedFinite DEF Before
  <2>2. Cardinality(Page \ {last}) = Cardinality(Page) - 1
    BY ChangedFinite, FS_RemoveElement
  <2>3. Cardinality(Page \ {last}) <= Rank(last)
    BY <2>1, ChangedFinite, FS_Subset DEF Rank
  <2>4. Rank(last) < PullLimit
    BY PageRanks
  <2>5. Cardinality(Page) \in Nat /\ Rank(last) \in Nat
    BY ChangedFinite, FS_CardinalityType
  <2> QED BY <2>2, <2>3, <2>4, <2>5, PullAssumption
<1> QED BY <1>1, PageFills, PullAssumption DEF HasMore

(***************************************************************************)
(* What the terminal mirrors                                               *)
(***************************************************************************)
Mirrors == {r \in Record : r \notin mirrored /\ r \notin late}

\* Inductive: what the terminal lacks is ahead of its watermark or behind it
\* by having committed late.
PullInv == /\ PullTypes
           /\ \A r \in Mirrors : stamp[r] > 0 /\ Second(stamp[r]) >= watermark
           /\ CompleteIsCurrent

PullFollows == PullInv /\ [PullNext]_pullVars

LEMMA SecondRises ==
  /\ \A x \in Nat : Second(x) \in Nat
  /\ \A x, y \in Nat : x <= y => Second(x) <= Second(y)
BY DEF Second

LEMMA PullKeeps ==
  ASSUME PullInv, Pull
  PROVE  PullInv'
<1>t. PullTypes
  BY DEF PullInv
<1>1. /\ mirrored' = mirrored \union Page /\ late' = late \ Page
      /\ complete' = ~HasMore(Page)
      /\ UNCHANGED <<clock, stamp, editing>>
  BY DEF Pull
<1>2. PullTypes'
  <2>1. watermark' \in Nat
    <3>1. \A r \in Record : Second(stamp[r]) \in Nat
      BY <1>t, SecondRises DEF PullTypes, Stamps
    <3> QED BY <1>t, <3>1, ChangedFinite DEF Pull, PullTypes
  <2> QED BY <1>t, <1>1, <2>1, ChangedFinite DEF PullTypes
<1>3. \A r \in Mirrors' : r \in Mirrors /\ r \in Changed \ Page
  BY <1>1 DEF Mirrors, PullInv, Changed
<1>4. ASSUME NEW r \in Mirrors' PROVE stamp'[r] > 0 /\ Second(stamp'[r]) >= watermark'
  <2>1. r \in Changed \ Page /\ r \in Record
    BY <1>3 DEF Mirrors
  <2>2. CASE Page = {} /\ UNCHANGED watermark
    BY <1>1, <2>1, <2>2 DEF Changed
  <2>3. CASE \E last \in Page : /\ \A s \in Page : ~Earlier(last, s)
                                /\ watermark' = Second(stamp[last])
    <3>1. PICK last \in Page : watermark' = Second(stamp[last])
      BY <2>3
    <3>2. Earlier(last, r)
      BY <1>t, <2>1, PageFirst
    <3>3. stamp[last] <= stamp[r] /\ stamp[last] \in Nat /\ stamp[r] \in Nat
      BY <1>t, <2>1, <3>2, ChangedFinite DEF Earlier, PullTypes, Stamps
    <3>4. Second(stamp[last]) <= Second(stamp[r])
          /\ Second(stamp[last]) \in Nat /\ Second(stamp[r]) \in Nat
      BY <3>3, SecondRises
    <3> QED BY <1>1, <2>1, <3>1, <3>4 DEF Changed
  <2> QED BY <2>2, <2>3 DEF Pull
<1>5. CompleteIsCurrent'
  <2> SUFFICES ASSUME complete', NEW r \in Record, r \notin late' PROVE r \in mirrored'
    BY DEF CompleteIsCurrent
  <2>1. ~HasMore(Page)
    BY <1>1
  <2>2. Changed = Page
    <3>1. CASE Page = {}
      <4>1. Cardinality(Page) = 0
        BY <3>1, FS_EmptySet
      <4> QED BY <1>t, <4>1, PageFills, PullAssumption
    <3>2. CASE \E last \in Page : \A s \in Page : ~Earlier(last, s)
      BY <1>t, <2>1, <3>2, PartPageIsAll
    <3> QED BY <3>1, <3>2 DEF Pull
  <2>3. CASE r \in Mirrors'
    BY <1>3, <2>2, <2>3
  <2>4. CASE r \notin Mirrors'
    BY <2>4 DEF Mirrors
  <2> QED BY <2>3, <2>4
<1> QED BY <1>2, <1>4, <1>5 DEF PullInv

LEMMA PullStep ==
  ASSUME PullFollows
  PROVE  PullInv'
<1>i. PullInv
  BY DEF PullFollows
<1>1. ASSUME Tick PROVE PullInv'
  BY <1>i, <1>1 DEF Tick, PullInv, PullTypes, Mirrors, CompleteIsCurrent
<1>2. ASSUME NEW r \in Record, BeginEdit(r) PROVE PullInv'
  <2>1. editing' \in Stamps
    BY <1>i, <1>2 DEF BeginEdit, PullInv, PullTypes, Stamps
  <2> QED BY <1>i, <1>2, <2>1 DEF BeginEdit, PullInv, PullTypes, Mirrors, CompleteIsCurrent
<1>3. ASSUME NEW r \in Record, CommitEdit(r) PROVE PullInv'
  <2>1. /\ editing[r] > 0 /\ editing[r] \in Nat
        /\ stamp' = [stamp EXCEPT ![r] = editing[r]]
        /\ mirrored' = mirrored \ {r} /\ watermark' = watermark /\ clock' = clock
        /\ late' = IF Second(editing[r]) < watermark THEN late \union {r} ELSE late \ {r}
    BY <1>i, <1>3 DEF CommitEdit, PullInv, PullTypes, Stamps
  <2>2. PullTypes'
    BY <1>i, <1>3, <2>1 DEF CommitEdit, PullInv, PullTypes, Stamps
  <2>3. ASSUME NEW s \in Mirrors' PROVE stamp'[s] > 0 /\ Second(stamp'[s]) >= watermark'
    <3>1. CASE s = r
      <4>1. stamp'[r] = editing[r]
        BY <1>i, <2>1 DEF PullInv, PullTypes, Stamps
      <4>2. ~(Second(editing[r]) < watermark)
        BY <2>1, <2>3, <3>1 DEF Mirrors
      <4>3. Second(editing[r]) \in Nat /\ watermark \in Nat
        BY <1>i, <2>1, SecondRises DEF PullInv, PullTypes
      <4> QED BY <2>1, <3>1, <4>1, <4>2, <4>3
    <3>2. CASE s # r
      <4>1. s \in Mirrors /\ stamp'[s] = stamp[s]
        BY <1>i, <2>1, <2>3, <3>2 DEF Mirrors, PullInv, PullTypes, Stamps
      <4> QED BY <1>i, <2>1, <4>1 DEF PullInv
    <3> QED BY <3>1, <3>2
  <2>4. CompleteIsCurrent'
    BY <1>3 DEF CommitEdit, CompleteIsCurrent
  <2> QED BY <2>2, <2>3, <2>4 DEF PullInv
<1>4. ASSUME Pull PROVE PullInv'
  BY <1>i, <1>4, PullKeeps
<1>5. ASSUME UNCHANGED pullVars PROVE PullInv'
  BY <1>i, <1>5 DEF pullVars, PullInv, PullTypes, Mirrors, CompleteIsCurrent
<1> QED BY <1>1, <1>2, <1>3, <1>4, <1>5 DEF PullFollows, PullNext

LEMMA PullStart ==
  ASSUME PullInit
  PROVE  PullInv
BY DEF PullInit, PullInv, PullTypes, Stamps, Mirrors, CompleteIsCurrent

\* However large a page, however many rows share a second, and whenever their
\* transactions commit: a terminal told it is complete mirrors every row but
\* those that committed behind its watermark.
THEOREM PullSafety == PullSpec => []CompleteIsCurrent
<1>1. PullInit => PullInv
  BY PullStart
<1>2. PullInv /\ [PullNext]_pullVars => PullInv'
  BY PullStep DEF PullFollows
<1>3. PullInv => CompleteIsCurrent
  BY DEF PullInv
<1> QED BY <1>1, <1>2, <1>3, PTL DEF PullSpec
(***************************************************************************)
(* Pushes                                                                  *)
(***************************************************************************)
EdgeTypes ==
  /\ journal \in Journals
  /\ written \in [Terminal -> Nat] /\ cursor \in [Terminal -> Nat]
  /\ \A t \in Terminal : cursor[t] <= written[t] /\ written[t] <= Len(journal[t])
  /\ balance \in [Delta -> Int]
  /\ DOMAIN outcome = Terminal /\ \A t \in Terminal : outcome[t] \in [Seqs(t) -> Outcome]
  /\ DOMAIN effects = Terminal /\ \A t \in Terminal : effects[t] \in [Seqs(t) -> Nat]

HasPoints(p) == \E i \in New(p) : KindOf(p.terminal, i) = "points"

\* A push under way saw sales that are still there, and, unless another has
\* overtaken it, the points as they are.
IsPush(p) ==
  /\ p = [terminal |-> p.terminal, to |-> p.to, orders |-> p.orders,
          balance |-> p.balance, stale |-> p.stale]
  /\ p.terminal \in Terminal /\ p.to \in Nat /\ p.to <= written[p.terminal]
  /\ p.balance \in [Delta -> Int]
  /\ p.orders \subseteq orders
  /\ HasPoints(p) /\ ~p.stale => p.balance["points"] = balance["points"]

Done == {"applied", "flagged"}

\* The ledger has the events up to the cursor, and no other.
LedgerToCursor ==
  \A t \in Terminal : \A i \in Seqs(t) :
    IF i <= cursor[t]
    THEN outcome[t][i] # "none" /\ effects[t][i] = (IF outcome[t][i] \in Done THEN 1 ELSE 0)
    ELSE outcome[t][i] = "none" /\ effects[t][i] = 0

\* Every event up to the cursor has had its effect, by its own push or an
\* earlier one.
SalesAreIn ==
  \A t \in Terminal : \A i \in 1..cursor[t] :
    KindOf(t, i) = "sale" /\ Uuid(t, i) # NoUuid => Uuid(t, i) \in orders

KnownOf(t, k) == {<<t, Uuid(t, i)>> : i \in
  {j \in 1..cursor[t] : KindOf(t, j) = k /\ Uuid(t, j) # NoUuid}}

Known(k) == UNION {KnownOf(t, k) : t \in Terminal}

AccountsAddUp ==
  \A k \in Delta : IsFiniteSet(Known(k)) /\ balance[k] = Opening[k] - Cardinality(Known(k))

EdgeInv == /\ EdgeTypes /\ \A p \in open : IsPush(p)
           /\ LedgerToCursor /\ SalesAreIn /\ AccountsAddUp /\ OverdraftFlagged

EdgeFollows == EdgeInv /\ [EdgeNext]_edgeVars

LEMMA Journalled ==
  ASSUME EdgeTypes, NEW t \in Terminal
  PROVE  /\ Len(journal[t]) \in Nat /\ Seqs(t) = 1..Len(journal[t])
         /\ \A i \in Seqs(t) : KindOf(t, i) \in Kind
         /\ \A i, j \in Seqs(t) : Uuid(t, i) = Uuid(t, j) /\ Uuid(t, i) # NoUuid
                                    => KindOf(t, i) = KindOf(t, j)
<1>1. journal[t] \in Seq({journal[t][i] : i \in DOMAIN journal[t]})
  BY EdgeAssumption DEF EdgeTypes
<1>2. Len(journal[t]) \in Nat /\ DOMAIN journal[t] = 1..Len(journal[t])
  <2> DEFINE S == {journal[t][i] : i \in DOMAIN journal[t]}
  <2> HIDE DEF S
  <2>1. journal[t] \in Seq(S)
    BY <1>1 DEF S
  <2> QED BY <2>1
<1>3. \A i \in Seqs(t) : KindOf(t, i) \in Kind
  BY EdgeAssumption DEF EdgeTypes, Seqs, KindOf
<1>4. \A i, j \in Seqs(t) : Uuid(t, i) = Uuid(t, j) /\ Uuid(t, i) # NoUuid
                              => KindOf(t, i) = KindOf(t, j)
  BY EdgeAssumption DEF EdgeTypes, Seqs, KindOf, Uuid
<1> QED BY <1>2, <1>3, <1>4 DEF Seqs

\* The first event of its uuid.
First(t, i) == \A j \in Seqs(t) : j < i => Uuid(t, j) # Uuid(t, i)

LEMMA FirstExists ==
  ASSUME EdgeTypes, NEW t \in Terminal, NEW i \in Seqs(t)
  PROVE  \E j \in Seqs(t) : j <= i /\ Uuid(t, j) = Uuid(t, i) /\ First(t, j)
<1> DEFINE same == {j \in Seqs(t) : Uuid(t, j) = Uuid(t, i)}
<1>1. same \subseteq Nat /\ i \in same
  BY Journalled
<1>2. PICK j \in same : \A m \in same : ~(m < j)
  <2> HIDE DEF same
  <2>1. ASSUME NEW S \in SUBSET Nat, S = same
        PROVE  \E j \in S : \A m \in S : ~(m < j)
    BY <1>1, <2>1, LeastNumber
  <2> QED BY <1>1, <2>1
<1>3. j <= i
  BY <1>1, <1>2
<1> QED BY <1>1, <1>2, <1>3, Journalled DEF First

LEMMA NewEvents ==
  ASSUME EdgeTypes, NEW p, IsPush(p)
  PROVE  /\ New(p) \subseteq Seqs(p.terminal) /\ IsFiniteSet(New(p))
         /\ \A i \in New(p) : i \in Nat /\ i > cursor[p.terminal] /\ i <= p.to
         /\ \A i \in Seqs(p.terminal) : i \in New(p) <=> i > cursor[p.terminal] /\ i <= p.to
<1>1. /\ p.terminal \in Terminal /\ p.to \in Nat /\ p.to <= Len(journal[p.terminal])
      /\ cursor[p.terminal] \in Nat /\ Len(journal[p.terminal]) \in Nat
      /\ Seqs(p.terminal) = 1..Len(journal[p.terminal])
  BY Journalled DEF IsPush, EdgeTypes
<1>2. New(p) \subseteq Seqs(p.terminal)
  BY <1>1 DEF New
<1>3. IsFiniteSet(New(p))
  <2> DEFINE a == cursor[p.terminal] + 1
             b == p.to
  <2>1. a \in Int /\ b \in Int
    BY <1>1
  <2> HIDE DEF a, b
  <2>2. IsFiniteSet(a..b)
    BY <2>1, FS_Interval
  <2> QED BY <2>2 DEF a, b, New
<1> QED BY <1>1, <1>2, <1>3 DEF New

\* The ledger, with what the push itself has filed, tells a repeated uuid.
LEMMA RecordedMeans ==
  ASSUME EdgeTypes, LedgerToCursor, NEW p, IsPush(p), NEW i \in New(p)
  PROVE  Recorded(p.terminal, i, New(p)) <=> ~First(p.terminal, i)
<1> DEFINE t == p.terminal
<1>0. t \in Terminal /\ cursor[t] \in Nat /\ p.to \in Nat
  BY DEF IsPush, EdgeTypes
<1>1. i \in Seqs(t) /\ i \in Nat /\ i <= p.to /\ Seqs(t) \subseteq Nat
  BY <1>0, NewEvents, Journalled
<1>2. ASSUME NEW j \in Seqs(t), j < i PROVE outcome[t][j] # "none" \/ j \in New(p)
  BY <1>0, <1>1, <1>2, NewEvents DEF LedgerToCursor
<1> QED BY <1>0, <1>1, <1>2 DEF Recorded, First

\* How an event of a push may end.
LEMMA SettleMeans ==
  ASSUME EdgeTypes, LedgerToCursor, NEW p, IsPush(p), NEW i \in New(p)
  PROVE  LET t == p.terminal
         IN /\ Settle(p, i) \in Outcome \ {"none"}
            /\ i \in Applies(p) => Uuid(t, i) # NoUuid /\ First(t, i) /\ KindOf(t, i) # "poison"
            /\ Uuid(t, i) # NoUuid /\ First(t, i) /\ KindOf(t, i) = "sale"
                 => Settle(p, i) = SaleOutcome(p, i)
            /\ Uuid(t, i) # NoUuid /\ First(t, i) /\ KindOf(t, i) \in Delta
                 => Settle(p, i) = DeltaOutcome(p, i) /\ i \in Applies(p)
<1> DEFINE t == p.terminal
<1>1. Recorded(t, i, New(p)) <=> ~First(t, i)
  BY RecordedMeans
<1>2. DeltaOutcome(p, i) \in {"applied", "flagged"}
  BY DEF DeltaOutcome
<1>3. SaleOutcome(p, i) \in {"applied", "skipped", "failed"}
  BY DEF SaleOutcome
<1>4. KindOf(t, i) \in Kind
  BY NewEvents, Journalled DEF IsPush
<1>5. CASE Uuid(t, i) = NoUuid
  <2>1. Settle(p, i) = "failed"
    BY <1>5 DEF Settle
  <2> QED BY <1>5, <2>1 DEF Outcome, Applies
<1>6. CASE Uuid(t, i) # NoUuid /\ ~First(t, i)
  <2>1. Settle(p, i) = "skipped"
    BY <1>1, <1>6 DEF Settle
  <2> QED BY <1>6, <2>1 DEF Outcome, Applies
<1>7. CASE Uuid(t, i) # NoUuid /\ First(t, i)
  <2>1. KindOf(t, i) = "sale" => Settle(p, i) = SaleOutcome(p, i)
    BY <1>1, <1>7 DEF Settle, Delta
  <2>2. KindOf(t, i) \in Delta => Settle(p, i) = DeltaOutcome(p, i)
    BY <1>1, <1>7 DEF Settle, Delta
  <2>3. KindOf(t, i) = "poison" => Settle(p, i) = "failed"
    BY <1>1, <1>7 DEF Settle, Delta
  <2> QED BY <1>2, <1>3, <1>4, <1>7, <2>1, <2>2, <2>3 DEF Outcome, Applies, Kind, Delta
<1> QED BY <1>5, <1>6, <1>7

LEMMA PushOvertaken ==
  ASSUME NEW p, NEW a, NEW b, NEW c, NEW d, NEW e, NEW x,
         p = [terminal |-> a, to |-> b, orders |-> c, balance |-> d, stale |-> e]
  PROVE  [p EXCEPT !.stale = x]
           = [terminal |-> a, to |-> b, orders |-> c, balance |-> d, stale |-> x]
OBVIOUS
\* What a push that commits leaves behind.
LEMMA CommitShape ==
  ASSUME EdgeInv, NEW p \in open, Commit(p)
  PROVE  LET t == p.terminal
         IN /\ IsPush(p) /\ ~p.stale /\ t \in Terminal
            /\ journal' = journal /\ written' = written /\ EdgeTypes'
            /\ \A s \in Terminal : Seqs(s)' = Seqs(s)
            /\ \A s \in Terminal \ {t} : /\ cursor'[s] = cursor[s] /\ outcome'[s] = outcome[s]
                                         /\ effects'[s] = effects[s]
            /\ \A i \in Seqs(t) : i <= cursor'[t] <=> i <= cursor[t] \/ i \in New(p)
            /\ cursor'[t] >= cursor[t] /\ (New(p) = {} => cursor'[t] = cursor[t])
            /\ \A i \in Seqs(t) : outcome'[t][i] = IF i \in New(p) THEN Settle(p, i) ELSE outcome[t][i]
            /\ \A i \in Seqs(t) : effects'[t][i] = IF i \in Applies(p) THEN effects[t][i] + 1
                                                   ELSE effects[t][i]
            /\ orders \subseteq orders'
<1> DEFINE t == p.terminal
<1>1. EdgeTypes /\ IsPush(p) /\ t \in Terminal
  BY DEF EdgeInv, IsPush
<1>2. journal' = journal /\ written' = written /\ ~p.stale /\ orders \subseteq orders'
  BY DEF Commit
<1>3. \A s \in Terminal : Seqs(s)' = Seqs(s)
  BY <1>2 DEF Seqs
<1>4. /\ cursor[t] \in Nat /\ p.to \in Nat /\ p.to <= written[t] /\ written[t] \in Nat
      /\ cursor[t] <= written[t]
  BY <1>1 DEF EdgeTypes, IsPush
<1>5. cursor' = [cursor EXCEPT ![t] = CursorAfter(p)]
  BY DEF Commit
<1>6. cursor'[t] = CursorAfter(p) /\ \A s \in Terminal \ {t} : cursor'[s] = cursor[s]
  BY <1>1, <1>5 DEF EdgeTypes
<1>7. /\ CursorAfter(p) \in Nat /\ CursorAfter(p) <= written[t] /\ CursorAfter(p) >= cursor[t]
      /\ p.to <= cursor[t] => CursorAfter(p) = cursor[t]
      /\ p.to > cursor[t] => CursorAfter(p) = p.to
  BY <1>4 DEF CursorAfter
<1>8. \A i \in Seqs(t) : i \in Nat
  BY <1>1, Journalled
<1>9. \A i \in Seqs(t) : i <= cursor'[t] <=> i <= cursor[t] \/ i \in New(p)
  BY <1>1, <1>4, <1>6, <1>7, <1>8, NewEvents
<1>10. New(p) = {} => cursor'[t] = cursor[t]
  BY <1>4, <1>6, <1>7 DEF New
<1>11. outcome' = [outcome EXCEPT ![t] =
          [i \in Seqs(t) |-> IF i \in New(p) THEN Settle(p, i) ELSE outcome[t][i]]]
       /\ effects' = [effects EXCEPT ![t] =
          [i \in Seqs(t) |-> IF i \in Applies(p) THEN effects[t][i] + 1 ELSE effects[t][i]]]
  BY DEF Commit
<1>12. /\ outcome'[t] = [i \in Seqs(t) |-> IF i \in New(p) THEN Settle(p, i) ELSE outcome[t][i]]
       /\ effects'[t] = [i \in Seqs(t) |-> IF i \in Applies(p) THEN effects[t][i] + 1
                                           ELSE effects[t][i]]
       /\ \A s \in Terminal \ {t} : outcome'[s] = outcome[s] /\ effects'[s] = effects[s]
       /\ DOMAIN outcome' = Terminal /\ DOMAIN effects' = Terminal
  BY <1>1, <1>11 DEF EdgeTypes
<1>13. EdgeTypes'
  <2>1. cursor' \in [Terminal -> Nat]
        /\ \A s \in Terminal : cursor'[s] <= written[s] /\ written[s] <= Len(journal[s])
    BY <1>1, <1>5, <1>6, <1>7 DEF EdgeTypes
  <2>2. outcome'[t] \in [Seqs(t) -> Outcome]
    <3>1. LedgerToCursor
      BY DEF EdgeInv
    <3>2. \A i \in New(p) : Settle(p, i) \in Outcome
      BY <1>1, <3>1, SettleMeans
    <3>3. outcome[t] \in [Seqs(t) -> Outcome]
      BY <1>1 DEF EdgeTypes
    <3> QED BY <1>12, <3>2, <3>3
  <2>3. effects'[t] \in [Seqs(t) -> Nat]
    <3>1. effects[t] \in [Seqs(t) -> Nat]
      BY <1>1 DEF EdgeTypes
    <3> QED BY <1>12, <3>1
  <2>4. balance' \in [Delta -> Int]
    <3>1. \A k \in Delta : Cardinality({i \in Applies(p) : KindOf(t, i) = k}) \in Nat
      <4>1. \A k \in Delta : {i \in Applies(p) : KindOf(t, i) = k} \subseteq New(p)
        BY DEF Applies
      <4>2. IsFiniteSet(New(p))
        BY <1>1, NewEvents
      <4> QED BY <4>1, <4>2, FS_Subset, FS_CardinalityType
    <3>2. balance' = [k \in Delta |->
            balance[k] - Cardinality({i \in Applies(p) : KindOf(t, i) = k})]
      BY DEF Commit
    <3>3. \A k \in Delta : balance[k] \in Int
      BY <1>1 DEF EdgeTypes
    <3> QED BY <3>1, <3>2, <3>3
  <2>5. \A s \in Terminal : /\ outcome'[s] \in [Seqs(s)' -> Outcome]
                            /\ effects'[s] \in [Seqs(s)' -> Nat]
    <3>1. ASSUME NEW s \in Terminal
          PROVE  outcome'[s] \in [Seqs(s)' -> Outcome] /\ effects'[s] \in [Seqs(s)' -> Nat]
      <4>1. Seqs(s)' = Seqs(s)
        BY <1>3
      <4>2. CASE s = t
        BY <2>2, <2>3, <4>1, <4>2
      <4>3. CASE s # t
        <5>1. outcome'[s] = outcome[s] /\ effects'[s] = effects[s]
          BY <1>12, <4>3
        <5>2. outcome[s] \in [Seqs(s) -> Outcome] /\ effects[s] \in [Seqs(s) -> Nat]
          BY <1>1 DEF EdgeTypes
        <5> QED BY <4>1, <5>1, <5>2
      <4> QED BY <4>2, <4>3
    <3> QED BY <3>1
  <2> QED BY <1>1, <1>2, <1>12, <2>1, <2>4, <2>5 DEF EdgeTypes
<1> QED BY <1>1, <1>2, <1>3, <1>6, <1>7, <1>9, <1>10, <1>12, <1>13

LEMMA CommitLedger ==
  ASSUME EdgeInv, NEW p \in open, Commit(p)
  PROVE  LedgerToCursor'
<1> DEFINE t == p.terminal
<1>1. EdgeTypes /\ LedgerToCursor
  BY DEF EdgeInv
<1> SUFFICES ASSUME NEW s \in Terminal, NEW i \in Seqs(s)
             PROVE  IF i <= cursor'[s]
                    THEN /\ outcome'[s][i] # "none"
                         /\ effects'[s][i] = (IF outcome'[s][i] \in Done THEN 1 ELSE 0)
                    ELSE outcome'[s][i] = "none" /\ effects'[s][i] = 0
  BY CommitShape DEF LedgerToCursor
<1>2. CASE s # t
  BY <1>1, <1>2, CommitShape DEF LedgerToCursor
<1>3. CASE s = t /\ i \in New(p)
  <2>1. Settle(p, i) # "none" /\ (i \in Applies(p) <=> Settle(p, i) \in Done)
    BY <1>1, <1>3, CommitShape, SettleMeans DEF Applies, Done
  <2>2. effects[t][i] = 0
    <3>1. ~(i <= cursor[t])
      BY <1>1, <1>3, CommitShape, NewEvents DEF EdgeTypes
    <3> QED BY <1>1, <1>3, <3>1 DEF LedgerToCursor
  <2>3. outcome'[t][i] = Settle(p, i) /\ i <= cursor'[t]
        /\ effects'[t][i] = IF i \in Applies(p) THEN 0 + 1 ELSE 0
    BY <1>3, <2>2, CommitShape
  <2> QED BY <1>3, <2>1, <2>3
<1>4. CASE s = t /\ i \notin New(p)
  <2>1. i \notin Applies(p)
    BY <1>4 DEF Applies
  <2>2. outcome'[t][i] = outcome[t][i] /\ effects'[t][i] = effects[t][i]
        /\ (i <= cursor'[t] <=> i <= cursor[t])
    BY <1>4, <2>1, CommitShape
  <2> QED BY <1>1, <1>4, <2>2 DEF LedgerToCursor
<1> QED BY <1>2, <1>3, <1>4

LEMMA CommitSales ==
  ASSUME EdgeInv, NEW p \in open, Commit(p)
  PROVE  SalesAreIn'
<1> DEFINE t == p.terminal
<1>1. EdgeTypes /\ LedgerToCursor /\ SalesAreIn /\ IsPush(p) /\ t \in Terminal
  BY CommitShape DEF EdgeInv
<1>2. EdgeTypes' /\ \A s \in Terminal : \A i \in Seqs(s) :
       KindOf(s, i)' = KindOf(s, i) /\ Uuid(s, i)' = Uuid(s, i)
  BY CommitShape DEF KindOf, Uuid
<1>3. orders \subseteq orders'
      /\ \A i \in Applies(p) : KindOf(t, i) = "sale" => Uuid(t, i) \in orders'
  BY DEF Commit
<1> SUFFICES ASSUME NEW s \in Terminal, NEW i \in 1..cursor'[s],
                    KindOf(s, i)' = "sale", Uuid(s, i)' # NoUuid
             PROVE  Uuid(s, i)' \in orders'
  BY DEF SalesAreIn
<1>4. i \in Seqs(s) /\ i \in Nat /\ i <= cursor'[s] /\ i >= 1
  <2>1. cursor'[s] \in Nat /\ cursor'[s] <= Len(journal[s]) /\ Seqs(s) = 1..Len(journal[s])
        /\ Len(journal[s]) \in Nat
    BY <1>1, <1>2, CommitShape, Journalled DEF EdgeTypes
  <2> QED BY <2>1
<1>5. KindOf(s, i) = "sale" /\ Uuid(s, i) # NoUuid /\ Uuid(s, i)' = Uuid(s, i)
  BY <1>2, <1>4
<1>6. CASE i <= cursor[s]
  <2>1. i \in 1..cursor[s]
    BY <1>1, <1>4, <1>6 DEF EdgeTypes
  <2> QED BY <1>1, <1>3, <1>5, <2>1 DEF SalesAreIn
<1>7. CASE ~(i <= cursor[s])
  <2>1. s = t /\ i \in New(p)
    BY <1>4, <1>7, CommitShape
  <2>2. PICK j \in Seqs(t) : j <= i /\ Uuid(t, j) = Uuid(t, i) /\ First(t, j)
    BY <1>1, <1>4, <2>1, FirstExists
  <2>3. KindOf(t, j) = "sale" /\ Uuid(t, j) # NoUuid
    BY <1>1, <1>4, <1>5, <2>1, <2>2, Journalled
  <2>4. j \in Nat /\ j >= 1 /\ i <= p.to /\ cursor[t] \in Nat /\ p.to \in Nat
    <3>1. Seqs(t) = 1..Len(journal[t]) /\ Len(journal[t]) \in Nat
      BY <1>1, Journalled
    <3>2. i <= p.to
      BY <1>1, <2>1, NewEvents
    <3>3. cursor[t] \in Nat /\ p.to \in Nat
      BY <1>1 DEF EdgeTypes, IsPush
    <3> QED BY <3>1, <3>2, <3>3
  <2>5. CASE j <= cursor[t]
    <3>1. j \in 1..cursor[t]
      BY <2>4, <2>5
    <3> QED BY <1>1, <1>3, <1>5, <2>1, <2>2, <2>3, <3>1 DEF SalesAreIn
  <2>6. CASE ~(j <= cursor[t])
    <3>1. j \in New(p)
      BY <1>1, <1>4, <2>2, <2>4, <2>6, NewEvents
    <3>2. Settle(p, j) = SaleOutcome(p, j)
      BY <1>1, <2>2, <2>3, <3>1, SettleMeans
    <3>3. CASE Uuid(t, j) \in p.orders \/ Uuid(t, j) \in orders
      BY <1>1, <1>3, <1>5, <2>1, <2>2, <3>3 DEF IsPush
    <3>4. CASE ~(Uuid(t, j) \in p.orders \/ Uuid(t, j) \in orders)
      <4>1. SaleOutcome(p, j) = "applied"
        BY <3>4 DEF SaleOutcome
      <4>2. j \in Applies(p)
        BY <3>1, <3>2, <4>1 DEF Applies
      <4> QED BY <1>3, <1>5, <2>1, <2>2, <2>3, <4>2
    <3> QED BY <3>3, <3>4
  <2> QED BY <2>5, <2>6
<1> QED BY <1>6, <1>7
\* A set has as many members as it has names.
LEMMA SameSize ==
  ASSUME NEW A, IsFiniteSet(A), NEW f, DOMAIN f = A, f = [x \in A |-> f[x]],
         \A x, y \in A : f[x] = f[y] => x = y, NEW B, B = {f[x] : x \in A}
  PROVE  IsFiniteSet(B) /\ Cardinality(B) = Cardinality(A)
<1>1. f \in [A -> B]
  OBVIOUS
<1>2. f \in Injection(A, B)
  BY <1>1 DEF Injection, IsInjective
<1>3. \A y \in B : \E x \in A : f[x] = y
  OBVIOUS
<1>4. f \in Surjection(A, B)
  BY <1>1, <1>3 DEF Surjection
<1> QED BY <1>2, <1>4, FS_Surjection

LEMMA DisjointSize ==
  ASSUME NEW A, NEW B, IsFiniteSet(A), IsFiniteSet(B), A \intersect B = {}
  PROVE  IsFiniteSet(A \union B)
         /\ Cardinality(A \union B) = Cardinality(A) + Cardinality(B)
<1>1. Cardinality(A) \in Nat /\ Cardinality(B) \in Nat
  BY FS_CardinalityType
<1>2. Cardinality(A \intersect B) = 0
  BY FS_EmptySet
<1>3. IsFiniteSet(A \union B)
      /\ Cardinality(A \union B)
           = Cardinality(A) + Cardinality(B) - Cardinality(A \intersect B)
  BY FS_Union
<1> QED BY <1>1, <1>2, <1>3

\* The delta events on k that a push applies.
Deltas(p, k) == {i \in Applies(p) : KindOf(p.terminal, i) = k}

LEMMA DeltasMean ==
  ASSUME EdgeTypes, LedgerToCursor, NEW p, IsPush(p), NEW k \in Delta
  PROVE  /\ Deltas(p, k) \subseteq New(p) /\ IsFiniteSet(Deltas(p, k))
         /\ Cardinality(Deltas(p, k)) \in Nat
         /\ \A i \in New(p) : i \in Deltas(p, k) <=> /\ KindOf(p.terminal, i) = k
                                                     /\ Uuid(p.terminal, i) # NoUuid
                                                     /\ First(p.terminal, i)
<1>1. Deltas(p, k) \subseteq New(p)
  BY DEF Deltas, Applies
<1>2. IsFiniteSet(Deltas(p, k)) /\ Cardinality(Deltas(p, k)) \in Nat
  BY <1>1, NewEvents, FS_Subset, FS_CardinalityType
<1>3. ASSUME NEW i \in New(p)
      PROVE  i \in Deltas(p, k) <=> /\ KindOf(p.terminal, i) = k
                                    /\ Uuid(p.terminal, i) # NoUuid
                                    /\ First(p.terminal, i)
  BY SettleMeans DEF Deltas
<1> QED BY <1>1, <1>2, <1>3

LEMMA CommitAccounts ==
  ASSUME EdgeInv, NEW p \in open, Commit(p)
  PROVE  AccountsAddUp'
<1> DEFINE t == p.terminal
<1>1. /\ EdgeTypes /\ LedgerToCursor /\ AccountsAddUp /\ IsPush(p) /\ t \in Terminal
      /\ EdgeTypes'
  BY CommitShape DEF EdgeInv
<1> SUFFICES ASSUME NEW k \in Delta
             PROVE  IsFiniteSet(Known(k)') /\ balance'[k] = Opening[k] - Cardinality(Known(k)')
  BY DEF AccountsAddUp
<1> DEFINE D == Deltas(p, k)
           f == [i \in D |-> <<t, Uuid(t, i)>>]
           Fresh == {f[i] : i \in D}
<1>2. /\ D \subseteq New(p) /\ IsFiniteSet(D) /\ Cardinality(D) \in Nat
      /\ \A i \in New(p) : i \in D <=> KindOf(t, i) = k /\ Uuid(t, i) # NoUuid /\ First(t, i)
  BY <1>1, DeltasMean
<1>3. New(p) \subseteq Seqs(t) /\ \A i \in Seqs(t) : i \in Nat /\ i >= 1
  <2>1. Seqs(t) = 1..Len(journal[t])
    BY <1>1, Journalled
  <2> QED BY <1>1, <2>1, NewEvents
<1>4. \A i, j \in D : f[i] = f[j] => i = j
  <2> SUFFICES ASSUME NEW i \in D, NEW j \in D, f[i] = f[j] PROVE i = j
    OBVIOUS
  <2>1. Uuid(t, i) = Uuid(t, j)
    OBVIOUS
  <2>2. i \in Seqs(t) /\ j \in Seqs(t) /\ First(t, i) /\ First(t, j) /\ i \in Nat /\ j \in Nat
    BY <1>2, <1>3
  <2>3. ~(i < j) /\ ~(j < i)
    BY <2>1, <2>2 DEF First
  <2> QED BY <2>2, <2>3
<1>5. IsFiniteSet(Fresh) /\ Cardinality(Fresh) = Cardinality(D)
  <2>1. DOMAIN f = D /\ f = [i \in D |-> f[i]]
    OBVIOUS
  <2> HIDE DEF f, D
  <2> QED BY <1>2, <1>4, <2>1, SameSize
<1>6. \A s \in Terminal \ {t} : KnownOf(s, k)' = KnownOf(s, k)
  BY CommitShape DEF KnownOf, KindOf, Uuid
<1>7. /\ cursor[t] \in Nat /\ cursor'[t] \in Nat
      /\ \A i \in 1..cursor'[t] : i \in Seqs(t)
      /\ \A i \in 1..cursor[t] : i \in Seqs(t)
  <2>1. Seqs(t) = 1..Len(journal[t]) /\ Len(journal[t]) \in Nat
    BY <1>1, Journalled
  <2>2. cursor[t] \in Nat /\ cursor'[t] \in Nat /\ written[t] \in Nat /\ written'[t] = written[t]
        /\ cursor[t] <= written[t] /\ cursor'[t] <= written'[t] /\ written[t] <= Len(journal[t])
    BY <1>1, CommitShape DEF EdgeTypes
  <2> QED BY <2>1, <2>2
<1>8. KnownOf(t, k)' = KnownOf(t, k) \union Fresh
  <2>1. KnownOf(t, k)' = {<<t, Uuid(t, i)>> : i \in
                            {j \in 1..cursor'[t] : KindOf(t, j) = k /\ Uuid(t, j) # NoUuid}}
    BY CommitShape DEF KnownOf, KindOf, Uuid
  <2>2. ASSUME NEW i \in 1..cursor'[t], KindOf(t, i) = k, Uuid(t, i) # NoUuid
        PROVE  <<t, Uuid(t, i)>> \in KnownOf(t, k) \union Fresh
    <3>1. PICK j \in Seqs(t) : j <= i /\ Uuid(t, j) = Uuid(t, i) /\ First(t, j)
      BY <1>1, <1>7, FirstExists
    <3>2. KindOf(t, j) = k
      BY <1>1, <1>7, <2>2, <3>1, Journalled
    <3>3. j <= cursor'[t] /\ j \in Nat /\ j >= 1
      BY <1>3, <1>7, <3>1
    <3>4. CASE j <= cursor[t]
      <4>1. j \in 1..cursor[t]
        BY <1>7, <3>3, <3>4
      <4> QED BY <2>2, <3>1, <3>2, <4>1 DEF KnownOf
    <3>5. CASE j \in New(p)
      <4>1. j \in D
        BY <1>2, <2>2, <3>1, <3>2, <3>5
      <4>2. f[j] = <<t, Uuid(t, i)>>
        BY <3>1, <4>1
      <4> QED BY <4>1, <4>2
    <3> QED BY <3>3, <3>4, <3>5, CommitShape
  <2>3. ASSUME NEW i \in 1..cursor[t] PROVE i \in 1..cursor'[t]
    <3>1. cursor'[t] >= cursor[t]
      BY CommitShape
    <3> QED BY <1>7, <3>1
  <2>4. ASSUME NEW i \in D PROVE i \in 1..cursor'[t] /\ KindOf(t, i) = k /\ Uuid(t, i) # NoUuid
    <3>1. i <= cursor'[t]
      BY <1>2, <1>3, CommitShape
    <3> QED BY <1>2, <1>3, <1>7, <3>1
  <2>5. KnownOf(t, k) \subseteq KnownOf(t, k)'
    BY <2>1, <2>3 DEF KnownOf
  <2>6. Fresh \subseteq KnownOf(t, k)'
    BY <2>1, <2>4
  <2> HIDE DEF f, D
  <2> QED BY <2>1, <2>2, <2>5, <2>6
<1>9. Known(k)' = Known(k) \union Fresh
  <2> HIDE DEF Fresh
  <2> QED BY <1>1, <1>6, <1>8 DEF Known
<1>10. Known(k) \intersect Fresh = {}
  <2> SUFFICES ASSUME NEW i \in D, <<t, Uuid(t, i)>> \in Known(k) PROVE FALSE
    OBVIOUS
  <2>1. PICK s \in Terminal : <<t, Uuid(t, i)>> \in KnownOf(s, k)
    BY DEF Known
  <2>2. PICK j \in 1..cursor[s] : <<t, Uuid(t, i)>> = <<s, Uuid(s, j)>>
    BY <2>1 DEF KnownOf
  <2>3. s = t /\ Uuid(t, i) = Uuid(t, j) /\ j \in 1..cursor[t]
    BY <2>2
  <2>4. j < i
    BY <1>1, <1>2, <1>3, <1>7, <2>3, NewEvents
  <2>5. j \in Seqs(t) /\ First(t, i)
    <3>1. i \in New(p)
      BY <1>2
    <3>2. First(t, i)
      BY <1>2, <3>1
    <3>3. j \in Seqs(t)
      BY <1>7, <2>3
    <3> QED BY <3>2, <3>3
  <2> QED BY <2>3, <2>4, <2>5 DEF First
<1>11. balance'[k] = balance[k] - Cardinality(D)
  BY DEF Commit, Deltas
<1> HIDE DEF D, Fresh
<1>12. /\ IsFiniteSet(Known(k)) /\ balance[k] = Opening[k] - Cardinality(Known(k))
       /\ Opening[k] \in Int /\ Cardinality(Known(k)) \in Nat
  BY <1>1, EdgeAssumption, FS_CardinalityType DEF AccountsAddUp
<1>13. IsFiniteSet(Known(k) \union Fresh)
       /\ Cardinality(Known(k) \union Fresh) = Cardinality(Known(k)) + Cardinality(D)
  <2>1. ASSUME NEW A, NEW B, A = Known(k), B = Fresh
        PROVE  IsFiniteSet(A \union B)
               /\ Cardinality(A \union B) = Cardinality(A) + Cardinality(B)
    BY <1>5, <1>10, <1>12, <2>1, DisjointSize
  <2> QED BY <1>5, <2>1
<1> QED BY <1>2, <1>9, <1>11, <1>12, <1>13
LEMMA GreatestNumber ==
  ASSUME NEW S \in SUBSET Nat, S # {}, NEW b \in Nat, \A i \in S : i <= b
  PROVE  \E m \in S : \A i \in S : i <= m
<1> DEFINE R == {b - i : i \in S}
<1>1. R \in SUBSET Nat /\ R # {}
  <2>1. \A i \in S : b - i \in Nat
    <3> SUFFICES ASSUME NEW i \in S PROVE b - i \in Nat
      OBVIOUS
    <3>1. i \in Nat /\ i <= b
      OBVIOUS
    <3> QED BY <3>1
  <2>2. PICK i \in S : TRUE
    OBVIOUS
  <2>3. b - i \in R
    OBVIOUS
  <2>4. R \subseteq Nat
    BY <2>1
  <2> QED BY <2>3, <2>4
<1>2. PICK r \in R : \A n \in R : ~(n < r)
  <2> HIDE DEF R
  <2> QED BY <1>1, LeastNumber
<1>3. PICK m \in S : r = b - m
  <2>1. r \in R
    BY <1>2
  <2> QED BY <2>1
<1>4. ASSUME NEW i \in S PROVE i <= m
  <2>1. ~(b - i < b - m)
    BY <1>2, <1>3
  <2> QED BY <2>1
<1> QED BY <1>4

\* The last of the points events that overdraw them is flagged.
LEMMA CommitFlags ==
  ASSUME EdgeInv, NEW p \in open, Commit(p)
  PROVE  OverdraftFlagged'
<1> DEFINE t == p.terminal
           D == Deltas(p, "points")
<1>1. /\ EdgeTypes /\ LedgerToCursor /\ OverdraftFlagged /\ IsPush(p) /\ t \in Terminal
      /\ ~p.stale
  BY CommitShape DEF EdgeInv
<1>2. /\ D \subseteq New(p) /\ IsFiniteSet(D) /\ Cardinality(D) \in Nat
      /\ \A i \in New(p) : i \in D <=> KindOf(t, i) = "points" /\ Uuid(t, i) # NoUuid /\ First(t, i)
  BY <1>1, DeltasMean DEF Delta
<1>3. balance'["points"] = balance["points"] - Cardinality(D)
  BY DEF Commit, Deltas, Delta
<1>4. \A s \in Terminal : Seqs(s)' = Seqs(s)
      /\ \A i \in Seqs(s) : KindOf(s, i)' = KindOf(s, i)
  BY CommitShape DEF KindOf
<1>5. balance["points"] \in Int
  BY <1>1 DEF EdgeTypes, Delta
<1> SUFFICES ASSUME balance'["points"] < 0
             PROVE  \E s \in Terminal : \E i \in Seqs(s) :
                      KindOf(s, i) = "points" /\ outcome'[s][i] = "flagged"
  BY <1>4 DEF OverdraftFlagged
<1>6. CASE D = {}
  <2>1. balance["points"] < 0
    BY <1>3, <1>5, <1>6, FS_EmptySet
  <2>s. PICK s \in Terminal :
          \E i \in Seqs(s) : KindOf(s, i) = "points" /\ outcome[s][i] = "flagged"
    BY <1>1, <2>1 DEF OverdraftFlagged
  <2>2. PICK i \in Seqs(s) : KindOf(s, i) = "points" /\ outcome[s][i] = "flagged"
    BY <2>s
  <2>3. outcome'[s][i] = outcome[s][i]
    <3>1. CASE s # t
      BY <3>1, CommitShape
    <3>2. CASE s = t
      <4>1. i <= cursor[t]
        BY <1>1, <2>2, <3>2 DEF LedgerToCursor
      <4>2. i \in Nat /\ cursor[t] \in Nat
        <5>1. Seqs(t) = 1..Len(journal[t]) /\ Len(journal[t]) \in Nat
          BY <1>1, Journalled
        <5>2. cursor[t] \in Nat
          BY <1>1 DEF EdgeTypes
        <5> QED BY <3>2, <5>1, <5>2
      <4>3. i \notin New(p)
        BY <1>1, <4>1, <4>2, NewEvents
      <4> QED BY <3>2, <4>3, CommitShape
    <3> QED BY <3>1, <3>2
  <2> QED BY <2>2, <2>3
<1>7. CASE D # {}
  <2>1. PICK m \in D : \A i \in D : i <= m
    <3>1. D \in SUBSET Nat /\ p.to \in Nat /\ \A i \in D : i <= p.to
      BY <1>1, <1>2, NewEvents DEF IsPush
    <3>2. ASSUME NEW S \in SUBSET Nat, S = D, NEW b \in Nat, b = p.to
          PROVE  \E m \in S : \A i \in S : i <= m
      BY <1>7, <3>1, <3>2, GreatestNumber
    <3> QED BY <3>1, <3>2
  <2>2. m \in New(p) /\ m \in Seqs(t) /\ KindOf(t, m) = "points"
        /\ Uuid(t, m) # NoUuid /\ First(t, m)
    BY <1>1, <1>2, <2>1, NewEvents
  <2>3. Taken(p, "points", m) = D
    <3>1. \A i \in New(p) : Recorded(t, i, New(p)) <=> ~First(t, i)
      BY <1>1, RecordedMeans
    <3>2. \A i \in D : i \in New(p)
      BY <1>2
    <3> HIDE DEF D
    <3>3. \A i \in New(p) : i \in Taken(p, "points", m) <=> i \in D
      BY <1>2, <2>1, <3>1 DEF Taken
    <3>4. \A i \in Taken(p, "points", m) : i \in New(p)
      BY DEF Taken
    <3> QED BY <3>2, <3>3, <3>4
  <2>4. p.balance["points"] = balance["points"]
    BY <1>1, <2>2 DEF IsPush, HasPoints
  <2>5. DeltaOutcome(p, m) = "flagged"
    <3> HIDE DEF D
    <3>1. p.balance["points"] - Cardinality(Taken(p, "points", m)) < 0
      BY <1>3, <2>3, <2>4
    <3> QED BY <2>2, <3>1 DEF DeltaOutcome
  <2>6. Settle(p, m) = DeltaOutcome(p, m)
    BY <1>1, <2>2, SettleMeans DEF Delta
  <2>7. outcome'[t][m] = "flagged"
    BY <2>2, <2>5, <2>6, CommitShape
  <2> QED BY <1>1, <2>2, <2>7
<1> QED BY <1>6, <1>7

\* A push that the committed one has not overtaken can still be committed.
LEMMA CommitPushes ==
  ASSUME EdgeInv, NEW p \in open, Commit(p)
  PROVE  \A q \in open' : IsPush(q)'
<1> DEFINE t == p.terminal
<1> SUFFICES ASSUME NEW q \in open' PROVE IsPush(q)'
  OBVIOUS
<1>1. EdgeTypes /\ LedgerToCursor /\ IsPush(p) /\ t \in Terminal /\ EdgeTypes'
  BY CommitShape DEF EdgeInv
<1>2. PICK r \in open : q = [r EXCEPT !.stale = @ \/ Overlaps(p, r)]
  BY DEF Commit
<1>3. IsPush(r)
  BY DEF EdgeInv
<1>4. q = [terminal |-> r.terminal, to |-> r.to, orders |-> r.orders,
           balance |-> r.balance, stale |-> (r.stale \/ Overlaps(p, r))]
  <2>1. r = [terminal |-> r.terminal, to |-> r.to, orders |-> r.orders,
             balance |-> r.balance, stale |-> r.stale]
    BY <1>3 DEF IsPush
  <2>2. q = [r EXCEPT !.stale = r.stale \/ Overlaps(p, r)]
    BY <1>2
  <2> DEFINE x == r.stale \/ Overlaps(p, r)
  <2> HIDE DEF x
  <2>3. q = [r EXCEPT !.stale = x]
    BY <2>2 DEF x
  <2>4. q = [terminal |-> r.terminal, to |-> r.to, orders |-> r.orders,
             balance |-> r.balance, stale |-> x]
    BY <2>1, <2>3
  <2> QED BY <2>4 DEF x
<1>5. /\ q.terminal = r.terminal /\ q.to = r.to /\ q.orders = r.orders /\ q.balance = r.balance
      /\ q = [terminal |-> q.terminal, to |-> q.to, orders |-> q.orders,
              balance |-> q.balance, stale |-> q.stale]
  BY <1>4
<1>6. q.stale = (r.stale \/ Overlaps(p, r))
  BY <1>4
<1>7. /\ q.terminal \in Terminal /\ q.to \in Nat /\ q.to <= written'[q.terminal]
      /\ q.balance \in [Delta -> Int] /\ q.orders \subseteq orders'
  BY <1>3, <1>5, CommitShape DEF IsPush
<1>8. ASSUME HasPoints(q)', ~q.stale PROVE q.balance["points"] = balance'["points"]
  <2>1. ~r.stale /\ ~Overlaps(p, r)
    BY <1>6, <1>8
  <2>2. cursor'[r.terminal] = cursor[r.terminal]
    BY <1>3, <2>1, CommitShape DEF Overlaps, IsPush
  <2>3. New(q)' = New(r)
    BY <1>5, <2>2 DEF New
  <2>4. HasPoints(r)
    <3>1. PICK i \in New(r) : KindOf(q.terminal, i)' = "points"
      BY <1>8, <2>3 DEF HasPoints
    <3>2. KindOf(r.terminal, i) = "points"
      BY <1>5, <3>1, CommitShape DEF KindOf
    <3> QED BY <3>2 DEF HasPoints
  <2>5. r.balance["points"] = balance["points"]
    BY <1>3, <2>1, <2>4 DEF IsPush
  <2>6. ~WritesPoints(p)
    BY <2>1, <2>4 DEF Overlaps, HasPoints
  <2>7. {i \in Applies(p) : KindOf(t, i) = "points"} = {}
    BY <2>6 DEF WritesPoints
  <2>8. balance'["points"] = balance["points"] - Cardinality({i \in Applies(p) : KindOf(t, i) = "points"})
    BY DEF Commit, Delta
  <2>9. balance'["points"] = balance["points"]
    <3>1. balance["points"] \in Int
      BY <1>1 DEF EdgeTypes, Delta
    <3> QED BY <2>7, <2>8, <3>1, FS_EmptySet
  <2> QED BY <1>5, <2>5, <2>9
<1> QED BY <1>5, <1>7, <1>8 DEF IsPush

\* A push stays good while other terminals and other endpoints do their work.
LEMMA PushKeeps ==
  ASSUME NEW p, IsPush(p), UNCHANGED <<journal, cursor, balance>>, orders \subseteq orders',
         written'[p.terminal] >= written[p.terminal],
         written[p.terminal] \in Nat, written'[p.terminal] \in Nat
  PROVE  IsPush(p)'
<1>1. HasPoints(p)' <=> HasPoints(p)
  BY DEF HasPoints, New, KindOf
<1>2. p.to \in Nat /\ p.to <= written'[p.terminal]
  BY DEF IsPush
<1> QED BY <1>1, <1>2 DEF IsPush

LEMMA EdgeAside ==
  ASSUME EdgeInv, UNCHANGED <<journal, cursor, outcome, effects, balance>>,
         orders \subseteq orders', written' \in [Terminal -> Nat],
         \A t \in Terminal : written'[t] >= written[t] /\ written'[t] <= Len(journal[t]),
         \A p \in open' \ open : IsPush(p)'
  PROVE  EdgeInv'
<1>1. EdgeTypes'
  <2>1. \A t \in Terminal : cursor[t] <= written'[t]
    BY DEF EdgeInv, EdgeTypes
  <2>2. \A t \in Terminal : Seqs(t)' = Seqs(t)
    BY DEF Seqs
  <2> QED BY <2>1, <2>2 DEF EdgeInv, EdgeTypes
<1>2. \A p \in open' : IsPush(p)'
  <2> SUFFICES ASSUME NEW p \in open', p \in open PROVE IsPush(p)'
    OBVIOUS
  <2>1. IsPush(p) /\ p.terminal \in Terminal
    BY DEF EdgeInv, IsPush
  <2>2. written[p.terminal] \in Nat /\ written'[p.terminal] \in Nat
        /\ written'[p.terminal] >= written[p.terminal]
    BY <2>1 DEF EdgeInv, EdgeTypes
  <2> QED BY <2>1, <2>2, PushKeeps
<1>3. LedgerToCursor' /\ OverdraftFlagged'
  BY DEF EdgeInv, LedgerToCursor, OverdraftFlagged, Seqs, KindOf
<1>4. SalesAreIn'
  BY DEF EdgeInv, SalesAreIn, KindOf, Uuid
<1>5. AccountsAddUp'
  <2>1. \A t \in Terminal, k \in Delta : KnownOf(t, k)' = KnownOf(t, k)
    BY DEF KnownOf, KindOf, Uuid
  <2>2. \A k \in Delta : Known(k)' = Known(k)
    BY <2>1 DEF Known
  <2> QED BY <2>2 DEF EdgeInv, AccountsAddUp
<1> QED BY <1>1, <1>2, <1>3, <1>4, <1>5 DEF EdgeInv

LEMMA EdgeStep ==
  ASSUME EdgeFollows
  PROVE  EdgeInv'
<1>i. EdgeInv /\ EdgeTypes /\ \A p \in open : IsPush(p)
  BY DEF EdgeFollows, EdgeInv
<1>n. \A t \in Terminal : written[t] \in Nat /\ written[t] <= Len(journal[t])
  BY <1>i DEF EdgeTypes
<1>1. ASSUME NEW t \in Terminal, Register(t) \/ Acked(t) PROVE EdgeInv'
  BY <1>i, <1>n, <1>1, EdgeAside DEF Register, Acked, cloudVars, EdgeTypes
<1>2. ASSUME NEW t \in Terminal, WriteEvent(t) PROVE EdgeInv'
  <2>1. written' = [written EXCEPT ![t] = written[t] + 1] /\ written[t] < Len(journal[t])
        /\ UNCHANGED <<journal, registered, synced, cloudVars>>
    BY <1>2 DEF WriteEvent
  <2>2. written' \in [Terminal -> Nat]
    BY <1>i, <2>1 DEF EdgeTypes
  <2>3. \A s \in Terminal : written'[s] >= written[s] /\ written'[s] <= Len(journal[s])
    <3>1. Len(journal[t]) \in Nat
      BY <1>i, Journalled
    <3> QED BY <1>i, <1>n, <2>1, <3>1 DEF EdgeTypes
  <2> QED BY <1>i, <2>1, <2>2, <2>3, EdgeAside DEF cloudVars
<1>3. ASSUME NEW t \in Terminal, NEW i \in Seqs(t), DirectSale(t, i) PROVE EdgeInv'
  BY <1>i, <1>n, <1>3, EdgeAside DEF DirectSale, EdgeTypes
<1>4. ASSUME NEW t \in Terminal, NEW to \in Reach(t), Receive(t, to) PROVE EdgeInv'
  <2> DEFINE p == [terminal |-> t, to |-> to, orders |-> orders, balance |-> balance,
                   stale |-> FALSE]
  <2>1. /\ open' = open \union {p}
        /\ UNCHANGED <<journal, registered, written, synced, cursor, outcome, effects, orders, balance>>
    BY <1>4 DEF Receive
  <2>2. to \in Nat /\ to <= written[t]
    BY <1>n DEF Reach
  <2>3. IsPush(p)
    BY <1>i, <2>2 DEF IsPush, EdgeTypes
  <2>4. \A q \in open' \ open : IsPush(q)'
    <3> SUFFICES ASSUME NEW q, q = p PROVE IsPush(q)'
      BY <2>1
    <3>1. IsPush(q) /\ q.terminal = t
      BY <2>3
    <3> QED BY <1>n, <2>1, <3>1, PushKeeps
  <2> QED BY <1>i, <1>n, <2>1, <2>4, EdgeAside DEF EdgeTypes
<1>5. ASSUME NEW p \in open, Abort(p) PROVE EdgeInv'
  BY <1>i, <1>n, <1>5, EdgeAside DEF Abort, EdgeTypes
<1>6. ASSUME NEW p \in open, Commit(p) PROVE EdgeInv'
  BY <1>i, <1>6, CommitShape, CommitLedger, CommitSales, CommitAccounts, CommitFlags, CommitPushes
     DEF EdgeInv
<1>7. ASSUME UNCHANGED edgeVars PROVE EdgeInv'
  BY <1>i, <1>n, <1>7, EdgeAside DEF edgeVars, EdgeTypes
<1> QED BY <1>1, <1>2, <1>3, <1>4, <1>5, <1>6, <1>7 DEF EdgeFollows, EdgeNext

LEMMA EdgeStart ==
  ASSUME EdgeInit
  PROVE  EdgeInv
<1>1. EdgeTypes
  <2>1. journal \in Journals /\ \A t \in Terminal : written[t] = 0 /\ cursor[t] = 0
    BY DEF EdgeInit
  <2>2. \A t \in Terminal : 0 <= Len(journal[t])
    <3> SUFFICES ASSUME NEW t \in Terminal PROVE 0 <= Len(journal[t])
      OBVIOUS
    <3> DEFINE S == {journal[t][i] : i \in DOMAIN journal[t]}
    <3>1. journal[t] \in Seq(S)
      BY <2>1, EdgeAssumption
    <3> HIDE DEF S
    <3> QED BY <3>1
  <2>3. \A t \in Terminal : outcome[t] \in [Seqs(t) -> Outcome] /\ effects[t] \in [Seqs(t) -> Nat]
    BY DEF EdgeInit, Outcome
  <2>4. balance \in [Delta -> Int]
    BY EdgeAssumption DEF EdgeInit
  <2> QED BY <2>1, <2>2, <2>3, <2>4 DEF EdgeInit, EdgeTypes
<1>2. \A p \in open : IsPush(p)
  BY DEF EdgeInit
<1>3. LedgerToCursor
  <2>1. \A t \in Terminal : \A i \in Seqs(t) : ~(i <= cursor[t])
    <3> SUFFICES ASSUME NEW t \in Terminal, NEW i \in Seqs(t) PROVE ~(i <= cursor[t])
      OBVIOUS
    <3>1. Seqs(t) = 1..Len(journal[t]) /\ cursor[t] = 0
      BY <1>1, Journalled DEF EdgeInit
    <3> QED BY <3>1
  <2> QED BY <2>1 DEF EdgeInit, LedgerToCursor
<1>4. \A t \in Terminal : 1..cursor[t] = {}
  BY DEF EdgeInit
<1>5. SalesAreIn /\ \A k \in Delta : Known(k) = {}
  BY <1>4 DEF SalesAreIn, Known, KnownOf
<1>6. AccountsAddUp
  <2>1. \A k \in Delta : Opening[k] \in Int /\ balance[k] = Opening[k]
    BY EdgeAssumption DEF EdgeInit
  <2> QED BY <1>5, <2>1, FS_EmptySet DEF AccountsAddUp
<1>7. OverdraftFlagged
  <2>1. balance["points"] >= 0
    BY EdgeAssumption DEF EdgeInit, Delta
  <2>2. balance["points"] \in Int
    BY <1>1 DEF EdgeTypes, Delta
  <2> QED BY <2>1, <2>2 DEF OverdraftFlagged
<1> QED BY <1>1, <1>2, <1>3, <1>5, <1>6, <1>7 DEF EdgeInv

LEMMA EdgeMeaning ==
  ASSUME EdgeInv
  PROVE  Converges
<1> SUFFICES ASSUME \A t \in Terminal : cursor[t] = written[t]
             PROVE  /\ \A t \in Terminal : \A i \in 1..written[t] :
                         KindOf(t, i) = "sale" /\ Uuid(t, i) # NoUuid => Uuid(t, i) \in orders
                    /\ \A k \in Delta : balance[k] = Opening[k] -
                         Cardinality(UNION {Distinct(t, k) : t \in Terminal})
  BY DEF Converges
<1>1. \A t \in Terminal, k \in Delta : Distinct(t, k) = KnownOf(t, k)
  BY DEF Distinct, KnownOf
<1>2. \A k \in Delta : UNION {Distinct(t, k) : t \in Terminal} = Known(k)
  BY <1>1 DEF Known
<1> QED BY <1>2 DEF EdgeInv, SalesAreIn, AccountsAddUp

\* However the terminals' pushes are delayed, repeated, overlapped and rolled
\* back, the cloud ends where their work put it, and points that it could not
\* keep from going below zero left a flagged event.
THEOREM EdgeSafety == EdgeSpec => [](Converges /\ OverdraftFlagged)
<1>1. EdgeInit => EdgeInv
  BY EdgeStart
<1>2. EdgeInv /\ [EdgeNext]_edgeVars => EdgeInv'
  BY EdgeStep DEF EdgeFollows
<1>3. EdgeInv => Converges /\ OverdraftFlagged
  BY EdgeMeaning DEF EdgeInv
<1> QED BY <1>1, <1>2, <1>3, PTL DEF EdgeSpec
(***************************************************************************)
(* Pushes implement an intake in order                                     *)
(***************************************************************************)
LEMMA AsSequence ==
  ASSUME NEW S, NEW n \in Nat, NEW f \in [1..n -> S]
  PROVE  f \in Seq(S) /\ Len(f) = n
OBVIOUS

LEMMA Prefix ==
  ASSUME NEW S, NEW n \in Nat, NEW f \in [1..n -> S], NEW m \in Nat, m <= n,
         NEW g \in [1..m -> S], \A i \in 1..m : g[i] = f[i]
  PROVE  SubSeq(f, 1, m) = g
<1>1. f \in Seq(S) /\ Len(f) = n /\ g \in Seq(S) /\ Len(g) = m
  BY AsSequence
<1>2. SubSeq(f, 1, m) \in Seq(S) /\ Len(SubSeq(f, 1, m)) = m
      /\ \A i \in 1..m : SubSeq(f, 1, m)[i] = f[i]
  BY <1>1
<1> QED BY <1>1, <1>2

Settled == Outcome \ {"none"}

\* What was taken in is the ledger, as far as the cursor goes.
IngestedIsLedger ==
  \A t \in Terminal :
    /\ cursor[t] \in Nat /\ Ingested[t] \in [1..cursor[t] -> Settled]
    /\ Len(Ingested[t]) = cursor[t] /\ Ingested[t] \in Seq(Settled)
    /\ \A i \in 1..cursor[t] : i \in Seqs(t) /\ Ingested[t][i] = outcome[t][i]

LEMMA IngestedIs ==
  ASSUME EdgeInv
  PROVE  IngestedIsLedger
<1> SUFFICES ASSUME NEW t \in Terminal
             PROVE  /\ cursor[t] \in Nat /\ Ingested[t] \in [1..cursor[t] -> Settled]
                    /\ Len(Ingested[t]) = cursor[t] /\ Ingested[t] \in Seq(Settled)
                    /\ \A i \in 1..cursor[t] : i \in Seqs(t) /\ Ingested[t][i] = outcome[t][i]
  BY DEF IngestedIsLedger
<1>i. EdgeTypes /\ LedgerToCursor
  BY DEF EdgeInv
<1>1. cursor[t] \in Nat /\ \A i \in 1..cursor[t] : i \in Seqs(t) /\ i <= cursor[t]
  <2>1. Seqs(t) = 1..Len(journal[t]) /\ Len(journal[t]) \in Nat
    BY <1>i, Journalled
  <2>2. cursor[t] \in Nat /\ written[t] \in Nat
        /\ cursor[t] <= written[t] /\ written[t] <= Len(journal[t])
    BY <1>i DEF EdgeTypes
  <2> QED BY <2>1, <2>2
<1>2. ASSUME NEW i \in 1..cursor[t] PROVE Ending(t, i) = outcome[t][i] /\ Ending(t, i) \in Settled
  <2>1. outcome[t][i] \in Settled
    BY <1>i, <1>1 DEF EdgeTypes, LedgerToCursor, Settled
  <2>2. effects[t][i] = IF outcome[t][i] \in Done THEN 1 ELSE 0
    BY <1>i, <1>1 DEF LedgerToCursor
  <2> QED BY <2>1, <2>2 DEF Ending, Done, Settled, Outcome
<1>3. Ingested[t] = [i \in 1..cursor[t] |-> Ending(t, i)]
  BY DEF Ingested
<1>4. Ingested[t] \in [1..cursor[t] -> Settled]
  BY <1>2, <1>3
<1>5. ASSUME NEW n \in Nat, n = cursor[t], NEW f \in [1..n -> Settled], f = Ingested[t]
      PROVE  f \in Seq(Settled) /\ Len(f) = n
  BY AsSequence
<1>6. Ingested[t] \in Seq(Settled) /\ Len(Ingested[t]) = cursor[t]
  BY <1>1, <1>4, <1>5
<1> QED BY <1>1, <1>2, <1>3, <1>4, <1>6

IngestFollows == /\ EdgeInv /\ IngestedIsLedger /\ [EdgeNext]_edgeVars
                 /\ EdgeInv' /\ IngestedIsLedger'

LEMMA IngestStep ==
  ASSUME IngestFollows
  PROVE  [Intake!Next]_Ingested
<1>i. EdgeInv /\ IngestedIsLedger /\ IngestedIsLedger' /\ EdgeTypes
  BY DEF IngestFollows, EdgeInv
<1>1. ASSUME UNCHANGED <<cursor, outcome, effects>> PROVE Ingested' = Ingested
  BY <1>1 DEF Ingested, Ending
<1>2. ASSUME NEW p \in open, Commit(p) PROVE [Intake!Next]_Ingested
  <2> DEFINE t == p.terminal
  <2>1. t \in Terminal /\ \A s \in Terminal : Seqs(s)' = Seqs(s)
    BY <1>i, <1>2, CommitShape
  <2>2. \A s \in Terminal \ {t} : Ingested'[s] = Ingested[s]
    <3> SUFFICES ASSUME NEW s \in Terminal \ {t} PROVE Ingested'[s] = Ingested[s]
      OBVIOUS
    <3>1. cursor'[s] = cursor[s] /\ outcome'[s] = outcome[s]
      BY <1>i, <1>2, CommitShape
    <3>2. \A i \in 1..cursor[s] : Ingested'[s][i] = Ingested[s][i]
      BY <1>i, <3>1 DEF IngestedIsLedger
    <3>3. Ingested'[s] \in [1..cursor[s] -> Settled] /\ Ingested[s] \in [1..cursor[s] -> Settled]
      BY <1>i, <3>1 DEF IngestedIsLedger
    <3>4. /\ Ingested'[s] = [i \in 1..cursor[s] |-> Ingested'[s][i]]
          /\ Ingested[s] = [i \in 1..cursor[s] |-> Ingested[s][i]]
      BY <3>3
    <3>5. [i \in 1..cursor[s] |-> Ingested'[s][i]] = [i \in 1..cursor[s] |-> Ingested[s][i]]
      BY <3>2
    <3> QED BY <3>4, <3>5
  <2>3. DOMAIN Ingested = Terminal /\ DOMAIN Ingested' = Terminal
        /\ Ingested = [s \in Terminal |-> Ingested[s]] /\ Ingested' = [s \in Terminal |-> Ingested'[s]]
    BY DEF Ingested
  <2>4. Ingested' = [Ingested EXCEPT ![t] = Ingested'[t]]
    BY <2>1, <2>2, <2>3
  <2>5. /\ cursor[t] \in Nat /\ Ingested[t] \in [1..cursor[t] -> Settled]
        /\ Len(Ingested[t]) = cursor[t]
        /\ \A i \in 1..cursor[t] : i \in Seqs(t) /\ Ingested[t][i] = outcome[t][i]
    BY <1>i, <2>1 DEF IngestedIsLedger
  <2>6. /\ cursor'[t] \in Nat /\ Ingested'[t] \in [1..cursor'[t] -> Settled]
        /\ Ingested'[t] \in Seq(Settled) /\ Len(Ingested'[t]) = cursor'[t]
        /\ \A i \in 1..cursor'[t] : i \in Seqs(t) /\ Ingested'[t][i] = outcome'[t][i]
    BY <1>i, <2>1 DEF IngestedIsLedger
  <2>7. cursor[t] <= cursor'[t] /\ \A i \in 1..cursor[t] : outcome'[t][i] = outcome[t][i]
    <3>1. cursor[t] <= cursor'[t]
      BY <1>i, <1>2, CommitShape
    <3>2. \A i \in 1..cursor[t] : i \notin New(p)
      BY <1>i, <1>2, <2>5, CommitShape, NewEvents
    <3> QED BY <1>i, <1>2, <2>5, <3>1, <3>2, CommitShape
  <2>8. \A i \in 1..cursor[t] : Ingested[t][i] = Ingested'[t][i]
    <3>1. \A i \in 1..cursor[t] : i \in 1..cursor'[t]
      BY <2>5, <2>6, <2>7
    <3> QED BY <2>5, <2>6, <2>7, <3>1
  <2>9. CASE cursor'[t] = cursor[t]
    <3>1. Ingested'[t] = Ingested[t]
      BY <2>5, <2>6, <2>8, <2>9
    <3> QED BY <2>2, <2>3, <3>1
  <2>10. CASE cursor'[t] # cursor[t]
    <3>1. ASSUME NEW n \in Nat, n = cursor'[t], NEW f \in [1..n -> Settled], f = Ingested'[t],
                 NEW m \in Nat, m = cursor[t], NEW g \in [1..m -> Settled], g = Ingested[t]
          PROVE  SubSeq(f, 1, m) = g
      BY <2>7, <2>8, <3>1, Prefix
    <3>2. SubSeq(Ingested'[t], 1, Len(Ingested[t])) = Ingested[t]
      BY <2>5, <2>6, <3>1, SMTT(40)
    <3>3. Len(Ingested[t]) < Len(Ingested'[t])
      BY <2>5, <2>6, <2>7, <2>10
    <3>4. Intake!Ingest(t)
      BY <2>4, <2>6, <3>2, <3>3 DEF Intake!Ingest, Settled
    <3> QED BY <2>1, <3>4 DEF Intake!Next
  <2> QED BY <2>9, <2>10
<1>3. CASE \E p \in open : Commit(p)
  BY <1>2, <1>3
<1>4. CASE ~\E p \in open : Commit(p)
  <2>1. UNCHANGED <<cursor, outcome, effects>>
    BY <1>4 DEF IngestFollows, EdgeNext, Register, WriteEvent, Acked, DirectSale, Receive, Abort,
       cloudVars, edgeVars
  <2> QED BY <1>1, <2>1
<1> QED BY <1>3, <1>4

LEMMA IngestStart ==
  ASSUME EdgeInit
  PROVE  Intake!Init
<1>1. \A t \in Terminal : Ingested[t] = <<>>
  BY DEF EdgeInit, Ingested
<1> QED BY <1>1 DEF Intake!Init, Ingested

\* The cloud's end of push, for any terminals, journals and workers, implements
\* an intake of every journal in order, without a gap, each event once.
THEOREM EdgeRefinesIngest == EdgeSpec => ImplementsIngest
<1>1. EdgeInit => EdgeInv /\ Intake!Init
  BY EdgeStart, IngestStart
<1>2. EdgeInv /\ [EdgeNext]_edgeVars => EdgeInv'
  BY EdgeStep DEF EdgeFollows
<1>3. EdgeInv => IngestedIsLedger
  BY IngestedIs
<1>4. EdgeInv /\ IngestedIsLedger /\ [EdgeNext]_edgeVars /\ EdgeInv' /\ IngestedIsLedger'
        => [Intake!Next]_Ingested
  BY IngestStep DEF IngestFollows
<1> QED BY <1>1, <1>2, <1>3, <1>4, PTL DEF EdgeSpec, ImplementsIngest, Intake!Spec
=============================================================================
