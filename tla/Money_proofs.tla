----------------------------- MODULE Money_proofs -----------------------------
(***************************************************************************)
(* The ceilings that requests check on the snapshot they read: the credit  *)
(* limit of an account (CreditGate) and what one order may give back       *)
(* (Refund).  Both sums may pass their ceiling by what the requests that   *)
(* overlap were allowed, and the inductive invariants pay for those in     *)
(* advance (Bounded).                                                      *)
(*                                                                         *)
(* The counter's sales and the gift cards, points, rewards and coupon      *)
(* spent on them (CounterSale): the cards hold what they were issued for   *)
(* less what was charged to them, no reward is spent twice, and a sale's   *)
(* lines, total and payments agree, wherever a handler stops.              *)
(*                                                                         *)
(* And card charges (CardCharge): whatever calls and answers are lost, a   *)
(* captured charge that paid no sale is reversed or flagged -- unless its  *)
(* void was lost, or came before the capture -- and one that paid a sale   *)
(* is not.                                                                 *)
(***************************************************************************)
EXTENDS CreditGate, Refund, CounterSale, CardCharge, TLAPS, FiniteSetTheorems

(***************************************************************************)
(* Sums over a finite set                                                  *)
(***************************************************************************)
\* Of some subsets of a finite set one has no other inside it: a first
\* counterexample.
LEMMA LeastSet ==
  ASSUME NEW S, IsFiniteSet(S), NEW C \in SUBSET SUBSET S, C # {}
  PROVE  \E T \in C : \A U \in C : U \subseteq T => U = T
<1>1. C \subseteq FiniteSubsetsOf(S)
  BY FS_FiniteSubsetsOfFinite
<1>2. PICK T \in C : \A U \in C : ~(<<U, T>> \in StrictSubsetOrdering(S))
  BY <1>1, FS_StrictSubsetOrderingWellFounded, WFMin
<1>3. \A U \in C : U \subseteq T => U = T
  BY <1>2 DEF StrictSubsetOrdering
<1> QED BY <1>3

Sum(f, S) == SumFunctionOnSet(f, S)

Chosen(s) == CHOOSE x \in s : TRUE

\* g sums f up over every subset of S, one chosen element after the other.
IsSum(g, f, S) ==
  g = [s \in SUBSET S |-> IF s = {} THEN 0 ELSE f[Chosen(s)] + g[s \ {Chosen(s)}]]

LEMMA AnyOf == ASSUME NEW s, s # {} PROVE Chosen(s) \in s
BY DEF Chosen

LEMMA SumSteps ==
  ASSUME NEW g, NEW f, NEW S, IsSum(g, f, S)
  PROVE  /\ g[{}] = 0
         /\ \A s \in SUBSET S : s # {} => g[s] = f[Chosen(s)] + g[s \ {Chosen(s)}]
<1>1. \A s \in SUBSET S : g[s] = IF s = {} THEN 0 ELSE f[Chosen(s)] + g[s \ {Chosen(s)}]
  BY DEF IsSum
<1> HIDE DEF IsSum
<1> QED BY <1>1

LEMMA SumRuns ==
  ASSUME NEW f, NEW S, NEW h, IsSum(h, f, S)
  PROVE  \E g : IsSum(g, f, S) /\ Sum(f, S) = g[S]
<1> DEFINE g == CHOOSE k : IsSum(k, f, S)
<1>1. IsSum(g, f, S)
  OBVIOUS
<1>2. Sum(f, S) = g[S]
  BY DEF Sum, SumFunctionOnSet, FoldFunctionOnSet, MapThenFoldSet, IsSum, Chosen
<1> QED BY <1>1, <1>2

\* Two sums agree where their sets meet and their functions agree.
LEMMA SumsAgree ==
  ASSUME NEW S, NEW T, NEW e, NEW f, NEW g, NEW h, IsSum(g, e, S), IsSum(h, f, T),
         NEW R, R \subseteq S, R \subseteq T, IsFiniteSet(R), \A x \in R : e[x] = f[x]
  PROVE  \A s \in SUBSET R : g[s] = h[s]
<1> DEFINE C == {s \in SUBSET R : g[s] # h[s]}
<1> SUFFICES ASSUME C # {} PROVE FALSE
  OBVIOUS
<1>0. C \in SUBSET SUBSET R
  OBVIOUS
<1>1. PICK s \in C : \A u \in C : u \subseteq s => u = s
  <2> HIDE DEF C
  <2> QED BY <1>0, LeastSet
<1>2. s # {}
  BY SumSteps
<1> DEFINE r == s \ {Chosen(s)}
<1>3. Chosen(s) \in s /\ Chosen(s) \in R /\ r \in SUBSET R /\ r # s /\ r \subseteq s
  BY <1>2, AnyOf
<1>4. g[r] = h[r]
  BY <1>1, <1>3
<1>5. g[s] = e[Chosen(s)] + g[r] /\ h[s] = f[Chosen(s)] + h[r]
  BY <1>2, SumSteps
<1> QED BY <1>3, <1>4, <1>5

\* Every finite set has a sum.
LEMMA SumExists ==
  ASSUME NEW f, NEW S, IsFiniteSet(S)
  PROVE  \E g : IsSum(g, f, S)
<1> DEFINE C == {T \in SUBSET S : ~\E g : IsSum(g, f, T)}
<1> SUFFICES ASSUME C # {} PROVE FALSE
  OBVIOUS
<1>0. C \in SUBSET SUBSET S
  OBVIOUS
<1>1. PICK T \in C : \A U \in C : U \subseteq T => U = T
  <2> HIDE DEF C
  <2> QED BY <1>0, LeastSet
<1>2. \A U \in SUBSET T : U # T => \E g : IsSum(g, f, U)
  BY <1>1
<1> DEFINE of(U) == CHOOSE g : IsSum(g, f, U)
           g == [s \in SUBSET T |-> IF s = {} THEN 0
                                    ELSE f[Chosen(s)] + of(s \ {Chosen(s)})[s \ {Chosen(s)}]]
<1>3. \A U \in SUBSET T : U # T => IsSum(of(U), f, U)
  BY <1>2
<1> HIDE DEF of
<1>4. \A s \in SUBSET T : s # T => g[s] = of(s)[s]
  <2> SUFFICES ASSUME NEW s \in SUBSET T, s # T PROVE g[s] = of(s)[s]
    OBVIOUS
  <2>1. IsSum(of(s), f, s)
    BY <1>3
  <2>2. CASE s = {}
    BY <2>1, <2>2, SumSteps
  <2>3. CASE s # {}
    <3> DEFINE r == s \ {Chosen(s)}
    <3>1. r \in SUBSET T /\ r # T /\ r \subseteq s
      BY <2>3
    <3>2. IsSum(of(r), f, r)
      BY <1>3, <3>1
    <3>3. IsFiniteSet(r)
      BY <3>1, FS_Subset
    <3>4. of(r)[r] = of(s)[r]
      BY <2>1, <3>1, <3>2, <3>3, SumsAgree
    <3>5. of(s)[s] = f[Chosen(s)] + of(s)[r]
      BY <2>1, <2>3, SumSteps
    <3> QED BY <2>3, <3>4, <3>5
  <2> QED BY <2>2, <2>3
<1>5. \A s \in SUBSET T : g[s] = IF s = {} THEN 0 ELSE f[Chosen(s)] + g[s \ {Chosen(s)}]
  <2> SUFFICES ASSUME NEW s \in SUBSET T, s # {}
               PROVE  g[s] = f[Chosen(s)] + g[s \ {Chosen(s)}]
    OBVIOUS
  <2>1. s \ {Chosen(s)} \in SUBSET T /\ s \ {Chosen(s)} # T
    BY AnyOf
  <2>2. g[s \ {Chosen(s)}] = of(s \ {Chosen(s)})[s \ {Chosen(s)}]
    BY <1>4, <2>1
  <2> QED BY <2>2
<1>6. g = [s \in SUBSET T |-> IF s = {} THEN 0 ELSE f[Chosen(s)] + g[s \ {Chosen(s)}]]
  <2>1. DOMAIN g = SUBSET T /\ g = [s \in SUBSET T |-> g[s]]
    OBVIOUS
  <2> HIDE DEF g
  <2> QED BY <1>5, <2>1
<1>7. IsSum(g, f, T)
  BY <1>6 DEF IsSum
<1> HIDE DEF g
<1> QED BY <1>7

LEMMA SumIs ==
  ASSUME NEW f, NEW S, IsFiniteSet(S)
  PROVE  \E g : IsSum(g, f, S) /\ Sum(f, S) = g[S]
BY SumExists, SumRuns

\* A sum depends on the values over its set alone.
LEMMA SumSame ==
  ASSUME NEW f, NEW g, NEW S, IsFiniteSet(S), \A x \in S : f[x] = g[x]
  PROVE  Sum(f, S) = Sum(g, S)
<1>1. PICK h : IsSum(h, f, S) /\ Sum(f, S) = h[S]
  BY SumIs
<1>2. PICK k : IsSum(k, g, S) /\ Sum(g, S) = k[S]
  BY SumIs
<1>3. h[S] = k[S]
  BY <1>1, <1>2, SumsAgree
<1> QED BY <1>1, <1>2, <1>3

LEMMA SumEmpty == ASSUME NEW f PROVE Sum(f, {}) = 0
<1>1. PICK g : IsSum(g, f, {}) /\ Sum(f, {}) = g[{}]
  BY SumIs, FS_EmptySet
<1> QED BY <1>1, SumSteps

\* The chosen element comes first.
LEMMA SumAny ==
  ASSUME NEW f, NEW S, IsFiniteSet(S), S # {}
  PROVE  Sum(f, S) = f[Chosen(S)] + Sum(f, S \ {Chosen(S)})
<1> DEFINE R == S \ {Chosen(S)}
<1>1. PICK g : IsSum(g, f, S) /\ Sum(f, S) = g[S]
  BY SumIs
<1>2. IsFiniteSet(R) /\ R \subseteq S
  BY FS_Subset
<1>3. PICK h : IsSum(h, f, R) /\ Sum(f, R) = h[R]
  BY <1>2, SumIs
<1>4. g[R] = h[R]
  BY <1>1, <1>2, <1>3, SumsAgree
<1>5. g[S] = f[Chosen(S)] + g[R]
  BY <1>1, SumSteps
<1> QED BY <1>1, <1>3, <1>4, <1>5

\* Numbers of a kind add up to a number of that kind.
LEMMA SumClosed ==
  ASSUME NEW f, NEW S, IsFiniteSet(S), NEW N, 0 \in N, \A a, b \in N : a + b \in N,
         \A x \in S : f[x] \in N
  PROVE  Sum(f, S) \in N
<1> DEFINE C == {T \in SUBSET S : Sum(f, T) \notin N}
<1> SUFFICES ASSUME C # {} PROVE FALSE
  OBVIOUS
<1>0. C \in SUBSET SUBSET S
  OBVIOUS
<1>1. PICK T \in C : \A U \in C : U \subseteq T => U = T
  <2> HIDE DEF C
  <2> QED BY <1>0, LeastSet
<1>2. IsFiniteSet(T) /\ T # {}
  <2>1. Sum(f, {}) \in N
    BY SumEmpty
  <2> QED BY <2>1, FS_Subset
<1> DEFINE R == T \ {Chosen(T)}
<1>3. R \subseteq T /\ R # T /\ Chosen(T) \in S /\ R \in SUBSET S
  BY <1>2, AnyOf
<1>4. Sum(f, R) \in N /\ f[Chosen(T)] \in N
  BY <1>1, <1>3
<1>5. Sum(f, T) = f[Chosen(T)] + Sum(f, R)
  BY <1>2, SumAny
<1> HIDE DEF R
<1>6. Sum(f, T) \in N
  BY <1>4, <1>5
<1> QED BY <1>6

LEMMA SumInt ==
  ASSUME NEW f, NEW S, IsFiniteSet(S), \A x \in S : f[x] \in Int
  PROVE  Sum(f, S) \in Int
<1>1. 0 \in Int /\ \A a, b \in Int : a + b \in Int
  OBVIOUS
<1> QED BY <1>1, SumClosed

LEMMA SumNat ==
  ASSUME NEW f, NEW S, IsFiniteSet(S), \A x \in S : f[x] \in Nat
  PROVE  Sum(f, S) \in Nat
<1>1. 0 \in Nat /\ \A a, b \in Nat : a + b \in Nat
  OBVIOUS
<1> QED BY <1>1, SumClosed

\* Any other element may come first as well.
LEMMA SumTake ==
  ASSUME NEW f, NEW S, IsFiniteSet(S), \A x \in S : f[x] \in Int, NEW y \in S
  PROVE  Sum(f, S) = f[y] + Sum(f, S \ {y})
<1> DEFINE C == {T \in SUBSET S : \E x \in T : Sum(f, T) # f[x] + Sum(f, T \ {x})}
<1> SUFFICES ASSUME C # {} PROVE FALSE
  OBVIOUS
<1>0. C \in SUBSET SUBSET S
  OBVIOUS
<1>1. PICK T \in C : \A U \in C : U \subseteq T => U = T
  <2> HIDE DEF C
  <2> QED BY <1>0, LeastSet
<1>2. PICK x \in T : Sum(f, T) # f[x] + Sum(f, T \ {x})
  OBVIOUS
<1> DEFINE a == Chosen(T)
           both == (T \ {a}) \ {x}
<1>3. T \in SUBSET S /\ a \in T /\ T # {}
  BY <1>2, AnyOf
<1>4. IsFiniteSet(T) /\ IsFiniteSet(T \ {a}) /\ IsFiniteSet(T \ {x}) /\ IsFiniteSet(both)
  BY <1>3, FS_Subset
<1>5. Sum(f, T) = f[a] + Sum(f, T \ {a})
  BY <1>3, <1>4, SumAny
<1>6. a # x
  BY <1>2, <1>5
<1> HIDE DEF a
<1>7. Sum(f, T \ {a}) = f[x] + Sum(f, both)
  <2>1. T \ {a} \in SUBSET S /\ T \ {a} \subseteq T /\ T \ {a} # T /\ x \in T \ {a}
    BY <1>3, <1>6
  <2> QED BY <1>1, <2>1
<1>8. Sum(f, T \ {x}) = f[a] + Sum(f, both)
  <2>1. T \ {x} \in SUBSET S /\ T \ {x} \subseteq T /\ T \ {x} # T /\ a \in T \ {x}
    BY <1>3, <1>6
  <2>2. (T \ {x}) \ {a} = both
    OBVIOUS
  <2>3. Sum(f, T \ {x}) = f[a] + Sum(f, (T \ {x}) \ {a})
    BY <1>1, <2>1
  <2> QED BY <2>2, <2>3
<1>9. f[a] \in Int /\ f[x] \in Int /\ Sum(f, both) \in Int
  <2>1. both \subseteq S
    BY <1>3
  <2> QED BY <1>3, <1>4, <2>1, SumInt
<1> HIDE DEF both
<1> QED BY <1>2, <1>5, <1>7, <1>8, <1>9

\* One value changes, and the sum by as much.
LEMMA SumChange ==
  ASSUME NEW f, NEW g, NEW S, IsFiniteSet(S), NEW y \in S,
         \A x \in S : f[x] \in Int /\ g[x] \in Int, \A x \in S : x # y => g[x] = f[x]
  PROVE  Sum(g, S) = (Sum(f, S) - f[y]) + g[y]
<1> DEFINE R == S \ {y}
<1>1. IsFiniteSet(R) /\ R \subseteq S
  BY FS_Subset
<1>2. Sum(f, R) = Sum(g, R) /\ Sum(f, R) \in Int
  BY <1>1, SumSame, SumInt
<1>3. Sum(f, S) = f[y] + Sum(f, R)
  BY SumTake
<1>4. Sum(g, S) = g[y] + Sum(g, R)
  BY SumTake
<1>5. f[y] \in Int /\ g[y] \in Int
  OBVIOUS
<1> HIDE DEF R
<1> QED BY <1>2, <1>3, <1>4, <1>5

LEMMA SumZero ==
  ASSUME NEW f, NEW S, IsFiniteSet(S), \A x \in S : f[x] = 0
  PROVE  Sum(f, S) = 0
<1> DEFINE C == {T \in SUBSET S : Sum(f, T) # 0}
<1> SUFFICES ASSUME C # {} PROVE FALSE
  OBVIOUS
<1>0. C \in SUBSET SUBSET S
  OBVIOUS
<1>1. PICK T \in C : \A U \in C : U \subseteq T => U = T
  <2> HIDE DEF C
  <2> QED BY <1>0, LeastSet
<1>2. IsFiniteSet(T) /\ T # {}
  BY FS_Subset, SumEmpty
<1> DEFINE R == T \ {Chosen(T)}
<1>3. R \subseteq T /\ R # T /\ Chosen(T) \in S /\ R \in SUBSET S
  BY <1>2, AnyOf
<1>4. Sum(f, R) = 0 /\ f[Chosen(T)] = 0
  BY <1>1, <1>3
<1>5. Sum(f, T) = f[Chosen(T)] + Sum(f, R)
  BY <1>2, SumAny
<1> QED BY <1>4, <1>5

\* Adding the same to every term adds it as often as there are terms.
LEMMA SumShifted ==
  ASSUME NEW f, NEW g, NEW S, IsFiniteSet(S), NEW e \in Int,
         \A x \in S : f[x] \in Int /\ g[x] = f[x] + e
  PROVE  Sum(g, S) = Sum(f, S) + Cardinality(S) * e
<1> DEFINE C == {T \in SUBSET S : Sum(g, T) # Sum(f, T) + Cardinality(T) * e}
<1> SUFFICES ASSUME C # {} PROVE FALSE
  OBVIOUS
<1>0. C \in SUBSET SUBSET S
  OBVIOUS
<1>1. PICK T \in C : \A U \in C : U \subseteq T => U = T
  <2> HIDE DEF C
  <2> QED BY <1>0, LeastSet
<1>2. T \in SUBSET S /\ IsFiniteSet(T) /\ Sum(g, T) # Sum(f, T) + Cardinality(T) * e
  BY FS_Subset
<1>3. CASE T = {}
  <2>1. Sum(g, T) = 0 /\ Sum(f, T) = 0 /\ Cardinality(T) = 0
    BY <1>3, SumEmpty, FS_EmptySet
  <2>2. 0 * e = 0
    OBVIOUS
  <2> QED BY <1>2, <2>1, <2>2
<1>4. CASE T # {}
  <2>1. PICK x \in T : TRUE
    BY <1>4
  <2> DEFINE R == T \ {x}
             n == Cardinality(R)
  <2>2. R \in SUBSET S /\ R \subseteq T /\ R # T
    BY <1>2
  <2>3. IsFiniteSet(R) /\ n \in Nat /\ Cardinality(T) = n + 1
    BY <1>2, <2>1, <2>2, FS_Subset, FS_RemoveElement, FS_CardinalityType
  <2>4. Sum(g, R) = Sum(f, R) + n * e
    BY <1>1, <2>2
  <2>5. Sum(g, T) = g[x] + Sum(g, R) /\ Sum(f, T) = f[x] + Sum(f, R)
    BY <1>2, SumTake
  <2>6. f[x] \in Int /\ g[x] = f[x] + e
    BY <1>2
  <2>7. Sum(f, R) \in Int
    BY <2>2, <2>3, SumInt
  <2> HIDE DEF R, n, C
  <2> DEFINE m == n * e
  <2>8. m \in Int /\ (n + 1) * e = m + e
    BY <2>3
  <2> HIDE DEF m
  <2>9. Sum(g, T) = (f[x] + e) + (Sum(f, R) + m)
    BY <2>4, <2>5, <2>6 DEF m
  <2>10. Sum(g, T) = Sum(f, T) + (m + e)
    BY <2>5, <2>6, <2>7, <2>8, <2>9
  <2> QED BY <1>2, <2>3, <2>8, <2>10
<1> QED BY <1>3, <1>4

(***************************************************************************)
(* Checks on snapshots                                                     *)
(***************************************************************************)
\* Those in D found room for their t before the others of D took theirs: the
\* last of them to find it found room for it beside e, and every other one
\* takes cap at most.
Bounded(e, D, t, cap, b) ==
  IF D = {} THEN e <= b
  ELSE \E w \in D : (e + t[w]) + cap * (Cardinality(D) - 1) <= b

LEMMA BoundedEnds ==
  ASSUME NEW e \in Int, NEW b \in Int, NEW cap \in Nat, NEW D, IsFiniteSet(D),
         NEW t, \A w \in D : t[w] \in 0 .. cap, Bounded(e, D, t, cap, b)
  PROVE  e <= b
<1>1. CASE D = {}
  BY <1>1 DEF Bounded
<1>2. CASE D # {}
  <2> DEFINE n == Cardinality(D)
  <2>1. PICK w \in D : (e + t[w]) + cap * (n - 1) <= b
    BY <1>2 DEF Bounded
  <2>2. n \in Nat /\ n # 0 /\ t[w] \in Nat
    BY <1>2, FS_CardinalityType, FS_EmptySet
  <2> HIDE DEF n
  <2>3. cap * (n - 1) \in Nat
    BY <2>2
  <2> QED BY <2>1, <2>2, <2>3
<1> QED BY <1>1, <1>2

\* One of D takes its own, or gives up.
LEMMA BoundedLeave ==
  ASSUME NEW e \in Int, NEW b \in Int, NEW cap \in Nat, NEW D, IsFiniteSet(D),
         NEW t, \A w \in D : t[w] \in 0 .. cap, Bounded(e, D, t, cap, b),
         NEW x \in D, NEW e2 \in Int, e2 <= e + t[x],
         NEW u, \A w \in D \ {x} : u[w] = t[w]
  PROVE  Bounded(e2, D \ {x}, u, cap, b)
<1> DEFINE n == Cardinality(D)
           R == D \ {x}
<1>1. PICK w \in D : (e + t[w]) + cap * (n - 1) <= b
  BY DEF Bounded
<1>2. n \in Nat /\ n >= 1 /\ Cardinality(R) = n - 1 /\ IsFiniteSet(R)
  BY FS_CardinalityType, FS_EmptySet, FS_RemoveElement
<1>3. t[w] \in 0 .. cap /\ t[x] \in 0 .. cap
  OBVIOUS
<1>4. CASE R = {}
  <2>1. n = 1 /\ w = x
    BY <1>2, <1>4, FS_EmptySet
  <2> HIDE DEF n
  <2>2. cap * (n - 1) = 0
    BY <2>1
  <2>3. e2 <= b
    BY <1>1, <1>3, <2>1, <2>2
  <2> QED BY <1>4, <2>3 DEF Bounded
<1>5. CASE R # {}
  <2>1. PICK v \in R : (e2 + u[v]) + cap * (n - 2) <= b
    <3>1. PICK v \in R : w = x \/ w = v
      BY <1>5
    <3>2. u[v] = t[v] /\ t[v] \in 0 .. cap
      BY <3>1
    <3> HIDE DEF n
    <3>3. cap * (n - 1) = cap * (n - 2) + cap /\ cap * (n - 2) \in Int
      BY <1>2
    <3>4. (e2 + u[v]) + cap * (n - 2) <= b
      BY <1>1, <1>3, <3>1, <3>2, <3>3
    <3> QED BY <3>4
  <2>2. Cardinality(R) - 1 = n - 2
    BY <1>2
  <2> QED BY <1>5, <2>1, <2>2 DEF Bounded
<1> QED BY <1>4, <1>5

\* One more finds room beside e and all of D.
LEMMA BoundedJoin ==
  ASSUME NEW D, IsFiniteSet(D), NEW x, x \notin D, NEW t, NEW e, NEW cap, NEW b,
         (e + t[x]) + cap * Cardinality(D) <= b
  PROVE  Bounded(e, D \union {x}, t, cap, b)
<1>1. Cardinality(D \union {x}) = Cardinality(D) + 1 /\ Cardinality(D) \in Nat
  BY FS_AddElement, FS_CardinalityType
<1>2. Cardinality(D \union {x}) - 1 = Cardinality(D)
  BY <1>1
<1> QED BY <1>2 DEF Bounded

\* Nobody of D moves, and e rises no more than b does.
LEMMA BoundedShift ==
  ASSUME NEW e \in Int, NEW b \in Int, NEW cap \in Nat, NEW D, IsFiniteSet(D),
         NEW t, \A w \in D : t[w] \in 0 .. cap, Bounded(e, D, t, cap, b),
         NEW e2 \in Int, NEW b2 \in Int, e2 - e <= b2 - b,
         NEW u, \A w \in D : u[w] = t[w]
  PROVE  Bounded(e2, D, u, cap, b2)
<1>1. CASE D = {}
  BY <1>1 DEF Bounded
<1>2. CASE D # {}
  <2> DEFINE c == cap * (Cardinality(D) - 1)
  <2>1. PICK w \in D : (e + t[w]) + c <= b
    BY <1>2 DEF Bounded
  <2>2. c \in Int
    BY FS_CardinalityType
  <2> HIDE DEF c
  <2>3. (e2 + u[w]) + c <= b2
    BY <2>1, <2>2
  <2> QED BY <1>2, <2>3 DEF Bounded, c
<1> QED BY <1>1, <1>2

\* There is one more in a finite set than in a part of it that lacks one.
LEMMA LacksOne ==
  ASSUME NEW S, IsFiniteSet(S), NEW D, D \subseteq S, NEW x \in S, x \notin D
  PROVE  Cardinality(D) <= Cardinality(S) - 1 /\ Cardinality(D) \in Nat /\ Cardinality(S) \in Nat
<1>1. D \subseteq S \ {x} /\ IsFiniteSet(S \ {x})
  BY FS_Subset
<1>2. Cardinality(D) <= Cardinality(S \ {x})
  BY <1>1, FS_Subset
<1>3. Cardinality(S \ {x}) = Cardinality(S) - 1
  BY FS_RemoveElement
<1>4. IsFiniteSet(D)
  BY FS_Subset
<1> QED BY <1>2, <1>3, <1>4, FS_CardinalityType
(***************************************************************************)
(* The credit gate                                                         *)
(***************************************************************************)
CreditTypes == /\ posted \in Int /\ unsettled \in Int /\ agreed \in Nat
               /\ tender \in [Worker -> 0 .. MaxAmount]
               /\ seen \in [Worker -> Int]

\* Those whose snapshot has room for what they ask.
Deciding == {w \in Worker : tender[w] > 0 /\ ~Over(w)}

CreditBound == (Limit + agreed) + MaxAmount * (Cardinality(Worker) - 1)

\* Inductive: whoever is still deciding is paid for in advance.
CreditInv == CreditTypes /\ Bounded(Exposure, Deciding, tender, MaxAmount, CreditBound)

CreditFollows == CreditInv /\ [CreditNext]_creditVars

LEMMA CreditNumbers ==
  ASSUME CreditTypes
  PROVE  /\ Exposure \in Int /\ CreditBound \in Int /\ MaxAmount \in Nat /\ Limit \in Nat
         /\ Deciding \subseteq Worker /\ IsFiniteSet(Deciding)
         /\ \A w \in Worker : tender[w] \in 0 .. MaxAmount
<1>1. Deciding \subseteq Worker /\ IsFiniteSet(Worker)
  BY CreditAssumption DEF Deciding
<1>2. IsFiniteSet(Deciding) /\ Cardinality(Worker) \in Nat
  BY <1>1, FS_Subset, FS_CardinalityType
<1> QED BY <1>1, <1>2, CreditAssumption DEF CreditTypes, Exposure, CreditBound

LEMMA CreditMeaning ==
  ASSUME CreditInv
  PROVE  OverrunBounded
<1>1. CreditTypes /\ Bounded(Exposure, Deciding, tender, MaxAmount, CreditBound)
  BY DEF CreditInv
<1>2. \A w \in Deciding : tender[w] \in 0 .. MaxAmount
  BY <1>1, CreditNumbers
<1>3. Exposure <= CreditBound
  BY <1>1, <1>2, CreditNumbers, BoundedEnds
<1>4. Cardinality(Worker) \in Nat /\ agreed \in Int
  BY <1>1, CreditAssumption, FS_CardinalityType DEF CreditTypes
<1> QED BY <1>3, <1>4, CreditAssumption DEF OverrunBounded, CreditBound

LEMMA CreditStart ==
  ASSUME CreditInit
  PROVE  CreditInv
<1>1. CreditTypes
  BY CreditAssumption DEF CreditInit, CreditTypes
<1>2. Deciding = {} /\ Exposure = 0
  BY DEF CreditInit, Deciding, Exposure
<1>3. Cardinality(Worker) \in Nat /\ Cardinality(Worker) # 0
  BY CreditAssumption, FS_CardinalityType, FS_EmptySet
<1>4. MaxAmount * (Cardinality(Worker) - 1) \in Nat
  BY <1>3, CreditAssumption
<1>5. 0 <= CreditBound
  BY <1>4, CreditAssumption DEF CreditInit, CreditBound
<1> QED BY <1>1, <1>2, <1>5 DEF CreditInv, Bounded

\* A request that ends, however it ends, no longer decides.
LEMMA CreditLeaves ==
  ASSUME CreditInv, NEW w \in Worker, Leave(w), posted' = posted,
         \/ unsettled' = unsettled /\ agreed' = agreed
         \/ unsettled' = unsettled + tender[w] /\ agreed' = agreed /\ w \in Deciding
         \/ unsettled' = unsettled + tender[w] /\ agreed' = agreed + tender[w]
  PROVE  CreditInv'
<1>0. CreditTypes /\ Bounded(Exposure, Deciding, tender, MaxAmount, CreditBound)
  BY DEF CreditInv
<1>1. CreditTypes'
  BY <1>0, CreditAssumption DEF CreditTypes, Leave
<1>2. \A v \in Worker \ {w} : tender'[v] = tender[v] /\ seen'[v] = seen[v]
  BY <1>0 DEF Leave, CreditTypes
<1>3. Deciding' = Deciding \ {w}
  <2>1. w \notin Deciding'
    BY <1>0 DEF Leave, CreditTypes, Deciding
  <2>2. \A v \in Worker \ {w} : Over(v)' <=> Over(v)
    BY <1>2 DEF Over
  <2>3. \A v \in Worker \ {w} : v \in Deciding' <=> v \in Deciding
    BY <1>2, <2>2 DEF Deciding
  <2> QED BY <2>1, <2>3 DEF Deciding
<1>4. /\ Exposure \in Int /\ CreditBound \in Int /\ MaxAmount \in Nat
      /\ Exposure' \in Int /\ CreditBound' \in Int
      /\ Deciding \subseteq Worker /\ IsFiniteSet(Deciding)
      /\ \A v \in Worker : tender[v] \in 0 .. MaxAmount
  <2>1. Exposure' \in Int
    BY <1>1 DEF CreditTypes, Exposure
  <2>2. CreditBound' \in Int
    BY <1>1, CreditAssumption, FS_CardinalityType DEF CreditTypes, CreditBound
  <2> QED BY <1>0, <2>1, <2>2, CreditNumbers
<1>5. /\ agreed' - agreed = CreditBound' - CreditBound
      /\ unsettled' - unsettled = Exposure' - Exposure
  <2> DEFINE c == MaxAmount * (Cardinality(Worker) - 1)
  <2>1. c \in Int
    BY CreditAssumption, FS_CardinalityType
  <2>2. CreditBound = (Limit + agreed) + c /\ CreditBound' = (Limit + agreed') + c
    BY DEF CreditBound
  <2> HIDE DEF c
  <2> QED BY <1>0, <1>1, <2>1, <2>2, CreditAssumption DEF CreditTypes, Exposure
<1>6. Bounded(Exposure', Deciding \ {w}, tender', MaxAmount, CreditBound')
  <2>t. /\ \A v \in Deciding : tender[v] \in 0 .. MaxAmount
        /\ \A v \in Deciding \ {w} : tender'[v] = tender[v]
        /\ tender[w] \in 0 .. MaxAmount
        /\ posted \in Int /\ unsettled \in Int /\ agreed \in Nat
        /\ unsettled' \in Int /\ agreed' \in Int
    BY <1>0, <1>1, <1>2, <1>4 DEF CreditTypes
  <2>1. CASE w \in Deciding
    <3>1. \/ agreed' = agreed
          \/ unsettled' - unsettled = agreed' - agreed
      BY <2>t
    <3>2. CASE agreed' = agreed
      <4>1. unsettled' = unsettled \/ unsettled' = unsettled + tender[w]
        OBVIOUS
      <4>2. CreditBound' = CreditBound
        BY <3>2 DEF CreditBound
      <4>3. Exposure' <= Exposure + tender[w]
        BY <1>4, <1>5, <2>t, <4>1
      <4>4. Bounded(Exposure', Deciding \ {w}, tender', MaxAmount, CreditBound)
        BY <1>0, <1>4, <2>t, <2>1, <4>3, BoundedLeave
      <4> QED BY <4>2, <4>4
    <3>3. CASE agreed' = agreed + tender[w] /\ unsettled' = unsettled + tender[w]
      <4>1. Exposure' - Exposure <= CreditBound' - CreditBound
        BY <1>4, <1>5, <2>t, <3>3
      <4>2. Bounded(Exposure', Deciding, tender, MaxAmount, CreditBound')
        BY <1>0, <1>4, <2>t, <4>1, BoundedShift
      <4>3. Exposure' <= Exposure' + tender[w]
        BY <1>4, <2>t
      <4> QED BY <1>4, <2>t, <2>1, <4>2, <4>3, BoundedLeave
    <3> QED BY <3>2, <3>3
  <2>2. CASE w \notin Deciding
    <3>1. Exposure' - Exposure <= CreditBound' - CreditBound
      <4>1. CASE unsettled' = unsettled /\ agreed' = agreed
        <5>1. unsettled' - unsettled = 0 /\ agreed' - agreed = 0
          BY <2>t, <4>1
        <5>2. Exposure' - Exposure = 0 /\ CreditBound' - CreditBound = 0
          BY <1>5, <5>1
        <5> QED BY <5>2
      <4>2. CASE unsettled' = unsettled + tender[w] /\ agreed' = agreed + tender[w]
        <5>1. unsettled' - unsettled = agreed' - agreed
          BY <2>t, <4>2
        <5>2. Exposure' - Exposure = CreditBound' - CreditBound
          BY <1>5, <5>1
        <5>3. CreditBound' - CreditBound \in Int
          BY <1>4
        <5>4. CreditBound' - CreditBound <= CreditBound' - CreditBound
          BY <5>3
        <5> QED BY <5>2, <5>4
      <4> QED BY <2>2, <4>1, <4>2
    <3>2. Deciding \ {w} = Deciding
      BY <2>2
    <3>3. \A v \in Deciding : tender'[v] = tender[v]
      BY <2>t, <3>2
    <3>4. Bounded(Exposure', Deciding, tender', MaxAmount, CreditBound')
      BY <1>0, <1>4, <2>t, <3>1, <3>3, BoundedShift
    <3> QED BY <3>2, <3>4
  <2> QED BY <2>1, <2>2
<1> QED BY <1>1, <1>3, <1>6 DEF CreditInv

\* What happens beside the requests.
LEMMA CreditAside ==
  ASSUME CreditInv, UNCHANGED <<tender, seen, agreed>>, posted' \in Int, unsettled' \in Int,
         posted' + unsettled' <= posted + unsettled
  PROVE  CreditInv'
<1>0. CreditTypes /\ Bounded(Exposure, Deciding, tender, MaxAmount, CreditBound)
  BY DEF CreditInv
<1>1. CreditTypes' /\ Deciding' = Deciding /\ CreditBound' = CreditBound
  BY <1>0 DEF CreditTypes, Deciding, Over, CreditBound
<1>2. Exposure' \in Int /\ Exposure' - Exposure <= CreditBound - CreditBound
  <2>1. CreditBound - CreditBound = 0
    BY <1>0, CreditNumbers
  <2>2. Exposure \in Int /\ Exposure' \in Int
    BY <1>0 DEF CreditTypes, Exposure
  <2>3. Exposure' <= Exposure
    BY DEF Exposure
  <2> QED BY <2>1, <2>2, <2>3
<1>3. Bounded(Exposure', Deciding, tender, MaxAmount, CreditBound)
  BY <1>0, <1>2, CreditNumbers, BoundedShift
<1> QED BY <1>1, <1>3 DEF CreditInv

LEMMA CreditAsks ==
  ASSUME CreditInv, NEW w \in Worker, Ask(w)
  PROVE  CreditInv'
<1>0. CreditTypes /\ Bounded(Exposure, Deciding, tender, MaxAmount, CreditBound)
  BY DEF CreditInv
<1>n. /\ Exposure \in Int /\ CreditBound \in Int /\ MaxAmount \in Nat /\ Limit \in Nat
      /\ Deciding \subseteq Worker /\ IsFiniteSet(Deciding)
      /\ \A v \in Worker : tender[v] \in 0 .. MaxAmount
  BY <1>0, CreditNumbers
<1>1. CreditTypes'
  BY <1>0, <1>n DEF CreditTypes, Ask, Exposure
<1>2. Exposure' = Exposure /\ CreditBound' = CreditBound
  BY DEF Ask, Exposure, CreditBound
<1>3. \A v \in Worker \ {w} : tender'[v] = tender[v] /\ seen'[v] = seen[v]
  BY <1>0 DEF Ask, CreditTypes
<1>4. w \notin Deciding /\ \A v \in Worker \ {w} : v \in Deciding' <=> v \in Deciding
  BY <1>3 DEF Ask, Deciding, Over
<1>5. Deciding' \subseteq Worker
  BY DEF Deciding
<1>6. \A v \in Deciding : tender'[v] = tender[v] /\ tender[v] \in 0 .. MaxAmount
  BY <1>3, <1>4, <1>n
<1>7. CASE w \notin Deciding'
  <2>1. Deciding' = Deciding
    BY <1>4, <1>5, <1>7, <1>n
  <2>2. Bounded(Exposure, Deciding, tender', MaxAmount, CreditBound)
    BY <1>0, <1>6, <1>n, BoundedShift
  <2> QED BY <1>1, <1>2, <2>1, <2>2 DEF CreditInv
<1>8. CASE w \in Deciding'
  <2>1. Deciding' = Deciding \union {w}
    BY <1>4, <1>5, <1>8, <1>n
  <2>2. Exposure + tender'[w] <= Limit
    <3>1. seen'[w] = Exposure
      BY <1>0 DEF Ask, CreditTypes
    <3>2. ~Over(w)'
      BY <1>8 DEF Deciding
    <3>3. tender'[w] \in Int
      BY <1>1 DEF CreditTypes
    <3> QED BY <3>1, <3>2, <3>3, <1>n DEF Over
  <2>3. /\ Cardinality(Deciding) <= Cardinality(Worker) - 1
        /\ Cardinality(Deciding) \in Nat /\ Cardinality(Worker) \in Nat
    BY <1>4, <1>n, CreditAssumption, LacksOne
  <2>4. (Exposure + tender'[w]) + MaxAmount * Cardinality(Deciding) <= CreditBound
    <3> DEFINE d == Cardinality(Deciding)
               n == Cardinality(Worker)
    <3>1. d <= n - 1 /\ d \in Nat /\ n \in Nat
      BY <2>3
    <3>2. tender'[w] \in Int /\ agreed \in Nat /\ CreditBound = (Limit + agreed) + MaxAmount * (n - 1)
      BY <1>0, <1>1 DEF CreditTypes, CreditBound
    <3> HIDE DEF d, n
    <3>3. MaxAmount * d <= MaxAmount * (n - 1) /\ MaxAmount * d \in Int /\ MaxAmount * (n - 1) \in Int
      BY <3>1, <1>n
    <3>4. (Exposure + tender'[w]) + MaxAmount * d <= CreditBound
      BY <2>2, <3>2, <3>3, <1>n
    <3> QED BY <3>4 DEF d
  <2>5. Bounded(Exposure, Deciding \union {w}, tender', MaxAmount, CreditBound)
    BY <2>4, <1>4, <1>n, BoundedJoin
  <2> QED BY <1>1, <1>2, <2>1, <2>5 DEF CreditInv
<1> QED BY <1>7, <1>8

LEMMA CreditStep ==
  ASSUME CreditFollows
  PROVE  CreditInv'
<1>i. CreditInv /\ CreditTypes
  BY DEF CreditFollows, CreditInv
<1>1. ASSUME NEW w \in Worker, Ask(w) PROVE CreditInv'
  BY <1>i, <1>1, CreditAsks
<1>2. ASSUME NEW w \in Worker, Lock(w) PROVE CreditInv'
  BY <1>i, <1>2, CreditAside DEF Lock, CreditTypes
<1>3. ASSUME NEW w \in Worker, Charge(w) PROVE CreditInv'
  <2>1. CASE Over(w)
    <3>1. policy[w] # "hard_block"
      BY <1>3, <2>1 DEF Charge, Allowed
    <3>2. Leave(w) /\ posted' = posted
          /\ unsettled' = unsettled + tender[w] /\ agreed' = agreed + tender[w]
      BY <1>3, <2>1, <3>1 DEF Charge
    <3> QED BY <1>i, <3>2, CreditLeaves
  <2>2. CASE ~Over(w) /\ tender[w] > 0
    <3>1. w \in Deciding
      BY <2>2 DEF Deciding
    <3>2. Leave(w) /\ posted' = posted /\ unsettled' = unsettled + tender[w] /\ agreed' = agreed
      BY <1>3, <2>2 DEF Charge
    <3> QED BY <1>i, <3>1, <3>2, CreditLeaves
  <2>3. CASE ~Over(w) /\ ~(tender[w] > 0)
    <3>1. Leave(w) /\ posted' = posted /\ unsettled' = unsettled /\ agreed' = agreed
      BY <1>i, <1>3, <2>3, CreditAssumption DEF Charge, CreditTypes
    <3> QED BY <1>i, <3>1, CreditLeaves
  <2> QED BY <2>1, <2>2, <2>3
<1>4. ASSUME NEW w \in Worker, Reject(w) PROVE CreditInv'
  BY <1>i, <1>4, CreditLeaves DEF Reject
<1>5. ASSUME NEW w \in Worker, Abort(w) PROVE CreditInv'
  BY <1>i, <1>5, CreditLeaves DEF Abort
<1>6. ASSUME CloseSession PROVE CreditInv'
  BY <1>i, <1>6, CreditAside DEF CloseSession, CreditTypes
<1>7. ASSUME PayIn PROVE CreditInv'
  BY <1>i, <1>7, CreditAside DEF PayIn, CreditTypes
<1>8. ASSUME UNCHANGED creditVars PROVE CreditInv'
  BY <1>i, <1>8, CreditAside DEF creditVars, CreditTypes
<1> QED BY <1>1, <1>2, <1>3, <1>4, <1>5, <1>6, <1>7, <1>8 DEF CreditFollows, CreditNext

\* What a customer owes beyond the limit was agreed to, save one tender for
\* every register but one, however the requests of _mezze_credit_gate meet.
THEOREM CreditSafety == CreditSpec => []OverrunBounded
<1>1. CreditInit => CreditInv
  BY CreditStart
<1>2. CreditInv /\ [CreditNext]_creditVars => CreditInv'
  BY CreditStep DEF CreditFollows
<1>3. CreditInv => OverrunBounded
  BY CreditMeaning
<1> QED BY <1>1, <1>2, <1>3, PTL DEF CreditSpec
(***************************************************************************)
(* Refunds                                                                 *)
(***************************************************************************)
\* What each of D found beside e fits under the ceiling cap; w turns up.
LEMMA ClaimJoins ==
  ASSUME NEW S, IsFiniteSet(S), NEW D \in SUBSET S, NEW w \in S, w \notin D,
         NEW e \in Int, NEW cap \in Nat, NEW t, \A v \in D : t[v] \in 0 .. cap,
         Bounded(e, D, t, cap, cap * Cardinality(S)),
         NEW u, \A v \in D : u[v] = t[v],
         NEW D2, D2 = D \/ (D2 = D \union {w} /\ u[w] \in Int /\ e + u[w] <= cap)
  PROVE  Bounded(e, D2, u, cap, cap * Cardinality(S))
<1> DEFINE n == Cardinality(S)
           d == Cardinality(D)
<1>1. d <= n - 1 /\ d \in Nat /\ n \in Nat /\ IsFiniteSet(D)
  BY LacksOne, FS_Subset
<1>2. CASE D2 = D
  <2>1. cap * n \in Int
    BY <1>1
  <2>2. e - e <= cap * n - cap * n
    BY <2>1
  <2> HIDE DEF n
  <2>3. Bounded(e, D, t, cap, cap * n)
    BY DEF n
  <2>4. Bounded(e, D, u, cap, cap * n)
    BY <1>1, <2>1, <2>2, <2>3, BoundedShift
  <2> QED BY <1>2, <2>4 DEF n
<1>3. CASE D2 = D \union {w} /\ u[w] \in Int /\ e + u[w] <= cap
  <2> HIDE DEF n, d
  <2>1. cap * d <= cap * (n - 1) /\ cap * (n - 1) = cap * n - cap
        /\ cap * d \in Int /\ cap * n \in Int
    BY <1>1
  <2>2. (e + u[w]) + cap * d <= cap * n
    BY <1>3, <2>1
  <2>3. (e + u[w]) + cap * Cardinality(D) <= cap * n
    BY <2>2 DEF d
  <2>4. Bounded(e, D \union {w}, u, cap, cap * n)
    BY <1>1, <2>3, BoundedJoin
  <2> QED BY <1>3, <2>4 DEF n
<1> QED BY <1>2, <1>3

LEMMA ClaimLeaves ==
  ASSUME NEW D, IsFiniteSet(D), NEW w,
         NEW e \in Int, NEW cap \in Nat, NEW b \in Int, NEW t, \A v \in D : t[v] \in 0 .. cap,
         Bounded(e, D, t, cap, b),
         NEW u, \A v \in D \ {w} : u[v] = t[v],
         NEW e2 \in Int, e2 = e \/ (w \in D /\ e2 = e + t[w])
  PROVE  Bounded(e2, D \ {w}, u, cap, b)
<1>1. CASE w \in D
  <2>1. e2 <= e + t[w]
    BY <1>1
  <2> QED BY <1>1, <2>1, BoundedLeave, ZenonT(60)
<1>2. CASE w \notin D
  <2>1. e2 = e /\ D \ {w} = D /\ e2 - e <= b - b
    BY <1>2
  <2>2. \A v \in D : u[v] = t[v]
    BY <2>1
  <2> QED BY <2>1, <2>2, BoundedShift
<1> QED BY <1>1, <1>2

Quantities == [Line -> Nat]
Refunds == [Uuid -> Quantities]

LEMMA RefundSums ==
  ASSUME NEW rs \in Refunds
  PROVE  AllRefunded(rs) \in Nat /\ \A l \in Line : Refunded(rs, l) \in Nat
<1>1. IsFiniteSet(Uuid) /\ IsFiniteSet(Line)
  BY RefundAssumption
<1>2. \A q \in Quantities : Total(q) \in Nat
  BY <1>1, SumNat DEF Total, Sum, Quantities
<1>3. AllRefunded(rs) \in Nat
  <2> DEFINE f == [u \in Uuid |-> Total(rs[u])]
  <2>1. \A u \in Uuid : f[u] \in Nat
    BY <1>2 DEF Refunds
  <2> HIDE DEF f
  <2>2. Sum(f, Uuid) \in Nat
    BY <1>1, <2>1, SumNat
  <2> QED BY <2>2 DEF AllRefunded, Sum, f
<1>4. ASSUME NEW l \in Line PROVE Refunded(rs, l) \in Nat
  <2> DEFINE f == [u \in Uuid |-> rs[u][l]]
  <2>1. \A u \in Uuid : f[u] \in Nat
    BY DEF Refunds, Quantities
  <2> HIDE DEF f
  <2>2. Sum(f, Uuid) \in Nat
    BY <1>1, <2>1, SumNat
  <2> QED BY <2>2 DEF Refunded, Sum, f
<1> QED BY <1>3, <1>4

LEMMA TotalNat == ASSUME NEW q \in Quantities PROVE Total(q) \in Nat
BY RefundAssumption, SumNat DEF Total, Sum, Quantities

LEMMA TotalNothing == Total(Nothing) = 0
<1>1. IsFiniteSet(Line) /\ \A l \in Line : Nothing[l] = 0
  BY RefundAssumption DEF Nothing
<1>2. Sum(Nothing, Line) = 0
  BY <1>1, SumZero
<1> QED BY <1>2 DEF Total, Sum

LEMMA NoneRefunded ==
  NoRefunds \in Refunds /\ AllRefunded(NoRefunds) = 0
  /\ \A l \in Line : Refunded(NoRefunds, l) = 0
<1>1. IsFiniteSet(Uuid)
  BY RefundAssumption
<1>2. NoRefunds \in Refunds
  BY DEF NoRefunds, Refunds, Nothing, Quantities
<1>3. AllRefunded(NoRefunds) = 0
  <2> DEFINE f == [u \in Uuid |-> Total(NoRefunds[u])]
  <2>1. \A u \in Uuid : f[u] = 0
    BY TotalNothing DEF NoRefunds
  <2> HIDE DEF f
  <2>2. Sum(f, Uuid) = 0
    BY <1>1, <2>1, SumZero
  <2> QED BY <2>2 DEF AllRefunded, Sum, f
<1>4. ASSUME NEW l \in Line PROVE Refunded(NoRefunds, l) = 0
  <2> DEFINE f == [u \in Uuid |-> NoRefunds[u][l]]
  <2>1. \A u \in Uuid : f[u] = 0
    BY DEF NoRefunds, Nothing
  <2> HIDE DEF f
  <2>2. Sum(f, Uuid) = 0
    BY <1>1, <2>1, SumZero
  <2> QED BY <2>2 DEF Refunded, Sum, f
<1> QED BY <1>2, <1>3, <1>4

\* A new refund adds what it gives back, and nothing else.
LEMMA RefundAdds ==
  ASSUME NEW rs \in Refunds, NEW u \in Uuid, rs[u] = Nothing, NEW q \in Quantities,
         NEW rt \in Refunds, rt = [rs EXCEPT ![u] = q]
  PROVE  /\ AllRefunded(rt) = AllRefunded(rs) + Total(q)
         /\ \A l \in Line : Refunded(rt, l) = Refunded(rs, l) + q[l]
<1>1. IsFiniteSet(Uuid)
  BY RefundAssumption
<1>2. rt[u] = q /\ \A v \in Uuid : v # u => rt[v] = rs[v]
  BY DEF Refunds
<1>3. AllRefunded(rt) = AllRefunded(rs) + Total(q)
  <2> DEFINE f == [v \in Uuid |-> Total(rs[v])]
             g == [v \in Uuid |-> Total(rt[v])]
  <2>1. \A v \in Uuid : f[v] \in Int /\ g[v] \in Int
    BY TotalNat DEF Refunds
  <2>2. \A v \in Uuid : v # u => g[v] = f[v]
    BY <1>2
  <2>3. f[u] = 0 /\ g[u] = Total(q)
    BY <1>2, TotalNothing
  <2>4. Sum(f, Uuid) = AllRefunded(rs) /\ Sum(g, Uuid) = AllRefunded(rt)
    BY DEF Sum, AllRefunded
  <2> HIDE DEF f, g
  <2>5. Sum(g, Uuid) = (Sum(f, Uuid) - f[u]) + g[u]
    BY <1>1, <2>1, <2>2, SumChange
  <2>6. AllRefunded(rs) \in Nat /\ Total(q) \in Nat
    BY RefundSums, TotalNat
  <2> QED BY <2>3, <2>4, <2>5, <2>6
<1>4. ASSUME NEW l \in Line PROVE Refunded(rt, l) = Refunded(rs, l) + q[l]
  <2> DEFINE f == [v \in Uuid |-> rs[v][l]]
             g == [v \in Uuid |-> rt[v][l]]
  <2>1. \A v \in Uuid : f[v] \in Int /\ g[v] \in Int
    BY DEF Refunds, Quantities
  <2>2. \A v \in Uuid : v # u => g[v] = f[v]
    BY <1>2
  <2>3. f[u] = 0 /\ g[u] = q[l]
    BY <1>2 DEF Nothing
  <2>4. Sum(f, Uuid) = Refunded(rs, l) /\ Sum(g, Uuid) = Refunded(rt, l)
    BY DEF Sum, Refunded
  <2> HIDE DEF f, g
  <2>5. Sum(g, Uuid) = (Sum(f, Uuid) - f[u]) + g[u]
    BY <1>1, <2>1, <2>2, SumChange
  <2>6. Refunded(rs, l) \in Nat /\ q[l] \in Nat
    BY RefundSums DEF Quantities
  <2> QED BY <2>3, <2>4, <2>5, <2>6
<1> QED BY <1>3, <1>4

RefundTypes == /\ refunds \in Refunds
               /\ known \in [Till -> Refunds]
               /\ \A w \in Till : req[w] # Idle => req[w].uuid \in Uuid /\ req[w].qty \in Quantities
               /\ DOMAIN req = Till /\ req = [w \in Till |-> req[w]]
               /\ stale \in [Till -> BOOLEAN]
               /\ \A w \in Till : holder = w => req[w] # Idle

\* A request whose snapshot no refund has overtaken saw all of them.
KnowsRefunds == \A w \in Till : req[w] # Idle /\ ~stale[w] => known[w] = refunds

\* The requests that their snapshots allow, and those of them that take back l.
Asking == {w \in Till : req[w] # Idle /\ WithinCeilings(known[w], req[w].qty)}
AskingFor(l) == {w \in Asking : req[w].qty[l] > 0}

Money == [w \in Till |-> Total(req[w].qty)]
Units(l) == [w \in Till |-> req[w].qty[l]]

AtMostOnceEach ==
  /\ Bounded(AllRefunded(refunds), Asking, Money, Paid, Paid * Cardinality(Till))
  /\ \A l \in Line : Bounded(Refunded(refunds, l), AskingFor(l), Units(l), Sold[l],
                             Sold[l] * Cardinality(Till))

AtMostOnce == /\ AllRefunded(refunds) <= Paid
              /\ \A l \in Line : Refunded(refunds, l) <= Sold[l]

\* Inductive: where refunds conflict the snapshot that passes is current, and
\* where they do not each request is paid for when it begins.
RefundInv == RefundTypes /\ KnowsRefunds /\ AtMostOnceEach /\ (conflicts => AtMostOnce)

RefundFollows == RefundInv /\ [RefundNext]_refundVars

\* What the ceilings allow is no more than the order holds.
LEMMA Ceilings ==
  ASSUME NEW rs \in Refunds, NEW q \in Quantities, WithinCeilings(rs, q)
  PROVE  /\ Total(q) \in 0 .. Paid /\ AllRefunded(rs) + Total(q) <= Paid
         /\ \A l \in Line : q[l] > 0 => q[l] \in 0 .. Sold[l] /\ Refunded(rs, l) + q[l] <= Sold[l]
<1>1. AllRefunded(rs) \in Nat /\ Total(q) \in Nat /\ Paid \in Nat
  BY RefundSums, TotalNat, RefundAssumption
<1>2. Total(q) \in 0 .. Paid /\ AllRefunded(rs) + Total(q) <= Paid
  BY <1>1 DEF WithinCeilings
<1>3. ASSUME NEW l \in Line, q[l] > 0
      PROVE  q[l] \in 0 .. Sold[l] /\ Refunded(rs, l) + q[l] <= Sold[l]
  <2>1. Refunded(rs, l) \in Nat /\ q[l] \in Nat /\ Sold[l] \in Nat
    BY RefundSums, RefundAssumption DEF Quantities
  <2> QED BY <1>3, <2>1 DEF WithinCeilings
<1> QED BY <1>2, <1>3

LEMMA AskingMeans ==
  ASSUME RefundTypes
  PROVE  /\ Asking \in SUBSET Till /\ IsFiniteSet(Asking)
         /\ \A w \in Asking : Money[w] \in 0 .. Paid
         /\ \A l \in Line : /\ AskingFor(l) \in SUBSET Till /\ IsFiniteSet(AskingFor(l))
                            /\ \A w \in AskingFor(l) : Units(l)[w] \in 0 .. Sold[l]
<1>1. Asking \in SUBSET Till /\ IsFiniteSet(Asking)
  BY RefundAssumption, FS_Subset DEF Asking
<1>2. \A l \in Line : AskingFor(l) \in SUBSET Till /\ IsFiniteSet(AskingFor(l))
  BY <1>1, FS_Subset DEF AskingFor
<1>3. ASSUME NEW w \in Asking
      PROVE  /\ Money[w] \in 0 .. Paid
             /\ \A l \in Line : w \in AskingFor(l) => Units(l)[w] \in 0 .. Sold[l]
  <2>1. w \in Till /\ known[w] \in Refunds /\ req[w].qty \in Quantities
        /\ WithinCeilings(known[w], req[w].qty)
    BY DEF Asking, RefundTypes
  <2>2. Total(req[w].qty) \in 0 .. Paid
        /\ \A l \in Line : req[w].qty[l] > 0 => req[w].qty[l] \in 0 .. Sold[l]
    BY <2>1, Ceilings
  <2> QED BY <2>1, <2>2 DEF Money, Units, AskingFor
<1>4. \A l \in Line : AskingFor(l) \subseteq Asking
  BY DEF AskingFor
<1> QED BY <1>1, <1>2, <1>3, <1>4

LEMMA RefundMeaning ==
  ASSUME RefundInv
  PROVE  RefundsWithinSale
<1>1. RefundTypes /\ AtMostOnceEach
  BY DEF RefundInv
<1> DEFINE n == Cardinality(Till)
<1>2. n \in Nat
  BY RefundAssumption, FS_CardinalityType
<1>3. Paid \in Nat /\ AllRefunded(refunds) \in Int
  BY <1>1, RefundSums, RefundAssumption DEF RefundTypes
<1>4. AllRefunded(refunds) <= Paid * n
  <2>1. Paid * n \in Int
    BY <1>2, <1>3
  <2>2. Bounded(AllRefunded(refunds), Asking, Money, Paid, Paid * n)
    BY <1>1 DEF AtMostOnceEach
  <2> HIDE DEF n
  <2> QED BY <1>1, <1>3, <2>1, <2>2, AskingMeans, BoundedEnds
<1>5. ASSUME NEW l \in Line PROVE Refunded(refunds, l) <= Sold[l] * n
  <2>1. Sold[l] \in Nat /\ Refunded(refunds, l) \in Int
    BY <1>1, RefundSums, RefundAssumption DEF RefundTypes
  <2>2. Sold[l] * n \in Int
    BY <1>2, <2>1
  <2>3. Bounded(Refunded(refunds, l), AskingFor(l), Units(l), Sold[l], Sold[l] * n)
    BY <1>1 DEF AtMostOnceEach
  <2>4. IsFiniteSet(AskingFor(l)) /\ \A w \in AskingFor(l) : Units(l)[w] \in 0 .. Sold[l]
    BY <1>1, AskingMeans
  <2> HIDE DEF n
  <2> QED BY <2>1, <2>2, <2>3, <2>4, BoundedEnds
<1>6. CASE conflicts
  <2>1. AllRefunded(refunds) <= Paid /\ \A l \in Line : Refunded(refunds, l) <= Sold[l]
    BY <1>6 DEF RefundInv, AtMostOnce
  <2>2. Paid * 1 = Paid /\ \A l \in Line : Sold[l] * 1 = Sold[l]
    BY RefundAssumption
  <2> QED BY <1>6, <2>1, <2>2 DEF RefundsWithinSale
<1>7. CASE ~conflicts
  BY <1>4, <1>5, <1>7 DEF RefundsWithinSale
<1> QED BY <1>6, <1>7
LEMMA RefundStart ==
  ASSUME RefundInit
  PROVE  RefundInv
<1>1. RefundTypes
  BY NoneRefunded, RefundAssumption DEF RefundInit, RefundTypes
<1>2. KnowsRefunds
  BY DEF RefundInit, KnowsRefunds
<1>3. Cardinality(Till) \in Nat /\ Paid \in Nat /\ \A l \in Line : Sold[l] \in Nat
  BY RefundAssumption, FS_CardinalityType
<1>4. Asking = {} /\ \A l \in Line : AskingFor(l) = {}
  BY DEF RefundInit, Asking, AskingFor
<1>5. AllRefunded(refunds) = 0 /\ \A l \in Line : Refunded(refunds, l) = 0
  BY NoneRefunded DEF RefundInit
<1>6. 0 <= Paid * Cardinality(Till) /\ \A l \in Line : 0 <= Sold[l] * Cardinality(Till)
  <2> DEFINE n == Cardinality(Till)
  <2>1. n \in Nat
    BY <1>3
  <2> HIDE DEF n
  <2>2. 0 <= Paid * n /\ \A l \in Line : 0 <= Sold[l] * n
    BY <1>3, <2>1
  <2> QED BY <2>2 DEF n
<1>7. AtMostOnceEach
  BY <1>4, <1>5, <1>6 DEF AtMostOnceEach, Bounded
<1>8. AtMostOnce
  BY <1>3, <1>5 DEF AtMostOnce
<1> QED BY <1>1, <1>2, <1>7, <1>8 DEF RefundInv

\* A step of w leaves what the others ask for alone.
LEMMA OthersAsk ==
  ASSUME RefundTypes, NEW w \in Till,
         \A v \in Till \ {w} : req'[v] = req[v] /\ known'[v] = known[v]
  PROVE  /\ Asking' \ {w} = Asking \ {w}
         /\ \A v \in Till \ {w} : Money'[v] = Money[v]
         /\ \A l \in Line : /\ AskingFor(l)' \ {w} = AskingFor(l) \ {w}
                            /\ \A v \in Till \ {w} : Units(l)'[v] = Units(l)[v]
<1>1. \A v \in Till \ {w} : v \in Asking' <=> v \in Asking
  BY DEF Asking
<1>2. Asking' \ {w} = Asking \ {w}
  BY <1>1 DEF Asking
<1>3. \A v \in Till \ {w} : Money'[v] = Money[v]
  BY DEF Money
<1>4. ASSUME NEW l \in Line
      PROVE  /\ AskingFor(l)' \ {w} = AskingFor(l) \ {w}
             /\ \A v \in Till \ {w} : Units(l)'[v] = Units(l)[v]
  <2>1. \A v \in Till \ {w} : v \in AskingFor(l)' <=> v \in AskingFor(l)
    BY <1>1 DEF AskingFor
  <2>2. AskingFor(l) \subseteq Till /\ AskingFor(l)' \subseteq Till
    BY DEF AskingFor, Asking
  <2> QED BY <2>1, <2>2 DEF Units
<1> QED BY <1>2, <1>3, <1>4

\* A request that ends asks for nothing.
LEMMA RefundDrops ==
  ASSUME RefundTypes, NEW w \in Till, Drop(w)
  PROVE  /\ req'[w] = Idle /\ \A v \in Till \ {w} : req'[v] = req[v] /\ known'[v] = known[v]
         /\ known' \in [Till -> Refunds]
         /\ \A v \in Till : req'[v] # Idle => req'[v].uuid \in Uuid /\ req'[v].qty \in Quantities
         /\ DOMAIN req' = Till /\ req' = [v \in Till |-> req'[v]]
         /\ \A v \in Till : holder' = v => req'[v] # Idle
         /\ Asking' = Asking \ {w}
         /\ \A l \in Line : AskingFor(l)' = AskingFor(l) \ {w}
<1>1. req'[w] = Idle /\ \A v \in Till \ {w} : req'[v] = req[v] /\ known'[v] = known[v]
  BY DEF Drop, RefundTypes
<1>2. known' \in [Till -> Refunds] /\ DOMAIN req' = Till /\ req' = [v \in Till |-> req'[v]]
  BY NoneRefunded DEF Drop, RefundTypes
<1>3. \A v \in Till : req'[v] # Idle => req'[v].uuid \in Uuid /\ req'[v].qty \in Quantities
  BY <1>1 DEF RefundTypes
<1>4. \A v \in Till : holder' = v => v # w /\ holder = v
  BY RefundAssumption DEF Drop
<1>5. \A v \in Till : holder' = v => req'[v] # Idle
  BY <1>1, <1>4 DEF RefundTypes
<1>6. w \notin Asking' /\ \A l \in Line : w \notin AskingFor(l)'
  BY <1>1 DEF Asking, AskingFor
<1>7. /\ Asking' \ {w} = Asking \ {w}
      /\ \A l \in Line : AskingFor(l)' \ {w} = AskingFor(l) \ {w}
  BY <1>1, OthersAsk
<1> QED BY <1>1, <1>2, <1>3, <1>5, <1>6, <1>7

\* Whether w's refund was made or not, its claim is settled.
LEMMA RefundSettles ==
  ASSUME RefundTypes, AtMostOnceEach, NEW w \in Till, Drop(w), refunds' \in Refunds,
         \/ AllRefunded(refunds)' = AllRefunded(refunds)
         \/ w \in Asking /\ AllRefunded(refunds)' = AllRefunded(refunds) + Money[w],
         \A l \in Line :
           \/ Refunded(refunds, l)' = Refunded(refunds, l)
           \/ w \in AskingFor(l) /\ Refunded(refunds, l)' = Refunded(refunds, l) + Units(l)[w]
  PROVE  AtMostOnceEach'
<1>1. \A v \in Till \ {w} : req'[v] = req[v] /\ known'[v] = known[v]
  BY RefundDrops
<1>2. Cardinality(Till) \in Nat /\ Paid \in Nat /\ \A l \in Line : Sold[l] \in Nat
  BY RefundAssumption, FS_CardinalityType
<1>3. refunds \in Refunds
  BY DEF RefundTypes
<1>4. Bounded(AllRefunded(refunds)', Asking', Money', Paid, Paid * Cardinality(Till))
  <2> DEFINE b == Paid * Cardinality(Till)
  <2>1. b \in Int
    BY <1>2
  <2>2. AllRefunded(refunds) \in Int /\ AllRefunded(refunds)' \in Int
    BY <1>3, RefundSums
  <2>3. Bounded(AllRefunded(refunds), Asking, Money, Paid, b)
    BY DEF AtMostOnceEach
  <2>4. \A v \in Asking \ {w} : Money'[v] = Money[v]
    BY <1>1, OthersAsk, AskingMeans
  <2> HIDE DEF b
  <2>5. Bounded(AllRefunded(refunds)', Asking \ {w}, Money', Paid, b)
    BY <1>2, <2>1, <2>2, <2>3, <2>4, AskingMeans, ClaimLeaves
  <2> QED BY <2>5, RefundDrops DEF b
<1>5. ASSUME NEW l \in Line
      PROVE  Bounded(Refunded(refunds, l)', AskingFor(l)', Units(l)', Sold[l],
                     Sold[l] * Cardinality(Till))
  <2> DEFINE b == Sold[l] * Cardinality(Till)
  <2>1. b \in Int /\ Sold[l] \in Nat
    BY <1>2
  <2>2. Refunded(refunds, l) \in Int /\ Refunded(refunds, l)' \in Int
    BY <1>3, RefundSums
  <2>3. Bounded(Refunded(refunds, l), AskingFor(l), Units(l), Sold[l], b)
    BY DEF AtMostOnceEach
  <2>4. \A v \in AskingFor(l) \ {w} : Units(l)'[v] = Units(l)[v]
    BY <1>1, OthersAsk, AskingMeans
  <2>5. IsFiniteSet(AskingFor(l)) /\ \A v \in AskingFor(l) : Units(l)[v] \in 0 .. Sold[l]
    BY AskingMeans
  <2> HIDE DEF b
  <2>6. Bounded(Refunded(refunds, l)', AskingFor(l) \ {w}, Units(l)', Sold[l], b)
    BY <2>1, <2>2, <2>3, <2>4, <2>5, ClaimLeaves
  <2> QED BY <2>6, RefundDrops DEF b
<1> QED BY <1>4, <1>5 DEF AtMostOnceEach

LEMMA RefundReplies ==
  ASSUME RefundInv, NEW w \in Till, Reply(w)
  PROVE  RefundInv'
<1>i. RefundTypes /\ KnowsRefunds /\ AtMostOnceEach /\ (conflicts => AtMostOnce)
  BY DEF RefundInv
<1>1. Drop(w) /\ refunds' = refunds /\ conflicts' = conflicts
      /\ stale' = [stale EXCEPT ![w] = FALSE]
  BY DEF Reply
<1>2. RefundTypes'
  BY <1>i, <1>1, RefundDrops DEF RefundTypes
<1>3. KnowsRefunds'
  BY <1>i, <1>1, RefundDrops DEF KnowsRefunds, RefundTypes
<1>4. AtMostOnceEach'
  <2>1. refunds' \in Refunds
    BY <1>i, <1>1 DEF RefundTypes
  <2>2. AllRefunded(refunds)' = AllRefunded(refunds)
        /\ \A l \in Line : Refunded(refunds, l)' = Refunded(refunds, l)
    BY <1>1
  <2> QED BY <1>i, <1>1, <2>1, <2>2, RefundSettles
<1>5. (conflicts => AtMostOnce)'
  BY <1>i, <1>1 DEF AtMostOnce
<1> QED BY <1>2, <1>3, <1>4, <1>5 DEF RefundInv

LEMMA RefundCreates ==
  ASSUME RefundInv, NEW w \in Till, Create(w)
  PROVE  RefundInv'
<1>i. RefundTypes /\ KnowsRefunds /\ AtMostOnceEach /\ (conflicts => AtMostOnce)
  BY DEF RefundInv
<1> DEFINE u == req[w].uuid
           q == req[w].qty
<1>1. /\ Drop(w) /\ conflicts' = conflicts
      /\ holder = w /\ WithinCeilings(known[w], q) /\ refunds[u] = Nothing
      /\ refunds' = [refunds EXCEPT ![u] = q]
      /\ stale' = [v \in Till |-> v # w /\ (stale[v] \/ req[v] # Idle)]
  BY DEF Create
<1>c. conflicts => ~stale[w]
  BY DEF Create
<1>2. req[w] # Idle /\ u \in Uuid /\ q \in Quantities /\ known[w] \in Refunds
      /\ refunds \in Refunds
  BY <1>i, <1>1 DEF RefundTypes
<1>3. refunds' \in Refunds
  BY <1>1, <1>2 DEF Refunds
<1>4. /\ AllRefunded(refunds)' = AllRefunded(refunds) + Total(q)
      /\ \A l \in Line : Refunded(refunds, l)' = Refunded(refunds, l) + q[l]
  <2>1. /\ AllRefunded(refunds') = AllRefunded(refunds) + Total(q)
        /\ \A l \in Line : Refunded(refunds', l) = Refunded(refunds, l) + q[l]
    <3> HIDE DEF u, q
    <3>1. ASSUME NEW rt \in Refunds, rt = refunds', NEW rs \in Refunds, rs = refunds,
                 NEW v \in Uuid, v = u, NEW p \in Quantities, p = q
          PROVE  /\ AllRefunded(rt) = AllRefunded(rs) + Total(p)
                 /\ \A l \in Line : Refunded(rt, l) = Refunded(rs, l) + p[l]
      <4>1. rt = [rs EXCEPT ![v] = p] /\ rs[v] = Nothing
        BY <1>1, <3>1
      <4> QED BY <4>1, RefundAdds
    <3> QED BY <1>2, <1>3, <3>1
  <2> QED BY <2>1 DEF AllRefunded, Refunded, Total
<1>5. w \in Asking /\ Money[w] = Total(q)
      /\ \A l \in Line : Units(l)[w] = q[l] /\ (q[l] > 0 => w \in AskingFor(l))
  BY <1>1, <1>2 DEF Asking, AskingFor, Money, Units
<1>6. RefundTypes'
  <2>1. stale' \in [Till -> BOOLEAN]
    BY <1>1
  <2> QED BY <1>i, <1>1, <1>3, <2>1, RefundDrops DEF RefundTypes
<1>7. KnowsRefunds'
  <2>1. \A v \in Till : ~stale'[v] => v = w \/ req[v] = Idle
    BY <1>1
  <2>2. \A v \in Till : ~stale'[v] => req'[v] = Idle
    BY <1>i, <1>1, <2>1, RefundDrops
  <2> QED BY <2>2 DEF KnowsRefunds
<1>8. AtMostOnceEach'
  <2>1. ASSUME NEW l \in Line
        PROVE  \/ Refunded(refunds, l)' = Refunded(refunds, l)
               \/ w \in AskingFor(l) /\ Refunded(refunds, l)' = Refunded(refunds, l) + Units(l)[w]
    <3>1. Refunded(refunds, l) \in Nat /\ q[l] \in Nat
      BY <1>2, RefundSums DEF Quantities
    <3>2. Refunded(refunds, l)' = Refunded(refunds, l) + q[l] /\ Units(l)[w] = q[l]
          /\ (q[l] > 0 => w \in AskingFor(l))
      BY <1>4, <1>5
    <3> HIDE DEF q
    <3>3. CASE q[l] = 0
      BY <3>1, <3>2, <3>3
    <3>4. CASE q[l] # 0
      BY <3>1, <3>2, <3>4
    <3> QED BY <3>3, <3>4
  <2>2. w \in Asking /\ AllRefunded(refunds)' = AllRefunded(refunds) + Money[w]
    BY <1>4, <1>5
  <2> QED BY <1>i, <1>1, <1>3, <2>1, <2>2, RefundSettles
<1>9. (conflicts => AtMostOnce)'
  <2> SUFFICES ASSUME conflicts' PROVE AtMostOnce'
    OBVIOUS
  <2>1. known[w] = refunds /\ AtMostOnce
    BY <1>i, <1>1, <1>c, <1>2 DEF KnowsRefunds
  <2>2. /\ AllRefunded(refunds) + Total(q) <= Paid
        /\ \A l \in Line : q[l] > 0 => Refunded(refunds, l) + q[l] <= Sold[l]
    <3> HIDE DEF q
    <3> QED BY <1>1, <1>2, <2>1, Ceilings
  <2>3. ASSUME NEW l \in Line PROVE Refunded(refunds, l)' <= Sold[l]
    <3>1. Refunded(refunds, l) \in Nat /\ q[l] \in Nat /\ Refunded(refunds, l) <= Sold[l]
      BY <1>2, <2>1, RefundSums DEF Quantities, AtMostOnce
    <3>2. Refunded(refunds, l)' = Refunded(refunds, l) + q[l]
      BY <1>4
    <3> HIDE DEF q
    <3> QED BY <2>2, <3>1, <3>2
  <2>4. AllRefunded(refunds)' <= Paid
    BY <1>4, <2>2
  <2> QED BY <2>3, <2>4 DEF AtMostOnce
<1> QED BY <1>6, <1>7, <1>8, <1>9 DEF RefundInv

LEMMA RefundBegins ==
  ASSUME RefundInv, NEW w \in Till, Begin(w)
  PROVE  RefundInv'
<1>i. RefundTypes /\ KnowsRefunds /\ AtMostOnceEach /\ (conflicts => AtMostOnce)
  BY DEF RefundInv
<1>1. /\ req[w] = Idle /\ refunds' = refunds /\ stale' = stale
      /\ holder' = holder /\ conflicts' = conflicts
      /\ known' = [known EXCEPT ![w] = refunds]
  BY DEF Begin
<1>2. PICK r : /\ req' = [req EXCEPT ![w] = r]
               /\ r.uuid \in Uuid /\ r.qty \in Quantities
  <2>1. PICK u \in Uuid, q \in [Line -> 0 .. MaxQty] :
          req' = [req EXCEPT ![w] = [uuid |-> u, qty |-> q]]
    BY DEF Begin
  <2>2. q \in Quantities
    BY RefundAssumption DEF Quantities
  <2> DEFINE a == [uuid |-> u, qty |-> q]
  <2>3. req' = [req EXCEPT ![w] = a] /\ a.uuid \in Uuid /\ a.qty \in Quantities
    BY <2>1, <2>2
  <2> HIDE DEF a
  <2> QED BY <2>3
<1>3. req'[w] = r /\ known'[w] = refunds
      /\ \A v \in Till \ {w} : req'[v] = req[v] /\ known'[v] = known[v]
  BY <1>i, <1>1, <1>2 DEF RefundTypes
<1>4. refunds \in Refunds
  BY <1>i DEF RefundTypes
<1>5. RefundTypes'
  <2>1. known' \in [Till -> Refunds] /\ DOMAIN req' = Till /\ req' = [v \in Till |-> req'[v]]
    BY <1>i, <1>1, <1>2, <1>4 DEF RefundTypes
  <2>2. \A v \in Till : req'[v] # Idle => req'[v].uuid \in Uuid /\ req'[v].qty \in Quantities
    BY <1>i, <1>2, <1>3 DEF RefundTypes
  <2>3. \A v \in Till : holder' = v => req'[v] # Idle
    BY <1>i, <1>1, <1>3 DEF RefundTypes
  <2>4. refunds' \in Refunds /\ stale' \in [Till -> BOOLEAN]
    BY <1>i, <1>1 DEF RefundTypes
  <2> QED BY <2>1, <2>2, <2>3, <2>4 DEF RefundTypes
<1>6. KnowsRefunds'
  BY <1>i, <1>1, <1>3 DEF KnowsRefunds
<1>7. (conflicts => AtMostOnce)'
  BY <1>i, <1>1 DEF AtMostOnce
<1>8. IsFiniteSet(Till) /\ Paid \in Nat /\ \A l \in Line : Sold[l] \in Nat
  BY RefundAssumption
<1>9. w \notin Asking /\ \A l \in Line : w \notin AskingFor(l)
  BY <1>1 DEF Asking, AskingFor
<1>10. Bounded(AllRefunded(refunds)', Asking', Money', Paid, Paid * Cardinality(Till))
  <2>1. AllRefunded(refunds) \in Int /\ AllRefunded(refunds)' = AllRefunded(refunds)
    BY <1>1, <1>4, RefundSums
  <2>2. Bounded(AllRefunded(refunds), Asking, Money, Paid, Paid * Cardinality(Till))
    BY <1>i DEF AtMostOnceEach
  <2>3. \A v \in Asking : Money'[v] = Money[v]
    BY <1>i, <1>3, <1>9, OthersAsk, AskingMeans
  <2>4. \/ Asking' = Asking
        \/ Asking' = Asking \union {w} /\ Money'[w] \in Int /\ AllRefunded(refunds) + Money'[w] <= Paid
    <3>1. Asking' \ {w} = Asking
      BY <1>i, <1>3, <1>9, OthersAsk
    <3>2. CASE w \notin Asking'
      BY <3>1, <3>2
    <3>3. CASE w \in Asking'
      <4>1. WithinCeilings(refunds, r.qty)
        BY <1>3, <3>3 DEF Asking
      <4>2. Total(r.qty) \in Nat /\ AllRefunded(refunds) + Total(r.qty) <= Paid
        BY <1>2, <1>4, <4>1, Ceilings, TotalNat
      <4>3. Money'[w] = Total(r.qty)
        BY <1>3 DEF Money
      <4> QED BY <3>1, <3>3, <4>2, <4>3
    <3> QED BY <3>2, <3>3
  <2>5. Asking \in SUBSET Till /\ \A v \in Asking : Money[v] \in 0 .. Paid
    BY <1>i, AskingMeans
  <2>6. Bounded(AllRefunded(refunds), Asking', Money', Paid, Paid * Cardinality(Till))
    BY <1>8, <1>9, <2>1, <2>2, <2>3, <2>4, <2>5, ClaimJoins
  <2> QED BY <2>1, <2>6
<1>11. ASSUME NEW l \in Line
       PROVE  Bounded(Refunded(refunds, l)', AskingFor(l)', Units(l)', Sold[l],
                      Sold[l] * Cardinality(Till))
  <2>1. Refunded(refunds, l) \in Int /\ Refunded(refunds, l)' = Refunded(refunds, l)
    BY <1>1, <1>4, RefundSums
  <2>2. Bounded(Refunded(refunds, l), AskingFor(l), Units(l), Sold[l],
                Sold[l] * Cardinality(Till))
    BY <1>i DEF AtMostOnceEach
  <2>3. \A v \in AskingFor(l) : Units(l)'[v] = Units(l)[v]
    BY <1>i, <1>3, <1>9, OthersAsk, AskingMeans
  <2>4. \/ AskingFor(l)' = AskingFor(l)
        \/ AskingFor(l)' = AskingFor(l) \union {w} /\ Units(l)'[w] \in Int
           /\ Refunded(refunds, l) + Units(l)'[w] <= Sold[l]
    <3>1. AskingFor(l)' \ {w} = AskingFor(l)
      BY <1>i, <1>3, <1>9, OthersAsk
    <3>2. CASE w \notin AskingFor(l)'
      BY <3>1, <3>2
    <3>3. CASE w \in AskingFor(l)'
      <4>1. WithinCeilings(refunds, r.qty) /\ r.qty[l] > 0
        BY <1>3, <3>3 DEF Asking, AskingFor
      <4>2. r.qty[l] \in Int /\ Refunded(refunds, l) + r.qty[l] <= Sold[l]
        BY <1>2, <1>4, <4>1, Ceilings DEF Quantities
      <4>3. Units(l)'[w] = r.qty[l]
        BY <1>3 DEF Units
      <4> QED BY <3>1, <3>3, <4>2, <4>3
    <3> QED BY <3>2, <3>3
  <2>5. AskingFor(l) \in SUBSET Till /\ \A v \in AskingFor(l) : Units(l)[v] \in 0 .. Sold[l]
    BY <1>i, AskingMeans
  <2>6. Bounded(Refunded(refunds, l), AskingFor(l)', Units(l)', Sold[l],
                Sold[l] * Cardinality(Till))
    BY <1>8, <1>9, <2>1, <2>2, <2>3, <2>4, <2>5, ClaimJoins
  <2> QED BY <2>1, <2>6
<1> QED BY <1>5, <1>6, <1>7, <1>10, <1>11 DEF RefundInv, AtMostOnceEach

LEMMA RefundStep ==
  ASSUME RefundFollows
  PROVE  RefundInv'
<1>i. RefundInv
  BY DEF RefundFollows
<1>1. ASSUME NEW w \in Till, Begin(w) PROVE RefundInv'
  BY <1>i, <1>1, RefundBegins
<1>2. ASSUME NEW w \in Till, Answered(w) \/ Refuse(w) \/ Fail(w) PROVE RefundInv'
  BY <1>i, <1>2, RefundReplies DEF Answered, Refuse, Fail
<1>3. ASSUME NEW w \in Till, Acquire(w) PROVE RefundInv'
  <2>1. RefundTypes' /\ KnowsRefunds'
    BY <1>i, <1>3 DEF RefundInv, Acquire, RefundTypes, KnowsRefunds
  <2>2. AtMostOnceEach' /\ (conflicts => AtMostOnce)'
    BY <1>i, <1>3 DEF RefundInv, Acquire, AtMostOnceEach, AtMostOnce, Asking, AskingFor, Money, Units
  <2> QED BY <2>1, <2>2 DEF RefundInv
<1>4. ASSUME NEW w \in Till, Create(w) PROVE RefundInv'
  BY <1>i, <1>4, RefundCreates
<1>5. ASSUME UNCHANGED refundVars PROVE RefundInv'
  BY <1>i, <1>5 DEF refundVars, RefundInv, RefundTypes, KnowsRefunds, AtMostOnceEach, AtMostOnce,
     Asking, AskingFor, Money, Units
<1> QED BY <1>1, <1>2, <1>3, <1>4, <1>5 DEF RefundFollows, RefundNext

\* However its requests of orders/refund overlap, an order gives back what was
\* sold and paid at most once -- or, where the register's configuration lets
\* them commit together, once for each till.
THEOREM RefundSafety == RefundSpec => []RefundsWithinSale
<1>1. RefundInit => RefundInv
  BY RefundStart
<1>2. RefundInv /\ [RefundNext]_refundVars => RefundInv'
  BY RefundStep DEF RefundFollows
<1>3. RefundInv => RefundsWithinSale
  BY RefundMeaning
<1> QED BY <1>1, <1>2, <1>3, PTL DEF RefundSpec

(***************************************************************************)
(* Card charges and reversals                                              *)
(***************************************************************************)
ChargeTypeOK ==
  /\ tx \in [Attempt -> {"none", "draft", "unpaid", "done", "error"}]
  /\ till \in [charge : Attempt \union {NoCharge}, stage : {"rest", "poll", "sale", "sold", "void"}]
  /\ sale \subseteq Attempt /\ recorded \in BOOLEAN
  /\ reversal \in [Attempt -> {"none", "open", "reversed", "resolved"}]
  /\ missed \in [Attempt -> {"no", "early", "lost"}]

\* A sale holds on to its charge, which the till saw captured.
SaleHolds ==
  /\ \A a \in Attempt : till.charge = a /\ till.stage = "sale" => tx[a] = "done"
  /\ \A a \in sale : /\ recorded = TRUE /\ tx[a] = "done"
                     /\ till.charge = a /\ till.stage = "sold"

\* The charge in hand, and one not opened yet, have no reversal.
Unreversed == \A a \in Attempt : tx[a] = "none" \/ till.charge = a => reversal[a] = "none"

\* A charge the till let go of was voided: the outcome is a row, or is missed.
LetGo == \A a \in Attempt :
           tx[a] \in {"draft", "done", "error"} /\ till.charge # a /\ missed[a] = "no"
             => reversal[a] # "none"

ChargeInv == ChargeTypeOK /\ SaleHolds /\ Unreversed /\ LetGo

LEMMA ChargeInitInv == ChargeInit => ChargeInv
<1> SUFFICES ASSUME ChargeInit PROVE ChargeInv
  OBVIOUS
<1> USE ChargeAssumption DEF ChargeInit, AtRest
<1>1. ChargeTypeOK
  BY DEF ChargeTypeOK
<1>2. SaleHolds
  BY DEF SaleHolds
<1>3. Unreversed
  BY DEF Unreversed
<1>4. LetGo
  BY DEF LetGo
<1> QED BY <1>1, <1>2, <1>3, <1>4 DEF ChargeInv

\* Every call of the till, every webhook and every manager keeps it.
LEMMA ChargeStep == ChargeInv /\ [ChargeNext]_chargeVars => ChargeInv'
<1> SUFFICES ASSUME ChargeInv, [ChargeNext]_chargeVars PROVE ChargeInv'
  OBVIOUS
<1> USE ChargeAssumption DEF ChargeInv, ChargeTypeOK, SaleHolds, Unreversed, LetGo
<1>1. ASSUME NEW a \in Attempt, Intent(a) PROVE ChargeInv'
  <2>1. PICK s \in {"draft", "unpaid"} :
          /\ tx' = [tx EXCEPT ![a] = s]
          /\ \/ till' = [charge |-> a, stage |-> "poll"]
             \/ s = "unpaid" /\ till' = till
    BY <1>1 DEF Intent
  <2>2. till.charge = NoCharge /\ till.stage = "rest" /\ tx[a] = "none"
    BY <1>1 DEF Intent, AtRest
  <2>3. UNCHANGED <<sale, recorded, reversal, back, missed>>
    BY <1>1 DEF Intent
  <2>4. CASE till' = [charge |-> a, stage |-> "poll"]
    <3>1. till'.charge = a /\ till'.stage = "poll" /\ till' \in [charge : Attempt \union {NoCharge},
             stage : {"rest", "poll", "sale", "sold", "void"}]
      BY <2>4
    <3>2. ChargeTypeOK'
      BY <2>1, <2>3, <3>1
    <3> QED BY <2>1, <2>2, <2>3, <3>1, <3>2
  <2>5. CASE s = "unpaid" /\ till' = till
    <3>1. a # till.charge /\ tx' = [tx EXCEPT ![a] = "unpaid"] /\ till' = till
      BY <2>1, <2>2, <2>5
    <3>2. ChargeTypeOK'
      BY <2>3, <3>1
    <3>3. SaleHolds'
      BY <2>2, <2>3, <3>1
    <3>4. Unreversed' /\ LetGo'
      BY <2>2, <2>3, <3>1
    <3> QED BY <3>2, <3>3, <3>4
  <2> QED BY <2>1, <2>4, <2>5
<1>2. ASSUME NEW a \in Attempt, Webhook(a) PROVE ChargeInv'
  BY <1>2 DEF Webhook
<1>3. ASSUME NEW a \in Attempt, Poll(a) PROVE ChargeInv'
  BY <1>3 DEF Poll
<1>4. ASSUME NEW a \in Attempt, RecordSale(a) PROVE ChargeInv'
  <2>1. /\ till.charge = a /\ till.stage = "sale"
        /\ recorded' \in BOOLEAN /\ (recorded => recorded' = TRUE)
        /\ UNCHANGED <<tx, reversal, missed>>
    BY <1>4 DEF RecordSale
  <2>2. CASE recorded' = TRUE /\ sale' = sale \union {a} /\ till' = [charge |-> a, stage |-> "sold"]
    <3>1. till'.charge = a /\ till'.stage = "sold"
      BY <2>2
    <3>2. ChargeTypeOK'
      BY <2>1, <2>2
    <3>3. SaleHolds' /\ Unreversed' /\ LetGo'
      BY <2>1, <2>2, <3>1
    <3> QED BY <3>2, <3>3
  <2>3. CASE till' = [charge |-> a, stage |-> "void"] /\ sale' = sale
    <3>1. till'.charge = a /\ till'.stage = "void" /\ sale = {}
      BY <2>1, <2>3
    <3>2. ChargeTypeOK'
      BY <2>1, <2>3
    <3>3. SaleHolds' /\ Unreversed' /\ LetGo'
      BY <2>1, <2>3, <3>1
    <3> QED BY <3>2, <3>3
  <2> QED BY <1>4, <2>2, <2>3 DEF RecordSale
<1>5. ASSUME NEW a \in Attempt, Void(a) PROVE ChargeInv'
  <2>1. CASE missed' = [missed EXCEPT ![a] = "lost"] /\ UNCHANGED <<reversal, back>>
    BY <1>5, <2>1 DEF Void, AtRest
  <2>2. CASE ~Captured(a) /\ VoidNoop(a)
    BY <1>5, <2>2 DEF Void, VoidNoop, AtRest
  <2>3. CASE Captured(a) /\ VoidCaptured(a)
    <3>1. PICK r \in {"open", "reversed"} : reversal' = [reversal EXCEPT ![a] = r] /\ UNCHANGED missed
      BY <2>3 DEF VoidCaptured, Outcomes
    <3> QED BY <1>5, <2>3, <3>1 DEF Void, Captured, AtRest
  <2> QED BY <1>5, <2>1, <2>2, <2>3 DEF Void
<1>6. ASSUME NEW a \in Attempt, Resolve(a) PROVE ChargeInv'
  BY <1>6 DEF Resolve
<1>7. CASE UNCHANGED chargeVars
  BY <1>7 DEF chargeVars
<1> QED BY <1>1, <1>2, <1>3, <1>4, <1>5, <1>6, <1>7 DEF ChargeNext

\* For any number of attempts and any provider: no captured charge is left
\* without a sale, a reversal or a row in the managers' queue.
THEOREM ChargeSafety == ChargeSpec => []ChargesAccounted
<1>1. ChargeInv => ChargesAccounted
  BY DEF ChargeInv, ChargeTypeOK, SaleHolds, Unreversed, LetGo, ChargesAccounted, LeftOver, Captured
<1> QED BY ChargeInitInv, ChargeStep, <1>1, PTL DEF ChargeSpec

(***************************************************************************)
(* CounterSale: sales add up, and nothing is spent twice                   *)
(***************************************************************************)
OrderFields == {"state", "lines", "total", "pays", "gift", "effects", "earned", "member",
                "minted", "sells", "vouchers", "coupons", "fired", "tries", "torn"}

\* An order of the counter: what was paid makes up its total, and its total its
\* lines; only what is paid earns and is paid by card.
SaleRow(r) ==
  /\ DOMAIN r = OrderFields /\ r.state \in {"none", "draft", "paid"}
  /\ r.lines \in Seq(Int) /\ r.pays \in Seq(Int) /\ r.total \in Int
  /\ r.gift \in Nat /\ r.effects \in Nat /\ r.earned \in 0 .. 1 /\ r.sells \in Nat
  /\ r.vouchers \in Nat /\ r.coupons \in Nat /\ r.tries \in Nat
  /\ r.state # "paid" => r.gift = 0 /\ r.earned = 0
  /\ ~r.torn /\ r.tries <= 1 => r.total = SumOf(r.lines)
  /\ r.state = "paid" /\ r.tries <= 1 => SumOf(r.pays) + r.gift = r.total

ChargedOf(r) == IF r.effects >= 1 THEN r.gift ELSE 0
ChargedBy == [o \in Order |-> ChargedOf(order[o])]
VouchersOf == [o \in Order |-> order[o].vouchers]
CouponsOf == [o \in Order |-> order[o].coupons]

OrdersAddUp == DOMAIN order = Order /\ \A o \in Order : SaleRow(order[o])

\* A card that was not issued is empty.
CardsTyped == /\ balance \in [Card -> Nat] /\ issued \in [Card -> Nat]
              /\ \A k \in Card : Fresh(k) => balance[k] = 0
CardsBalance == SumOf(balance) + SumOf(ChargedBy) = SumOf(issued)
RewardsTyped == points \in Nat /\ redeemed \in Nat /\ held \in Nat /\ coupon \in Nat
RewardsSpent == /\ SumOf(VouchersOf) + held <= redeemed
                /\ SumOf(CouponsOf) + coupon <= 1

SaleInv == OrdersAddUp /\ CardsTyped /\ CardsBalance /\ RewardsTyped /\ RewardsSpent

(***************************************************************************)
(* Sums of sequences                                                       *)
(***************************************************************************)
LEMMA SumOfIs == ASSUME NEW f PROVE SumOf(f) = Sum(f, DOMAIN f)
BY DEF SumOf, SumFunction, Sum

LEMMA RangeFinite == ASSUME NEW n \in Int PROVE IsFiniteSet(1 .. n)
<1>1. 1 \in Int
  OBVIOUS
<1> QED BY <1>1, FS_Interval

LEMMA IndicesFinite ==
  ASSUME NEW S, NEW q \in Seq(S)
  PROVE  IsFiniteSet(DOMAIN q) /\ DOMAIN q = 1 .. Len(q) /\ Len(q) \in Nat
<1>1. DOMAIN q = 1 .. Len(q) /\ Len(q) \in Nat
  OBVIOUS
<1> QED BY <1>1, FS_Interval

LEMMA SeqSumInt == ASSUME NEW q \in Seq(Int) PROVE SumOf(q) \in Int
<1>1. \A i \in DOMAIN q : q[i] \in Int
  OBVIOUS
<1> QED BY <1>1, IndicesFinite, SumInt, SumOfIs

LEMMA SeqSumNat == ASSUME NEW q \in Seq(Nat) PROVE SumOf(q) \in Nat
<1>1. \A i \in DOMAIN q : q[i] \in Nat
  OBVIOUS
<1> QED BY <1>1, IndicesFinite, SumNat, SumOfIs

LEMMA EmptySum == SumOf(<<>>) = 0
<1>1. DOMAIN <<>> = {}
  OBVIOUS
<1> QED BY <1>1, SumOfIs, SumEmpty

LEMMA AppendSum ==
  ASSUME NEW q \in Seq(Int), NEW x \in Int
  PROVE  SumOf(Append(q, x)) = SumOf(q) + x
<1> DEFINE p == Append(q, x)
           n == Len(q)
<1>1. /\ n \in Nat /\ DOMAIN p = 1 .. n + 1 /\ DOMAIN q = 1 .. n /\ p \in Seq(Int)
      /\ p[n + 1] = x /\ \A i \in 1 .. n : p[i] = q[i]
  OBVIOUS
<1>2. /\ IsFiniteSet(1 .. n) /\ IsFiniteSet(1 .. n + 1)
      /\ (1 .. n + 1) \ {n + 1} = 1 .. n /\ n + 1 \in 1 .. n + 1
  <2>1. n \in Int /\ n + 1 \in Int /\ n \in Nat
    BY <1>1
  <2> HIDE DEF n
  <2> QED BY <2>1, RangeFinite
<1>3. \A i \in 1 .. n + 1 : p[i] \in Int
  BY <1>1
<1> HIDE DEF p, n
<1>4. Sum(p, 1 .. n + 1) = p[n + 1] + Sum(p, (1 .. n + 1) \ {n + 1})
  BY ONLY <1>2, <1>3, SumTake, SMTT(20)
<1>5. Sum(p, 1 .. n) = Sum(q, 1 .. n)
  BY <1>1, <1>2, SumSame
<1>6. SumOf(p) = x + SumOf(q)
  BY <1>1, <1>2, <1>4, <1>5, SumOfIs
<1>7. SumOf(q) \in Int
  BY SeqSumInt
<1> QED BY <1>6, <1>7 DEF p

LEMMA OneSum == ASSUME NEW x \in Int PROVE SumOf(<<x>>) = x
<1>1. <<>> \in Seq(Int) /\ Append(<<>>, x) = <<x>>
  OBVIOUS
<1>2. SumOf(Append(<<>>, x)) = SumOf(<<>>) + x
  BY <1>1, AppendSum
<1> QED BY <1>1, <1>2, EmptySum

(***************************************************************************)
(* Lines and tenders                                                       *)
(***************************************************************************)
LEMMA CartTyped ==
  ASSUME NEW c \in Carts
  PROVE  /\ c.plain \in Nat /\ c.card \in Nat /\ c.list \in Nat /\ c.extra \in Nat
         /\ c.bases \in Seq(Nat) /\ (c.bases # <<>> => SumOf(c.bases) > 0)
BY SaleAssumption DEF SumOf

LEMMA PlainTyped ==
  ASSUME NEW c \in Carts
  PROVE  /\ PlainLines(c) \in Seq(Nat) /\ PlainLines(c) \in Seq(Int)
         /\ SumOf(PlainLines(c)) \in Nat
<1>1. LineOf(c.plain) \in Seq(Nat) /\ LineOf(c.card) \in Seq(Nat)
  BY CartTyped DEF LineOf
<1>2. PlainLines(c) \in Seq(Nat)
  BY <1>1 DEF PlainLines
<1>3. Seq(Nat) \subseteq Seq(Int)
  OBVIOUS
<1> QED BY <1>2, <1>3, SeqSumNat

\* A child's share of a combo's price is a whole amount.
LEMMA SharesTyped ==
  ASSUME NEW c \in Carts, c.bases # <<>>, NEW i \in 1 .. Len(c.bases)
  PROVE  Rounded(c.bases[i] * c.list, SumOf(c.bases)) \in Int
<1> DEFINE p == c.bases[i] * c.list
           d == SumOf(c.bases)
<1>1. c.bases[i] \in Nat /\ c.list \in Nat
  BY CartTyped
<1>2. p \in Nat
  BY <1>1
<1>3. d \in Nat /\ d > 0
  BY CartTyped, SeqSumNat
<1> HIDE DEF p, d
<1>4. Rounded(p, d) \in Int
  BY <1>2, <1>3 DEF Rounded
<1> QED BY <1>4 DEF p, d

LEMMA ComboTyped == ASSUME NEW c \in Carts PROVE ComboLines(c) \in Seq(Int)
<1> SUFFICES ASSUME c.bases # <<>> PROVE ComboLines(c) \in Seq(Int)
  <2>1. c.bases = <<>> => ComboLines(c) = <<>>
    BY DEF ComboLines
  <2>2. <<>> \in Seq(Int)
    OBVIOUS
  <2> QED BY <2>1, <2>2
<1> DEFINE n == Len(c.bases)
           d == SumOf(c.bases)
           share == [i \in 1 .. n |-> Rounded(c.bases[i] * c.list, d)]
           front == [i \in 1 .. (n - 1) |-> share[i]]
           others == SumOf(front)
<1>1. n \in Nat /\ c.bases \in [1 .. n -> Nat] /\ c.list \in Nat /\ c.extra \in Nat
  BY CartTyped
<1>3. \A i \in 1 .. n : Rounded(c.bases[i] * c.list, d) \in Int
  BY SharesTyped
<1> HIDE DEF d
<1>4. share \in [1 .. n -> Int]
  BY <1>3
<1> HIDE DEF share
<1>5. others \in Int
  <2>1. front \in [1 .. (n - 1) -> Int] /\ DOMAIN front = 1 .. (n - 1)
    BY <1>1, <1>4
  <2>2. \A i \in 1 .. (n - 1) : front[i] \in Int
    BY <2>1
  <2>3. n - 1 \in Int
    BY <1>1
  <2>4. IsFiniteSet(1 .. (n - 1))
    BY <2>3, RangeFinite
  <2> HIDE DEF front
  <2> QED BY <2>1, <2>2, <2>4, SumInt, SumOfIs
<1>6. ChildPrices(c) = [i \in 1 .. n |-> (IF i = n THEN c.list - others ELSE share[i]) + c.extra]
  BY DEF ChildPrices, share, d
<1> HIDE DEF others
<1>7. ChildPrices(c) \in [1 .. n -> Int]
  BY <1>1, <1>4, <1>5, <1>6
<1>8. ChildPrices(c) \in Seq(Int)
  BY <1>1, <1>7
<1>9. <<0>> \in Seq(Int) /\ ComboLines(c) = <<0>> \o ChildPrices(c)
  BY DEF ComboLines
<1> QED BY <1>8, <1>9

\* The children of a combo cost its list price and their extras, to the unit,
\* however the shares round (_combo_child_vals).
THEOREM ComboAddsUp ==
  \A c \in Carts : c.bases # <<>> => SumOf(ChildPrices(c)) = c.list + Len(c.bases) * c.extra
<1> SUFFICES ASSUME NEW c \in Carts, c.bases # <<>>
             PROVE  SumOf(ChildPrices(c)) = c.list + Len(c.bases) * c.extra
  OBVIOUS
<1> DEFINE n == Len(c.bases)
           d == SumOf(c.bases)
           share == [i \in 1 .. n |-> Rounded(c.bases[i] * c.list, d)]
           front == [i \in 1 .. (n - 1) |-> share[i]]
           others == SumOf(front)
           price == [i \in 1 .. n |-> IF i = n THEN c.list - others ELSE share[i]]
           child == [i \in 1 .. n |-> (IF i = n THEN c.list - others ELSE share[i]) + c.extra]
<1>1. n \in Nat /\ n >= 1 /\ c.list \in Int /\ c.extra \in Int
  BY CartTyped
<1>2. ChildPrices(c) = child
  BY DEF ChildPrices
<1>3. \A i \in 1 .. n : share[i] \in Int
  BY SharesTyped
<1> HIDE DEF share, d
<1>4. /\ DOMAIN front = 1 .. (n - 1) /\ IsFiniteSet(1 .. (n - 1)) /\ IsFiniteSet(1 .. n)
      /\ \A i \in 1 .. (n - 1) : front[i] = share[i] /\ front[i] \in Int
  <2>1. n - 1 \in Int /\ n \in Int
    BY <1>1
  <2>2. \A i \in 1 .. (n - 1) : i \in 1 .. n
    BY <1>1
  <2>3. DOMAIN front = 1 .. (n - 1) /\ \A i \in 1 .. (n - 1) : front[i] = share[i]
    OBVIOUS
  <2> HIDE DEF front, n
  <2> QED BY <1>3, <2>1, <2>2, <2>3, RangeFinite
<1> HIDE DEF front
<1>5. others = Sum(front, 1 .. (n - 1)) /\ others \in Int
  BY <1>4, SumOfIs, SumInt
<1> HIDE DEF others
<1>6. /\ \A i \in 1 .. n : price[i] \in Int /\ child[i] = price[i] + c.extra
      /\ price[n] = c.list - others /\ \A i \in 1 .. (n - 1) : price[i] = front[i]
      /\ DOMAIN child = 1 .. n /\ (1 .. n) \ {n} = 1 .. (n - 1) /\ n \in 1 .. n
  BY <1>1, <1>3, <1>4, <1>5
<1> HIDE DEF price, child, n
<1>7. Sum(price, 1 .. n) = c.list
  <2>0. \A i \in 1 .. n : price[i] \in Int
    BY <1>6
  <2>1. Sum(price, 1 .. n) = price[n] + Sum(price, (1 .. n) \ {n})
    BY ONLY <1>4, <1>6, <2>0, SumTake
  <2>2. Sum(price, 1 .. (n - 1)) = others
    BY ONLY <1>4, <1>5, <1>6, SumSame
  <2>3. (1 .. n) \ {n} = 1 .. (n - 1) /\ price[n] = c.list - others
    BY <1>6
  <2>4. Sum(price, 1 .. n) = (c.list - others) + others
    BY ONLY <2>1, <2>2, <2>3
  <2> QED BY <1>1, <1>5, <2>4
<1>8. Cardinality(1 .. n) = n
  <2>1. 1 \in Int /\ n \in Int /\ n >= 1
    BY <1>1
  <2>2. Cardinality(1 .. n) = n - 1 + 1
    BY <2>1, FS_Interval
  <2> QED BY <1>1, <2>2
<1>9. Sum(child, 1 .. n) = Sum(price, 1 .. n) + Cardinality(1 .. n) * c.extra
  BY ONLY <1>1, <1>4, <1>6, SumShifted
<1>10. SumOf(child) = c.list + n * c.extra
  BY <1>6, <1>7, <1>8, <1>9, SumOfIs
<1> QED BY <1>2, <1>10 DEF n

\* Whatever tenders are sent, those booked make up what is left to pay.
LEMMA PaymentsAddUpTo ==
  ASSUME NEW target \in Nat, NEW sent \in Tenders
  PROVE  Payments(target, sent) \in Seq(Int) /\ SumOf(Payments(target, sent)) = target
<1>1. CASE target <= 0
  BY <1>1, EmptySum DEF Payments
<1>2. CASE target > 0 /\ Len(sent) >= 2
  <2> DEFINE front == SubSeq(sent, 1, Len(sent) - 1)
  <2>1. sent \in Seq(Nat)
    BY SaleAssumption
  <2>2. front \in Seq(Nat) /\ Seq(Nat) \subseteq Seq(Int)
    BY <1>2, <2>1
  <2>3. Payments(target, sent) = Append(front, target - SumOf(front))
    BY <1>2 DEF Payments
  <2> HIDE DEF front
  <2>4. front \in Seq(Int) /\ SumOf(front) \in Nat /\ target - SumOf(front) \in Int
    BY <2>2, SeqSumNat
  <2>5. SumOf(Append(front, target - SumOf(front))) = SumOf(front) + (target - SumOf(front))
    BY <2>4, AppendSum
  <2> QED BY <2>3, <2>4, <2>5
<1>3. CASE target > 0 /\ ~(Len(sent) >= 2)
  <2>1. Payments(target, sent) = <<target>>
    BY <1>3 DEF Payments
  <2> QED BY <2>1, OneSum
<1> QED BY <1>1, <1>2, <1>3
(***************************************************************************)
(* One order is replaced                                                   *)
(***************************************************************************)
LEMMA NewOrder == SaleRow(NoOrder) /\ NoOrder.state = "none" /\ ChargedOf(NoOrder) = 0
                  /\ NoOrder.effects = 0 /\ NoOrder.vouchers = 0 /\ NoOrder.coupons = 0
                  /\ NoOrder.torn = FALSE /\ NoOrder.gift = 0 /\ NoOrder.earned = 0
                  /\ NoOrder.tries = 0 /\ NoOrder.fired = FALSE
<1>1. /\ NoOrder.state = "none" /\ NoOrder.lines = <<>> /\ NoOrder.pays = <<>>
      /\ NoOrder.total = 0 /\ NoOrder.gift = 0 /\ NoOrder.effects = 0 /\ NoOrder.earned = 0
      /\ NoOrder.sells = 0 /\ NoOrder.vouchers = 0 /\ NoOrder.coupons = 0 /\ NoOrder.tries = 0
      /\ NoOrder.torn = FALSE /\ NoOrder.fired = FALSE
      /\ DOMAIN NoOrder = OrderFields
  BY DEF NoOrder, OrderFields
<1>2. <<>> \in Seq(Int)
  OBVIOUS
<1> QED BY <1>1, <1>2, EmptySum DEF SaleRow, ChargedOf

\* A sum over the orders that are there, one of which changes.
LEMMA SumOrders ==
  ASSUME NEW f, NEW g, DOMAIN f = Order, DOMAIN g = Order, NEW o \in Order,
         \A x \in Order : f[x] \in Int /\ g[x] \in Int, \A x \in Order : x # o => g[x] = f[x]
  PROVE  SumOf(g) = (SumOf(f) - f[o]) + g[o] /\ SumOf(f) \in Int /\ SumOf(g) \in Int
BY SaleAssumption, SumChange, SumInt, SumOfIs

LEMMA OrderReplaced ==
  ASSUME OrdersAddUp, NEW o \in Order, NEW r, SaleRow(r), order' = [order EXCEPT ![o] = r]
  PROVE  /\ OrdersAddUp'
         /\ SumOf(ChargedBy') = (SumOf(ChargedBy) - ChargedOf(order[o])) + ChargedOf(r)
         /\ SumOf(VouchersOf') = (SumOf(VouchersOf) - order[o].vouchers) + r.vouchers
         /\ SumOf(CouponsOf') = (SumOf(CouponsOf) - order[o].coupons) + r.coupons
         /\ SumOf(ChargedBy) \in Int /\ SumOf(VouchersOf) \in Int /\ SumOf(CouponsOf) \in Int
         /\ ChargedOf(order[o]) \in Nat /\ ChargedOf(r) \in Nat
<1>1. order'[o] = r /\ DOMAIN order' = Order /\ \A x \in Order : x # o => order'[x] = order[x]
  BY DEF OrdersAddUp
<1>2. \A x \in Order : SaleRow(order[x]) /\ SaleRow(order'[x])
  BY <1>1 DEF OrdersAddUp
<1>3. ASSUME NEW q, SaleRow(q) PROVE ChargedOf(q) \in Nat /\ q.vouchers \in Nat /\ q.coupons \in Nat
  BY <1>3 DEF SaleRow, ChargedOf
<1>4. SumOf(ChargedBy') = (SumOf(ChargedBy) - ChargedOf(order[o])) + ChargedOf(r)
      /\ SumOf(ChargedBy) \in Int
  <2>1. /\ DOMAIN ChargedBy = Order /\ DOMAIN ChargedBy' = Order
        /\ \A x \in Order : ChargedBy[x] = ChargedOf(order[x]) /\ ChargedBy'[x] = ChargedOf(order'[x])
    BY DEF ChargedBy
  <2>2. \A x \in Order : ChargedBy[x] \in Int /\ ChargedBy'[x] \in Int
    BY <1>2, <1>3, <2>1
  <2>3. \A x \in Order : x # o => ChargedBy'[x] = ChargedBy[x]
    BY <1>1, <2>1
  <2>4. ChargedBy[o] = ChargedOf(order[o]) /\ ChargedBy'[o] = ChargedOf(r)
    BY <1>1, <2>1
  <2> QED BY <2>1, <2>2, <2>3, <2>4, SumOrders
<1>5. SumOf(VouchersOf') = (SumOf(VouchersOf) - order[o].vouchers) + r.vouchers
      /\ SumOf(VouchersOf) \in Int
  <2>1. /\ DOMAIN VouchersOf = Order /\ DOMAIN VouchersOf' = Order
        /\ \A x \in Order : VouchersOf[x] = order[x].vouchers /\ VouchersOf'[x] = order'[x].vouchers
    BY DEF VouchersOf
  <2>2. \A x \in Order : VouchersOf[x] \in Int /\ VouchersOf'[x] \in Int
    BY <1>2, <1>3, <2>1
  <2>3. \A x \in Order : x # o => VouchersOf'[x] = VouchersOf[x]
    BY <1>1, <2>1
  <2>4. VouchersOf[o] = order[o].vouchers /\ VouchersOf'[o] = r.vouchers
    BY <1>1, <2>1
  <2> QED BY <2>1, <2>2, <2>3, <2>4, SumOrders
<1>6. SumOf(CouponsOf') = (SumOf(CouponsOf) - order[o].coupons) + r.coupons
      /\ SumOf(CouponsOf) \in Int
  <2>1. /\ DOMAIN CouponsOf = Order /\ DOMAIN CouponsOf' = Order
        /\ \A x \in Order : CouponsOf[x] = order[x].coupons /\ CouponsOf'[x] = order'[x].coupons
    BY DEF CouponsOf
  <2>2. \A x \in Order : CouponsOf[x] \in Int /\ CouponsOf'[x] \in Int
    BY <1>2, <1>3, <2>1
  <2>3. \A x \in Order : x # o => CouponsOf'[x] = CouponsOf[x]
    BY <1>1, <2>1
  <2>4. CouponsOf[o] = order[o].coupons /\ CouponsOf'[o] = r.coupons
    BY <1>1, <2>1
  <2> QED BY <2>1, <2>2, <2>3, <2>4, SumOrders
<1> QED BY <1>1, <1>2, <1>3, <1>4, <1>5, <1>6 DEF OrdersAddUp

LEMMA CardsType ==
  ASSUME CardsTyped
  PROVE  SumOf(balance) \in Int /\ SumOf(issued) \in Int
<1>1. /\ DOMAIN balance = Card /\ DOMAIN issued = Card /\ IsFiniteSet(Card)
      /\ \A k \in Card : balance[k] \in Int /\ issued[k] \in Int
  BY SaleAssumption DEF CardsTyped
<1> QED BY <1>1, SumInt, SumOfIs

\* A card's value changes.
LEMMA SumCards ==
  ASSUME NEW f \in [Card -> Int], NEW g \in [Card -> Int], NEW k \in Card, NEW d \in Int,
         g[k] = f[k] + d, \A c \in Card : c # k => g[c] = f[c]
  PROVE  SumOf(g) = SumOf(f) + d /\ SumOf(f) \in Int
<1>1. /\ DOMAIN f = Card /\ DOMAIN g = Card /\ IsFiniteSet(Card)
      /\ \A c \in Card : f[c] \in Int /\ g[c] \in Int
  BY SaleAssumption
<1>2. Sum(g, Card) = (Sum(f, Card) - f[k]) + g[k]
  BY <1>1, SumChange
<1>3. Sum(f, Card) \in Int
  BY <1>1, SumInt
<1> QED BY <1>1, <1>2, <1>3, SumOfIs

LEMMA SaleInitInv == SaleInit => SaleInv
<1> SUFFICES ASSUME SaleInit PROVE SaleInv
  OBVIOUS
<1> USE DEF SaleInit
<1>1. OrdersAddUp
  BY NewOrder DEF OrdersAddUp
<1>2. CardsTyped /\ RewardsTyped
  BY DEF CardsTyped, RewardsTyped
<1>3. \A o \in Order : /\ ChargedBy[o] = 0 /\ VouchersOf[o] = 0 /\ CouponsOf[o] = 0
  BY NewOrder DEF ChargedBy, VouchersOf, CouponsOf
<1>4. DOMAIN ChargedBy = Order /\ DOMAIN VouchersOf = Order /\ DOMAIN CouponsOf = Order
  BY DEF ChargedBy, VouchersOf, CouponsOf
<1>5. SumOf(ChargedBy) = 0 /\ SumOf(VouchersOf) = 0 /\ SumOf(CouponsOf) = 0
  BY <1>3, <1>4, SumZero, SumOfIs, SaleAssumption
<1>6. SumOf(balance) = 0 /\ SumOf(issued) = 0
  <2>1. DOMAIN balance = Card /\ \A k \in Card : balance[k] = 0
    OBVIOUS
  <2>2. DOMAIN issued = Card /\ \A k \in Card : issued[k] = 0
    OBVIOUS
  <2> QED BY <2>1, <2>2, SumZero, SumOfIs, SaleAssumption
<1>7. CardsBalance /\ RewardsSpent
  BY <1>5, <1>6 DEF CardsBalance, RewardsSpent
<1> QED BY <1>1, <1>2, <1>7 DEF SaleInv

\* An order is replaced by one that took nothing from a card, as many vouchers
\* as the tills held fewer, and no more coupons than were spent.
LEMMA OrderSteps ==
  ASSUME SaleInv, NEW o \in Order, NEW r, SaleRow(r), order' = [order EXCEPT ![o] = r],
         ChargedOf(r) = ChargedOf(order[o]), UNCHANGED <<balance, issued, redeemed>>,
         points' \in Nat, held' \in Nat, coupon' \in Nat,
         r.vouchers + held' <= order[o].vouchers + held,
         r.coupons + coupon' <= order[o].coupons + coupon
  PROVE  SaleInv'
<1>1. /\ OrdersAddUp'
      /\ SumOf(ChargedBy') = (SumOf(ChargedBy) - ChargedOf(order[o])) + ChargedOf(r)
      /\ SumOf(VouchersOf') = (SumOf(VouchersOf) - order[o].vouchers) + r.vouchers
      /\ SumOf(CouponsOf') = (SumOf(CouponsOf) - order[o].coupons) + r.coupons
      /\ SumOf(ChargedBy) \in Int /\ SumOf(VouchersOf) \in Int /\ SumOf(CouponsOf) \in Int
      /\ ChargedOf(order[o]) \in Nat /\ ChargedOf(r) \in Nat
  BY OrderReplaced DEF SaleInv
<1>2. CardsTyped' /\ RewardsTyped'
  BY DEF SaleInv, CardsTyped, RewardsTyped, Fresh
<1>3. CardsBalance'
  BY <1>1 DEF SaleInv, CardsBalance
<1>4. /\ r.vouchers \in Nat /\ r.coupons \in Nat
      /\ order[o].vouchers \in Nat /\ order[o].coupons \in Nat
  BY DEF SaleRow, SaleInv, OrdersAddUp
<1>5. /\ held \in Nat /\ redeemed \in Nat /\ coupon \in Nat
      /\ SumOf(VouchersOf) + held <= redeemed /\ SumOf(CouponsOf) + coupon <= 1
  BY DEF SaleInv, RewardsTyped, RewardsSpent
<1>6. SumOf(VouchersOf') + held' <= redeemed
  BY <1>1, <1>4, <1>5
<1>7. SumOf(CouponsOf') + coupon' <= 1
  BY <1>1, <1>4, <1>5
<1>8. RewardsSpent'
  BY <1>6, <1>7 DEF RewardsSpent
<1> QED BY <1>1, <1>2, <1>3, <1>8 DEF SaleInv
(***************************************************************************)
(* The handlers                                                            *)
(***************************************************************************)
\* What a paid sale does next: its row notes it.
Noted(rec, done, minted, earns) ==
  [rec EXCEPT !.effects = done, !.minted = minted, !.earned = IF earns > 0 THEN @ + 1 ELSE @]

LEMMA EffectsRow ==
  ASSUME NEW rec, SaleRow(rec), rec.state = "paid", rec.earned = 0,
         NEW done \in Nat, NEW minted, NEW earns
  PROVE  /\ SaleRow(Noted(rec, done, minted, earns))
         /\ Noted(rec, done, minted, earns).vouchers = rec.vouchers
         /\ Noted(rec, done, minted, earns).coupons = rec.coupons
         /\ ChargedOf(Noted(rec, done, minted, earns)) = IF done >= 1 THEN rec.gift ELSE 0
<1> DEFINE r == Noted(rec, done, minted, earns)
<1>1. DOMAIN rec = OrderFields
  BY DEF SaleRow
<1>2. /\ DOMAIN r = OrderFields /\ r.state = rec.state /\ r.lines = rec.lines
      /\ r.pays = rec.pays /\ r.total = rec.total /\ r.gift = rec.gift /\ r.effects = done
      /\ r.earned = (IF earns > 0 THEN rec.earned + 1 ELSE rec.earned) /\ r.sells = rec.sells
      /\ r.vouchers = rec.vouchers /\ r.coupons = rec.coupons /\ r.tries = rec.tries
      /\ r.torn = rec.torn
  BY <1>1 DEF OrderFields, Noted
<1> HIDE DEF r
<1>3. r.earned \in 0 .. 1
  BY <1>2
<1>4. SaleRow(r)
  BY <1>2, <1>3 DEF SaleRow
<1>5. ChargedOf(r) = IF done >= 1 THEN rec.gift ELSE 0
  BY <1>2 DEF ChargedOf
<1> QED BY <1>2, <1>4, <1>5 DEF r

\* A card is charged and one is minted.
LEMMA CardsMove ==
  ASSUME CardsTyped, NEW g \in Card, NEW k \in Card, NEW charged \in Nat, NEW minted \in Nat,
         charged <= balance[g], charged > 0 => ~Fresh(g), minted > 0 => Fresh(k),
         balance' = [c \in Card |-> balance[c] - (IF c = g THEN charged ELSE 0)
                                              + (IF c = k THEN minted ELSE 0)],
         issued' = [issued EXCEPT ![k] = @ + minted]
  PROVE  /\ CardsTyped'
         /\ SumOf(balance') = (SumOf(balance) - charged) + minted
         /\ SumOf(issued') = SumOf(issued) + minted
<1>1. balance \in [Card -> Nat] /\ issued \in [Card -> Nat] /\ \A c \in Card : Fresh(c) => balance[c] = 0
  BY DEF CardsTyped
<1> DEFINE b == [balance EXCEPT ![g] = balance[g] - charged]
<1>2. balance[g] \in Nat /\ minted \in Int /\ balance[g] - charged \in Nat
  BY <1>1
<1>3. /\ balance \in [Card -> Int] /\ b \in [Card -> Int]
      /\ b[g] = balance[g] + (-charged) /\ -charged \in Int
      /\ \A c \in Card : (c # g => b[c] = balance[c]) /\ b[c] \in Nat
  BY <1>1, <1>2
<1> HIDE DEF b
<1>4. SumOf(b) = SumOf(balance) + (-charged) /\ SumOf(balance) \in Int
  BY <1>3, SumCards
<1>5. \A c \in Card : balance'[c] = b[c] + (IF c = k THEN minted ELSE 0)
  <2> SUFFICES ASSUME NEW c \in Card PROVE balance'[c] = b[c] + (IF c = k THEN minted ELSE 0)
    OBVIOUS
  <2>1. balance'[c] = balance[c] - (IF c = g THEN charged ELSE 0) + (IF c = k THEN minted ELSE 0)
        /\ balance[c] \in Nat
    BY <1>1
  <2>2. CASE c = g
    BY <1>2, <1>3, <2>1, <2>2
  <2>3. CASE c # g
    BY <1>3, <2>1, <2>3
  <2> QED BY <2>2, <2>3
<1>6. /\ balance' \in [Card -> Int]
      /\ balance'[k] = b[k] + minted /\ \A c \in Card : c # k => balance'[c] = b[c]
  <2>1. balance' = [c \in Card |-> balance'[c]]
    OBVIOUS
  <2>2. \A c \in Card : balance'[c] \in Int
    BY <1>2, <1>3, <1>5
  <2>3. balance' \in [Card -> Int]
    BY <2>1, <2>2
  <2> QED BY <1>2, <1>3, <1>5, <2>3
<1>7. SumOf(balance') = SumOf(b) + minted
  BY ONLY <1>2, <1>3, <1>6, SumCards, k \in Card
<1>8. /\ issued \in [Card -> Int] /\ issued' \in [Card -> Nat] /\ issued' \in [Card -> Int]
      /\ issued'[k] = issued[k] + minted /\ \A c \in Card : c # k => issued'[c] = issued[c]
  <2>1. issued[k] + minted \in Nat /\ issued' = [issued EXCEPT ![k] = issued[k] + minted]
    BY <1>1, <1>2
  <2> QED BY <1>1, <2>1
<1>9. SumOf(issued') = SumOf(issued) + minted
  BY ONLY <1>2, <1>8, SumCards, k \in Card
<1>10. \A c \in Card : balance'[c] \in Nat /\ (issued'[c] = 0 => balance'[c] = 0)
  <2> SUFFICES ASSUME NEW c \in Card
               PROVE  balance'[c] \in Nat /\ (issued'[c] = 0 => balance'[c] = 0)
    OBVIOUS
  <2>1. balance'[c] \in Nat
    BY <1>2, <1>3, <1>5
  <2>2. ASSUME issued'[c] = 0 PROVE balance'[c] = 0
    <3>1. issued[c] = 0 /\ (c = k => minted = 0)
      BY <1>1, <1>8, <2>2
    <3>2. balance[c] = 0 /\ (c = g => charged = 0)
      BY <1>1, <3>1 DEF Fresh
    <3>3. b[c] = 0
      BY <1>2, <1>3, <3>2
    <3> QED BY <1>5, <3>1, <3>3
  <2> QED BY <2>1, <2>2
<1>11. CardsTyped'
  <2>1. balance' = [c \in Card |-> balance'[c]]
    OBVIOUS
  <2>2. balance' \in [Card -> Nat]
    BY <1>10, <2>1
  <2> QED BY <1>8, <1>10, <2>2 DEF CardsTyped, Fresh
<1> QED BY <1>4, <1>7, <1>9, <1>11

\* A draft that nobody paid yet.
LEMMA DraftRow ==
  ASSUME NEW r, DOMAIN r = OrderFields, r.state = "draft", r.lines \in Seq(Int), r.pays = <<>>,
         r.total \in Int, r.gift = 0, r.effects = 0, r.earned = 0, r.sells \in Nat,
         r.vouchers \in Nat, r.coupons = 0, r.tries = 0,
         r.torn = TRUE \/ r.total = SumOf(r.lines)
  PROVE  SaleRow(r)
<1>1. <<>> \in Seq(Int)
  OBVIOUS
<1>2. ~r.torn => r.total = SumOf(r.lines)
  BY Zenon
<1> QED BY <1>1, <1>2 DEF SaleRow

LEMMA AfterEffectsKeep ==
  ASSUME SaleInv, NEW o \in Order, Unknown(o), NEW rec, SaleRow(rec), rec.state = "paid",
         rec.earned = 0, rec.coupons = 0, NEW done \in 0 .. 3, NEW g \in Card, NEW k \in Card,
         rec.gift <= balance[g], rec.gift > 0 => ~Fresh(g), AfterEffects(o, rec, done, g, k),
         UNCHANGED <<redeemed, coupon>>, held' \in Nat, rec.vouchers + held' <= held
  PROVE  SaleInv'
<1> DEFINE charged == IF done >= 1 THEN rec.gift ELSE 0
           minted == IF done >= 2 THEN rec.sells ELSE 0
           earns == IF done >= 3 /\ rec.member /\ rec.total > 0 THEN rec.total ELSE 0
           r == Noted(rec, done, minted, earns)
<1>1. /\ minted > 0 => Fresh(k)
      /\ order' = [order EXCEPT ![o] = r]
      /\ balance' = [c \in Card |-> balance[c] - (IF c = g THEN charged ELSE 0)
                                               + (IF c = k THEN minted ELSE 0)]
      /\ issued' = [issued EXCEPT ![k] = @ + minted]
      /\ points' = points + earns
  BY DEF AfterEffects, Noted
<1>2. /\ rec.gift \in Nat /\ rec.sells \in Nat /\ rec.total \in Int /\ rec.vouchers \in Nat
      /\ done \in Nat
  BY DEF SaleRow
<1>3. /\ charged \in Nat /\ minted \in Nat /\ earns \in Nat /\ charged <= rec.gift
  BY <1>2
<1>4. /\ OrdersAddUp /\ CardsTyped /\ CardsBalance /\ RewardsTyped /\ RewardsSpent
      /\ balance[g] \in Nat /\ SaleRow(order[o])
  BY DEF SaleInv, CardsTyped, OrdersAddUp
<1> HIDE DEF minted, earns
<1>5. SaleRow(r) /\ r.vouchers = rec.vouchers /\ r.coupons = 0 /\ ChargedOf(r) = charged
  BY <1>2, EffectsRow DEF charged
<1> HIDE DEF r, charged
<1>6. /\ OrdersAddUp'
      /\ SumOf(ChargedBy') = (SumOf(ChargedBy) - ChargedOf(order[o])) + charged
      /\ SumOf(VouchersOf') = (SumOf(VouchersOf) - order[o].vouchers) + rec.vouchers
      /\ SumOf(CouponsOf') = (SumOf(CouponsOf) - order[o].coupons) + 0
      /\ SumOf(ChargedBy) \in Int /\ SumOf(VouchersOf) \in Int /\ SumOf(CouponsOf) \in Int
  BY <1>1, <1>4, <1>5, OrderReplaced
<1>7. ChargedOf(order[o]) = 0 /\ order[o].vouchers \in Nat /\ order[o].coupons \in Nat
  BY <1>4 DEF SaleRow, ChargedOf, Unknown
<1>8. charged <= balance[g] /\ (charged > 0 => ~Fresh(g))
  BY <1>2, <1>3, <1>4
<1>9. /\ CardsTyped'
      /\ SumOf(balance') = (SumOf(balance) - charged) + minted
      /\ SumOf(issued') = SumOf(issued) + minted
  BY ONLY <1>1, <1>3, <1>4, <1>8, CardsMove, g \in Card, k \in Card
<1>10. SumOf(balance) \in Int /\ SumOf(issued) \in Int
  BY <1>4, CardsType
<1>11. CardsBalance'
  BY <1>3, <1>4, <1>6, <1>7, <1>9, <1>10 DEF CardsBalance
<1>12. RewardsTyped'
  BY <1>1, <1>3, <1>4 DEF RewardsTyped
<1>13. RewardsSpent'
  <2>1. /\ held \in Nat /\ redeemed \in Nat /\ coupon \in Nat
        /\ SumOf(VouchersOf) + held <= redeemed /\ SumOf(CouponsOf) + coupon <= 1
    BY <1>4 DEF RewardsTyped, RewardsSpent
  <2>2. SumOf(VouchersOf') + held' <= redeemed
    BY <1>2, <1>6, <1>7, <2>1
  <2>3. SumOf(CouponsOf') + coupon <= 1
    BY <1>6, <1>7, <2>1
  <2> QED BY <2>2, <2>3 DEF RewardsSpent
<1> QED BY <1>6, <1>9, <1>11, <1>12, <1>13 DEF SaleInv

LEMMA SellDirectKeeps ==
  ASSUME SaleInv, NEW o \in Order, NEW c \in Carts, NEW sent \in Tenders, NEW g \in Card,
         NEW ask \in 0 .. IssueAmount, NEW m \in BOOLEAN, SellDirect(o, c, sent, g, ask, m)
  PROVE  SaleInv'
<1> DEFINE total == SumOf(PlainLines(c))
           applied == IF ask = 0 THEN 0 ELSE Applied(g, ask, total)
           pays == Payments(total - applied, sent)
           rec == [NoOrder EXCEPT !.state = "paid", !.lines = PlainLines(c), !.total = total,
                                  !.pays = pays, !.gift = applied, !.sells = c.card, !.member = m]
<1>1. /\ Unknown(o) /\ UNCHANGED <<redeemed, held, coupon>>
      /\ ask > 0 => applied > 0 /\ ~Fresh(g)
      /\ \E done \in 0 .. 3, k \in Card : AfterEffects(o, rec, done, g, k)
  BY DEF SellDirect
<1>2. /\ total \in Nat /\ PlainLines(c) \in Seq(Int) /\ c.card \in Nat /\ balance[g] \in Nat
      /\ held \in Nat /\ ask \in Nat
  BY SaleAssumption, PlainTyped, CartTyped DEF SaleInv, CardsTyped, RewardsTyped
<1>3. applied \in Nat /\ applied <= total /\ applied <= balance[g] /\ (applied > 0 => ~Fresh(g))
  <2>1. CASE ask = 0
    BY <1>2, <2>1
  <2>2. CASE ask # 0
    <3> HIDE DEF total
    <3> DEFINE S == {ask, balance[g], total}
    <3>1. \A x, y \in S : x \in Nat /\ (x <= y \/ y <= x)
      BY <1>2
    <3>2. \E x \in S : \A y \in S : x <= y
      <4>1. CASE ask <= balance[g] /\ ask <= total
        BY <1>2, <4>1
      <4>2. CASE balance[g] <= ask /\ balance[g] <= total
        BY <1>2, <4>2
      <4>3. CASE total <= balance[g] /\ total <= ask
        BY <1>2, <4>3
      <4> QED BY <1>2, <4>1, <4>2, <4>3
    <3>3. applied = Min(S)
      BY <2>2 DEF Applied
    <3> HIDE DEF S
    <3>4. Min(S) \in S /\ \A y \in S : Min(S) <= y
      BY <3>2 DEF Min
    <3>5. applied \in S /\ \A y \in S : applied <= y
      BY <3>3, <3>4
    <3> USE DEF S
    <3>6. ask \in S /\ balance[g] \in S /\ total \in S
      OBVIOUS
    <3> HIDE DEF S, applied
    <3> QED BY <1>1, <1>2, <2>2, <3>1, <3>5, <3>6
  <2> QED BY <2>1, <2>2
<1> HIDE DEF total, applied
<1>4. total - applied \in Nat
  BY <1>2, <1>3
<1>5. pays \in Seq(Int) /\ SumOf(pays) = total - applied
  BY <1>4, PaymentsAddUpTo
<1> HIDE DEF pays
<1>6. /\ DOMAIN rec = OrderFields /\ rec.state = "paid" /\ rec.lines = PlainLines(c)
      /\ rec.total = total /\ rec.pays = pays /\ rec.gift = applied /\ rec.sells = c.card
      /\ rec.effects = 0 /\ rec.earned = 0 /\ rec.vouchers = 0 /\ rec.coupons = 0
      /\ rec.tries = 0 /\ rec.torn = FALSE
  BY DEF NoOrder, OrderFields
<1> HIDE DEF rec
<1>7. SumOf(rec.pays) + rec.gift = rec.total
  BY <1>2, <1>3, <1>5, <1>6
<1>8. rec.total = SumOf(rec.lines)
  BY <1>6 DEF total
<1>9. SaleRow(rec)
  BY <1>2, <1>3, <1>5, <1>6, <1>7, <1>8 DEF SaleRow
<1>10. PICK done \in 0 .. 3, k \in Card : AfterEffects(o, rec, done, g, k)
  BY <1>1
<1> QED BY <1>1, <1>2, <1>3, <1>6, <1>9, <1>10, AfterEffectsKeep

\* A draft in the place of an order that was not known.
LEMMA DraftKeeps ==
  ASSUME SaleInv, NEW o \in Order, Unknown(o), NEW r, SaleRow(r), r.gift = 0, r.coupons = 0,
         order' = [order EXCEPT ![o] = r], UNCHANGED <<balance, issued, redeemed, points, coupon>>,
         held' \in Nat, r.vouchers + held' <= held
  PROVE  SaleInv'
<1>1. /\ SaleRow(order[o]) /\ points' \in Nat /\ coupon' \in Nat /\ held \in Nat
  BY DEF SaleInv, OrdersAddUp, RewardsTyped
<1>2. ChargedOf(order[o]) = 0 /\ ChargedOf(r) = 0
  BY <1>1 DEF ChargedOf, SaleRow, Unknown
<1>3. order[o].vouchers \in Nat /\ order[o].coupons \in Nat /\ r.vouchers \in Nat
  BY <1>1 DEF SaleRow
<1>4. r.vouchers + held' <= order[o].vouchers + held
  BY <1>1, <1>3
<1>5. r.coupons + coupon' <= order[o].coupons + coupon
  BY <1>1, <1>3
<1> QED BY <1>1, <1>2, <1>4, <1>5, OrderSteps
\* A combo, or a reward: whatever was reached, the draft or the sale adds up.
LEMMA SellGraftedKeeps ==
  ASSUME SaleInv, NEW o \in Order, NEW c \in Carts, NEW v \in 0 .. 1, NEW m \in BOOLEAN,
         SellGrafted(o, c, v, m)
  PROVE  SaleInv'
<1> DEFINE plain == PlainLines(c)
           whole == plain \o ComboLines(c)
           lines == IF v = 1 THEN Append(whole, -Worth) ELSE whole
           draft == [NoOrder EXCEPT !.state = "draft", !.lines = plain, !.total = SumOf(plain),
                                    !.member = m, !.sells = c.card]
           sold == [draft EXCEPT !.state = "paid", !.lines = lines, !.total = SumOf(lines),
                                 !.pays = <<SumOf(lines)>>, !.vouchers = v]
           bare == [draft EXCEPT !.lines = whole, !.torn = TRUE]
           late == [sold EXCEPT !.state = "draft", !.total = SumOf(plain), !.pays = <<>>,
                                !.torn = TRUE]
           due == [sold EXCEPT !.state = "draft", !.pays = <<>>]
<1>1. /\ Unknown(o) /\ v <= held /\ held' = held - v /\ UNCHANGED <<redeemed, coupon>>
      /\ \/ \E done \in 1 .. 3, k \in Card : AfterEffects(o, sold, done, k, k)
         \/ /\ \E rec \in {draft, bare, late, due} : order' = [order EXCEPT ![o] = rec]
            /\ UNCHANGED <<balance, issued, points>>
  BY DEF SellGrafted
<1>2. plain \in Seq(Int) /\ whole \in Seq(Int) /\ lines \in Seq(Int) /\ <<>> \in Seq(Int)
  <2>1. plain \in Seq(Int) /\ ComboLines(c) \in Seq(Int) /\ -Worth \in Int
    BY PlainTyped, ComboTyped, SaleAssumption
  <2> HIDE DEF plain
  <2>2. whole \in Seq(Int) /\ <<>> \in Seq(Int)
    BY <2>1
  <2> HIDE DEF whole
  <2> QED BY <2>1, <2>2
<1> HIDE DEF plain, whole, lines
<1>3. /\ SumOf(plain) \in Int /\ SumOf(lines) \in Int /\ c.card \in Nat /\ v \in Nat /\ 0 \in Nat
      /\ held \in Nat /\ held - v \in Nat
  BY <1>1, <1>2, SeqSumInt, CartTyped DEF SaleInv, RewardsTyped
<1>4. /\ <<SumOf(lines)>> \in Seq(Int) /\ SumOf(<<SumOf(lines)>>) = SumOf(lines)
  BY <1>3, OneSum
<1>5. /\ DOMAIN draft = OrderFields /\ draft.state = "draft" /\ draft.lines = plain
      /\ draft.pays = <<>> /\ draft.total = SumOf(plain) /\ draft.gift = 0 /\ draft.effects = 0
      /\ draft.earned = 0 /\ draft.sells = c.card /\ draft.vouchers = 0 /\ draft.coupons = 0
      /\ draft.tries = 0 /\ draft.torn = FALSE
  BY DEF NoOrder, OrderFields
<1>6. /\ DOMAIN bare = OrderFields /\ bare.state = "draft" /\ bare.lines = whole
      /\ bare.pays = <<>> /\ bare.total = SumOf(plain) /\ bare.gift = 0 /\ bare.effects = 0
      /\ bare.earned = 0 /\ bare.sells = c.card /\ bare.vouchers = 0 /\ bare.coupons = 0
      /\ bare.tries = 0 /\ bare.torn = TRUE
  <2> HIDE DEF draft
  <2> QED BY <1>5 DEF OrderFields
<1>7. /\ DOMAIN sold = OrderFields /\ sold.state = "paid" /\ sold.lines = lines
      /\ sold.pays = <<SumOf(lines)>> /\ sold.total = SumOf(lines) /\ sold.gift = 0
      /\ sold.effects = 0 /\ sold.earned = 0 /\ sold.sells = c.card /\ sold.vouchers = v
      /\ sold.coupons = 0 /\ sold.tries = 0 /\ sold.torn = FALSE
  <2> HIDE DEF draft
  <2> QED BY <1>5 DEF OrderFields
<1>8. /\ DOMAIN late = OrderFields /\ late.state = "draft" /\ late.lines = lines
      /\ late.pays = <<>> /\ late.total = SumOf(plain) /\ late.gift = 0 /\ late.effects = 0
      /\ late.earned = 0 /\ late.sells = c.card /\ late.vouchers = v /\ late.coupons = 0
      /\ late.tries = 0 /\ late.torn = TRUE
  <2> HIDE DEF draft, sold
  <2> QED BY <1>7 DEF OrderFields
<1>9. /\ DOMAIN due = OrderFields /\ due.state = "draft" /\ due.lines = lines
      /\ due.pays = <<>> /\ due.total = SumOf(lines) /\ due.gift = 0 /\ due.effects = 0
      /\ due.earned = 0 /\ due.sells = c.card /\ due.vouchers = v /\ due.coupons = 0
      /\ due.tries = 0 /\ due.torn = FALSE
  <2> HIDE DEF draft, sold
  <2> QED BY <1>7 DEF OrderFields
<1> HIDE DEF draft, sold, bare, late, due
<1>10. SaleRow(sold)
  <2>1. SumOf(sold.pays) + sold.gift = sold.total
    BY <1>3, <1>4, <1>7
  <2> QED BY <1>2, <1>3, <1>4, <1>7, <2>1 DEF SaleRow
<1>11. SaleRow(draft) /\ SaleRow(bare) /\ SaleRow(late) /\ SaleRow(due)
  <2>1. SaleRow(draft)
    BY ONLY <1>2, <1>3, <1>5, DraftRow
  <2>2. SaleRow(bare)
    BY ONLY <1>2, <1>3, <1>6, DraftRow
  <2>3. SaleRow(late)
    BY ONLY <1>2, <1>3, <1>8, DraftRow
  <2>4. SaleRow(due)
    BY ONLY <1>2, <1>3, <1>9, DraftRow
  <2> QED BY <2>1, <2>2, <2>3, <2>4
<1>12. CASE \E done \in 1 .. 3, k \in Card : AfterEffects(o, sold, done, k, k)
  <2>1. PICK done \in 1 .. 3, k \in Card : AfterEffects(o, sold, done, k, k)
    BY <1>12
  <2>2. done \in 0 .. 3 /\ sold.gift <= balance[k] /\ ~(sold.gift > 0)
    BY <1>7 DEF SaleInv, CardsTyped
  <2>3. held' \in Nat /\ sold.vouchers + held' <= held
    BY <1>1, <1>3, <1>7
  <2> QED BY <1>1, <1>7, <1>10, <2>1, <2>2, <2>3, AfterEffectsKeep
<1>13. CASE /\ \E rec \in {draft, bare, late, due} : order' = [order EXCEPT ![o] = rec]
            /\ UNCHANGED <<balance, issued, points>>
  <2>1. PICK rec \in {draft, bare, late, due} : order' = [order EXCEPT ![o] = rec]
    BY <1>13
  <2>2. SaleRow(rec) /\ rec.gift = 0 /\ rec.coupons = 0 /\ (rec.vouchers = 0 \/ rec.vouchers = v)
    BY <1>5, <1>6, <1>8, <1>9, <1>11
  <2>3. held' \in Nat /\ rec.vouchers + held' <= held
    BY <1>1, <1>3, <2>2
  <2> QED BY <1>1, <1>13, <2>1, <2>2, <2>3, DraftKeeps
<1> QED BY <1>1, <1>12, <1>13

LEMMA SellDraftKeeps ==
  ASSUME SaleInv, NEW o \in Order, NEW c \in Carts, NEW m \in BOOLEAN, SellDraft(o, c, m)
  PROVE  SaleInv'
<1> DEFINE rec == [NoOrder EXCEPT !.state = "draft", !.lines = PlainLines(c),
                                  !.total = SumOf(PlainLines(c)), !.sells = c.card, !.member = m]
<1>1. /\ Unknown(o) /\ order' = [order EXCEPT ![o] = rec]
      /\ UNCHANGED <<balance, issued, redeemed, points, coupon, held>>
  BY DEF SellDraft
<1>2. /\ PlainLines(c) \in Seq(Int) /\ SumOf(PlainLines(c)) \in Int /\ c.card \in Nat
      /\ <<>> \in Seq(Int) /\ held \in Nat /\ 0 \in Nat
  BY PlainTyped, CartTyped DEF SaleInv, RewardsTyped
<1>3. /\ DOMAIN rec = OrderFields /\ rec.state = "draft" /\ rec.lines = PlainLines(c)
      /\ rec.pays = <<>> /\ rec.total = SumOf(PlainLines(c)) /\ rec.gift = 0 /\ rec.effects = 0
      /\ rec.earned = 0 /\ rec.sells = c.card /\ rec.vouchers = 0 /\ rec.coupons = 0
      /\ rec.tries = 0 /\ rec.torn = FALSE
  BY DEF NoOrder, OrderFields
<1> HIDE DEF rec
<1>4. SaleRow(rec)
  BY ONLY <1>2, <1>3, DraftRow
<1>5. held' \in Nat /\ rec.vouchers + held' <= held
  BY <1>1, <1>2, <1>3
<1>6. rec.gift = 0 /\ rec.coupons = 0
  BY <1>3
<1> QED BY <1>1, <1>4, <1>5, <1>6, DraftKeeps

LEMMA SellKeeps == ASSUME SaleInv, NEW o \in Order, Sell(o) PROVE SaleInv'
<1>1. PICK c \in Carts, m \in BOOLEAN :
        \/ \E sent \in Tenders, g \in Card, ask \in 0 .. IssueAmount :
             SellDirect(o, c, sent, g, ask, m)
        \/ \E v \in 0 .. 1 : SellGrafted(o, c, v, m)
        \/ SellDraft(o, c, m)
  BY DEF Sell
<1>2. CASE \E sent \in Tenders, g \in Card, ask \in 0 .. IssueAmount :
             SellDirect(o, c, sent, g, ask, m)
  BY <1>2, SellDirectKeeps
<1>3. CASE \E v \in 0 .. 1 : SellGrafted(o, c, v, m)
  BY <1>3, SellGraftedKeeps
<1>4. CASE SellDraft(o, c, m)
  BY <1>4, SellDraftKeeps
<1> QED BY <1>1, <1>2, <1>3, <1>4
\* The balance of a draft is paid: its payments then make up its total.
LEMMA PayDraftKeeps == ASSUME SaleInv, NEW o \in Order, PayDraft(o) PROVE SaleInv'
<1> DEFINE old == order[o]
           owed == old.total - SumOf(old.pays)
           rec == [old EXCEPT !.state = "paid", !.pays = Append(@, owed)]
           earns == old.member /\ old.total > 0
           told == [rec EXCEPT !.effects = 3, !.earned = IF earns THEN @ + 1 ELSE @]
<1>1. /\ old.state = "draft" /\ UNCHANGED <<balance, issued, redeemed, held, coupon>>
      /\ \/ /\ order' = [order EXCEPT ![o] = told]
            /\ points' = IF earns THEN points + old.total ELSE points
         \/ order' = [order EXCEPT ![o] = rec] /\ UNCHANGED points
  BY DEF PayDraft
<1>2. SaleRow(old) /\ points \in Nat /\ held \in Nat /\ coupon \in Nat
  BY DEF SaleInv, OrdersAddUp, RewardsTyped
<1> HIDE DEF old
<1>3. /\ DOMAIN old = OrderFields /\ old.lines \in Seq(Int) /\ old.pays \in Seq(Int)
      /\ old.total \in Int /\ old.gift = 0 /\ old.earned = 0 /\ old.vouchers \in Nat
      /\ old.coupons \in Nat
  BY <1>1, <1>2 DEF SaleRow
<1>4. /\ owed \in Int /\ Append(old.pays, owed) \in Seq(Int)
      /\ SumOf(Append(old.pays, owed)) = old.total
  <2>1. SumOf(old.pays) \in Int
    BY <1>3, SeqSumInt
  <2>2. owed \in Int
    BY <1>3, <2>1
  <2>3. SumOf(Append(old.pays, owed)) = SumOf(old.pays) + owed
    BY <1>3, <2>2, AppendSum
  <2> QED BY <1>3, <2>1, <2>2, <2>3
<1> HIDE DEF owed
<1>5. /\ DOMAIN rec = OrderFields /\ rec.state = "paid" /\ rec.lines = old.lines
      /\ rec.pays = Append(old.pays, owed) /\ rec.total = old.total /\ rec.gift = old.gift
      /\ rec.effects = old.effects /\ rec.earned = old.earned /\ rec.sells = old.sells
      /\ rec.vouchers = old.vouchers /\ rec.coupons = old.coupons /\ rec.tries = old.tries
      /\ rec.torn = old.torn
  BY <1>3 DEF OrderFields
<1> HIDE DEF rec
<1>6. /\ DOMAIN told = OrderFields /\ told.state = "paid" /\ told.lines = old.lines
      /\ told.pays = rec.pays /\ told.total = old.total /\ told.gift = old.gift
      /\ told.effects = 3 /\ (told.earned = 0 \/ told.earned = 1) /\ told.sells = old.sells
      /\ told.vouchers = old.vouchers /\ told.coupons = old.coupons /\ told.tries = old.tries
      /\ told.torn = old.torn
  <2> HIDE DEF earns
  <2> QED BY <1>3, <1>5 DEF OrderFields
<1>7. earns => old.total \in Nat
  BY <1>3
<1> HIDE DEF told, earns
<1>8. SumOf(rec.pays) + rec.gift = rec.total
  BY <1>3, <1>4, <1>5
<1>9. SaleRow(rec) /\ ChargedOf(rec) = ChargedOf(old)
  <2>1. SaleRow(rec)
    BY <1>2, <1>3, <1>4, <1>5, <1>8 DEF SaleRow
  <2> QED BY <1>3, <1>5, <2>1 DEF ChargedOf
<1>10. SaleRow(told) /\ ChargedOf(told) = ChargedOf(old)
  <2>1. SaleRow(told)
    BY <1>2, <1>3, <1>4, <1>5, <1>6, <1>8 DEF SaleRow
  <2> QED BY <1>3, <1>6, <2>1 DEF ChargedOf
<1>11. PICK r \in {rec, told} : order' = [order EXCEPT ![o] = r]
  BY <1>1
<1>12. points' \in Nat
  BY <1>1, <1>2, <1>7
<1>13. /\ SaleRow(r) /\ ChargedOf(r) = ChargedOf(order[o])
       /\ r.vouchers + held' <= order[o].vouchers + held
       /\ r.coupons + coupon' <= order[o].coupons + coupon
  BY <1>1, <1>2, <1>3, <1>5, <1>6, <1>9, <1>10 DEF old
<1> QED BY <1>1, <1>2, <1>11, <1>12, <1>13, OrderSteps

LEMMA PlacePickupKeeps ==
  ASSUME SaleInv, NEW o \in Order, NEW c \in Carts, NEW want \in 0 .. 1, PlacePickup(o, c, want)
  PROVE  SaleInv'
<1> DEFINE old == order[o]
           base == IF old.fired THEN old.lines ELSE old.lines \o PlainLines(c)
           fired == [old EXCEPT !.state = IF @ = "none" THEN "draft" ELSE @, !.lines = base,
                                !.total = IF old.fired THEN @ ELSE SumOf(base), !.tries = @ + 1]
           told == [fired EXCEPT !.fired = TRUE]
           promos == [i \in 1 .. (1 + want) |-> -PromoWorth]
           lines == base \o promos
           grafted == [fired EXCEPT !.fired = TRUE, !.lines = lines, !.coupons = @ + want]
           bare == [grafted EXCEPT !.torn = TRUE]
           whole == [grafted EXCEPT !.total = SumOf(lines)]
<1>1. /\ Unknown(o) \/ old.tries \in 1 .. (MaxTries - 1)
      /\ old.fired \/ old.state # "paid"
      /\ want = 1 => coupon > 0
      /\ \/ /\ \E rec \in {fired, told} : order' = [order EXCEPT ![o] = rec]
            /\ UNCHANGED coupon
         \/ /\ \E rec \in {bare, whole} : order' = [order EXCEPT ![o] = rec]
            /\ coupon' = coupon - want
      /\ UNCHANGED <<balance, issued, points, redeemed, held>>
  BY DEF PlacePickup, CouponGood
<1>2. SaleRow(old) /\ points \in Nat /\ held \in Nat /\ coupon \in Nat
  BY DEF SaleInv, OrdersAddUp, RewardsTyped
<1>3. old.state = "paid" => old.tries >= 1
  BY <1>1 DEF Unknown
<1> HIDE DEF old
<1>4. /\ DOMAIN old = OrderFields /\ old.lines \in Seq(Int) /\ old.tries \in Nat
      /\ old.vouchers \in Nat /\ old.coupons \in Nat /\ want \in Nat
  BY <1>2 DEF SaleRow
<1>5. base \in Seq(Int) /\ lines \in Seq(Int)
  <2>1. PlainLines(c) \in Seq(Int)
    BY PlainTyped
  <2>2. base \in Seq(Int)
    BY <1>4, <2>1
  <2>3. -PromoWorth \in Int /\ 1 + want \in Nat
    BY <1>4, SaleAssumption
  <2>4. promos \in Seq(Int)
    BY <2>3
  <2> HIDE DEF base, promos
  <2> QED BY <2>2, <2>4
<1>6. ~old.fired => base = old.lines \o PlainLines(c)
  OBVIOUS
<1>7. old.fired => base = old.lines
  OBVIOUS
<1> HIDE DEF base, lines
<1>8. SumOf(base) \in Int /\ SumOf(lines) \in Int
  BY <1>5, SeqSumInt
<1>9. /\ DOMAIN fired = OrderFields
      /\ fired.state = (IF old.state = "none" THEN "draft" ELSE old.state) /\ fired.lines = base
      /\ fired.pays = old.pays /\ fired.total = (IF old.fired THEN old.total ELSE SumOf(base))
      /\ fired.gift = old.gift /\ fired.effects = old.effects /\ fired.earned = old.earned
      /\ fired.sells = old.sells /\ fired.vouchers = old.vouchers /\ fired.coupons = old.coupons
      /\ fired.tries = old.tries + 1 /\ fired.torn = old.torn
  BY <1>4 DEF OrderFields
<1>10. SaleRow(fired)
  <2>1. fired.state = "paid" => fired.tries > 1
    BY <1>3, <1>4, <1>9
  <2>2. ~fired.torn /\ fired.tries <= 1 => fired.total = SumOf(fired.lines)
    <3>1. old.tries <= 1
          => (~old.torn => old.total = SumOf(old.lines))
      BY <1>2 DEF SaleRow
    <3>2. fired.tries <= 1 => old.tries <= 1
      BY <1>4, <1>9
    <3> QED BY <1>7, <1>9, <3>1, <3>2
  <2>3. /\ fired.state \in {"none", "draft", "paid"} /\ fired.total \in Int
        /\ fired.state # "paid" => fired.gift = 0 /\ fired.earned = 0
        /\ fired.tries \in Nat
    <3>1. /\ old.state \in {"none", "draft", "paid"} /\ old.total \in Int
          /\ (old.state # "paid" => old.gift = 0 /\ old.earned = 0)
      BY <1>2 DEF SaleRow
    <3> QED BY ONLY <1>4, <1>8, <1>9, <3>1
  <2>4. ~(fired.state = "paid" /\ fired.tries <= 1)
    BY <1>4, <1>9, <2>1
  <2> QED BY <1>2, <1>5, <1>9, <2>2, <2>3, <2>4 DEF SaleRow
<1>11. fired.state = "paid" => ~(fired.tries <= 1)
  BY <1>3, <1>4, <1>9
<1> HIDE DEF fired
<1>12. /\ DOMAIN told = OrderFields /\ told.state = fired.state /\ told.lines = fired.lines
       /\ told.pays = fired.pays /\ told.total = fired.total /\ told.gift = fired.gift
       /\ told.effects = fired.effects /\ told.earned = fired.earned /\ told.sells = fired.sells
       /\ told.vouchers = fired.vouchers /\ told.coupons = fired.coupons
       /\ told.tries = fired.tries /\ told.torn = fired.torn
  BY <1>9 DEF OrderFields
<1>13. /\ DOMAIN grafted = OrderFields /\ grafted.state = fired.state /\ grafted.lines = lines
       /\ grafted.pays = fired.pays /\ grafted.total = fired.total /\ grafted.gift = fired.gift
       /\ grafted.effects = fired.effects /\ grafted.earned = fired.earned
       /\ grafted.sells = fired.sells /\ grafted.vouchers = fired.vouchers
       /\ grafted.coupons = fired.coupons + want
       /\ grafted.tries = fired.tries /\ grafted.torn = fired.torn
  BY <1>9 DEF OrderFields
<1> HIDE DEF told, grafted
<1>14. /\ DOMAIN bare = OrderFields /\ bare.state = fired.state /\ bare.lines = lines
       /\ bare.pays = fired.pays /\ bare.total = fired.total /\ bare.gift = fired.gift
       /\ bare.effects = fired.effects /\ bare.earned = fired.earned /\ bare.sells = fired.sells
       /\ bare.vouchers = fired.vouchers /\ bare.coupons = fired.coupons + want
       /\ bare.tries = fired.tries /\ bare.torn = TRUE
  BY <1>13 DEF OrderFields
<1>15. /\ DOMAIN whole = OrderFields /\ whole.state = fired.state /\ whole.lines = lines
       /\ whole.pays = fired.pays /\ whole.total = SumOf(lines) /\ whole.gift = fired.gift
       /\ whole.effects = fired.effects /\ whole.earned = fired.earned
       /\ whole.sells = fired.sells /\ whole.vouchers = fired.vouchers
       /\ whole.coupons = fired.coupons + want
       /\ whole.tries = fired.tries /\ whole.torn = fired.torn
  BY <1>13 DEF OrderFields
<1> HIDE DEF bare, whole
<1>16. fired.coupons + want \in Nat
  BY <1>4, <1>9
<1>17. SaleRow(told) /\ SaleRow(bare) /\ SaleRow(whole)
  <2>1. SaleRow(told)
    BY <1>10, <1>12 DEF SaleRow
  <2>2. SaleRow(bare)
    BY <1>5, <1>10, <1>11, <1>14, <1>16 DEF SaleRow
  <2>3. SaleRow(whole)
    BY <1>5, <1>8, <1>10, <1>11, <1>15, <1>16 DEF SaleRow
  <2> QED BY <2>1, <2>2, <2>3
<1>18. CASE /\ \E rec \in {fired, told} : order' = [order EXCEPT ![o] = rec]
            /\ UNCHANGED coupon
  <2>1. PICK r \in {fired, told} : order' = [order EXCEPT ![o] = r]
    BY <1>18
  <2>2. SaleRow(r) /\ r.gift = old.gift /\ r.effects = old.effects
        /\ r.vouchers = old.vouchers /\ r.coupons = old.coupons
    BY <1>9, <1>10, <1>12, <1>17
  <2>3. ChargedOf(r) = ChargedOf(order[o])
    BY <2>2 DEF ChargedOf, old
  <2>4. /\ r.vouchers + held' <= order[o].vouchers + held
        /\ r.coupons + coupon' <= order[o].coupons + coupon
    BY <1>1, <1>2, <1>4, <1>18, <2>2 DEF old
  <2> QED BY <1>1, <1>2, <1>18, <2>1, <2>2, <2>3, <2>4, OrderSteps
<1>19. CASE /\ \E rec \in {bare, whole} : order' = [order EXCEPT ![o] = rec]
            /\ coupon' = coupon - want
  <2>1. PICK r \in {bare, whole} : order' = [order EXCEPT ![o] = r]
    BY <1>19
  <2>2. SaleRow(r) /\ r.gift = old.gift /\ r.effects = old.effects
        /\ r.vouchers = old.vouchers /\ r.coupons = old.coupons + want
    BY <1>9, <1>14, <1>15, <1>17
  <2>3. ChargedOf(r) = ChargedOf(order[o])
    BY <2>2 DEF ChargedOf, old
  <2>4. coupon' \in Nat
    BY <1>1, <1>2, <1>4, <1>19
  <2>5. /\ r.vouchers + held' <= order[o].vouchers + held
        /\ r.coupons + coupon' <= order[o].coupons + coupon
    BY <1>1, <1>2, <1>4, <1>19, <2>2 DEF old
  <2>6. UNCHANGED <<balance, issued, redeemed>> /\ points' \in Nat /\ held' \in Nat
    BY <1>1, <1>2
  <2> QED BY <2>1, <2>2, <2>3, <2>4, <2>5, <2>6, OrderSteps
<1> QED BY <1>1, <1>18, <1>19
LEMMA IssueKeeps == ASSUME SaleInv, NEW k \in Card, Issue(k) PROVE SaleInv'
<1>1. /\ CardsTyped /\ issued[k] = 0 /\ issued' = [issued EXCEPT ![k] = IssueAmount]
      /\ balance' = [balance EXCEPT ![k] = IssueAmount] /\ IssueAmount \in Nat
      /\ UNCHANGED <<order, points, redeemed, held, coupon>>
  BY SaleAssumption DEF Issue, Fresh, SaleInv
<1>2. /\ balance \in [Card -> Nat] /\ issued \in [Card -> Nat] /\ balance[k] = 0
      /\ \A c \in Card : issued[c] = 0 => balance[c] = 0
  BY <1>1 DEF CardsTyped, Fresh
<1>3. /\ balance \in [Card -> Int] /\ balance' \in [Card -> Int] /\ balance' \in [Card -> Nat]
      /\ balance'[k] = balance[k] + IssueAmount
      /\ \A c \in Card : c # k => balance'[c] = balance[c]
  BY <1>1, <1>2
<1>4. /\ issued \in [Card -> Int] /\ issued' \in [Card -> Int] /\ issued' \in [Card -> Nat]
      /\ issued'[k] = issued[k] + IssueAmount
      /\ \A c \in Card : c # k => issued'[c] = issued[c]
  BY <1>1, <1>2
<1>5. IssueAmount \in Int
  BY <1>1
<1>6. SumOf(balance') = SumOf(balance) + IssueAmount /\ SumOf(balance) \in Int
  BY ONLY <1>3, <1>5, SumCards, k \in Card
<1>7. SumOf(issued') = SumOf(issued) + IssueAmount /\ SumOf(issued) \in Int
  BY ONLY <1>4, <1>5, SumCards, k \in Card
<1>8. CardsTyped'
  <2>1. ASSUME NEW c \in Card, issued'[c] = 0 PROVE balance'[c] = 0
    <3>1. CASE c = k
      BY <1>1, <1>2, <1>3, <1>4, <2>1, <3>1
    <3>2. CASE c # k
      BY <1>2, <1>3, <1>4, <2>1, <3>2
    <3> QED BY <3>1, <3>2
  <2> QED BY <1>3, <1>4, <2>1 DEF CardsTyped, Fresh
<1>9. CardsBalance'
  <2>1. ChargedBy' = ChargedBy
    BY <1>1 DEF ChargedBy
  <2>2. SumOf(ChargedBy) \in Int
    <3>1. /\ DOMAIN ChargedBy = Order
          /\ \A o \in Order : ChargedBy[o] = ChargedOf(order[o]) /\ SaleRow(order[o])
      BY DEF ChargedBy, SaleInv, OrdersAddUp
    <3>2. \A o \in Order : ChargedBy[o] \in Int
      BY <3>1 DEF ChargedOf, SaleRow
    <3> QED BY <3>1, <3>2, SumInt, SumOfIs, SaleAssumption
  <2> QED BY <1>5, <1>6, <1>7, <2>1, <2>2 DEF SaleInv, CardsBalance
<1>10. OrdersAddUp' /\ RewardsTyped' /\ RewardsSpent'
  BY <1>1 DEF SaleInv, OrdersAddUp, RewardsTyped, RewardsSpent, VouchersOf, CouponsOf
<1> QED BY <1>8, <1>9, <1>10 DEF SaleInv

\* The points go before the voucher is held, if ever it is.
LEMMA RedeemKeeps == ASSUME SaleInv, Redeem PROVE SaleInv'
<1>1. /\ points >= Reward /\ points' = points - Reward /\ redeemed' = redeemed + 1
      /\ (held' = held \/ held' = held + 1) /\ UNCHANGED <<order, balance, issued, coupon>>
  BY DEF Redeem
<1>2. /\ points \in Nat /\ redeemed \in Nat /\ held \in Nat /\ coupon \in Nat /\ Reward \in Nat
      /\ SumOf(VouchersOf) + held <= redeemed /\ SumOf(CouponsOf) + coupon <= 1
  BY SaleAssumption DEF SaleInv, RewardsTyped, RewardsSpent
<1>3. OrdersAddUp' /\ CardsTyped' /\ CardsBalance'
  BY <1>1 DEF SaleInv, OrdersAddUp, CardsTyped, CardsBalance, ChargedBy, Fresh
<1>4. RewardsTyped'
  BY <1>1, <1>2 DEF RewardsTyped
<1>5. SumOf(VouchersOf) \in Int
  <2>1. DOMAIN VouchersOf = Order /\ \A o \in Order : VouchersOf[o] \in Int
    BY DEF VouchersOf, SaleInv, OrdersAddUp, SaleRow
  <2> QED BY <2>1, SumInt, SumOfIs, SaleAssumption
<1>6. VouchersOf' = VouchersOf /\ CouponsOf' = CouponsOf
  BY <1>1 DEF VouchersOf, CouponsOf
<1>7. SumOf(VouchersOf) + held' <= redeemed'
  BY <1>1, <1>2, <1>5
<1>8. RewardsSpent'
  BY <1>1, <1>2, <1>6, <1>7 DEF RewardsSpent
<1> QED BY <1>3, <1>4, <1>8 DEF SaleInv

\* A comped line takes the total with it.
LEMMA CompKeeps == ASSUME SaleInv, NEW o \in Order, Comp(o) PROVE SaleInv'
<1> DEFINE old == order[o]
<1>1. PICK i \in DOMAIN old.lines :
        /\ old.state = "draft" /\ UNCHANGED <<balance, issued, points, redeemed, held, coupon>>
        /\ order' = [order EXCEPT ![o] = [old EXCEPT !.lines = [old.lines EXCEPT ![i] = 0],
                       !.total = SumOf([old.lines EXCEPT ![i] = 0]), !.torn = FALSE]]
  BY DEF Comp
<1>2. SaleRow(old) /\ points \in Nat /\ held \in Nat /\ coupon \in Nat
  BY DEF SaleInv, OrdersAddUp, RewardsTyped
<1> HIDE DEF old
<1> DEFINE lines == [old.lines EXCEPT ![i] = 0]
           r == [old EXCEPT !.lines = lines, !.total = SumOf(lines), !.torn = FALSE]
<1>3. lines \in Seq(Int) /\ SumOf(lines) \in Int
  <2>1. old.lines \in Seq(Int)
    BY <1>2 DEF SaleRow
  <2>2. lines \in Seq(Int)
    BY ONLY <2>1
  <2> HIDE DEF lines
  <2> QED BY <2>2, SeqSumInt
<1> HIDE DEF lines
<1>4. /\ DOMAIN r = OrderFields /\ r.state = old.state /\ r.lines = lines /\ r.pays = old.pays
      /\ r.total = SumOf(lines) /\ r.gift = old.gift /\ r.effects = old.effects
      /\ r.earned = old.earned /\ r.sells = old.sells /\ r.vouchers = old.vouchers
      /\ r.coupons = old.coupons /\ r.tries = old.tries /\ r.torn = FALSE
  BY <1>2 DEF SaleRow, OrderFields
<1>5. order' = [order EXCEPT ![o] = r]
  BY <1>1 DEF lines
<1> HIDE DEF r
<1>6. SaleRow(r)
  BY <1>1, <1>2, <1>3, <1>4 DEF SaleRow
<1>7. ChargedOf(r) = ChargedOf(order[o])
  BY <1>4 DEF ChargedOf, old
<1>8. /\ old.vouchers \in Nat /\ old.coupons \in Nat
  BY <1>2 DEF SaleRow
<1>9. /\ r.vouchers + held' <= order[o].vouchers + held
      /\ r.coupons + coupon' <= order[o].coupons + coupon
  BY <1>1, <1>2, <1>4, <1>8 DEF old
<1> QED BY <1>1, <1>2, <1>5, <1>6, <1>7, <1>9, OrderSteps

LEMMA SaleStep == SaleInv /\ [SaleNext]_saleVars => SaleInv'
<1> SUFFICES ASSUME SaleInv, [SaleNext]_saleVars PROVE SaleInv'
  OBVIOUS
<1>1. ASSUME NEW o \in Order, OrderSync(o) PROVE SaleInv'
  BY <1>1, SellKeeps DEF OrderSync
<1>2. ASSUME NEW o \in Order, Exchange(o) PROVE SaleInv'
  BY <1>2, SellKeeps DEF Exchange
<1>3. ASSUME NEW o \in Order, PayDraft(o) PROVE SaleInv'
  BY <1>3, PayDraftKeeps
<1>4. ASSUME NEW o \in Order, Comp(o) PROVE SaleInv'
  BY <1>4, CompKeeps
<1>5. ASSUME NEW o \in Order, NEW c \in Carts, NEW want \in 0 .. 1, PlacePickup(o, c, want)
      PROVE  SaleInv'
  BY <1>5, PlacePickupKeeps
<1>6. ASSUME NEW k \in Card, Issue(k) PROVE SaleInv'
  BY <1>6, IssueKeeps
<1>7. CASE Redeem
  BY <1>7, RedeemKeeps
<1>8. ASSUME Approve \/ Expire \/ UNCHANGED saleVars PROVE SaleInv'
  <2>1. UNCHANGED <<order, balance, issued, points, redeemed, held, coupon>>
    BY <1>8 DEF Approve, Expire, saleVars
  <2> QED BY <2>1 DEF SaleInv, OrdersAddUp, CardsTyped, CardsBalance, RewardsTyped, RewardsSpent,
                      ChargedBy, VouchersOf, CouponsOf, Fresh
<1> QED BY <1>1, <1>2, <1>3, <1>4, <1>5, <1>6, <1>7, <1>8 DEF SaleNext

LEMMA SaleImplies == SaleInv => NothingSpentTwice /\ SaleAddsUp
<1> SUFFICES ASSUME SaleInv PROVE NothingSpentTwice /\ SaleAddsUp
  OBVIOUS
<1>1. /\ OrdersAddUp /\ CardsTyped /\ CardsBalance /\ RewardsTyped /\ RewardsSpent
  BY DEF SaleInv
<1>2. /\ ChargedBy = [o \in Order |-> IF order[o].effects >= 1 THEN order[o].gift ELSE 0]
      /\ VouchersOf = [o \in Order |-> order[o].vouchers]
      /\ CouponsOf = [o \in Order |-> order[o].coupons]
  BY DEF ChargedBy, ChargedOf, VouchersOf, CouponsOf
<1>3. SumOf(CouponsOf) <= 1
  <2>1. DOMAIN CouponsOf = Order /\ \A o \in Order : CouponsOf[o] \in Int
    BY <1>1 DEF CouponsOf, OrdersAddUp, SaleRow
  <2>2. SumOf(CouponsOf) \in Int
    BY <2>1, SumInt, SumOfIs, SaleAssumption
  <2> QED BY <1>1, <2>2 DEF RewardsTyped, RewardsSpent
<1>4. /\ \A k \in Card : balance[k] >= 0
      /\ points >= 0 /\ \A o \in Order : order[o].earned <= 1
  BY <1>1 DEF CardsTyped, RewardsTyped, OrdersAddUp, SaleRow
<1>5. NothingSpentTwice
  BY <1>1, <1>2, <1>3, <1>4 DEF NothingSpentTwice, CardsBalance, RewardsSpent
<1>6. SaleAddsUp
  BY <1>1 DEF SaleAddsUp, OrdersAddUp, SaleRow
<1> QED BY <1>5, <1>6

\* What is worth money is spent once (NothingSpentTwice), and a sale's lines,
\* total and payments agree (SaleAddsUp), wherever a handler stops.
THEOREM SaleSafety == SaleSpec => [](NothingSpentTwice /\ SaleAddsUp)
BY SaleInitInv, SaleStep, SaleImplies, PTL DEF SaleSpec
=============================================================================
