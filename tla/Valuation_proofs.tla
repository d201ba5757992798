-------------------------- MODULE Valuation_proofs --------------------------
(***************************************************************************)
(* Proofs about the arithmetic of Scoring, for every price and every       *)
(* auction's terms:                                                        *)
(*   TrimKeepsMost       at most a quarter of the sales are outliers       *)
(*   FairInOrder         a fair value's parts are in order                 *)
(*   PremiumWithinTerms  a premium keeps to its cap and floor              *)
(*   DearerCostsMore     a higher bid costs more                           *)
(*   CheaperFromHome     bringing a vehicle home never lowers its cost     *)
(* and about Valuation, for any offers, sales and operators:               *)
(*   DearerIsWorse       Spec => DearerScoresWorse                         *)
(*   RequeueIsServed     Spec => []RequeueServes                           *)
(*   NoEstimateTwice     Spec => []EstimatesReplaced                       *)
(*   FairIsSound         Spec => []FairValueSound                          *)
(***************************************************************************)
EXTENDS Valuation, FiniteSetTheorems, TLAPS

-----------------------------------------------------------------------------
(* Sums over a finite set.                                                 *)

\* Induction over finite sets: of the subsets of a finite set that lack a property,
\* one has no proper subset that lacks it.
LEMMA SmallestSet ==
  ASSUME NEW D, IsFiniteSet(D), NEW B, B \subseteq SUBSET D, B # {}
  PROVE  \E S \in B : \A T \in B : T \subseteq S => T = S
<1>1. IsWellFoundedOn(StrictSubsetOrdering(D), SUBSET D)
  BY FS_StrictSubsetOrderingWellFounded, FS_FiniteSubsetsOfFinite
<1>2. PICK S \in B : \A T \in B : <<T, S>> \notin StrictSubsetOrdering(D)
  BY <1>1, WFMin
<1>3. ASSUME NEW T \in B, T \subseteq S PROVE T = S
  <2>1. CASE T # S
    <3>1. <<T, S>> \in (SUBSET D) \X (SUBSET D)
      OBVIOUS
    <3>2. <<T, S>> \in StrictSubsetOrdering(D)
      BY <1>3, <2>1, <3>1 DEF StrictSubsetOrdering
    <3>3. QED
      BY <1>2, <3>2
  <2>2. QED
    BY <2>1
<1>4. QED
  BY <1>3

\* The sum of f over S, and what it unfolds to: a fold that takes one element at a time.
Total(f, S) == SumFunctionOnSet(f, S)
Pick(S) == CHOOSE x \in S : TRUE
Unfolds(g, f, S) ==
  g = [s \in SUBSET S |-> IF s = {} THEN 0 ELSE f[Pick(s)] + g[s \ {Pick(s)}]]

LEMMA TotalIsFold ==
  ASSUME NEW f, NEW S
  PROVE  Total(f, S) = (CHOOSE g : Unfolds(g, f, S))[S]
BY DEF Total, SumFunctionOnSet, FoldFunctionOnSet, MapThenFoldSet, Unfolds, Pick

LEMMA PickIn == ASSUME NEW S, S # {} PROVE Pick(S) \in S
BY DEF Pick

LEMMA UnfoldsAlike ==
  ASSUME NEW f, NEW g, NEW h, NEW S, NEW T, Unfolds(g, f, S), Unfolds(h, f, T),
         NEW U, IsFiniteSet(U), U \subseteq S, U \subseteq T
  PROVE  g[U] = h[U]
<1> SUFFICES ASSUME g[U] # h[U] PROVE FALSE
  OBVIOUS
<1> DEFINE B == {u \in SUBSET U : g[u] # h[u]}
<1>1. B \subseteq SUBSET U /\ B # {}
  OBVIOUS
<1> HIDE DEF B
<1>2. PICK u \in B : \A v \in B : v \subseteq u => v = u
  BY <1>1, SmallestSet
<1> USE DEF B
<1>3. /\ g[u] = IF u = {} THEN 0 ELSE f[Pick(u)] + g[u \ {Pick(u)}]
      /\ h[u] = IF u = {} THEN 0 ELSE f[Pick(u)] + h[u \ {Pick(u)}]
  BY DEF Unfolds
<1>4. u # {}
  BY <1>3
<1>5. u \ {Pick(u)} \notin B
  BY <1>2, <1>4, PickIn
<1>6. QED
  BY <1>3, <1>4, <1>5

LEMMA UnfoldsSome ==
  ASSUME NEW f, NEW S, IsFiniteSet(S)
  PROVE  \E g : Unfolds(g, f, S)
<1> DEFINE B == {s \in SUBSET S : ~ \E g : Unfolds(g, f, s)}
<1> SUFFICES ASSUME S \in B PROVE FALSE
  OBVIOUS
<1>0. B \subseteq SUBSET S /\ B # {}
  OBVIOUS
<1> HIDE DEF B
<1>1. PICK s \in B : \A t \in B : t \subseteq s => t = s
  BY <1>0, SmallestSet
<1> USE DEF B
<1>2. ASSUME NEW t \in SUBSET s, t # s
      PROVE  \E g : Unfolds(g, f, t) /\ Total(f, t) = g[t]
  <2>1. \E g : Unfolds(g, f, t)
    BY <1>1, <1>2
  <2>2. Unfolds(CHOOSE g : Unfolds(g, f, t), f, t)
    BY <2>1
  <2>3. QED
    BY <2>2, TotalIsFold
<1>3. ASSUME NEW t \in SUBSET s, t # s
      PROVE  Total(f, t) = IF t = {} THEN 0 ELSE f[Pick(t)] + Total(f, t \ {Pick(t)})
  <2>1. PICK g : Unfolds(g, f, t) /\ Total(f, t) = g[t]
    BY <1>2, <1>3
  <2>2. g[t] = IF t = {} THEN 0 ELSE f[Pick(t)] + g[t \ {Pick(t)}]
    BY <2>1 DEF Unfolds
  <2>3. CASE t # {}
    <3> DEFINE r == t \ {Pick(t)}
    <3>1. r \in SUBSET s /\ r # s /\ r \subseteq t
      BY <2>3, PickIn
    <3>2. PICK h : Unfolds(h, f, r) /\ Total(f, r) = h[r]
      BY <1>2, <3>1
    <3>3. IsFiniteSet(r)
      BY <3>1, FS_Subset
    <3>4. g[r] = h[r]
      BY <2>1, <3>1, <3>2, <3>3, UnfoldsAlike
    <3>5. QED
      BY <2>1, <2>2, <2>3, <3>2, <3>4
  <2>4. QED
    BY <2>1, <2>2, <2>3
<1> DEFINE h == [t \in SUBSET s |->
                   IF t = {} THEN 0 ELSE f[Pick(t)] + Total(f, t \ {Pick(t)})]
<1>4. \A t \in SUBSET s : t # s => h[t] = Total(f, t)
  BY <1>3
<1>5. \A t \in SUBSET s : t # {} => t \ {Pick(t)} \in SUBSET s /\ t \ {Pick(t)} # s
  BY PickIn
<1>6. Unfolds(h, f, s)
  <2>1. ASSUME NEW t \in SUBSET s
        PROVE  h[t] = IF t = {} THEN 0 ELSE f[Pick(t)] + h[t \ {Pick(t)}]
    BY <1>4, <1>5
  <2>2. h = [t \in SUBSET s |-> h[t]]
    OBVIOUS
  <2> HIDE DEF h
  <2>3. QED
    BY <2>1, <2>2 DEF Unfolds
<1>7. QED
  BY <1>6

LEMMA TotalDef ==
  ASSUME NEW f, NEW S, IsFiniteSet(S)
  PROVE  Total(f, S) = IF S = {} THEN 0 ELSE f[Pick(S)] + Total(f, S \ {Pick(S)})
<1> DEFINE g == CHOOSE g : Unfolds(g, f, S)
           r == S \ {Pick(S)}
           h == CHOOSE h : Unfolds(h, f, r)
<1>1. Unfolds(g, f, S) /\ Total(f, S) = g[S]
  BY UnfoldsSome, TotalIsFold
<1>2. IsFiniteSet(r)
  BY FS_Subset
<1>3. Unfolds(h, f, r) /\ Total(f, r) = h[r]
  BY <1>2, UnfoldsSome, TotalIsFold
<1> HIDE DEF g, h
<1>4. g[r] = h[r]
  BY <1>1, <1>2, <1>3, UnfoldsAlike
<1>5. g[S] = IF S = {} THEN 0 ELSE f[Pick(S)] + g[r]
  BY <1>1 DEF Unfolds
<1>6. QED
  BY <1>1, <1>3, <1>4, <1>5

LEMMA TotalType ==
  ASSUME NEW S, IsFiniteSet(S), NEW f, \A x \in S : f[x] \in Int
  PROVE  Total(f, S) \in Int
<1> DEFINE B == {s \in SUBSET S : Total(f, s) \notin Int}
<1> SUFFICES ASSUME S \in B PROVE FALSE
  OBVIOUS
<1>0. B \subseteq SUBSET S /\ B # {}
  OBVIOUS
<1> HIDE DEF B
<1>1. PICK s \in B : \A t \in B : t \subseteq s => t = s
  BY <1>0, SmallestSet
<1> USE DEF B
<1>2. Total(f, s) = IF s = {} THEN 0 ELSE f[Pick(s)] + Total(f, s \ {Pick(s)})
  BY FS_Subset, TotalDef
<1>3. s # {}
  BY <1>2
<1>4. Pick(s) \in s /\ s \ {Pick(s)} \notin B
  BY <1>1, <1>3, PickIn
<1>5. QED
  BY <1>2, <1>3, <1>4

LEMMA TotalStep ==
  ASSUME NEW S, IsFiniteSet(S), NEW f, \A x \in S : f[x] \in Int, NEW x \in S
  PROVE  Total(f, S) = f[x] + Total(f, S \ {x})
<1> DEFINE B == {s \in SUBSET S : \E z \in s : Total(f, s) # f[z] + Total(f, s \ {z})}
<1> SUFFICES ASSUME S \in B PROVE FALSE
  OBVIOUS
<1>0. B \subseteq SUBSET S /\ B # {}
  OBVIOUS
<1> HIDE DEF B
<1>1. PICK s \in B : \A t \in B : t \subseteq s => t = s
  BY <1>0, SmallestSet
<1> USE DEF B
<1>2. PICK z \in s : Total(f, s) # f[z] + Total(f, s \ {z})
  OBVIOUS
<1> DEFINE y == Pick(s)
<1>3. y \in s
  BY PickIn
<1>4. IsFiniteSet(s) /\ Total(f, s) = f[y] + Total(f, s \ {y})
  BY FS_Subset, TotalDef
<1>5. y # z
  BY <1>2, <1>4
<1> HIDE DEF y
<1>6. ASSUME NEW v \in s, NEW w \in s, v # w
      PROVE  Total(f, s \ {v}) = f[w] + Total(f, (s \ {v}) \ {w})
  <2> DEFINE t == s \ {v}
  <2>1. t \in SUBSET S /\ t \subseteq s /\ t # s /\ w \in t
    BY <1>6
  <2>2. t \notin B
    BY <1>1, <2>1
  <2> HIDE DEF t
  <2>3. Total(f, t) = f[w] + Total(f, t \ {w})
    BY <2>1, <2>2
  <2>4. QED
    BY <2>3 DEF t
<1>7. /\ Total(f, s \ {y}) = f[z] + Total(f, (s \ {y}) \ {z})
      /\ Total(f, s \ {z}) = f[y] + Total(f, (s \ {z}) \ {y})
  BY <1>3, <1>5, <1>6
<1>8. (s \ {z}) \ {y} = (s \ {y}) \ {z}
  OBVIOUS
<1>9. Total(f, (s \ {y}) \ {z}) \in Int
  BY FS_Subset, TotalType
<1>10. f[y] \in Int /\ f[z] \in Int
  BY <1>3
<1>11. QED
  BY <1>2, <1>4, <1>7, <1>8, <1>9, <1>10

\* Sums keep a linear inequality of their terms.
LEMMA TotalScaled ==
  ASSUME NEW S, IsFiniteSet(S), NEW a \in Int, NEW b \in Int, NEW f, NEW g,
         \A x \in S : f[x] \in Int /\ g[x] \in Int /\ a * f[x] <= b * g[x]
  PROVE  a * Total(f, S) <= b * Total(g, S)
<1> DEFINE B == {s \in SUBSET S : ~ (a * Total(f, s) <= b * Total(g, s))}
<1> SUFFICES ASSUME S \in B PROVE FALSE
  OBVIOUS
<1>1. B \subseteq SUBSET S /\ B # {}
  OBVIOUS
<1> HIDE DEF B
<1>2. PICK s \in B : \A t \in B : t \subseteq s => t = s
  BY <1>1, SmallestSet
<1> USE DEF B
<1>3. IsFiniteSet(s)
  BY FS_Subset
<1>4. CASE s = {}
  <2>1. Total(f, s) = 0 /\ Total(g, s) = 0
    BY <1>3, <1>4, TotalDef
  <2>2. QED
    BY <2>1
<1>5. ASSUME NEW x \in s PROVE FALSE
  <2> DEFINE r == s \ {x}
  <2>1. r \in SUBSET S /\ r \notin B /\ IsFiniteSet(r)
    BY <1>2, <1>3, FS_Subset
  <2>2. /\ Total(f, s) = f[x] + Total(f, r) /\ Total(g, s) = g[x] + Total(g, r)
        /\ Total(f, r) \in Int /\ Total(g, r) \in Int
    BY <1>3, <2>1, TotalStep, TotalType
  <2>3. f[x] \in Int /\ g[x] \in Int /\ a * f[x] <= b * g[x]
    OBVIOUS
  <2> DEFINE u == f[x]
             v == g[x]
             p == Total(f, r)
             q == Total(g, r)
  <2>4. a * p <= b * q
    BY <2>1
  <2>5. ~ (a * (u + p) <= b * (v + q))
    BY <2>2
  <2>6. u \in Int /\ v \in Int /\ p \in Int /\ q \in Int /\ a * u <= b * v
    BY <2>2, <2>3
  <2> HIDE DEF u, v, p, q
  <2>7. a * (u + p) = a * u + a * p /\ b * (v + q) = b * v + b * q
    BY <2>6
  <2>8. a * u \in Int /\ a * p \in Int /\ b * v \in Int /\ b * q \in Int
    BY <2>6
  <2>9. QED
    BY <2>4, <2>5, <2>6, <2>7, <2>8
<1>6. QED
  BY <1>4, <1>5

\* A sum of sums.
LEMMA TotalSum ==
  ASSUME NEW S, IsFiniteSet(S), NEW f, NEW g, NEW h,
         \A x \in S : f[x] \in Int /\ g[x] \in Int /\ h[x] = f[x] + g[x]
  PROVE  Total(h, S) = Total(f, S) + Total(g, S)
<1> DEFINE B == {s \in SUBSET S : Total(h, s) # Total(f, s) + Total(g, s)}
<1> SUFFICES ASSUME S \in B PROVE FALSE
  OBVIOUS
<1>1. B \subseteq SUBSET S /\ B # {}
  OBVIOUS
<1> HIDE DEF B
<1>2. PICK s \in B : \A t \in B : t \subseteq s => t = s
  BY <1>1, SmallestSet
<1> USE DEF B
<1>3. IsFiniteSet(s)
  BY FS_Subset
<1>4. CASE s = {}
  <2>1. Total(f, s) = 0 /\ Total(g, s) = 0 /\ Total(h, s) = 0
    BY <1>3, <1>4, TotalDef
  <2>2. QED
    BY <2>1
<1>5. ASSUME NEW x \in s PROVE FALSE
  <2> DEFINE r == s \ {x}
  <2>1. r \in SUBSET S /\ r \notin B /\ IsFiniteSet(r)
    BY <1>2, <1>3, FS_Subset
  <2>2. \A y \in s : f[y] \in Int /\ g[y] \in Int /\ h[y] \in Int /\ h[y] = f[y] + g[y]
    OBVIOUS
  <2>3. /\ Total(f, s) = f[x] + Total(f, r) /\ Total(g, s) = g[x] + Total(g, r)
        /\ Total(h, s) = h[x] + Total(h, r)
        /\ Total(f, r) \in Int /\ Total(g, r) \in Int
    BY <1>3, <2>1, <2>2, TotalStep, TotalType
  <2>4. Total(h, r) = Total(f, r) + Total(g, r)
    BY <2>1
  <2> HIDE DEF r
  <2>5. QED
    BY <2>2, <2>3, <2>4
<1>6. QED
  BY <1>4, <1>5

\* Natural terms have a natural sum, no less than any of them, nor than the sum over
\* fewer of them.
LEMMA TotalNat ==
  ASSUME NEW S, IsFiniteSet(S), NEW f, \A x \in S : f[x] \in Nat
  PROVE  /\ Total(f, S) \in Nat
         /\ \A x \in S : f[x] <= Total(f, S)
         /\ \A T \in SUBSET S : Total(f, T) <= Total(f, S)
<1>1. ASSUME NEW T \in SUBSET S PROVE IsFiniteSet(T) /\ Total(f, T) \in Nat
  <2>1. IsFiniteSet(T)
    BY FS_Subset
  <2>2. Total(f, T) \in Int
    BY <2>1, TotalType
  <2>3. 0 * Total(f, T) <= 1 * Total(f, T)
    BY <2>1, TotalScaled
  <2>4. QED
    BY <2>1, <2>2, <2>3
<1>2. ASSUME NEW x \in S PROVE f[x] <= Total(f, S)
  <2>1. Total(f, S) = f[x] + Total(f, S \ {x})
    BY TotalStep
  <2>2. Total(f, S \ {x}) \in Nat
    BY <1>1
  <2>3. QED
    BY <2>1, <2>2
<1>3. ASSUME NEW T \in SUBSET S PROVE Total(f, T) <= Total(f, S)
  <2> DEFINE B == {s \in SUBSET S : T \subseteq s /\ ~ (Total(f, T) <= Total(f, s))}
  <2> SUFFICES ASSUME S \in B PROVE FALSE
    OBVIOUS
  <2>1. B \subseteq SUBSET S /\ B # {}
    OBVIOUS
  <2> HIDE DEF B
  <2>2. PICK s \in B : \A t \in B : t \subseteq s => t = s
    BY <2>1, SmallestSet
  <2> USE DEF B
  <2>3. PICK x \in s \ T : TRUE
    BY <1>1
  <2>4. s \ {x} \in SUBSET S /\ s \ {x} \notin B /\ T \subseteq s \ {x}
    BY <2>2, <2>3
  <2>5. Total(f, T) <= Total(f, s \ {x})
    BY <2>4
  <2>6. Total(f, s) = f[x] + Total(f, s \ {x})
    BY <1>1, TotalStep
  <2>7. Total(f, s) \in Nat /\ Total(f, s \ {x}) \in Nat /\ Total(f, T) \in Nat /\ f[x] \in Nat
    BY <1>1, <2>4
  <2>8. QED
    BY <2>5, <2>6, <2>7
<1>4. QED
  BY <1>1, <1>2, <1>3

\* A finite set of integers has a least and a greatest.
LEMMA Extremes ==
  ASSUME NEW S, IsFiniteSet(S), S # {}
  PROVE  (\A x \in S : x \in Int) =>
           /\ Min(S) \in S /\ \A x \in S : Min(S) <= x
           /\ Max(S) \in S /\ \A x \in S : Max(S) >= x
<1> DEFINE Bounded(T) == \E lo \in T, hi \in T : \A x \in T : lo <= x /\ x <= hi
           B == {T \in SUBSET S : T # {} /\ (\A x \in T : x \in Int) /\ ~ Bounded(T)}
<1>1. (\A x \in S : x \in Int) => Bounded(S)
  <2> SUFFICES ASSUME B # {} PROVE FALSE
    OBVIOUS
  <2> HIDE DEF Bounded
  <2>1. B \subseteq SUBSET S
    OBVIOUS
  <2> HIDE DEF B
  <2>2. PICK T \in B : \A U \in B : U \subseteq T => U = T
    BY <2>1, SmallestSet
  <2> USE DEF B
  <2>3. T \in SUBSET S /\ T # {} /\ (\A x \in T : x \in Int) /\ ~ Bounded(T)
    OBVIOUS
  <2>4. PICK x \in T : TRUE
    BY <2>3
  <2> DEFINE U == T \ {x}
  <2>5. CASE U = {}
    <3>1. T = {x} /\ x \in Int
      BY <2>3, <2>5
    <3>2. Bounded(T)
      BY <3>1 DEF Bounded
    <3>3. QED
      BY <2>3, <3>2
  <2>6. CASE U # {}
    <3>1. U \in SUBSET S /\ U \subseteq T /\ U # T
      BY <2>3
    <3>2. Bounded(U)
      BY <2>2, <2>6, <3>1
    <3>3. PICK lo \in U, hi \in U : \A y \in U : lo <= y /\ y <= hi
      BY <3>2 DEF Bounded
    <3> DEFINE low == IF x <= lo THEN x ELSE lo
               high == IF x >= hi THEN x ELSE hi
    <3>4. x \in Int /\ lo \in Int /\ hi \in Int /\ lo \in T /\ hi \in T
      BY <2>3
    <3>5. low \in T /\ high \in T
      BY <3>4
    <3>6. low <= x /\ x <= high /\ low <= lo /\ hi <= high /\ low \in Int /\ high \in Int
      BY <3>4
    <3> HIDE DEF low, high
    <3>7. ASSUME NEW y \in T PROVE low <= y /\ y <= high
      <4>1. CASE y = x
        BY <3>6, <4>1
      <4>2. CASE y # x
        <5>1. y \in Int /\ lo <= y /\ y <= hi
          BY <2>3, <3>3, <4>2
        <5>2. QED
          BY <3>4, <3>6, <5>1
      <4>3. QED
        BY <4>1, <4>2
    <3>8. Bounded(T)
      BY <3>5, <3>7 DEF Bounded
    <3>9. QED
      BY <2>3, <3>8
  <2>7. QED
    BY <2>5, <2>6
<1> HAVE \A x \in S : x \in Int
<1>2. PICK lo \in S, hi \in S : \A x \in S : lo <= x /\ x <= hi
  BY <1>1
<1>3. Min(S) \in S /\ \A x \in S : Min(S) <= x
  BY <1>2 DEF Min
<1>4. Max(S) \in S /\ \A x \in S : Max(S) >= x
  <2>1. \A x \in S : hi >= x
    BY <1>2
  <2>2. QED
    BY <2>1 DEF Max
<1>5. QED
  BY <1>3, <1>4

-----------------------------------------------------------------------------
(* Maxima and minima of two numbers.                                       *)

LEMMA MaxOfTwo ==
  ASSUME NEW x \in Int, NEW y \in Int
  PROVE  Max({x, y}) = IF x >= y THEN x ELSE y
<1> DEFINE m == IF x >= y THEN x ELSE y
<1>1. m \in {x, y} /\ \A z \in {x, y} : m >= z
  OBVIOUS
<1>2. /\ Max({x, y}) \in {x, y} /\ \A z \in {x, y} : Max({x, y}) >= z
  BY <1>1 DEF Max
<1>3. QED
  BY <1>1, <1>2

LEMMA MinOfTwo ==
  ASSUME NEW x \in Int, NEW y \in Int
  PROVE  Min({x, y}) = IF x <= y THEN x ELSE y
<1> DEFINE m == IF x <= y THEN x ELSE y
<1>1. m \in {x, y} /\ \A z \in {x, y} : m <= z
  OBVIOUS
<1>2. /\ Min({x, y}) \in {x, y} /\ \A z \in {x, y} : Min({x, y}) <= z
  BY <1>1 DEF Min
<1>3. QED
  BY <1>1, <1>2

\* Multiplying by a natural number keeps the order; by a positive one, strictly.
LEMMA TimesMonotone ==
  ASSUME NEW x \in Int, NEW y \in Int, NEW k \in Nat, x <= y
  PROVE  x * k <= y * k
<1>1. (y - x) * k >= 0
  OBVIOUS
<1>2. (y - x) * k = y * k - x * k
  OBVIOUS
<1>3. x * k \in Int /\ y * k \in Int
  OBVIOUS
<1>4. QED
  BY <1>1, <1>2, <1>3

LEMMA TimesStrict ==
  ASSUME NEW x \in Int, NEW y \in Int, NEW k \in Nat \ {0}, x < y
  PROVE  x * k < y * k
<1>1. (x + 1) * k <= y * k
  BY TimesMonotone
<1>2. (x + 1) * k = x * k + k
  OBVIOUS
<1>3. x * k \in Int /\ y * k \in Int
  OBVIOUS
<1>4. QED
  BY <1>1, <1>2, <1>3

-----------------------------------------------------------------------------
(* Costs.                                                                  *)

Amount == Nat \cup {Null}

\* _premium_amount without its minima and maxima.
LEMMA PremiumCases ==
  ASSUME NEW bid \in Nat, NEW pct \in Nat, NEW cap \in Amount, NEW floor \in Amount
  PROVE  LET capped == IF cap # Null /\ 100 * cap < bid * pct THEN 100 * cap ELSE bid * pct
         IN  /\ capped \in Int
             /\ Premium(bid, pct, cap, floor)
                  = IF floor # Null /\ capped < 100 * floor THEN 100 * floor ELSE capped
<1> USE DEF Amount, Null
<1>1. bid * pct \in Nat
  OBVIOUS
<1> DEFINE due == bid * pct
           capped == IF cap # Null THEN Min({due, 100 * cap}) ELSE due
<1>2. due \in Int /\ 100 * cap \in Int /\ 100 * floor \in Int
  BY <1>1
<1> HIDE DEF due
<1>3. capped = IF cap # Null /\ 100 * cap < due THEN 100 * cap ELSE due
  BY <1>2, MinOfTwo
<1>4. capped \in Int
  BY <1>2, <1>3
<1>5. floor # Null => Max({capped, 100 * floor})
                        = IF capped >= 100 * floor THEN capped ELSE 100 * floor
  BY <1>2, <1>4, MaxOfTwo
<1>6. Premium(bid, pct, cap, floor)
        = IF floor # Null THEN Max({capped, 100 * floor}) ELSE capped
  BY DEF Premium, due
<1>7. QED
  BY <1>2, <1>3, <1>4, <1>5, <1>6 DEF due

\* The premium is never below the auction's floor, and above its cap only where the
\* floor is (score.py, _premium_amount).
THEOREM PremiumWithinTerms ==
  ASSUME NEW bid \in Nat, NEW pct \in Nat, NEW cap \in Amount, NEW floor \in Amount
  PROVE  /\ floor # Null => Premium(bid, pct, cap, floor) >= 100 * floor
         /\ cap # Null /\ (floor # Null => floor <= cap)
              => Premium(bid, pct, cap, floor) <= 100 * cap
<1> DEFINE due == bid * pct
<1>1. due \in Int
  OBVIOUS
<1>2. LET capped == IF cap # Null /\ 100 * cap < due THEN 100 * cap ELSE due
      IN  Premium(bid, pct, cap, floor)
            = IF floor # Null /\ capped < 100 * floor THEN 100 * floor ELSE capped
  BY PremiumCases
<1> HIDE DEF due
<1>3. QED
  BY <1>1, <1>2 DEF Amount, Null

\* A higher bid has no lower premium.
LEMMA PremiumMonotone ==
  ASSUME NEW p \in Nat, NEW q \in Nat, p <= q, NEW pct \in Nat, NEW cap \in Amount,
         NEW floor \in Amount
  PROVE  /\ Premium(p, pct, cap, floor) \in Nat /\ Premium(q, pct, cap, floor) \in Nat
         /\ Premium(p, pct, cap, floor) <= Premium(q, pct, cap, floor)
<1> DEFINE due(b) == b * pct
           capped(b) == IF cap # Null /\ 100 * cap < due(b) THEN 100 * cap ELSE due(b)
<1>1. due(p) \in Nat /\ due(q) \in Nat /\ due(p) <= due(q)
  BY TimesMonotone
<1>2. /\ Premium(p, pct, cap, floor)
           = IF floor # Null /\ capped(p) < 100 * floor THEN 100 * floor ELSE capped(p)
      /\ Premium(q, pct, cap, floor)
           = IF floor # Null /\ capped(q) < 100 * floor THEN 100 * floor ELSE capped(q)
  BY PremiumCases
<1> HIDE DEF due
<1>3. QED
  BY <1>1, <1>2 DEF Amount, Null

\* Whatever an auction's rate, cap, floor and taxes, and wherever the lot is, a higher
\* bid costs more at home (score.py, all_in_cost).
THEOREM DearerCostsMore ==
  ASSUME NEW p \in Nat, NEW q \in Nat, p < q,
         NEW pct \in Nat, NEW cap \in Amount, NEW floor \in Amount,
         NEW tax \in Nat, NEW landed \in Nat
  PROVE  LET cost(bid) == AllIn(100 * bid, Premium(bid, pct, cap, floor), tax, landed)
         IN  cost(p) \in Int /\ cost(q) \in Int /\ cost(p) < cost(q)
<1> DEFINE a == 100 * p + Premium(p, pct, cap, floor)
           b == 100 * q + Premium(q, pct, cap, floor)
           k == 100 + tax
           cost(bid) == AllIn(100 * bid, Premium(bid, pct, cap, floor), tax, landed)
<1>1. a \in Int /\ b \in Int /\ a < b
  <2> DEFINE c == Premium(p, pct, cap, floor)
             d == Premium(q, pct, cap, floor)
  <2>1. c \in Nat /\ d \in Nat /\ c <= d
    <3>1. p <= q
      OBVIOUS
    <3>2. QED
      BY <3>1, PremiumMonotone
  <2> HIDE DEF c, d
  <2>2. 100 * p + c \in Int /\ 100 * q + d \in Int /\ 100 * p + c < 100 * q + d
    BY <2>1
  <2>3. QED
    BY <2>2 DEF c, d
<1>2. k \in Nat \ {0}
  OBVIOUS
<1>3. cost(p) = a * k + 10000 * landed /\ cost(q) = b * k + 10000 * landed
  BY DEF AllIn
<1> HIDE DEF a, b, k, cost
<1>4. a * k < b * k /\ a * k \in Int /\ b * k \in Int
  BY <1>1, <1>2, TimesStrict
<1>5. cost(p) < cost(q) /\ cost(p) \in Int /\ cost(q) \in Int
  BY <1>3, <1>4
<1>6. QED
  BY <1>5 DEF cost

\* A vehicle from another province costs at least the transport's minimum and an
\* inspection more than the same at home (landed_cost.py, landed_cost_premium).
THEOREM CheaperFromHome ==
  ASSUME NEW home, NEW dest
  PROVE  /\ LandedCost(home, dest) \in Nat
         /\ home = dest => LandedCost(home, dest) = 0
         /\ home # dest => LandedCost(home, dest) >= 800
<1>1. Distance(home, dest) \in Nat
  BY DEF Distance
<1>2. Inspection(dest) \in Nat /\ Inspection(dest) >= 50
  BY DEF Inspection
<1>3. Contingency(dest) \in Nat /\ Contingency(dest) >= 150
  BY DEF Contingency
<1> DEFINE haul == (40000 + 65 * Distance(home, dest)) \div 100
<1>4. haul \in Int
  BY <1>1
<1> HIDE DEF haul
<1>5. Max({600, haul}) \in Int /\ Max({600, haul}) >= 600
  BY <1>4, MaxOfTwo
<1>6. QED
  BY <1>2, <1>3, <1>5 DEF LandedCost, haul

-----------------------------------------------------------------------------
(* A dearer offer scores worse.                                            *)

\* What the offer costs at price p.
CostAt(p) ==
  IF offer.kind = "listing" THEN AllIn(Effective(p, offer.seller), 0, 0, Landed)
  ELSE AllIn(100 * p, Premium(p, Or(offer.pct, 10), offer.cap, offer.floor),
             Or(offer.gst, 5) + Or(offer.pst, 0), Landed)

LEMMA CostRises ==
  ASSUME offer \in Offers, NEW p \in Nat, NEW q \in Nat, p < q
  PROVE  CostAt(p) \in Int /\ CostAt(q) \in Int /\ CostAt(p) < CostAt(q)
<1>1. Landed \in Nat
  BY CheaperFromHome DEF Landed
<1> HIDE DEF Landed
<1>2. CASE offer.kind = "listing"
  <2>1. PICK k \in {95, 97} : k = 100 - Haircut(offer.seller)
    BY DEF Haircut
  <2>2. /\ CostAt(p) = p * k * 100 + 10000 * Landed
        /\ CostAt(q) = q * k * 100 + 10000 * Landed
    BY <1>1, <1>2, <2>1 DEF CostAt, AllIn, Effective
  <2>3. p * k \in Nat /\ q * k \in Nat /\ p * k < q * k
    <3>1. k \in Nat \ {0} /\ p \in Nat /\ q \in Nat /\ p < q
      BY <2>1
    <3>2. QED
      BY <3>1
  <2> DEFINE u == p * k
             v == q * k
  <2> HIDE DEF u, v
  <2>4. /\ u * 100 + 10000 * Landed \in Int /\ v * 100 + 10000 * Landed \in Int
        /\ u * 100 + 10000 * Landed < v * 100 + 10000 * Landed
    BY <1>1, <2>3 DEF u, v
  <2>5. QED
    BY <2>2, <2>4 DEF u, v
<1>3. CASE offer.kind # "listing"
  <2>1. /\ offer.cap \in Amount /\ offer.floor \in Amount
        /\ offer.pct \in Amount /\ offer.gst \in Amount /\ offer.pst \in Amount
    BY <1>3, ValuationAssumption DEF OfferOK, Amount
  <2>2. Or(offer.pct, 10) \in Nat /\ Or(offer.gst, 5) + Or(offer.pst, 0) \in Nat
    BY <2>1 DEF Or, Amount
  <2> DEFINE rate == Or(offer.pct, 10)
             tax == Or(offer.gst, 5) + Or(offer.pst, 0)
             cost(b) == AllIn(100 * b, Premium(b, rate, offer.cap, offer.floor), tax, Landed)
  <2> HIDE DEF rate, tax
  <2>3. cost(p) \in Int /\ cost(q) \in Int /\ cost(p) < cost(q)
    <3>1. rate \in Nat /\ tax \in Nat
      BY <2>2 DEF rate, tax
    <3> DEFINE cap == offer.cap
               floor == offer.floor
    <3>2. cap \in Amount /\ floor \in Amount
      BY <2>1
    <3> HIDE DEF cap, floor
    <3>3. /\ AllIn(100 * p, Premium(p, rate, cap, floor), tax, Landed) \in Int
          /\ AllIn(100 * q, Premium(q, rate, cap, floor), tax, Landed) \in Int
          /\ AllIn(100 * p, Premium(p, rate, cap, floor), tax, Landed)
               < AllIn(100 * q, Premium(q, rate, cap, floor), tax, Landed)
      BY <1>1, <3>1, <3>2, DearerCostsMore
    <3>4. QED
      BY <3>3 DEF cap, floor
  <2>4. CostAt(p) = cost(p) /\ CostAt(q) = cost(q)
    BY <1>3 DEF CostAt, rate, tax
  <2>5. QED
    BY <2>3, <2>4
<1>4. QED
  BY <1>2, <1>3

\* The columns r, written on the basis b, are those of the price in b.
PricedAt(r, b) ==
  r.allIn # Null =>
    /\ b.price \in Prices /\ r.allIn = CostAt(b.price)
    /\ r.score = DealScore(r.fair.expected, r.allIn)

Columns == {"val", "fair", "allIn", "score", "suspicious", "note"}

ScoreInv ==
  /\ offer \in Offers /\ price \in Prices \cup {Null}
  /\ DOMAIN row = Columns
  /\ PricedAt(row, basis)
  /\ work.at = "read" => /\ DOMAIN work.new = Columns
                         /\ PricedAt(work.new, work.basis)

LEMMA ScoreInit == Init => ScoreInv
BY DEF Init, ScoreInv, PricedAt, Columns, Unpriced, Idle

\* Neither is disturbed by a status.
LEMMA StatusKeepsPrice ==
  ASSUME NEW r, NEW b, NEW v, NEW n, PricedAt(r, b), {"fair", "allIn", "score"} \subseteq DOMAIN r
  PROVE  /\ PricedAt([r EXCEPT !.val = v], b)
         /\ PricedAt([r EXCEPT !.val = v, !.note = n], b)
<1> DEFINE r2 == [r EXCEPT !.val = v]
           r3 == [r EXCEPT !.val = v, !.note = n]
<1>1. /\ r2.allIn = r.allIn /\ r2.score = r.score /\ r2.fair = r.fair
      /\ r3.allIn = r.allIn /\ r3.score = r.score /\ r3.fair = r.fair
  OBVIOUS
<1> HIDE DEF r2, r3
<1>2. PricedAt(r2, b) /\ PricedAt(r3, b)
  BY <1>1 DEF PricedAt
<1>3. QED
  BY <1>2 DEF r2, r3

LEMMA ScoreStep == ScoreInv /\ [Next]_vars => ScoreInv'
<1> SUFFICES ASSUME ScoreInv, [Next]_vars PROVE ScoreInv'
  OBVIOUS
<1>1. /\ offer' = offer /\ (price' = price \/ price' \in Prices)
      /\ UNCHANGED <<row, basis>> \/ (\E v : row' = [row EXCEPT !.val = v] /\ basis' = basis) \/ Value
      /\ UNCHANGED work \/ work'.at # "read" \/ Read
  BY DEF Next, vars, market, Moves, EndPasses, Over, Reprice, Claim, Read, Value, ValueFails,
         List, WriteComps, Written, WriteFails, Requeue, Idle
<1>2. ASSUME NEW r, NEW b, PricedAt(r, b) PROVE PricedAt(r, b)'
  BY <1>1, <1>2 DEF PricedAt, CostAt, Landed
<1>3. DOMAIN row' = Columns /\ PricedAt(row', basis')
  <2>1. CASE UNCHANGED <<row, basis>>
    BY <2>1 DEF ScoreInv
  <2>2. ASSUME NEW v, row' = [row EXCEPT !.val = v], basis' = basis
        PROVE  DOMAIN row' = Columns /\ PricedAt(row', basis')
    BY <2>2, StatusKeepsPrice DEF ScoreInv, Columns
  <2>3. CASE Value
    BY <2>3 DEF Value, ScoreInv
  <2>4. QED
    BY <1>1, <2>1, <2>2, <2>3
<1>4. CASE Read
  <2>1. offer' = offer /\ UNCHANGED <<row, basis>>
    BY <1>4 DEF Read, market
  <2>2. CASE ~offer.identified
    <3>1. work' = [at |-> "read", basis |-> basis,
                   new |-> [row EXCEPT !.val = "skipped", !.note = "skipped"]]
      BY <1>4, <2>2 DEF Read
    <3>2. DOMAIN work'.new = Columns /\ PricedAt(work'.new, work'.basis)
      BY <3>1, StatusKeepsPrice DEF ScoreInv, Columns
    <3>3. QED
      BY <1>1, <1>2, <1>3, <3>2 DEF ScoreInv
  <2>3. CASE offer.identified
    <3>1. PICK comps, trimmed :
            work' = [at |-> "read", basis |-> BasisOf(comps), new |-> Priced(trimmed)]
      BY <1>4, <2>3 DEF Read
    <3>2. DOMAIN work'.new = Columns
      BY <3>1 DEF Priced, Columns
    <3>3. /\ work'.basis.price = price
          /\ work'.new.allIn # Null =>
               /\ price # Null /\ work'.new.allIn = Cost
               /\ work'.new.score = DealScore(work'.new.fair.expected, Cost)
      BY <3>1 DEF Priced, BasisOf
    <3>4. Cost = CostAt(price)
      BY DEF Cost, CostAt
    <3>5. PricedAt(work'.new, work'.basis)
      BY <3>3, <3>4 DEF ScoreInv, PricedAt
    <3>6. QED
      BY <1>1, <1>2, <1>3, <3>2, <3>5 DEF ScoreInv
  <2>4. QED
    BY <2>2, <2>3
<1>5. CASE ~Read
  BY <1>1, <1>2, <1>3, <1>5 DEF ScoreInv
<1>6. QED
  BY <1>4, <1>5

\* When a valuation finds the price higher and the fair value unchanged, the offer costs
\* more and, if it is worth anything, scores less.
THEOREM DearerIsWorse == Spec => DearerScoresWorse
<1> DEFINE Dearer ==
      (/\ row.allIn # Null /\ row'.allIn # Null /\ row'.fair = row.fair
       /\ basis'.price > basis.price)
      => /\ row'.allIn > row.allIn
         /\ row.fair.expected \in Nat \ {0} => row'.score < row.score
<1>1. ScoreInv /\ ScoreInv' /\ [Next]_vars => [Dearer]_<<row, basis>>
  <2> SUFFICES ASSUME ScoreInv, ScoreInv', offer' = offer,
                      row.allIn # Null, row'.allIn # Null, row'.fair = row.fair,
                      basis'.price > basis.price
               PROVE  /\ row'.allIn > row.allIn
                      /\ row.fair.expected \in Nat \ {0} => row'.score < row.score
    BY DEF Next, vars, market, Moves, EndPasses, Over, Reprice, Claim, Read, Value, ValueFails,
           List, WriteComps, Written, WriteFails, Requeue
  <2>1. /\ basis.price \in Nat /\ basis'.price \in Nat /\ basis.price < basis'.price
        /\ row.allIn = CostAt(basis.price) /\ row'.allIn = CostAt(basis'.price)
        /\ row.score = DealScore(row.fair.expected, row.allIn)
        /\ row'.score = DealScore(row.fair.expected, row'.allIn)
    BY ValuationAssumption DEF ScoreInv, PricedAt, CostAt, Landed
  <2>2. row.allIn \in Int /\ row'.allIn \in Int /\ row.allIn < row'.allIn
    BY <2>1, CostRises DEF ScoreInv
  <2>3. QED
    BY <2>1, <2>2 DEF DealScore
<1>2. QED
  BY <1>1, ScoreInit, ScoreStep, PTL DEF Spec, DearerScoresWorse

-----------------------------------------------------------------------------
(* What is requeued is heard.                                              *)

Vals == {"pending", "in_progress", "done", "insufficient", "skipped", "failed"}

\* What the operators work for: the groups of identified lots.
Groups ==
  ~(offer.identified /\ offer.kind = "auction") =>
    request.at = Null /\ \A o \in Operators : tool[o].at = "idle"

\* A request that was not too late finds the row still to be valued, and a valuation of
\* it that has read its comps has read what the operator wrote.
RequestHeard ==
  request.at > basis.commits /\ request.found \notin {"underway", "done", "failed", "ended"} =>
    /\ row.val \in {"pending", "in_progress", "failed"}
    /\ work.at = "read" => request.at <= work.basis.commits

RequeueInv ==
  /\ commits \in Nat /\ request.at \in Int /\ request.at <= commits
  /\ basis.commits \in Nat /\ basis.commits <= commits
  /\ "val" \in DOMAIN row /\ row.val \in Vals
  /\ DOMAIN tool = Operators
  /\ work.at \in {"idle", "claimed", "read"}
  /\ work.at = "read" =>
       /\ work.basis.commits \in basis.commits .. commits
       /\ "val" \in DOMAIN work.new /\ work.new.val \in Vals
  /\ Groups
  /\ RequestHeard

LEMMA RequeueInit == Init => RequeueInv
BY DEF Init, RequeueInv, Groups, RequestHeard, Vals, Unpriced, NoBasis, Idle, Null

LEMMA RequeueStep == RequeueInv /\ [Next]_vars => RequeueInv'
<1> SUFFICES ASSUME RequeueInv, [Next]_vars PROVE RequeueInv'
  OBVIOUS
<1> USE DEF RequeueInv, Groups
<1>1. CASE Moves \/ EndPasses \/ Over
  <2>1. /\ row' = row \/ row' = [row EXCEPT !.val = "pending"]
        /\ UNCHANGED <<offer, work, tool, commits, basis, request>>
    BY <1>1 DEF Moves, EndPasses, Over, Reprice
  <2>2. row'.val \in {row.val, "pending"} /\ "val" \in DOMAIN row'
    BY <2>1
  <2>3. QED
    BY <2>1, <2>2 DEF Vals, RequestHeard
<1>2. CASE Claim
  <2>1. /\ row' = [row EXCEPT !.val = "in_progress"] /\ work' = [at |-> "claimed"]
        /\ UNCHANGED <<offer, tool, commits, basis, request>>
    BY <1>2 DEF Claim, market
  <2>2. row'.val = "in_progress" /\ "val" \in DOMAIN row'
    BY <2>1
  <2>3. QED
    BY <2>1, <2>2 DEF Vals, RequestHeard
<1>3. CASE Read
  <2>1. UNCHANGED <<offer, row, tool, commits, basis, request>>
    BY <1>3 DEF Read, market
  <2>2. CASE ~offer.identified
    <3>1. work' = [at |-> "read", basis |-> basis,
                   new |-> [row EXCEPT !.val = "skipped", !.note = "skipped"]]
      BY <1>3, <2>2 DEF Read
    <3>2. "val" \in DOMAIN work'.new /\ work'.new.val = "skipped" /\ work'.basis = basis
      BY <3>1
    <3>3. QED
      BY <2>1, <2>2, <3>1, <3>2 DEF Vals, RequestHeard, Null
  <2>3. CASE offer.identified
    <3>1. PICK comps, trimmed :
            work' = [at |-> "read", basis |-> BasisOf(comps), new |-> Priced(trimmed)]
      BY <1>3, <2>3 DEF Read
    <3>2. "val" \in DOMAIN work'.new /\ work'.new.val \in {"done", "insufficient"}
      BY <3>1 DEF Priced
    <3>3. work'.basis.commits = commits
      BY <3>1 DEF BasisOf
    <3>4. QED
      BY <2>1, <3>1, <3>2, <3>3 DEF Vals, RequestHeard
  <2>4. QED
    BY <2>2, <2>3
<1>4. CASE Value
  <2>1. /\ work.at = "read" /\ work' = Idle /\ row' = work.new /\ basis' = work.basis
        /\ UNCHANGED <<offer, tool, commits, request>>
    BY <1>4 DEF Value, market
  <2>2. RequestHeard'
    BY <2>1 DEF RequestHeard
  <2>3. QED
    BY <2>1, <2>2 DEF Idle
<1>5. CASE ValueFails
  <2>1. /\ row' = [row EXCEPT !.val = "pending"] \/ row' = [row EXCEPT !.val = "failed"]
        /\ work' = Idle
        /\ UNCHANGED <<offer, tool, commits, basis, request>>
    BY <1>5 DEF ValueFails, market
  <2>2. row'.val \in {"pending", "failed"} /\ "val" \in DOMAIN row'
    BY <2>1
  <2>3. QED
    BY <2>1, <2>2 DEF Vals, Idle, RequestHeard
<1>6. ASSUME NEW o \in Operators, List(o) \/ WriteComps(o) \/ WriteFails(o) PROVE RequeueInv'
  <2>1. /\ UNCHANGED <<offer, row, work, commits, basis, request>> /\ DOMAIN tool' = Operators
        /\ offer.identified /\ offer.kind = "auction"
    BY <1>6 DEF List, WriteComps, WriteFails, Selected, market
  <2>2. QED
    BY <2>1 DEF RequestHeard
<1>7. ASSUME NEW o \in Operators, Written(o) PROVE RequeueInv'
  <2>1. /\ UNCHANGED <<offer, row, work, basis, request>> /\ DOMAIN tool' = Operators
        /\ commits' = commits + 1 /\ offer.identified /\ offer.kind = "auction"
    BY <1>7 DEF Written, market
  <2>2. QED
    BY <2>1 DEF RequestHeard
<1>8. ASSUME NEW o \in Operators, Requeue(o) PROVE RequeueInv'
  <2>1. /\ UNCHANGED <<offer, work, commits, basis>> /\ DOMAIN tool' = Operators
        /\ offer.identified /\ offer.kind = "auction"
        /\ row' = [row EXCEPT !.val = IF Selected THEN "pending" ELSE @]
        /\ request' = [at |-> commits,
                       found |-> IF ends # "ahead" THEN "ended"
                                 ELSE IF work.at = "read" THEN "underway" ELSE row.val]
    BY <1>8 DEF Requeue, market
  <2>2. "val" \in DOMAIN row' /\ row'.val = IF Selected THEN "pending" ELSE row.val
    BY <2>1
  <2>3. CASE request'.found \in {"underway", "done", "failed", "ended"}
    BY <2>1, <2>2, <2>3 DEF Vals, RequestHeard
  <2>4. CASE request'.found \notin {"underway", "done", "failed", "ended"}
    <3>1. ends = "ahead" /\ work.at # "read"
          /\ row.val \in {"pending", "in_progress", "insufficient", "skipped"}
      BY <2>1, <2>4 DEF Vals
    <3>2. row'.val \in {"pending", "in_progress"}
      BY <2>1, <2>2, <3>1 DEF Selected, Unsettled
    <3>3. QED
      BY <2>1, <2>2, <3>1, <3>2 DEF Vals, RequestHeard
  <2>5. QED
    BY <2>3, <2>4
<1>9. CASE UNCHANGED vars
  BY <1>9 DEF vars, RequestHeard
<1>10. QED
  BY <1>1, <1>2, <1>3, <1>4, <1>5, <1>6, <1>7, <1>8, <1>9 DEF Next

\* What an operator requeues is valued with what it wrote, unless the requeue came too
\* late for that.
THEOREM RequeueIsServed == Spec => []RequeueServes
<1>1. RequeueInv => RequeueServes
  BY DEF RequeueInv, RequestHeard, RequeueServes
<1>2. QED
  BY <1>1, RequeueInit, RequeueStep, PTL DEF Spec

-----------------------------------------------------------------------------
(* Estimates are replaced.                                                *)

\* A batch is numbered by its commit.  What a writer does not delete of the batches
\* that are there was committed after it began.
EstimatesInv ==
  /\ commits \in Nat
  /\ DOMAIN tool = Operators
  /\ \A b \in synth : b.id \in Nat /\ b.id <= commits
  /\ \A o \in Operators :
       tool[o].at = "writing" =>
         /\ tool[o].since \in Nat /\ tool[o].since <= commits
         /\ \A b \in synth : b.id \in tool[o].doomed \/ tool[o].since < b.id
  /\ EstimatesReplaced

\* Estimates of a group are replaced, never added to, but for write-comps that ran at
\* the same time: of two batches present, the later began before the earlier was
\* committed.
THEOREM NoEstimateTwice == Spec => []EstimatesReplaced
<1> USE DEF EstimatesInv, EstimatesReplaced
<1>1. Init => EstimatesInv
  BY DEF Init, Idle
<1>2. EstimatesInv /\ [Next]_vars => EstimatesInv'
  <2> SUFFICES ASSUME EstimatesInv, [Next]_vars PROVE EstimatesInv'
    OBVIOUS
  <2>1. ASSUME UNCHANGED <<tool, synth, commits>> PROVE EstimatesInv'
    BY <2>1
  <2>2. CASE Moves \/ EndPasses \/ Over \/ Claim \/ Read \/ Value \/ ValueFails
    BY <2>1, <2>2 DEF Moves, EndPasses, Over, Claim, Read, Value, ValueFails
  <2>3. ASSUME NEW o \in Operators, List(o) \/ WriteFails(o) \/ Requeue(o)
        PROVE  EstimatesInv'
    <3>1. /\ DOMAIN tool' = Operators /\ UNCHANGED <<synth, commits>>
          /\ tool'[o].at # "writing"
          /\ \A p \in Operators \ {o} : tool'[p] = tool[p]
      BY <2>3 DEF List, WriteFails, Requeue, Idle
    <3>2. QED
      BY <3>1
  <2>4. ASSUME NEW o \in Operators, WriteComps(o) PROVE EstimatesInv'
    <3>1. /\ DOMAIN tool' = Operators /\ UNCHANGED <<synth, commits>>
          /\ tool'[o].since = commits /\ tool'[o].doomed = Doomed
          /\ \A p \in Operators \ {o} : tool'[p] = tool[p]
      BY <2>4 DEF WriteComps
    <3>2. \A b \in synth : b.id \in Doomed
      BY DEF Doomed
    <3>3. QED
      BY <3>1, <3>2
  <2>5. ASSUME NEW o \in Operators, Written(o) PROVE EstimatesInv'
    <3> DEFINE kept == {b \in synth : b.id \notin tool[o].doomed}
               new == [id |-> commits + 1, since |-> tool[o].since, rows |-> tool[o].rows]
    <3>1. /\ commits' = commits + 1 /\ synth' = kept \cup {new}
          /\ DOMAIN tool' = Operators /\ tool'[o].at = "written"
          /\ \A p \in Operators \ {o} : tool'[p] = tool[p]
          /\ tool[o].at = "writing"
      BY <2>5 DEF Written
    <3>2. new.id = commits + 1 /\ new.since = tool[o].since
      OBVIOUS
    <3>3. \A b \in kept : /\ b \in synth /\ b.id \in Nat /\ b.id <= commits
                          /\ tool[o].since < b.id
      BY <3>1
    <3> HIDE DEF kept, new
    <3>4. \A b \in synth' : b.id \in Nat /\ b.id <= commits'
      BY <3>1, <3>2, <3>3
    <3>5. ASSUME NEW p \in Operators, tool'[p].at = "writing"
          PROVE  /\ tool'[p].since \in Nat /\ tool'[p].since <= commits'
                 /\ \A b \in synth' : b.id \in tool'[p].doomed \/ tool'[p].since < b.id
      <4>1. p # o /\ tool'[p] = tool[p]
        BY <3>1, <3>5
      <4>2. QED
        BY <3>1, <3>2, <3>3, <3>5, <4>1
    <3>6. EstimatesReplaced'
      <4> SUFFICES ASSUME NEW b \in synth', NEW c \in synth', b.id < c.id
                   PROVE  c.since < b.id
        OBVIOUS
      <4>1. b \in kept
        BY <3>1, <3>2, <3>3, <3>4
      <4>2. CASE c \in kept
        BY <3>3, <4>1, <4>2
      <4>3. CASE c = new
        BY <3>2, <3>3, <4>1, <4>3
      <4>4. QED
        BY <3>1, <4>2, <4>3
    <3>7. QED
      BY <3>1, <3>4, <3>5, <3>6
  <2>6. CASE UNCHANGED vars
    BY <2>1, <2>6 DEF vars
  <2>7. QED
    BY <2>2, <2>3, <2>4, <2>5, <2>6 DEF Next
<1>3. QED
  BY <1>1, <1>2, PTL DEF Spec

-----------------------------------------------------------------------------
(* Prices in order.                                                        *)

\* A bag of comparable sales.
IsBag(b) ==
  /\ IsFiniteSet(DOMAIN b)
  /\ \A c \in DOMAIN b : b[c] \in Nat /\ c.price \in Nat /\ c.km \in Nat

LEMMA SizeIsTotal == \A b : Size(b) = Total(b, DOMAIN b)
BY DEF Size, SumFunction, Total

LEMMA SizeNat ==
  ASSUME NEW b, IsBag(b)
  PROVE  Size(b) \in Nat /\ (Size(b) > 0 => \E c \in DOMAIN b : b[c] > 0)
<1> DEFINE D == DOMAIN b
           none == [c \in D |-> 0]
<1>1. IsFiniteSet(D) /\ \A c \in D : b[c] \in Nat
  BY DEF IsBag
<1> HIDE DEF D
<1>2. Total(b, D) \in Nat
  BY <1>1, TotalNat
<1>3. ASSUME \A c \in D : ~ (b[c] > 0) PROVE Total(b, D) <= 0
  <2>1. \A c \in D : b[c] \in Int /\ b[c] \in Int /\ 1 * b[c] <= 0 * b[c]
    BY <1>1, <1>3
  <2>2. 1 * Total(b, D) <= 0 * Total(b, D)
    BY <1>1, <2>1, TotalScaled
  <2>3. QED
    BY <1>2, <2>2
<1>4. QED
  BY <1>2, <1>3, SizeIsTotal DEF D

LEMMA NormalNat == ASSUME NEW c, c.price \in Nat PROVE Normal(c) \in Nat
BY DEF Normal, Multiplier

\* What is counted up to a price: nothing without a sale there, everything when all are.
LEMMA UpToCounts ==
  ASSUME NEW b, IsBag(b), NEW p \in Int
  PROVE  /\ UpTo(b, p) \in Nat
         /\ UpTo(b, p) > 0 => \E c \in DOMAIN b : b[c] > 0 /\ Normal(c) <= p
         /\ (\A c \in DOMAIN b : b[c] > 0 => Normal(c) <= p) => UpTo(b, p) >= Size(b)
<1> DEFINE D == DOMAIN b
           f == [c \in D |-> IF Normal(c) <= p THEN b[c] ELSE 0]
<1>1. IsFiniteSet(D) /\ \A c \in D : b[c] \in Nat /\ Normal(c) \in Nat
  BY NormalNat DEF IsBag
<1>2. UpTo(b, p) = Total(f, D)
  BY DEF UpTo, SumFunction, Total
<1>3. \A c \in D : f[c] = IF Normal(c) <= p THEN b[c] ELSE 0
  OBVIOUS
<1>4. Size(b) = Total(b, D)
  BY SizeIsTotal
<1> HIDE DEF D, f
<1>5. \A c \in D : f[c] \in Nat
  BY <1>1, <1>3
<1>6. Total(f, D) \in Nat
  BY <1>1, <1>5, TotalNat
<1>7. ASSUME \A c \in D : ~ (b[c] > 0 /\ Normal(c) <= p) PROVE ~ (Total(f, D) > 0)
  <2>1. \A c \in D : f[c] \in Int /\ f[c] \in Int /\ 1 * f[c] <= 0 * f[c]
    BY <1>1, <1>3, <1>7
  <2>2. 1 * Total(f, D) <= 0 * Total(f, D)
    BY <1>1, <2>1, TotalScaled
  <2>3. QED
    BY <1>6, <2>2
<1>8. ASSUME \A c \in D : b[c] > 0 => Normal(c) <= p PROVE Total(f, D) >= Total(b, D)
  <2>1. \A c \in D : b[c] \in Int /\ f[c] \in Int /\ 1 * b[c] <= 1 * f[c]
    BY <1>1, <1>3, <1>8
  <2>2. 1 * Total(b, D) <= 1 * Total(f, D)
    BY <1>1, <2>1, TotalScaled
  <2>3. Total(b, D) \in Nat
    BY <1>1, TotalNat
  <2>4. QED
    BY <1>6, <2>2, <2>3
<1>9. QED
  BY <1>2, <1>4, <1>6, <1>7, <1>8 DEF D

\* The k-th price is one there is a sale at or below, and none of the sales is below the
\* first or above the last.
LEMMA KthWithin ==
  ASSUME NEW b, IsBag(b), NEW k \in Nat, 1 <= k, k <= Size(b)
  PROVE  /\ Kth(b, k) \in Nat
         /\ \E c \in DOMAIN b : b[c] > 0 /\ Normal(c) <= Kth(b, k)
         /\ \E c \in DOMAIN b : b[c] > 0 /\ Kth(b, k) <= Normal(c)
         /\ \A l \in Nat : 1 <= l /\ l <= k => Kth(b, l) <= Kth(b, k)
<1> DEFINE D == DOMAIN b
           N == {Normal(c) : c \in D}
           At(l) == {p \in N : UpTo(b, p) >= l}
           P == {Normal(c) : c \in {d \in D : b[d] > 0}}
<1>1. IsFiniteSet(D) /\ \A c \in D : b[c] \in Nat /\ Normal(c) \in Nat
  BY NormalNat DEF IsBag
<1>2. IsFiniteSet(N) /\ N \subseteq Nat
  <2> DEFINE f == [c \in D |-> Normal(c)]
  <2>1. f \in Surjection(D, N)
    BY DEF Surjection
  <2>2. QED
    BY <1>1, <2>1, FS_Surjection
<1>3. \E c \in D : b[c] > 0
  BY SizeNat
<1>4. P \subseteq N /\ P # {} /\ IsFiniteSet(P)
  <2>1. P \subseteq N /\ P # {}
    BY <1>3
  <2>2. QED
    BY <1>2, <2>1, FS_Subset
<1>5. PICK top \in D : b[top] > 0 /\ \A c \in D : b[c] > 0 => Normal(c) <= Normal(top)
  <2>1. \A p \in P : p \in Int
    BY <1>1
  <2> HIDE DEF P
  <2>2. Max(P) \in P /\ \A p \in P : Max(P) >= p
    BY <1>4, <2>1, Extremes
  <2>3. QED
    BY <1>1, <2>2 DEF P
<1>6. \A l : Kth(b, l) = Min(At(l))
  BY DEF Kth
<1>7. ASSUME NEW l \in Nat, 1 <= l, l <= k
      PROVE  /\ Kth(b, l) \in At(l) /\ \A p \in At(l) : Kth(b, l) <= p
             /\ Normal(top) \in At(l)
  <2>1. Normal(top) \in N /\ UpTo(b, Normal(top)) >= Size(b)
    BY <1>1, <1>5, UpToCounts
  <2>2. Normal(top) \in At(l)
    <3>1. Size(b) \in Nat /\ UpTo(b, Normal(top)) \in Nat
      BY <1>1, SizeNat, UpToCounts
    <3>2. QED
      BY <1>7, <2>1, <3>1
  <2>3. IsFiniteSet(At(l)) /\ At(l) # {} /\ \A p \in At(l) : p \in Int
    <3>1. At(l) \subseteq N
      OBVIOUS
    <3>2. IsFiniteSet(At(l))
      BY <1>2, <3>1, FS_Subset
    <3>3. QED
      BY <1>2, <2>2, <3>1, <3>2
  <2> HIDE DEF At
  <2>4. Min(At(l)) \in At(l) /\ \A p \in At(l) : Min(At(l)) <= p
    BY <2>3, Extremes
  <2>5. QED
    BY <1>6, <2>2, <2>4
<1> DEFINE p == Kth(b, k)
<1>8. p \in At(k) /\ p <= Normal(top)
  BY <1>7
<1>9. p \in Nat /\ UpTo(b, p) >= k
  BY <1>2, <1>8
<1> HIDE DEF p
<1>10. \E c \in D : b[c] > 0 /\ Normal(c) <= p
  <2>1. UpTo(b, p) \in Nat /\ UpTo(b, p) > 0
    BY <1>9, UpToCounts
  <2>2. QED
    BY <1>9, <2>1, UpToCounts
<1>11. ASSUME NEW l \in Nat, 1 <= l, l <= k PROVE Kth(b, l) <= p
  <2>1. p \in N /\ UpTo(b, p) \in Nat
    BY <1>8, <1>9, UpToCounts
  <2>2. p \in At(l)
    BY <1>9, <1>11, <2>1
  <2>3. QED
    BY <1>7, <1>11, <2>2
<1>12. QED
  BY <1>5, <1>8, <1>9, <1>10, <1>11 DEF p

LEMMA DecilesWithin ==
  ASSUME NEW b, IsBag(b), Size(b) >= 10
  PROVE  /\ Decile(b, 1) \in Int /\ Decile(b, 9) \in Int
         /\ 10 * Kth(b, 1) <= Decile(b, 1)
         /\ Decile(b, 1) <= 10 * Kth(b, (Size(b) + 1) \div 2)
         /\ 10 * Kth(b, Size(b) \div 2 + 1) <= Decile(b, 9)
         /\ Decile(b, 9) <= 10 * Kth(b, Size(b))
<1> DEFINE n == Size(b)
           cut(i) == (i * (n + 1)) \div 10
<1>1. n \in Nat /\ n >= 10
  BY SizeNat
<1>2. ASSUME NEW i \in {1, 9}
      PROVE  LET j == cut(i)
                 delta == i * (n + 1) - 10 * j
             IN  /\ j \in 1 .. n - 1 /\ delta \in 0 .. 9
                 /\ Decile(b, i) = Kth(b, j) * (10 - delta) + Kth(b, j + 1) * delta
  <2> DEFINE j == cut(i)
  <2>1. j \in Int /\ 1 <= j /\ j <= n - 1 /\ i * (n + 1) - 10 * j \in 0 .. 9
    <3> HIDE DEF n
    <3>1. CASE i = 1
      BY <1>1, <3>1
    <3>2. CASE i = 9
      BY <1>1, <3>2
    <3>3. QED
      BY <3>1, <3>2
  <2>2. Min({n - 1, j}) = j
    <3> HIDE DEF j, n
    <3>1. QED
      BY <1>1, <2>1, MinOfTwo
  <2>3. Max({1, j}) = j
    <3> HIDE DEF j, n
    <3>1. QED
      BY <1>1, <2>1, MaxOfTwo
  <2>4. Max({1, Min({n - 1, (i * (n + 1)) \div 10})}) = j
    BY <2>2, <2>3
  <2>5. QED
    BY <1>1, <2>1, <2>4 DEF Decile
<1> HIDE DEF cut
<1>3. ASSUME NEW i \in {1, 9}
      PROVE  /\ Decile(b, i) \in Int
             /\ 10 * Kth(b, cut(i)) <= Decile(b, i)
             /\ Decile(b, i) <= 10 * Kth(b, cut(i) + 1)
  <2> DEFINE j == cut(i)
             delta == i * (n + 1) - 10 * j
             x == Kth(b, j)
             y == Kth(b, j + 1)
  <2>1. j \in 1 .. n - 1 /\ delta \in 0 .. 9 /\ Decile(b, i) = x * (10 - delta) + y * delta
    BY <1>2
  <2>2. x \in Nat /\ y \in Nat /\ x <= y
    <3>1. j \in Nat /\ j + 1 \in Nat /\ 1 <= j /\ 1 <= j + 1 /\ j <= j + 1 /\ j <= n /\ j + 1 <= n
      BY <1>1, <2>1
    <3> HIDE DEF j
    <3>2. QED
      BY <3>1, KthWithin
  <2> HIDE DEF delta, x, y
  <2>3. \A d \in 0 .. 9 : /\ x * (10 - d) + y * d \in Int
                          /\ 10 * x <= x * (10 - d) + y * d
                          /\ x * (10 - d) + y * d <= 10 * y
    <3> SUFFICES ASSUME NEW d \in 0 .. 9
                 PROVE  /\ x * (10 - d) + y * d \in Int
                        /\ 10 * x <= x * (10 - d) + y * d
                        /\ x * (10 - d) + y * d <= 10 * y
      OBVIOUS
    <3>1. d \in {0, 1, 2, 3, 4, 5, 6, 7, 8, 9}
      OBVIOUS
    <3>2. QED
      BY <2>2, <3>1
  <2>4. QED
    BY <2>1, <2>3 DEF x, y
<1>4. /\ cut(1) \in Nat /\ 1 <= cut(1) /\ cut(1) + 1 <= (n + 1) \div 2 /\ (n + 1) \div 2 <= n
      /\ cut(9) \in Nat /\ n \div 2 + 1 <= cut(9) /\ 1 <= n \div 2 + 1 /\ cut(9) + 1 <= n
      /\ (n + 1) \div 2 \in Nat /\ n \div 2 + 1 \in Nat
  <2> HIDE DEF n
  <2>1. QED
    BY <1>1 DEF cut
<1> HIDE DEF n
<1>5. ASSUME NEW k \in Nat, NEW l \in Nat, 1 <= l, l <= k, k <= n
      PROVE  Kth(b, l) \in Nat /\ Kth(b, k) \in Nat /\ Kth(b, l) <= Kth(b, k)
  <2>1. 1 <= k /\ l <= n
    BY <1>1, <1>5
  <2>2. QED
    BY <1>5, <2>1, KthWithin DEF n
<1>6. /\ Kth(b, 1) \in Nat /\ Kth(b, cut(1)) \in Nat /\ Kth(b, 1) <= Kth(b, cut(1))
  BY <1>1, <1>4, <1>5
<1>7. /\ Kth(b, cut(1) + 1) \in Nat /\ Kth(b, (n + 1) \div 2) \in Nat
      /\ Kth(b, cut(1) + 1) <= Kth(b, (n + 1) \div 2)
  BY <1>4, <1>5
<1>8. /\ Kth(b, n \div 2 + 1) \in Nat /\ Kth(b, cut(9)) \in Nat
      /\ Kth(b, n \div 2 + 1) <= Kth(b, cut(9))
  BY <1>1, <1>4, <1>5
<1>9. /\ Kth(b, cut(9) + 1) \in Nat /\ Kth(b, n) \in Nat /\ Kth(b, cut(9) + 1) <= Kth(b, n)
  BY <1>1, <1>4, <1>5
<1>10. QED
  BY <1>3, <1>6, <1>7, <1>8, <1>9 DEF n

\* The parts of a fair value are in order, between the lowest and the highest of the
\* normalized prices, deciles included (fair_value.py, compute_fair_value).
THEOREM FairInOrder ==
  ASSUME NEW b, IsBag(b), Size(b) >= 5, NEW condition, NEW sparse
  PROVE  LET fair == FairValue(b, condition, sparse)
         IN  /\ 1000 * Kth(b, 1) <= fair.low /\ fair.low <= fair.mid
             /\ fair.mid <= fair.high /\ fair.high <= 1000 * Kth(b, Size(b))
             /\ fair.low <= fair.expected /\ fair.expected <= fair.high
             /\ fair.low \in Int /\ fair.high \in Int
<1> DEFINE n == Size(b)
           lower == Kth(b, (n + 1) \div 2)
           upper == Kth(b, n \div 2 + 1)
           p10 == Band(b)[1]
           p90 == Band(b)[2]
           pos == ConditionPosition(condition, sparse)
           fair == FairValue(b, condition, sparse)
<1>1. n \in Nat /\ n >= 5
  BY SizeNat
<1>2. /\ Kth(b, 1) \in Nat /\ lower \in Nat /\ upper \in Nat /\ Kth(b, n) \in Nat
      /\ Kth(b, 1) <= lower /\ lower <= upper /\ upper <= Kth(b, n)
  <2>1. /\ 1 \in Nat /\ (n + 1) \div 2 \in Nat /\ n \div 2 + 1 \in Nat
        /\ 1 <= (n + 1) \div 2 /\ (n + 1) \div 2 <= n \div 2 + 1 /\ n \div 2 + 1 <= n
        /\ 1 <= 1 /\ 1 <= n \div 2 + 1 /\ (n + 1) \div 2 <= n /\ 1 <= n /\ n <= n
    <3> HIDE DEF n
    <3>1. QED
      BY <1>1
  <2> DEFINE k == (n + 1) \div 2
             l == n \div 2 + 1
  <2> HIDE DEF k, l
  <2>2. /\ Kth(b, 1) \in Nat /\ Kth(b, k) \in Nat /\ Kth(b, l) \in Nat /\ Kth(b, n) \in Nat
        /\ Kth(b, 1) <= Kth(b, k) /\ Kth(b, k) <= Kth(b, l) /\ Kth(b, l) <= Kth(b, n)
    BY <1>1, <2>1, KthWithin DEF k, l
  <2>3. QED
    BY <2>2 DEF k, l
<1>3. Median(b) = 5 * (lower + upper)
  BY DEF Median
<1>4. /\ p10 \in Int /\ p90 \in Int
      /\ 10 * Kth(b, 1) <= p10 /\ p10 <= 10 * lower
      /\ 10 * upper <= p90 /\ p90 <= 10 * Kth(b, n)
  <2>1. CASE n >= 10
    BY <2>1, DecilesWithin DEF Band, HIGH_CONFIDENCE_MIN_COMPS
  <2>2. CASE ~ (n >= 10)
    <3>1. p10 = 10 * Kth(b, 1) /\ p90 = 10 * Kth(b, n)
      BY <2>2 DEF Band, HIGH_CONFIDENCE_MIN_COMPS
    <3> HIDE DEF lower, upper, p10, p90, n
    <3>2. QED
      BY <1>2, <3>1
  <2>3. QED
    BY <2>1, <2>2
<1>5. /\ fair.low = 100 * p10 /\ fair.mid = 100 * Median(b) /\ fair.high = 100 * p90
      /\ fair.expected = 100 * p10 + pos * (p90 - p10)
  BY <1>1 DEF FairValue, INSUFFICIENT_COMPS_THRESHOLD
<1>6. pos \in {0, 25, 35, 50, 75, 100}
  BY DEF ConditionPosition
<1> DEFINE med == Median(b)
<1> HIDE DEF lower, upper, p10, p90, pos, fair, n, med
<1>7. /\ med = 5 * (lower + upper) /\ fair.mid = 100 * med
  BY <1>3, <1>5 DEF med
<1>8. p10 <= med /\ med <= p90 /\ med \in Int /\ p10 <= p90
  BY <1>2, <1>4, <1>7
<1>9. 0 <= pos * (p90 - p10) /\ pos * (p90 - p10) <= 100 * (p90 - p10) /\ pos * (p90 - p10) \in Int
  BY <1>4, <1>6, <1>8
<1>10. 100 * p10 <= fair.expected /\ fair.expected <= 100 * p90
  BY <1>4, <1>5, <1>9
<1>11. QED
  BY <1>2, <1>4, <1>5, <1>7, <1>8, <1>10 DEF fair, n

\* Trimming takes away at most a quarter of the sales, whichever of those at exactly two
\* standard deviations rounding drops: no more of them can lie that far from the mean
\* (fair_value.py, _trim_mileage_outliers).
THEOREM TrimKeepsMost ==
  ASSUME NEW b, IsBag(b), NEW lost \in SUBSET AtEdge(b)
  PROVE  LET t == Trimmed(b, lost)
         IN  /\ IsBag(t) /\ DOMAIN t = DOMAIN b
             /\ \A c \in DOMAIN b : t[c] > 0 => b[c] > 0
             /\ 4 * (Size(b) - Size(t)) <= Size(b)
<1> DEFINE D == DOMAIN b
           n == Size(b)
           t == Trimmed(b, lost)
           dropped == Far(b) \cup lost
           dev == Deviation(b)
           q == [d \in D |-> b[d] * dev[d] * dev[d]]
           spread == SumFunction(q)
           drop == [c \in D |-> IF c \in dropped THEN b[c] ELSE 0]
<1>1. CASE n < MIN_COMPS_FOR_OUTLIER_TRIM
  <2>1. t = b /\ Size(t) = n /\ n \in Nat
    BY <1>1, SizeNat DEF Trimmed
  <2> HIDE DEF t, n
  <2>2. 4 * (n - Size(t)) <= n
    BY <2>1
  <2>3. QED
    BY <2>1, <2>2 DEF t, n
<1>2. CASE ~ (n < MIN_COMPS_FOR_OUTLIER_TRIM)
  <2>1. t = [c \in D |-> IF c \in dropped THEN 0 ELSE b[c]]
    BY <1>2 DEF Trimmed
  <2>2. IsFiniteSet(D) /\ \A c \in D : b[c] \in Nat /\ c.price \in Nat /\ c.km \in Nat
    BY DEF IsBag
  <2>3. DOMAIN t = D /\ IsBag(t) /\ \A c \in D : t[c] = IF c \in dropped THEN 0 ELSE b[c]
    <3>1. DOMAIN t = D /\ \A c \in D : t[c] = IF c \in dropped THEN 0 ELSE b[c]
      BY <2>1
    <3> HIDE DEF t, dropped, D
    <3>2. IsBag(t)
      BY <2>2, <3>1 DEF IsBag
    <3>3. QED
      BY <3>1, <3>2
  <2>4. n \in Nat /\ n = Total(b, D) /\ Size(t) \in Nat /\ Size(t) = Total(t, D)
    BY <2>3, SizeNat, SizeIsTotal
  <2>5. \A c \in D : dev[c] \in Int
    <3> DEFINE g == [d \in D |-> b[d] * d.km]
    <3>1. \A c \in D : g[c] \in Int
      BY <2>2
    <3>2. SumFunction(g) = Total(g, D)
      BY DEF SumFunction, Total
    <3> HIDE DEF g
    <3>3. SumFunction(g) \in Int
      BY <2>2, <3>1, <3>2, TotalType
    <3>4. dev = [c \in D |-> n * c.km - SumFunction(g)]
      BY DEF Deviation, g
    <3> HIDE DEF dev, n, D
    <3>5. QED
      BY <2>2, <2>4, <3>3, <3>4
  <2>6. spread = Total(q, D)
    BY DEF SumFunction, Total
  <2>7. \A c \in D : q[c] = b[c] * dev[c] * dev[c] /\ q[c] \in Nat
    <3>1. ASSUME NEW x \in Nat, NEW y \in Int PROVE x * y * y \in Nat
      <4>1. y * y \in Nat
        OBVIOUS
      <4> DEFINE z == y * y
      <4>2. x * y * y = x * z
        OBVIOUS
      <4> HIDE DEF z
      <4>3. x * z \in Nat
        BY <4>1 DEF z
      <4>4. QED
        BY <4>2, <4>3
    <3> HIDE DEF dev, D
    <3>2. QED
      BY <2>2, <2>5, <3>1
  <2>8. spread \in Nat
    <3> HIDE DEF q, D, spread
    <3>1. QED
      BY <2>2, <2>6, <2>7, TotalNat
  <2>9. \A c \in D : drop[c] = IF c \in dropped THEN b[c] ELSE 0
    OBVIOUS
  <2>10. \A c \in dropped : /\ c \in D /\ spread # 0
                            /\ n * dev[c] * dev[c] - 4 * spread >= 0
    <3>1. Excess(b) = [c \in D |-> IF spread = 0 THEN -1
                                   ELSE n * dev[c] * dev[c] - 4 * spread]
      BY DEF Excess
    <3>2. \A c \in dropped : c \in D /\ (Excess(b)[c] > 0 \/ Excess(b)[c] = 0)
      BY DEF Far, AtEdge
    <3> HIDE DEF dropped, spread, dev, D, n
    <3>3. ASSUME NEW c \in dropped
          PROVE  c \in D /\ spread # 0 /\ n * dev[c] * dev[c] - 4 * spread >= 0
      <4> DEFINE x == IF spread = 0 THEN -1 ELSE n * dev[c] * dev[c] - 4 * spread
      <4>1. c \in D /\ (Excess(b)[c] > 0 \/ Excess(b)[c] = 0)
        BY <3>2
      <4>2. Excess(b)[c] = x
        BY <3>1, <4>1
      <4>3. x \in Int
        BY <2>4, <2>5, <2>8, <4>1
      <4>4. x >= 0
        <5> HIDE DEF x
        <5>1. QED
          BY <4>1, <4>2, <4>3
      <4>5. QED
        BY <4>1, <4>4
    <3>4. QED
      BY <3>3
  <2> HIDE DEF D, n, t, dropped, dev, q, spread, drop
  <2>11. \A c \in D : /\ drop[c] \in Nat /\ t[c] \in Int /\ b[c] = t[c] + drop[c]
                      /\ 4 * spread * drop[c] <= n * q[c]
    <3> SUFFICES ASSUME NEW c \in D
                 PROVE  /\ drop[c] \in Nat /\ t[c] \in Int /\ b[c] = t[c] + drop[c]
                        /\ 4 * spread * drop[c] <= n * q[c]
      OBVIOUS
    <3>1. drop[c] \in Nat /\ t[c] \in Int /\ b[c] = t[c] + drop[c]
      BY <2>2, <2>3, <2>9
    <3>2. CASE c \notin dropped
      <4>1. drop[c] = 0 /\ n * q[c] \in Nat
        BY <2>4, <2>7, <2>9, <3>2
      <4>2. QED
        BY <2>8, <3>1, <4>1
    <3>3. CASE c \in dropped
      <4> DEFINE x == b[c]
                 y == dev[c]
      <4>1. x \in Nat /\ y \in Int /\ drop[c] = x /\ q[c] = x * y * y
        BY <2>2, <2>5, <2>7, <2>9, <3>3
      <4>2. n * y * y - 4 * spread >= 0
        BY <2>10, <3>3
      <4> HIDE DEF x, y
      <4> DEFINE u == n * y * y
                 v == 4 * spread
      <4>3. u \in Int /\ v \in Int /\ u - v >= 0 /\ v <= u
        BY <2>4, <2>8, <4>1, <4>2
      <4>4. n * (x * y * y) = u * x
        BY <2>4, <4>1
      <4> HIDE DEF u
      <4>5. v * x <= u * x
        BY <4>1, <4>3, TimesMonotone
      <4>6. 4 * spread * drop[c] = v * x
        BY <4>1
      <4>7. QED
        BY <3>1, <4>1, <4>4, <4>5, <4>6
    <3>4. QED
      BY <3>2, <3>3
  <2>12. n = Size(t) + Total(drop, D) /\ Total(drop, D) \in Nat
    <3>1. \A c \in D : t[c] \in Int /\ drop[c] \in Int /\ b[c] = t[c] + drop[c]
      BY <2>11
    <3>2. Total(b, D) = Total(t, D) + Total(drop, D)
      BY <2>2, <3>1, TotalSum
    <3>3. Total(drop, D) \in Nat
      BY <2>2, <2>11, TotalNat
    <3>4. QED
      BY <2>4, <3>2, <3>3
  <2>13. 4 * spread * Total(drop, D) <= n * spread
    <3> DEFINE a == 4 * spread
    <3>1. a \in Int /\ n \in Int
      BY <2>4, <2>8
    <3>2. \A c \in D : drop[c] \in Int /\ q[c] \in Int /\ a * drop[c] <= n * q[c]
      BY <2>7, <2>11
    <3> HIDE DEF a
    <3>3. a * Total(drop, D) <= n * Total(q, D)
      BY <2>2, <3>1, <3>2, TotalScaled
    <3>4. QED
      BY <2>6, <3>3 DEF a
  <2>14. 4 * Total(drop, D) <= n
    <3>1. CASE spread = 0
      <4>1. \A c \in D : drop[c] \in Int /\ b[c] \in Int /\ 1 * drop[c] <= 0 * b[c]
        BY <2>2, <2>9, <2>10, <3>1
      <4>2. 1 * Total(drop, D) <= 0 * Total(b, D)
        BY <2>2, <4>1, TotalScaled
      <4>3. QED
        BY <2>4, <2>12, <4>2
    <3>2. CASE spread # 0
      <4> DEFINE m == Total(drop, D)
      <4>1. spread \in Nat \ {0} /\ m \in Nat /\ n \in Nat
        BY <2>4, <2>8, <2>12, <3>2
      <4>2. 4 * spread * m <= n * spread
        BY <2>13
      <4> HIDE DEF m
      <4>3. ASSUME n < 4 * m PROVE FALSE
        <5>1. n * spread < 4 * m * spread
          BY <4>1, <4>3, TimesStrict
        <5>2. 4 * m * spread = 4 * spread * m
          BY <4>1
        <5>3. n * spread \in Int /\ 4 * spread * m \in Int
          BY <4>1
        <5>4. QED
          BY <4>2, <5>1, <5>2, <5>3
      <4>4. 4 * m <= n
        BY <4>1, <4>3
      <4>5. QED
        BY <4>4 DEF m
    <3>3. QED
      BY <3>1, <3>2
  <2>15. 4 * (n - Size(t)) <= n
    BY <2>4, <2>12, <2>14
  <2>16. \A c \in D : t[c] > 0 => b[c] > 0
    BY <2>3
  <2>17. QED
    BY <2>3, <2>15, <2>16 DEF t, n, D
<1>3. QED
  BY <1>1, <1>2

-----------------------------------------------------------------------------
(* A fair value is sound.                                                  *)

\* The columns r, written on the basis b, are sound.
FairOn(r, b) ==
  /\ r.fair.low # Null =>
       /\ 1000 * b.least <= r.fair.low /\ r.fair.low <= r.fair.mid
       /\ r.fair.mid <= r.fair.high /\ r.fair.high <= 1000 * b.most
       /\ r.fair.low <= r.fair.expected /\ r.fair.expected <= r.fair.high
  /\ r.val = "insufficient" => b.size <= 5
  /\ offer.common /\ Fitting /\ b.commits > 0 /\ r.val = "insufficient" => b.size = 5

\* Every batch written, and on its way, has the number asked for.
ResearchInv ==
  /\ offer \in Offers /\ price \in Prices \cup {Null} /\ real \in Recorded
  /\ IsFiniteSet(synth) /\ commits \in Nat /\ (commits > 0 => synth # {})
  /\ \A b \in synth : b.rows \in Batches /\ (offer.common => Size(b.rows) >= 5)
  /\ DOMAIN tool = Operators
  /\ \A o \in Operators :
       /\ tool[o].at \in {"listed", "writing"} /\ offer.common => tool[o].need = 5
       /\ tool[o].at = "writing" =>
            tool[o].rows \in Batches /\ (offer.common => Size(tool[o].rows) >= 5)

LEMMA CompsOfMarket ==
  ASSUME ResearchInv
  PROVE  /\ IsBag(Comps)
         /\ \A b \in synth : Fitting => Size(Comps) >= Size(b.rows)
<1> DEFINE D == Sales \cup Own
           est(c) == SumFunction([b \in synth |-> b.rows[c]])
<1>1. IsFiniteSet(Sales) /\ \A c \in Sales : c.price \in Nat /\ c.km \in Nat
  BY ValuationAssumption
<1>2. offer.km \in Nat /\ real \in [Sales -> Nat]
  BY ValuationAssumption DEF ResearchInv, OfferOK
<1>3. IsFiniteSet(Own) /\ \A c \in Own : c.price \in Nat /\ c.km \in Nat
  <2>1. Own \subseteq {OwnRow} /\ (Own # {} => price # Null)
    BY DEF Own
  <2>2. IsFiniteSet(Own)
    BY <2>1, FS_Singleton, FS_Subset
  <2>3. price # Null => price \in Nat
    BY ValuationAssumption DEF ResearchInv
  <2>4. OwnRow.price = price /\ OwnRow.km = offer.km
    BY DEF OwnRow
  <2>5. QED
    BY <1>2, <2>1, <2>2, <2>3, <2>4
<1>4. IsFiniteSet(D) /\ \A c \in D : c.price \in Nat /\ c.km \in Nat
  BY <1>1, <1>3, FS_Union
<1>5. \A b \in synth : b.rows \in [Sales -> Nat]
  BY ValuationAssumption DEF ResearchInv
<1>6. ASSUME NEW c \in Sales
      PROVE  est(c) \in Nat /\ \A b \in synth : b.rows[c] <= est(c)
  <2> DEFINE f == [b \in synth |-> b.rows[c]]
  <2>1. \A b \in synth : f[b] = b.rows[c] /\ f[b] \in Nat
    BY <1>5
  <2>2. est(c) = Total(f, synth)
    BY DEF SumFunction, Total
  <2> HIDE DEF f, est
  <2>3. IsFiniteSet(synth)
    BY DEF ResearchInv
  <2>4. Total(f, synth) \in Nat /\ \A b \in synth : f[b] <= Total(f, synth)
    BY <2>1, <2>3, TotalNat
  <2>5. QED
    BY <2>1, <2>2, <2>4
<1>7. DOMAIN Comps = D /\ \A c \in D :
        Comps[c] = IF ~InBand(c) THEN 0
                   ELSE (IF c \in Sales THEN real[c] + est(c) ELSE 0)
                        + (IF c \in Own THEN 1 ELSE 0)
  BY DEF Comps
<1> HIDE DEF est, D
<1>8. Sales \subseteq D
  BY DEF D
<1>9. \A c \in D : Comps[c] \in Nat
  BY <1>2, <1>6, <1>7
<1>10. IsBag(Comps)
  BY <1>4, <1>7, <1>9 DEF IsBag
<1>11. ASSUME NEW b \in synth, Fitting PROVE Size(Comps) >= Size(b.rows)
  <2> DEFINE rows == b.rows
  <2>1. rows \in [Sales -> Nat] /\ DOMAIN rows = Sales
    BY <1>5
  <2>2. \A c \in Sales : rows[c] > 0 => InBand(c)
    BY <1>11 DEF Fitting, ResearchInv
  <2>3. \A c \in Sales : rows[c] <= est(c)
    BY <1>6
  <2> HIDE DEF rows
  <2>4. \A c \in Sales : rows[c] \in Int /\ Comps[c] \in Int /\ 1 * rows[c] <= 1 * Comps[c]
    <3> SUFFICES ASSUME NEW c \in Sales
                 PROVE  rows[c] \in Int /\ Comps[c] \in Int /\ 1 * rows[c] <= 1 * Comps[c]
      OBVIOUS
    <3>1. c \in D /\ rows[c] \in Nat /\ Comps[c] \in Nat /\ est(c) \in Nat /\ real[c] \in Nat
      BY <1>2, <1>6, <1>8, <1>9, <2>1
    <3>2. rows[c] <= Comps[c]
      BY <1>7, <2>2, <2>3, <3>1
    <3>3. QED
      BY <3>1, <3>2
  <2>5. 1 * Total(rows, Sales) <= 1 * Total(Comps, Sales)
    BY <1>1, <2>4, TotalScaled
  <2>6. Total(Comps, Sales) <= Total(Comps, D) /\ Total(Comps, D) \in Nat
    BY <1>4, <1>8, <1>9, TotalNat
  <2>7. Total(rows, Sales) \in Int /\ Total(Comps, Sales) \in Int
    BY <1>1, <2>4, TotalType
  <2>8. Size(rows) = Total(rows, Sales) /\ Size(Comps) = Total(Comps, D)
    BY <1>7, <2>1, SizeIsTotal
  <2>9. QED
    BY <2>5, <2>6, <2>7, <2>8 DEF rows
<1>12. QED
  BY <1>10, <1>11

\* A basis bounds the prices there are.
LEMMA BasisBounds ==
  ASSUME NEW b, IsBag(b), Size(b) > 0, NEW c \in DOMAIN b, b[c] > 0
  PROVE  /\ BasisOf(b).least \in Int /\ BasisOf(b).most \in Int
         /\ BasisOf(b).least <= Normal(c) /\ Normal(c) <= BasisOf(b).most
<1> DEFINE D == {d \in DOMAIN b : b[d] > 0}
           P == {Normal(d) : d \in D}
<1>1. IsFiniteSet(D)
  BY FS_Subset DEF IsBag
<1>2. IsFiniteSet(P)
  <2> DEFINE f == [d \in D |-> Normal(d)]
  <2>1. f \in Surjection(D, P)
    BY DEF Surjection
  <2>2. QED
    BY <1>1, <2>1, FS_Surjection
<1>3. \A p \in P : p \in Int
  BY NormalNat DEF IsBag
<1>4. Normal(c) \in P
  OBVIOUS
<1>5. BasisOf(b).least = Min(P) /\ BasisOf(b).most = Max(P)
  BY SizeNat DEF BasisOf
<1> HIDE DEF P
<1>6. /\ Min(P) \in P /\ \A x \in P : Min(P) <= x
      /\ Max(P) \in P /\ \A x \in P : Max(P) >= x
  BY <1>2, <1>3, <1>4, Extremes
<1>7. QED
  BY <1>3, <1>4, <1>5, <1>6

LEMMA PricedSound ==
  ASSUME ResearchInv, NEW lost \in SUBSET AtEdge(Comps)
  PROVE  FairOn(Priced(Trimmed(Comps, lost)), BasisOf(Comps))
<1> DEFINE b == Comps
           t == Trimmed(b, lost)
           fair == FairValue(t, offer.condition, offer.sparse)
           r == Priced(t)
           m == BasisOf(b)
<1>1. IsBag(b) /\ \A e \in synth : Fitting => Size(b) >= Size(e.rows)
  BY CompsOfMarket
<1>2. /\ IsBag(t) /\ DOMAIN t = DOMAIN b /\ \A c \in DOMAIN b : t[c] > 0 => b[c] > 0
      /\ 4 * (Size(b) - Size(t)) <= Size(b)
  BY <1>1, TrimKeepsMost
<1>3. Size(b) \in Nat /\ Size(t) \in Nat
  BY <1>1, <1>2, SizeNat
<1>4. r.fair = fair /\ r.val = IF fair.confidence # "insufficient" THEN "done" ELSE "insufficient"
  BY DEF Priced
<1>5. m.size = Size(b) /\ m.commits = commits
  BY DEF BasisOf
<1> HIDE DEF b, t, fair, r, m
<1>6. CASE Size(t) < 5
  <2>1. fair.low = Null
    BY <1>6 DEF fair, FairValue, INSUFFICIENT_COMPS_THRESHOLD, Unvalued
  <2>2. Size(b) <= 5
    BY <1>2, <1>3, <1>6
  <2>3. ASSUME offer.common, Fitting, commits > 0 PROVE Size(b) = 5
    <3>1. PICK e \in synth : Size(e.rows) >= 5 /\ e.rows \in [Sales -> Nat]
      BY <2>3, ValuationAssumption DEF ResearchInv
    <3>2. Size(b) >= Size(e.rows)
      BY <1>1, <2>3, <3>1
    <3>3. Size(e.rows) \in Nat
      BY <3>1, SizeNat, ValuationAssumption DEF IsBag
    <3>4. QED
      BY <1>3, <2>2, <3>1, <3>2, <3>3
  <2>4. QED
    BY <1>4, <1>5, <2>1, <2>2, <2>3 DEF FairOn, r, m, t, b
<1>7. CASE ~ (Size(t) < 5)
  <2>1. Size(t) >= 5
    BY <1>3, <1>7
  <2>2. r.val = "done"
    BY <1>4, <1>7 DEF fair, FairValue, INSUFFICIENT_COMPS_THRESHOLD
  <2> DEFINE n == Size(t)
  <2>3. /\ 1000 * Kth(t, 1) <= fair.low /\ fair.low <= fair.mid
        /\ fair.mid <= fair.high /\ fair.high <= 1000 * Kth(t, n)
        /\ fair.low <= fair.expected /\ fair.expected <= fair.high
    BY <1>2, <2>1, FairInOrder DEF fair
  <2>4. PICK c \in DOMAIN b : b[c] > 0 /\ Normal(c) <= Kth(t, 1) /\ Kth(t, 1) \in Nat
    <3>1. 1 \in Nat /\ 1 <= 1 /\ 1 <= Size(t)
      BY <1>3, <2>1
    <3>2. Kth(t, 1) \in Nat /\ \E c \in DOMAIN t : t[c] > 0 /\ Normal(c) <= Kth(t, 1)
      BY <1>2, <3>1, KthWithin
    <3>3. QED
      BY <1>2, <3>2
  <2>5. PICK d \in DOMAIN b : b[d] > 0 /\ Kth(t, n) <= Normal(d) /\ Kth(t, n) \in Nat
    <3>1. n \in Nat /\ 1 <= n /\ n <= Size(t)
      BY <1>3, <2>1
    <3>2. Kth(t, n) \in Nat /\ \E d \in DOMAIN t : t[d] > 0 /\ Kth(t, n) <= Normal(d)
      BY <1>2, <3>1, KthWithin
    <3>3. QED
      BY <1>2, <3>2
  <2>6. Size(b) > 0
    <3>1. b[c] \in Nat /\ b[c] <= Total(b, DOMAIN b)
      BY <1>1, TotalNat DEF IsBag
    <3>2. QED
      BY <1>3, <2>4, <3>1, SizeIsTotal
  <2>7. /\ m.least \in Int /\ m.most \in Int /\ m.least <= Normal(c) /\ Normal(d) <= m.most
    BY <1>1, <2>4, <2>5, <2>6, BasisBounds DEF m
  <2>8. Normal(c) \in Nat /\ Normal(d) \in Nat
    BY <1>1, NormalNat DEF IsBag
  <2>9. m.least <= Kth(t, 1) /\ Kth(t, n) <= m.most
    BY <2>4, <2>5, <2>7, <2>8
  <2>10. fair.low \in Int /\ fair.high \in Int
    BY <1>2, <2>1, FairInOrder DEF fair
  <2>11. 1000 * m.least <= fair.low /\ fair.high <= 1000 * m.most
    BY <2>3, <2>4, <2>5, <2>7, <2>9, <2>10
  <2>12. QED
    BY <1>4, <2>2, <2>3, <2>11 DEF FairOn, r, m, t, b
<1>8. QED
  BY <1>6, <1>7

LEMMA ResearchInit == Init => ResearchInv
<1> SUFFICES ASSUME Init PROVE ResearchInv
  OBVIOUS
<1>1. IsFiniteSet({})
  BY FS_EmptySet
<1>2. QED
  BY <1>1 DEF Init, ResearchInv, Idle

LEMMA ResearchStep == ResearchInv /\ [Next]_vars => ResearchInv'
<1> SUFFICES ASSUME ResearchInv, [Next]_vars PROVE ResearchInv'
  OBVIOUS
<1> USE DEF ResearchInv
<1>1. offer' = offer /\ real' = real /\ (price' = price \/ price' \in Prices)
  BY DEF Next, vars, market, Moves, EndPasses, Over, Reprice, Claim, Read, Value, ValueFails,
         List, WriteComps, Written, WriteFails, Requeue
<1>2. CASE UNCHANGED <<synth, tool, commits>>
  BY <1>1, <1>2
<1>3. ASSUME NEW o \in Operators, List(o) \/ Requeue(o) PROVE ResearchInv'
  <2>1. /\ UNCHANGED <<synth, commits>> /\ DOMAIN tool' = Operators
        /\ tool'[o].at # "writing" /\ (tool'[o].at = "listed" /\ offer.common => tool'[o].need = 5)
        /\ \A p \in Operators \ {o} : tool'[p] = tool[p]
    BY <1>3 DEF List, Requeue, Idle
  <2>2. QED
    BY <1>1, <2>1
<1>4. ASSUME NEW o \in Operators, WriteComps(o) PROVE ResearchInv'
  <2>1. PICK rows \in Batches :
          /\ Size(rows) >= tool[o].need
          /\ tool' = [tool EXCEPT ![o] = [at |-> "writing", need |-> tool[o].need, rows |-> rows,
                                          doomed |-> Doomed, since |-> commits]]
    BY <1>4 DEF WriteComps
  <2>2. UNCHANGED <<synth, commits>> /\ tool[o].at = "listed"
    BY <1>4 DEF WriteComps
  <2>3. /\ DOMAIN tool' = Operators /\ tool'[o].need = tool[o].need /\ tool'[o].rows = rows
        /\ \A p \in Operators \ {o} : tool'[p] = tool[p]
    BY <2>1
  <2>4. offer.common => Size(rows) >= 5 /\ tool[o].need = 5
    BY <2>1, <2>2
  <2>5. QED
    BY <1>1, <2>2, <2>3, <2>4
<1>5. ASSUME NEW o \in Operators, Written(o) PROVE ResearchInv'
  <2> DEFINE kept == {b \in synth : b.id \notin tool[o].doomed}
             new == [id |-> commits + 1, since |-> tool[o].since, rows |-> tool[o].rows]
  <2>1. /\ commits' = commits + 1 /\ synth' = kept \cup {new}
        /\ DOMAIN tool' = Operators /\ tool'[o].at = "written" /\ tool[o].at = "writing"
        /\ \A p \in Operators \ {o} : tool'[p] = tool[p]
    BY <1>5 DEF Written
  <2>2. IsFiniteSet(synth') /\ kept \subseteq synth
    <3>1. IsFiniteSet(kept)
      BY FS_Subset
    <3>2. QED
      BY <2>1, <3>1, FS_AddElement
  <2>3. new.rows = tool[o].rows
    OBVIOUS
  <2> HIDE DEF kept, new
  <2>4. \A b \in synth' : b.rows \in Batches /\ (offer.common => Size(b.rows) >= 5)
    BY <2>1, <2>2, <2>3
  <2>5. QED
    BY <1>1, <2>1, <2>2, <2>4
<1>6. ASSUME NEW o \in Operators, WriteFails(o) PROVE ResearchInv'
  <2>1. /\ UNCHANGED <<synth, commits>> /\ DOMAIN tool' = Operators /\ tool[o].at = "writing"
        /\ tool'[o].at = "listed" /\ tool'[o].need = tool[o].need
        /\ \A p \in Operators \ {o} : tool'[p] = tool[p]
    BY <1>6 DEF WriteFails
  <2>2. QED
    BY <1>1, <2>1
<1>7. CASE Moves \/ EndPasses \/ Over \/ Claim \/ Read \/ Value \/ ValueFails \/ UNCHANGED vars
  BY <1>2, <1>7 DEF vars, Moves, EndPasses, Over, Claim, Read, Value, ValueFails
<1>8. QED
  BY <1>3, <1>4, <1>5, <1>6, <1>7 DEF Next

FairInv ==
  /\ ResearchInv
  /\ DOMAIN row = Columns
  /\ FairOn(row, basis)
  /\ work.at = "read" => DOMAIN work.new = Columns /\ FairOn(work.new, work.basis)

\* A status keeps columns sound, unless it newly says that comps are short.
LEMMA StatusKeepsFair ==
  ASSUME NEW r, NEW b, DOMAIN r = Columns, FairOn(r, b), NEW v,
         v # "insufficient" \/ v = r.val, NEW n
  PROVE  /\ DOMAIN [r EXCEPT !.val = v] = Columns /\ FairOn([r EXCEPT !.val = v], b)
         /\ DOMAIN [r EXCEPT !.val = v, !.note = n] = Columns
         /\ FairOn([r EXCEPT !.val = v, !.note = n], b)
<1> DEFINE r2 == [r EXCEPT !.val = v]
           r3 == [r EXCEPT !.val = v, !.note = n]
<1>1. /\ r2.fair = r.fair /\ r2.val = v /\ DOMAIN r2 = Columns
      /\ r3.fair = r.fair /\ r3.val = v /\ DOMAIN r3 = Columns
  BY DEF Columns
<1> HIDE DEF r2, r3
<1>2. FairOn(r2, b) /\ FairOn(r3, b)
  BY <1>1 DEF FairOn
<1>3. QED
  BY <1>1, <1>2 DEF r2, r3

LEMMA FairStep == FairInv /\ [Next]_vars => FairInv'
<1> SUFFICES ASSUME FairInv, [Next]_vars PROVE FairInv'
  OBVIOUS
<1>1. ResearchInv' /\ offer' = offer
  BY ResearchStep DEF FairInv, Next, vars, market, Moves, EndPasses, Over, Claim, Read, Value,
     ValueFails, List, WriteComps, Written, WriteFails, Requeue
<1>2. ASSUME NEW r, NEW b PROVE FairOn(r, b)' <=> FairOn(r, b)
  BY <1>1 DEF FairOn, Fitting, InBand
<1>3. CASE UNCHANGED <<row, basis, work>>
  BY <1>1, <1>2, <1>3 DEF FairInv
<1>4. ASSUME NEW v, v # "insufficient" \/ v = row.val, row' = [row EXCEPT !.val = v],
             basis' = basis, work' = work \/ work'.at # "read"
      PROVE  FairInv'
  BY <1>1, <1>2, <1>4, StatusKeepsFair DEF FairInv
<1>5. CASE Moves \/ EndPasses \/ Over
  <2>1. (row' = row \/ row' = [row EXCEPT !.val = "pending"]) /\ UNCHANGED <<basis, work>>
    BY <1>5 DEF Moves, EndPasses, Over, Reprice
  <2>2. QED
    BY <1>3, <1>4, <2>1
<1>6. CASE Claim \/ ValueFails
  <2>1. /\ basis' = basis /\ work'.at # "read"
        /\ \E v \in {"in_progress", "pending", "failed"} : row' = [row EXCEPT !.val = v]
    BY <1>6 DEF Claim, ValueFails, Idle
  <2>2. QED
    BY <1>4, <2>1
<1>7. CASE Value
  <2>1. work.at = "read" /\ row' = work.new /\ basis' = work.basis /\ work'.at # "read"
    BY <1>7 DEF Value, Idle
  <2>2. QED
    BY <1>1, <1>2, <2>1 DEF FairInv
<1>8. CASE Read
  <2>1. UNCHANGED <<row, basis>>
    BY <1>8 DEF Read
  <2>2. CASE ~offer.identified
    <3>1. work' = [at |-> "read", basis |-> basis,
                   new |-> [row EXCEPT !.val = "skipped", !.note = "skipped"]]
      BY <1>8, <2>2 DEF Read
    <3>2. DOMAIN work'.new = Columns /\ FairOn(work'.new, work'.basis)
      BY <3>1, StatusKeepsFair DEF FairInv
    <3>3. QED
      BY <1>1, <1>2, <2>1, <3>2 DEF FairInv
  <2>3. CASE offer.identified
    <3>1. PICK lost \in SUBSET AtEdge(Comps) :
            work' = [at |-> "read", basis |-> BasisOf(Comps), new |-> Priced(Trimmed(Comps, lost))]
      BY <1>8, <2>3 DEF Read
    <3>2. FairOn(Priced(Trimmed(Comps, lost)), BasisOf(Comps))
      BY PricedSound DEF FairInv
    <3>3. DOMAIN work'.new = Columns /\ FairOn(work'.new, work'.basis)
      <4> DEFINE r == Priced(Trimmed(Comps, lost))
      <4>1. DOMAIN r = Columns
        BY DEF Priced, Columns
      <4> HIDE DEF r
      <4>2. work'.new = r /\ work'.basis = BasisOf(Comps)
        BY <3>1 DEF r
      <4>3. QED
        BY <3>2, <4>1, <4>2 DEF r
    <3>4. QED
      BY <1>1, <1>2, <2>1, <3>3 DEF FairInv
  <2>4. QED
    BY <2>2, <2>3
<1>9. ASSUME NEW o \in Operators, List(o) \/ WriteComps(o) \/ Written(o) \/ WriteFails(o)
      PROVE  FairInv'
  BY <1>3, <1>9 DEF List, WriteComps, Written, WriteFails
<1>10. ASSUME NEW o \in Operators, Requeue(o) PROVE FairInv'
  <2> DEFINE v == IF Selected THEN "pending" ELSE row.val
  <2>1. UNCHANGED <<basis, work>> /\ row' = [row EXCEPT !.val = v]
    BY <1>10 DEF Requeue
  <2>2. v # "insufficient" \/ v = row.val
    OBVIOUS
  <2> HIDE DEF v
  <2>3. QED
    BY <1>4, <2>1, <2>2
<1>11. CASE UNCHANGED vars
  BY <1>3, <1>11 DEF vars
<1>12. QED
  BY <1>5, <1>6, <1>7, <1>8, <1>9, <1>10, <1>11 DEF Next

\* A fair value lies within the normalized prices it was made of, its parts in order;
\* an offer with six or more comps has one, and so has an offer of a common make, but
\* for exactly five comps, once the number asked for was written for its mileage.
THEOREM FairIsSound == Spec => []FairValueSound
<1>1. Init => FairInv
  BY ResearchInit DEF Init, FairInv, FairOn, Columns, Unpriced, Unvalued, NoBasis, Idle, Null
<1>2. FairInv => FairValueSound
  BY DEF FairInv, FairOn, FairValueSound, INSUFFICIENT_COMPS_THRESHOLD
<1>3. QED
  BY <1>1, <1>2, FairStep, PTL DEF Spec
=============================================================================
