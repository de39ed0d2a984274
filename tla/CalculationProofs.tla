--------------------------- MODULE CalculationProofs ---------------------------
(***************************************************************************)
(* Proofs about the calculations.                                          *)
(*                                                                         *)
(* The solver (ReverseSolver), for any curve, kinks, error bounds and      *)
(* budgets, with a failure at any step.  The search goes through the       *)
(* domain from left to right: proofs, the region in hand and those pending *)
(* follow one another and leave out nothing.  What is proved of a region   *)
(* is true of the curve there, so at the end the proofs together say what  *)
(* is true of the domain.                                                  *)
(*                                                                         *)
(* The reads of evidence (MarketSelection, CaptureManifest), for any       *)
(* batches, captures, attempts and instants; the age of a status and the   *)
(* classification of an issuer.                                            *)
(***************************************************************************)
EXTENDS Calculations, FiniteSetTheorems, FunctionTheorems, SequenceTheorems, TLAPS

-----------------------------------------------------------------------------
(* Finite sets of integers. *)
below(S, x) == {y \in S : y < x}

\* The more there are below, the greater.
LEMMA BelowGrows ==
  ASSUME NEW S \in SUBSET Int, IsFiniteSet(S), NEW x \in Int, NEW y \in Int, x <= y
  PROVE  /\ Cardinality(below(S, x)) <= Cardinality(below(S, y))
         /\ x \in S /\ x < y => Cardinality(below(S, x)) < Cardinality(below(S, y))
         /\ Cardinality(below(S, x)) \in Nat /\ Cardinality(below(S, y)) \in Nat
  <1>1. below(S, x) \subseteq below(S, y) /\ below(S, y) \subseteq S
    <2>1. ASSUME NEW z \in S, z < x PROVE z < y
      <3>1. z \in Int
        OBVIOUS
      <3> QED
        BY <2>1, <3>1
    <2> QED
      BY <2>1 DEF below
  <1>2. IsFiniteSet(below(S, x)) /\ IsFiniteSet(below(S, y))
    BY <1>1, FS_Subset
  <1>3. Cardinality(below(S, x)) \in Nat /\ Cardinality(below(S, y)) \in Nat
    BY <1>2, FS_CardinalityType
  <1>4. Cardinality(below(S, x)) <= Cardinality(below(S, y))
    BY <1>1, <1>2, FS_Subset
  <1>5. ASSUME x \in S, x < y PROVE below(S, x) # below(S, y)
    BY <1>5 DEF below
  <1>6. x \in S /\ x < y => Cardinality(below(S, x)) # Cardinality(below(S, y))
    BY <1>1, <1>2, <1>5, FS_Subset
  <1> QED
    BY <1>3, <1>4, <1>6

\* Every place in the order is taken by one member.
LEMMA Ranked ==
  ASSUME NEW S \in SUBSET Int, IsFiniteSet(S)
  PROVE  /\ Cardinality(S) \in Nat
         /\ \A k \in 0..(Cardinality(S) - 1) : \E x \in S : Cardinality(below(S, x)) = k
  <1> DEFINE n == Cardinality(S)
             rank == [x \in S |-> Cardinality(below(S, x))]
  <1>1. n \in Nat
    BY FS_CardinalityType
  <1>2. ASSUME NEW x \in S PROVE Cardinality(below(S, x)) \in 0..(n - 1)
    <2>1. below(S, x) \subseteq S /\ x \notin below(S, x)
      BY DEF below
    <2>2. IsFiniteSet(below(S, x)) /\ Cardinality(below(S, x)) <= n /\ Cardinality(below(S, x)) # n
      BY <2>1, FS_Subset
    <2>3. Cardinality(below(S, x)) \in Nat
      BY <2>2, FS_CardinalityType
    <2> QED
      BY <1>1, <2>2, <2>3
  <1>3. ASSUME NEW x \in S, NEW y \in S, rank[x] = rank[y] PROVE x = y
    <2>1. x \in Int /\ y \in Int /\ (x <= y \/ y <= x)
      OBVIOUS
    <2> QED
      BY <1>3, <2>1, BelowGrows
  <1>4. rank \in [S -> 0..(n - 1)]
    BY <1>2
  <1>5. rank \in Injection(S, 0..(n - 1))
    BY <1>3, <1>4, Fun_IsInj
  <1>6. IsFiniteSet(0..(n - 1)) /\ Cardinality(0..(n - 1)) = n
    <2>1. n - 1 \in Int /\ 0 \in Int
      BY <1>1
    <2>2. /\ IsFiniteSet(0..(n - 1))
          /\ Cardinality(0..(n - 1)) = IF 0 > n - 1 THEN 0 ELSE n - 1 - 0 + 1
      BY <2>1, FS_Interval
    <2> QED
      BY <1>1, <2>2
  <1>7. rank \in Surjection(S, 0..(n - 1))
    BY <1>5, <1>6, FS_Injection
  <1>8. \A k \in 0..(n - 1) : \E x \in S : rank[x] = k
    <2> DEFINE T == 0..(n - 1)
    <2>1. rank \in Surjection(S, T)
      BY <1>7
    <2> HIDE DEF rank, T
    <2>2. \A k \in T : \E x \in S : rank[x] = k
      BY <2>1, Fun_SurjectionProperties
    <2> QED
      BY <2>2 DEF T
  <1> QED
    BY <1>1, <1>8

LEMMA LeastExists ==
  ASSUME NEW S \in SUBSET Int, IsFiniteSet(S), S # {}
  PROVE  /\ Least(S) \in S /\ \A y \in S : Least(S) <= y
         /\ Most(S) \in S /\ \A y \in S : y <= Most(S)
  <1>1. Cardinality(S) \in Nat \ {0}
    BY FS_EmptySet, FS_CardinalityType
  <1>2. PICK x \in S : Cardinality(below(S, x)) = 0
    BY <1>1, Ranked
  <1>3. ASSUME NEW y \in S, y < x PROVE FALSE
    <2>1. x \in Int /\ y \in Int
      OBVIOUS
    <2>2. Cardinality(below(S, y)) \in Nat /\ Cardinality(below(S, y)) < Cardinality(below(S, x))
      BY <1>3, <2>1, BelowGrows
    <2> QED
      BY <1>2, <2>2
  <1>4. \E z \in S : \A y \in S : z <= y
    BY <1>3
  <1>5. PICK u \in S : Cardinality(below(S, u)) = Cardinality(S) - 1
    BY <1>1, Ranked
  <1>6. ASSUME NEW y \in S, u < y PROVE FALSE
    <2>1. u \in Int /\ y \in Int
      OBVIOUS
    <2>2. Cardinality(below(S, u)) < Cardinality(below(S, y)) /\ Cardinality(below(S, y)) \in Nat
      BY <1>6, <2>1, BelowGrows
    <2>3. below(S, y) \subseteq S /\ y \notin below(S, y)
      BY DEF below
    <2>4. Cardinality(below(S, y)) <= Cardinality(S) /\ Cardinality(below(S, y)) # Cardinality(S)
      BY <2>3, FS_Subset
    <2> QED
      BY <1>1, <1>5, <2>2, <2>4
  <1>7. \E z \in S : \A y \in S : y <= z
    BY <1>6
  <1> QED
    BY <1>4, <1>7 DEF Least, Most

-----------------------------------------------------------------------------
(* Curves over a grid. *)
\* What a curve takes on over a region is finite.
LEMMA ImageFinite ==
  ASSUME NEW a \in Int, NEW b \in Int, a <= b, NEW g, \A x \in a..b : g[x] \in Int
  PROVE  LET T == {g[x] : x \in a..b} IN T \in SUBSET Int /\ IsFiniteSet(T) /\ T # {}
  <1> DEFINE S == a..b
             T == {g[x] : x \in S}
             h == [x \in S |-> g[x]]
  <1>1. IsFiniteSet(S)
    BY FS_Interval
  <1>2. h \in Surjection(S, T)
    BY Fun_IsSurj
  <1>3. IsFiniteSet(T)
    BY <1>1, <1>2, FS_Surjection
  <1>4. a \in S
    OBVIOUS
  <1> QED
    BY <1>3, <1>4

\* The first place of a region at which something holds.
LEMMA FirstPlace ==
  ASSUME NEW a \in Int, NEW b \in Int, NEW B \in SUBSET (a..b), B # {}
  PROVE  \E m \in B : \A y \in B : m <= y
  <1>1. IsFiniteSet(a..b)
    BY FS_Interval
  <1>2. IsFiniteSet(B)
    BY <1>1, FS_Subset
  <1>3. B \in SUBSET Int
    OBVIOUS
  <1> QED
    BY <1>2, <1>3, LeastExists

\* Rising at each step is rising.
LEMMA StepsRise ==
  ASSUME NEW a \in Int, NEW b \in Int, NEW g, \A x \in a..b : g[x] \in Int,
         \A x \in a..(b - 1) : g[x] < g[x + 1]
  PROVE  \A x, y \in a..b : x < y => g[x] < g[y]
  <1> SUFFICES ASSUME NEW x \in a..b, NEW z \in a..b, x < z, ~(g[x] < g[z]) PROVE FALSE
    OBVIOUS
  <1> DEFINE B == {y \in (x + 1)..b : g[y] <= g[x]}
  <1>1. x \in Int /\ z \in Int /\ x + 1 \in Int /\ z \in B
    OBVIOUS
  <1>2. PICK m \in B : \A y \in B : m <= y
    <2>1. B \in SUBSET ((x + 1)..b) /\ B # {}
      BY <1>1
    <2> HIDE DEF B
    <2> QED
      BY <1>1, <2>1, FirstPlace
  <1>3. m \in Int /\ x + 1 <= m /\ m <= b /\ g[m] <= g[x] /\ a <= x
    BY <1>1, <1>2
  <1>4. m - 1 \in a..(b - 1) /\ m - 1 \in a..b /\ m \in a..b /\ m - 1 + 1 = m
    BY <1>3
  <1>5. g[m - 1] < g[m] /\ g[m - 1] \in Int /\ g[m] \in Int /\ g[x] \in Int
    BY <1>4
  <1>6. CASE m = x + 1
    <2>1. m - 1 = x
      BY <1>1, <1>6
    <2> QED
      BY <1>3, <1>5, <2>1
  <1>7. CASE m # x + 1
    <2>1. m - 1 \in (x + 1)..b /\ m - 1 < m
      BY <1>1, <1>3, <1>7
    <2>2. m - 1 \notin B
      BY <1>2, <1>3, <2>1
    <2>3. ~(g[m - 1] <= g[x])
      BY <2>1, <2>2
    <2> QED
      BY <1>3, <1>5, <2>3
  <1> QED
    BY <1>6, <1>7

\* Between two signs there is a step from the one to the other.
LEMMA StepAcross ==
  ASSUME NEW a \in Int, NEW b \in Int, NEW g, \A x \in a..b : g[x] \in Int,
         a < b, g[a] < 0, g[b] > 0
  PROVE  \E x \in a..(b - 1) : g[x] < 0 /\ g[x + 1] >= 0
  <1> DEFINE B == {y \in a..b : g[y] >= 0}
  <1>1. b \in B /\ B \in SUBSET (a..b)
    OBVIOUS
  <1>2. PICK m \in B : \A y \in B : m <= y
    <2> HIDE DEF B
    <2> QED
      BY <1>1, FirstPlace
  <1>3. m \in Int /\ a <= m /\ m <= b /\ g[m] >= 0 /\ m # a
    BY <1>2
  <1>4. m - 1 \in a..(b - 1) /\ m - 1 \in a..b /\ m - 1 < m /\ m - 1 + 1 = m
    BY <1>3
  <1>5. m - 1 \notin B
    BY <1>2, <1>3, <1>4
  <1>6. g[m - 1] < 0
    BY <1>4, <1>5
  <1> QED
    BY <1>3, <1>4, <1>6

-----------------------------------------------------------------------------
(* Roots of a curve in a region. *)
inside(q, r) == r.lo <= q[1] /\ q[2] <= r.hi
proper(f, r) == Lower(f) <= r.lo /\ r.lo < r.hi /\ r.hi <= Upper(f)
Rising(f, r) == \A x, y \in r.lo..r.hi : x < y => f[x] < f[y]
Falling(f, r) == \A x, y \in r.lo..r.hi : x < y => f[y] < f[x]
Steep(f, r) == Rising(f, r) \/ Falling(f, r)
\* Certified opposite signs at the ends.
OnSides(f, r, left) ==
    \/ left = 1 /\ f[r.lo] > 0 /\ f[r.hi] < 0
    \/ left = -1 /\ f[r.lo] < 0 /\ f[r.hi] > 0
NoRoot(f, r) == \A q \in Roots(f) : ~inside(q, r)
OneRoot(f, r, b) ==
    /\ f[r.lo] # 0 /\ f[r.hi] # 0
    /\ \E q \in Roots(f) : inside(q, b) /\ inside(q, r) /\ \A p \in Roots(f) : inside(p, r) => p = q

LEMMA Opposite ==
  ASSUME NEW a \in Int, NEW b \in Int
  PROVE  a * b < 0 <=> (a < 0 /\ b > 0) \/ (a > 0 /\ b < 0)
  OBVIOUS

LEMMA RootsAre ==
  ASSUME NEW f, IsCurve(f)
  PROVE  \A q : q \in Roots(f) <=>
            \E x \in Lower(f)..Upper(f) :
               \/ q = <<x, x>> /\ f[x] = 0
               \/ /\ x < Upper(f) /\ q = <<x, x + 1>>
                  /\ (f[x] < 0 /\ f[x + 1] > 0) \/ (f[x] > 0 /\ f[x + 1] < 0)
  <1>1. Lower(f) \in Int /\ Upper(f) \in Int /\ Grid(f) = Lower(f)..Upper(f)
        /\ \A x \in Lower(f)..Upper(f) : f[x] \in Int
    BY DEF IsCurve
  <1>2. ASSUME NEW x \in Lower(f)..Upper(f), x # Upper(f)
        PROVE  /\ x < Upper(f) /\ x + 1 \in Lower(f)..Upper(f)
               /\ f[x] * f[x + 1] < 0 <=> (f[x] < 0 /\ f[x + 1] > 0) \/ (f[x] > 0 /\ f[x + 1] < 0)
    <2>1. x < Upper(f) /\ x + 1 \in Lower(f)..Upper(f)
      BY <1>1, <1>2
    <2>2. f[x] \in Int /\ f[x + 1] \in Int
      BY <1>1, <2>1
    <2> QED
      BY <2>1, <2>2, Opposite
  <1>3. ASSUME NEW x \in Lower(f)..Upper(f), x < Upper(f) PROVE x # Upper(f)
    BY <1>1, <1>3
  <1> QED
    BY <1>1, <1>2, <1>3 DEF Roots

\* A region over which the curve has one sign has no root.
LEMMA OneSignNoRoot ==
  ASSUME NEW f, IsCurve(f), NEW r \in Regions, proper(f, r),
         (\A x \in r.lo..r.hi : f[x] > 0) \/ (\A x \in r.lo..r.hi : f[x] < 0)
  PROVE  NoRoot(f, r)
  <1> SUFFICES ASSUME NEW q \in Roots(f), inside(q, r) PROVE FALSE
    BY DEF NoRoot
  <1>1. /\ Lower(f) \in Int /\ Upper(f) \in Int /\ \A x \in Lower(f)..Upper(f) : f[x] \in Int
        /\ r.lo \in Int /\ r.hi \in Int
    BY DEF IsCurve, Regions
  <1>2. PICK x \in Lower(f)..Upper(f) :
               \/ q = <<x, x>> /\ f[x] = 0
               \/ /\ x < Upper(f) /\ q = <<x, x + 1>>
                  /\ (f[x] < 0 /\ f[x + 1] > 0) \/ (f[x] > 0 /\ f[x + 1] < 0)
    BY RootsAre
  <1>3. r.lo <= q[1] /\ q[2] <= r.hi
    BY DEF inside
  <1>4. CASE q = <<x, x>> /\ f[x] = 0
    <2>1. x \in r.lo..r.hi
      BY <1>1, <1>3, <1>4
    <2> QED
      BY <1>4, <2>1
  <1>5. CASE q = <<x, x + 1>> /\ ((f[x] < 0 /\ f[x + 1] > 0) \/ (f[x] > 0 /\ f[x + 1] < 0)) /\ x < Upper(f)
    <2>1. x \in r.lo..r.hi /\ x + 1 \in r.lo..r.hi /\ x + 1 \in Lower(f)..Upper(f)
      BY <1>1, <1>3, <1>5
    <2>2. f[x] \in Int /\ f[x + 1] \in Int
      BY <1>1, <2>1
    <2> QED
      BY <1>5, <2>1, <2>2
  <1> QED
    BY <1>2, <1>4, <1>5

\* One that is steep and has the same sign at both ends has none either.
LEMMA SteepNoRoot ==
  ASSUME NEW f, IsCurve(f), NEW r \in Regions, proper(f, r), Steep(f, r),
         (f[r.lo] > 0 /\ f[r.hi] > 0) \/ (f[r.lo] < 0 /\ f[r.hi] < 0)
  PROVE  NoRoot(f, r)
  <1>1. /\ Lower(f) \in Int /\ Upper(f) \in Int /\ \A x \in Lower(f)..Upper(f) : f[x] \in Int
        /\ r.lo \in Int /\ r.hi \in Int /\ r.lo \in r.lo..r.hi /\ r.hi \in r.lo..r.hi
    BY DEF IsCurve, Regions, proper
  <1>2. \A x \in r.lo..r.hi : f[x] \in Int /\ (x = r.lo \/ r.lo < x) /\ (x = r.hi \/ x < r.hi)
    BY <1>1 DEF proper
  <1>3. (\A x \in r.lo..r.hi : f[x] > 0) \/ (\A x \in r.lo..r.hi : f[x] < 0)
    <2>1. CASE Rising(f, r)
      <3>1. \A x \in r.lo..r.hi : (x = r.lo \/ f[r.lo] < f[x]) /\ (x = r.hi \/ f[x] < f[r.hi])
        BY <1>1, <1>2, <2>1 DEF Rising
      <3> QED
        BY <1>1, <1>2, <3>1
    <2>2. CASE Falling(f, r)
      <3>1. \A x \in r.lo..r.hi : (x = r.lo \/ f[x] < f[r.lo]) /\ (x = r.hi \/ f[r.hi] < f[x])
        BY <1>1, <1>2, <2>2 DEF Falling
      <3> QED
        BY <1>1, <1>2, <3>1
    <2> QED
      BY <2>1, <2>2 DEF Steep
  <1> QED
    BY <1>3, OneSignNoRoot

\* One that is steep with opposite signs at its ends has one, and it lies
\* wherever the curve changes its sign.
LEMMA SteepOneRoot ==
  ASSUME NEW f, IsCurve(f), NEW r \in Regions, NEW b \in Regions, proper(f, r), Steep(f, r),
         NEW left, OnSides(f, r, left), OnSides(f, b, left),
         r.lo <= b.lo, b.lo < b.hi, b.hi <= r.hi
  PROVE  OneRoot(f, r, b)
  <1> DEFINE g == [x \in Lower(f)..Upper(f) |-> IF left = -1 THEN f[x] ELSE -f[x]]
  <1>1. /\ Lower(f) \in Int /\ Upper(f) \in Int /\ \A x \in Lower(f)..Upper(f) : f[x] \in Int
        /\ r.lo \in Int /\ r.hi \in Int /\ b.lo \in Int /\ b.hi \in Int
        /\ Lower(f) <= r.lo /\ r.lo < r.hi /\ r.hi <= Upper(f)
    BY DEF IsCurve, Regions, proper
  <1>2. /\ r.lo \in r.lo..r.hi /\ r.hi \in r.lo..r.hi
        /\ \A x \in r.lo..r.hi : x \in Lower(f)..Upper(f) /\ x \in Int
        /\ \A x \in b.lo..b.hi : x \in r.lo..r.hi
        /\ b.lo \in b.lo..b.hi /\ b.hi \in b.lo..b.hi
    BY <1>1
  <1>3. /\ \A x \in Lower(f)..Upper(f) : g[x] \in Int
        /\ left = -1 => \A x \in Lower(f)..Upper(f) : g[x] = f[x]
        /\ left = 1 => \A x \in Lower(f)..Upper(f) : g[x] = -f[x]
        /\ left \in {-1, 1}
    BY <1>1 DEF OnSides
  <1> HIDE DEF g
  <1>4. g[r.lo] < 0 /\ g[r.hi] > 0 /\ g[b.lo] < 0 /\ g[b.hi] > 0
    BY <1>1, <1>2, <1>3 DEF OnSides
  <1>5. \A x, y \in r.lo..r.hi : x < y => g[x] < g[y]
    <2>1. CASE left = -1
      <3>1. ~Falling(f, r)
        BY <1>1, <1>2, <1>3, <1>4, <2>1 DEF Falling
      <3> QED
        BY <1>2, <1>3, <2>1, <3>1 DEF Steep, Rising
    <2>2. CASE left = 1
      <3>1. ~Rising(f, r)
        BY <1>1, <1>2, <1>3, <1>4, <2>2 DEF Rising
      <3>2. \A x, y \in r.lo..r.hi : x < y => f[y] < f[x]
        BY <3>1 DEF Steep, Falling
      <3> QED
        BY <1>1, <1>2, <1>3, <2>2, <3>2
    <2> QED
      BY <1>3, <2>1, <2>2
  <1>6. PICK x \in b.lo..(b.hi - 1) : g[x] < 0 /\ g[x + 1] >= 0
    <2>1. \A x \in b.lo..b.hi : g[x] \in Int
      BY <1>2, <1>3
    <2> QED
      BY <1>1, <1>4, <2>1, StepAcross
  <1>7. /\ x \in Int /\ x + 1 \in Int /\ x \in b.lo..b.hi /\ x + 1 \in b.lo..b.hi
        /\ x \in r.lo..r.hi /\ x + 1 \in r.lo..r.hi
        /\ x \in Lower(f)..Upper(f) /\ x + 1 \in Lower(f)..Upper(f)
        /\ b.lo <= x /\ x + 1 <= b.hi /\ r.lo <= x /\ x + 1 <= r.hi /\ x < Upper(f)
    BY <1>1, <1>2
  \* Every root within the region is at this step.
  <1>8. \A y \in Lower(f)..Upper(f) : (f[y] = 0 <=> g[y] = 0) /\ (f[y] > 0 \/ f[y] < 0 \/ f[y] = 0)
    BY <1>1, <1>3
  <1>9. ASSUME NEW y \in r.lo..r.hi, f[y] = 0 PROVE y = x + 1
    <2>1. g[y] = 0 /\ y \in Int
      BY <1>2, <1>8, <1>9
    <2>2. ~(y < x) /\ y # x
      BY <1>5, <1>6, <1>7, <1>3, <2>1, <1>2
    <2>3. ~(x + 1 < y)
      BY <1>5, <1>6, <1>7, <1>3, <2>1, <1>2
    <2> QED
      BY <1>7, <2>1, <2>2, <2>3
  <1>10. ASSUME NEW y \in r.lo..r.hi, y + 1 \in r.lo..r.hi,
                (f[y] < 0 /\ f[y + 1] > 0) \/ (f[y] > 0 /\ f[y + 1] < 0)
         PROVE  y = x /\ g[x + 1] # 0
    <2>1. y \in Int /\ y < y + 1 /\ g[y] \in Int /\ g[y + 1] \in Int
      BY <1>2, <1>3, <1>10
    <2>2. g[y] < g[y + 1]
      BY <1>5, <1>10, <2>1
    <2>3. g[y] < 0 /\ g[y + 1] > 0
      BY <1>1, <1>2, <1>3, <1>10, <2>1, <2>2
    <2>4. ~(y < x)
      <3>1. SUFFICES ASSUME y < x PROVE FALSE
        OBVIOUS
      <3>2. y + 1 = x \/ y + 1 < x
        BY <1>7, <2>1, <3>1
      <3>3. g[y + 1] = g[x] \/ g[y + 1] < g[x]
        BY <1>5, <1>7, <1>10, <3>2
      <3> QED
        BY <1>3, <1>6, <1>7, <2>1, <2>3, <3>3
    <2>5. ~(x < y)
      <3>1. SUFFICES ASSUME x < y PROVE FALSE
        OBVIOUS
      <3>2. x + 1 = y \/ x + 1 < y
        BY <1>7, <2>1, <3>1
      <3>3. g[x + 1] = g[y] \/ g[x + 1] < g[y]
        BY <1>5, <1>7, <1>10, <3>2
      <3> QED
        BY <1>3, <1>6, <1>7, <2>1, <2>3, <3>3
    <2>6. y = x
      BY <1>7, <2>1, <2>4, <2>5
    <2> QED
      BY <2>3, <2>6
  <1> DEFINE q == IF g[x + 1] = 0 THEN <<x + 1, x + 1>> ELSE <<x, x + 1>>
  <1>11. q \in Roots(f)
    <2>1. CASE g[x + 1] = 0
      BY <1>7, <1>8, <2>1, RootsAre
    <2>2. CASE g[x + 1] # 0
      <3>1. (f[x] < 0 /\ f[x + 1] > 0) \/ (f[x] > 0 /\ f[x + 1] < 0)
        BY <1>1, <1>3, <1>6, <1>7, <2>2
      <3> QED
        BY <1>7, <2>2, <3>1, RootsAre
    <2> QED
      BY <2>1, <2>2
  <1>12. inside(q, b) /\ inside(q, r)
    BY <1>1, <1>7 DEF inside
  <1>13. ASSUME NEW p \in Roots(f), inside(p, r) PROVE p = q
    <2>1. PICK y \in Lower(f)..Upper(f) :
               \/ p = <<y, y>> /\ f[y] = 0
               \/ /\ y < Upper(f) /\ p = <<y, y + 1>>
                  /\ (f[y] < 0 /\ f[y + 1] > 0) \/ (f[y] > 0 /\ f[y + 1] < 0)
      BY RootsAre
    <2>2. y \in Int /\ r.lo <= p[1] /\ p[2] <= r.hi
      BY <1>1, <1>13 DEF inside
    <2>3. CASE p = <<y, y>> /\ f[y] = 0
      <3>1. y \in r.lo..r.hi
        BY <1>1, <2>2, <2>3
      <3>2. y = x + 1
        BY <1>9, <2>3, <3>1
      <3> QED
        BY <1>7, <1>8, <2>3, <3>2
    <2>4. CASE p = <<y, y + 1>> /\ ((f[y] < 0 /\ f[y + 1] > 0) \/ (f[y] > 0 /\ f[y + 1] < 0))
      <3>1. y \in r.lo..r.hi /\ y + 1 \in r.lo..r.hi
        BY <1>1, <2>2, <2>4
      <3>2. y = x /\ g[x + 1] # 0
        BY <1>10, <2>4, <3>1
      <3> QED
        BY <2>4, <3>2
    <2> QED
      BY <2>1, <2>3, <2>4
  <1>14. f[r.lo] # 0 /\ f[r.hi] # 0
    BY <1>2, <1>4, <1>8
  <1> HIDE DEF q
  <1> QED
    BY <1>11, <1>12, <1>13, <1>14 DEF OneRoot

-----------------------------------------------------------------------------
(* What an evaluation certifies. *)
Within(f, r) == r \in Regions /\ Lower(f) <= r.lo /\ r.lo <= r.hi /\ r.hi <= Upper(f)

LEMMA ValueEncloses ==
  ASSUME NEW s, IsCurve(s.curve), s \in Solves(s.curve), NEW r, Within(s.curve, r),
         NEW x \in r.lo..r.hi
  PROVE  /\ Value(s, r).lo \in Int /\ Value(s, r).hi \in Int
         /\ Value(s, r).lo <= s.curve[x] /\ s.curve[x] <= Value(s, r).hi
  <1> DEFINE f == s.curve
             T == {f[y] : y \in r.lo..r.hi}
  <1>1. /\ r.lo \in Int /\ r.hi \in Int /\ r.lo <= r.hi
        /\ \A y \in r.lo..r.hi : f[y] \in Int
    BY DEF IsCurve, Within, Regions
  <1>2. Spread(s, r) \in Nat
    BY DEF Solves, Spread
  <1> HIDE DEF f
  <1>3. T \in SUBSET Int /\ IsFiniteSet(T) /\ T # {}
    <2> DEFINE a == r.lo
               b == r.hi
               d == [y \in a..b |-> f[y]]
    <2>1. a \in Int /\ b \in Int /\ a <= b /\ \A y \in a..b : d[y] = f[y] /\ d[y] \in Int
      BY <1>1
    <2>2. T = {d[y] : y \in a..b}
      OBVIOUS
    <2> HIDE DEF a, b, d, T
    <2>3. {d[y] : y \in a..b} \in SUBSET Int /\ IsFiniteSet({d[y] : y \in a..b}) /\ {d[y] : y \in a..b} # {}
      BY ZenonT(60), <2>1, ImageFinite
    <2> QED
      BY <2>2, <2>3
  <1>4. f[x] \in T
    OBVIOUS
  <1>5. Value(s, r) = Region(Least(T) - Spread(s, r), Most(T) + Spread(s, r))
    BY DEF Value, f
  <1> HIDE DEF T
  <1>6. Least(T) \in Int /\ Most(T) \in Int /\ Least(T) <= f[x] /\ f[x] <= Most(T)
    BY <1>3, <1>4, LeastExists
  <1>7. f[x] \in Int
    BY <1>1
  <1> QED
    BY <1>2, <1>5, <1>6, <1>7 DEF Region, f

\* A signed enclosure gives the curve its sign all over the region.
LEMMA SignedValue ==
  ASSUME NEW s, IsCurve(s.curve), s \in Solves(s.curve), NEW r, Within(s.curve, r)
  PROVE  /\ Sign(Value(s, r)) \in {-1, 0, 1}
         /\ Sign(Value(s, r)) = 1 => \A x \in r.lo..r.hi : s.curve[x] > 0
         /\ Sign(Value(s, r)) = -1 => \A x \in r.lo..r.hi : s.curve[x] < 0
  <1>1. \A x \in r.lo..r.hi : s.curve[x] \in Int
    BY DEF IsCurve, Within, Regions
  <1>2. \A x \in r.lo..r.hi : /\ Value(s, r).lo \in Int /\ Value(s, r).hi \in Int
                              /\ Value(s, r).lo <= s.curve[x] /\ s.curve[x] <= Value(s, r).hi
    BY ValueEncloses
  <1>3. Sign(Value(s, r)) = 1 => Value(s, r).lo > 0
    BY DEF Sign
  <1>4. Sign(Value(s, r)) = -1 => Value(s, r).hi < 0
    BY DEF Sign
  <1> QED
    BY <1>1, <1>2, <1>3, <1>4 DEF Sign

LEMMA SignedPoint ==
  ASSUME NEW s, IsCurve(s.curve), s \in Solves(s.curve), NEW x \in Lower(s.curve)..Upper(s.curve)
  PROVE  /\ SignAt(s, x) \in {-1, 0, 1}
         /\ SignAt(s, x) = 1 => s.curve[x] > 0
         /\ SignAt(s, x) = -1 => s.curve[x] < 0
  <1>1. x \in Int /\ Within(s.curve, Point(x)) /\ Point(x).lo = x /\ Point(x).hi = x
    BY DEF IsCurve, Within, Regions, Point, Region
  <1>2. x \in Point(x).lo..Point(x).hi
    BY <1>1
  <1> QED
    BY <1>1, <1>2, SignedValue DEF SignAt

LEMMA SignedSlope ==
  ASSUME NEW s, IsCurve(s.curve), s \in Solves(s.curve), NEW r \in Regions, proper(s.curve, r),
         Sign(Slope(s, r)) # 0
  PROVE  Steep(s.curve, r)
  <1> DEFINE f == s.curve
             d == [y \in r.lo..(r.hi - 1) |-> f[y + 1] - f[y]]
             T == {d[y] : y \in r.lo..(r.hi - 1)}
  <1>1. /\ r.lo \in Int /\ r.hi \in Int /\ r.hi - 1 \in Int /\ r.lo <= r.hi - 1
        /\ \A y \in r.lo..r.hi : f[y] \in Int /\ -f[y] \in Int
        /\ \A y \in r.lo..(r.hi - 1) : y \in r.lo..r.hi /\ y + 1 \in r.lo..r.hi /\ y \in Int
    BY DEF IsCurve, Regions, proper
  <1>2. Spread(s, r) \in Nat
    BY DEF Solves, Spread
  <1>3. \A y \in r.lo..(r.hi - 1) : d[y] = f[y + 1] - f[y] /\ d[y] \in Int
    <2> HIDE DEF f
    <2>1. \A y \in r.lo..(r.hi - 1) : f[y + 1] - f[y] \in Int
      BY <1>1
    <2> QED
      BY <2>1
  <1>4. Slope(s, r) = Region(Least(T) - Spread(s, r), Most(T) + Spread(s, r))
    <2>1. T = {f[y + 1] - f[y] : y \in r.lo..(r.hi - 1)}
      OBVIOUS
    <2> QED
      BY <2>1 DEF Slope
  <1> HIDE DEF f, d
  <1>5. T \in SUBSET Int /\ IsFiniteSet(T) /\ T # {}
    BY SMTT(40), <1>1, <1>3, ImageFinite
  <1>6. ASSUME NEW y \in r.lo..(r.hi - 1) PROVE d[y] \in T
    OBVIOUS
  <1> HIDE DEF T
  <1>7. /\ Least(T) \in Int /\ Most(T) \in Int
        /\ \A y \in r.lo..(r.hi - 1) : Least(T) <= d[y] /\ d[y] <= Most(T)
    BY <1>5, <1>6, LeastExists
  <1>8. CASE Sign(Slope(s, r)) = 1
    <2>1. Least(T) > 0
      BY <1>2, <1>4, <1>7, <1>8 DEF Sign, Region
    <2>2. \A y \in r.lo..(r.hi - 1) : f[y] < f[y + 1]
      BY <1>1, <1>3, <1>7, <2>1
    <2>3. Rising(f, r)
      BY <1>1, <2>2, StepsRise DEF Rising
    <2> QED
      BY <2>3 DEF Steep, f
  <1>9. CASE Sign(Slope(s, r)) = -1
    <2>1. Most(T) < 0
      BY <1>2, <1>4, <1>7, <1>9 DEF Sign, Region
    <2>2. \A y \in r.lo..(r.hi - 1) : f[y + 1] < f[y]
      BY <1>1, <1>3, <1>7, <2>1
    <2> DEFINE g == [y \in r.lo..r.hi |-> -f[y]]
    <2>3. \A y \in r.lo..r.hi : g[y] = -f[y] /\ g[y] \in Int
      BY <1>1
    <2> HIDE DEF g
    <2>4. \A y \in r.lo..(r.hi - 1) : g[y] < g[y + 1]
      BY <1>1, <2>2, <2>3
    <2>5. \A x, y \in r.lo..r.hi : x < y => g[x] < g[y]
      BY <1>1, <2>3, <2>4, StepsRise
    <2>6. Falling(f, r)
      BY <1>1, <2>3, <2>5 DEF Falling
    <2> QED
      BY <2>6 DEF Steep, f
  <1> QED
    BY <1>8, <1>9 DEF Sign

-----------------------------------------------------------------------------
(* The search goes through the domain from left to right. *)
covers(r, x) == r.lo <= x /\ x < r.hi

\* Proofs, the region in hand and those pending (a stack) follow one another.
Sweep(f, pending, current, proofs) ==
    /\ \A i \in DOMAIN pending : proper(f, pending[i])
    /\ \A i \in DOMAIN proofs : proper(f, proofs[i].domain)
    /\ \A i, j \in DOMAIN pending : i < j => pending[j].hi <= pending[i].lo
    /\ \A i, j \in DOMAIN proofs : i < j => proofs[i].domain.hi <= proofs[j].domain.lo
    /\ \A i \in DOMAIN proofs, j \in DOMAIN pending : proofs[i].domain.hi <= pending[j].lo
    /\ current # none =>
          /\ proper(f, current)
          /\ \A i \in DOMAIN proofs : proofs[i].domain.hi <= current.lo
          /\ \A j \in DOMAIN pending : current.hi <= pending[j].lo
\* They leave out nothing.
Tiled(f, pending, current, proofs) ==
    \A x \in Lower(f)..(Upper(f) - 1) :
        \/ \E i \in DOMAIN pending : covers(pending[i], x)
        \/ \E i \in DOMAIN proofs : covers(proofs[i].domain, x)
        \/ current # none /\ covers(current, x)
\* A proof is true of its region, and an unresolved one is remembered.
Justified(f, p, unresolved) ==
    /\ p.disposition = "excluded" => NoRoot(f, p.domain)
    /\ p.disposition = "unique_root" => p.root # none /\ OneRoot(f, p.domain, p.root)
    /\ p.disposition = "unresolved" => unresolved
Search(f, pending, current, proofs, unresolved) ==
    /\ pending \in Seq(Regions) /\ current \in Regions \cup {none} /\ proofs \in Seq(Proofs)
    /\ Sweep(f, pending, current, proofs)
    /\ Tiled(f, pending, current, proofs)
    /\ \A i \in DOMAIN proofs : Justified(f, proofs[i], unresolved)

LEMMA ProperFacts ==
  ASSUME NEW f, IsCurve(f), NEW r \in Regions, proper(f, r)
  PROVE  /\ Lower(f) \in Int /\ Upper(f) \in Int /\ Lower(f) < Upper(f)
         /\ r.lo \in Int /\ r.hi \in Int /\ Lower(f) <= r.lo /\ r.lo < r.hi /\ r.hi <= Upper(f)
         /\ r.lo \in Lower(f)..Upper(f) /\ r.hi \in Lower(f)..Upper(f)
         /\ Within(f, r)
  BY DEF IsCurve, Regions, proper, Within

LEMMA NoneIsNoRegion == none \notin Regions /\ none \notin Limits
  BY SolveAssumption

\* The next region is taken from the stack.
LEMMA TakeOK ==
  ASSUME NEW f, IsCurve(f), NEW pending, NEW proofs, NEW unresolved,
         Search(f, pending, none, proofs, unresolved), pending # <<>>
  PROVE  /\ Search(f, Front(pending), Last(pending), proofs, unresolved)
         /\ Last(pending) \in Regions /\ Last(pending) # none /\ proper(f, Last(pending))
  <1> DEFINE n == Len(pending)
             front == Front(pending)
             r == Last(pending)
  <1>1. pending \in Seq(Regions) /\ proofs \in Seq(Proofs)
    BY DEF Search
  <1>2. n \in Nat \ {0} /\ DOMAIN pending = 1..n /\ r = pending[n] /\ r \in Regions
    BY <1>1 DEF Last
  <1>3. front \in Seq(Regions) /\ DOMAIN front = 1..(n - 1) /\ \A i \in 1..(n - 1) : front[i] = pending[i]
    BY <1>1, <1>2 DEF Front
  <1>4. \A i \in 1..(n - 1) : i \in 1..n /\ i < n
    BY <1>2
  <1>6. r # none
    BY <1>2, NoneIsNoRegion
  <1> HIDE DEF n, front, r
  <1>5. n \in 1..n /\ \A i \in 1..n : i = n \/ i \in 1..(n - 1)
    BY <1>2
  <1>7. Sweep(f, front, r, proofs)
    BY SMTT(40), <1>2, <1>3, <1>4, <1>5 DEF Search, Sweep
  <1>8. proper(f, r)
    BY <1>6, <1>7 DEF Sweep
  <1>9. Tiled(f, front, r, proofs)
    <2> SUFFICES ASSUME NEW x \in Lower(f)..(Upper(f) - 1)
                 PROVE  \/ \E i \in DOMAIN front : covers(front[i], x)
                        \/ \E i \in DOMAIN proofs : covers(proofs[i].domain, x)
                        \/ covers(r, x)
      BY <1>6 DEF Tiled
    <2>1. \/ \E i \in DOMAIN pending : covers(pending[i], x)
          \/ \E i \in DOMAIN proofs : covers(proofs[i].domain, x)
      BY DEF Search, Tiled
    <2> QED
      BY <1>2, <1>3, <1>5, <2>1
  <1> QED
    BY <1>1, <1>2, <1>3, <1>6, <1>7, <1>8, <1>9 DEF Search, front, r

\* A region that is done with joins the proofs.
LEMMA ProveOK ==
  ASSUME NEW f, IsCurve(f), NEW pending, NEW proofs, NEW r \in Regions,
         NEW before \in BOOLEAN, NEW unresolved \in BOOLEAN, before => unresolved,
         Search(f, pending, r, proofs, before),
         NEW p \in Proofs, p.domain = r, Justified(f, p, unresolved)
  PROVE  Search(f, pending, none, Append(proofs, p), unresolved)
  <1> DEFINE n == Len(proofs)
             all == Append(proofs, p)
  <1>1. pending \in Seq(Regions) /\ proofs \in Seq(Proofs) /\ r # none
    BY NoneIsNoRegion DEF Search
  <1>2. n \in Nat /\ DOMAIN proofs = 1..n
    BY <1>1
  <1>3. all \in Seq(Proofs) /\ DOMAIN all = 1..(n + 1) /\ all[n + 1] = p /\ \A i \in 1..n : all[i] = proofs[i]
    BY <1>1, <1>2
  <1>4. /\ \A i \in 1..n : i \in 1..(n + 1) /\ i # n + 1
        /\ n + 1 \in 1..(n + 1)
        /\ \A i \in 1..(n + 1) : i = n + 1 \/ i \in 1..n
        /\ \A i, j \in 1..(n + 1) : i < j => i \in 1..n
    BY <1>2
  <1> HIDE DEF n, all
  <1>5. Sweep(f, pending, none, all)
    BY <1>1, <1>2, <1>3, <1>4 DEF Search, Sweep
  <1>6. Tiled(f, pending, none, all)
    <2> SUFFICES ASSUME NEW x \in Lower(f)..(Upper(f) - 1)
                 PROVE  \/ \E i \in DOMAIN pending : covers(pending[i], x)
                        \/ \E i \in DOMAIN all : covers(all[i].domain, x)
      BY DEF Tiled
    <2>1. \/ \E i \in DOMAIN pending : covers(pending[i], x)
          \/ \E i \in DOMAIN proofs : covers(proofs[i].domain, x)
          \/ covers(r, x)
      BY DEF Search, Tiled
    <2> QED
      BY <1>2, <1>3, <1>4, <2>1
  <1>7. \A i \in DOMAIN all : Justified(f, all[i], unresolved)
    <2>1. \A i \in 1..n : Justified(f, proofs[i], unresolved)
      BY <1>2 DEF Search, Justified
    <2> QED
      BY <1>3, <1>4, <2>1
  <1> QED
    BY <1>1, <1>3, <1>5, <1>6, <1>7 DEF Search, all

\* Halving puts both halves back.
LEMMA HalveOK ==
  ASSUME NEW f, IsCurve(f), NEW pending, NEW proofs, NEW r \in Regions, NEW unresolved,
         Search(f, pending, r, proofs, unresolved),
         NEW m \in Int, r.lo < m, m < r.hi
  PROVE  Search(f, pending \o <<Region(m, r.hi), Region(r.lo, m)>>, none, proofs, unresolved)
  <1> DEFINE n == Len(pending)
             right == Region(m, r.hi)
             left == Region(r.lo, m)
             all == pending \o <<right, left>>
  <1>1. pending \in Seq(Regions) /\ proofs \in Seq(Proofs) /\ r # none /\ proper(f, r)
    BY NoneIsNoRegion DEF Search, Sweep
  <1>2. n \in Nat /\ DOMAIN pending = 1..n
    BY <1>1
  <1>3. /\ r.lo \in Int /\ r.hi \in Int /\ Lower(f) \in Int /\ Upper(f) \in Int
        /\ Lower(f) <= r.lo /\ r.hi <= Upper(f)
    BY <1>1, ProperFacts
  <1>4. /\ right \in Regions /\ left \in Regions
        /\ right.lo = m /\ right.hi = r.hi /\ left.lo = r.lo /\ left.hi = m
    BY <1>3 DEF Region, Regions
  <1>5. proper(f, right) /\ proper(f, left)
    BY <1>3, <1>4 DEF proper
  <1> HIDE DEF right, left
  <1>6. <<right, left>> \in Seq(Regions) /\ Len(<<right, left>>) = 2
        /\ <<right, left>>[1] = right /\ <<right, left>>[2] = left
    BY <1>4
  <1>7. /\ all \in Seq(Regions) /\ DOMAIN all = 1..(n + 2)
        /\ all[n + 1] = right /\ all[n + 2] = left /\ \A i \in 1..n : all[i] = pending[i]
    BY <1>1, <1>2, <1>6
  <1>8. /\ \A i \in 1..n : i \in 1..(n + 2) /\ i # n + 1 /\ i # n + 2
        /\ n + 1 \in 1..(n + 2) /\ n + 2 \in 1..(n + 2)
        /\ \A i \in 1..(n + 2) : i = n + 1 \/ i = n + 2 \/ i \in 1..n
        /\ \A i, j \in 1..(n + 2) : i < j => i \in 1..n \/ (i = n + 1 /\ j = n + 2)
    BY <1>2
  <1> HIDE DEF n, all
  <1>9. \A i \in 1..n : pending[i].lo \in Int /\ pending[i].hi \in Int /\ r.hi <= pending[i].lo
    <2>1. \A i \in 1..n : pending[i] \in Regions
      BY <1>1, <1>2
    <2> QED
      BY <1>1, <1>2, <2>1 DEF Search, Sweep, Regions
  <1>10. \A i \in DOMAIN proofs : proofs[i].domain.hi <= right.lo /\ proofs[i].domain.hi <= left.lo
    <2>1. \A i \in DOMAIN proofs : proofs[i].domain \in Regions
      <3>1. \A i \in DOMAIN proofs : proofs[i] \in Proofs
        BY <1>1
      <3> QED
        BY <3>1 DEF Proofs
    <2>2. \A i \in DOMAIN proofs : proofs[i].domain.hi \in Int
      BY <2>1 DEF Regions
    <2>3. \A i \in DOMAIN proofs : proofs[i].domain.hi <= r.lo
      BY <1>1 DEF Search, Sweep
    <2> QED
      BY <1>3, <1>4, <2>2, <2>3
  <1>11. Sweep(f, all, none, proofs)
    <2>1. \A i \in DOMAIN all : proper(f, all[i])
      BY <1>2, <1>5, <1>7, <1>8 DEF Search, Sweep
    <2>2. \A i, j \in DOMAIN all : i < j => all[j].hi <= all[i].lo
      <3> SUFFICES ASSUME NEW i \in 1..(n + 2), NEW j \in 1..(n + 2), i < j
                   PROVE  all[j].hi <= all[i].lo
        BY <1>7
      <3>1. CASE i = n + 1 /\ j = n + 2
        BY <1>3, <1>4, <1>7, <3>1
      <3>2. CASE i \in 1..n /\ j \in 1..n
        BY <1>2, <1>7, <3>2 DEF Search, Sweep
      <3>3. CASE i \in 1..n /\ j \in {n + 1, n + 2}
        BY <1>3, <1>4, <1>7, <1>9, <3>3
      <3> QED
        BY <1>8, <3>1, <3>2, <3>3
    <2>3. \A i \in DOMAIN proofs, j \in DOMAIN all : proofs[i].domain.hi <= all[j].lo
      BY <1>2, <1>7, <1>8, <1>10 DEF Search, Sweep
    <2> QED
      BY <2>1, <2>2, <2>3 DEF Search, Sweep
  <1>12. Tiled(f, all, none, proofs)
    <2> SUFFICES ASSUME NEW x \in Lower(f)..(Upper(f) - 1)
                 PROVE  \/ \E i \in DOMAIN all : covers(all[i], x)
                        \/ \E i \in DOMAIN proofs : covers(proofs[i].domain, x)
      BY DEF Tiled
    <2>1. \/ \E i \in DOMAIN pending : covers(pending[i], x)
          \/ \E i \in DOMAIN proofs : covers(proofs[i].domain, x)
          \/ covers(r, x)
      BY DEF Search, Tiled
    <2>2. covers(r, x) => covers(left, x) \/ covers(right, x)
      BY <1>3, <1>4 DEF covers
    <2> QED
      BY <1>2, <1>7, <1>8, <2>1, <2>2
  <1> QED
    BY <1>1, <1>7, <1>11, <1>12 DEF Search, all, right, left

-----------------------------------------------------------------------------
(* The first regions lie between neighbouring cuts. *)
LEMMA CutsAre ==
  ASSUME NEW S \in SUBSET Int, IsFiniteSet(S)
  PROVE  LET c == InOrder(S, <)  n == Cardinality(S) IN
         /\ n \in Nat /\ c \in Seq(Int) /\ Len(c) = n
         /\ \A k \in 1..n : c[k] \in S /\ Cardinality(below(S, c[k])) = k - 1
         /\ \A i, j \in 1..n : i < j => c[i] < c[j]
  <1> DEFINE n == Cardinality(S)
             c == InOrder(S, <)
  <1>1. n \in Nat /\ \A k \in 0..(n - 1) : \E x \in S : Cardinality(below(S, x)) = k
    BY Ranked
  <1>2. c = [k \in 1..n |-> CHOOSE x \in S : Cardinality(below(S, x)) = k - 1]
    BY DEF InOrder, below
  <1> HIDE DEF c, n
  <1>3. ASSUME NEW k \in 1..n PROVE c[k] \in S /\ Cardinality(below(S, c[k])) = k - 1
    <2>1. k - 1 \in 0..(n - 1)
      BY <1>1
    <2>2. \E x \in S : Cardinality(below(S, x)) = k - 1
      BY <1>1, <2>1
    <2>3. c[k] = CHOOSE x \in S : Cardinality(below(S, x)) = k - 1
      BY <1>2
    <2> QED
      BY <2>2, <2>3
  <1>4. \A k \in 1..n : c[k] \in Int
    BY <1>3
  <1>5. c \in [1..n -> Int]
    BY <1>2, <1>4
  <1>6. c \in Seq(Int) /\ Len(c) = n
    BY <1>1, <1>5
  <1>7. ASSUME NEW i \in 1..n, NEW j \in 1..n, i < j PROVE c[i] < c[j]
    <2>1. c[i] \in Int /\ c[j] \in Int
      BY <1>4
    <2>2. c[j] <= c[i] => Cardinality(below(S, c[j])) <= Cardinality(below(S, c[i]))
      BY <2>1, BelowGrows
    <2> QED
      BY <1>3, <1>7, <2>1, <2>2
  <1> QED
    BY <1>1, <1>3, <1>6, <1>7 DEF c, n

\* Between the first and the last cut every place is between two neighbours.
LEMMA CutsCover ==
  ASSUME NEW S \in SUBSET Int, IsFiniteSet(S), NEW x \in Int, NEW first \in S, NEW last \in S,
         first <= x, x < last
  PROVE  \E k \in 1..(Cardinality(S) - 1) : InOrder(S, <)[k] <= x /\ x < InOrder(S, <)[k + 1]
  <1> DEFINE n == Cardinality(S)
             c == InOrder(S, <)
             k == Cardinality(below(S, x + 1))
  <1>1. /\ n \in Nat
        /\ \A i \in 1..n : c[i] \in S /\ c[i] \in Int /\ Cardinality(below(S, c[i])) = i - 1
    BY CutsAre
  <1>2. first \in Int /\ last \in Int /\ x + 1 \in Int
    OBVIOUS
  <1>3. k \in Nat /\ Cardinality(below(S, first)) \in Nat /\ Cardinality(below(S, first)) < k
    BY <1>2, BelowGrows
  <1>4. k < n
    <2> HIDE DEF c
    <2>1. below(S, x + 1) \subseteq S /\ last \notin below(S, x + 1)
      BY <1>2 DEF below
    <2>2. k <= n /\ k # n
      BY <2>1, FS_Subset
    <2>3. k \in Nat /\ n \in Nat
      BY <1>1, <1>3
    <2> HIDE DEF k, n
    <2> QED
      BY <2>2, <2>3
  <1> HIDE DEF n, c, k
  <1>5. k \in 1..(n - 1) /\ k \in 1..n /\ k + 1 \in 1..n
    BY <1>1, <1>3, <1>4
  <1>6. c[k] \in Int /\ c[k + 1] \in Int /\ Cardinality(below(S, c[k])) = k - 1
        /\ Cardinality(below(S, c[k + 1])) = k /\ c[k] \in S /\ c[k + 1] \in S
    BY <1>1, <1>5
  <1>7. c[k] <= x
    <2>1. x + 1 <= c[k] => k <= Cardinality(below(S, c[k]))
      BY <1>2, <1>6, BelowGrows DEF k
    <2> QED
      BY <1>3, <1>6, <2>1
  <1>8. x < c[k + 1]
    <2>1. c[k + 1] < x + 1 => Cardinality(below(S, c[k + 1])) < k
      BY <1>2, <1>6, BelowGrows DEF k
    <2> QED
      BY <1>3, <1>6, <2>1
  <1> QED
    BY <1>5, <1>7, <1>8 DEF n, c

LEMMA PartitionOK ==
  ASSUME NEW f, IsCurve(f), NEW kinks \in SUBSET Grid(f)
  PROVE  LET cuts == InOrder({Lower(f), Upper(f)} \cup kinks, <)
             count == Len(cuts) - 2
             pending == [i \in 1..(count + 1) |-> Region(cuts[count + 2 - i], cuts[count + 3 - i])]
         IN  /\ count \in Nat
             /\ \A unresolved : Search(f, pending, none, <<>>, unresolved)
  <1> DEFINE S == {Lower(f), Upper(f)} \cup kinks
             cuts == InOrder(S, <)
             n == Cardinality(S)
             count == Len(cuts) - 2
             pending == [i \in 1..(count + 1) |-> Region(cuts[count + 2 - i], cuts[count + 3 - i])]
  <1>1. /\ Lower(f) \in Int /\ Upper(f) \in Int /\ Lower(f) < Upper(f)
        /\ S \subseteq Lower(f)..Upper(f) /\ Lower(f) \in S /\ Upper(f) \in S
    BY DEF IsCurve
  <1>2. S \in SUBSET Int /\ IsFiniteSet(S)
    <2>1. IsFiniteSet(Lower(f)..Upper(f))
      BY <1>1, FS_Interval
    <2>2. IsFiniteSet(S)
      BY <1>1, <2>1, FS_Subset
    <2> QED
      BY <1>1, <2>2
  <1> HIDE DEF S
  <1>3. /\ n \in Nat /\ cuts \in Seq(Int) /\ Len(cuts) = n
        /\ \A k \in 1..n : cuts[k] \in S
        /\ \A i, j \in 1..n : i < j => cuts[i] < cuts[j]
    BY <1>2, CutsAre
  <1>4. \A x \in Lower(f)..(Upper(f) - 1) :
           \E k \in 1..(n - 1) : cuts[k] <= x /\ x < cuts[k + 1]
    <2>1. \A x \in Lower(f)..(Upper(f) - 1) : x \in Int /\ Lower(f) <= x /\ x < Upper(f)
      BY <1>1
    <2> QED
      BY <1>1, <1>2, <2>1, CutsCover
  <1> HIDE DEF cuts, n
  <1>5. n \in Nat /\ n - 1 \in Nat \ {0} /\ count = n - 2 /\ count \in Nat
    <2>1. Lower(f) \in Lower(f)..(Upper(f) - 1)
      BY <1>1
    <2>2. PICK k \in 1..(n - 1) : cuts[k] <= Lower(f)
      BY <1>4, <2>1
    <2> QED
      BY <1>3, <2>2
  <1>6. pending = [i \in 1..(n - 1) |-> Region(cuts[n - i], cuts[n + 1 - i])]
    <2>1. count + 1 = n - 1 /\ \A i \in 1..(n - 1) : count + 2 - i = n - i /\ count + 3 - i = n + 1 - i
      BY <1>5
    <2> QED
      BY <2>1
  <1> HIDE DEF pending, count
  <1>7. ASSUME NEW i \in 1..(n - 1)
        PROVE  /\ n - i \in 1..n /\ n + 1 - i \in 1..n /\ n - i < n + 1 - i
               /\ pending[i].lo = cuts[n - i] /\ pending[i].hi = cuts[n + 1 - i]
               /\ cuts[n - i] \in Int /\ cuts[n + 1 - i] \in Int
               /\ Lower(f) <= cuts[n - i] /\ cuts[n + 1 - i] <= Upper(f)
               /\ pending[i] \in Regions
    <2>1. n - i \in 1..n /\ n + 1 - i \in 1..n /\ n - i < n + 1 - i
      BY <1>3, <1>5
    <2>2. cuts[n - i] \in Lower(f)..Upper(f) /\ cuts[n + 1 - i] \in Lower(f)..Upper(f)
      BY <1>1, <1>3, <2>1
    <2>3. pending[i] = Region(cuts[n - i], cuts[n + 1 - i])
      BY <1>6
    <2>4. cuts[n - i] \in Int /\ cuts[n + 1 - i] \in Int
      BY <1>1, <2>2
    <2> QED
      BY <1>1, <2>1, <2>2, <2>3, <2>4 DEF Region, Regions
  <1>8. pending \in Seq(Regions) /\ DOMAIN pending = 1..(n - 1)
    <2>1. DOMAIN pending = 1..(n - 1) /\ pending = [i \in 1..(n - 1) |-> pending[i]]
      BY <1>6
    <2>2. pending \in [1..(n - 1) -> Regions]
      BY <1>7, <2>1
    <2> QED
      BY <1>5, <2>1, <2>2
  <1>9. \A i \in DOMAIN pending : proper(f, pending[i])
    BY <1>3, <1>7, <1>8 DEF proper
  <1>10. \A i, j \in DOMAIN pending : i < j => pending[j].hi <= pending[i].lo
    <2> SUFFICES ASSUME NEW i \in 1..(n - 1), NEW j \in 1..(n - 1), i < j
                 PROVE  cuts[n + 1 - j] <= cuts[n - i]
      BY <1>7, <1>8
    <2>1. n + 1 - j = n - i \/ n + 1 - j < n - i
      BY <1>5
    <2>2. n + 1 - j \in 1..n /\ n - i \in 1..n /\ cuts[n + 1 - j] \in Int /\ cuts[n - i] \in Int
      BY <1>7
    <2>3. n + 1 - j < n - i => cuts[n + 1 - j] < cuts[n - i]
      BY <1>3, <2>2
    <2> QED
      BY <2>1, <2>2, <2>3
  <1>11. ASSUME NEW x \in Lower(f)..(Upper(f) - 1)
         PROVE  \E i \in DOMAIN pending : covers(pending[i], x)
    <2>1. PICK k \in 1..(n - 1) : cuts[k] <= x /\ x < cuts[k + 1]
      BY <1>4
    <2>2. n - k \in 1..(n - 1) /\ n - (n - k) = k /\ n + 1 - (n - k) = k + 1
      BY <1>5
    <2>3. pending[n - k].lo = cuts[k] /\ pending[n - k].hi = cuts[k + 1]
      BY <1>7, <2>2
    <2> QED
      BY <1>8, <2>1, <2>2, <2>3 DEF covers
  <1>12. <<>> \in Seq(Proofs) /\ DOMAIN <<>> = {}
    OBVIOUS
  <1>13. \A unresolved : Search(f, pending, none, <<>>, unresolved)
    BY <1>8, <1>9, <1>10, <1>11, <1>12 DEF Search, Sweep, Tiled
  <1> QED
    BY <1>5, <1>13 DEF pending, count, cuts, n, S

-----------------------------------------------------------------------------
(* The steps of a search. *)
Refining(s) ==
    /\ s.current # none /\ s.bracket # none
    /\ Steep(s.curve, s.current)
    /\ OnSides(s.curve, s.current, s.left) /\ OnSides(s.curve, s.bracket, s.left)
    /\ s.current.lo <= s.bracket.lo /\ s.bracket.lo < s.bracket.hi /\ s.bracket.hi <= s.current.hi

\* Under way: what holds whatever comes next, also if the budget is spent.
Held(s) ==
    /\ IsCurve(s.curve) /\ s \in Solves(s.curve)
    /\ Search(s.curve, s.pending, s.current, s.proofs, s.unresolved)
SearchOK(s) ==
    /\ IsCurve(s.curve) /\ s \in Solves(s.curve) /\ s.phase # "done"
    /\ s.phase = "partition" => Fresh(s)
    /\ s.phase # "partition" => Held(s)
    /\ s.phase = "scan" => s.current = none
    /\ s.phase = "refine" => Refining(s)

LEMMA SpendOK ==
  ASSUME NEW s, NEW next, NEW n \in Nat, Held(s), SearchOK(next)
  PROVE  SearchOK(Spend(s, n, next))
  <1>1. CASE Affords(s, n)
    <2> DEFINE t == [next EXCEPT !.evaluations = s.evaluations + n]
    <2>1. s.evaluations + n \in Nat
      BY SMTT(40) DEF Held, Solves
    <2>2. /\ t \in Solves(next.curve) /\ t.curve = next.curve /\ t.phase = next.phase
          /\ t.pending = next.pending /\ t.current = next.current /\ t.proofs = next.proofs
          /\ t.unresolved = next.unresolved /\ t.bracket = next.bracket /\ t.left = next.left
          /\ t.reason = next.reason /\ t.state = next.state
      BY <2>1 DEF SearchOK, Solves
    <2>3. Spend(s, n, next) = t
      BY <1>1 DEF Spend
    <2> HIDE DEF t
    <2> QED
      BY <2>2, <2>3 DEF SearchOK, Held, Refining, Fresh
  <1>2. CASE ~Affords(s, n)
    <2> DEFINE t == [s EXCEPT !.phase = "conclude", !.evaluations = s.max_evaluations,
                              !.reason = "evaluation_budget"]
    <2>1. /\ t \in Solves(s.curve) /\ t.curve = s.curve /\ t.phase = "conclude"
          /\ t.pending = s.pending /\ t.current = s.current /\ t.proofs = s.proofs
          /\ t.unresolved = s.unresolved
      BY DEF Held, Solves, Limits
    <2>2. Spend(s, n, next) = t
      BY <1>2 DEF Spend, Exhausted
    <2> HIDE DEF t
    <2> QED
      BY <2>1, <2>2 DEF SearchOK, Held
  <1> QED
    BY <1>1, <1>2

LEMMA ProofFacts ==
  ASSUME NEW s, NEW r \in Regions, NEW disposition \in {"excluded", "unique_root", "unresolved"},
         NEW root \in Regions \cup {none}, Held(s), s.current = r,
         NEW unresolved \in BOOLEAN, s.unresolved => unresolved,
         Justified(s.curve, [domain |-> r, disposition |-> disposition, root |-> root], unresolved)
  PROVE  SearchOK([Prove(s, r, disposition, root) EXCEPT !.unresolved = unresolved])
  <1> DEFINE p == [domain |-> r, disposition |-> disposition, root |-> root]
             t == [Prove(s, r, disposition, root) EXCEPT !.unresolved = unresolved]
  <1>1. p \in Proofs /\ p.domain = r
    BY DEF Proofs
  <1>2. s.proofs \in Seq(Proofs) /\ s.unresolved \in BOOLEAN
    BY DEF Held, Solves
  <1>3. Append(s.proofs, p) \in Seq(Proofs)
    BY <1>1, <1>2
  <1>4. /\ t \in Solves(s.curve) /\ t.curve = s.curve /\ t.phase = "scan" /\ t.pending = s.pending
        /\ t.current = none /\ t.proofs = Append(s.proofs, p) /\ t.unresolved = unresolved
    BY ZenonT(60), <1>3 DEF Prove, Held, Solves
  <1> HIDE DEF t
  <1>5. Search(s.curve, s.pending, none, Append(s.proofs, p), unresolved)
    BY <1>1, <1>2, ProveOK DEF Held
  <1> QED
    BY <1>4, <1>5 DEF SearchOK, Held, t

\* The region in hand is excluded, or holds one root.
LEMMA Proven ==
  ASSUME NEW s, NEW r \in Regions, NEW disposition \in {"excluded", "unique_root"},
         NEW root \in Regions \cup {none}, Held(s), s.current = r,
         Justified(s.curve, [domain |-> r, disposition |-> disposition, root |-> root], s.unresolved)
  PROVE  SearchOK(Prove(s, r, disposition, root))
  <1>1. SearchOK([Prove(s, r, disposition, root) EXCEPT !.unresolved = s.unresolved])
    <2>1. s.unresolved \in BOOLEAN
      BY DEF Held, Solves
    <2> QED
      BY <2>1, ProofFacts
  <1>2. [Prove(s, r, disposition, root) EXCEPT !.unresolved = s.unresolved] = Prove(s, r, disposition, root)
    BY DEF Held, Solves, Prove
  <1> QED
    BY <1>1, <1>2

LEMMA MidBetween ==
  ASSUME NEW r \in Regions, r.lo < r.hi
  PROVE  Mid(r) \in Int /\ r.lo <= Mid(r) /\ Mid(r) < r.hi
  BY DEF Mid, Regions

LEMMA LeaveOK ==
  ASSUME NEW s, NEW r \in Regions, Held(s), s.current = r
  PROVE  SearchOK(Leave(s, r))
  <1>1. IsCurve(s.curve) /\ proper(s.curve, r)
    BY NoneIsNoRegion DEF Held, Search, Sweep
  <1>2. r.lo \in Int /\ r.hi \in Int /\ r.lo < r.hi
    BY <1>1, ProperFacts
  <1>3. CASE Mid(r) \notin {r.lo, r.hi} /\ Leave(s, r) = Halve(s, r)
    <2> DEFINE t == Halve(s, r)
               pending == s.pending \o <<Region(Mid(r), r.hi), Region(r.lo, Mid(r))>>
    <2>1. Mid(r) \in Int /\ r.lo < Mid(r) /\ Mid(r) < r.hi
      BY <1>2, <1>3, MidBetween
    <2>2. Search(s.curve, pending, none, s.proofs, s.unresolved)
      BY <2>1, HalveOK DEF Held
    <2>3. pending \in Seq(Regions) /\ s.subdivisions + 1 \in Nat
      BY <2>2 DEF Search, Held, Solves
    <2> HIDE DEF pending
    <2>4. /\ t \in Solves(s.curve) /\ t.curve = s.curve /\ t.phase = "scan" /\ t.pending = pending
          /\ t.current = none /\ t.proofs = s.proofs /\ t.unresolved = s.unresolved
      BY ZenonT(60), <2>3 DEF Halve, Held, Solves, pending
    <2> HIDE DEF t
    <2> QED
      BY <1>1, <1>3, <2>2, <2>4 DEF SearchOK, Held, t
  <1>4. CASE Leave(s, r) = [Prove(s, r, "unresolved", none) EXCEPT !.unresolved = TRUE]
    <2>1. Justified(s.curve, [domain |-> r, disposition |-> "unresolved", root |-> none], TRUE)
      BY DEF Justified
    <2>2. TRUE \in BOOLEAN /\ (s.unresolved => TRUE) /\ none \in Regions \cup {none}
          /\ "unresolved" \in {"excluded", "unique_root", "unresolved"}
      OBVIOUS
    <2>3. SearchOK([Prove(s, r, "unresolved", none) EXCEPT !.unresolved = TRUE])
      BY ONLY <2>1, <2>2, ProofFacts, Held(s), s.current = r, r \in Regions
    <2> QED
      BY <1>4, <2>3
  <1> QED
    BY <1>3, <1>4 DEF Leave

\* The whole domain as one region.
LEMMA WholeOK ==
  ASSUME NEW f, IsCurve(f), NEW unresolved
  PROVE  Search(f, <<Region(Lower(f), Upper(f))>>, none, <<>>, unresolved)
  <1> DEFINE r == Region(Lower(f), Upper(f))
             pending == <<r>>
  <1>1. Lower(f) \in Int /\ Upper(f) \in Int /\ r.lo = Lower(f) /\ r.hi = Upper(f) /\ r \in Regions /\ proper(f, r)
    BY DEF IsCurve, Region, Regions, proper
  <1> HIDE DEF r
  <1>2. pending \in Seq(Regions) /\ DOMAIN pending = {1} /\ pending[1] = r
    BY <1>1
  <1>3. <<>> \in Seq(Proofs) /\ DOMAIN <<>> = {}
    OBVIOUS
  <1> HIDE DEF pending
  <1>4. Sweep(f, pending, none, <<>>)
    BY <1>1, <1>2, <1>3 DEF Sweep
  <1>5. Tiled(f, pending, none, <<>>)
    BY <1>1, <1>2 DEF Tiled, covers
  <1>6. Search(f, pending, none, <<>>, unresolved)
    BY <1>2, <1>3, <1>4, <1>5 DEF Search
  <1> QED
    BY <1>6 DEF pending, r

\* The state after the cuts, and without them.
LEMMA CutFacts ==
  ASSUME NEW s, s \in Solves(s.curve), Fresh(s), NEW pending \in Seq(Regions), NEW count \in Nat
  PROVE  LET t == [s EXCEPT !.phase = "scan", !.subdivisions = count, !.pending = pending]
         IN  /\ t \in Solves(s.curve) /\ t.curve = s.curve /\ t.phase = "scan" /\ t.pending = pending
             /\ t.current = none /\ t.proofs = <<>> /\ t.unresolved = FALSE
  BY DEF Solves, Fresh

LEMMA UncutFacts ==
  ASSUME NEW s, s \in Solves(s.curve), Fresh(s), NEW pending \in Seq(Regions)
  PROVE  LET t == [Exhausted(s) EXCEPT !.evaluations = 0, !.pending = pending]
         IN  /\ t \in Solves(s.curve) /\ t.curve = s.curve /\ t.phase = "conclude" /\ t.pending = pending
             /\ t.current = none /\ t.proofs = <<>> /\ t.unresolved = FALSE
  BY DEF Solves, Fresh, Exhausted, Limits

\* The domain is cut, unless that takes more subdivisions than there are.
LEMMA PartitionStep ==
  ASSUME NEW s, SearchOK(s), s.phase = "partition"
  PROVE  SearchOK(Partition(s))
  <1> DEFINE f == s.curve
             cuts == InOrder({Lower(f), Upper(f)} \cup s.kinks, <)
             count == Len(cuts) - 2
             pending == [i \in 1..(count + 1) |-> Region(cuts[count + 2 - i], cuts[count + 3 - i])]
             whole == <<Region(Lower(f), Upper(f))>>
             uncut == [Exhausted(s) EXCEPT !.evaluations = 0, !.pending = whole]
             cut == [s EXCEPT !.phase = "scan", !.subdivisions = count, !.pending = pending]
  <1>1. IsCurve(f) /\ s \in Solves(f) /\ s.kinks \in SUBSET Grid(f) /\ Fresh(s)
    BY DEF SearchOK, Solves
  <1>2. Partition(s) = IF count > s.max_subdivisions THEN uncut ELSE cut
    BY DEF Partition
  <1>3. count \in Nat /\ Search(f, pending, none, <<>>, FALSE)
    BY <1>1, PartitionOK
  <1>4. Search(f, whole, none, <<>>, FALSE)
    BY <1>1, WholeOK
  <1>5. pending \in Seq(Regions) /\ whole \in Seq(Regions)
    BY <1>3, <1>4 DEF Search
  <1> HIDE DEF count, pending, whole, cuts
  <1>6. /\ uncut \in Solves(f) /\ uncut.curve = f /\ uncut.phase = "conclude" /\ uncut.pending = whole
        /\ uncut.current = none /\ uncut.proofs = <<>> /\ uncut.unresolved = FALSE
    BY <1>1, <1>5, UncutFacts
  <1>7. /\ cut \in Solves(f) /\ cut.curve = f /\ cut.phase = "scan" /\ cut.pending = pending
        /\ cut.current = none /\ cut.proofs = <<>> /\ cut.unresolved = FALSE
    BY <1>1, <1>3, <1>5, CutFacts
  <1> HIDE DEF uncut, cut, f
  <1>8. SearchOK(uncut) /\ SearchOK(cut)
    BY <1>1, <1>3, <1>4, <1>6, <1>7 DEF SearchOK, Held
  <1> QED
    BY <1>2, <1>8

\* A bracket is taken up, or narrowed.
LEMMA BracketOK ==
  ASSUME NEW s, Held(s), NEW b \in Regions, NEW left \in {-1, 0, 1}, NEW rounds \in Nat,
         s.current # none, Steep(s.curve, s.current),
         OnSides(s.curve, s.current, left), OnSides(s.curve, b, left),
         s.current.lo <= b.lo, b.lo < b.hi, b.hi <= s.current.hi
  PROVE  SearchOK([s EXCEPT !.phase = "refine", !.bracket = b, !.left = left, !.rounds = rounds])
  <1> DEFINE t == [s EXCEPT !.phase = "refine", !.bracket = b, !.left = left, !.rounds = rounds]
  <1>1. /\ t \in Solves(s.curve) /\ t.curve = s.curve /\ t.phase = "refine" /\ t.pending = s.pending
        /\ t.current = s.current /\ t.proofs = s.proofs /\ t.unresolved = s.unresolved
        /\ t.bracket = b /\ t.left = left
    BY DEF Held, Solves
  <1>2. b # none
    BY NoneIsNoRegion
  <1> HIDE DEF t
  <1>3. SearchOK(t)
    BY <1>1, <1>2 DEF SearchOK, Held, Refining
  <1> QED
    BY <1>3 DEF t

\* Certified opposite signs are what they say.
LEMMA SidesOf ==
  ASSUME NEW s, IsCurve(s.curve), s \in Solves(s.curve), NEW r \in Regions, proper(s.curve, r)
  PROVE  LET left == SignAt(s, r.lo)  right == SignAt(s, r.hi) IN
         /\ left \in {-1, 0, 1} /\ right \in {-1, 0, 1}
         /\ left = -right /\ left # 0 => OnSides(s.curve, r, left)
         /\ left * right = -1 => left = -right /\ left # 0
         /\ left # 0 /\ left = right => \/ s.curve[r.lo] > 0 /\ s.curve[r.hi] > 0
                                        \/ s.curve[r.lo] < 0 /\ s.curve[r.hi] < 0
  <1> DEFINE left == SignAt(s, r.lo)
             right == SignAt(s, r.hi)
             f == s.curve
  <1>1. r.lo \in Lower(f)..Upper(f) /\ r.hi \in Lower(f)..Upper(f)
    BY ProperFacts
  <1>2. /\ left \in {-1, 0, 1} /\ (left = 1 => f[r.lo] > 0) /\ (left = -1 => f[r.lo] < 0)
        /\ right \in {-1, 0, 1} /\ (right = 1 => f[r.hi] > 0) /\ (right = -1 => f[r.hi] < 0)
    BY <1>1, SignedPoint
  <1> HIDE DEF left, right, f
  <1>3. left = -right /\ left # 0 => OnSides(f, r, left)
    BY <1>2 DEF OnSides
  <1>4. left * right = -1 => left = -right /\ left # 0
    BY <1>2
  <1>5. left # 0 /\ left = right => \/ f[r.lo] > 0 /\ f[r.hi] > 0
                                    \/ f[r.lo] < 0 /\ f[r.hi] < 0
    BY <1>2
  <1> QED
    BY <1>2, <1>3, <1>4, <1>5 DEF left, right, f

\* Examining the region in hand.
LEMMA ExamineOK ==
  ASSUME NEW s, NEW r \in Regions, Held(s), s.current = r
  PROVE  SearchOK(Examine(s, r))
  <1> DEFINE f == s.curve
             left == SignAt(s, r.lo)
             right == SignAt(s, r.hi)
             excluded == Prove(s, r, "excluded", none)
             refining == [s EXCEPT !.phase = "refine", !.bracket = r, !.left = left, !.rounds = 0]
  <1>1. IsCurve(f) /\ s \in Solves(f) /\ r # none /\ proper(f, r) /\ Within(f, r)
    <2>1. r # none
      BY NoneIsNoRegion
    <2>2. IsCurve(f) /\ s \in Solves(f) /\ proper(f, r)
      BY <2>1 DEF Held, Search, Sweep
    <2> QED
      BY <2>1, <2>2, ProperFacts
  <1>2. 1 \in Nat /\ 3 \in Nat /\ 0 \in Nat
    OBVIOUS
  <1>3. NoRoot(f, r) => SearchOK(excluded)
    <2>1. NoRoot(f, r) => Justified(f, [domain |-> r, disposition |-> "excluded", root |-> none], s.unresolved)
      BY DEF Justified
    <2>2. "excluded" \in {"excluded", "unique_root"} /\ none \in Regions \cup {none}
      OBVIOUS
    <2> QED
      BY <2>1, <2>2, Proven
  <1>4. SearchOK(Leave(s, r))
    BY LeaveOK
  <1>5. /\ left \in {-1, 0, 1} /\ right \in {-1, 0, 1}
        /\ left = -right /\ left # 0 => OnSides(f, r, left)
        /\ left * right = -1 => left = -right /\ left # 0
        /\ left # 0 /\ left = right => \/ f[r.lo] > 0 /\ f[r.hi] > 0
                                       \/ f[r.lo] < 0 /\ f[r.hi] < 0
    BY <1>1, SidesOf
  <1> HIDE DEF left, right
  <1>6. CASE Sign(Value(s, r)) # 0
    <2>1. NoRoot(f, r)
      BY <1>1, <1>6, SignedValue, OneSignNoRoot
    <2>2. SearchOK(Spend(s, 1, excluded))
      BY <2>1, <1>2, <1>3, SpendOK
    <2> QED
      BY <1>6, <2>2 DEF Examine
  <1>7. CASE Sign(Value(s, r)) = 0 /\ Sign(Slope(s, r)) = 0
    <2>1. SearchOK(Spend(s, 1, Leave(s, r)))
      BY <1>2, <1>4, SpendOK
    <2> QED
      BY <1>7, <2>1 DEF Examine
  <1>8. CASE Sign(Value(s, r)) = 0 /\ Sign(Slope(s, r)) # 0
    <2>1. Steep(f, r)
      BY <1>1, <1>8, SignedSlope
    <2>2. left # 0 /\ left = right => SearchOK(Spend(s, 3, excluded))
      <3> SUFFICES ASSUME left # 0 /\ left = right PROVE SearchOK(Spend(s, 3, excluded))
        OBVIOUS
      <3>1. NoRoot(f, r)
        BY <1>1, <1>5, <2>1, SteepNoRoot
      <3> QED
        BY <3>1, <1>2, <1>3, SpendOK
    <2>3. left * right = -1 => SearchOK(Spend(s, 3, refining))
      <3> SUFFICES ASSUME left * right = -1 PROVE SearchOK(Spend(s, 3, refining))
        OBVIOUS
      <3>1. OnSides(f, r, left)
        BY <1>5
      <3>2. r.lo <= r.lo /\ r.lo < r.hi /\ r.hi <= r.hi
        BY <1>1, ProperFacts
      <3>3. SearchOK(refining)
        BY <1>1, <1>2, <1>5, <2>1, <3>1, <3>2, BracketOK
      <3> QED
        BY <1>2, <3>3, SpendOK
    <2>4. SearchOK(Spend(s, 3, Leave(s, r)))
      BY <1>2, <1>4, SpendOK
    <2> QED
      BY <1>8, <2>2, <2>3, <2>4 DEF Examine, left, right
  <1> QED
    <2>1. Sign(Value(s, r)) = 0 \/ Sign(Value(s, r)) # 0
      OBVIOUS
    <2> QED
      BY <1>6, <1>7, <1>8

\* Nothing is left to examine, or the region in hand is the next from the stack.
LEMMA OverFacts ==
  ASSUME NEW s, s \in Solves(s.curve)
  PROVE  LET t == [s EXCEPT !.phase = "conclude"]
         IN  /\ t \in Solves(s.curve) /\ t.curve = s.curve /\ t.phase = "conclude" /\ t.pending = s.pending
             /\ t.current = s.current /\ t.proofs = s.proofs /\ t.unresolved = s.unresolved
  BY DEF Solves

LEMMA ScanOK ==
  ASSUME NEW s, SearchOK(s), s.phase = "scan"
  PROVE  SearchOK(Scan(s))
  <1>1. Held(s) /\ IsCurve(s.curve) /\ s \in Solves(s.curve) /\ s.current = none
    BY DEF SearchOK
  <1>2. CASE s.pending = <<>>
    <2> DEFINE over == [s EXCEPT !.phase = "conclude"]
    <2>1. /\ over \in Solves(s.curve) /\ over.curve = s.curve /\ over.phase = "conclude"
          /\ over.pending = s.pending /\ over.current = s.current /\ over.proofs = s.proofs
          /\ over.unresolved = s.unresolved
      BY <1>1, OverFacts
    <2>2. Scan(s) = over
      BY <1>2 DEF Scan
    <2> HIDE DEF over
    <2> QED
      BY <1>1, <2>1, <2>2 DEF SearchOK, Held
  <1>3. CASE s.pending # <<>>
    <2>1. PICK t, r, pending : /\ r = Last(s.pending) /\ pending = Front(s.pending)
                               /\ t = [s EXCEPT !.current = r, !.pending = pending]
      OBVIOUS
    <2>2. Search(s.curve, pending, r, s.proofs, s.unresolved) /\ r \in Regions
      BY <1>1, <1>3, <2>1, TakeOK DEF Held
    <2>5. pending \in Seq(Regions)
      BY <2>2 DEF Search
    <2>6. /\ t \in Solves(s.curve) /\ t.curve = s.curve /\ t.pending = pending
          /\ t.current = r /\ t.proofs = s.proofs /\ t.unresolved = s.unresolved
      <3>1. s \in Solves(s.curve)
        BY <1>1
      <3>2. r \in Regions
        BY <2>2
      <3>3. t = [s EXCEPT !.current = r, !.pending = pending]
        BY <2>1
      <3> QED
        BY ONLY <2>5, <3>1, <3>2, <3>3 DEF Solves
    <2>3. Scan(s) = Examine(t, t.current)
      BY <1>3, <2>1 DEF Scan
    <2>4. Held(t)
      BY <1>1, <2>2, <2>6 DEF Held
    <2> QED
      BY <2>2, <2>3, <2>4, <2>6, ExamineOK
  <1> QED
    BY <1>2, <1>3

\* The bracket narrows.
LEMMA NarrowOK ==
  ASSUME NEW s, SearchOK(s), s.phase = "refine", NEW b \in Regions,
         OnSides(s.curve, b, s.left), s.bracket.lo <= b.lo, b.lo < b.hi, b.hi <= s.bracket.hi
  PROVE  SearchOK([s EXCEPT !.bracket = b, !.rounds = @ + 1])
  <1> DEFINE t == [s EXCEPT !.bracket = b, !.rounds = @ + 1]
  <1>1. s \in Solves(s.curve) /\ Held(s) /\ Refining(s)
    BY DEF SearchOK
  <1>2. s.rounds + 1 \in Nat
    BY <1>1 DEF Solves
  <1>3. /\ t \in Solves(s.curve) /\ t.curve = s.curve /\ t.phase = "refine" /\ t.pending = s.pending
        /\ t.current = s.current /\ t.proofs = s.proofs /\ t.unresolved = s.unresolved
        /\ t.bracket = b /\ t.left = s.left
    BY <1>1, <1>2 DEF Solves
  <1>4. /\ b # none /\ s.current \in Regions /\ s.bracket \in Regions
    BY <1>1, NoneIsNoRegion DEF Refining, Solves
  <1>5. s.current.lo <= b.lo /\ b.hi <= s.current.hi
    BY <1>1, <1>4 DEF Refining, Regions
  <1> HIDE DEF t
  <1>6. SearchOK(t)
    BY <1>1, <1>3, <1>4, <1>5 DEF SearchOK, Held, Refining
  <1> QED
    BY <1>6 DEF t

\* One round of the refinement.
LEMMA RefineOK ==
  ASSUME NEW s, SearchOK(s), s.phase = "refine"
  PROVE  SearchOK(Refine(s))
  <1> DEFINE f == s.curve
             b == s.bracket
             r == s.current
             enclosure == Value(s, b)
             narrow == /\ Width(b) <= s.width_tolerance
                       /\ -enclosure.lo <= s.residual_tolerance /\ enclosure.hi <= s.residual_tolerance
             m == Mid(b)
             sign == SignAt(s, m)
             low == Mid(Region(b.lo, m))
             high == Mid(Region(m, b.hi))
             next(bracket) == [s EXCEPT !.bracket = bracket, !.rounds = @ + 1]
             giveUp == Leave(s, r)
             found == Prove(s, r, "unique_root", b)
  <1>1. /\ Held(s) /\ IsCurve(f) /\ s \in Solves(f) /\ Refining(s)
        /\ r \in Regions /\ b \in Regions /\ r # none /\ b # none
    BY DEF SearchOK, Refining, Solves
  <1>2. /\ Steep(f, r) /\ OnSides(f, r, s.left) /\ OnSides(f, b, s.left)
        /\ r.lo <= b.lo /\ b.lo < b.hi /\ b.hi <= r.hi
    BY <1>1 DEF Refining
  <1>3. proper(f, r)
    BY <1>1 DEF Held, Search, Sweep
  <1>4. /\ Lower(f) \in Int /\ Upper(f) \in Int /\ Lower(f) <= r.lo /\ r.hi <= Upper(f)
        /\ r.lo \in Int /\ r.hi \in Int /\ b.lo \in Int /\ b.hi \in Int
    BY <1>1, <1>3, ProperFacts DEF Regions
  <1>5. Refine(s) = IF s.rounds = s.max_iterations THEN giveUp
                    ELSE IF narrow THEN Spend(s, 1, found)
                    ELSE IF m \in {b.lo, b.hi} THEN Spend(s, 1, giveUp)
                    ELSE IF sign # 0
                    THEN Spend(s, 2, next(IF sign = s.left THEN Region(m, b.hi) ELSE Region(b.lo, m)))
                    ELSE IF SignAt(s, low) = s.left /\ SignAt(s, high) = -s.left
                    THEN Spend(s, 4, next(Region(low, high)))
                    ELSE Spend(s, 4, giveUp)
    BY DEF Refine
  <1>6. 1 \in Nat /\ 2 \in Nat /\ 4 \in Nat
    OBVIOUS
  <1>7. SearchOK(giveUp) /\ SearchOK(Spend(s, 1, giveUp)) /\ SearchOK(Spend(s, 4, giveUp))
    <2>1. SearchOK(giveUp)
      BY <1>1, LeaveOK
    <2> QED
      BY <1>1, <1>6, <2>1, SpendOK
  <1>8. SearchOK(Spend(s, 1, found))
    <2>1. OneRoot(f, r, b)
      BY <1>1, <1>2, <1>3, SteepOneRoot
    <2>2. Justified(f, [domain |-> r, disposition |-> "unique_root", root |-> b], s.unresolved)
      BY <1>1, <2>1 DEF Justified
    <2>3. "unique_root" \in {"excluded", "unique_root"} /\ b \in Regions \cup {none}
      BY <1>1
    <2>4. SearchOK(found)
      BY <1>1, <2>2, <2>3, Proven
    <2> QED
      BY <1>1, <1>6, <2>4, SpendOK
  <1>9. m \notin {b.lo, b.hi} => m \in Int /\ b.lo < m /\ m < b.hi
    BY <1>1, <1>2, <1>4, MidBetween
  <1>10. ASSUME m \notin {b.lo, b.hi}, sign # 0
         PROVE  SearchOK(Spend(s, 2, next(IF sign = s.left THEN Region(m, b.hi) ELSE Region(b.lo, m))))
    <2> DEFINE c == IF sign = s.left THEN Region(m, b.hi) ELSE Region(b.lo, m)
    <2>1. m \in Int /\ b.lo < m /\ m < b.hi /\ m \in Lower(f)..Upper(f)
      BY <1>2, <1>4, <1>9, <1>10
    <2>2. sign \in {-1, 0, 1} /\ (sign = 1 => f[m] > 0) /\ (sign = -1 => f[m] < 0)
      BY <1>1, <2>1, SignedPoint
    <2>3. c \in Regions /\ b.lo <= c.lo /\ c.lo < c.hi /\ c.hi <= b.hi
      BY <1>4, <2>1 DEF Region, Regions
    <2>4. OnSides(f, c, s.left)
      BY <1>2, <1>10, <2>2 DEF OnSides, Region
    <2> HIDE DEF c
    <2>5. SearchOK(next(c))
      BY <2>3, <2>4, NarrowOK
    <2>6. SearchOK(Spend(s, 2, next(c)))
      BY <1>1, <1>6, <2>5, SpendOK
    <2> QED
      BY <2>6 DEF c
  <1>11. ASSUME m \notin {b.lo, b.hi}, SignAt(s, low) = s.left /\ SignAt(s, high) = -s.left
         PROVE  SearchOK(Spend(s, 4, next(Region(low, high))))
    <2> DEFINE c == Region(low, high)
    <2>1. m \in Int /\ b.lo < m /\ m < b.hi
      BY <1>9, <1>11
    <2>2. low \in Int /\ b.lo <= low /\ low < m
      BY <1>4, <2>1 DEF Mid, Region
    <2>3. high \in Int /\ m <= high /\ high < b.hi
      BY <1>4, <2>1 DEF Mid, Region
    <2> HIDE DEF m, low, high
    <2>4. low \in Lower(f)..Upper(f) /\ high \in Lower(f)..Upper(f)
      BY <1>2, <1>4, <2>1, <2>2, <2>3
    <2>5. /\ SignAt(s, low) = 1 => f[low] > 0
          /\ SignAt(s, low) = -1 => f[low] < 0
          /\ SignAt(s, high) = 1 => f[high] > 0
          /\ SignAt(s, high) = -1 => f[high] < 0
      BY <1>1, <2>4, SignedPoint
    <2>6. s.left = 1 \/ s.left = -1
      BY <1>2 DEF OnSides
    <2>7. OnSides(f, c, s.left)
      <3>1. s.left = 1 => f[low] > 0 /\ f[high] < 0
        BY <1>11, <2>5
      <3>4. s.left = -1 => -s.left = 1
        <4>1. s.left \in Int
          BY <2>6
        <4>2. \A x \in Int : x + 1 = 0 => -x = 1
          OBVIOUS
        <4>3. s.left = -1 => s.left + 1 = 0
          BY <4>1
        <4> QED
          BY ONLY <4>1, <4>2, <4>3
      <3>5. s.left = -1 => SignAt(s, low) = -1 /\ SignAt(s, high) = 1
        BY <1>11, <3>4
      <3>2. s.left = -1 => f[low] < 0 /\ f[high] > 0
        BY <2>5, <3>5
      <3>3. c.lo = low /\ c.hi = high
        BY DEF Region
      <3> QED
        BY <2>6, <3>1, <3>2, <3>3 DEF OnSides
    <2>8. c \in Regions /\ b.lo <= c.lo /\ c.lo < c.hi /\ c.hi <= b.hi
      BY <1>4, <2>1, <2>2, <2>3 DEF Region, Regions
    <2> HIDE DEF c
    <2>9. SearchOK(next(c))
      BY <2>7, <2>8, NarrowOK
    <2>10. SearchOK(Spend(s, 4, next(c)))
      BY <1>1, <1>6, <2>9, SpendOK
    <2> QED
      BY <2>10 DEF c
  <1> HIDE DEF next, giveUp, found, narrow, m, sign, low, high, b, f, r
  <1> QED
    BY <1>5, <1>7, <1>8, <1>10, <1>11

\* A step that raises keeps every region.
LEMMA FailOK ==
  ASSUME NEW s, SearchOK(s),
         s.phase \in {"partition", "refine"} \/ (s.phase = "scan" /\ s.pending # <<>>)
  PROVE  SearchOK(Fail(s))
  <1>1. IsCurve(s.curve) /\ s \in Solves(s.curve) /\ "numeric_precision" \in Limits
    BY DEF SearchOK, Limits
  <1>2. CASE s.phase = "partition"
    <2>1. PICK pending : pending = <<Region(Lower(s.curve), Upper(s.curve))>>
      OBVIOUS
    <2>2. Search(s.curve, pending, none, <<>>, FALSE)
      BY <1>1, <2>1, WholeOK
    <2>3. pending \in Seq(Regions)
      BY <2>2 DEF Search
    <2>4. Fresh(s)
      BY <1>2 DEF SearchOK
    <2>5. PICK t : t = [s EXCEPT !.phase = "conclude", !.reason = "numeric_precision", !.pending = pending]
      OBVIOUS
    <2>6. Fail(s) = t
      BY <1>2, <2>1, <2>5 DEF Fail
    <2>7. /\ t \in Solves(s.curve) /\ t.curve = s.curve /\ t.phase = "conclude" /\ t.pending = pending
          /\ t.current = s.current /\ t.proofs = s.proofs /\ t.unresolved = s.unresolved
      BY ONLY <1>1, <2>3, <2>5 DEF Solves
    <2>8. s.current = none /\ s.proofs = <<>> /\ s.unresolved = FALSE
      BY <1>1, <2>4 DEF Fresh, Solves
    <2> QED
      BY <1>1, <2>2, <2>6, <2>7, <2>8 DEF SearchOK, Held
  <1>3. CASE s.phase = "scan" /\ s.pending # <<>>
    <2>1. PICK r, pending : r = Last(s.pending) /\ pending = Front(s.pending)
      OBVIOUS
    <2>2. Held(s) /\ s.current = none
      BY <1>3 DEF SearchOK
    <2>3. Search(s.curve, pending, r, s.proofs, s.unresolved) /\ r \in Regions
      BY <1>1, <1>3, <2>1, <2>2, TakeOK DEF Held
    <2>4. pending \in Seq(Regions) /\ r \in Regions
      BY <2>3 DEF Search
    <2>5. PICK t : t = [s EXCEPT !.phase = "conclude", !.reason = "numeric_precision", !.current = r, !.pending = pending]
      OBVIOUS
    <2>6. Fail(s) = t
      BY <1>3, <2>1, <2>5 DEF Fail
    <2>7. /\ t \in Solves(s.curve) /\ t.curve = s.curve /\ t.phase = "conclude" /\ t.pending = pending
          /\ t.current = r /\ t.proofs = s.proofs /\ t.unresolved = s.unresolved
      BY ONLY <1>1, <2>4, <2>5 DEF Solves
    <2> QED
      BY <1>1, <2>3, <2>6, <2>7 DEF SearchOK, Held
  <1>4. CASE s.phase = "refine"
    <2>1. Held(s)
      BY <1>4 DEF SearchOK
    <2>2. PICK t : t = [s EXCEPT !.phase = "conclude", !.reason = "numeric_precision"]
      OBVIOUS
    <2>3. Fail(s) = t
      BY <1>4, <2>2 DEF Fail
    <2>4. /\ t \in Solves(s.curve) /\ t.curve = s.curve /\ t.phase = "conclude" /\ t.pending = s.pending
          /\ t.current = s.current /\ t.proofs = s.proofs /\ t.unresolved = s.unresolved
      BY ONLY <1>1, <2>2 DEF Solves
    <2> QED
      BY <1>1, <2>1, <2>3, <2>4 DEF SearchOK, Held
  <1> QED
    BY <1>2, <1>3, <1>4

-----------------------------------------------------------------------------
(* Each place of the domain is in one region. *)
regions(pending, current, proofs) ==
    Range(pending) \cup (IF current = none THEN {} ELSE {current}) \cup {p.domain : p \in Range(proofs)}

LEMMA Whereabouts ==
  ASSUME NEW pending, NEW current, NEW proofs, NEW r
  PROVE  r \in regions(pending, current, proofs) <=>
            \/ \E i \in DOMAIN pending : r = pending[i]
            \/ \E i \in DOMAIN proofs : r = proofs[i].domain
            \/ current # none /\ r = current
  BY DEF regions, Range

LEMMA Bounds ==
  ASSUME NEW pending \in Seq(Regions), NEW current \in Regions \cup {none}, NEW proofs \in Seq(Proofs)
  PROVE  /\ \A i \in DOMAIN pending : i \in Int /\ pending[i].lo \in Int /\ pending[i].hi \in Int
         /\ \A i \in DOMAIN proofs : i \in Int /\ proofs[i].domain.lo \in Int /\ proofs[i].domain.hi \in Int
         /\ current # none => current.lo \in Int /\ current.hi \in Int
  <1>1. \A r \in Regions : r.lo \in Int /\ r.hi \in Int
    BY DEF Regions
  <1>2. \A p \in Proofs : p.domain \in Regions
    BY DEF Proofs
  <1>3. /\ \A i \in DOMAIN pending : i \in Int /\ pending[i] \in Regions
        /\ \A i \in DOMAIN proofs : i \in Int /\ proofs[i] \in Proofs
    OBVIOUS
  <1> QED
    BY <1>1, <1>2, <1>3

\* No two regions overlap.
LEMMA OneAtATime ==
  ASSUME NEW f, IsCurve(f), NEW pending, NEW current, NEW proofs, NEW unresolved,
         Search(f, pending, current, proofs, unresolved),
         NEW x \in Int,
         NEW r \in regions(pending, current, proofs), covers(r, x),
         NEW q \in regions(pending, current, proofs), covers(q, x)
  PROVE  r = q
  <1>1. /\ pending \in Seq(Regions) /\ current \in Regions \cup {none} /\ proofs \in Seq(Proofs)
        /\ Sweep(f, pending, current, proofs)
    BY DEF Search
  <1>2. /\ \A i \in DOMAIN pending : i \in Int /\ pending[i].lo \in Int /\ pending[i].hi \in Int
        /\ \A i \in DOMAIN proofs : i \in Int /\ proofs[i].domain.lo \in Int /\ proofs[i].domain.hi \in Int
        /\ current # none => current.lo \in Int /\ current.hi \in Int
    BY <1>1, Bounds
  <1>3. /\ \/ \E i \in DOMAIN pending : r = pending[i]
           \/ \E i \in DOMAIN proofs : r = proofs[i].domain
           \/ current # none /\ r = current
        /\ \/ \E i \in DOMAIN pending : q = pending[i]
           \/ \E i \in DOMAIN proofs : q = proofs[i].domain
           \/ current # none /\ q = current
    BY Whereabouts
  <1>4. /\ \A i, j \in DOMAIN pending : covers(pending[i], x) /\ covers(pending[j], x) => i = j
        /\ \A i, j \in DOMAIN proofs : covers(proofs[i].domain, x) /\ covers(proofs[j].domain, x) => i = j
        /\ \A i \in DOMAIN proofs, j \in DOMAIN pending : ~(covers(proofs[i].domain, x) /\ covers(pending[j], x))
    <2>1. ASSUME NEW i \in DOMAIN pending, NEW j \in DOMAIN pending,
                 covers(pending[i], x), covers(pending[j], x)
          PROVE  i = j
      <3>1. ~(i < j) /\ ~(j < i)
        BY <1>1, <1>2, <2>1 DEF Sweep, covers
      <3> QED
        BY <1>2, <3>1
    <2>2. ASSUME NEW i \in DOMAIN proofs, NEW j \in DOMAIN proofs,
                 covers(proofs[i].domain, x), covers(proofs[j].domain, x)
          PROVE  i = j
      <3>1. ~(i < j) /\ ~(j < i)
        BY <1>1, <1>2, <2>2 DEF Sweep, covers
      <3> QED
        BY <1>2, <3>1
    <2>3. ASSUME NEW i \in DOMAIN proofs, NEW j \in DOMAIN pending,
                 covers(proofs[i].domain, x), covers(pending[j], x)
          PROVE  FALSE
      BY <1>1, <1>2, <2>3 DEF Sweep, covers
    <2> QED
      BY <2>1, <2>2, <2>3
  <1>5. current # none /\ covers(current, x) =>
          /\ \A i \in DOMAIN proofs : ~covers(proofs[i].domain, x)
          /\ \A j \in DOMAIN pending : ~covers(pending[j], x)
    BY <1>1, <1>2 DEF Sweep, covers
  <1> QED
    BY <1>3, <1>4, <1>5

LEMMA CoveredOnce ==
  ASSUME NEW f, IsCurve(f), NEW pending, NEW current, NEW proofs, NEW unresolved,
         Search(f, pending, current, proofs, unresolved),
         NEW x \in Grid(f) \ {Upper(f)}
  PROVE  Cardinality({r \in regions(pending, current, proofs) : r.lo <= x /\ x < r.hi}) = 1
  <1> DEFINE all == regions(pending, current, proofs)
             S == {r \in all : r.lo <= x /\ x < r.hi}
  <1>1. x \in Int /\ x \in Lower(f)..(Upper(f) - 1)
    BY DEF IsCurve
  <1>2. PICK r \in all : covers(r, x)
    <2>1. \/ \E i \in DOMAIN pending : covers(pending[i], x)
          \/ \E i \in DOMAIN proofs : covers(proofs[i].domain, x)
          \/ current # none /\ covers(current, x)
      BY <1>1 DEF Search, Tiled
    <2> QED
      BY <2>1, Whereabouts
  <1>3. \A q \in all : covers(q, x) => q = r
    BY <1>1, <1>2, OneAtATime
  <1> HIDE DEF all
  <1>4. S = {r}
    BY <1>2, <1>3 DEF covers
  <1> QED
    BY <1>4, FS_Singleton DEF all

\* What is excluded has no root.
LEMMA ExcludedHasNone ==
  ASSUME NEW f, NEW pending, NEW current, NEW proofs, NEW unresolved,
         Search(f, pending, current, proofs, unresolved), NEW p \in Range(proofs), p.disposition = "excluded"
  PROVE  ~\E r \in Roots(f) : p.domain.lo <= r[1] /\ r[2] <= p.domain.hi
  <1>1. PICK i \in DOMAIN proofs : p = proofs[i]
    BY DEF Range
  <1>2. NoRoot(f, p.domain)
    BY <1>1 DEF Search, Justified
  <1> QED
    BY <1>2 DEF NoRoot, inside

-----------------------------------------------------------------------------
(* What the end says. *)
LEMMA MoreThanOne ==
  ASSUME NEW S, IsFiniteSet(S)
  PROVE  Cardinality(S) > 1 <=> \E a, b \in S : a # b
  <1>1. Cardinality(S) \in Nat /\ (Cardinality(S) = 0 <=> S = {}) /\ (Cardinality(S) = 1 <=> \E a : S = {a})
    BY FS_CardinalityType, FS_EmptySet, FS_Singleton
  <1>2. (\E a, b \in S : a # b) <=> S # {} /\ ~\E a : S = {a}
    OBVIOUS
  <1> QED
    BY <1>1, <1>2

LEMMA RootsFinite ==
  ASSUME NEW f, IsCurve(f)
  PROVE  IsFiniteSet(Roots(f))
  <1> DEFINE S == (Lower(f)..Upper(f)) \X (Lower(f)..(Upper(f) + 1))
  <1>1. Lower(f) \in Int /\ Upper(f) \in Int /\ Upper(f) + 1 \in Int
    BY DEF IsCurve
  <1>2. IsFiniteSet(Lower(f)..Upper(f)) /\ IsFiniteSet(Lower(f)..(Upper(f) + 1))
    BY <1>1, FS_Interval
  <1>3. IsFiniteSet(S)
    BY <1>2, FS_Product
  <1>4. \A x \in Lower(f)..Upper(f) : <<x, x>> \in S /\ <<x, x + 1>> \in S
    BY <1>1
  <1> HIDE DEF S
  <1>5. ASSUME NEW q \in Roots(f) PROVE q \in S
    <2>1. PICK x \in Lower(f)..Upper(f) : q = <<x, x>> \/ q = <<x, x + 1>>
      BY RootsAre
    <2> QED
      BY <1>4, <2>1
  <1> QED
    BY <1>3, <1>5, FS_Subset

\* When all is proved, every root lies in a proved region.
LEMMA RootSomewhere ==
  ASSUME NEW f, IsCurve(f), NEW proofs, NEW unresolved, NEW pending, DOMAIN pending = {},
         Search(f, pending, none, proofs, unresolved), NEW q \in Roots(f)
  PROVE  \E i \in DOMAIN proofs : inside(q, proofs[i].domain)
  <1>1. Lower(f) \in Int /\ Upper(f) \in Int /\ Lower(f) < Upper(f)
    BY DEF IsCurve
  <1>2. PICK x \in Lower(f)..Upper(f) : \/ q = <<x, x>>
                                        \/ x < Upper(f) /\ q = <<x, x + 1>>
    BY RootsAre
  <1>3. \A y \in Lower(f)..(Upper(f) - 1) : \E i \in DOMAIN proofs : covers(proofs[i].domain, y)
    BY DEF Search, Tiled
  <1>4. \A i \in DOMAIN proofs : /\ proofs[i].domain.lo \in Int /\ proofs[i].domain.hi \in Int
                                 /\ proofs[i].domain.hi <= Upper(f)
    <2>1. pending \in Seq(Regions) /\ proofs \in Seq(Proofs) /\ none \in Regions \cup {none}
      BY DEF Search
    <2>2. \A i \in DOMAIN proofs : proper(f, proofs[i].domain)
      BY DEF Search, Sweep
    <2> QED
      BY <2>1, <2>2, Bounds DEF proper
  <1>5. CASE x < Upper(f)
    <2>1. x \in Lower(f)..(Upper(f) - 1)
      BY <1>1, <1>5
    <2>2. PICK i \in DOMAIN proofs : covers(proofs[i].domain, x)
      BY <1>3, <2>1
    <2>3. proofs[i].domain.lo <= x /\ x <= proofs[i].domain.hi /\ x + 1 <= proofs[i].domain.hi
      BY <1>1, <1>4, <2>2 DEF covers
    <2> QED
      BY <1>2, <2>3 DEF inside
  <1>6. CASE x = Upper(f)
    <2>1. x - 1 \in Lower(f)..(Upper(f) - 1)
      BY <1>1, <1>6
    <2>2. PICK i \in DOMAIN proofs : covers(proofs[i].domain, x - 1)
      BY <1>3, <2>1
    <2>3. proofs[i].domain.lo <= x /\ x <= proofs[i].domain.hi
      BY <1>1, <1>4, <2>1, <2>2 DEF covers
    <2>4. q = <<x, x>>
      BY <1>1, <1>2, <1>6
    <2> QED
      BY <2>3, <2>4 DEF inside
  <1> QED
    BY <1>1, <1>5, <1>6

\* What the proofs together say of the domain.
LEMMA Verdict ==
  ASSUME NEW f, IsCurve(f), NEW pending, DOMAIN pending = {}, NEW proofs,
         Search(f, pending, none, proofs, FALSE)
  PROVE  LET I == {i \in DOMAIN proofs : proofs[i].disposition = "unique_root"} IN
         /\ I = {} => Roots(f) = {}
         /\ Cardinality(I) > 1 => Cardinality(Roots(f)) > 1
         /\ I # {} /\ ~(Cardinality(I) > 1) =>
               /\ Cardinality(I) = 1 /\ Cardinality(Roots(f)) = 1
               /\ \A i \in I : \A r \in Roots(f) : proofs[i].root.lo <= r[1] /\ r[2] <= proofs[i].root.hi
  <1> DEFINE I == {i \in DOMAIN proofs : proofs[i].disposition = "unique_root"}
             dom(i) == proofs[i].domain
  <1>1. proofs \in Seq(Proofs) /\ Sweep(f, pending, none, proofs) /\ pending \in Seq(Regions)
    BY DEF Search
  <1>2. IsFiniteSet(I) /\ DOMAIN proofs \in SUBSET Int
    <2>1. DOMAIN proofs = 1..Len(proofs) /\ Len(proofs) \in Nat
      BY <1>1
    <2>2. IsFiniteSet(DOMAIN proofs)
      BY <2>1, FS_Interval
    <2>3. I \in SUBSET (DOMAIN proofs)
      OBVIOUS
    <2> HIDE DEF I
    <2> QED
      BY <2>1, <2>2, <2>3, FS_Subset
  <1>3. IsFiniteSet(Roots(f))
    BY RootsFinite
  <1>4. \A i \in DOMAIN proofs : i \notin I => NoRoot(f, dom(i))
    <2>1. \A i \in DOMAIN proofs : proofs[i].disposition \in {"excluded", "unique_root", "unresolved"}
      <3>1. \A p \in Proofs : p.disposition \in {"excluded", "unique_root", "unresolved"}
        BY DEF Proofs
      <3>2. \A i \in DOMAIN proofs : proofs[i] \in Proofs
        BY <1>1
      <3> QED
        BY <3>1, <3>2
    <2> QED
      BY <2>1 DEF Search, Justified
  <1>5. \A i \in I : OneRoot(f, dom(i), proofs[i].root)
    BY DEF Search, Justified
  <1>6. \A q \in Roots(f) : \E i \in I : inside(q, dom(i))
    <2> SUFFICES ASSUME NEW q \in Roots(f) PROVE \E i \in I : inside(q, dom(i))
      OBVIOUS
    <2>1. PICK i \in DOMAIN proofs : inside(q, proofs[i].domain)
      BY RootSomewhere
    <2>2. i \in I
      BY <1>4, <2>1 DEF NoRoot
    <2> QED
      BY <2>1, <2>2
  <1>7. \A i \in DOMAIN proofs : dom(i).lo \in Int /\ dom(i).hi \in Int
    <2>1. none \in Regions \cup {none}
      OBVIOUS
    <2> QED
      BY <1>1, <2>1, Bounds
  <1>8. \A i, j \in DOMAIN proofs : i < j => dom(i).hi <= dom(j).lo
    BY <1>1 DEF Sweep
  <1>9. ASSUME NEW i \in I, NEW j \in I, i < j PROVE \E a, b \in Roots(f) : a # b
    <2>1. PICK a \in Roots(f) : inside(a, dom(i))
      BY <1>5 DEF OneRoot
    <2>2. PICK b \in Roots(f) : inside(b, dom(j))
      BY <1>5 DEF OneRoot
    <2>3. f[dom(i).hi] # 0
      BY <1>5 DEF OneRoot
    <2>4. dom(i).hi <= dom(j).lo /\ dom(i).hi \in Int /\ dom(j).lo \in Int
      BY <1>7, <1>8, <1>9
    <2>5. ASSUME a = b PROVE FALSE
      <3>1. PICK x \in Lower(f)..Upper(f) : (a = <<x, x>> /\ f[x] = 0) \/ a = <<x, x + 1>>
        BY RootsAre
      <3>2. x \in Int
        BY <3>1 DEF IsCurve
      <3>3. a[2] <= dom(i).hi /\ dom(j).lo <= a[1]
        BY <2>1, <2>2, <2>5 DEF inside
      <3>4. a = <<x, x>> /\ f[x] = 0 /\ x = dom(i).hi
        BY <2>4, <3>1, <3>2, <3>3
      <3> QED
        BY <2>3, <3>4
    <2> QED
      BY <2>5
  <1>10. I = {} => Roots(f) = {}
    BY <1>6
  <1>11. Cardinality(I) > 1 => Cardinality(Roots(f)) > 1
    <2> SUFFICES ASSUME Cardinality(I) > 1 PROVE \E a, b \in Roots(f) : a # b
      BY <1>3, MoreThanOne
    <2> HIDE DEF I
    <2>1. PICK i, j \in I : i # j
      BY <1>2, MoreThanOne
    <2>2. i \in Int /\ j \in Int
      BY <1>2 DEF I
    <2>3. i < j \/ j < i
      BY <2>1, <2>2
    <2> QED
      BY <1>9, <2>3
  <1>12. ASSUME I # {}, ~(Cardinality(I) > 1)
         PROVE  /\ Cardinality(I) = 1 /\ Cardinality(Roots(f)) = 1
                /\ \A i \in I : \A r \in Roots(f) : proofs[i].root.lo <= r[1] /\ r[2] <= proofs[i].root.hi
    <2> HIDE DEF I
    <2>1. Cardinality(I) = 1
      BY <1>2, <1>12, FS_CardinalityType, FS_EmptySet
    <2>2. PICK i : I = {i}
      BY <1>2, <2>1, FS_Singleton
    <2>3. PICK q \in Roots(f) : /\ inside(q, proofs[i].root)
                                /\ \A p \in Roots(f) : inside(p, dom(i)) => p = q
      BY <1>5, <2>2 DEF OneRoot
    <2>4. Roots(f) = {q}
      BY <1>6, <2>2, <2>3
    <2>5. Cardinality(Roots(f)) = 1
      BY <2>4, FS_Singleton
    <2> QED
      BY <2>1, <2>2, <2>3, <2>4, <2>5 DEF inside
  <1> QED
    BY <1>10, <1>11, <1>12

LEMMA ConcludedFields ==
  ASSUME NEW s, s \in Solves(s.curve), NEW state, NEW interval, NEW open
  PROVE  LET t == [s EXCEPT !.phase = "done", !.state = state, !.interval = interval, !.open = open] IN
         /\ t.kind = "solve" /\ t.phase = "done" /\ t.curve = s.curve /\ t.proofs = s.proofs
         /\ t.state = state /\ t.interval = interval /\ t.open = open
  BY DEF Solves

LEMMA Concluded ==
  ASSUME NEW s, s \in Solves(s.curve)
  PROVE  LET remaining == Range(s.pending) \cup (IF s.current = none THEN {} ELSE {s.current})
             roots == {i \in DOMAIN s.proofs : s.proofs[i].disposition = "unique_root"}
             left == s.unresolved \/ s.reason # none \/ remaining # {}
             t == Conclude(s)
         IN  /\ t.kind = "solve" /\ t.phase = "done" /\ t.curve = s.curve /\ t.proofs = s.proofs
             /\ t.state = IF left THEN "inconclusive" ELSE IF Cardinality(roots) > 1 THEN "non_unique"
                          ELSE IF roots # {} THEN "converged" ELSE "no_solution_in_domain"
             /\ t.interval = IF ~left /\ Cardinality(roots) = 1
                             THEN s.proofs[CHOOSE i \in roots : TRUE].root ELSE none
             /\ t.open = remaining \cup {p.domain : p \in {x \in Range(s.proofs) : x.disposition = "unresolved"}}
  <1> DEFINE remaining == Range(s.pending) \cup (IF s.current = none THEN {} ELSE {s.current})
             roots == {i \in DOMAIN s.proofs : s.proofs[i].disposition = "unique_root"}
             left == s.unresolved \/ s.reason # none \/ remaining # {}
             state == IF left THEN "inconclusive" ELSE IF Cardinality(roots) > 1 THEN "non_unique"
                      ELSE IF roots # {} THEN "converged" ELSE "no_solution_in_domain"
             interval == IF ~left /\ Cardinality(roots) = 1
                         THEN s.proofs[CHOOSE i \in roots : TRUE].root ELSE none
             open == remaining \cup {p.domain : p \in {x \in Range(s.proofs) : x.disposition = "unresolved"}}
             t == [s EXCEPT !.phase = "done", !.state = state, !.interval = interval, !.open = open]
  <1>1. Conclude(s) = t
    BY Zenon DEF Conclude
  <1> HIDE DEF remaining, roots, left, state, interval, open
  <1>2. /\ t.kind = "solve" /\ t.phase = "done" /\ t.curve = s.curve /\ t.proofs = s.proofs
        /\ t.state = state /\ t.interval = interval /\ t.open = open
    BY ConcludedFields
  <1> HIDE DEF t
  <1>3. /\ Conclude(s).kind = "solve" /\ Conclude(s).phase = "done" /\ Conclude(s).curve = s.curve
        /\ Conclude(s).proofs = s.proofs
        /\ Conclude(s).state = state /\ Conclude(s).interval = interval /\ Conclude(s).open = open
    BY <1>1, <1>2
  <1> QED
    BY <1>3 DEF remaining, roots, left, state, interval, open

\* Nothing is lost at the end, and what is certified is true.
LEMMA ConcludeOK ==
  ASSUME NEW s, SearchOK(s), s.phase = "conclude", case' = Conclude(s)
  PROVE  CertificateTrue' /\ NoRegionLost' /\ case'.phase = "done"
  <1> DEFINE f == s.curve
             I == {i \in DOMAIN s.proofs : s.proofs[i].disposition = "unique_root"}
  <1> DEFINE remaining == Range(s.pending) \cup (IF s.current = none THEN {} ELSE {s.current})
             left == s.unresolved \/ s.reason # none \/ remaining # {}
             unresolved == {p.domain : p \in {x \in Range(s.proofs) : x.disposition = "unresolved"}}
             t == Conclude(s)
  <1>1. /\ t.kind = "solve" /\ t.phase = "done" /\ t.curve = f /\ t.proofs = s.proofs
        /\ t.state = IF left THEN "inconclusive" ELSE IF Cardinality(I) > 1 THEN "non_unique"
                     ELSE IF I # {} THEN "converged" ELSE "no_solution_in_domain"
        /\ t.interval = IF ~left /\ Cardinality(I) = 1 THEN s.proofs[CHOOSE i \in I : TRUE].root ELSE none
        /\ t.open = remaining \cup unresolved
    <2>1. s \in Solves(f)
      BY DEF SearchOK
    <2> QED
      BY <2>1, Concluded
  <1>2. Held(s) /\ IsCurve(f) /\ s \in Solves(f) /\ Search(f, s.pending, s.current, s.proofs, s.unresolved)
    BY DEF SearchOK, Held
  <1> HIDE DEF t
  <1>4. case' = t
    BY DEF t
  <1>5. NoRegionLost'
    <2> DEFINE proved == {p.domain : p \in Range(s.proofs)}
    <2>1. t.open \cup proved = regions(s.pending, s.current, s.proofs)
      BY <1>1 DEF regions
    <2>2. \A x \in Grid(f) \ {Upper(f)} :
             Cardinality({r \in regions(s.pending, s.current, s.proofs) : r.lo <= x /\ x < r.hi}) = 1
      BY <1>2, CoveredOnce
    <2>3. \A p \in Range(s.proofs) : p.disposition = "excluded" =>
             ~\E r \in Roots(f) : p.domain.lo <= r[1] /\ r[2] <= p.domain.hi
      BY <1>2, ExcludedHasNone
    <2> QED
      BY <1>1, <1>4, <2>1, <2>2, <2>3 DEF NoRegionLost
  <1>6. CertificateTrue'
    <2>1. CASE left
      BY <1>1, <1>4, <2>1 DEF CertificateTrue
    <2>2. CASE ~left
      <3>1. s.current = none /\ DOMAIN s.pending = {} /\ s.unresolved = FALSE
        <4>1. remaining = {} /\ ~s.unresolved
          BY <1>1, <2>2
        <4>2. s.unresolved \in BOOLEAN
          BY <1>2 DEF Solves
        <4>3. Range(s.pending) = {} /\ s.current = none
          BY <4>1
        <4>4. DOMAIN s.pending = {}
          BY ONLY <4>3 DEF Range
        <4> QED
          BY <4>1, <4>2, <4>3, <4>4
      <3>2. /\ I = {} => Roots(f) = {}
            /\ Cardinality(I) > 1 => Cardinality(Roots(f)) > 1
            /\ I # {} /\ ~(Cardinality(I) > 1) =>
                  /\ Cardinality(I) = 1 /\ Cardinality(Roots(f)) = 1
                  /\ \A i \in I : \A r \in Roots(f) : s.proofs[i].root.lo <= r[1] /\ r[2] <= s.proofs[i].root.hi
        BY <1>2, <3>1, Verdict
      <3> HIDE DEF I
      <3>3. t.state = "converged" =>
              /\ Cardinality(Roots(f)) = 1
              /\ \A r \in Roots(f) : t.interval.lo <= r[1] /\ r[2] <= t.interval.hi
        <4> SUFFICES ASSUME t.state = "converged"
                     PROVE  /\ Cardinality(Roots(f)) = 1
                            /\ \A r \in Roots(f) : t.interval.lo <= r[1] /\ r[2] <= t.interval.hi
          OBVIOUS
        <4>1. I # {} /\ ~(Cardinality(I) > 1)
          BY <1>1, <2>2
        <4>2. PICK i \in I : i = CHOOSE j \in I : TRUE
          BY <4>1
        <4>3. t.interval = s.proofs[i].root
          BY <1>1, <2>2, <3>2, <4>1, <4>2
        <4> QED
          BY <3>2, <4>1, <4>3
      <3>4. t.state = "no_solution_in_domain" => Roots(f) = {}
        BY <1>1, <2>2, <3>2
      <3>5. t.state = "non_unique" => Cardinality(Roots(f)) > 1
        BY <1>1, <2>2, <3>2
      <3> QED
        BY <1>1, <1>4, <3>3, <3>4, <3>5 DEF CertificateTrue
    <2> QED
      BY <2>1, <2>2
  <1> QED
    BY <1>1, <1>4, <1>5, <1>6

\* Before the end, both hold of any search under way.
LEMMA SearchSound ==
  ASSUME SearchOK(case)
  PROVE  CertificateTrue /\ NoRegionLost
  <1>1. CertificateTrue
    BY DEF SearchOK, CertificateTrue
  <1>2. ASSUME case.phase # "partition" PROVE NoRegionLost
    <2>1. case.phase # "done" /\ Held(case)
      BY <1>2 DEF SearchOK
    <2>2. IsCurve(case.curve) /\ Search(case.curve, case.pending, case.current, case.proofs, case.unresolved)
      BY <2>1 DEF Held
    <2>3. \A x \in Grid(case.curve) \ {Upper(case.curve)} :
             Cardinality({r \in regions(case.pending, case.current, case.proofs) : r.lo <= x /\ x < r.hi}) = 1
      BY <2>2, CoveredOnce
    <2>4. \A p \in Range(case.proofs) : p.disposition = "excluded" =>
             ~\E r \in Roots(case.curve) : p.domain.lo <= r[1] /\ r[2] <= p.domain.hi
      BY <2>2, ExcludedHasNone
    <2> QED
      BY <2>1, <2>3, <2>4 DEF NoRegionLost, regions
  <1> QED
    BY <1>1, <1>2 DEF NoRegionLost

-----------------------------------------------------------------------------
(* Every behaviour. *)
Underway == case.kind = "solve" /\ case.phase # "done" => SearchOK(case)
SolverInv == SolverSound /\ Underway

\* Only a search can be unsound.
LEMMA OthersAreSound ==
  ASSUME case.kind # "solve"
  PROVE  SolverInv
  BY DEF SolverInv, SolverSound, Underway, CertificateTrue, NoRegionLost

LEMMA UnderwaySound ==
  ASSUME SearchOK(case)
  PROVE  SolverInv
  BY SearchSound DEF SolverInv, SolverSound, Underway

LEMMA StartSearch ==
  ASSUME NEW s \in SolveCases
  PROVE  SearchOK(s)
  BY SolveAssumption DEF SearchOK, Fresh

\* A step of a search, but for its end, leads to a search under way.
LEMMA SearchStep ==
  ASSUME SolverInv, SolveStep
  PROVE  SolverInv'
  <1>1. ASSUME SearchOK(case)' PROVE SolverInv'
    BY <1>1, UnderwaySound, PTL
  <1>2. case.kind = "solve" /\ case.phase # "done" => SearchOK(case)
    BY DEF SolverInv, Underway
  <1>3. CASE PartitionDomain
    <2>1. SearchOK(Partition(case))
      BY <1>2, <1>3, PartitionStep DEF PartitionDomain
    <2> QED
      BY <1>1, <1>3, <2>1 DEF PartitionDomain
  <1>4. CASE ScanRegion
    <2>1. SearchOK(Scan(case))
      BY <1>2, <1>4, ScanOK DEF ScanRegion
    <2> QED
      BY <1>1, <1>4, <2>1 DEF ScanRegion
  <1>5. CASE RefineRoot
    <2>1. SearchOK(Refine(case))
      BY <1>2, <1>5, RefineOK DEF RefineRoot
    <2> QED
      BY <1>1, <1>5, <2>1 DEF RefineRoot
  <1>6. CASE FailNumerically
    <2>1. SearchOK(Fail(case))
      BY <1>2, <1>6, FailOK DEF FailNumerically
    <2> QED
      BY <1>1, <1>6, <2>1 DEF FailNumerically
  <1>7. CASE ConcludeSolve
    <2>1. SearchOK(case) /\ case.phase = "conclude" /\ case' = Conclude(case)
      BY <1>2, <1>7 DEF ConcludeSolve
    <2>2. CertificateTrue' /\ NoRegionLost' /\ case'.phase = "done"
      BY <2>1, ConcludeOK
    <2> QED
      BY <2>2 DEF SolverInv, SolverSound, Underway
  <1> QED
    BY <1>3, <1>4, <1>5, <1>6, <1>7 DEF SolveStep

\* Each calculation takes inputs of its own kind.
LEMMA Kinds ==
  /\ \A c \in AmountCases : c.kind = "amount"
  /\ \A c \in MetricCases : c.kind = "metric"
  /\ \A c \in GrowthCases : c.kind = "growth"
  /\ \A c \in TrendCases : c.kind = "trend"
  /\ \A c \in MultipleCases : c.kind = "multiple"
  /\ \A c \in StatusCases : c.kind = "status"
  /\ \A c \in ReviewCases : c.kind = "review"
  /\ \A c \in BandCases : c.kind = "band"
  /\ \A c \in SectorHistoryCases : c.kind = "sector_history"
  /\ \A c \in MembershipCases : c.kind = "membership"
  /\ \A c \in SectorCases : c.kind = "sector"
  /\ \A c \in ConcentrationCases : c.kind = "concentration"
  /\ \A c \in HistogramCases : c.kind = "histogram"
  /\ \A c \in MarketCases : c.kind = "market"
  /\ \A c \in ManifestCases : c.kind = "manifest"
  /\ \A c \in SolveCases : c.kind = "solve"
  BY KindsAssumption DEF CasesOf

LEMMA InitSound == Init => SolverInv
  <1> SUFFICES ASSUME Init PROVE SolverInv
    OBVIOUS
  <1>1. case.kind # "solve"
    BY DEF Init, idle
  <1> QED
    BY <1>1, OthersAreSound

LEMMA NextSound == SolverInv /\ [Next]_case => SolverInv'
  <1> SUFFICES ASSUME SolverInv, [Next]_case PROVE SolverInv'
    OBVIOUS
  <1>1. ASSUME (case.kind # "solve")' PROVE SolverInv'
    BY <1>1, OthersAreSound, PTL
  <1>2. ASSUME SearchOK(case)' PROVE SolverInv'
    BY <1>2, UnderwaySound, PTL
  <1>3. CASE ReadEvidence \/ CalculateCompany \/ CompareCompanies
    <2>1. case'.kind # "solve"
      BY <1>3, Kinds
      DEF ReadEvidence, CalculateCompany, CompareCompanies, ReadMarket, PrepareManifest, AssembleAmount,
          ComputeMetric, CompareGrowth, CompareTrend, ComputeMultiple, EvaluateStatus, ReviewCompany,
          PlaceInHistory, ClassifyIssuer, CalculateSector, CalculateConcentration, DrawHistogram,
          DrawSectorHistory, Take
    <2> QED
      BY <1>1, <2>1
  <1>4. CASE StartSolve
    <2>1. SearchOK(case')
      BY <1>4, StartSearch DEF StartSolve, Take
    <2> QED
      BY <1>2, <2>1
  <1>5. CASE SolveStep
    BY <1>5, SearchStep
  <1>6. CASE Done /\ Finish
    <2>1. case'.kind # "solve"
      BY <1>6 DEF Finish, idle
    <2> QED
      BY <1>1, <2>1
  <1>7. CASE UNCHANGED case
    BY <1>7 DEF SolverInv, SolverSound, Underway, CertificateTrue, NoRegionLost
  <1> QED
    BY <1>3, <1>4, <1>5, <1>6, <1>7 DEF Next

\* What the solver certifies is true of the whole domain, and what it did not
\* examine it reports, for every curve, every budget and every failure
\* (valuation.py, Solver).
THEOREM CertificatesAreTrue == Spec => []SolverSound
  <1>1. Init => SolverInv
    BY InitSound
  <1>2. SolverInv /\ [Next]_case => SolverInv'
    BY NextSound
  <1>3. SolverInv => SolverSound
    BY DEF SolverInv
  <1> QED
    BY <1>1, <1>2, <1>3, PTL DEF Spec

-----------------------------------------------------------------------------
(* Reads of market evidence. *)
IsBatches(bs) ==
    /\ IsFiniteSet(bs)
    /\ \A b \in bs : /\ {b.start, b.end, b.published} \subseteq Nat
                     /\ IsFiniteSet(b.inputs) /\ \A i \in b.inputs : i.at \in Nat
                     /\ \A o \in b.observed : /\ o.date \in b.start..b.end
                                              /\ {o.published_at, o.published_date} \subseteq Nat
Queries == [date : Nat, cutoff : Nat, known : Nat, age : Nat]

\* What a function makes of a finite set is finite.
LEMMA FiniteImage ==
  ASSUME NEW S, IsFiniteSet(S), NEW g
  PROVE  IsFiniteSet({g[x] : x \in S})
  <1> DEFINE T == {g[x] : x \in S}
             h == [x \in S |-> g[x]]
  <1>1. h \in Surjection(S, T)
    BY Fun_IsSurj
  <1> QED
    BY <1>1, FS_Surjection

\* A finite set of integers has a greatest.
LEMMA GreatestExists ==
  ASSUME NEW S \in SUBSET Int, IsFiniteSet(S), S # {}
  PROVE  Max(S) \in S /\ \A y \in S : y <= Max(S)
  <1>1. \E x \in S : \A y \in S : y <= x
    <2> DEFINE T == {0 - x : x \in S}
    <2>1. T \in SUBSET Int /\ T # {}
      <3>1. \A x \in S : 0 - x \in Int
        OBVIOUS
      <3> QED
        BY <3>1
    <2>2. IsFiniteSet(T)
      <3> DEFINE g == [x \in S |-> 0 - x]
      <3>1. T = {g[x] : x \in S}
        OBVIOUS
      <3> HIDE DEF T, g
      <3> QED
        BY <3>1, FiniteImage
    <2>3. Least(T) \in T /\ \A y \in T : Least(T) <= y
      BY <2>1, <2>2, LeastExists
    <2>4. PICK x \in S : 0 - x = Least(T)
      BY <2>3
    <2>5. ASSUME NEW y \in S PROVE y <= x
      <3>1. 0 - y \in T
        OBVIOUS
      <3>2. 0 - x <= 0 - y /\ x \in Int /\ y \in Int
        BY <2>3, <2>4, <3>1
      <3> QED
        BY <3>2
    <2> QED
      BY <2>5
  <1>2. \E x \in S : \A y \in S : x >= y
    BY <1>1
  <1> QED
    BY <1>2 DEF Max

\* A batch with a response answers at a definite instant.
LEMMA ResponseTime ==
  ASSUME NEW bs, IsBatches(bs), NEW b \in bs, Responses(b) # {}
  PROVE  response_at(b) \in Nat
  <1> DEFINE S == {i.at : i \in Responses(b)}
  <1>1. Responses(b) \subseteq b.inputs
    BY DEF Responses
  <1>2. IsFiniteSet(Responses(b)) /\ S \subseteq Nat /\ S # {}
    BY <1>1, FS_Subset DEF IsBatches
  <1>3. IsFiniteSet(S)
    <2> DEFINE g == [i \in Responses(b) |-> i.at]
    <2>1. S = {g[i] : i \in Responses(b)}
      OBVIOUS
    <2> HIDE DEF S, g
    <2> QED
      BY <1>2, <2>1, FiniteImage
  <1>4. Max(S) \in S
    <2>1. S \in SUBSET Int
      BY <1>2
    <2> HIDE DEF S
    <2> QED
      BY <1>2, <1>3, <2>1, GreatestExists
  <1> QED
    BY <1>2, <1>4 DEF response_at

(* The batch a selection is taken from, and what it holds of a date. *)
latestOf(bs) == CHOOSE b \in Latest(bs) : TRUE
held(b, d) == {o \in b.observed : o.date = d}

\* Some batch is the latest, and it answered no earlier than any other.
LEMMA LatestExists ==
  ASSUME NEW bs, IsBatches(bs), bs # {}, \A b \in bs : Responses(b) # {}
  PROVE  latestOf(bs) \in bs /\ \A o \in bs : response_at(o) <= response_at(latestOf(bs))
  <1> DEFINE S == {response_at(b) : b \in bs}
             last == {b \in bs : \A o \in bs : response_at(o) <= response_at(b)}
             P == {b.published : b \in last}
  <1>1. \A b \in bs : response_at(b) \in Nat
    BY ResponseTime
  <1>2. Max(S) \in S /\ \A y \in S : y <= Max(S)
    <2>1. S \in SUBSET Int /\ S # {}
      BY <1>1
    <2>2. IsFiniteSet(S)
      <3> DEFINE g == [b \in bs |-> response_at(b)]
      <3>1. S = {g[b] : b \in bs}
        OBVIOUS
      <3> HIDE DEF S, g
      <3> QED
        BY <3>1, FiniteImage DEF IsBatches
    <2> QED
      BY <2>1, <2>2, GreatestExists
  <1>3. last # {}
    BY <1>2
  <1>4. Max(P) \in P /\ \A y \in P : y <= Max(P)
    <2>1. P \in SUBSET Int /\ P # {}
      BY <1>3 DEF IsBatches
    <2>2. IsFiniteSet(last)
      BY FS_Subset DEF IsBatches
    <2>3. IsFiniteSet(P)
      <3> DEFINE g == [b \in last |-> b.published]
      <3>1. P = {g[b] : b \in last}
        OBVIOUS
      <3> HIDE DEF P, g
      <3> QED
        BY <2>2, <3>1, FiniteImage
    <2> QED
      BY <2>1, <2>3, GreatestExists
  <1>5. Latest(bs) = {b \in last : \A o \in last : o.published <= b.published}
    BY DEF Latest
  <1>6. Latest(bs) # {}
    BY <1>4, <1>5
  <1> QED
    BY <1>5, <1>6 DEF latestOf
(* The batches a backward read considers, and the dates it may carry. *)
able(bs, q) == batches(bs, q, q.date - q.age)
days(bs, q) == {o.date : o \in UNION {b.observed : b \in able(bs, q)}} \cap ((q.date - q.age)..q.date)

LEMMA Ables ==
  ASSUME NEW bs, IsBatches(bs), NEW q \in Queries, NEW from
  PROVE  /\ batches(bs, q, from) \subseteq bs /\ IsBatches(batches(bs, q, from))
         /\ \A b \in batches(bs, q, from) : Responses(b) # {} /\ b.start <= q.date /\ b.end >= from
  <1>1. batches(bs, q, from) \subseteq bs
    BY DEF batches
  <1> QED
    BY <1>1, FS_Subset DEF batches, IsBatches

\* What a selection is usable by, and what it returns otherwise.
LEMMA SelectFacts ==
  ASSUME NEW q \in Queries, NEW bs, IsBatches(bs), \A b \in bs : Responses(b) # {}
  PROVE  LET r == Select(q, bs)
             b == latestOf(bs)
             found == held(b, q.date)
         IN  /\ r.date \in {0, q.date}
             /\ ~r.usable => r.usable = FALSE
             /\ bs # {} => b \in bs
             /\ found = {} \/ bs = {} => ~r.usable /\ r.value = 0
             /\ r.usable => /\ b \in bs /\ \A o \in bs : response_at(o) <= response_at(b)
                            /\ r.batch = b.id /\ r.date = q.date
                            /\ \E o \in found : ~(q.known # 0 /\ publication_problem(o, q.known))
  <1> DEFINE tied == {b \in bs : \A o \in bs : response_at(o) <= response_at(b)}
             b == latestOf(bs)
             found == held(b, q.date)
             x == CHOOSE x \in found : TRUE
             chosen == [Nothing EXCEPT !.batch = b.id, !.date = q.date]
             whole == [chosen EXCEPT !.value = x.value,
                                     !.usable = /\ x.value # 0
                                                /\ b.severity \notin {"error", "blocking"}
                                                /\ b.coverage = "complete"]
             r == Select(q, bs)
  <1>1. Nothing.usable = FALSE /\ Nothing.value = 0 /\ Nothing.date = 0
    BY DEF Nothing
  <1>2. chosen.usable = FALSE /\ chosen.value = 0 /\ chosen.date = q.date /\ chosen.batch = b.id
    BY DEF Nothing
  <1>3. whole.usable \in BOOLEAN /\ whole.date = q.date /\ whole.batch = b.id
    BY DEF Nothing
  <1>4. \/ r = Nothing
        \/ bs # {} /\ r = chosen
        \/ /\ bs # {} /\ r = whole /\ Cardinality(found) = 1
           /\ ~(q.known # 0 /\ publication_problem(x, q.known))
    BY DEF Select, latestOf, held
  <1>5. Cardinality(found) = 1 => found # {} /\ x \in found
    <2>1. found = {} => Cardinality(found) = 0
      BY FS_EmptySet
    <2> HIDE DEF found
    <2> QED
      BY <2>1
  <1>6. bs # {} => b \in bs /\ \A o \in bs : response_at(o) <= response_at(b)
    BY LatestExists
  <1> HIDE DEF b, found, x, chosen, whole, r
  <1>7. /\ r.date \in {0, q.date}
        /\ ~r.usable => r.usable = FALSE
        /\ bs # {} => b \in bs
        /\ found = {} \/ bs = {} => ~r.usable /\ r.value = 0
        /\ r.usable => /\ b \in bs /\ \A o \in bs : response_at(o) <= response_at(b)
                       /\ r.batch = b.id /\ r.date = q.date
                       /\ \E o \in found : ~(q.known # 0 /\ publication_problem(o, q.known))
    BY <1>1, <1>2, <1>3, <1>4, <1>5, <1>6
  <1> QED
    BY <1>7 DEF b, found, r

\* A backward read is a selection on the last date that may be carried.
LEMMA Backward ==
  ASSUME NEW bs, IsBatches(bs), NEW q \in Queries
  PROVE  LET r == select_at_or_before(bs, q)
             D == days(bs, q)
             m == Max(D)
             holders == {b \in able(bs, q) : b.end >= m}
             qm == [q EXCEPT !.date = m]
         IN  /\ D = {} => ~r.usable /\ r.usable = FALSE /\ r.value = 0 /\ r.date \in {0, q.date}
             /\ D # {} => /\ m \in D /\ m \in Nat /\ q.date - q.age <= m /\ \A d \in D : d <= m
                          /\ qm \in Queries /\ qm.date = m /\ qm.known = q.known
                          /\ IsBatches(holders) /\ holders \subseteq bs /\ r = Select(qm, holders)
                          /\ \A b \in holders : Responses(b) # {}
  <1> DEFINE from == q.date - q.age
             D == days(bs, q)
             m == Max(D)
             holders == {b \in able(bs, q) : b.end >= m}
             qm == [q EXCEPT !.date = m]
             r == select_at_or_before(bs, q)
  <1>1. /\ able(bs, q) \subseteq bs /\ IsBatches(able(bs, q))
        /\ \A b \in able(bs, q) : Responses(b) # {}
    BY Ables DEF able
  <1>2. r = IF D = {} THEN Select(q, able(bs, q)) ELSE Select(qm, holders)
    BY DEF select_at_or_before, able, days
  <1>3. q.date \in Nat /\ q.age \in Nat /\ q.date \in from..q.date
    BY DEF Queries
  <1>4. CASE D = {}
    <2> DEFINE b == latestOf(able(bs, q))
               found == held(b, q.date)
    <2>1. able(bs, q) # {} => found = {}
      <3> SUFFICES ASSUME NEW o \in found, able(bs, q) # {} PROVE FALSE
        OBVIOUS
      <3>1. b \in able(bs, q)
        BY <1>1, SelectFacts
      <3>2. o.date \in D
        BY <1>3, <3>1 DEF days, held
      <3> QED
        BY <1>4, <3>2
    <2>2. LET t == Select(q, able(bs, q)) IN
          /\ t.date \in {0, q.date}
          /\ ~t.usable => t.usable = FALSE
          /\ found = {} \/ able(bs, q) = {} => ~t.usable /\ t.value = 0
      <3>1. IsBatches(able(bs, q)) /\ \A x \in able(bs, q) : Responses(x) # {}
        BY <1>1
      <3> QED
        BY ONLY <3>1, q \in Queries, SelectFacts
    <2> HIDE DEF found, D, r
    <2>3. ~r.usable /\ r.usable = FALSE /\ r.value = 0 /\ r.date \in {0, q.date}
      BY <1>2, <1>4, <2>1, <2>2
    <2> QED
      BY <1>4, <2>3 DEF D, r
  <1>5. CASE D # {}
    <2>1. m \in D /\ \A d \in D : d <= m
      <3>1. D \subseteq from..q.date
        BY DEF days
      <3>2. IsFiniteSet(D) /\ D \in SUBSET Int
        <4>1. from \in Int /\ q.date \in Int
          BY <1>3
        <4>2. IsFiniteSet(from..q.date)
          BY <4>1, FS_Interval
        <4>3. from..q.date \in SUBSET Int
          BY <4>1
        <4> HIDE DEF D, from
        <4> QED
          BY <3>1, <4>2, <4>3, FS_Subset
      <3> QED
        BY <1>5, <3>2, GreatestExists
    <2>2. m \in Nat /\ from <= m
      <3>1. PICK b \in able(bs, q) : \E o \in b.observed : o.date = m /\ m \in from..q.date
        BY <2>1 DEF days
      <3>2. m \in b.start..b.end /\ b.start \in Nat
        BY <1>1, <3>1 DEF IsBatches
      <3> QED
        BY <3>1, <3>2
    <2>3. qm \in Queries /\ qm.date = m /\ qm.known = q.known
      BY <2>2 DEF Queries
    <2>4. holders \subseteq able(bs, q) /\ IsBatches(holders)
      BY <1>1, FS_Subset DEF IsBatches
    <2>5. r = Select(qm, holders)
      BY <1>2, <1>5
    <2>6. holders \subseteq bs /\ \A b \in holders : Responses(b) # {}
      BY <1>1, <2>4
    <2> HIDE DEF D, m, holders, qm, r, from
    <2>7. /\ m \in D /\ m \in Nat /\ from <= m /\ \A d \in D : d <= m
          /\ qm \in Queries /\ qm.date = m /\ qm.known = q.known
          /\ IsBatches(holders) /\ holders \subseteq bs /\ r = Select(qm, holders)
          /\ \A b \in holders : Responses(b) # {}
      BY <2>1, <2>2, <2>3, <2>4, <2>5, <2>6
    <2> QED
      BY <1>5, <2>7 DEF D, m, holders, qm, r, from
  <1> QED
    BY <1>4, <1>5

IsMarket(c) == IsBatches(c.batches) /\ c.query \in Queries

\* A read sees nothing retrieved after its cutoff.
LEMMA NoLookaheadOK ==
  ASSUME case.kind = "market" => IsMarket(case)
  PROVE  NoLookahead
  <1> SUFFICES ASSUME case.kind = "market", case.query.cutoff # 0
               PROVE  LET bs == case.batches
                          q == case.query
                          known == {b \in bs : \A i \in b.inputs : i.at <= q.cutoff}
                      IN  /\ select_exact(bs, q) = select_exact(known, q)
                          /\ select_at_or_before(bs, q) = select_at_or_before(known, q)
    BY DEF NoLookahead
  <1> DEFINE q == case.query
             known == {b \in case.batches : \A i \in b.inputs : i.at <= q.cutoff}
  <1>1. ASSUME NEW from PROVE batches(case.batches, q, from) = batches(known, q, from)
    BY DEF batches
  <1>2. select_exact(case.batches, q) = select_exact(known, q)
    <2> HIDE DEF known, q
    <2> QED
      BY <1>1 DEF select_exact
  <1>3. select_at_or_before(case.batches, q) = select_at_or_before(known, q)
    <2> DEFINE from == q.date - q.age
    <2>1. batches(case.batches, q, from) = batches(known, q, from)
      BY <1>1
    <2> HIDE DEF known, q, from
    <2> QED
      BY <2>1 DEF select_at_or_before, from
  <1> QED
    BY <1>2, <1>3

\* The newest response that reaches the date is the one selected, also if it
\* holds nothing.
LEMMA NewerEmptyBlocksOK ==
  ASSUME case.kind = "market" => IsMarket(case)
  PROVE  NewerEmptyBlocks
  <1> DEFINE bs == case.batches
             q == case.query
             r == select_at_or_before(bs, q)
  <1> SUFFICES ASSUME case.kind = "market", NEW empty \in bs,
                      empty.observed = {}, Responses(empty) # {},
                      q.cutoff = 0 \/ \A i \in empty.inputs : i.at <= q.cutoff,
                      empty.start <= q.date,
                      \A b \in bs \ {empty} : Responses(b) # {} => response_at(b) < response_at(empty),
                      r.usable
               PROVE  r.date > empty.end
    BY DEF NewerEmptyBlocks
  <1> DEFINE D == days(bs, q)
             m == Max(D)
             holders == {b \in able(bs, q) : b.end >= m}
             qm == [q EXCEPT !.date = m]
             b == latestOf(holders)
  <1>1. IsBatches(bs) /\ q \in Queries
    BY DEF IsMarket
  <1>2. /\ m \in D /\ m \in Nat /\ q.date - q.age <= m
        /\ qm \in Queries /\ qm.date = m
        /\ IsBatches(holders) /\ holders \subseteq bs /\ r = Select(qm, holders)
        /\ \A x \in holders : Responses(x) # {}
    BY <1>1, Backward
  <1> HIDE DEF bs, q, r, m, D, qm
  <1>3. /\ b \in holders /\ \A o \in holders : response_at(o) <= response_at(b)
        /\ r.date = m /\ \E o \in b.observed : o.date = m
    <2> HIDE DEF holders, b
    <2>1. /\ latestOf(holders) \in holders /\ \A o \in holders : response_at(o) <= response_at(latestOf(holders))
          /\ r.date = m /\ held(latestOf(holders), m) # {}
      BY ONLY <1>2, r.usable, SelectFacts
    <2> QED
      BY <2>1 DEF held, b
  <1>4. b # empty /\ empty.end \in Nat /\ b \in bs /\ Responses(b) # {}
    BY <1>1, <1>2, <1>3 DEF IsBatches
  <1>5. response_at(b) < response_at(empty) /\ response_at(b) \in Nat /\ response_at(empty) \in Nat
    BY <1>1, <1>4, ResponseTime
  <1>6. empty \notin holders
    BY <1>3, <1>5
  <1>7. empty.end >= m => empty \in holders
    BY <1>1, <1>2, <1>4 DEF able, batches, Queries
  <1> QED
    BY <1>2, <1>3, <1>4, <1>6, <1>7

\* A batch whose dates end before the one selected is not asked for it.
LEMMA BackfillIgnoredOK ==
  ASSUME case.kind = "market" => IsMarket(case)
  PROVE  BackfillIgnored
  <1> DEFINE bs == case.batches
             q == case.query
             r == select_at_or_before(bs, q)
  <1> SUFFICES ASSUME case.kind = "market", NEW b \in bs, b.end < r.date
               PROVE  LET without == select_at_or_before(bs \ {b}, q) IN
                      without.usable = r.usable /\ without.value = r.value
    BY DEF BackfillIgnored
  <1> DEFINE others == bs \ {b}
             without == select_at_or_before(others, q)
             D == days(bs, q)
             E == days(others, q)
             m == Max(D)
             holders == {x \in able(bs, q) : x.end >= m}
             rest == {x \in able(others, q) : x.end >= m}
             qm == [q EXCEPT !.date = m]
  <1>1. IsBatches(bs) /\ q \in Queries
    BY DEF IsMarket
  <1>2. IsBatches(others)
    BY <1>1, FS_Subset DEF IsBatches
  <1>3. b.end \in Nat
    BY <1>1 DEF IsBatches
  <1> HIDE DEF bs, q
  <1>4. able(others, q) = able(bs, q) \ {b}
    BY DEF able, batches
  <1>5. E \subseteq D
    BY <1>4 DEF days
  <1>6. D = {} => r.usable = FALSE /\ r.value = 0
    BY <1>1, Backward
  <1>7. E = {} => without.usable = FALSE /\ without.value = 0
    BY <1>1, <1>2, Backward
  <1>8. D # {} => /\ m \in D /\ m \in Nat /\ \A d \in D : d <= m
                  /\ qm \in Queries /\ qm.date = m /\ r = Select(qm, holders)
                  /\ IsBatches(holders) /\ \A x \in holders : Responses(x) # {}
    BY <1>1, Backward
  <1>9. E # {} => /\ Max(E) \in E /\ Max(E) \in Nat /\ \A d \in E : d <= Max(E)
                  /\ without = Select([q EXCEPT !.date = Max(E)], {x \in able(others, q) : x.end >= Max(E)})
    BY <1>1, <1>2, Backward
  <1>10. CASE D = {}
    BY <1>5, <1>6, <1>7, <1>10
  <1>11. CASE D # {}
    <2> HIDE DEF D, E, m, r, qm, without, holders
    <2>1. r.date \in {0, m}
      BY <1>8, <1>11, SelectFacts
    <2>2. b.end < m
      BY <1>3, <1>8, <1>11, <2>1
    <2>3. PICK x \in able(bs, q) : /\ \E o \in x.observed : o.date = m
                                   /\ m \in (q.date - q.age)..q.date
      BY <1>8, <1>11 DEF days, D
    <2>4. x \in bs
      BY DEF able, batches
    <2>5. m \in x.start..x.end /\ x.start \in Nat /\ x.end \in Nat
      BY <1>1, <2>3, <2>4 DEF IsBatches
    <2>6. x # b
      BY <1>3, <1>8, <1>11, <2>2, <2>5
    <2>7. m \in E
      BY <1>4, <2>3, <2>6 DEF days, E
    <2>8. Max(E) = m
      <3>1. Max(E) \in D /\ Max(E) \in Nat /\ m <= Max(E)
        BY <1>5, <1>9, <2>7
      <3> QED
        BY <1>8, <1>11, <3>1
    <2>9. {y \in able(others, q) : y.end >= m} = holders
      BY <1>3, <1>4, <1>8, <1>11, <2>2 DEF holders
    <2>10. without = r
      BY <1>8, <1>9, <1>11, <2>7, <2>8, <2>9 DEF qm
    <2> QED
      BY <2>10 DEF without
  <1> QED
    BY <1>10, <1>11

\* What is not said to be published by an instant is not selected for it.
LEMMA KnownAtInstantOK ==
  ASSUME case.kind = "market" => IsMarket(case)
  PROVE  KnownAtInstant
  <1> DEFINE bs == case.batches
             q == case.query
             r == select_at_or_before(bs, q)
             instants(o) == CASE o.precision = "instant" -> {o.published_at}
                              [] o.precision = "date" -> {o.published_date * Day + k : k \in 0..(Day - 1)}
                              [] OTHER -> {q.known + 1}
  <1> SUFFICES ASSUME case.kind = "market", r.usable, q.known # 0
               PROVE  \E b \in bs : b.id = r.batch /\ \E o \in b.observed :
                          o.date = r.date /\ \A t \in instants(o) : t <= q.known
    BY DEF KnownAtInstant
  <1> DEFINE m == Max(days(bs, q))
             holders == {b \in able(bs, q) : b.end >= m}
             qm == [q EXCEPT !.date = m]
             b == latestOf(holders)
  <1>1. IsBatches(bs) /\ q \in Queries
    BY DEF IsMarket
  <1>2. /\ qm \in Queries /\ qm.date = m /\ qm.known = q.known
        /\ IsBatches(holders) /\ holders \subseteq bs /\ r = Select(qm, holders)
        /\ \A x \in holders : Responses(x) # {}
    BY <1>1, Backward
  <1> HIDE DEF bs, q, r, m, holders, qm
  <1>3. /\ b \in holders /\ r.batch = b.id /\ r.date = m
        /\ \E o \in held(b, m) : ~(q.known # 0 /\ publication_problem(o, q.known))
    BY <1>2, SelectFacts
  <1>4. PICK o \in b.observed : o.date = m /\ ~publication_problem(o, q.known)
    BY <1>3 DEF held
  <1>5. b \in bs /\ o.published_at \in Nat /\ o.published_date \in Nat /\ q.known \in Nat
    BY <1>1, <1>2, <1>3 DEF IsBatches, Queries
  <1>6. \A t \in instants(o) : t <= q.known
    <2>1. ~CASE o.precision = "instant" -> o.published_at > q.known
             [] o.precision = "date" -> o.published_date >= DateOf(q.known)
             [] OTHER -> TRUE
      BY <1>4 DEF publication_problem
    <2>2. CASE o.precision = "instant"
      BY <1>5, <2>1, <2>2
    <2>3. CASE o.precision = "date"
      <3>1. o.published_date < q.known \div 2
        BY <1>5, <2>1, <2>3 DEF DateOf, Day
      <3>2. \A k \in 0..1 : o.published_date * 2 + k <= q.known
        BY <1>5, <3>1
      <3> QED
        BY <2>3, <3>2 DEF Day
    <2> QED
      BY <2>1, <2>2, <2>3
  <1> HIDE DEF b
  <1> QED
    BY <1>3, <1>4, <1>5, <1>6

-----------------------------------------------------------------------------
(* Manifests of captures. *)
AttemptRecords == [state : States, prepared : Nat \ {0}, finished : Nat, reused : Nat]
IsManifest(c) ==
    /\ c.cutoff \in Nat /\ IsFiniteSet(c.captures) /\ IsFiniteSet(c.attempts)
    /\ \A x \in c.captures : {x.fetched, x.completed} \subseteq Nat
    /\ c.attempts \subseteq AttemptRecords

(* The captures known at a cutoff, and the newest of them. *)
knownAt(captures, cutoff) == {c \in captures : By(c.completed, cutoff)}
successesAt(captures, cutoff) == {c \in knownAt(captures, cutoff) : Successful(c, cutoff)}
newestAt(captures, cutoff) == Max({0} \cup {c.fetched : c \in successesAt(captures, cutoff)})
latestAt(captures, cutoff) == {c \in successesAt(captures, cutoff) : c.fetched = newestAt(captures, cutoff)}
selectedAt(captures, cutoff) ==
    IF Cardinality({c.sha : c \in latestAt(captures, cutoff)}) > 1 THEN {}
    ELSE {c.id : c \in latestAt(captures, cutoff)}
boundaryAt(captures, attempts, cutoff) ==
    freshness_boundary(captures, attempts, selectedAt(captures, cutoff), newestAt(captures, cutoff), cutoff)
unknownAt(attempts, cutoff) == \E a \in attempts : unknown_outcome(a, cutoff)
lateAt(captures, attempts, cutoff, t) ==
    successesAt(captures, cutoff) = {} \/ t >= boundaryAt(captures, attempts, cutoff)
failedAt(captures, attempts, cutoff) ==
    \/ \E a \in attempts : /\ known_outcome(a, cutoff) /\ a.state \in Failures
                           /\ lateAt(captures, attempts, cutoff, a.finished)
    \/ \E c \in knownAt(captures, cutoff) \ successesAt(captures, cutoff) :
          c.status # 304 /\ lateAt(captures, attempts, cutoff, c.completed)

\* A manifest, part by part.
LEMMA ManifestParts ==
  ASSUME NEW captures, NEW attempts, NEW cutoff
  PROVE  prepare_capture_manifest(captures, attempts, cutoff) =
         LET ambiguous == Cardinality({c.sha : c \in latestAt(captures, cutoff)}) > 1
             missing == successesAt(captures, cutoff) = {}
         IN  [selected |-> selectedAt(captures, cutoff),
              flags |-> (IF missing THEN {"capture_unavailable"} ELSE {})
                        \cup (IF ambiguous THEN {"ambiguous_capture_vintage"} ELSE {})
                        \cup (IF unknownAt(attempts, cutoff) THEN {"source_attempt_outcome_unknown"} ELSE {})
                        \cup (IF failedAt(captures, attempts, cutoff)
                              THEN {IF missing THEN "capture_failed" ELSE "newer_capture_failed"} ELSE {}),
              usable |-> ~missing /\ ~ambiguous]
  BY DEF prepare_capture_manifest, knownAt, successesAt, newestAt, latestAt, selectedAt, boundaryAt,
         unknownAt, lateAt, failedAt

(* The attempts that found the selected bytes unchanged. *)
unchangedAt(captures, attempts, cutoff) ==
    {a \in attempts : /\ known_outcome(a, cutoff) /\ a.state = "not_modified"
                      /\ a.reused \in selectedAt(captures, cutoff)}

\* The freshness boundary is the instant of a success or of a revalidation.
LEMMA BoundaryIs ==
  ASSUME NEW c, IsManifest(c), successesAt(c.captures, c.cutoff) # {}
  PROVE  /\ newestAt(c.captures, c.cutoff) \in {x.fetched : x \in latestAt(c.captures, c.cutoff)}
         /\ boundaryAt(c.captures, c.attempts, c.cutoff)
                \in {newestAt(c.captures, c.cutoff)}
                    \cup {a.finished : a \in unchangedAt(c.captures, c.attempts, c.cutoff)}
         /\ boundaryAt(c.captures, c.attempts, c.cutoff) \in Nat
  <1> DEFINE successes == successesAt(c.captures, c.cutoff)
             newest == newestAt(c.captures, c.cutoff)
             unchanged == unchangedAt(c.captures, c.attempts, c.cutoff)
             F == {x.fetched : x \in successes}
             U == {a.finished : a \in unchanged}
             boundary == boundaryAt(c.captures, c.attempts, c.cutoff)
  <1>1. successes \subseteq c.captures /\ \A x \in successes : x.fetched \in Nat \ {0}
    BY DEF successesAt, knownAt, Successful, By, IsManifest
  <1>2. unchanged \subseteq c.attempts /\ \A a \in unchanged : a.finished \in Nat
    BY DEF unchangedAt, IsManifest, AttemptRecords
  <1>3. IsFiniteSet(F) /\ F \subseteq Nat \ {0} /\ F # {}
    <2> DEFINE g == [x \in successes |-> x.fetched]
    <2>1. F = {g[x] : x \in successes}
      OBVIOUS
    <2>2. IsFiniteSet(successes)
      BY <1>1, FS_Subset DEF IsManifest
    <2>3. F \subseteq Nat \ {0} /\ F # {}
      BY <1>1
    <2> HIDE DEF F, g, successes
    <2>4. IsFiniteSet(F)
      BY <2>1, <2>2, FiniteImage
    <2> QED
      BY <2>3, <2>4
  <1>4. IsFiniteSet(U) /\ U \subseteq Nat
    <2> DEFINE g == [a \in unchanged |-> a.finished]
    <2>1. U = {g[x] : x \in unchanged}
      OBVIOUS
    <2>2. IsFiniteSet(unchanged)
      BY <1>2, FS_Subset DEF IsManifest
    <2>3. U \subseteq Nat
      BY <1>2
    <2> HIDE DEF U, g, unchanged
    <2>4. IsFiniteSet(U)
      BY <2>1, <2>2, FiniteImage
    <2> QED
      BY <2>3, <2>4
  <1>5. newest = Max({0} \cup F)
    BY DEF newestAt
  <1>6. boundary = Max({newest} \cup U)
    BY DEF boundaryAt, freshness_boundary, unchangedAt
  <1> HIDE DEF F, U, newest, boundary, successes, unchanged
  <1>7. newest \in F
    <2> DEFINE T == {0} \cup F
    <2>1. IsFiniteSet(T)
      BY <1>3, FS_AddElement
    <2>2. T \in SUBSET Int /\ T # {}
      BY <1>3
    <2>3. newest \in T /\ \A y \in T : y <= newest
      <3> HIDE DEF T
      <3>1. Max(T) \in T /\ \A y \in T : y <= Max(T)
        BY <2>1, <2>2, GreatestExists
      <3> QED
        BY <1>5, <3>1 DEF T
    <2>4. PICK y \in F : y \in Nat /\ y # 0
      BY <1>3
    <2>5. newest # 0
      BY <2>3, <2>4
    <2> QED
      BY <2>3, <2>5
  <1>8. boundary \in {newest} \cup U
    <2> DEFINE T == {newest} \cup U
    <2>1. IsFiniteSet(T)
      BY <1>4, FS_AddElement
    <2>2. T \in SUBSET Int /\ T # {}
      <3>1. newest \in Nat
        BY ONLY <1>3, <1>7
      <3>2. U \subseteq Int
        <4>1. \A y \in Nat : y \in Int
          OBVIOUS
        <4> QED
          BY <1>4, <4>1
      <3>3. newest \in Int
        BY <3>1
      <3> QED
        BY <3>2, <3>3
    <2> HIDE DEF T
    <2>3. Max(T) \in T
      BY <2>1, <2>2, GreatestExists
    <2> QED
      BY <1>6, <2>3 DEF T
  <1>9. newest \in {x.fetched : x \in latestAt(c.captures, c.cutoff)}
    BY <1>7 DEF F, newest, successes, latestAt
  <1>10. boundary \in Nat
    BY <1>3, <1>4, <1>7, <1>8
  <1> QED
    BY <1>8, <1>9, <1>10 DEF boundary, newest, U, unchanged

\* A manifest without flags hides no failure after its success.
LEMMA UnflaggedIsFreshOK ==
  ASSUME case.kind = "manifest" => IsManifest(case)
  PROVE  UnflaggedIsFresh
  <1> DEFINE captures == case.captures
             attempts == case.attempts
             cutoff == case.cutoff
             m == prepare_capture_manifest(captures, attempts, cutoff)
             begun == {a \in attempts : a.prepared <= cutoff}
             good == {c.fetched : c \in {x \in captures : x.id \in m.selected}}
                     \cup {a.finished : a \in {x \in begun : /\ x.state = "not_modified" /\ x.reused \in m.selected
                                                           /\ x.finished <= cutoff}}
             bad == {a.finished : a \in {x \in begun : x.state \in Failures}}
                    \cup {c.completed : c \in {x \in captures : /\ ~x.ok /\ x.status # 304
                                                              /\ x.completed \in 1..cutoff}}
             boundary == boundaryAt(captures, attempts, cutoff)
  <1> SUFFICES ASSUME case.kind = "manifest", m.flags = {}
               PROVE  /\ \A a \in begun : a.finished \in 1..cutoff
                      /\ \A f \in bad : \E g \in good : g > f
    BY DEF UnflaggedIsFresh
  <1>1. /\ IsManifest(case) /\ cutoff \in Nat /\ attempts \subseteq AttemptRecords
        /\ \A x \in captures : x.completed \in Nat
    BY DEF IsManifest
  <1>2. /\ successesAt(captures, cutoff) # {}
        /\ ~(Cardinality({c.sha : c \in latestAt(captures, cutoff)}) > 1)
        /\ ~unknownAt(attempts, cutoff) /\ ~failedAt(captures, attempts, cutoff)
        /\ m.selected = selectedAt(captures, cutoff)
    BY ManifestParts
  <1> HIDE DEF captures, attempts, cutoff, m
  <1>3. m.selected = {c.id : c \in latestAt(captures, cutoff)}
    BY <1>2 DEF selectedAt
  <1>4. \A a \in begun : known_outcome(a, cutoff) /\ a.finished \in 1..cutoff
    <2> SUFFICES ASSUME NEW a \in begun PROVE known_outcome(a, cutoff) /\ a.finished \in 1..cutoff
      OBVIOUS
    <2>1. a \in attempts /\ a.prepared \in Nat \ {0} /\ a.prepared <= cutoff /\ a.finished \in Nat
      BY <1>1 DEF AttemptRecords
    <2>2. ~unknown_outcome(a, cutoff) /\ By(a.prepared, cutoff)
      BY <1>2, <2>1 DEF unknownAt, By
    <2>3. By(a.finished, cutoff)
      BY <2>2 DEF unknown_outcome
    <2> QED
      BY <1>1, <2>1, <2>2, <2>3 DEF known_outcome, By
  <1>5. boundary \in good /\ boundary \in Nat
    <2>1. /\ newestAt(captures, cutoff) \in {x.fetched : x \in latestAt(captures, cutoff)}
          /\ boundary \in {newestAt(captures, cutoff)}
                             \cup {a.finished : a \in unchangedAt(captures, attempts, cutoff)}
          /\ boundary \in Nat
      BY <1>1, <1>2, BoundaryIs DEF captures, attempts, cutoff
    <2>2. newestAt(captures, cutoff) \in good
      BY <1>3, <2>1 DEF latestAt, successesAt, knownAt
    <2>3. \A a \in unchangedAt(captures, attempts, cutoff) : a.finished \in good
      BY <1>2 DEF unchangedAt, known_outcome, By
    <2> QED
      BY <2>1, <2>2, <2>3
  <1>6. ASSUME NEW f \in bad PROVE boundary > f
    <2> HIDE DEF boundary
    <2>1. CASE f \in {a.finished : a \in {x \in begun : x.state \in Failures}}
      <3>1. PICK a \in begun : a.state \in Failures /\ f = a.finished
        BY <2>1
      <3>2. ~lateAt(captures, attempts, cutoff, f) /\ f \in Nat
        BY <1>1, <1>2, <1>4, <3>1 DEF failedAt
      <3> QED
        BY <1>5, <3>2 DEF lateAt, boundary
    <2>2. CASE f \in {c.completed : c \in {x \in captures : /\ ~x.ok /\ x.status # 304
                                                         /\ x.completed \in 1..cutoff}}
      <3>1. PICK c \in captures : ~c.ok /\ c.status # 304 /\ c.completed \in 1..cutoff /\ f = c.completed
        BY <2>2
      <3>2. c \in knownAt(captures, cutoff) \ successesAt(captures, cutoff)
        BY <1>1, <3>1 DEF knownAt, successesAt, Successful, By
      <3>3. ~lateAt(captures, attempts, cutoff, f) /\ f \in Nat
        BY <1>1, <1>2, <3>1, <3>2 DEF failedAt
      <3> QED
        BY <1>5, <3>3 DEF lateAt, boundary
    <2> QED
      BY <2>1, <2>2
  <1> HIDE DEF bad, good, boundary, begun
  <1> QED
    BY <1>4, <1>5, <1>6

\* A manifest is of what was known at its cutoff.
LEMMA CutoffIsFinalOK ==
  ASSUME case.kind = "manifest" => IsManifest(case)
  PROVE  CutoffIsFinal
  <1> DEFINE captures == case.captures
             attempts == case.attempts
             cutoff == case.cutoff
             later(x) == x.finished > cutoff
             asOf(a) == IF later(a) THEN [a EXCEPT !.finished = 0, !.state = "in_progress"] ELSE a
             asThen == {asOf(a) : a \in {x \in attempts : x.prepared <= cutoff}}
             seen == {c \in captures : c.completed <= cutoff}
  <1> SUFFICES ASSUME case.kind = "manifest"
               PROVE  prepare_capture_manifest(captures, attempts, cutoff)
                          = prepare_capture_manifest(seen, asThen, cutoff)
    BY DEF CutoffIsFinal
  <1>1. cutoff \in Nat /\ attempts \subseteq AttemptRecords
    BY DEF IsManifest
  <1> HIDE DEF captures, attempts, cutoff
  <1>2. /\ knownAt(seen, cutoff) = knownAt(captures, cutoff)
        /\ successesAt(seen, cutoff) = successesAt(captures, cutoff)
    BY DEF knownAt, successesAt, By
  <1>3. newestAt(seen, cutoff) = newestAt(captures, cutoff)
    BY <1>2 DEF newestAt
  <1>4. latestAt(seen, cutoff) = latestAt(captures, cutoff)
    BY <1>2, <1>3 DEF latestAt
  <1>5. selectedAt(seen, cutoff) = selectedAt(captures, cutoff)
    BY <1>4 DEF selectedAt
  <1>6. ASSUME NEW a \in attempts, a.prepared <= cutoff, later(a)
        PROVE  /\ ~known_outcome(a, cutoff) /\ ~known_outcome(asOf(a), cutoff)
               /\ unknown_outcome(a, cutoff) /\ unknown_outcome(asOf(a), cutoff)
    <2>1. a \in AttemptRecords /\ ~(a.finished <= cutoff)
      BY <1>1, <1>6 DEF AttemptRecords
    <2>2. asOf(a).finished = 0 /\ asOf(a).prepared = a.prepared
      BY <1>6, <2>1 DEF AttemptRecords
    <2>3. a.prepared # 0
      BY <2>1 DEF AttemptRecords
    <2> HIDE DEF asOf
    <2> QED
      BY <1>6, <2>1, <2>2, <2>3 DEF known_outcome, unknown_outcome, By
  <1>7. \A a \in attempts : known_outcome(a, cutoff) \/ unknown_outcome(a, cutoff) => a.prepared <= cutoff
    BY DEF known_outcome, unknown_outcome, By
  <1>8. ASSUME NEW a, a \in attempts, known_outcome(a, cutoff) PROVE a \in asThen
    <2>1. a.prepared <= cutoff /\ ~later(a)
      BY <1>6, <1>7, <1>8
    <2>2. asOf(a) = a
      BY <2>1
    <2> QED
      BY <1>8, <2>1, <2>2
  <1>9. ASSUME NEW a \in asThen PROVE \E x \in attempts : x.prepared <= cutoff /\ a = asOf(x)
    OBVIOUS
  <1>10. ASSUME NEW a, a \in asThen, known_outcome(a, cutoff) PROVE a \in attempts
    <2>1. PICK x \in attempts : x.prepared <= cutoff /\ a = asOf(x)
      BY <1>9, <1>10
    <2>2. ~later(x)
      BY <1>6, <1>10, <2>1
    <2> QED
      BY <2>1, <2>2
  <1>11. unknownAt(asThen, cutoff) <=> unknownAt(attempts, cutoff)
    <2>1. ASSUME NEW a \in attempts, unknown_outcome(a, cutoff)
          PROVE  \E x \in asThen : unknown_outcome(x, cutoff)
      <3>1. a.prepared <= cutoff
        BY <1>7, <2>1
      <3>2. asOf(a) \in asThen
        BY <3>1
      <3>3. CASE later(a)
        BY <1>6, <3>1, <3>2, <3>3
      <3>4. CASE ~later(a)
        BY <2>1, <3>2, <3>4
      <3> QED
        BY <3>3, <3>4
    <2>2. ASSUME NEW a \in asThen, unknown_outcome(a, cutoff)
          PROVE  \E x \in attempts : unknown_outcome(x, cutoff)
      <3>1. PICK x \in attempts : x.prepared <= cutoff /\ a = asOf(x)
        BY <1>9
      <3>2. CASE later(x)
        BY <1>6, <3>1, <3>2
      <3>3. CASE ~later(x)
        BY <2>2, <3>1, <3>3
      <3> QED
        BY <3>2, <3>3
    <2> HIDE DEF asThen
    <2> QED
      BY <2>1, <2>2 DEF unknownAt
  <1> HIDE DEF asThen, seen, asOf, later
  <1>12. unchangedAt(seen, asThen, cutoff) = unchangedAt(captures, attempts, cutoff)
    BY <1>5, <1>8, <1>10 DEF unchangedAt
  <1>13. boundaryAt(seen, asThen, cutoff) = boundaryAt(captures, attempts, cutoff)
    <2>1. ASSUME NEW cs, NEW as
          PROVE  boundaryAt(cs, as, cutoff)
                   = Max({newestAt(cs, cutoff)} \cup {a.finished : a \in unchangedAt(cs, as, cutoff)})
      BY DEF boundaryAt, freshness_boundary, unchangedAt
    <2> QED
      BY <1>3, <1>12, <2>1
  <1>14. failedAt(seen, asThen, cutoff) <=> failedAt(captures, attempts, cutoff)
    <2>1. \A t : lateAt(seen, asThen, cutoff, t) <=> lateAt(captures, attempts, cutoff, t)
      BY <1>2, <1>13 DEF lateAt
    <2> QED
      BY <1>2, <1>8, <1>10, <2>1 DEF failedAt
  <1> QED
    BY <1>2, <1>4, <1>5, <1>11, <1>14, ManifestParts

-----------------------------------------------------------------------------
(* Statuses and memberships. *)
\* Time alone never makes a stale metric current again.
LEMMA StaleStaysOK ==
  ASSUME case.kind = "status" => case \in StatusCases
  PROVE  StaleStays
  <1> DEFINE c == case.calculation
             x == case.context
  <1> SUFFICES ASSUME case.kind = "status", NEW t \in case.days, NEW u \in case.days, u >= t,
                      evaluate(c, x, t) = "stale"
               PROVE  evaluate(c, x, u) = "stale"
    BY DEF StaleStays
  <1>1. /\ t \in Int /\ u \in Int /\ IsFiniteSet(c.sources)
        /\ \A s \in c.sources : s.to \in Int /\ s.cutoff \in Int
        /\ x.age \in Int /\ x.effective \in Int /\ x.known \in Int
        /\ x.expected_by # none => x.expected_by \in Int /\ x.expected_end \in Int
    BY StatusAssumption
  <1> HIDE DEF c, x
  <1>2. EvaluationProblems(c, x, t) = {} => EvaluationProblems(c, x, u) = {}
    <2> SUFFICES ASSUME EvaluationProblems(c, x, t) = {} PROVE EvaluationProblems(c, x, u) = {}
      OBVIOUS
    <2>1. /\ c.registered /\ x.consolidated /\ x.issuer_matches /\ c.reproduced
          /\ ~(x.effective > t \/ x.known > t) /\ ~\E s \in c.sources : s.cutoff > t \/ s.to > t
      BY DEF EvaluationProblems, When
    <2>2. ~(x.effective > u \/ x.known > u) /\ ~\E s \in c.sources : s.cutoff > u \/ s.to > u
      BY <1>1, <2>1
    <2> QED
      BY <2>1, <2>2 DEF EvaluationProblems, When
  <1>3. c.sources # {} /\ Stale(c, x, t) => Stale(c, x, u)
    <2> SUFFICES ASSUME c.sources # {} PROVE Stale(c, x, t) => Stale(c, x, u)
      OBVIOUS
    <2> DEFINE T == {s.to : s \in c.sources}
    <2>1. T \in SUBSET Int /\ T # {}
      BY <1>1
    <2>2. IsFiniteSet(T)
      <3> DEFINE g == [s \in c.sources |-> s.to]
      <3>1. T = {g[s] : s \in c.sources}
        OBVIOUS
      <3> HIDE DEF T, g
      <3> QED
        BY <1>1, <3>1, FiniteImage
    <2>3. NewestEnd(c) \in T
      <3>1. Max(T) \in T /\ \A e \in T : e <= Max(T)
        BY <2>1, <2>2, GreatestExists
      <3>2. \E e \in T : \A s \in c.sources : s.to <= e
        BY <3>1
      <3> QED
        BY <3>2 DEF NewestEnd
    <2>4. NewestEnd(c) \in Int
      BY <2>1, <2>3
    <2> QED
      BY <1>1, <2>4 DEF Stale
  <1> DEFINE problems(d) == EvaluationProblems(c, x, d)
  <1>4. problems(t) # {} => evaluate(c, x, t) \in {"unsupported", "invalid"}
    BY DEF evaluate
  <1>5. problems(t) = {} /\ problems(u) = {}
    BY <1>2, <1>4
  <1>6. PICK status : status # "stale" /\ \A d : problems(d) = {} =>
             evaluate(c, x, d) = IF status \in {"valid", "not_meaningful"} /\ c.sources # {} /\ Stale(c, x, d)
                                 THEN "stale" ELSE status
    <2> DEFINE flags == c.flags \ Unblocked
               precise == \A s \in c.sources : s.precise
               missing == \E s \in c.sources : ~s.present
               status == IF x.applicable = none THEN "unsupported"
                         ELSE IF ~x.applicable THEN "inapplicable"
                         ELSE IF c.value # none THEN (IF flags = {} THEN "valid" ELSE "invalid")
                         ELSE IF flags # {} /\ flags \subseteq NM /\ precise THEN "not_meaningful"
                         ELSE IF missing \/ "denominator_precision_unknown" \in flags \/ (flags \subseteq NM /\ ~precise)
                              THEN "missing"
                         ELSE IF flags \cap Unsupported # {}
                              THEN "unsupported" ELSE "invalid"
    <2> WITNESS status
    <2> QED
      BY DEF evaluate
  <1> QED
    BY <1>3, <1>5, <1>6

memberOf(S) == CHOOSE c \in S : TRUE

\* What became known later moves no past classification, and a handover leaves
\* no date with two sectors.
LEMMA NoHindsightOK ==
  ASSUME case.kind = "membership" => case \in MembershipCases
  PROVE  NoHindsight
  <1> DEFINE as_of == case.as_of
             cutoff == Cutoff(case.as_of, case.known_before)
             at(as) == select_membership(as, case.as_of, case.known_before)
             all == case.assignments
             later == {a \in all : a.known > EndOf(as_of)}
             evidence(as) == {a \in as : /\ a.from <= as_of /\ (a.to = none \/ as_of < a.to)
                                         /\ a.known <= cutoff}
             classes(as) == {a.sector : a \in evidence(as)}
  <1> SUFFICES ASSUME case.kind = "membership"
               PROVE  /\ at(all) = at(all \ later)
                      /\ \A a, b \in all :
                            a.to = b.from /\ {a.known, b.known} \subseteq 0..cutoff =>
                                at({a, b}) \in {none, a.sector, b.sector}
                                /\ (a.from <= as_of /\ (b.to = none \/ as_of < b.to) => at({a, b}) # none)
    BY DEF NoHindsight
  <1>1. /\ as_of \in Nat /\ case.known_before \in Nat /\ none \notin Int
        /\ \A a \in all : /\ a.from \in Nat /\ a.known \in Nat /\ a.to \in Nat \cup {none} /\ a.sector # none
    BY MembershipAssumption
  <1>2. cutoff \in Nat /\ cutoff <= EndOf(as_of)
    BY <1>1 DEF Cutoff, EndOf
  <1>3. \A as : at(as) = IF Cardinality(classes(as)) = 1 THEN memberOf(classes(as)) ELSE none
    BY DEF select_membership, memberOf
  <1>4. EndOf(as_of) \in Nat
    BY <1>1 DEF EndOf
  <1> HIDE DEF as_of, cutoff, at, all
  <1>5. evidence(all) = evidence(all \ later)
    BY <1>1, <1>2, <1>4
  <1>6. at(all) = at(all \ later)
    <2>1. classes(all) = classes(all \ later)
      <3> HIDE DEF evidence
      <3> QED
        BY <1>5
    <2> HIDE DEF classes, later, evidence
    <2> QED
      BY <1>3, <2>1
  <1>7. ASSUME NEW as, classes(as) # {} /\ Cardinality(classes(as)) = 1 PROVE at(as) \in classes(as)
    <2> HIDE DEF classes
    <2> QED
      BY <1>3, <1>7 DEF memberOf
  <1>8. ASSUME NEW a \in all, NEW b \in all, a.to = b.from, {a.known, b.known} \subseteq 0..cutoff
        PROVE  /\ at({a, b}) \in {none, a.sector, b.sector}
               /\ a.from <= as_of /\ (b.to = none \/ as_of < b.to) => at({a, b}) # none
    <2> DEFINE S == {a, b}
    <2>1. classes(S) \subseteq {a.sector, b.sector}
      OBVIOUS
    <2>2. Cardinality({}) = 0
      BY FS_EmptySet
    <2>3. at(S) \in {none, a.sector, b.sector}
      <3> HIDE DEF classes, S
      <3>1. CASE Cardinality(classes(S)) = 1
        <4>1. classes(S) # {}
          BY <2>2, <3>1
        <4> QED
          BY <1>7, <2>1, <3>1, <4>1
      <3>2. CASE Cardinality(classes(S)) # 1
        BY <1>3, <3>2
      <3> QED
        BY <3>1, <3>2
    <2>4. ASSUME a.from <= as_of, b.to = none \/ as_of < b.to PROVE at(S) # none
      <3>1. a.to \in Nat /\ a.to # none /\ a.known <= cutoff /\ b.known <= cutoff
        BY <1>1, <1>2, <1>8
      <3>2. CASE as_of < a.to
        <4>1. a \in evidence(S)
          BY <2>4, <3>1, <3>2
        <4>2. b \in evidence(S) => b = a
          BY <1>1, <1>8, <3>1, <3>2
        <4>3. classes(S) = {a.sector}
          BY <4>1, <4>2
        <4> HIDE DEF classes, S
        <4>4. Cardinality(classes(S)) = 1
          BY <4>3, FS_Singleton
        <4> QED
          BY <1>1, <1>7, <4>3, <4>4
      <3>3. CASE ~(as_of < a.to)
        <4>1. b \in evidence(S)
          BY <1>1, <1>8, <2>4, <3>1, <3>3
        <4>2. a \in evidence(S) => a = b
          BY <3>1, <3>3
        <4>3. classes(S) = {b.sector}
          BY <4>1, <4>2
        <4> HIDE DEF classes, S
        <4>4. Cardinality(classes(S)) = 1
          BY <4>3, FS_Singleton
        <4> QED
          BY <1>1, <1>7, <4>3, <4>4
      <3> QED
        BY <3>2, <3>3
    <2> QED
      BY <2>3, <2>4
  <1> QED
    BY <1>6, <1>8

-----------------------------------------------------------------------------
(* The case in hand is one of its kind. *)
Kept == /\ case.kind = "market" => case \in MarketCases
        /\ case.kind = "manifest" => case \in ManifestCases
        /\ case.kind = "status" => case \in StatusCases
        /\ case.kind = "membership" => case \in MembershipCases

LEMMA KeptReads ==
  ASSUME Kept
  PROVE  ReadsInTime
  <1>1. case.kind = "market" => IsMarket(case)
    BY MarketAssumption DEF Kept, IsMarket, IsBatches, Queries
  <1>2. case.kind = "manifest" => IsManifest(case)
    BY ManifestAssumption DEF Kept, IsManifest, AttemptRecords
  <1> QED
    BY <1>1, <1>2, NoLookaheadOK, NewerEmptyBlocksOK, BackfillIgnoredOK, KnownAtInstantOK,
       UnflaggedIsFreshOK, CutoffIsFinalOK DEF ReadsInTime

\* A step of the solver leaves a case of the solver.
LEMMA SearchStaysSearch ==
  ASSUME SolverInv, SolveStep
  PROVE  case'.kind = "solve"
  <1>1. case.kind = "solve" /\ case.phase # "done" => SearchOK(case)
    BY DEF SolverInv, Underway
  <1>2. ASSUME NEW s, SearchOK(s) PROVE s.kind = "solve"
    BY <1>2 DEF SearchOK, Solves
  <1>3. CASE PartitionDomain
    BY <1>1, <1>2, <1>3, PartitionStep DEF PartitionDomain
  <1>4. CASE ScanRegion
    BY <1>1, <1>2, <1>4, ScanOK DEF ScanRegion
  <1>5. CASE RefineRoot
    BY <1>1, <1>2, <1>5, RefineOK DEF RefineRoot
  <1>6. CASE FailNumerically
    BY <1>1, <1>2, <1>6, FailOK DEF FailNumerically
  <1>7. CASE ConcludeSolve
    <2>1. SearchOK(case) /\ case' = Conclude(case)
      BY <1>1, <1>7 DEF ConcludeSolve
    <2>2. case \in Solves(case.curve)
      BY <2>1 DEF SearchOK
    <2> QED
      BY <2>1, <2>2, Concluded
  <1> QED
    BY <1>3, <1>4, <1>5, <1>6, <1>7 DEF SolveStep

LEMMA KeptStays ==
  ASSUME SolverInv, Kept, [Next]_case
  PROVE  Kept'
  <1>1. CASE ReadMarket \/ PrepareManifest
    BY <1>1, Kinds DEF ReadMarket, PrepareManifest, Take, Kept
  <1>2. CASE CalculateCompany
    BY <1>2, Kinds DEF CalculateCompany, AssembleAmount, ComputeMetric, CompareGrowth, CompareTrend,
          ComputeMultiple, EvaluateStatus, ReviewCompany, PlaceInHistory, Take, Kept
  <1>3. CASE CompareCompanies
    BY <1>3, Kinds DEF CompareCompanies, ClassifyIssuer, CalculateSector, CalculateConcentration,
          DrawHistogram, DrawSectorHistory, Take, Kept
  <1>4. CASE StartSolve
    BY <1>4, Kinds DEF StartSolve, Take, Kept
  <1>5. CASE SolveStep
    BY <1>5, SearchStaysSearch DEF Kept
  <1>6. CASE Finish
    BY <1>6 DEF Finish, idle, Kept
  <1>7. CASE UNCHANGED case
    BY <1>7 DEF Kept
  <1> QED
    BY <1>1, <1>2, <1>3, <1>4, <1>5, <1>6, <1>7 DEF Next, ReadEvidence

LEMMA KeptInvariance == Spec => [](SolverInv /\ Kept)
  <1>1. Init => SolverInv /\ Kept
    <2>1. Init => Kept
      BY DEF Init, idle, Kept
    <2> QED
      BY <2>1, InitSound
  <1>2. (SolverInv /\ Kept) /\ [Next]_case => (SolverInv /\ Kept)'
    BY NextSound, KeptStays
  <1> QED
    BY <1>1, <1>2, PTL DEF Spec

\* A read as of an instant sees what was known then, and all of it, for any
\* batches, captures, attempts, cutoffs and instants (market_selection.py,
\* vintage.py).
THEOREM ReadsAreInTime == Spec => []ReadsInTime
  <1>1. Kept => ReadsInTime
    BY KeptReads
  <1> QED
    BY <1>1, KeptInvariance, PTL

\* A stale metric stays so until a newer filing, for any calculation, policy and
\* dates (assessment.py, evaluate).
THEOREM StaleForGood == Spec => []StaleStays
  <1>1. Kept => StaleStays
    BY StaleStaysOK DEF Kept
  <1> QED
    BY <1>1, KeptInvariance, PTL

\* A past classification is the one known then, for any assignments and dates
\* (sector_history.py, select_membership).
THEOREM ClassifiedAsKnown == Spec => []NoHindsight
  <1>1. Kept => NoHindsight
    BY NoHindsightOK DEF Kept
  <1> QED
    BY <1>1, KeptInvariance, PTL
=============================================================================
