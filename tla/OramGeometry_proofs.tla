------------------------ MODULE OramGeometry_proofs ------------------------
(***************************************************************************)
(* Proofs about the shape of the bucket tree, for every depth.  The        *)
(* library's induction theorems are about operators, which the provers     *)
(* cannot instantiate.  A proof by induction takes the least of the        *)
(* numbers for which the claim fails instead (LeastOfNats), and that a     *)
(* recursive definition defines a function is proved for functions that    *)
(* iterate another one (Iterates), as all in OramGeometry do.              *)
(***************************************************************************)
EXTENDS OramGeometry, Integers, FiniteSetTheorems, WellFoundedInduction, TLAPS

LEMMA LeastOfNats ==
  ASSUME NEW T, T \subseteq Nat, T # {}
  PROVE  \E x \in T : \A y \in T : x <= y
<1> DEFINE R == OpToRel(<, Nat)
<1>1. \A x, y \in Nat : <<y, x>> \in R <=> y < x
  BY Zenon DEF OpToRel
<1>2. IsWellFoundedOn(R, Nat)
  BY NatLessThanWellFounded
<1> HIDE DEF R
<1>3. PICK x \in T : \A y \in T : ~(<<y, x>> \in R)
  BY <1>2, WFMin
<1>4. \A y \in T : ~(y < x)
  BY <1>1, <1>3
<1> QED BY <1>4

LEMMA GreatestUpTo ==
  ASSUME NEW n \in Nat, NEW T, T \subseteq 0 .. n, T # {}
  PROVE  \E x \in T : \A y \in T : y <= x
<1> DEFINE gap == {n - x : x \in T}
<1>1. PICK g \in gap : \A h \in gap : g <= h
  <2>1. gap \subseteq Nat
    <3>1. ASSUME NEW x \in T PROVE n - x \in Nat
      <4>1. x \in 0 .. n
        OBVIOUS
      <4> QED BY <4>1
    <3> QED BY <3>1
  <2>2. gap # {}
    OBVIOUS
  <2> HIDE DEF gap
  <2> QED BY <2>1, <2>2, LeastOfNats
<1>2. n - g \in T /\ \A y \in T : g <= n - y
  BY <1>1
<1>3. \A y \in T : y <= n - g
  BY <1>2
<1> QED BY <1>2, <1>3
-----------------------------------------------------------------------------
(***************************************************************************)
(* Recursive functions.                                                    *)
(***************************************************************************)

HasIterate(S, next, a) ==
  \E f \in [Nat -> S] : f[0] = a /\ \A n \in Nat : f[n + 1] = next[f[n]]

\* A function that maps every value to the next one can be iterated.
LEMMA Iterates ==
  ASSUME NEW S, NEW next \in [S -> S], NEW a \in S
  PROVE  HasIterate(S, next, a)
<1> DEFINE Starts(n, f) == /\ f \in [0 .. n -> S]
                           /\ f[0] = a
                           /\ \A i \in 0 .. n : i > 0 => f[i] = next[f[i - 1]]
<1>1. \A n \in Nat : \E f : Starts(n, f)
  <2> DEFINE Bad == {n \in Nat : ~ \E f : Starts(n, f)}
  <2> SUFFICES ASSUME Bad # {} PROVE FALSE
    OBVIOUS
  <2>1. PICK n \in Bad : \A m \in Bad : n <= m
    <3>1. Bad \subseteq Nat
      OBVIOUS
    <3> HIDE DEF Bad
    <3> QED BY <3>1, LeastOfNats
  <2>2. CASE n = 0
    <3>1. Starts(0, [i \in 0 .. 0 |-> a])
      OBVIOUS
    <3> QED BY <2>2, <3>1
  <2>3. CASE n # 0
    <3>1. n - 1 \in Nat /\ n - 1 \notin Bad
      BY <2>1, <2>3
    <3>2. PICK f : Starts(n - 1, f)
      BY <3>1
    <3> DEFINE g == [i \in 0 .. n |-> IF i < n THEN f[i] ELSE next[f[n - 1]]]
    <3>3. \A i \in 0 .. n - 1 : g[i] = f[i] /\ g[i] \in S
      BY <3>1, <3>2
    <3>4. g[n] = next[f[n - 1]] /\ g[n] \in S
      BY <3>1, <3>2
    <3>5. g \in [0 .. n -> S]
      <4>1. \A i \in 0 .. n : (IF i < n THEN f[i] ELSE next[f[n - 1]]) \in S
        BY <3>1, <3>2
      <4> QED BY <4>1
    <3>6. g[0] = a
      BY <3>1, <3>2, <3>3
    <3>7. ASSUME NEW i \in 0 .. n, i > 0 PROVE g[i] = next[g[i - 1]]
      <4>1. CASE i = n
        BY <3>1, <3>3, <3>4, <4>1
      <4>2. CASE i < n
        BY <3>1, <3>2, <3>3, <3>7, <4>2
      <4> QED BY <3>7, <4>1, <4>2
    <3> HIDE DEF g
    <3>8. Starts(n, g)
      BY <3>5, <3>6, <3>7
    <3> QED BY <2>1, <3>8
  <2> QED BY <2>2, <2>3
<1>2. ASSUME NEW m \in Nat, NEW n \in Nat, m <= n, NEW f, NEW g, Starts(m, f), Starts(n, g)
      PROVE  f[m] = g[m]
  <2> DEFINE Bad == {i \in 0 .. m : f[i] # g[i]}
  <2> SUFFICES ASSUME Bad # {} PROVE FALSE
    BY <1>2
  <2>1. PICK i \in Bad : \A j \in Bad : i <= j
    <3>1. Bad \subseteq Nat
      OBVIOUS
    <3> HIDE DEF Bad
    <3> QED BY <3>1, LeastOfNats
  <2>2. i # 0
    BY <1>2, <2>1
  <2>3. i - 1 \in 0 .. m /\ i - 1 \notin Bad
    BY <1>2, <2>1, <2>2
  <2> QED BY <1>2, <2>1, <2>2, <2>3
<1> DEFINE at(n) == CHOOSE f : Starts(n, f)
           F     == [n \in Nat |-> at(n)[n]]
<1>3. \A n \in Nat : Starts(n, at(n))
  BY <1>1
<1> HIDE DEF Starts, at
<1>4. F \in [Nat -> S] /\ F[0] = a
  <2>1. \A n \in Nat : at(n)[n] \in S
    BY <1>3 DEF Starts
  <2>2. at(0)[0] = a
    BY <1>3 DEF Starts
  <2> QED BY <2>1, <2>2
<1>5. ASSUME NEW n \in Nat PROVE F[n + 1] = next[F[n]]
  <2>1. at(n + 1)[n + 1] = next[at(n + 1)[n]]
    <3>1. Starts(n + 1, at(n + 1))
      BY <1>3
    <3> QED BY <3>1 DEF Starts
  <2>2. at(n + 1)[n] = at(n)[n]
    <3>1. Starts(n, at(n)) /\ Starts(n + 1, at(n + 1)) /\ n <= n + 1 /\ n + 1 \in Nat
      BY <1>3
    <3> QED BY <1>2, <3>1
  <2> QED BY <2>1, <2>2
<1> HIDE DEF F
<1> QED BY <1>4, <1>5 DEF HasIterate

-----------------------------------------------------------------------------
(***************************************************************************)
(* Powers of two.                                                          *)
(***************************************************************************)
LEMMA Pow2Exists ==
  Pow2 \in [Nat -> Nat] /\ Pow2 = [n \in Nat |-> IF n = 0 THEN 1 ELSE 2 * Pow2[n - 1]]
<1> DEFINE twice == [x \in Nat |-> 2 * x]
<1>1. twice \in [Nat -> Nat]
  OBVIOUS
<1>2. PICK f \in [Nat -> Nat] : f[0] = 1 /\ \A n \in Nat : f[n + 1] = twice[f[n]]
  <2> HIDE DEF twice
  <2>1. HasIterate(Nat, twice, 1)
    BY <1>1, Iterates
  <2> QED BY <2>1 DEF HasIterate
<1>3. ASSUME NEW n \in Nat PROVE f[n] = IF n = 0 THEN 1 ELSE 2 * f[n - 1]
  <2>1. n # 0 => n - 1 \in Nat /\ n = (n - 1) + 1
    OBVIOUS
  <2> QED BY <1>2, <2>1
<1>4. f = [n \in Nat |-> IF n = 0 THEN 1 ELSE 2 * f[n - 1]]
  BY <1>2, <1>3
<1>5. Pow2 = [n \in Nat |-> IF n = 0 THEN 1 ELSE 2 * Pow2[n - 1]]
  BY <1>4 DEF Pow2
<1> HIDE DEF twice
<1>6. Pow2 = f
  <2> DEFINE Bad == {n \in Nat : Pow2[n] # f[n]}
  <2>1. Bad = {}
    <3> SUFFICES ASSUME Bad # {} PROVE FALSE
      OBVIOUS
    <3>1. PICK n \in Bad : \A m \in Bad : n <= m
      <4>1. Bad \subseteq Nat
        OBVIOUS
      <4> HIDE DEF Bad
      <4> QED BY <4>1, LeastOfNats
    <3>2. Pow2[n] = IF n = 0 THEN 1 ELSE 2 * Pow2[n - 1]
      BY <1>5, <3>1
    <3>3. n # 0 => n - 1 \in Nat /\ n - 1 \notin Bad
      BY <3>1
    <3> QED BY <1>3, <3>1, <3>2, <3>3
  <2>2. \A n \in Nat : Pow2[n] = f[n]
    BY <2>1
  <2>3. Pow2 = [n \in Nat |-> Pow2[n]]
    BY <1>5
  <2> QED BY <1>2, <2>2, <2>3
<1> QED BY <1>2, <1>5, <1>6

LEMMA Pow2Law ==
  /\ Pow2[0] = 1
  /\ \A n \in Nat : Pow2[n] \in Nat \ {0} /\ Pow2[n + 1] = 2 * Pow2[n]
<1>1. Pow2[0] = 1
  BY Pow2Exists
<1>2. ASSUME NEW n \in Nat PROVE Pow2[n] \in Nat /\ Pow2[n + 1] = 2 * Pow2[n]
  <2>1. n + 1 \in Nat /\ n + 1 # 0 /\ (n + 1) - 1 = n
    OBVIOUS
  <2>2. Pow2[n + 1] = IF n + 1 = 0 THEN 1 ELSE 2 * Pow2[(n + 1) - 1]
    BY <2>1, Pow2Exists
  <2> QED BY <2>1, <2>2, Pow2Exists
<1>3. \A n \in Nat : Pow2[n] # 0
  <2> DEFINE Bad == {n \in Nat : Pow2[n] = 0}
  <2> SUFFICES ASSUME Bad # {} PROVE FALSE
    OBVIOUS
  <2>1. PICK n \in Bad : \A m \in Bad : n <= m
    <3>1. Bad \subseteq Nat
      OBVIOUS
    <3> HIDE DEF Bad
    <3> QED BY <3>1, LeastOfNats
  <2>2. n # 0
    BY <1>1, <2>1
  <2>3. n - 1 \in Nat /\ n - 1 \notin Bad /\ n = (n - 1) + 1
    BY <2>1, <2>2
  <2> QED BY <1>2, <2>1, <2>3
<1> QED BY <1>1, <1>2, <1>3

LEMMA Pow2Grows ==
  ASSUME NEW m \in Nat, NEW n \in Nat, m <= n
  PROVE  Pow2[m] <= Pow2[n]
<1> DEFINE Bad == {k \in Nat : m <= k /\ ~(Pow2[m] <= Pow2[k])}
<1> SUFFICES ASSUME Bad # {} PROVE FALSE
  OBVIOUS
<1>1. PICK k \in Bad : \A j \in Bad : k <= j
  <2>1. Bad \subseteq Nat
    OBVIOUS
  <2> HIDE DEF Bad
  <2> QED BY <2>1, LeastOfNats
<1>2. k # m
  BY <1>1, Pow2Law
<1>3. k - 1 \in Nat /\ k - 1 \notin Bad /\ m <= k - 1 /\ k = (k - 1) + 1
  BY <1>1, <1>2
<1> QED BY <1>1, <1>3, Pow2Law

LEMMA Pow2Above == ASSUME NEW n \in Nat PROVE n < Pow2[n]
<1> DEFINE Bad == {k \in Nat : ~(k < Pow2[k])}
<1> SUFFICES ASSUME Bad # {} PROVE FALSE
  OBVIOUS
<1>1. PICK k \in Bad : \A j \in Bad : k <= j
  <2>1. Bad \subseteq Nat
    OBVIOUS
  <2> HIDE DEF Bad
  <2> QED BY <2>1, LeastOfNats
<1>2. k # 0
  BY <1>1, Pow2Law
<1>3. k - 1 \in Nat /\ k - 1 \notin Bad /\ k = (k - 1) + 1
  BY <1>1, <1>2
<1> QED BY <1>1, <1>3, Pow2Law

-----------------------------------------------------------------------------
(***************************************************************************)
(* Paths.                                                                  *)
(***************************************************************************)
BottomRow(depth) == 0 .. Pow2[depth] - 1

\* The bucket of a row whose stretch of the bottom row contains the leaf.
Above(depth, leaf, d) == Pow2[d] - 1 + leaf \div Pow2[depth - d]

LEMMA PositionsAreBottomRow ==
  ASSUME NEW depth \in Nat
  PROVE  PositionsOf(depth) \subseteq BottomRow(depth)
BY Pow2Law DEF PositionsOf, BottomRow

\* Climbing one row halves the stretch of the bottom row left of the bucket.
LEMMA AboveIsParent ==
  ASSUME NEW depth \in Nat, NEW leaf \in Nat, NEW d \in 1 .. depth
  PROVE  Above(depth, leaf, d - 1) = (Above(depth, leaf, d) + 1) \div 2 - 1
<1> DEFINE p == Pow2[d - 1]
           w == Pow2[depth - d]
<1>1. d - 1 \in Nat /\ depth - d \in Nat /\ (d - 1) + 1 = d /\ depth - (d - 1) = (depth - d) + 1
  OBVIOUS
<1>2. p \in Nat \ {0} /\ w \in Nat \ {0} /\ Pow2[d] = 2 * p /\ Pow2[depth - (d - 1)] = 2 * w
  BY <1>1, Pow2Law
<1> HIDE DEF p, w
<1>3. leaf \div w \in Nat /\ (leaf \div w) \div 2 = leaf \div (2 * w)
  BY <1>2
<1>4. (2 * p - 1 + leaf \div w + 1) \div 2 = p + (leaf \div w) \div 2
  BY <1>2, <1>3
<1> QED BY <1>2, <1>3, <1>4 DEF Above, p, w

\* The loop of GetNodeOnPath computes it.
LEMMA NodeOnPathIsAbove ==
  ASSUME NEW depth \in Nat, NEW leaf \in Nat, NEW d \in 0 .. depth
  PROVE  NodeOnPath(depth, leaf, d) = Above(depth, leaf, d)
<1> DEFINE bottom == leaf + BucketCount(depth) \div 2
           climb[k \in 0 .. depth] ==
             IF k = 0 THEN bottom ELSE (climb[k - 1] + 1) \div 2 - 1
           up == [k \in 0 .. depth |-> Above(depth, leaf, depth - k)]
<1>1. bottom = Above(depth, leaf, depth)
  <2>1. /\ Pow2[depth] \in Nat /\ BucketCount(depth) = 2 * Pow2[depth] - 1
        /\ Pow2[depth - depth] = 1
    BY Pow2Law DEF BucketCount
  <2>2. BucketCount(depth) \div 2 = Pow2[depth] - 1
    BY <2>1
  <2> QED BY <2>1, <2>2 DEF Above
<1>2. ASSUME NEW k \in 0 .. depth, k # 0
      PROVE  up[k] = (up[k - 1] + 1) \div 2 - 1
  <2>1. /\ depth - k + 1 \in 1 .. depth /\ (depth - k + 1) - 1 = depth - k
        /\ depth - (k - 1) = depth - k + 1 /\ k - 1 \in 0 .. depth
    BY <1>2
  <2>2. Above(depth, leaf, depth - k) = (Above(depth, leaf, depth - k + 1) + 1) \div 2 - 1
    BY <2>1, AboveIsParent
  <2> QED BY <2>1, <2>2
<1>3. up[0] = bottom
  BY <1>1
<1> HIDE DEF bottom
<1>4. climb = [k \in 0 .. depth |-> IF k = 0 THEN bottom ELSE (climb[k - 1] + 1) \div 2 - 1]
  <2>1. up = [k \in 0 .. depth |-> IF k = 0 THEN bottom ELSE (up[k - 1] + 1) \div 2 - 1]
    <3>1. \A k \in 0 .. depth : up[k] = IF k = 0 THEN bottom ELSE (up[k - 1] + 1) \div 2 - 1
      BY <1>2, <1>3
    <3>2. up = [k \in 0 .. depth |-> up[k]]
      OBVIOUS
    <3> HIDE DEF up
    <3> QED BY <3>1, <3>2
  <2> HIDE DEF up
  <2> QED BY <2>1
<1> HIDE DEF climb, up
<1>5. \A k \in 0 .. depth : climb[k] = up[k]
  <2> DEFINE Bad == {k \in 0 .. depth : climb[k] # up[k]}
  <2> SUFFICES ASSUME Bad # {} PROVE FALSE
    OBVIOUS
  <2>1. PICK k \in Bad : \A j \in Bad : k <= j
    <3>1. Bad \subseteq Nat
      OBVIOUS
    <3> HIDE DEF Bad
    <3> QED BY <3>1, LeastOfNats
  <2>2. climb[k] = IF k = 0 THEN bottom ELSE (climb[k - 1] + 1) \div 2 - 1
    BY <1>4, <2>1
  <2>3. k # 0 => k - 1 \in 0 .. depth /\ k - 1 \notin Bad
    BY <2>1
  <2> QED BY <1>2, <1>3, <2>1, <2>2, <2>3
<1>6. NodeOnPath(depth, leaf, d) = climb[depth - d]
  BY DEF NodeOnPath, climb, bottom
<1>7. depth - d \in 0 .. depth /\ depth - (depth - d) = d
  OBVIOUS
<1> QED BY <1>5, <1>6, <1>7 DEF up

\* The stretch of the bottom row has an ancestor for each of its parts.
LEMMA AboveInRow ==
  ASSUME NEW depth \in Nat, NEW leaf \in BottomRow(depth), NEW d \in 0 .. depth
  PROVE  Above(depth, leaf, d) \in Pow2[d] - 1 .. Pow2[d + 1] - 2
<1> DEFINE In(e) == Above(depth, leaf, e) \in Pow2[e] - 1 .. Pow2[e + 1] - 2
<1>1. leaf \in Nat /\ Pow2[depth] \in Nat \ {0} /\ leaf <= Pow2[depth] - 1
  BY Pow2Law DEF BottomRow
<1>2. In(depth)
  <2>1. Pow2[depth - depth] = 1 /\ Pow2[depth + 1] = 2 * Pow2[depth]
    BY Pow2Law
  <2>2. leaf \div 1 = leaf
    BY <1>1
  <2> QED BY <1>1, <2>1, <2>2 DEF Above
<1>3. ASSUME NEW e \in 1 .. depth, In(e) PROVE In(e - 1)
  <2>1. e - 1 \in Nat /\ (e - 1) + 1 = e
    OBVIOUS
  <2>2. /\ Pow2[e - 1] \in Nat \ {0} /\ Pow2[e] = 2 * Pow2[e - 1] /\ Pow2[e + 1] = 2 * Pow2[e]
    BY <2>1, Pow2Law
  <2>3. Above(depth, leaf, e - 1) = (Above(depth, leaf, e) + 1) \div 2 - 1
    BY <1>1, AboveIsParent
  <2> QED BY <1>3, <2>1, <2>2, <2>3
<1> HIDE DEF In
<1>4. \A e \in 0 .. depth : In(e)
  <2> DEFINE Bad == {e \in 0 .. depth : ~In(e)}
  <2> SUFFICES ASSUME Bad # {} PROVE FALSE
    OBVIOUS
  <2>1. PICK e \in Bad : \A j \in Bad : j <= e
    <3>1. Bad \subseteq 0 .. depth
      OBVIOUS
    <3> HIDE DEF Bad
    <3> QED BY <3>1, GreatestUpTo
  <2>2. e # depth
    BY <1>2, <2>1
  <2>3. e + 1 \in 1 .. depth /\ e + 1 \notin Bad /\ (e + 1) - 1 = e
    BY <2>1, <2>2
  <2> QED BY <1>3, <2>1, <2>3
<1> QED BY <1>4 DEF In

\* The rows of the tree do not overlap: a bucket is on paths at one height.
LEMMA RowsApart ==
  ASSUME NEW depth \in Nat, NEW k \in BottomRow(depth), NEW l \in BottomRow(depth),
         NEW d \in 0 .. depth, NEW e \in 0 .. depth,
         NodeOnPath(depth, k, d) = NodeOnPath(depth, l, e)
  PROVE  d = e
<1>1. k \in Nat /\ l \in Nat
  BY Pow2Law DEF BottomRow
<1>2. /\ NodeOnPath(depth, k, d) \in Pow2[d] - 1 .. Pow2[d + 1] - 2
      /\ NodeOnPath(depth, l, e) \in Pow2[e] - 1 .. Pow2[e + 1] - 2
  BY <1>1, NodeOnPathIsAbove, AboveInRow
<1>3. /\ d < e => Pow2[d + 1] <= Pow2[e]
      /\ e < d => Pow2[e + 1] <= Pow2[d]
  BY Pow2Grows
<1>4. /\ Pow2[d] \in Nat /\ Pow2[e] \in Nat /\ Pow2[d + 1] \in Nat /\ Pow2[e + 1] \in Nat
  BY Pow2Law
<1> QED BY <1>2, <1>3, <1>4

-----------------------------------------------------------------------------
(***************************************************************************)
(* The depth of a tree, and how many buckets positions lead to.            *)
(***************************************************************************)
LEMMA DepthOfIs ==
  ASSUME NEW maxSize \in Nat, NEW z \in Nat \ {0}, z <= maxSize
  PROVE  /\ DepthOf(maxSize, z) \in Nat
         /\ Pow2[DepthOf(maxSize, z)] <= maxSize \div z
         /\ maxSize \div z < Pow2[DepthOf(maxSize, z) + 1]
<1> DEFINE m == maxSize \div z
           Enough == {d \in Nat : m < Pow2[d + 1]}
<1>1. m \in Nat /\ m <= maxSize /\ 1 <= m
  OBVIOUS
<1> HIDE DEF m
<1>2. m \in Enough
  <2>1. m < Pow2[m] /\ Pow2[m] <= Pow2[m + 1] /\ Pow2[m] \in Nat /\ Pow2[m + 1] \in Nat
    BY <1>1, Pow2Above, Pow2Grows, Pow2Law
  <2> QED BY <1>1, <2>1
<1>3. PICK d \in Enough : \A e \in Enough : d <= e
  <2>1. Enough \subseteq Nat
    OBVIOUS
  <2> HIDE DEF Enough
  <2> QED BY <1>2, <2>1, LeastOfNats
<1>4. Pow2[d] <= m
  <2>1. CASE d = 0
    BY <1>1, <2>1, Pow2Law
  <2>2. CASE d # 0
    <3>1. d - 1 \in Nat /\ d - 1 \notin Enough /\ (d - 1) + 1 = d
      BY <1>3, <2>2
    <3> QED BY <1>1, <3>1, Pow2Law
  <2> QED BY <2>1, <2>2
<1>5. d \in 0 .. maxSize
  BY <1>1, <1>2, <1>3
<1>6. \E e \in 0 .. maxSize : Pow2[e] <= m /\ m < Pow2[e + 1]
  BY <1>3, <1>4, <1>5
<1> QED BY <1>6 DEF DepthOf, m

\* The part of a row that positions in the left half lead to.
Stretch(d) == IF d = 0 THEN {0} ELSE Pow2[d] - 1 .. Pow2[d] - 2 + Pow2[d - 1]

Reachable(depth) == UNION {PathOf(depth, l) : l \in PositionsOf(depth)}

LEMMA StretchReachable ==
  ASSUME NEW depth \in Nat, NEW d \in 0 .. depth
  PROVE  Stretch(d) \subseteq Reachable(depth)
<1> DEFINE Led(e) == \A b \in Stretch(e) : \E leaf \in PositionsOf(depth) : b = Above(depth, leaf, e)
<1>0. PositionsOf(depth) \subseteq Nat
  BY Pow2Law DEF PositionsOf
<1>1. Led(depth)
  <2> SUFFICES ASSUME NEW b \in Stretch(depth)
               PROVE  \E leaf \in PositionsOf(depth) : b = Above(depth, leaf, depth)
    OBVIOUS
  <2>1. Pow2[depth - depth] = 1 /\ Pow2[depth] \in Nat \ {0}
    BY Pow2Law
  <2>2. \A leaf \in Nat : Above(depth, leaf, depth) = Pow2[depth] - 1 + leaf
    BY <2>1 DEF Above
  <2> DEFINE leaf == b - (Pow2[depth] - 1)
  <2>3. leaf \in PositionsOf(depth)
    <3>1. CASE depth = 0
      BY <3>1, Pow2Law DEF Stretch, PositionsOf
    <3>2. CASE depth # 0
      <4>1. depth - 1 \in Nat /\ (depth - 1) + 1 = depth
        BY <3>2
      <4>2. Pow2[depth - 1] \in Nat \ {0} /\ Pow2[depth] = 2 * Pow2[depth - 1]
        BY <4>1, Pow2Law
      <4>3. leaf \in 0 .. Pow2[depth - 1] - 1
        BY <3>2, <4>2 DEF Stretch
      <4> QED BY <4>2, <4>3 DEF PositionsOf
    <3> QED BY <3>1, <3>2
  <2>4. b = Above(depth, leaf, depth)
    <3>1. b \in Int
      BY <2>1, Pow2Law DEF Stretch
    <3>2. Above(depth, leaf, depth) = Pow2[depth] - 1 + leaf
      BY <1>0, <2>2, <2>3
    <3> QED BY <2>1, <3>1, <3>2
  <2> QED BY <2>3, <2>4
<1>2. ASSUME NEW e \in 1 .. depth, Led(e) PROVE Led(e - 1)
  <2> SUFFICES ASSUME NEW b \in Stretch(e - 1)
               PROVE  \E leaf \in PositionsOf(depth) : b = Above(depth, leaf, e - 1)
    OBVIOUS
  <2>1. e - 1 \in Nat /\ (e - 1) + 1 = e /\ Pow2[e - 1] \in Nat \ {0} /\ Pow2[e] = 2 * Pow2[e - 1]
    BY Pow2Law
  <2>2. b \in Nat /\ 2 * b + 1 \in Stretch(e)
    <3>1. CASE e = 1
      <4>1. Pow2[0] = 1 /\ Pow2[1] = 2
        BY <2>1, <3>1, Pow2Law
      <4>2. b = 0
        BY <3>1 DEF Stretch
      <4>3. Stretch(e) = 1 .. 1
        BY <3>1, <4>1 DEF Stretch
      <4> QED BY <4>2, <4>3
    <3>2. CASE e # 1
      <4>1. e - 2 \in Nat /\ (e - 2) + 1 = e - 1 /\ (e - 1) - 1 = e - 2
        BY <3>2
      <4>2. Pow2[e - 2] \in Nat \ {0} /\ Pow2[e - 1] = 2 * Pow2[e - 2]
        BY <4>1, Pow2Law
      <4>3. b \in Pow2[e - 1] - 1 .. Pow2[e - 1] - 2 + Pow2[e - 2]
        BY <3>2, <4>1 DEF Stretch
      <4>4. Stretch(e) = Pow2[e] - 1 .. Pow2[e] - 2 + Pow2[e - 1]
        BY DEF Stretch
      <4>5. b \in Nat /\ 2 * b + 1 \in Pow2[e] - 1 .. Pow2[e] - 2 + Pow2[e - 1]
        BY <2>1, <4>2, <4>3
      <4> QED BY <4>4, <4>5
    <3> QED BY <3>1, <3>2
  <2>3. PICK leaf \in PositionsOf(depth) : 2 * b + 1 = Above(depth, leaf, e)
    BY <1>2, <2>2
  <2>4. Above(depth, leaf, e - 1) = (Above(depth, leaf, e) + 1) \div 2 - 1
    BY <1>0, <2>3, AboveIsParent
  <2>5. (2 * b + 1 + 1) \div 2 - 1 = b
    BY <2>2
  <2> QED BY <2>3, <2>4, <2>5
<1> HIDE DEF Led
<1>3. \A e \in 0 .. depth : Led(e)
  <2> DEFINE Bad == {e \in 0 .. depth : ~Led(e)}
  <2> SUFFICES ASSUME Bad # {} PROVE FALSE
    OBVIOUS
  <2>1. PICK e \in Bad : \A j \in Bad : j <= e
    <3>1. Bad \subseteq 0 .. depth
      OBVIOUS
    <3> HIDE DEF Bad
    <3> QED BY <3>1, GreatestUpTo
  <2>2. e # depth
    BY <1>1, <2>1
  <2>3. e + 1 \in 1 .. depth /\ e + 1 \notin Bad /\ (e + 1) - 1 = e
    BY <2>1, <2>2
  <2> QED BY <1>2, <2>1, <2>3
<1>4. ASSUME NEW b \in Stretch(d) PROVE b \in Reachable(depth)
  <2>1. PICK leaf \in PositionsOf(depth) : b = Above(depth, leaf, d)
    BY <1>3 DEF Led
  <2>2. b = NodeOnPath(depth, leaf, d)
    BY <1>0, <2>1, NodeOnPathIsAbove
  <2> QED BY <2>2 DEF Reachable, PathOf
<1> QED BY <1>4

LEMMA StretchSize ==
  ASSUME NEW n \in Nat
  PROVE  LET upTo == UNION {Stretch(d) : d \in 0 .. n}
         IN  IsFiniteSet(upTo) /\ Cardinality(upTo) = Pow2[n]
<1> DEFINE UpTo(k) == UNION {Stretch(d) : d \in 0 .. k}
           Counted(k) == IsFiniteSet(UpTo(k)) /\ Cardinality(UpTo(k)) = Pow2[k]
<1>1. Counted(0)
  <2>1. UpTo(0) = {0}
    <3>1. 0 .. 0 = {0}
      OBVIOUS
    <3>2. UpTo(0) = Stretch(0)
      BY <3>1
    <3> QED BY <3>2 DEF Stretch
  <2>2. IsFiniteSet({0}) /\ Cardinality({0}) = 1
    BY FS_Singleton
  <2> HIDE DEF UpTo
  <2> QED BY <2>1, <2>2, Pow2Law
<1>2. ASSUME NEW k \in Nat, Counted(k) PROVE Counted(k + 1)
  <2>1. Pow2[k] \in Nat \ {0} /\ Pow2[k + 1] = 2 * Pow2[k] /\ k + 1 # 0 /\ (k + 1) - 1 = k
    BY Pow2Law
  <2>2. Stretch(k + 1) = Pow2[k + 1] - 1 .. Pow2[k + 1] - 2 + Pow2[k]
    BY <2>1 DEF Stretch
  <2>3. IsFiniteSet(Stretch(k + 1)) /\ Cardinality(Stretch(k + 1)) = Pow2[k]
    <3> DEFINE a == Pow2[k + 1] - 1
               b == Pow2[k + 1] - 2 + Pow2[k]
    <3>1. a \in Int /\ b \in Int /\ ~(a > b) /\ b - a + 1 = Pow2[k]
      BY <2>1
    <3> HIDE DEF a, b
    <3>2. IsFiniteSet(a .. b) /\ Cardinality(a .. b) = Pow2[k]
      BY <3>1, FS_Interval
    <3> QED BY <2>2, <3>2 DEF a, b
  <2>4. UpTo(k + 1) = UpTo(k) \cup Stretch(k + 1)
    <3>1. 0 .. k + 1 = (0 .. k) \cup {k + 1}
      OBVIOUS
    <3> QED BY <3>1
  <2>5. UpTo(k) \cap Stretch(k + 1) = {}
    <3>1. ASSUME NEW d \in 0 .. k, NEW b \in Stretch(d) PROVE b \in Nat /\ b <= Pow2[k + 1] - 2
      <4>1. CASE d = 0
        BY <2>1, <4>1 DEF Stretch
      <4>2. CASE d # 0
        <5>1. d - 1 \in Nat /\ (d - 1) + 1 = d /\ d <= k
          BY <4>2
        <5>2. /\ Pow2[d - 1] \in Nat \ {0} /\ Pow2[d] = 2 * Pow2[d - 1] /\ Pow2[d] <= Pow2[k]
          <6>1. d \in Nat
            OBVIOUS
          <6> QED BY <5>1, <6>1, Pow2Law, Pow2Grows
        <5>3. b \in Pow2[d] - 1 .. Pow2[d] - 2 + Pow2[d - 1]
          BY <4>2 DEF Stretch
        <5> QED BY <2>1, <5>2, <5>3
      <4> QED BY <4>1, <4>2
    <3>2. \A b \in Stretch(k + 1) : b >= Pow2[k + 1] - 1
      BY <2>1, <2>2
    <3> QED BY <2>1, <3>1, <3>2
  <2> HIDE DEF UpTo
  <2>6. /\ IsFiniteSet(UpTo(k + 1))
        /\ Cardinality(UpTo(k + 1)) = Pow2[k] + Pow2[k] - Cardinality({})
    BY <1>2, <2>3, <2>4, <2>5, FS_Union
  <2> QED BY <2>1, <2>6, FS_EmptySet
<1> HIDE DEF Counted
<1>3. \A k \in Nat : Counted(k)
  <2> DEFINE Bad == {k \in Nat : ~Counted(k)}
  <2> SUFFICES ASSUME Bad # {} PROVE FALSE
    OBVIOUS
  <2>1. PICK k \in Bad : \A j \in Bad : k <= j
    <3>1. Bad \subseteq Nat
      OBVIOUS
    <3> HIDE DEF Bad
    <3> QED BY <3>1, LeastOfNats
  <2>2. k # 0
    BY <1>1, <2>1
  <2>3. k - 1 \in Nat /\ k - 1 \notin Bad /\ (k - 1) + 1 = k
    BY <2>1, <2>2
  <2> QED BY <1>2, <2>1, <2>3
<1> QED BY <1>3 DEF Counted

\* Half of the bottom row leads to half of the tree, the root with it.
LEMMA ReachableSize ==
  ASSUME NEW depth \in Nat
  PROVE  Cardinality(Reachable(depth)) \in Nat /\ Pow2[depth] <= Cardinality(Reachable(depth))
<1> DEFINE upTo == UNION {Stretch(d) : d \in 0 .. depth}
<1>1. Reachable(depth) \in SUBSET Nat /\ \A b \in Reachable(depth) : b <= Pow2[depth + 1]
  <2> SUFFICES ASSUME NEW leaf \in PositionsOf(depth), NEW d \in 0 .. depth
               PROVE  /\ NodeOnPath(depth, leaf, d) \in Nat
                      /\ NodeOnPath(depth, leaf, d) <= Pow2[depth + 1]
    BY DEF Reachable, PathOf
  <2>1. leaf \in BottomRow(depth) /\ leaf \in Nat
    BY PositionsAreBottomRow, Pow2Law DEF BottomRow
  <2>2. NodeOnPath(depth, leaf, d) \in Pow2[d] - 1 .. Pow2[d + 1] - 2
    BY <2>1, NodeOnPathIsAbove, AboveInRow
  <2>3. Pow2[d] \in Nat \ {0} /\ Pow2[d + 1] \in Nat /\ Pow2[depth + 1] \in Nat
        /\ Pow2[d + 1] <= Pow2[depth + 1]
    BY Pow2Law, Pow2Grows
  <2> QED BY <2>2, <2>3
<1>2. IsFiniteSet(Reachable(depth))
  BY <1>1, FS_BoundedSetOfNaturals, Pow2Law
<1>3. upTo \in SUBSET Reachable(depth)
  BY StretchReachable
<1>4. Cardinality(upTo) = Pow2[depth]
  BY StretchSize
<1> HIDE DEF upTo
<1> QED BY <1>2, <1>3, <1>4, FS_Subset, FS_CardinalityType
=============================================================================
