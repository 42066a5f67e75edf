------------------------- MODULE MCOperators_proofs -------------------------
(***************************************************************************)
(* Proofs about the pure algorithms, for levels of any size and bytes and  *)
(* identifiers of any number of values and bytes.                          *)
(***************************************************************************)
EXTENDS MCOperators, OramGeometry_proofs

-----------------------------------------------------------------------------
(***************************************************************************)
(* Bytes of numbers.                                                       *)
(***************************************************************************)
LEMMA ShiftedLaw ==
  ASSUME NEW n \in Nat
  PROVE  /\ Shifted(n, 0) = n
         /\ \A i \in Nat : /\ Shifted(n, i) \in Nat
                           /\ Shifted(n, i + 1) = Shifted(n, i) \div Base
<1> DEFINE cut == [x \in Nat |-> x \div Base]
<1>1. cut \in [Nat -> Nat]
  BY BidAssumption
<1>2. PICK f \in [Nat -> Nat] : f[0] = n /\ \A i \in Nat : f[i + 1] = cut[f[i]]
  <2> HIDE DEF cut
  <2>1. HasIterate(Nat, cut, n)
    BY <1>1, Iterates
  <2> QED BY <2>1 DEF HasIterate
<1>3. \A i \in Nat : f[i + 1] = f[i] \div Base
  BY <1>2
<1> HIDE DEF cut
<1>4. ASSUME NEW i \in Nat PROVE Shifted(n, i) = f[i]
  <2> DEFINE shift[k \in 0 .. i] == IF k = 0 THEN n ELSE shift[k - 1] \div Base
             g == [k \in 0 .. i |-> f[k]]
  <2>1. shift = [k \in 0 .. i |-> IF k = 0 THEN n ELSE shift[k - 1] \div Base]
    <3>1. \A k \in 0 .. i : g[k] = IF k = 0 THEN n ELSE g[k - 1] \div Base
      <4>1. ASSUME NEW k \in 0 .. i, k # 0 PROVE g[k] = g[k - 1] \div Base
        <5>1. k - 1 \in Nat /\ k - 1 \in 0 .. i /\ (k - 1) + 1 = k
          BY <4>1
        <5>2. f[(k - 1) + 1] = f[k - 1] \div Base
          BY <1>3, <5>1
        <5> QED BY <5>1, <5>2
      <4> QED BY <1>2, <4>1
    <3>2. g = [k \in 0 .. i |-> g[k]]
      OBVIOUS
    <3> HIDE DEF g
    <3>3. g = [k \in 0 .. i |-> IF k = 0 THEN n ELSE g[k - 1] \div Base]
      BY <3>1, <3>2
    <3> QED BY <3>3
  <2> HIDE DEF shift
  <2>2. \A k \in 0 .. i : shift[k] = f[k]
    <3> DEFINE Bad == {k \in 0 .. i : shift[k] # f[k]}
    <3> SUFFICES ASSUME Bad # {} PROVE FALSE
      OBVIOUS
    <3>1. PICK k \in Bad : \A j \in Bad : k <= j
      <4>1. Bad \subseteq Nat
        OBVIOUS
      <4> HIDE DEF Bad
      <4> QED BY <4>1, LeastOfNats
    <3>2. shift[k] = IF k = 0 THEN n ELSE shift[k - 1] \div Base
      BY <2>1, <3>1
    <3>3. k # 0 => k - 1 \in 0 .. i /\ k - 1 \in Nat /\ k - 1 \notin Bad /\ (k - 1) + 1 = k
      BY <3>1
    <3>4. k # 0 => f[k] = f[k - 1] \div Base
      BY <1>3, <3>3
    <3> QED BY <1>2, <3>1, <3>2, <3>3, <3>4
  <2> QED BY <2>2 DEF Shifted, shift
<1> QED BY <1>2, <1>3, <1>4

\* The bytes of an int determine it, since no more of it is left after them.
LEMMA BytesDetermine ==
  ASSUME NEW m \in Ints, NEW n \in Ints,
         \A i \in 0 .. IntBytes - 1 : Shifted(m, i) % Base = Shifted(n, i) % Base
  PROVE  m = n
<1> DEFINE Same(i) == Shifted(m, i) = Shifted(n, i)
<1>1. m \in Nat /\ n \in Nat /\ Same(IntBytes)
  BY IntsAssumption
<1>2. ASSUME NEW i \in 0 .. IntBytes - 1, Same(i + 1) PROVE Same(i)
  <2>1. ASSUME NEW x \in Nat, NEW y \in Nat, x \div Base = y \div Base, x % Base = y % Base
        PROVE  x = y
    <3>1. x = Base * (x \div Base) + (x % Base) /\ y = Base * (y \div Base) + (y % Base)
      BY BidAssumption
    <3> QED BY <2>1, <3>1
  <2> QED BY <1>1, <1>2, <2>1, ShiftedLaw
<1> HIDE DEF Same
<1>3. \A i \in 0 .. IntBytes : Same(i)
  <2> DEFINE Bad == {i \in 0 .. IntBytes : ~Same(i)}
  <2> SUFFICES ASSUME Bad # {} PROVE FALSE
    OBVIOUS
  <2>1. PICK i \in Bad : \A j \in Bad : j <= i
    <3>1. Bad \subseteq 0 .. IntBytes /\ IntBytes \in Nat
      BY BidAssumption
    <3> HIDE DEF Bad
    <3> QED BY <3>1, GreatestUpTo
  <2>2. i # IntBytes
    BY <1>1, <2>1
  <2>3. i \in 0 .. IntBytes - 1 /\ i + 1 \notin Bad /\ i + 1 \in 0 .. IntBytes
    BY <2>1, <2>2, BidAssumption
  <2> QED BY <1>2, <2>1, <2>3
<1>4. Same(0)
  BY <1>3, BidAssumption
<1> QED BY <1>1, <1>4, ShiftedLaw DEF Same

LEMMA ZeroHasNoBytes == \A i \in Nat : Shifted(0, i) = 0
<1> DEFINE Bad == {i \in Nat : Shifted(0, i) # 0}
<1> SUFFICES ASSUME Bad # {} PROVE FALSE
  OBVIOUS
<1>1. PICK i \in Bad : \A j \in Bad : i <= j
  <2>1. Bad \subseteq Nat
    OBVIOUS
  <2> HIDE DEF Bad
  <2> QED BY <2>1, LeastOfNats
<1>2. i # 0
  BY <1>1, ShiftedLaw
<1>3. i - 1 \in Nat /\ i - 1 \notin Bad /\ (i - 1) + 1 = i
  BY <1>1, <1>2
<1>4. Shifted(0, i) = 0 \div Base
  BY <1>3, ShiftedLaw
<1> QED BY <1>1, <1>4, BidAssumption

LEMMA FromIntType == ASSUME NEW n \in Nat PROVE FromInt(n) \in Bid
<1>1. ASSUME NEW i \in Indices PROVE (IF i < IntBytes THEN Shifted(n, i) % Base ELSE 0) \in Byte
  <2>1. Shifted(n, i) \in Nat
    BY BidAssumption, ShiftedLaw DEF Indices
  <2> QED BY <2>1, BidAssumption DEF Byte
<1> QED BY <1>1 DEF FromInt, Bid

-----------------------------------------------------------------------------
(***************************************************************************)
(* What the inputs are.                                                    *)
(***************************************************************************)
Climber ==
  [nodes : 1 .. MaxNodes, z : BucketSizes, leaf : Nat, row : Nat]

Counter == [a : Bid, b : Bid, n : Ints]

Inputs ==
  \/ /\ at \in Climber
     /\ 2 * at.nodes >= at.z
     /\ at.leaf \in PositionsOf(Depth) /\ at.row \in 0 .. Depth
  \/ at \in Counter

LEMMA TwoKinds ==
  /\ at \in Climber => Climbing /\ ~Counting
  /\ at \in Counter => Counting /\ ~Climbing
BY DEF Climber, Counter, Climbing, Counting

\* A level that has nodes enough to fill a bucket has a tree.
LEMMA LevelHasDepth ==
  ASSUME NEW nodes \in 1 .. MaxNodes, NEW z \in BucketSizes, 2 * nodes >= z
  PROVE  /\ LevelDepth(nodes, z) \in Nat
         /\ (2 * nodes) \div z < 2 * Pow2[LevelDepth(nodes, z)]
<1>1. 2 * nodes \in Nat /\ z \in Nat \ {0} /\ z <= 2 * nodes
  BY SizesAssumption
<1>2. /\ LevelDepth(nodes, z) \in Nat
      /\ (2 * nodes) \div z < Pow2[LevelDepth(nodes, z) + 1]
  <2> DEFINE size == 2 * nodes
  <2> HIDE DEF size
  <2>1. size \in Nat /\ z <= size
    BY <1>1 DEF size
  <2>2. DepthOf(size, z) \in Nat /\ size \div z < Pow2[DepthOf(size, z) + 1]
    BY <1>1, <2>1, DepthOfIs
  <2> QED BY <2>2 DEF LevelDepth, size
<1> QED BY <1>2, Pow2Law

LEMMA InitInputs == Init => Inputs
<1>1. ASSUME NEW level \in Levels,
             NEW leaf \in PositionsOf(LevelDepth(level.nodes, level.z)),
             at = [nodes |-> level.nodes, z |-> level.z, leaf |-> leaf,
                   row |-> LevelDepth(level.nodes, level.z)]
      PROVE  Inputs
  <2>1. /\ level.nodes \in 1 .. MaxNodes /\ level.z \in BucketSizes
        /\ 2 * level.nodes >= level.z
    BY DEF Levels
  <2>2. LevelDepth(level.nodes, level.z) \in Nat
    BY <2>1, LevelHasDepth
  <2>3. leaf \in Nat
    BY <2>2, Pow2Law DEF PositionsOf
  <2>4. at.nodes = level.nodes /\ at.z = level.z /\ at.leaf = leaf /\ at.row = Depth
    BY <1>1 DEF Depth
  <2>5. at \in Climber
    BY <1>1, <2>1, <2>2, <2>3 DEF Climber
  <2> QED BY <2>1, <2>2, <2>4, <2>5 DEF Inputs, Depth
<1>2. ASSUME NEW n \in Ints, NEW b \in Bid, at = [a |-> FromInt(n), b |-> b, n |-> n],
             FromInt(n) \in Bid
      PROVE  Inputs
  BY <1>2 DEF Inputs, Counter
<1>3. \A n \in Ints : FromInt(n) \in Bid
  BY FromIntType, IntsAssumption
<1> QED BY <1>1, <1>2, <1>3 DEF Init

-----------------------------------------------------------------------------
(***************************************************************************)
(* The order of identifiers.                                               *)
(***************************************************************************)

\* The first byte that differs decides.
Before(a, b) ==
  \E i \in Indices : a[i] < b[i] /\ \A j \in Indices : j < i => a[j] = b[j]

LEMMA FirstDiffers ==
  ASSUME NEW a \in Bid, NEW b \in Bid, Differing(a, b) # {}
  PROVE  /\ Min(Differing(a, b)) \in Differing(a, b)
         /\ \A j \in Differing(a, b) : Min(Differing(a, b)) <= j
<1>1. Differing(a, b) \subseteq Nat
  BY BidAssumption DEF Differing, Indices
<1>2. \E i \in Differing(a, b) : \A j \in Differing(a, b) : i <= j
  BY <1>1, LeastOfNats
<1> QED BY <1>2 DEF Min

LEMMA ComparisonsAre ==
  ASSUME NEW a \in Bid, NEW b \in Bid
  PROVE  /\ Less(a, b) <=> Before(a, b)
         /\ Equal(a, b) <=> a = b
         /\ LessOrEqual(a, b) <=> Less(a, b) \/ Equal(a, b)
         /\ Greater(a, b) <=> Less(b, a)
         /\ GreaterOrEqual(a, b) <=> Less(b, a) \/ Equal(a, b)
         /\ Less(a, b) \/ Equal(a, b) \/ Less(b, a)
<1>1. /\ \A i \in Indices : a[i] \in Nat /\ b[i] \in Nat /\ i \in Nat
      /\ a = [i \in Indices |-> a[i]] /\ b = [i \in Indices |-> b[i]]
  BY BidAssumption DEF Bid, Byte, Indices
<1>2. Equal(a, b) <=> a = b
  BY <1>1 DEF Equal, Differing
<1>3. Differing(a, b) = Differing(b, a)
  BY DEF Differing
<1>4. CASE Differing(a, b) = {}
  BY <1>1, <1>2, <1>3, <1>4
     DEF Less, LessOrEqual, Greater, GreaterOrEqual, Equal, Before, Differing
<1>5. CASE Differing(a, b) # {}
  <2> DEFINE m == Min(Differing(a, b))
  <2>1. m \in Indices /\ a[m] # b[m] /\ \A j \in Indices : j < m => a[j] = b[j]
    <3>1. m \in Differing(a, b) /\ \A j \in Differing(a, b) : m <= j
      BY <1>5, FirstDiffers
    <3> HIDE DEF m
    <3> QED BY <1>1, <3>1 DEF Differing
  <2>2. /\ Less(a, b) <=> a[m] < b[m]
        /\ Less(b, a) <=> b[m] < a[m]
        /\ LessOrEqual(a, b) <=> a[m] < b[m]
        /\ Greater(a, b) <=> a[m] > b[m]
        /\ GreaterOrEqual(a, b) <=> a[m] > b[m]
        /\ ~Equal(a, b)
    BY <1>3, <1>5 DEF Less, LessOrEqual, Greater, GreaterOrEqual, Equal
  <2> HIDE DEF m
  <2>3. Before(a, b) => a[m] < b[m]
    <3> SUFFICES ASSUME NEW i \in Indices, a[i] < b[i], \A j \in Indices : j < i => a[j] = b[j]
                 PROVE  a[m] < b[m]
      BY DEF Before
    <3>1. i = m
      BY <1>1, <2>1
    <3> QED BY <3>1
  <2>4. a[m] < b[m] => Before(a, b)
    BY <2>1 DEF Before
  <2> QED BY <1>1, <1>2, <2>1, <2>2, <2>3, <2>4
<1> QED BY <1>4, <1>5

\* The number the first k bytes make.
Sums(id, s) ==
  /\ s \in [Nat -> Nat] /\ s[0] = 0
  /\ \A k \in Indices : s[k + 1] = Base * s[k] + id[k]
  /\ Rank(id) = s[IdSize]

LEMMA RankIsSum == ASSUME NEW id \in Bid PROVE \E s : Sums(id, s)
<1> DEFINE byte(k) == IF k \in Indices THEN id[k] ELSE 0
           next == [p \in Nat \X Nat |-> <<p[1] + 1, Base * p[2] + byte(p[1])>>]
<1>1. \A k : byte(k) \in Nat
  BY BidAssumption DEF Bid, Byte
<1> HIDE DEF byte
<1>2. next \in [Nat \X Nat -> Nat \X Nat]
  BY <1>1, BidAssumption
<1>3. PICK f \in [Nat -> Nat \X Nat] : f[0] = <<0, 0>> /\ \A n \in Nat : f[n + 1] = next[f[n]]
  <2> HIDE DEF next
  <2>1. HasIterate(Nat \X Nat, next, <<0, 0>>)
    BY <1>2, Iterates
  <2> QED BY <2>1 DEF HasIterate
<1>4. \A n \in Nat : f[n] \in Nat \X Nat /\ f[n + 1] = <<f[n][1] + 1, Base * f[n][2] + byte(f[n][1])>>
  BY <1>3
<1> HIDE DEF next
<1>5. \A n \in Nat : f[n][1] = n
  <2> DEFINE Bad == {n \in Nat : f[n][1] # n}
  <2> SUFFICES ASSUME Bad # {} PROVE FALSE
    OBVIOUS
  <2>1. PICK n \in Bad : \A j \in Bad : n <= j
    <3>1. Bad \subseteq Nat
      OBVIOUS
    <3> HIDE DEF Bad
    <3> QED BY <3>1, LeastOfNats
  <2>2. n # 0
    BY <1>3, <2>1
  <2>3. n - 1 \in Nat /\ n - 1 \notin Bad /\ (n - 1) + 1 = n
    BY <2>1, <2>2
  <2>4. f[n][1] = f[n - 1][1] + 1
    <3>1. f[(n - 1) + 1] = <<f[n - 1][1] + 1, Base * f[n - 1][2] + byte(f[n - 1][1])>>
      BY <1>4, <2>3
    <3> QED BY <2>3, <3>1
  <2> QED BY <2>1, <2>3, <2>4
<1> DEFINE s == [n \in Nat |-> f[n][2]]
<1>6. s \in [Nat -> Nat] /\ s[0] = 0
  BY <1>3, <1>4
<1>7. ASSUME NEW k \in Indices PROVE k \in Nat /\ s[k + 1] = Base * s[k] + id[k]
  <2>1. k \in Nat /\ k + 1 \in Nat
    BY DEF Indices
  <2>2. f[k + 1][2] = Base * f[k][2] + byte(k)
    BY <1>4, <1>5, <2>1
  <2> QED BY <2>1, <2>2 DEF byte
<1> HIDE DEF s
<1>8. Rank(id) = s[IdSize]
  <2> DEFINE sum[k \in 0 .. IdSize] == IF k = 0 THEN 0 ELSE Base * sum[k - 1] + id[k - 1]
             g == [k \in 0 .. IdSize |-> s[k]]
  <2>1. sum = [k \in 0 .. IdSize |-> IF k = 0 THEN 0 ELSE Base * sum[k - 1] + id[k - 1]]
    <3>1. \A k \in 0 .. IdSize : g[k] = IF k = 0 THEN 0 ELSE Base * g[k - 1] + id[k - 1]
      <4>1. ASSUME NEW k \in 0 .. IdSize, k # 0 PROVE g[k] = Base * g[k - 1] + id[k - 1]
        <5>1. k - 1 \in Indices /\ k - 1 \in 0 .. IdSize /\ (k - 1) + 1 = k
          BY <4>1, BidAssumption DEF Indices
        <5>2. s[(k - 1) + 1] = Base * s[k - 1] + id[k - 1]
          BY <1>7, <5>1
        <5> QED BY <5>1, <5>2
      <4> QED BY <1>6, <4>1
    <3>2. g = [k \in 0 .. IdSize |-> g[k]]
      OBVIOUS
    <3> HIDE DEF g
    <3>3. g = [k \in 0 .. IdSize |-> IF k = 0 THEN 0 ELSE Base * g[k - 1] + id[k - 1]]
      BY <3>1, <3>2
    <3> QED BY <3>3
  <2> HIDE DEF sum
  <2>2. \A k \in 0 .. IdSize : sum[k] = s[k]
    <3> DEFINE Bad == {k \in 0 .. IdSize : sum[k] # s[k]}
    <3> SUFFICES ASSUME Bad # {} PROVE FALSE
      OBVIOUS
    <3>1. PICK k \in Bad : \A j \in Bad : k <= j
      <4>1. Bad \subseteq Nat
        OBVIOUS
      <4> HIDE DEF Bad
      <4> QED BY <4>1, LeastOfNats
    <3>2. sum[k] = IF k = 0 THEN 0 ELSE Base * sum[k - 1] + id[k - 1]
      BY <2>1, <3>1
    <3>3. k # 0 => k - 1 \in 0 .. IdSize /\ k - 1 \in Indices /\ k - 1 \notin Bad /\ (k - 1) + 1 = k
      BY <3>1, BidAssumption DEF Indices
    <3>4. k # 0 => s[k] = Base * s[k - 1] + id[k - 1]
      BY <1>7, <3>3
    <3> QED BY <1>6, <3>1, <3>2, <3>3, <3>4
  <2>3. Rank(id) = sum[IdSize]
    BY DEF Rank, sum
  <2>4. IdSize \in 0 .. IdSize
    BY BidAssumption
  <2> QED BY <2>2, <2>3, <2>4
<1>9. Sums(id, s)
  BY <1>6, <1>7, <1>8 DEF Sums
<1> QED BY <1>9

\* Once the sums differ, no later byte makes up for it.
LEMMA BeforeIsSmaller ==
  ASSUME NEW a \in Bid, NEW b \in Bid, Before(a, b)
  PROVE  Rank(a) < Rank(b)
<1>1. PICK s : Sums(a, s)
  BY RankIsSum
<1>2. PICK t : Sums(b, t)
  BY RankIsSum
<1>3. PICK i \in Indices : a[i] < b[i] /\ \A j \in Indices : j < i => a[j] = b[j]
  BY DEF Before
<1>4. /\ \A k \in Indices : a[k] \in 0 .. Base - 1 /\ b[k] \in 0 .. Base - 1
      /\ \A k \in 0 .. IdSize : k # 0 => k - 1 \in Indices /\ (k - 1) + 1 = k
      /\ i \in Nat /\ i + 1 \in 0 .. IdSize /\ IdSize \in Nat /\ Base \in Nat
      /\ i + 1 <= IdSize
  BY BidAssumption DEF Bid, Byte, Indices
<1>5. \A k \in 0 .. i : s[k] = t[k]
  <2> DEFINE Bad == {k \in 0 .. i : s[k] # t[k]}
  <2> SUFFICES ASSUME Bad # {} PROVE FALSE
    OBVIOUS
  <2>1. PICK k \in Bad : \A j \in Bad : k <= j
    <3>1. Bad \subseteq Nat
      OBVIOUS
    <3> HIDE DEF Bad
    <3> QED BY <3>1, LeastOfNats
  <2>2. k # 0
    BY <1>1, <1>2, <2>1 DEF Sums
  <2>3. k - 1 \in Indices /\ k - 1 \notin Bad /\ (k - 1) + 1 = k /\ k - 1 < i /\ k - 1 \in 0 .. i
    BY <1>3, <1>4, <2>1, <2>2 DEF Indices
  <2>4. s[k] = Base * s[k - 1] + a[k - 1] /\ t[k] = Base * t[k - 1] + b[k - 1]
    BY <1>1, <1>2, <2>3 DEF Sums
  <2>5. a[k - 1] = b[k - 1] /\ s[k - 1] = t[k - 1]
    BY <1>3, <2>3
  <2> QED BY <2>1, <2>4, <2>5
<1>6. ASSUME NEW x \in Nat, NEW y \in Nat, x < y, NEW c \in 0 .. Base - 1, NEW d \in 0 .. Base - 1
      PROVE  Base * x + c < Base * y + d
  <2>1. Base * (x + 1) <= Base * y
    BY <1>4, <1>6
  <2> QED BY <1>4, <1>6, <2>1
<1>7. \A k \in i + 1 .. IdSize : s[k] < t[k]
  <2> DEFINE Bad == {k \in i + 1 .. IdSize : ~(s[k] < t[k])}
  <2> SUFFICES ASSUME Bad # {} PROVE FALSE
    OBVIOUS
  <2>1. PICK k \in Bad : \A j \in Bad : k <= j
    <3>1. Bad \subseteq Nat
      BY <1>4
    <3> HIDE DEF Bad
    <3> QED BY <3>1, LeastOfNats
  <2>2. /\ k - 1 \in Indices /\ (k - 1) + 1 = k /\ k - 1 \in Nat
        /\ k - 1 = i \/ (k - 1 \in i + 1 .. IdSize /\ k - 1 \notin Bad)
    BY <1>4, <2>1 DEF Indices
  <2>3. /\ s[k] = Base * s[k - 1] + a[k - 1] /\ t[k] = Base * t[k - 1] + b[k - 1]
        /\ s[k - 1] \in Nat /\ t[k - 1] \in Nat
    BY <1>1, <1>2, <2>2 DEF Sums
  <2>4. CASE k - 1 = i
    <3>1. s[k - 1] = t[k - 1] /\ a[k - 1] < b[k - 1]
      BY <1>3, <1>4, <1>5, <2>4
    <3>2. Base * s[k - 1] \in Nat /\ a[k - 1] \in Nat /\ b[k - 1] \in Nat
      BY <1>4, <2>2, <2>3
    <3> QED BY <2>1, <2>3, <3>1, <3>2
  <2>5. CASE k - 1 \in i + 1 .. IdSize /\ k - 1 \notin Bad
    <3>1. s[k - 1] < t[k - 1]
      BY <2>5
    <3>2. a[k - 1] \in 0 .. Base - 1 /\ b[k - 1] \in 0 .. Base - 1
      BY <1>4, <2>2
    <3>3. Base * s[k - 1] + a[k - 1] < Base * t[k - 1] + b[k - 1]
      BY <1>6, <2>3, <3>1, <3>2
    <3> QED BY <2>1, <2>3, <3>3
  <2> QED BY <2>2, <2>4, <2>5
<1>8. s[IdSize] < t[IdSize]
  BY <1>4, <1>7
<1> QED BY <1>1, <1>2, <1>8 DEF Sums

LEMMA OrderOfRanks ==
  ASSUME NEW a \in Bid, NEW b \in Bid
  PROVE  /\ Less(a, b) <=> Rank(a) < Rank(b)
         /\ LessOrEqual(a, b) <=> Rank(a) <= Rank(b)
         /\ Greater(a, b) <=> Rank(a) > Rank(b)
         /\ GreaterOrEqual(a, b) <=> Rank(a) >= Rank(b)
         /\ Equal(a, b) <=> Rank(a) = Rank(b)
<1>1. Rank(a) \in Nat /\ Rank(b) \in Nat
  <2>1. ASSUME NEW id \in Bid PROVE Rank(id) \in Nat
    BY RankIsSum, BidAssumption DEF Sums
  <2> QED BY <2>1
<1>2. /\ Less(a, b) => Rank(a) < Rank(b)
      /\ Less(b, a) => Rank(b) < Rank(a)
      /\ Equal(a, b) => Rank(a) = Rank(b)
  BY ComparisonsAre, BeforeIsSmaller
<1>3. /\ LessOrEqual(a, b) <=> Less(a, b) \/ Equal(a, b)
      /\ Greater(a, b) <=> Less(b, a)
      /\ GreaterOrEqual(a, b) <=> Less(b, a) \/ Equal(a, b)
      /\ Less(a, b) \/ Equal(a, b) \/ Less(b, a)
  BY ComparisonsAre
<1> QED BY <1>1, <1>2, <1>3

-----------------------------------------------------------------------------
(***************************************************************************)
(* Counting.                                                               *)
(***************************************************************************)
LEMMA IncrementedType == ASSUME NEW a \in Bid PROVE Incremented(a) \in Bid
<1>1. ASSUME NEW i \in Indices
      PROVE  (IF i \in Carrying(a) THEN (a[i] + 1) % Base ELSE a[i]) \in Byte
  BY BidAssumption DEF Bid, Byte
<1> QED BY <1>1 DEF Incremented, Bid

\* operator++ gives the next identifier, or begins again.
LEMMA IncrementIsNext ==
  ASSUME NEW a \in Bid
  PROVE  \/ \A i \in Indices : a[i] = Base - 1 /\ Incremented(a)[i] = 0
         \/ /\ Before(a, Incremented(a))
            /\ \A b \in Bid : ~(Before(a, b) /\ Before(b, Incremented(a)))
<1> DEFINE c == Incremented(a)
           C == Carrying(a)
<1>1. /\ Base \in Nat /\ Base >= 2 /\ IdSize \in Nat /\ IdSize >= 1
      /\ \A i \in Indices : i \in Nat /\ i < IdSize /\ a[i] \in 0 .. Base - 1
      /\ IdSize - 1 \in Indices
  BY BidAssumption DEF Bid, Byte, Indices
<1>2. C \subseteq Indices /\ \A i : i \in C <=> i \in Indices /\ \A j \in Indices : j > i => a[j] = Base - 1
  BY DEF Carrying
<1>3. \A i \in Indices : c[i] = IF i \in C THEN (a[i] + 1) % Base ELSE a[i]
  BY DEF Incremented
<1> HIDE DEF c, C
<1>4. PICK m \in C : \A i \in C : m <= i
  <2>1. IdSize - 1 \in C
    BY <1>1, <1>2
  <2>2. C \subseteq Nat
    BY <1>1, <1>2
  <2> QED BY <2>1, <2>2, LeastOfNats
<1>5. \A i \in Indices : /\ i < m => c[i] = a[i]
                         /\ i > m => a[i] = Base - 1 /\ c[i] = 0
  <2>1. \A i \in Indices : i > m => i \in C
    BY <1>1, <1>2, <1>4
  <2>2. (Base - 1 + 1) % Base = 0
    BY <1>1
  <2>3. \A i \in Indices : i < m => i \notin C
    BY <1>1, <1>2, <1>4
  <2> QED BY <1>2, <1>3, <1>4, <2>1, <2>2, <2>3
<1>6. CASE a[m] = Base - 1
  <2>1. c[m] = 0
    <3>1. (Base - 1 + 1) % Base = 0
      BY <1>1
    <3> QED BY <1>2, <1>3, <1>4, <1>6, <3>1
  <2>2. m = 0
    <3> SUFFICES ASSUME m # 0 PROVE FALSE
      OBVIOUS
    <3>1. m - 1 \in Indices
      BY <1>1, <1>2, <1>4 DEF Indices
    <3>2. \A j \in Indices : j > m - 1 => a[j] = Base - 1
      BY <1>1, <1>2, <1>4, <1>5, <1>6
    <3>3. m - 1 \in C /\ m \in Nat
      BY <1>1, <1>2, <1>4, <3>1, <3>2
    <3> QED BY <1>4, <3>3
  <2>3. \A i \in Indices : i = m \/ i > m
    BY <1>1, <2>2
  <2> QED BY <1>5, <1>6, <2>1, <2>3 DEF c
<1>7. CASE a[m] # Base - 1
  <2>1. m \in Indices /\ m \in Nat /\ a[m] \in 0 .. Base - 1
    BY <1>1, <1>2, <1>4
  <2>2. c[m] = a[m] + 1
    <3>1. a[m] + 1 \in 0 .. Base - 1
      BY <1>1, <1>7, <2>1
    <3>2. (a[m] + 1) % Base = a[m] + 1
      BY <1>1, <3>1
    <3> QED BY <1>3, <1>4, <2>1, <3>2
  <2>3. Before(a, c)
    BY <1>1, <1>5, <2>1, <2>2 DEF Before
  <2>4. ASSUME NEW b \in Bid, Before(a, b), Before(b, c) PROVE FALSE
    <3>1. \A i \in Indices : b[i] \in 0 .. Base - 1
      BY <1>1 DEF Bid, Byte
    <3>2. PICK i \in Indices : a[i] < b[i] /\ \A j \in Indices : j < i => a[j] = b[j]
      BY <2>4 DEF Before
    <3>3. PICK k \in Indices : b[k] < c[k] /\ \A j \in Indices : j < k => b[j] = c[j]
      BY <2>4 DEF Before
    <3>4. ~(i > m)
      BY <1>1, <1>5, <3>1, <3>2
    <3>5. ~(k > m)
      BY <1>1, <1>5, <3>1, <3>3
    <3>6. CASE i < m
      <4>1. c[i] = a[i] /\ (k < i => c[k] = a[k]) /\ (k < m => c[k] = a[k])
        BY <1>1, <1>5, <2>1, <3>2, <3>3, <3>6
      <4> QED BY <1>1, <2>1, <3>1, <3>2, <3>3, <3>5, <3>6, <4>1
    <3>7. CASE i = m
      <4>1. k < m => c[k] = a[k] /\ a[k] = b[k]
        BY <1>5, <3>2, <3>3, <3>7
      <4>2. k = m
        BY <1>1, <2>1, <3>1, <3>3, <3>5, <4>1
      <4> QED BY <1>1, <2>1, <2>2, <3>1, <3>2, <3>3, <3>7, <4>2
    <3> QED BY <1>1, <2>1, <3>4, <3>6, <3>7
  <2> QED BY <2>3, <2>4 DEF c
<1> QED BY <1>6, <1>7

-----------------------------------------------------------------------------
(***************************************************************************)
(* The theorems.                                                           *)
(***************************************************************************)
LEMMA NextInputs == Inputs /\ [Next]_at => Inputs'
<1> SUFFICES ASSUME Inputs, [Next]_at PROVE Inputs'
  OBVIOUS
<1>1. CASE Climb
  <2>1. at \in Climber /\ at.leaf \in PositionsOf(Depth) /\ at.row \in 0 .. Depth /\ 2 * at.nodes >= at.z
    BY <1>1, TwoKinds DEF Climb, Inputs
  <2>2. /\ at' \in Climber
        /\ at'.nodes = at.nodes /\ at'.z = at.z /\ at'.leaf = at.leaf /\ at'.row = at.row - 1
    BY <1>1, <2>1 DEF Climb, Climber
  <2>3. Depth' = Depth
    BY <2>2 DEF Depth
  <2>4. Depth \in Nat
    BY <2>1, LevelHasDepth DEF Climber, Depth
  <2>5. at'.row \in 0 .. Depth
    BY <1>1, <2>1, <2>2, <2>4 DEF Climb
  <2> QED BY <2>1, <2>2, <2>3, <2>5 DEF Inputs
<1>2. CASE Count
  <2>1. at \in Counter
    BY <1>2, TwoKinds DEF Count, Inputs
  <2>2. at' \in Counter
    BY <1>2, <2>1, IncrementedType DEF Count, Counter
  <2> QED BY <2>2 DEF Inputs
<1>3. CASE at' = at
  BY <1>3 DEF Inputs, Depth
<1> QED BY <1>1, <1>2, <1>3 DEF Next

\* The inputs stay what they are.
THEOREM InputsStay == Spec => []Inputs
<1> QED BY InitInputs, NextInputs, PTL DEF Spec

\* Both programs' loop of halving visits, in every row, the bucket above the
\* leaf, whatever the size of the level.
THEOREM PathsAreRowWise == Spec => []PathIsRowWise
<1>1. Inputs => PathIsRowWise
  <2> SUFFICES ASSUME Inputs, Climbing
               PROVE  NodeOnPath(Depth, at.leaf, at.row)
                        = Pow2[at.row] - 1 + at.leaf \div Pow2[Depth - at.row]
    BY DEF PathIsRowWise
  <2>1. at \in Climber /\ at.row \in 0 .. Depth /\ 2 * at.nodes >= at.z
    BY TwoKinds DEF Inputs
  <2>2. at.leaf \in Nat /\ Depth \in Nat
    BY <2>1, LevelHasDepth DEF Climber, Depth
  <2>3. NodeOnPath(Depth, at.leaf, at.row) = Above(Depth, at.leaf, at.row)
    BY <2>1, <2>2, NodeOnPathIsAbove
  <2> QED BY <2>3 DEF Above
<1> QED BY <1>1, InputsStay, PTL

\* Half of the positions lead to half of the buckets, which is room enough for
\* the nodes of a full level, as the tree is made for twice as many.
THEOREM HalfIsEnough == Spec => []ReachableSlotsSuffice
<1>1. Inputs => ReachableSlotsSuffice
  <2> SUFFICES ASSUME Inputs, Climbing
               PROVE  at.nodes <= at.z * Cardinality(Reachable(Depth))
    BY DEF ReachableSlotsSuffice, Reachable
  <2>1. at \in Climber /\ 2 * at.nodes >= at.z
    BY TwoKinds DEF Inputs
  <2>2. at.nodes \in Nat /\ at.z \in Nat \ {0} /\ Depth \in Nat
        /\ (2 * at.nodes) \div at.z < 2 * Pow2[Depth]
    <3>1. at.nodes \in 1 .. MaxNodes /\ at.z \in BucketSizes
      BY <2>1 DEF Climber
    <3>2. Depth \in Nat /\ (2 * at.nodes) \div at.z < 2 * Pow2[Depth]
      BY <2>1, <3>1, LevelHasDepth DEF Depth
    <3>3. at.nodes \in Nat
      BY <3>1, SizesAssumption
    <3>4. at.z \in Nat \ {0}
      BY <3>1, SizesAssumption
    <3> QED BY <3>2, <3>3, <3>4
  <2>3. Pow2[Depth] \in Nat /\ Cardinality(Reachable(Depth)) \in Nat
        /\ Pow2[Depth] <= Cardinality(Reachable(Depth))
    BY <2>2, ReachableSize, Pow2Law
  <2>4. ASSUME NEW n \in Nat, NEW z \in Nat \ {0}, NEW p \in Nat, NEW r \in Nat,
               (2 * n) \div z < 2 * p, p <= r
        PROVE  n <= z * r
    <3>1. 2 * n < z * ((2 * n) \div z) + z
      OBVIOUS
    <3>2. (2 * n) \div z + 1 <= 2 * r /\ (2 * n) \div z \in Nat
      BY <2>4
    <3>3. z * ((2 * n) \div z + 1) <= z * (2 * r)
      BY <3>2
    <3> QED BY <3>1, <3>2, <3>3
  <2> QED BY <2>2, <2>3, <2>4
<1> QED BY <1>1, InputsStay, PTL

\* The loops of the comparison operators agree on one total order, that of the
\* numbers the bytes make, for identifiers of any length.
THEOREM OneTotalOrder == Spec => []OrderIsOfNumbers
<1>1. Inputs => OrderIsOfNumbers
  <2> SUFFICES ASSUME Inputs, Counting
               PROVE  /\ Less(at.a, at.b) <=> Rank(at.a) < Rank(at.b)
                      /\ LessOrEqual(at.a, at.b) <=> Rank(at.a) <= Rank(at.b)
                      /\ Greater(at.a, at.b) <=> Rank(at.a) > Rank(at.b)
                      /\ GreaterOrEqual(at.a, at.b) <=> Rank(at.a) >= Rank(at.b)
                      /\ Equal(at.a, at.b) <=> Rank(at.a) = Rank(at.b)
    BY DEF OrderIsOfNumbers
  <2>1. at.a \in Bid /\ at.b \in Bid
    BY TwoKinds DEF Inputs, Counter
  <2> QED BY <2>1, OrderOfRanks
<1> QED BY <1>1, InputsStay, PTL

LEMMA DigitsZero ==
  ASSUME NEW n \in Ints, \A i \in 0 .. IntBytes - 1 : Shifted(n, i) % Base = 0
  PROVE  n = 0
<1>1. \A i \in 0 .. IntBytes - 1 : Shifted(0, i) % Base = 0
  <2>1. 0 % Base = 0
    BY BidAssumption
  <2> QED BY <2>1, ZeroHasNoBytes
<1> QED BY <1>1, BytesDetermine, IntsAssumption

\* Keys made of different ints differ, and "no key" is made of 0 only, though
\* the constructor, the assignment and the comparison order bytes differently.
THEOREM IntsMakeKeys == Spec => []IntKeysAreKeys
<1>1. \A i \in 0 .. IntBytes - 1 :
        i \in Indices /\ i < IntBytes /\ IntBytes - 1 - i \in 0 .. IntBytes - 1
        /\ IntBytes - 1 - (IntBytes - 1 - i) = i
  BY BidAssumption DEF Indices
<1>2. \A i \in 0 .. IntBytes - 1 : Shifted(0, i) = 0 /\ 0 % Base = 0
  BY ZeroHasNoBytes, BidAssumption
<1>3. ASSUME NEW m \in Ints, NEW n \in Ints, FromInt(m) = FromInt(n) PROVE m = n
  <2>1. \A i \in 0 .. IntBytes - 1 : /\ FromInt(m)[i] = Shifted(m, i) % Base
                                     /\ FromInt(n)[i] = Shifted(n, i) % Base
    BY <1>1 DEF FromInt
  <2> QED BY <1>3, <2>1, BytesDetermine
<1>4. ASSUME NEW n \in Ints PROVE EqualsInt(FromInt(n), 0) <=> n = 0
  <2>1. \A i \in 0 .. IntBytes - 1 : FromInt(n)[i] = Shifted(n, i) % Base
    BY <1>1 DEF FromInt
  <2>2. EqualsInt(FromInt(n), 0) <=> \A i \in 0 .. IntBytes - 1 : Shifted(n, i) % Base = 0
    BY <1>1, <1>2, <2>1 DEF EqualsInt
  <2> QED BY <1>2, <2>2, DigitsZero
<1>5. ASSUME NEW n \in Ints PROVE EqualsInt(AssignedInt(n), 0) <=> n = 0
  <2>1. \A i \in 0 .. IntBytes - 1 : AssignedInt(n)[IntBytes - 1 - i] = Shifted(n, i) % Base
    BY <1>1 DEF AssignedInt
  <2>2. EqualsInt(AssignedInt(n), 0) <=> \A i \in 0 .. IntBytes - 1 : Shifted(n, i) % Base = 0
    BY <1>2, <2>1 DEF EqualsInt
  <2> QED BY <1>2, <2>2, DigitsZero
<1>6. Inputs => IntKeysAreKeys
  <2> SUFFICES ASSUME Inputs, Counting
               PROVE  /\ \A m \in Ints : FromInt(m) = FromInt(at.n) => m = at.n
                      /\ EqualsInt(FromInt(at.n), 0) <=> at.n = 0
                      /\ EqualsInt(AssignedInt(at.n), 0) <=> at.n = 0
    BY DEF IntKeysAreKeys
  <2>1. at.n \in Ints
    BY TwoKinds DEF Inputs, Counter
  <2> QED BY <1>3, <1>4, <1>5, <2>1
<1> QED BY <1>6, InputsStay, PTL

\* Identifiers are counted up in their order, none left out, until they begin
\* again at 0.
THEOREM CountingIsInOrder == Spec => CountsInOrder
<1> DEFINE Step == Counting => \/ Less(at.a, at.a') /\ ~(Less(at.a, at.b) /\ Less(at.b, at.a'))
                               \/ \A i \in Indices : at.a[i] = Base - 1 /\ at.a'[i] = 0
<1>1. ASSUME Inputs, [Next]_at PROVE [Step]_at
  <2> SUFFICES ASSUME Next, Counting PROVE Step
    BY <1>1
  <2>1. at \in Counter
    BY <1>1, TwoKinds DEF Inputs
  <2>2. at.a \in Bid /\ at.b \in Bid
    BY <2>1 DEF Counter
  <2>3. Count
    BY <2>1, TwoKinds DEF Next, Climb
  <2>4. at.a' = Incremented(at.a)
    BY <2>1, <2>3 DEF Count, Counter
  <2> QED BY <2>2, <2>4, IncrementIsNext, IncrementedType, ComparisonsAre
<1> HIDE DEF Step
<1>2. Spec => [][Step]_at
  BY <1>1, InputsStay, PTL DEF Spec
<1> QED BY <1>2 DEF CountsInOrder, Step
=============================================================================
