------------------------- MODULE BucketStore_proofs -------------------------
(***************************************************************************)
(* Proofs about a level as bytes: the constructor leaves no bucket out,    *)
(* and a client cuts out of a reply what was stored, for every size of     *)
(* nodes, buckets, cipher blocks and trees.                                *)
(***************************************************************************)
EXTENDS BucketStore, OramGeometry_proofs, SequenceTheorems

-----------------------------------------------------------------------------
(***************************************************************************)
(* Recursion over the numbers 0 .. n, and the flattening of a sequence.    *)
(***************************************************************************)
HasRecursion(S, step, a) ==
  \E f \in [Nat -> S] : f[0] = a /\ \A n \in Nat : f[n + 1] = step[n][f[n]]

\* Steps that differ from number to number can be taken one after the other.
LEMMA Recursion ==
  ASSUME NEW S, NEW step \in [Nat -> [S -> S]], NEW a \in S
  PROVE  HasRecursion(S, step, a)
<1> DEFINE advance == [p \in Nat \X S |-> <<p[1] + 1, step[p[1]][p[2]]>>]
<1>1. advance \in [Nat \X S -> Nat \X S]
  OBVIOUS
<1>2. PICK g \in [Nat -> Nat \X S] : g[0] = <<0, a>> /\ \A n \in Nat : g[n + 1] = advance[g[n]]
  <2> HIDE DEF advance
  <2>1. <<0, a>> \in Nat \X S
    OBVIOUS
  <2>2. HasIterate(Nat \X S, advance, <<0, a>>)
    BY <1>1, <2>1, Iterates
  <2> QED BY <2>2 DEF HasIterate
<1>3. ASSUME NEW n \in Nat PROVE g[n + 1] = <<g[n][1] + 1, step[g[n][1]][g[n][2]]>>
  BY <1>2
<1> HIDE DEF advance
<1>4. \A n \in Nat : g[n][1] = n
  <2> DEFINE Bad == {n \in Nat : g[n][1] # n}
  <2> SUFFICES ASSUME Bad # {} PROVE FALSE
    OBVIOUS
  <2>1. PICK n \in Bad : \A m \in Bad : n <= m
    <3>1. Bad \subseteq Nat
      OBVIOUS
    <3> HIDE DEF Bad
    <3> QED BY <3>1, LeastOfNats
  <2>2. n # 0
    BY <1>2, <2>1
  <2>3. n - 1 \in Nat /\ n - 1 \notin Bad /\ n = (n - 1) + 1
    BY <2>1, <2>2
  <2>4. g[n][1] = g[n - 1][1] + 1
    BY <1>3, <2>3
  <2> QED BY <2>1, <2>3, <2>4
<1> DEFINE f == [n \in Nat |-> g[n][2]]
<1>5. f \in [Nat -> S] /\ f[0] = a
  BY <1>2, SMTT(30)
<1>7. ASSUME NEW n \in Nat PROVE f[n + 1] = step[n][f[n]]
  BY <1>3, <1>4
<1> HIDE DEF f
<1> QED BY <1>5, <1>7 DEF HasRecursion

Prefix(F, k) == [x \in 1 .. k |-> F[x]]

\* The sequence of partial results of FlattenSeq.
Flattens(f, T, seqs) ==
  /\ f \in [0 .. Len(seqs) -> Seq(T)]
  /\ f[0] = <<>>
  /\ \A k \in 1 .. Len(seqs) : f[k] = f[k - 1] \o seqs[k]

LEMMA FlattenIs ==
  ASSUME NEW T, NEW seqs \in Seq(Seq(T))
  PROVE  \E f : Flattens(f, T, seqs) /\ FlattenSeq(seqs) = f[Len(seqs)]
<1>0. PICK n \in Nat : n = Len(seqs) /\ seqs \in [1 .. n -> Seq(T)]
  OBVIOUS
<1> DEFINE step == [k \in Nat |-> [s \in Seq(T) |-> IF k < n THEN s \o seqs[k + 1] ELSE s]]
<1>1. \A k \in 1 .. n : seqs[k] \in Seq(T)
  BY <1>0
<1>2. step \in [Nat -> [Seq(T) -> Seq(T)]]
  <2>1. ASSUME NEW k \in Nat, NEW s \in Seq(T)
        PROVE  (IF k < n THEN s \o seqs[k + 1] ELSE s) \in Seq(T)
    <3>1. CASE k < n
      <4>1. seqs[k + 1] \in Seq(T)
        BY <1>0, <1>1, <3>1
      <4> QED BY <3>1, <4>1
    <3> QED BY <3>1
  <2> QED BY <2>1
<1>3. PICK g \in [Nat -> Seq(T)] : g[0] = <<>> /\ \A k \in Nat : g[k + 1] = step[k][g[k]]
  <2> HIDE DEF step
  <2>1. <<>> \in Seq(T)
    OBVIOUS
  <2>2. HasRecursion(Seq(T), step, <<>>)
    BY <1>2, <2>1, Recursion
  <2> QED BY <2>2 DEF HasRecursion
<1>4. ASSUME NEW k \in 1 .. n PROVE g[k] = g[k - 1] \o seqs[k]
  <2>1. k - 1 \in Nat /\ (k - 1) + 1 = k /\ k - 1 < n
    BY <1>0, <1>1
  <2>2. g[(k - 1) + 1] = step[k - 1][g[k - 1]]
    BY <1>3, <2>1
  <2>3. step[k - 1][g[k - 1]] = g[k - 1] \o seqs[(k - 1) + 1]
    BY <1>3, <2>1
  <2> QED BY <2>1, <2>2, <2>3
<1> HIDE DEF step
<1> DEFINE f == [k \in 0 .. n |-> g[k]]
<1>5. Flattens(f, T, seqs)
  <2>1. f \in [0 .. n -> Seq(T)] /\ f[0] = <<>>
    BY <1>0, <1>1, <1>3
  <2>2. ASSUME NEW k \in 1 .. n PROVE f[k] = f[k - 1] \o seqs[k]
    <3>1. k \in 0 .. n /\ k - 1 \in 0 .. n
      BY <1>0
    <3> QED BY <1>4, <3>1
  <2> HIDE DEF f
  <2> QED BY <2>1, <2>2, <1>0 DEF Flattens
<1>6. f[n] = g[n]
  BY <1>0
<1> HIDE DEF f
<1>7. CASE n = 0
  <2>1. FlattenSeq(seqs) = seqs /\ seqs = <<>>
    BY <1>7, <1>0 DEF FlattenSeq
  <2> QED BY <1>0, <1>3, <1>5, <1>7, <1>6, <2>1
<1>8. CASE n # 0
  <2> DEFINE flatten[k \in 1 .. n] == IF k = 1 THEN seqs[k] ELSE flatten[k - 1] \o seqs[k]
             h == [k \in 1 .. n |-> g[k]]
  <2>1. flatten = [k \in 1 .. n |-> IF k = 1 THEN seqs[k] ELSE flatten[k - 1] \o seqs[k]]
    <3>1. ASSUME NEW k \in 1 .. n PROVE h[k] = IF k = 1 THEN seqs[k] ELSE h[k - 1] \o seqs[k]
      <4>1. CASE k = 1
        <5>1. g[1] = <<>> \o seqs[1]
          <6>1. 1 \in 1 .. n /\ 1 - 1 = 0
            BY <1>0, <1>8
          <6> QED BY <1>3, <1>4, <6>1
        <5>2. seqs[1] \in Seq(T)
          BY <1>0, <1>1, <4>1
        <5> QED BY <4>1, <5>1, <5>2
      <4>2. CASE k # 1
        <5>1. k - 1 \in 1 .. n
          BY <1>0, <4>2
        <5> QED BY <1>4, <4>2, <5>1
      <4> QED BY <4>1, <4>2
    <3>2. h = [k \in 1 .. n |-> h[k]]
      OBVIOUS
    <3> HIDE DEF h
    <3>3. h = [k \in 1 .. n |-> IF k = 1 THEN seqs[k] ELSE h[k - 1] \o seqs[k]]
      BY <3>1, <3>2
    <3> QED BY <3>3
  <2>2. FlattenSeq(seqs) = flatten[n]
    BY <1>8, <1>0 DEF FlattenSeq, flatten
  <2> HIDE DEF flatten, h
  <2>3. \A k \in 1 .. n : flatten[k] = g[k]
    <3> DEFINE Bad == {k \in 1 .. n : flatten[k] # g[k]}
    <3> SUFFICES ASSUME Bad # {} PROVE FALSE
      OBVIOUS
    <3>1. PICK k \in Bad : \A m \in Bad : k <= m
      <4>1. Bad \subseteq Nat
        BY <1>0, <1>1
      <4> HIDE DEF Bad
      <4> QED BY <4>1, LeastOfNats
    <3>2. flatten[k] = IF k = 1 THEN seqs[k] ELSE flatten[k - 1] \o seqs[k]
      BY <2>1, <3>1
    <3>3. CASE k = 1
      <4>1. g[1] = <<>> \o seqs[1] /\ seqs[1] \in Seq(T)
        <5>1. 1 \in 1 .. n /\ 1 - 1 = 0
          BY <1>0, <1>8
        <5> QED BY <1>1, <1>3, <1>4, <5>1
      <4>2. <<>> \o seqs[1] = seqs[1]
        BY <4>1
      <4> QED BY <3>1, <3>2, <3>3, <4>1, <4>2
    <3>4. CASE k # 1
      <4>1. k - 1 \in 1 .. n /\ k - 1 \notin Bad
        <5>1. k \in 1 .. n /\ k - 1 < k
          BY <1>0, <3>1
        <5>2. k - 1 \in 1 .. n
          BY <1>0, <3>4, <5>1
        <5>3. ~(k <= k - 1)
          BY <1>0, <5>1
        <5> QED BY <3>1, <5>2, <5>3
      <4> QED BY <1>4, <3>1, <3>2, <3>4, <4>1
    <3> QED BY <3>3, <3>4
  <2>4. n \in 1 .. n
    BY <1>0, <1>8
  <2>5. FlattenSeq(seqs) = f[Len(seqs)]
    BY <1>0, <1>6, <2>2, <2>3, <2>4
  <2> QED BY <1>5, <2>5
<1> QED BY <1>7, <1>8

Pieces(F, n, T) == \A k \in 1 .. n : F[k] \in Seq(T)

\* Flattening goes from prefix to prefix.
LEMMA FlattenPrefix ==
  ASSUME NEW T, NEW n \in Nat, NEW F, Pieces(F, n, T)
  PROVE  /\ FlattenSeq(Prefix(F, 0)) = <<>>
         /\ \A k \in 0 .. n : FlattenSeq(Prefix(F, k)) \in Seq(T)
         /\ \A k \in 1 .. n : FlattenSeq(Prefix(F, k)) = FlattenSeq(Prefix(F, k - 1)) \o F[k]
<1>1. ASSUME NEW k \in 0 .. n PROVE Prefix(F, k) \in Seq(Seq(T)) /\ Len(Prefix(F, k)) = k
  <2>1. \A x \in 1 .. k : F[x] \in Seq(T)
    BY DEF Pieces
  <2> QED BY <2>1 DEF Prefix
<1>2. ASSUME NEW k \in 1 .. n, NEW f, NEW g, Flattens(f, T, Prefix(F, k)), Flattens(g, T, Prefix(F, k - 1))
      PROVE  f[k - 1] = g[k - 1]
  <2>1. k \in 0 .. n /\ k - 1 \in 0 .. n /\ k \in Nat
    OBVIOUS
  <2>2. Len(Prefix(F, k)) = k /\ Len(Prefix(F, k - 1)) = k - 1
    BY <1>1, <2>1
  <2>3. ASSUME NEW x \in 1 .. k - 1 PROVE Prefix(F, k)[x] = Prefix(F, k - 1)[x]
    BY <2>1 DEF Prefix
  <2>4. f[0] = g[0]
    BY <1>2 DEF Flattens
  <2>5. ASSUME NEW x \in 1 .. k - 1, f[x - 1] = g[x - 1] PROVE f[x] = g[x]
    <3>1. x \in 1 .. k
      BY <2>1
    <3>2. f[x] = f[x - 1] \o Prefix(F, k)[x]
      BY <1>2, <2>2, <3>1 DEF Flattens
    <3>3. g[x] = g[x - 1] \o Prefix(F, k - 1)[x]
      BY <1>2, <2>2 DEF Flattens
    <3> QED BY <2>3, <2>5, <3>2, <3>3
  <2> DEFINE Bad == {x \in 0 .. k - 1 : f[x] # g[x]}
  <2> SUFFICES ASSUME Bad # {} PROVE FALSE
    BY <2>1
  <2>6. PICK x \in Bad : \A y \in Bad : x <= y
    <3>1. Bad \subseteq Nat
      BY <2>1
    <3> HIDE DEF Bad
    <3> QED BY <3>1, LeastOfNats
  <2>7. x \in 1 .. k - 1 /\ x - 1 \in 0 .. k - 1 /\ ~(x <= x - 1)
    BY <2>1, <2>4, <2>6
  <2> QED BY <2>5, <2>6, <2>7
<1>3. FlattenSeq(Prefix(F, 0)) = <<>>
  <2>0. Prefix(F, 0) \in Seq(Seq(T)) /\ Len(Prefix(F, 0)) = 0
    BY <1>1
  <2>1. PICK f : Flattens(f, T, Prefix(F, 0)) /\ FlattenSeq(Prefix(F, 0)) = f[Len(Prefix(F, 0))]
    BY <2>0, FlattenIs
  <2> QED BY <2>0, <2>1 DEF Flattens
<1>4. ASSUME NEW k \in 0 .. n PROVE FlattenSeq(Prefix(F, k)) \in Seq(T)
  <2>1. PICK f : Flattens(f, T, Prefix(F, k)) /\ FlattenSeq(Prefix(F, k)) = f[k]
    BY <1>1, FlattenIs
  <2> QED BY <1>1, <2>1 DEF Flattens
<1>5. ASSUME NEW k \in 1 .. n PROVE FlattenSeq(Prefix(F, k)) = FlattenSeq(Prefix(F, k - 1)) \o F[k]
  <2>0. k \in 0 .. n /\ k - 1 \in 0 .. n /\ k \in 1 .. k
    OBVIOUS
  <2>1. PICK f : Flattens(f, T, Prefix(F, k)) /\ FlattenSeq(Prefix(F, k)) = f[k]
    BY <1>1, <2>0, FlattenIs
  <2>2. PICK g : Flattens(g, T, Prefix(F, k - 1)) /\ FlattenSeq(Prefix(F, k - 1)) = g[k - 1]
    BY <1>1, <2>0, FlattenIs
  <2>3. f[k] = f[k - 1] \o Prefix(F, k)[k]
    BY <1>1, <2>0, <2>1 DEF Flattens
  <2>4. f[k - 1] = g[k - 1]
    BY <1>2, <2>1, <2>2
  <2>5. Prefix(F, k)[k] = F[k]
    BY <2>0 DEF Prefix
  <2> QED BY <2>1, <2>2, <2>3, <2>4, <2>5
<1> QED BY <1>3, <1>4, <1>5

\* Pieces of equal length are found by their number.
CutsEvenly(F, n, c) ==
  \A k \in 0 .. n : /\ Len(FlattenSeq(Prefix(F, k))) = k * c
                    /\ \A j \in 0 .. k - 1 :
                         SubSeq(FlattenSeq(Prefix(F, k)), j * c + 1, (j + 1) * c) = F[j + 1]

LEMMA FlattenChunks ==
  ASSUME NEW T, NEW n \in Nat, NEW c \in Nat \ {0}, NEW F,
         \A k \in 1 .. n : F[k] \in Seq(T) /\ Len(F[k]) = c
  PROVE  CutsEvenly(F, n, c)
<1> DEFINE flat(k) == FlattenSeq(Prefix(F, k))
           Cut(k)  == /\ Len(flat(k)) = k * c
                      /\ \A j \in 0 .. k - 1 : SubSeq(flat(k), j * c + 1, (j + 1) * c) = F[j + 1]
<1>1. /\ flat(0) = <<>>
      /\ \A k \in 0 .. n : flat(k) \in Seq(T)
      /\ \A k \in 1 .. n : flat(k) = flat(k - 1) \o F[k]
  <2>1. Pieces(F, n, T)
    BY DEF Pieces
  <2> QED BY <2>1, FlattenPrefix
<1> HIDE DEF flat
<1>2. Cut(0)
  BY <1>1
<1>3. ASSUME NEW k \in 1 .. n, Cut(k - 1) PROVE Cut(k)
  <2> DEFINE m == k - 1
  <2>1. m \in Nat /\ m + 1 = k /\ k \in Nat /\ m \in 0 .. n /\ k \in 0 .. n
    OBVIOUS
  <2> HIDE DEF m
  <2>2. flat(m) \in Seq(T) /\ F[k] \in Seq(T) /\ Len(F[k]) = c /\ Len(flat(m)) = m * c /\ flat(k) = flat(m) \o F[k]
    BY <1>1, <1>3, <2>1 DEF m
  <2>3. k * c = m * c + c /\ m * c \in Nat
    BY <2>1
  <2>4. PICK u \in Seq(T), v \in Seq(T), w \in Seq(T) : u = flat(m) /\ v = F[k] /\ w = flat(k)
    BY <1>1, <2>1, <2>2
  <2>5. w = u \o v /\ Len(u) = m * c /\ Len(v) = c
    BY <2>2, <2>4
  <2>6. Len(flat(k)) = k * c
    <3>1. Len(w) = Len(u) + Len(v)
      BY <2>5, ConcatProperties
    <3> QED BY <2>3, <2>4, <2>5, <3>1
  <2>7. ASSUME NEW j \in 0 .. k - 1 PROVE SubSeq(flat(k), j * c + 1, (j + 1) * c) = F[j + 1]
    <3>1. j \in Nat /\ j <= m
      BY <2>1
    <3>2. CASE j = m
      <4>1. SubSeq(w, m * c + 1, m * c + c) = SubSeq(v, 1, c)
        <5>1. PICK b \in Nat : b = m * c
          BY <2>3
        <5>2. /\ b + 1 \in Len(u) + 1 .. Len(u) + Len(v)
              /\ b + c \in Len(u) + 1 .. Len(u) + Len(v)
          BY <2>5, <5>1
        <5>3. SubSeq(u \o v, b + 1, b + c) = SubSeq(v, (b + 1) - Len(u), (b + c) - Len(u))
          BY <5>2, SubSeqOfConcat2
        <5>4. (b + 1) - Len(u) = 1 /\ (b + c) - Len(u) = c
          BY <2>5, <5>1
        <5> QED BY <2>5, <5>1, <5>3, <5>4
      <4>2. SubSeq(F[k], 1, c) = F[k]
        BY <2>2, SubSeqFull
      <4> QED BY <2>1, <2>3, <2>4, <3>2, <4>1, <4>2
    <3>3. CASE j < m
      <4> DEFINE a == j * c
      <4>1. a \in Nat /\ a + c <= m * c /\ (j + 1) * c = a + c
        <5>1. (j + 1) * c = j * c + c /\ j * c \in Nat
          BY <3>1
        <5>2. (j + 1) * c <= m * c
          BY <2>1, <3>1, <3>3
        <5> QED BY <5>1, <5>2
      <4> HIDE DEF a
      <4>2. a + 1 \in 1 .. Len(u) /\ a + c \in 1 .. Len(u)
        BY <2>3, <2>5, <4>1
      <4>3. SubSeq(flat(k), a + 1, a + c) = SubSeq(flat(m), a + 1, a + c)
        BY <2>4, <2>5, <4>2, SubSeqOfConcat1, SMTT(30)
      <4>4. SubSeq(flat(m), j * c + 1, (j + 1) * c) = F[j + 1]
        BY <1>3, <2>1, <3>1, <3>3 DEF m
      <4> QED BY <4>1, <4>3, <4>4 DEF a
    <3> QED BY <2>1, <3>1, <3>2, <3>3
  <2> QED BY <2>6, <2>7
<1> HIDE DEF Cut
<1>4. \A k \in 0 .. n : Cut(k)
  <2> DEFINE Bad == {k \in 0 .. n : ~Cut(k)}
  <2> SUFFICES ASSUME Bad # {} PROVE FALSE
    OBVIOUS
  <2>1. PICK k \in Bad : \A m \in Bad : k <= m
    <3>1. Bad \subseteq Nat
      OBVIOUS
    <3> HIDE DEF Bad
    <3> QED BY <3>1, LeastOfNats
  <2>2. k \in 1 .. n /\ k - 1 \in 0 .. n /\ ~(k <= k - 1)
    <3>1. k # 0
      BY <1>2, <2>1
    <3> QED BY <2>1, <3>1
  <2> QED BY <1>3, <2>1, <2>2
<1> QED BY <1>4 DEF Cut, flat, CutsEvenly

-----------------------------------------------------------------------------
(***************************************************************************)
(* The invariant.                                                          *)
(***************************************************************************)

\* How a bucket is stored, for each of the ivs it may be encrypted under.
Code == [nodes \in Buckets |-> [iv \in Ivs |-> Encrypt(Serialised(nodes), iv)]]

\* Stored are empty buckets.
Blank(data) == \A b \in DOMAIN data : \E iv \in Ivs : data[b] = Code[<<>>][iv]

\* The loop of the constructor: what it has counted is stored or collected, and
\* nothing is collected directly after a number that is a multiple of Batch.
Preparing ==
  /\ batch \in Seq(Nat)
  /\ DOMAIN coll \cup ToSet(batch) = 0 .. next - 1
  /\ batch = <<>> <=> next = 0 \/ (next - 1) % Batch = 0
  /\ Blank(coll)

\* Every bucket is stored as it was written last, each under an iv of its own.
Prepared ==
  /\ DOMAIN coll = Numbers
  /\ contents \in [Numbers -> Buckets]
  /\ \A b \in Numbers : \E iv \in Ivs : coll[b] = Code[contents[b]][iv]

\* The client has as many buckets of the reply as turns of its loop.
Receiving ==
  /\ asked \in Seq(Numbers)
  /\ reply = FlattenSeq([x \in DOMAIN asked |-> coll[asked[x]]])
  /\ i \in 0 .. Len(asked)
  /\ received = FlattenSeq([x \in 1 .. i |-> contents[asked[x]]])

BytesInv ==
  /\ size \in NodeSizes /\ depth \in Depths
  /\ phase \in {"prepare", "ready", "receive"}
  /\ next \in 0 .. BucketCount(depth)
  /\ phase = "prepare" => Preparing
  /\ phase # "prepare" => Prepared
  /\ phase = "receive" => Receiving

LEMMA LastBucket ==
  ASSUME NEW d \in Depths
  PROVE  BucketCount(d) \in Nat \ {0} /\ (BucketCount(d) - 1) % Batch # 0
<1>1. d \in Nat /\ d - 1 \in Nat /\ (d - 1) + 1 = d
  BY BucketStoreAssumption
<1>2. PICK p \in Nat \ {0} : p = Pow2[d - 1]
  BY <1>1, Pow2Law
<1>3. BucketCount(d) = 4 * p - 1
  <2>1. Pow2[d] = 2 * p /\ Pow2[d + 1] = 2 * Pow2[d]
    BY <1>1, <1>2, Pow2Law
  <2> QED BY <1>2, <2>1 DEF BucketCount
<1>4. PICK n \in Nat : n = BucketCount(d) - 1
  BY <1>2, <1>3
<1>5. n = 4 * p - 2
  BY <1>2, <1>3, <1>4
<1>6. n % Batch # 0
  <2> SUFFICES ASSUME n % Batch = 0 PROVE FALSE
    OBVIOUS
  <2>1. Batch \in Nat \ {0} /\ Batch % 4 = 0
    BY BucketStoreAssumption
  <2>2. PICK q \in Nat : Batch = 4 * q
    <3>1. Batch = 4 * (Batch \div 4) + (Batch % 4) /\ Batch \div 4 \in Nat
      BY <2>1
    <3> QED BY <2>1, <3>1
  <2>3. PICK r \in Nat : n = Batch * r
    <3>1. n = Batch * (n \div Batch) + (n % Batch)
      BY <2>1
    <3>2. PICK r \in Nat : r = n \div Batch
      BY <2>1
    <3>3. n = Batch * r + 0
      BY <3>1, <3>2
    <3>4. Batch * r + 0 = Batch * r
      BY <2>1
    <3> QED BY <3>3, <3>4
  <2>4. PICK m \in Nat : m = q * r
    BY <2>2, <2>3
  <2>5. n = 4 * m
    BY <2>2, <2>3, <2>4
  <2> QED BY <1>2, <1>5, <2>4, <2>5
<1> QED BY <1>2, <1>3, <1>4, <1>6

LEMMA NodesAreBuckets ==
  /\ <<>> \in Buckets
  /\ \A nodes \in Buckets : nodes \in Seq(Names) /\ Len(nodes) <= Z
<1>1. Z \in Nat
  BY BucketStoreAssumption
<1>2. <<>> \in Buckets
  <2>1. <<>> \in [1 .. 0 -> Names] /\ IsInjective(<<>>)
    BY DEF IsInjective
  <2>2. 0 \in 0 .. Z
    BY <1>1
  <2> QED BY <2>1, <2>2 DEF Buckets
<1>3. ASSUME NEW nodes \in Buckets PROVE nodes \in Seq(Names) /\ Len(nodes) <= Z
  <2>1. PICK n \in 0 .. Z : nodes \in [1 .. n -> Names]
    BY DEF Buckets
  <2>2. n \in Nat /\ n <= Z
    BY <1>1
  <2>3. nodes \in Seq(Names)
    BY <2>1, <2>2
  <2> QED BY <2>1, <2>2, <2>3
<1> QED BY <1>2, <1>3

\* Every number is collected once the constructor has counted it.
LEMMA BulkInsertIs ==
  ASSUME NEW data, Blank(data), NEW numbers, NEW iv \in Ivs
  PROVE  /\ DOMAIN BulkInsert(data, numbers, iv) = DOMAIN data \cup ToSet(numbers)
         /\ Blank(BulkInsert(data, numbers, iv))
<1>1. Code[<<>>][iv] = Encrypt(Serialised(<<>>), iv)
  BY NodesAreBuckets DEF Code
<1> QED BY <1>1 DEF BulkInsert, Blank

LEMMA ToSetIs ==
  /\ ToSet(<<>>) = {}
  /\ \A s \in Seq(Nat) : \A n \in Nat : ToSet(Append(s, n)) = ToSet(s) \cup {n}
<1>1. ToSet(<<>>) = {}
  BY DEF ToSet
<1>2. ASSUME NEW s \in Seq(Nat), NEW n \in Nat PROVE ToSet(Append(s, n)) = ToSet(s) \cup {n}
  <2>1. PICK t \in Seq(Nat) : t = Append(s, n)
    BY AppendProperties
  <2>2. Len(t) = Len(s) + 1 /\ t[Len(s) + 1] = n /\ \A k \in 1 .. Len(s) : t[k] = s[k]
    BY <2>1, AppendProperties
  <2>3. DOMAIN s = 1 .. Len(s) /\ DOMAIN t = 1 .. Len(t) /\ Len(s) \in Nat
    BY LenProperties
  <2>4. ToSet(t) \subseteq ToSet(s) \cup {n}
    <3>1. ASSUME NEW k \in DOMAIN t PROVE t[k] = n \/ (k \in DOMAIN s /\ t[k] = s[k])
      BY <2>2, <2>3
    <3> QED BY <3>1 DEF ToSet
  <2>5. ToSet(s) \cup {n} \subseteq ToSet(t)
    <3>1. ASSUME NEW k \in DOMAIN s PROVE k \in DOMAIN t /\ t[k] = s[k]
      BY <2>2, <2>3
    <3>2. Len(s) + 1 \in DOMAIN t
      BY <2>2, <2>3
    <3> QED BY <2>2, <3>1, <3>2 DEF ToSet
  <2> QED BY <2>1, <2>4, <2>5
<1> QED BY <1>1, <1>2

\* The loop of FetchPath collects numbers of buckets.
LEMMA OnPathAndNewIs ==
  ASSUME depth \in Nat, NEW leaf \in Leaves, NEW handedOut
  PROVE  OnPathAndNew(leaf, handedOut) \in Seq(Numbers)
<1> DEFINE n == depth + 1
           node == [k \in Nat |-> NodeOnPath(depth, leaf, k)]
           grown(s, k) == IF node[k] \in handedOut THEN s ELSE Append(s, node[k])
           step == [k \in Nat |-> [s \in Seq(Numbers) |-> IF k < n THEN grown(s, k) ELSE s]]
           above[k \in 0 .. n] ==
             IF k = 0 THEN <<>>
             ELSE IF NodeOnPath(depth, leaf, k - 1) \in handedOut THEN above[k - 1]
             ELSE Append(above[k - 1], NodeOnPath(depth, leaf, k - 1))
<1>1. \A k \in 0 .. depth : node[k] \in Numbers
  <2>1. ASSUME NEW k \in 0 .. depth PROVE NodeOnPath(depth, leaf, k) \in Numbers
    <3>1. leaf \in BottomRow(depth) /\ leaf \in Nat
      BY Pow2Law DEF Leaves, BottomRow
    <3>2. NodeOnPath(depth, leaf, k) = Above(depth, leaf, k)
      BY <3>1, NodeOnPathIsAbove
    <3>3. PICK p \in Nat : p = Pow2[k]
      BY Pow2Law
    <3>4. Pow2[k + 1] = 2 * p /\ p >= 1
      BY <3>3, Pow2Law
    <3>5. Above(depth, leaf, k) \in Pow2[k] - 1 .. Pow2[k + 1] - 2
      BY <3>1, AboveInRow
    <3>6. Pow2[k + 1] <= Pow2[depth + 1] /\ Pow2[depth + 1] \in Nat
      BY Pow2Law, Pow2Grows
    <3> QED BY <3>2, <3>3, <3>4, <3>5, <3>6 DEF Numbers, BucketCount
  <2> QED BY <2>1
<1> HIDE DEF node
<1>2. step \in [Nat -> [Seq(Numbers) -> Seq(Numbers)]]
  <2>1. ASSUME NEW k \in Nat, NEW s \in Seq(Numbers)
        PROVE  (IF k < n THEN grown(s, k) ELSE s) \in Seq(Numbers)
    <3>1. CASE k < n
      <4>1. node[k] \in Numbers
        BY <1>1, <3>1
      <4>2. Append(s, node[k]) \in Seq(Numbers)
        BY <4>1, AppendProperties
      <4> QED BY <3>1, <4>2
    <3> QED BY <3>1
  <2> QED BY <2>1
<1>3. PICK g \in [Nat -> Seq(Numbers)] : g[0] = <<>> /\ \A k \in Nat : g[k + 1] = step[k][g[k]]
  <2> HIDE DEF step
  <2>1. HasRecursion(Seq(Numbers), step, <<>>)
    BY <1>2, EmptySeq, Recursion
  <2> QED BY <2>1 DEF HasRecursion
<1>4. ASSUME NEW k \in 1 .. n PROVE g[k] = grown(g[k - 1], k - 1)
  <2>1. k - 1 \in Nat /\ (k - 1) + 1 = k /\ k - 1 < n
    OBVIOUS
  <2>2. g[(k - 1) + 1] = step[k - 1][g[k - 1]]
    BY <1>3, <2>1
  <2>3. step[k - 1][g[k - 1]] = grown(g[k - 1], k - 1)
    BY <1>3, <2>1
  <2> QED BY <2>1, <2>2, <2>3
<1> HIDE DEF step
<1> DEFINE h == [k \in 0 .. n |-> g[k]]
<1>5. above = [k \in 0 .. n |->
                IF k = 0 THEN <<>>
                ELSE IF NodeOnPath(depth, leaf, k - 1) \in handedOut THEN above[k - 1]
                ELSE Append(above[k - 1], NodeOnPath(depth, leaf, k - 1))]
  <2>1. ASSUME NEW k \in 0 .. n
        PROVE  h[k] = IF k = 0 THEN <<>>
                      ELSE IF NodeOnPath(depth, leaf, k - 1) \in handedOut THEN h[k - 1]
                      ELSE Append(h[k - 1], NodeOnPath(depth, leaf, k - 1))
    <3>1. CASE k = 0
      BY <1>3, <3>1
    <3>2. CASE k # 0
      <4>1. k \in 1 .. n /\ k - 1 \in 0 .. n /\ k - 1 \in Nat
        BY <3>2
      <4>2. node[k - 1] = NodeOnPath(depth, leaf, k - 1)
        BY <4>1 DEF node
      <4>3. h[k] = g[k] /\ h[k - 1] = g[k - 1]
        BY <4>1
      <4> QED BY <1>4, <3>2, <4>1, <4>2, <4>3
    <3> QED BY <3>1, <3>2
  <2>2. h = [k \in 0 .. n |-> h[k]]
    OBVIOUS
  <2> HIDE DEF h
  <2>3. h = [k \in 0 .. n |->
              IF k = 0 THEN <<>>
              ELSE IF NodeOnPath(depth, leaf, k - 1) \in handedOut THEN h[k - 1]
              ELSE Append(h[k - 1], NodeOnPath(depth, leaf, k - 1))]
    BY <2>1, <2>2
  <2> QED BY <2>3
<1>6. OnPathAndNew(leaf, handedOut) = above[n]
  BY DEF OnPathAndNew
<1> HIDE DEF above, h
<1>7. \A k \in 0 .. n : above[k] \in Seq(Numbers)
  <2> DEFINE Bad == {k \in 0 .. n : above[k] \notin Seq(Numbers)}
  <2> SUFFICES ASSUME Bad # {} PROVE FALSE
    OBVIOUS
  <2>1. PICK k \in Bad : \A m \in Bad : k <= m
    <3>1. Bad \subseteq Nat
      OBVIOUS
    <3> HIDE DEF Bad
    <3> QED BY <3>1, LeastOfNats
  <2>2. above[k] = IF k = 0 THEN <<>>
                   ELSE IF NodeOnPath(depth, leaf, k - 1) \in handedOut THEN above[k - 1]
                   ELSE Append(above[k - 1], NodeOnPath(depth, leaf, k - 1))
    BY <1>5, <2>1
  <2>3. k # 0
    BY <2>1, <2>2, EmptySeq
  <2>4. k - 1 \in 0 .. n /\ k - 1 \notin Bad /\ k - 1 \in 0 .. depth /\ k - 1 \in Nat
    BY <2>1, <2>3
  <2>5. NodeOnPath(depth, leaf, k - 1) \in Numbers
    BY <1>1, <2>4 DEF node
  <2>6. Append(above[k - 1], NodeOnPath(depth, leaf, k - 1)) \in Seq(Numbers)
    BY <2>4, <2>5, AppendProperties
  <2> QED BY <2>1, <2>2, <2>3, <2>4, <2>6
<1>8. n \in 0 .. n
  OBVIOUS
<1> QED BY <1>6, <1>7, <1>8

-----------------------------------------------------------------------------
(***************************************************************************)
(* What is decrypted and cut apart is what was put together and encrypted. *)
(***************************************************************************)

\* A text is filled up to the length the ciphertext has.
LEMMA PaddedFills ==
  ASSUME size \in Nat \ {0}, NEW U, NEW text \in Seq(U), Len(text) = size * Z
  PROVE  LET gap == CipherBlock - ((size * Z) % CipherBlock)
         IN  /\ gap \in Nat \ {0} /\ size * Z \in Nat /\ size * Z + gap = Clen
             /\ \A x \in 1 .. size * Z : Padded(text)[x] = text[x]
             /\ \A x \in size * Z + 1 .. Clen : Padded(text)[x] = <<"pad", gap>>
             /\ DOMAIN Padded(text) = 1 .. Clen
<1>1. PICK len \in Nat : len = size * Z
  BY BucketStoreAssumption
<1>2. CipherBlock \in Nat \ {0}
  BY BucketStoreAssumption
<1>3. PICK q \in Nat, r \in 0 .. CipherBlock - 1 :
        len \div CipherBlock = q /\ len % CipherBlock = r /\ len = q * CipherBlock + r
  <2>1. len \div CipherBlock \in Nat /\ len % CipherBlock \in 0 .. CipherBlock - 1
    BY <1>2
  <2>2. len = CipherBlock * (len \div CipherBlock) + (len % CipherBlock)
    BY <1>2
  <2>3. PICK q \in Nat : q = len \div CipherBlock
    BY <2>1
  <2>4. CipherBlock * q = q * CipherBlock
    BY <1>2
  <2> QED BY <2>1, <2>2, <2>3, <2>4
<1>4. PICK gap \in Nat \ {0} : gap = CipherBlock - r
  BY <1>2
<1>5. len + gap = Clen
  <2>1. Clen = (q + 1) * CipherBlock
    BY <1>1, <1>3 DEF Clen, CiphertextLength
  <2>2. (q + 1) * CipherBlock = q * CipherBlock + CipherBlock /\ q * CipherBlock \in Nat
    BY <1>2
  <2> QED BY <1>2, <1>3, <1>4, <2>1, <2>2
<1> DEFINE pads == [x \in 1 .. gap |-> <<"pad", gap>>]
           V == U \cup {<<"pad", gap>>}
<1>6. pads \in Seq(V) /\ Len(pads) = gap /\ text \in Seq(V)
  <2>1. pads \in [1 .. gap -> V]
    OBVIOUS
  <2> QED BY <2>1
<1>7. Padded(text) = text \o pads
  BY <1>1, <1>3, <1>4 DEF Padded
<1>8. \A x \in 1 .. gap : pads[x] = <<"pad", gap>>
  OBVIOUS
<1> HIDE DEF pads, V
<1>9. PICK p \in Seq(V) : p = Padded(text) /\ Len(p) = len + gap
  BY <1>1, <1>6, <1>7, ConcatProperties
<1>10. \A x \in 1 .. len : p[x] = text[x]
  BY <1>1, <1>6, <1>7, <1>9, ConcatProperties
<1>11. ASSUME NEW x \in len + 1 .. len + gap PROVE p[x] = <<"pad", gap>>
  <2>1. x \in 1 .. Len(text) + Len(pads) /\ ~(x <= Len(text)) /\ x - Len(text) \in 1 .. gap
    BY <1>1, <1>6
  <2>2. p[x] = pads[x - Len(text)]
    BY <1>6, <1>7, <1>9, <2>1, ConcatProperties
  <2> QED BY <1>8, <2>1, <2>2
<1>12. DOMAIN p = 1 .. len + gap
  BY <1>9
<1> QED BY <1>1, <1>3, <1>4, <1>5, <1>9, <1>10, <1>11, <1>12

LEMMA EncryptIs ==
  ASSUME size \in Nat \ {0}, NEW U, NEW text \in Seq(U), Len(text) = size * Z, NEW iv
  PROVE  LET cipher == Encrypt(text, iv)
         IN  /\ \E T : cipher \in Seq(T)
             /\ Clen \in Nat \ {0} /\ Len(cipher) = Clen + CipherBlock
             /\ \A x \in 1 .. Clen : cipher[x] = <<iv, x, Padded(text)[x]>>
             /\ \A x \in 1 .. CipherBlock : cipher[Clen + x] = <<iv, -x>>
<1>1. CipherBlock \in Nat \ {0}
  BY BucketStoreAssumption
<1>2. Clen \in Nat \ {0} /\ DOMAIN Padded(text) = 1 .. Clen
  BY PaddedFills
<1>3. PICK n \in Nat \ {0} : n = Clen
  BY <1>2
<1> DEFINE body == [x \in 1 .. n |-> <<iv, x, IF x \in DOMAIN Padded(text) THEN Padded(text)[x] ELSE Zero>>]
           tail == [x \in 1 .. CipherBlock |-> <<iv, -x>>]
           T == {body[x] : x \in 1 .. n} \cup {tail[x] : x \in 1 .. CipherBlock}
<1>4. Encrypt(text, iv) = body \o tail
  BY <1>3 DEF Encrypt
<1>5. \A x \in 1 .. n : body[x] = <<iv, x, Padded(text)[x]>>
  BY <1>2, <1>3
<1>6. \A x \in 1 .. CipherBlock : tail[x] = <<iv, -x>>
  OBVIOUS
<1>7. body \in [1 .. n -> T]
  OBVIOUS
<1>8. tail \in [1 .. CipherBlock -> T]
  OBVIOUS
<1> HIDE DEF body, tail, T
<1>9. body \in Seq(T) /\ Len(body) = n /\ tail \in Seq(T) /\ Len(tail) = CipherBlock
  BY <1>1, <1>7, <1>8
<1>10. PICK c \in Seq(T) : c = Encrypt(text, iv) /\ c = body \o tail /\ Len(c) = n + CipherBlock
  BY <1>4, <1>9, ConcatProperties
<1>11. ASSUME NEW x \in 1 .. n PROVE c[x] = <<iv, x, Padded(text)[x]>>
  <2>1. x \in 1 .. Len(body) + Len(tail) /\ x <= Len(body)
    BY <1>1, <1>9
  <2>2. c[x] = body[x]
    BY <1>9, <1>10, <2>1, ConcatProperties
  <2> QED BY <1>5, <2>2
<1>12. ASSUME NEW x \in 1 .. CipherBlock PROVE c[n + x] = <<iv, -x>>
  <2>1. n + x \in 1 .. Len(body) + Len(tail) /\ ~(n + x <= Len(body)) /\ (n + x) - Len(body) = x
    BY <1>1, <1>9
  <2>2. c[n + x] = tail[(n + x) - Len(body)]
    BY <1>9, <1>10, <2>1, ConcatProperties
  <2> QED BY <1>6, <2>1, <2>2
<1> QED BY <1>3, <1>10, <1>11, <1>12

LEMMA DecryptIs ==
  ASSUME size \in Nat \ {0}, NEW U, NEW text \in Seq(U), Len(text) = size * Z, NEW iv
  PROVE  Decrypt(Encrypt(text, iv)) = text
<1>1. CipherBlock \in Nat \ {0}
  BY BucketStoreAssumption
<1>2. PICK n \in Nat \ {0} : n = Clen
  BY EncryptIs
<1>3. PICK c : c = Encrypt(text, iv)
  OBVIOUS
<1>4. /\ Len(c) = n + CipherBlock
      /\ \A x \in 1 .. n : c[x] = <<iv, x, Padded(text)[x]>>
      /\ \A x \in 1 .. CipherBlock : c[n + x] = <<iv, -x>>
  BY <1>2, <1>3, EncryptIs
<1>5. PICK len \in Nat, gap \in Nat \ {0} :
        /\ len = size * Z /\ len + gap = n
        /\ \A x \in 1 .. len : Padded(text)[x] = text[x]
        /\ Padded(text)[n] = <<"pad", gap>>
  <2>1. PICK gap : /\ gap \in Nat \ {0} /\ size * Z \in Nat /\ size * Z + gap = Clen
                   /\ \A x \in 1 .. size * Z : Padded(text)[x] = text[x]
                   /\ \A x \in size * Z + 1 .. Clen : Padded(text)[x] = <<"pad", gap>>
    BY PaddedFills
  <2>2. PICK len \in Nat : len = size * Z
    BY <2>1
  <2>3. n \in len + 1 .. n
    BY <1>2, <2>1, <2>2
  <2> QED BY <1>2, <2>1, <2>2, <2>3
<1>6. ASSUME NEW x \in 1 .. CipherBlock PROVE c[Len(c) - CipherBlock + x] = <<iv, -x>>
  <2>1. Len(c) - CipherBlock + x = n + x
    BY <1>1, <1>4
  <2> QED BY <1>4, <2>1
<1>7. c[Len(c) - CipherBlock + 1][1] = iv
  <2>1. 1 \in 1 .. CipherBlock
    BY <1>1
  <2>2. c[Len(c) - CipherBlock + 1] = <<iv, -1>>
    BY <1>6, <2>1
  <2> QED BY <2>2
<1>8. Decrypt(c) = Deciphered(c, iv)
  BY <1>6, <1>7 DEF Decrypt
<1>9. \A x \in 1 .. n : Len(c[x]) = 3 /\ c[x][1] = iv /\ c[x][2] = x /\ c[x][3] = Padded(text)[x]
  <2>1. ASSUME NEW x \in 1 .. n
        PROVE  Len(c[x]) = 3 /\ c[x][1] = iv /\ c[x][2] = x /\ c[x][3] = Padded(text)[x]
    <3>1. PICK byte : byte = Padded(text)[x]
      OBVIOUS
    <3>2. c[x] = <<iv, x, byte>>
      BY <1>4, <3>1
    <3> QED BY <3>1, <3>2
  <2> QED BY <2>1
<1> DEFINE plain == [x \in 1 .. n |-> c[x][3]]
<1>10. plain[n] # Zero /\ plain[n][1] = "pad" /\ plain[n][2] = gap
  <2>1. n \in 1 .. n
    OBVIOUS
  <2>2. plain[n] = <<"pad", gap>>
    BY <1>5, <1>9, <2>1
  <2>3. <<"pad", gap>> # <<>>
    OBVIOUS
  <2> QED BY <2>2, <2>3, SMTT(30) DEF Zero
<1>11. Deciphered(c, iv) = SubSeq(plain, 1, n - plain[n][2])
  BY <1>2, <1>9, <1>10 DEF Deciphered
<1>12. \A x \in 1 .. len : plain[x] = text[x] /\ text[x] \in U
  <2>1. ASSUME NEW x \in 1 .. len PROVE x \in 1 .. n /\ x \in 1 .. Len(text)
    BY <1>5
  <2> QED BY <1>5, <1>9, <2>1
<1>13. n - plain[n][2] = len
  BY <1>5, <1>10
<1> HIDE DEF plain
<1>14. SubSeq(plain, 1, len) = text
  <2>1. \A x \in 1 .. len : plain[x] \in U
    BY <1>12
  <2>2. PICK s \in Seq(U) : s = SubSeq(plain, 1, len) /\ Len(s) = len
    <3>1. Len(SubSeq(plain, 1, len)) = IF 1 <= len THEN len - 1 + 1 ELSE 0
      BY <2>1, SubSeqProperties
    <3>2. SubSeq(plain, 1, len) \in Seq(U)
      BY <2>1, SubSeqProperties
    <3>3. Len(SubSeq(plain, 1, len)) = len
      BY <3>1
    <3> QED BY <3>2, <3>3
  <2>3. ASSUME NEW x \in 1 .. len PROVE s[x] = text[x]
    <3>1. x \in 1 .. len - 1 + 1 /\ 1 + x - 1 = x
      OBVIOUS
    <3>2. s[x] = plain[1 + x - 1]
      BY <2>1, <2>2, <3>1, SubSeqProperties
    <3> QED BY <1>12, <3>1, <3>2
  <2> QED BY <1>5, <2>2, <2>3, SeqEqual
<1> QED BY <1>3, <1>8, <1>11, <1>13, <1>14

LEMMA Quotient ==
  ASSUME NEW q \in Nat, NEW s \in Nat \ {0}, NEW r \in 0 .. s - 1
  PROVE  (q * s + r) \div s = q /\ (q * s + r) % s = r
<1>1. PICK m \in Nat : m = q * s + r
  OBVIOUS
<1>2. PICK d \in Nat, e \in 0 .. s - 1 : d = m \div s /\ e = m % s /\ m = d * s + e
  <2>1. m \div s \in Nat /\ m % s \in 0 .. s - 1
    OBVIOUS
  <2>2. m = s * (m \div s) + (m % s)
    OBVIOUS
  <2>3. PICK d \in Nat : d = m \div s
    BY <2>1
  <2>4. s * d = d * s
    OBVIOUS
  <2> QED BY <2>1, <2>2, <2>3, <2>4
<1>3. d = q
  <2>1. q * s + r = d * s + e
    BY <1>1, <1>2
  <2>2. CASE q < d
    <3>1. (q + 1) * s <= d * s
      BY <2>2
    <3>2. (q + 1) * s = q * s + s
      OBVIOUS
    <3> QED BY <2>1, <3>1, <3>2
  <2>3. CASE d < q
    <3>1. (d + 1) * s <= q * s
      BY <2>3
    <3>2. (d + 1) * s = d * s + s
      OBVIOUS
    <3> QED BY <2>1, <3>1, <3>2
  <2> QED BY <2>2, <2>3
<1> QED BY <1>1, <1>2, <1>3

LEMMA SerialisedIs ==
  ASSUME size \in Nat \ {0}, NEW nodes
  PROVE  /\ \E U : Serialised(nodes) \in Seq(U)
         /\ Len(Serialised(nodes)) = size * Z
         /\ \A z \in 1 .. Z :
              SubSeq(Serialised(nodes), (z - 1) * size + 1, z * size)
                = [x \in 1 .. size |-> IF z \in DOMAIN nodes THEN <<nodes[z], x>> ELSE Zero]
<1>1. PICK len \in Nat : len = size * Z
  BY BucketStoreAssumption
<1> DEFINE byte(x) == LET slot == (x - 1) \div size + 1
                      IN  IF slot \in DOMAIN nodes THEN <<nodes[slot], ((x - 1) % size) + 1>> ELSE Zero
           U == {byte(x) : x \in 1 .. len}
<1>2. PICK text \in [1 .. len -> U] : text = Serialised(nodes) /\ \A x \in 1 .. len : text[x] = byte(x)
  <2>1. Serialised(nodes) = [x \in 1 .. len |-> byte(x)]
    BY <1>1 DEF Serialised
  <2> HIDE DEF byte
  <2>2. [x \in 1 .. len |-> byte(x)] \in [1 .. len -> U]
    OBVIOUS
  <2> QED BY <2>1, <2>2
<1>3. ASSUME NEW z \in 1 .. Z, NEW x \in 1 .. size
      PROVE  /\ (z - 1) * size + x \in 1 .. len
             /\ byte((z - 1) * size + x) = IF z \in DOMAIN nodes THEN <<nodes[z], x>> ELSE Zero
  <2>1. z - 1 \in Nat /\ x - 1 \in 0 .. size - 1 /\ Z \in Nat /\ z <= Z
    BY BucketStoreAssumption
  <2>2. PICK m \in Nat : m = (z - 1) * size
    BY <2>1
  <2>3. m + size <= len
    <3>1. z * size <= Z * size
      BY <2>1
    <3>2. z * size = (z - 1) * size + size
      BY <2>1
    <3> QED BY <1>1, <2>1, <2>2, <3>1, <3>2
  <2>4. m + x \in 1 .. len
    BY <2>3
  <2>5. (m + x) - 1 = m + (x - 1)
    BY <2>1
  <2>6. (m + (x - 1)) \div size = z - 1 /\ (m + (x - 1)) % size = x - 1
    BY <2>1, <2>2, Quotient
  <2>7. ((m + x) - 1) \div size + 1 = z /\ (((m + x) - 1) % size) + 1 = x
    BY <2>5, <2>6
  <2> QED BY <2>2, <2>4, <2>7
<1> HIDE DEF byte, U
<1>4. text \in Seq(U) /\ Len(text) = len
  BY <1>2
<1>5. ASSUME NEW z \in 1 .. Z
      PROVE  SubSeq(text, (z - 1) * size + 1, z * size)
               = [x \in 1 .. size |-> IF z \in DOMAIN nodes THEN <<nodes[z], x>> ELSE Zero]
  <2>1. PICK m \in Nat, n \in Nat : m = (z - 1) * size /\ n = z * size /\ n = m + size
    <3>1. z \in Nat /\ z - 1 \in Nat
      OBVIOUS
    <3>2. z * size = (z - 1) * size + size /\ (z - 1) * size \in Nat
      BY <3>1
    <3> QED BY <3>2
  <2>2. ASSUME NEW x \in 1 .. size PROVE m + x \in 1 .. len /\ text[m + x] = byte(m + x)
    BY <1>2, <1>3, <2>1
  <2>3. \A y \in m + 1 .. n : text[y] \in U
    <3>1. ASSUME NEW y \in m + 1 .. n PROVE y \in 1 .. len
      <4>1. y - m \in 1 .. size /\ m + (y - m) = y
        BY <2>1
      <4> QED BY <2>2, <4>1
    <3> QED BY <1>2, <3>1
  <2>4. PICK s \in Seq(U) : s = SubSeq(text, m + 1, n)
    <3>1. SubSeq(text, m + 1, n) \in Seq(U)
      BY <2>3, SubSeqProperties
    <3> QED BY <3>1
  <2>5. Len(s) = size
    <3>1. Len(s) = IF m + 1 <= n THEN n - (m + 1) + 1 ELSE 0
      BY <2>3, <2>4, SubSeqProperties
    <3> QED BY <2>1, <3>1
  <2>6. ASSUME NEW x \in 1 .. size PROVE s[x] = byte(m + x)
    <3>1. x \in 1 .. n - (m + 1) + 1 /\ m + 1 + x - 1 = m + x
      BY <2>1
    <3>2. s[x] = text[m + 1 + x - 1]
      BY <2>3, <2>4, <3>1, SubSeqProperties, SMTT(30)
    <3> QED BY <2>2, <3>1, <3>2
  <2>7. s = [x \in 1 .. size |-> s[x]]
    BY <2>5
  <2> QED BY <1>3, <2>1, <2>4, <2>6, <2>7
<1> QED BY <1>1, <1>2, <1>4, <1>5

\* Flattening the slots of a bucket, of which the first ones have a node each.
LEMMA SlotsOf ==
  ASSUME NEW nodes \in Seq(Names), NEW n \in Nat, Len(nodes) <= n
  PROVE  FlattenSeq([z \in 1 .. n |-> IF z \in DOMAIN nodes THEN <<nodes[z]>> ELSE <<>>]) = nodes
<1> DEFINE F == [z \in 1 .. n |-> IF z \in DOMAIN nodes THEN <<nodes[z]>> ELSE <<>>]
           flat(k) == FlattenSeq(Prefix(F, k))
           upto(k) == IF k <= Len(nodes) THEN k ELSE Len(nodes)
           Done(k) == flat(k) = SubSeq(nodes, 1, upto(k))
<1>1. DOMAIN nodes = 1 .. Len(nodes) /\ Len(nodes) \in Nat /\ \A z \in 1 .. Len(nodes) : nodes[z] \in Names
  OBVIOUS
<1>2. ASSUME NEW z \in 1 .. n
      PROVE  /\ z \in 1 .. Len(nodes) => F[z] = <<nodes[z]>>
             /\ z \notin 1 .. Len(nodes) => F[z] = <<>>
             /\ F[z] \in Seq(Names)
  <2>1. CASE z \in 1 .. Len(nodes)
    <3>1. F[z] = <<nodes[z]>> /\ nodes[z] \in Names
      BY <1>1, <2>1
    <3>2. <<nodes[z]>> \in Seq(Names)
      BY <3>1
    <3> QED BY <2>1, <3>1, <3>2
  <2>2. CASE z \notin 1 .. Len(nodes)
    <3>1. F[z] = <<>>
      BY <1>1, <2>2
    <3> QED BY <2>2, <3>1
  <2> QED BY <2>1, <2>2
<1>3. Prefix(F, n) = F
  BY DEF Prefix
<1> HIDE DEF F
<1>4. /\ flat(0) = <<>>
      /\ \A k \in 1 .. n : flat(k) = flat(k - 1) \o F[k]
  <2>1. Pieces(F, n, Names)
    BY <1>2 DEF Pieces
  <2> QED BY <2>1, FlattenPrefix
<1> HIDE DEF flat
<1>5. Done(0)
  <2>1. upto(0) = 0
    BY <1>1
  <2>2. SubSeq(nodes, 1, 0) = <<>>
    BY SubSeqEmpty
  <2> QED BY <1>4, <2>1, <2>2
<1>6. ASSUME NEW k \in 1 .. n, Done(k - 1) PROVE Done(k)
  <2>1. flat(k) = SubSeq(nodes, 1, upto(k - 1)) \o F[k]
    BY <1>4, <1>6
  <2>2. CASE k <= Len(nodes)
    <3>1. k \in 1 .. Len(nodes) /\ upto(k - 1) = k - 1 /\ upto(k) = k /\ 1 \in 1 .. Len(nodes) /\ k \in 1 .. Len(nodes)
      BY <1>1, <2>2
    <3>2. F[k] = <<nodes[k]>>
      BY <1>2, <3>1
    <3>3. SubSeq(nodes, 1, k) = SubSeq(nodes, 1, k - 1) \o <<nodes[k]>>
      BY <3>1, SubSeqRecursiveSecond
    <3> QED BY <2>1, <3>1, <3>2, <3>3
  <2>3. CASE ~(k <= Len(nodes))
    <3>1. k \notin 1 .. Len(nodes) /\ upto(k - 1) = Len(nodes) /\ upto(k) = Len(nodes)
      BY <1>1, <2>3
    <3>2. F[k] = <<>>
      BY <1>2, <3>1
    <3>3. SubSeq(nodes, 1, Len(nodes)) = nodes
      BY SubSeqFull
    <3>4. nodes \o <<>> = nodes
      BY ConcatEmptySeq
    <3> QED BY <2>1, <3>1, <3>2, <3>3, <3>4
  <2> QED BY <2>2, <2>3
<1> HIDE DEF Done
<1>7. \A k \in 0 .. n : Done(k)
  <2> DEFINE Bad == {k \in 0 .. n : ~Done(k)}
  <2> SUFFICES ASSUME Bad # {} PROVE FALSE
    OBVIOUS
  <2>1. PICK k \in Bad : \A m \in Bad : k <= m
    <3>1. Bad \subseteq Nat
      OBVIOUS
    <3> HIDE DEF Bad
    <3> QED BY <3>1, LeastOfNats
  <2>2. k # 0
    BY <1>5, <2>1
  <2>3. k \in 1 .. n /\ k - 1 \in 0 .. n /\ ~(k <= k - 1)
    BY <2>1, <2>2
  <2> QED BY <1>6, <2>1, <2>3
<1>8. upto(n) = Len(nodes) /\ n \in 0 .. n
  <2>1. PICK len \in Nat : len = Len(nodes) /\ len <= n
    BY <1>1
  <2> QED BY <2>1
<1>9. flat(n) = SubSeq(nodes, 1, Len(nodes))
  BY <1>7, <1>8 DEF Done
<1>10. flat(n) = nodes
  BY <1>9, SubSeqFull
<1> QED BY <1>3, <1>10 DEF flat, F

LEMMA DeserialisedIs ==
  ASSUME size \in Nat \ {0}, NEW nodes \in Seq(Names), Len(nodes) <= Z
  PROVE  Deserialised(Serialised(nodes)) = nodes
<1>1. PICK text : text = Serialised(nodes)
  OBVIOUS
<1> DEFINE Slot(z)  == SubSeq(text, (z - 1) * size + 1, z * size)
           Whole(s) == \E m \in Names : s = [x \in 1 .. size |-> <<m, x>>]
           Node(s)  == IF s[1] = Zero THEN <<>>
                       ELSE IF Whole(s) THEN <<s[1][1]>> ELSE <<"garbage">>
<1>2. Len(text) = size * Z /\ size * Z \in Nat
  BY <1>1, SerialisedIs, BucketStoreAssumption
<1>3. ASSUME NEW z \in 1 .. Z
      PROVE  Node(Slot(z)) = IF z \in DOMAIN nodes THEN <<nodes[z]>> ELSE <<>>
  <2>1. PICK s : s = Slot(z)
    OBVIOUS
  <2>2. s = [x \in 1 .. size |-> IF z \in DOMAIN nodes THEN <<nodes[z], x>> ELSE Zero]
    BY <1>1, <2>1, SerialisedIs
  <2>3. 1 \in 1 .. size
    OBVIOUS
  <2>4. CASE z \in DOMAIN nodes
    <3>1. PICK m \in Names : m = nodes[z]
      BY <2>4
    <3>2. s = [x \in 1 .. size |-> <<m, x>>]
      BY <2>2, <2>4, <3>1
    <3>3. s[1] = <<m, 1>>
      BY <2>3, <3>2
    <3>4. <<m, 1>> # <<>>
      OBVIOUS
    <3>5. Whole(s)
      BY <3>2
    <3>6. Node(s) = <<m>>
      BY <3>3, <3>4, <3>5 DEF Zero
    <3> QED BY <2>1, <2>4, <3>1, <3>6
  <2>5. CASE z \notin DOMAIN nodes
    <3>1. s[1] = Zero
      BY <2>2, <2>3, <2>5
    <3> QED BY <2>1, <2>5, <3>1
  <2> QED BY <2>4, <2>5
<1>4. Deserialised(text) = FlattenSeq([z \in 1 .. Z |-> Node(Slot(z))])
  <2>1. ~(Len(text) < size * Z)
    BY <1>2
  <2> QED BY <2>1 DEF Deserialised
<1>5. [z \in 1 .. Z |-> Node(Slot(z))] = [z \in 1 .. Z |-> IF z \in DOMAIN nodes THEN <<nodes[z]>> ELSE <<>>]
  <2> HIDE DEF Node, Slot
  <2> QED BY <1>3
<1>6. Z \in Nat
  BY BucketStoreAssumption
<1> QED BY <1>1, <1>4, <1>5, <1>6, SlotsOf

LEMMA RoundTrip ==
  ASSUME size \in NodeSizes, NEW nodes \in Buckets, NEW iv \in Ivs
  PROVE  /\ \E T : Code[nodes][iv] \in Seq(T)
         /\ Chunk \in Nat \ {0} /\ Len(Code[nodes][iv]) = Chunk
         /\ Deserialised(Decrypt(Code[nodes][iv])) = nodes
<1>1. size \in Nat \ {0} /\ CipherBlock \in Nat \ {0}
  BY BucketStoreAssumption
<1>2. nodes \in Seq(Names) /\ Len(nodes) <= Z
  BY NodesAreBuckets
<1>3. Code[nodes][iv] = Encrypt(Serialised(nodes), iv)
  BY DEF Code
<1>4. PICK U : Serialised(nodes) \in Seq(U)
  BY <1>1, SerialisedIs
<1>5. Len(Serialised(nodes)) = size * Z
  BY <1>1, SerialisedIs
<1>6. PICK text \in Seq(U) : text = Serialised(nodes) /\ Len(text) = size * Z
  BY <1>4, <1>5
<1>7. /\ \E T : Encrypt(text, iv) \in Seq(T)
      /\ Clen \in Nat \ {0} /\ Len(Encrypt(text, iv)) = Clen + CipherBlock
  BY <1>1, <1>6, EncryptIs
<1>8. Decrypt(Encrypt(text, iv)) = text
  BY <1>1, <1>6, DecryptIs
<1>9. Deserialised(text) = nodes
  BY <1>1, <1>2, <1>6, DeserialisedIs
<1>10. Chunk \in Nat \ {0} /\ Chunk = Clen + CipherBlock
  BY <1>1, <1>7 DEF Chunk
<1> QED BY <1>3, <1>6, <1>7, <1>8, <1>9, <1>10

LEMMA SameCode == ASSUME size' = size PROVE Code' = Code
BY DEF Code, Encrypt, Serialised, Padded, Clen, CiphertextLength, Zero, Buckets

-----------------------------------------------------------------------------
(***************************************************************************)
(* The steps.                                                              *)
(***************************************************************************)

LEMMA InitBytesInv == Init => BytesInv
<1> SUFFICES ASSUME Init PROVE BytesInv
  OBVIOUS
<1>1. depth \in Depths /\ BucketCount(depth) \in Nat \ {0}
  BY LastBucket DEF Init
<1>2. Preparing
  <2>1. <<>> \in Seq(Nat) /\ 0 .. 0 - 1 = {}
    OBVIOUS
  <2> QED BY <2>1, ToSetIs DEF Init, Preparing, Blank
<1> QED BY <1>1, <1>2 DEF Init, BytesInv

LEMMA PrepareBucketKeeps == BytesInv /\ PrepareBucket => BytesInv'
<1> SUFFICES ASSUME BytesInv, PrepareBucket PROVE BytesInv'
  OBVIOUS
<1>1. /\ phase = "prepare" /\ size' = size /\ depth' = depth /\ phase' = phase
      /\ next < BucketCount(depth) /\ next' = next + 1
  BY DEF PrepareBucket, level
<1>2. Preparing /\ depth \in Depths /\ next \in Nat /\ BucketCount(depth) \in Nat
  BY <1>1, LastBucket DEF BytesInv
<1>3. next' \in 0 .. BucketCount(depth) /\ next' - 1 = next /\ next' # 0
  BY <1>1, <1>2
<1>4. 0 .. next' - 1 = (0 .. next - 1) \cup {next}
  <2>1. PICK n \in Nat : n = next
    BY <1>2
  <2>2. 0 .. n = (0 .. n - 1) \cup {n}
    OBVIOUS
  <2> QED BY <1>3, <2>1, <2>2
<1>5. Code' = Code
  BY <1>1, SameCode
<1>6. Append(batch, next) \in Seq(Nat) /\ Append(batch, next) # <<>>
      /\ ToSet(Append(batch, next)) = ToSet(batch) \cup {next}
  BY <1>2, ToSetIs, AppendProperties DEF Preparing
<1>7. Preparing'
  <2>1. CASE next % Batch = 0
    <3>1. PICK iv \in Ivs : coll' = BulkInsert(coll, Append(batch, next), iv)
      <4>1. (CHOOSE iv \in Ivs : TRUE) \in Ivs
        BY BucketStoreAssumption
      <4> QED BY <2>1, <4>1 DEF PrepareBucket
    <3>2. batch' = <<>>
      BY <2>1 DEF PrepareBucket
    <3>3. DOMAIN coll' = DOMAIN coll \cup ToSet(Append(batch, next)) /\ Blank(coll')
      BY <1>2, <3>1, BulkInsertIs DEF Preparing
    <3>4. DOMAIN coll' \cup ToSet(batch') = 0 .. next' - 1
      BY <1>2, <1>4, <1>6, <3>2, <3>3, ToSetIs DEF Preparing
    <3>5. batch' \in Seq(Nat)
      BY <3>2
    <3> QED BY <1>3, <1>5, <2>1, <3>2, <3>3, <3>4, <3>5 DEF Preparing, Blank
  <2>2. CASE next % Batch # 0
    <3>1. coll' = coll /\ batch' = Append(batch, next)
      BY <2>2 DEF PrepareBucket
    <3>2. DOMAIN coll' \cup ToSet(batch') = 0 .. next' - 1
      BY <1>2, <1>4, <1>6, <3>1 DEF Preparing
    <3> QED BY <1>2, <1>3, <1>5, <1>6, <2>2, <3>1, <3>2 DEF Preparing, Blank
  <2> QED BY <2>1, <2>2
<1> QED BY <1>1, <1>3, <1>7 DEF BytesInv

LEMMA PrepareRestKeeps == BytesInv /\ PrepareRest => BytesInv'
<1> SUFFICES ASSUME BytesInv, PrepareRest PROVE BytesInv'
  OBVIOUS
<1>1. /\ phase = "prepare" /\ size' = size /\ depth' = depth /\ next' = next
      /\ next = BucketCount(depth) /\ contents' = [b \in Numbers |-> <<>>]
      /\ coll' = LastBatch(coll) /\ phase' = IF batch = <<>> THEN "thrown" ELSE "ready"
  BY DEF PrepareRest, level
<1>2. Preparing /\ size \in NodeSizes /\ depth \in Depths
  BY <1>1 DEF BytesInv
<1>3. next \in Nat \ {0} /\ (next - 1) % Batch # 0
  BY <1>1, <1>2, LastBucket
<1>4. phase' = "ready"
  BY <1>1, <1>2, <1>3 DEF Preparing
<1>5. PICK iv \in Ivs : coll' = BulkInsert(coll, batch, iv)
  <2>1. (CHOOSE iv \in Ivs : TRUE) \in Ivs
    BY BucketStoreAssumption
  <2> QED BY <1>1, <2>1 DEF LastBatch
<1>6. DOMAIN coll' = DOMAIN coll \cup ToSet(batch) /\ Blank(coll')
  BY <1>2, <1>5, BulkInsertIs DEF Preparing
<1>7. DOMAIN coll' = Numbers
  BY <1>1, <1>2, <1>6 DEF Preparing, Numbers
<1>8. Numbers' = Numbers /\ Code' = Code
  BY <1>1, SameCode DEF Numbers
<1>9. Prepared'
  BY <1>1, <1>6, <1>7, <1>8, NodesAreBuckets DEF Prepared, Blank
<1> QED BY <1>1, <1>2, <1>4, <1>9 DEF BytesInv

LEMMA WriteBucketKeeps ==
  ASSUME BytesInv, NEW b \in Numbers, NEW nodes \in Buckets, NEW iv \in Ivs, WriteBucket(b, nodes, iv)
  PROVE  BytesInv'
<1>1. /\ phase = "ready" /\ size' = size /\ depth' = depth /\ next' = next /\ phase' = phase
      /\ coll' = [coll EXCEPT ![b] = Encrypt(Serialised(nodes), iv)]
      /\ contents' = [contents EXCEPT ![b] = nodes]
  BY DEF WriteBucket, level
<1>2. Prepared
  BY <1>1 DEF BytesInv
<1>3. Numbers' = Numbers /\ Code' = Code
  BY <1>1, SameCode DEF Numbers
<1>4. Code[nodes][iv] = Encrypt(Serialised(nodes), iv)
  BY DEF Code
<1>5. contents' \in [Numbers -> Buckets] /\ DOMAIN coll' = Numbers
  BY <1>1, <1>2 DEF Prepared
<1>6. ASSUME NEW c \in Numbers PROVE \E v \in Ivs : coll'[c] = Code[contents'[c]][v]
  <2>1. CASE c = b
    BY <1>1, <1>2, <1>4, <2>1 DEF Prepared
  <2>2. CASE c # b
    BY <1>1, <1>2, <2>2 DEF Prepared
  <2> QED BY <2>1, <2>2
<1>7. Prepared'
  BY <1>3, <1>5, <1>6 DEF Prepared
<1> QED BY <1>1, <1>7 DEF BytesInv

LEMMA FetchPathKeeps ==
  ASSUME BytesInv, NEW leaf \in Leaves, NEW handedOut, FetchPath(leaf, handedOut)
  PROVE  BytesInv'
<1>1. /\ phase = "ready" /\ size' = size /\ depth' = depth /\ next' = next /\ phase' = "receive"
      /\ coll' = coll /\ contents' = contents /\ asked' = OnPathAndNew(leaf, handedOut)
      /\ reply' = FlattenSeq([x \in DOMAIN asked' |-> coll[asked'[x]]])
      /\ i' = 0 /\ received' = <<>>
  BY DEF FetchPath, level
<1>2. Prepared /\ depth \in Depths /\ depth \in Nat
  BY <1>1, BucketStoreAssumption DEF BytesInv
<1>3. Numbers' = Numbers /\ Code' = Code
  BY <1>1, SameCode DEF Numbers
<1>4. Prepared'
  BY <1>1, <1>2, <1>3 DEF Prepared
<1>5. Receiving'
  <2>1. asked' \in Seq(Numbers)
    BY <1>1, <1>2, OnPathAndNewIs
  <2>2. Len(asked') \in Nat
    BY <2>1
  <2>3. <<>> = FlattenSeq([x \in 1 .. 0 |-> contents'[asked'[x]]])
    <3>1. [x \in 1 .. 0 |-> contents'[asked'[x]]] = <<>>
      OBVIOUS
    <3>2. Len(<<>>) = 0
      OBVIOUS
    <3>3. FlattenSeq(<<>>) = <<>>
      BY <3>2 DEF FlattenSeq
    <3> QED BY <3>1, <3>3
  <2> QED BY <1>1, <1>3, <2>1, <2>2, <2>3 DEF Receiving
<1> QED BY <1>1, <1>4, <1>5 DEF BytesInv

\* What the client finds when it cuts a reply by length.
LEMMA RepliesAreCut ==
  ASSUME BytesInv, phase = "receive"
  PROVE  /\ Chunk \in Nat \ {0} /\ Len(reply) = Len(asked) * Chunk
         /\ \A k \in 0 .. Len(asked) - 1 :
              LET chunk == SubSeq(reply, k * Chunk + 1, (k + 1) * Chunk)
              IN  /\ Deserialised(Decrypt(chunk)) = contents[asked[k + 1]]
                  /\ contents[asked[k + 1]] \in Seq(Names)
<1>1. size \in NodeSizes /\ Prepared /\ Receiving
  BY DEF BytesInv
<1>2. PICK n \in Nat : n = Len(asked) /\ DOMAIN asked = 1 .. n /\ \A x \in 1 .. n : asked[x] \in Numbers
  BY <1>1 DEF Receiving
<1>3. \E nodes \in Buckets, iv \in Ivs : TRUE
  BY NodesAreBuckets, BucketStoreAssumption
<1>4. PICK c \in Nat \ {0} : c = Chunk
  BY <1>1, <1>3, RoundTrip
<1> DEFINE F == [x \in 1 .. n |-> coll[asked[x]]]
           T == {F[k][x] : k \in 1 .. n, x \in 1 .. c}
<1>5. ASSUME NEW x \in 1 .. n
      PROVE  /\ \E U : F[x] \in Seq(U)
             /\ Len(F[x]) = c
             /\ Deserialised(Decrypt(F[x])) = contents[asked[x]]
             /\ contents[asked[x]] \in Buckets
  <2>1. PICK b \in Numbers : b = asked[x]
    BY <1>2
  <2>2. PICK nodes \in Buckets, iv \in Ivs : contents[b] = nodes /\ coll[b] = Code[nodes][iv]
    BY <1>1, <2>1 DEF Prepared
  <2>3. F[x] = Code[nodes][iv]
    BY <2>1, <2>2
  <2> QED BY <1>1, <1>4, <2>1, <2>2, <2>3, RoundTrip
<1>6. ASSUME NEW k \in 1 .. n PROVE F[k] \in Seq(T) /\ Len(F[k]) = c
  <2>1. PICK U : F[k] \in Seq(U)
    BY <1>5
  <2>2. PICK s \in Seq(U) : s = F[k] /\ Len(s) = c
    BY <1>5, <2>1
  <2>3. s = [x \in 1 .. c |-> s[x]]
    BY <2>2
  <2>4. \A x \in 1 .. c : s[x] \in T
    BY <2>2
  <2> HIDE DEF T
  <2>5. [x \in 1 .. c |-> s[x]] \in Seq(T)
    BY <2>4
  <2> QED BY <2>2, <2>3, <2>5
<1>7. reply = FlattenSeq(Prefix(F, n))
  <2>1. Prefix(F, n) = [x \in DOMAIN asked |-> coll[asked[x]]]
    BY <1>2 DEF Prefix
  <2> QED BY <1>1, <2>1 DEF Receiving
<1> HIDE DEF F, T
<1>8. CutsEvenly(F, n, c)
  BY <1>6, FlattenChunks
<1>9. n \in 0 .. n
  OBVIOUS
<1>10. Len(reply) = n * c /\ \A j \in 0 .. n - 1 : SubSeq(reply, j * c + 1, (j + 1) * c) = F[j + 1]
  BY <1>7, <1>8, <1>9 DEF CutsEvenly
<1>11. ASSUME NEW k \in 0 .. n - 1
       PROVE  /\ Deserialised(Decrypt(SubSeq(reply, k * c + 1, (k + 1) * c))) = contents[asked[k + 1]]
              /\ contents[asked[k + 1]] \in Seq(Names)
  <2>1. k + 1 \in 1 .. n
    OBVIOUS
  <2> QED BY <1>5, <1>10, <2>1, NodesAreBuckets
<1> QED BY <1>2, <1>4, <1>10, <1>11

LEMMA ReceiveBucketKeeps == BytesInv /\ ReceiveBucket => BytesInv'
<1> SUFFICES ASSUME BytesInv, ReceiveBucket PROVE BytesInv'
  OBVIOUS
<1>1. /\ phase = "receive" /\ size' = size /\ depth' = depth /\ next' = next /\ phase' = phase
      /\ coll' = coll /\ contents' = contents /\ asked' = asked /\ reply' = reply
      /\ i * Chunk < Len(reply) /\ i' = i + 1
      /\ received' = received \o Deserialised(Decrypt(SubSeq(reply, i * Chunk + 1, (i + 1) * Chunk)))
  BY DEF ReceiveBucket, level
<1>2. Prepared /\ Receiving
  BY <1>1 DEF BytesInv
<1>3. Numbers' = Numbers /\ Code' = Code
  BY <1>1, SameCode DEF Numbers
<1>4. Prepared'
  BY <1>1, <1>2, <1>3 DEF Prepared
<1>5. PICK n \in Nat, c \in Nat \ {0}, k \in Nat :
        n = Len(asked) /\ c = Chunk /\ k = i /\ k * c < n * c /\ k <= n
  <2>1. Chunk \in Nat \ {0} /\ Len(reply) = Len(asked) * Chunk
    BY <1>1, RepliesAreCut
  <2>2. Len(asked) \in Nat /\ i \in Nat /\ i <= Len(asked)
    BY <1>2 DEF Receiving
  <2> QED BY <1>1, <2>1, <2>2
<1>6. k < n
  BY <1>5
<1> DEFINE G == [x \in 1 .. n |-> contents[asked[x]]]
<1>7. \A x \in 1 .. n : G[x] \in Seq(Names)
  <2>1. ASSUME NEW x \in 1 .. n PROVE contents[asked[x]] \in Seq(Names)
    <3>1. x - 1 \in 0 .. n - 1 /\ (x - 1) + 1 = x
      BY <1>5
    <3> QED BY <1>1, <1>5, <3>1, RepliesAreCut
  <2> QED BY <2>1
<1>8. Deserialised(Decrypt(SubSeq(reply, i * Chunk + 1, (i + 1) * Chunk))) = G[k + 1]
  <2>1. k \in 0 .. n - 1 /\ k + 1 \in 1 .. n
    BY <1>6
  <2>2. Deserialised(Decrypt(SubSeq(reply, k * Chunk + 1, (k + 1) * Chunk))) = contents[asked[k + 1]]
    BY <1>1, <1>5, <2>1, RepliesAreCut
  <2> QED BY <1>5, <2>1, <2>2
<1>9. Prefix(G, k) = [x \in 1 .. k |-> contents[asked[x]]]
  BY <1>6 DEF Prefix
<1>10. Prefix(G, k + 1) = [x \in 1 .. k + 1 |-> contents[asked[x]]]
  BY <1>6 DEF Prefix
<1> HIDE DEF G
<1>11. FlattenSeq(Prefix(G, k + 1)) = FlattenSeq(Prefix(G, k)) \o G[k + 1]
  <2>1. k + 1 \in 1 .. n /\ (k + 1) - 1 = k
    BY <1>6
  <2>2. FlattenSeq(Prefix(G, k + 1)) = FlattenSeq(Prefix(G, (k + 1) - 1)) \o G[k + 1]
    <3>1. Pieces(G, n, Names)
      BY <1>7 DEF Pieces
    <3> QED BY <2>1, <3>1, FlattenPrefix, ZenonT(60)
  <2> QED BY <2>1, <2>2
<1>12. received = FlattenSeq([x \in 1 .. k |-> contents[asked[x]]])
  BY <1>2, <1>5 DEF Receiving
<1>13. received' = FlattenSeq([x \in 1 .. i' |-> contents'[asked'[x]]])
  BY <1>1, <1>5, <1>8, <1>9, <1>10, <1>11, <1>12
<1>14. Receiving'
  <2>1. i' \in 0 .. Len(asked')
    BY <1>1, <1>5, <1>6
  <2> QED BY <1>1, <1>2, <1>3, <1>13, <2>1 DEF Receiving
<1> QED BY <1>1, <1>4, <1>14 DEF BytesInv

LEMMA ReceivedAllKeeps == BytesInv /\ ReceivedAll => BytesInv'
<1> SUFFICES ASSUME BytesInv, ReceivedAll PROVE BytesInv'
  OBVIOUS
<1>1. /\ phase = "receive" /\ size' = size /\ depth' = depth /\ next' = next /\ phase' = "ready"
      /\ coll' = coll /\ contents' = contents
  BY DEF ReceivedAll, level
<1>2. Numbers' = Numbers /\ Code' = Code
  BY <1>1, SameCode DEF Numbers
<1>3. Prepared'
  BY <1>1, <1>2 DEF BytesInv, Prepared
<1> QED BY <1>1, <1>3 DEF BytesInv

LEMMA StutterKeeps == BytesInv /\ UNCHANGED vars => BytesInv'
<1> SUFFICES ASSUME BytesInv, UNCHANGED vars PROVE BytesInv'
  OBVIOUS
<1>1. /\ size' = size /\ depth' = depth /\ phase' = phase /\ batch' = batch /\ next' = next
      /\ coll' = coll /\ asked' = asked /\ reply' = reply /\ i' = i /\ received' = received
      /\ contents' = contents
  BY DEF vars, level
<1>2. Numbers' = Numbers /\ Code' = Code
  BY <1>1, SameCode DEF Numbers
<1>3. Preparing => Preparing'
  BY <1>1, <1>2 DEF Preparing, Blank
<1>4. Prepared => Prepared'
  BY <1>1, <1>2 DEF Prepared
<1>5. Receiving => Receiving'
  BY <1>1, <1>2 DEF Receiving
<1> QED BY <1>1, <1>3, <1>4, <1>5 DEF BytesInv

-----------------------------------------------------------------------------
(***************************************************************************)
(* The theorems.                                                           *)
(***************************************************************************)

\* The invariant holds for every size of nodes, buckets, cipher blocks and
\* batches, and every depth.
THEOREM BytesInductive == Spec => []BytesInv
<1>1. Init => BytesInv
  BY InitBytesInv
<1>2. BytesInv /\ [Next]_vars => BytesInv'
  <2> SUFFICES ASSUME BytesInv, [Next]_vars PROVE BytesInv'
    OBVIOUS
  <2>1. CASE PrepareBucket
    BY <2>1, PrepareBucketKeeps
  <2>2. CASE PrepareRest
    BY <2>2, PrepareRestKeeps
  <2>3. CASE \E b \in Numbers, nodes \in Buckets, iv \in Ivs : WriteBucket(b, nodes, iv)
    BY <2>3, WriteBucketKeeps
  <2>4. CASE \E leaf \in Leaves, before \in SUBSET Leaves :
               Cardinality(before) <= 1 /\ FetchPath(leaf, UNION {PathOf(depth, x) : x \in before})
    BY <2>4, FetchPathKeeps
  <2>5. CASE ReceiveBucket
    BY <2>5, ReceiveBucketKeeps
  <2>6. CASE ReceivedAll
    BY <2>6, ReceivedAllKeeps
  <2>7. CASE UNCHANGED vars
    BY <2>7, StutterKeeps
  <2> QED BY <2>1, <2>2, <2>3, <2>4, <2>5, <2>6, <2>7 DEF Next
<1> QED BY <1>1, <1>2, PTL DEF Spec

\* The constructor stores every bucket of a tree of any depth: the last batch
\* always has one, as no tree ends where a batch does.
THEOREM AllBucketsPrepared == Spec => []EveryBucketPrepared
<1>1. BytesInv => EveryBucketPrepared
  BY DEF BytesInv, Prepared, EveryBucketPrepared
<1> QED BY <1>1, BytesInductive, PTL

\* Cutting a reply by length gives the client exactly what was written last to
\* the buckets in it, whatever padding the sizes lead to.
THEOREM ReceivesStored == Spec => []ReceivesWhatIsStored
<1>1. ASSUME BytesInv, phase = "receive", i * Chunk >= Len(reply)
      PROVE  received = FlattenSeq([x \in DOMAIN asked |-> contents[asked[x]]])
  <2>1. Receiving
    BY <1>1 DEF BytesInv
  <2>2. PICK n \in Nat, c \in Nat \ {0}, k \in Nat :
          n = Len(asked) /\ c = Chunk /\ k = i /\ k * c >= n * c /\ k <= n
    <3>1. Chunk \in Nat \ {0} /\ Len(reply) = Len(asked) * Chunk
      BY <1>1, RepliesAreCut
    <3>2. Len(asked) \in Nat /\ i \in Nat /\ i <= Len(asked)
      BY <2>1 DEF Receiving
    <3> QED BY <1>1, <3>1, <3>2
  <2>3. k = n
    <3>1. CASE k < n
      <4>1. (k + 1) * c <= n * c /\ (k + 1) * c = k * c + c
        BY <3>1
      <4> QED BY <2>2, <4>1
    <3> QED BY <2>2, <3>1
  <2>4. DOMAIN asked = 1 .. i
    BY <2>1, <2>2, <2>3 DEF Receiving
  <2> QED BY <2>1, <2>4 DEF Receiving
<1>2. BytesInv => ReceivesWhatIsStored
  BY <1>1 DEF ReceivesWhatIsStored
<1> QED BY <1>2, BytesInductive, PTL
=============================================================================
