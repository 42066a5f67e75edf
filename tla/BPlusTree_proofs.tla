--------------------------- MODULE BPlusTree_proofs ---------------------------
(***************************************************************************)
(* Proofs about BPlusTree.  The names of a row, which are greatest keys,   *)
(* cut the keys of the row below into intervals, one for every node; the   *)
(* inductive invariant says that a node lists exactly its interval.  An    *)
(* operation replaces a few neighbouring names by others in every row,     *)
(* from the leaves up, and Rebuilt says what that does to the intervals.   *)
(***************************************************************************)
EXTENDS BPlusTree, Nodes_proofs, FunctionTheorems

\* The interval of a name among the names S, of the keys B of the row below.
Held(B, S, id) == {k \in B : k <= id /\ \A other \in S : other < id => other < k}

\* The greatest of every interval is there, and of all.
Covers(S, B) == S \subseteq B /\ \A k \in B : \E id \in S : k <= id

\* The keys of B that stay lie below or above all that go, D, and come, A.
Apart(B, D, A) ==
  \A k \in B \ D : (\A x \in D \cup A : k < x) \/ (\A x \in D \cup A : x < k)

\* The names W lie in S as the keys D do in the row below.
Matches(S, W, B, D) ==
  /\ \A other \in S \ W : (\A w \in W : other < w) => \A d \in D : other < d
  /\ \A k \in B : (\A w \in W : w < k) => \A d \in D : d < k

\* H are the keys that the names W have, G those that the new names N have.
Rebuilding(B, S, W, D, A, H, G, N, B2, S2) ==
  /\ B \subseteq Nat /\ S \subseteq Nat /\ Covers(S, B)
  /\ W \subseteq S /\ W # {} /\ Apart(S, W, {})
  /\ D \subseteq Nat /\ D # {} /\ A \subseteq Nat /\ Apart(B, D, A) /\ Matches(S, W, B, D)
  /\ H = {k \in B : \E w \in W : k \in Held(B, S, w)}
  /\ G = (H \ D) \cup A
  /\ N \subseteq G /\ \A k \in G : \E a \in N : k <= a
  /\ B2 = (B \ D) \cup A /\ S2 = (S \ W) \cup N

IsRebuilt(B, S, W, G, N, B2, S2) ==
  /\ Covers(S2, B2) /\ Apart(S, W, N)
  /\ \A id \in S \ W : Held(B2, S2, id) = Held(B, S, id)
  /\ \A id \in N : Held(B2, S2, id) = Held(G, N, id)

LEMMA Rebuilt ==
  ASSUME NEW B, NEW S, NEW W, NEW D, NEW A, NEW H, NEW G, NEW N, NEW B2, NEW S2,
         Rebuilding(B, S, W, D, A, H, G, N, B2, S2)
  PROVE  IsRebuilt(B, S, W, G, N, B2, S2)
<1> SUFFICES
      ASSUME B \in SUBSET Nat, S \in SUBSET Nat, Covers(S, B),
             W \in SUBSET S, W # {}, Apart(S, W, {}),
             D \in SUBSET Nat, D # {}, A \in SUBSET Nat, Apart(B, D, A), Matches(S, W, B, D),
             H = {k \in B : \E w \in W : k \in Held(B, S, w)},
             G = (H \ D) \cup A, N \in SUBSET G, \A k \in G : \E a \in N : k <= a,
             B2 = (B \ D) \cup A, S2 = (S \ W) \cup N
      PROVE  IsRebuilt(B, S, W, G, N, B2, S2)
  BY Zenon DEF Rebuilding
<1> DEFINE Lo == {o \in S : \A w \in W : o < w}
           Hi == {o \in S : \A w \in W : w < o}
<1>0. PICK w0 : w0 \in W
  OBVIOUS
<1>00. PICK d0 : d0 \in D
  OBVIOUS
<1>1. S \ W = Lo \cup Hi /\ Lo \cap Hi = {} /\ S \subseteq B /\ B \subseteq Nat /\ W \subseteq S
  <2>1. ASSUME NEW o \in S \ W PROVE o \in Lo \cup Hi
    BY DEF Apart
  <2>2. ASSUME NEW o \in Lo \cup Hi PROVE o \notin W
    BY <2>2
  <2>3. ASSUME NEW o \in Lo, o \in Hi PROVE FALSE
    <3>1. o \in Nat /\ w0 \in Nat /\ o < w0 /\ w0 < o
      BY <1>0, <2>3
    <3> QED BY <3>1
  <2> QED BY <2>1, <2>2, <2>3 DEF Covers
<1>2. ASSUME NEW o \in Lo PROVE o \notin D /\ \A x \in D \cup A : o < x
  <2>1. \A d \in D : o < d
    BY <1>1 DEF Matches
  <2>2. o \notin D /\ o \in B
    BY <1>1, <2>1
  <2>3. ~(\A x \in D \cup A : x < o)
    BY <1>00, <1>1, <2>1
  <2> QED BY <2>2, <2>3 DEF Apart
<1>3. ASSUME NEW k \in B, \A w \in W : w < k PROVE k \notin D /\ \A x \in D \cup A : x < k
  <2>1. \A d \in D : d < k
    BY <1>3 DEF Matches
  <2>2. k \notin D
    BY <2>1
  <2>3. ~(\A x \in D \cup A : k < x)
    BY <1>00, <1>1, <2>1
  <2> QED BY <2>2, <2>3 DEF Apart
<1>4. ASSUME NEW o \in Lo, NEW x \in H PROVE o < x
  BY DEF Held
<1>5. ASSUME NEW o \in Hi, NEW x \in H PROVE x < o
  <2>1. PICK w \in W : x <= w
    BY DEF Held
  <2> QED BY <2>1
<1>6. ASSUME NEW k \in B \ H, \A o \in Lo : o < k PROVE \A w \in W : w < k
  <2>1. SUFFICES ASSUME {w \in W : k <= w} # {} PROVE FALSE
    OBVIOUS
  <2>2. PICK w \in {x \in W : k <= x} : \A x \in {y \in W : k <= y} : w <= x
    <3>1. {x \in W : k <= x} \subseteq Nat
      OBVIOUS
    <3> QED BY <2>1, <3>1, LeastOf
  <2>3. k \notin Held(B, S, w)
    BY <2>2
  <2>4. PICK o \in S : o < w /\ ~(o < k)
    BY <2>2, <2>3 DEF Held
  <2>5. o \notin W
    BY <2>2, <2>4
  <2>6. o \in Lo
    <3>1. o \notin Hi
      BY <1>1, <2>2, <2>4
    <3> HIDE DEF Lo, Hi
    <3> QED BY <1>1, <2>4, <2>5, <3>1
  <2> QED BY <1>6, <2>4, <2>6
<1>7. H \subseteq B /\ G \subseteq B2 /\ G \subseteq Nat /\ N \subseteq Nat /\ B2 \subseteq Nat /\ S2 \subseteq Nat
  OBVIOUS
<1>8. ASSUME NEW o \in Lo, NEW x \in G \cup W PROVE o < x
  BY <1>2, <1>4
<1>9. ASSUME NEW o \in Hi, NEW x \in G \cup W PROVE x < o
  <2>1. o \in B /\ \A w \in W : w < o
    BY <1>1
  <2> QED BY <1>3, <1>5, <2>1
<1>10. Hi \cap D = {} /\ Lo \cap D = {}
  BY <1>1, <1>2, <1>3
<1> HIDE DEF Lo, Hi
<1>11. Apart(S, W, N)
  BY <1>1, <1>8, <1>9 DEF Apart
<1>12. S2 \subseteq B2
  BY <1>1, <1>7, <1>10
<1>13. Lo \subseteq S2 /\ Hi \subseteq S2 /\ N \subseteq S2 /\ S2 = Lo \cup Hi \cup N /\ S = Lo \cup Hi \cup W
  BY <1>1
<1>14. ASSUME NEW k \in B2, k \notin G PROVE k \in B /\ k \notin D /\ k \notin H
  BY <1>14
<1>15. ASSUME NEW k \in B2 PROVE \E id \in S2 : k <= id
  <2>1. CASE k \in G
    BY <1>13, <2>1
  <2>2. CASE k \notin G /\ \E o \in Lo : ~(o < k)
    BY <1>1, <1>7, <1>13, <2>2
  <2>3. CASE k \notin G /\ \A o \in Lo : o < k
    <3>1. k \in B \ H
      BY <1>14, <2>3
    <3>2. \A w \in W : w < k
      BY <1>6, <2>3, <3>1
    <3>3. PICK id \in S : k <= id
      BY <3>1 DEF Covers
    <3>4. id \notin W
      BY <3>2, <3>3
    <3> QED BY <3>3, <3>4
  <2> QED BY <2>1, <2>2, <2>3
<1>16. ASSUME NEW id \in Lo PROVE Held(B2, S2, id) = Held(B, S, id)
  <2>1. ASSUME NEW k \in Held(B, S, id) PROVE k \in Held(B2, S2, id)
    <3>1. k \in B /\ k <= id /\ \A o \in S : o < id => o < k
      BY DEF Held
    <3>2. k \in B2
      <4>1. \A d \in D : k \in Nat /\ d \in Nat /\ id \in Nat /\ id < d
        BY <1>1, <1>2, <3>1
      <4>2. k \notin D
        BY <3>1, <4>1
      <4> QED BY <3>1, <4>2
    <3>3. \A o \in S2 : o < id => o < k
      <4>1. ASSUME NEW o \in N, o < id PROVE FALSE
        <5>1. o \in Nat /\ id \in Nat /\ id < o
          BY <1>1, <1>7, <1>8
        <5> QED BY <4>1, <5>1
      <4> QED BY <1>13, <3>1, <4>1
    <3> QED BY <3>1, <3>2, <3>3 DEF Held
  <2>2. ASSUME NEW k \in Held(B2, S2, id) PROVE k \in Held(B, S, id)
    <3>1. k \in B2 /\ k <= id /\ \A o \in S2 : o < id => o < k
      BY DEF Held
    <3>2. k \in B
      <4>1. \A a \in A : k \in Nat /\ a \in Nat /\ id \in Nat /\ id < a
        BY <1>1, <1>2, <1>7, <3>1
      <4>2. k \notin A
        BY <3>1, <4>1
      <4> QED BY <3>1, <4>2
    <3>3. \A o \in S : o < id => o < k
      BY <1>1, <1>8, <1>13, <1>7, <3>1
    <3> QED BY <3>1, <3>2, <3>3 DEF Held
  <2> QED BY <2>1, <2>2
<1>17. ASSUME NEW id \in Hi PROVE Held(B2, S2, id) = Held(B, S, id)
  <2>1. ASSUME NEW k \in Held(B, S, id) PROVE k \in Held(B2, S2, id)
    <3>1. k \in B /\ k <= id /\ \A o \in S : o < id => o < k
      BY DEF Held
    <3>2. \A w \in W : w < k
      BY <1>9, <3>1
    <3>3. k \notin D /\ \A x \in D \cup A : x < k
      BY <1>3, <3>1, <3>2
    <3>4. \A x \in H : x < k
      <4>1. ASSUME NEW x \in H PROVE x < k
        <5>1. PICK w \in W : x <= w
          BY DEF Held
        <5> QED BY <1>7, <3>1, <3>2, <5>1
      <4> QED BY <4>1
    <3>5. \A o \in S2 : o < id => o < k
      BY <1>13, <3>1, <3>3, <3>4
    <3> QED BY <3>1, <3>3, <3>5 DEF Held
  <2>2. ASSUME NEW k \in Held(B2, S2, id) PROVE k \in Held(B, S, id)
    <3>1. k \in B2 /\ k <= id /\ \A o \in S2 : o < id => o < k
      BY DEF Held
    <3>2. \A a \in N : a < k
      BY <1>9, <1>13, <3>1
    <3>3. k \notin G
      <4>1. SUFFICES ASSUME k \in G PROVE FALSE
        OBVIOUS
      <4>2. PICK a \in N : k <= a
        BY <4>1
      <4> QED BY <1>7, <3>1, <3>2, <4>2
    <3>4. \A o \in Lo : o < k
      BY <1>8, <1>9, <1>13, <3>1, <1>0, <1>1
    <3>5. k \in B /\ \A w \in W : w < k
      BY <1>6, <1>14, <3>1, <3>3, <3>4
    <3>6. \A o \in S : o < id => o < k
      BY <1>13, <3>1, <3>5
    <3> QED BY <3>1, <3>5, <3>6 DEF Held
  <2> QED BY <2>1, <2>2
<1>18. ASSUME NEW id \in N PROVE Held(B2, S2, id) = Held(G, N, id)
  <2>1. ASSUME NEW k \in Held(G, N, id) PROVE k \in Held(B2, S2, id)
    <3>1. k \in G /\ k <= id /\ \A o \in N : o < id => o < k
      BY DEF Held
    <3>2. \A o \in S2 : o < id => o < k
      <4>1. ASSUME NEW o \in Hi, o < id PROVE FALSE
        <5>1. o \in Nat /\ id \in Nat /\ id < o
          BY <1>1, <1>7, <1>9
        <5> QED BY <4>1, <5>1
      <4> QED BY <1>8, <1>13, <3>1, <4>1
    <3> QED BY <1>7, <3>1, <3>2 DEF Held
  <2>2. ASSUME NEW k \in Held(B2, S2, id) PROVE k \in Held(G, N, id)
    <3>1. k \in B2 /\ k <= id /\ \A o \in S2 : o < id => o < k
      BY DEF Held
    <3>2. k \in G
      <4>1. SUFFICES ASSUME k \notin G PROVE FALSE
        OBVIOUS
      <4>2. k \in B \ H /\ k \notin D
        BY <1>14, <3>1, <4>1
      <4>3. \A o \in Lo : o < k
        BY <1>8, <1>13, <3>1
      <4>4. \A w \in W : w < k
        BY <1>6, <4>2, <4>3
      <4>5. \A x \in D \cup A : x < k
        BY <1>3, <4>2, <4>4
      <4>6. id \in H
        BY <1>7, <3>1, <4>5
      <4>7. PICK w \in W : id <= w
        BY <4>6 DEF Held
      <4> QED BY <1>7, <3>1, <4>4, <4>7
    <3> QED BY <1>13, <3>1, <3>2 DEF Held
  <2> QED BY <2>1, <2>2
<1> QED BY <1>1, <1>11, <1>12, <1>15, <1>16, <1>17, <1>18 DEF Covers, IsRebuilt

\* Where a key is looked for among the names S: under the first that is no
\* less, or under the last.
Aim(S, key, w) ==
  /\ w \in S
  /\ \A other \in S : other < w => other < key
  /\ w < key => \A other \in S : other <= w

\* What a search of the names K finds.
Leads(K, key, x) ==
  /\ x \in K
  /\ \/ x >= key /\ \A y \in K : y < x => y < key
     \/ \A y \in K : y < key /\ y <= x

\* The aim in the row below is where the node in this row leads.
LEMMA AimBelow ==
  ASSUME NEW B \in SUBSET Nat, NEW S \in SUBSET Nat, Covers(S, B), NEW key \in Nat,
         NEW w, Aim(S, key, w), NEW x, Leads(Held(B, S, w), key, x)
  PROVE  Aim(B, key, x)
<1> SUFFICES ASSUME x \in Held(B, S, w),
                    \/ x >= key /\ \A y \in Held(B, S, w) : y < x => y < key
                    \/ \A y \in Held(B, S, w) : y < key /\ y <= x
             PROVE  Aim(B, key, x)
  BY Zenon DEF Leads
<1>1. w \in S /\ w \in B /\ w \in Nat /\ x \in B /\ x \in Nat /\ x <= w
  BY DEF Aim, Covers, Held
<1>2. ASSUME NEW k \in B, k \notin Held(B, S, w), k <= w PROVE k < key /\ k < x
  <2>1. PICK o \in S : o < w /\ ~(o < k)
    BY <1>2 DEF Held
  <2>2. o < key /\ o < x /\ o \in Nat /\ k \in Nat
    BY <2>1 DEF Aim, Held
  <2> QED BY <1>1, <2>1, <2>2
<1>3. w \in Held(B, S, w)
  BY <1>1 DEF Held
<1>4. CASE x >= key /\ \A y \in Held(B, S, w) : y < x => y < key
  <2>1. ASSUME NEW k \in B, k < x PROVE k < key
    <3>1. k <= w
      BY <1>1, <2>1
    <3> QED BY <1>2, <1>4, <2>1, <3>1
  <2>2. ~(x < key)
    BY <1>1, <1>4
  <2> QED BY <1>1, <2>1, <2>2 DEF Aim
<1>5. CASE \A y \in Held(B, S, w) : y < key /\ y <= x
  <2>1. x = w /\ w < key
    BY <1>1, <1>3, <1>5
  <2>2. ASSUME NEW k \in B PROVE k <= x
    <3>1. PICK id \in S : k <= id
      BY DEF Covers
    <3>2. id <= w /\ id \in Nat
      BY <2>1 DEF Aim
    <3> QED BY <1>1, <2>1, <3>1, <3>2
  <2>3. ASSUME NEW k \in B, k < x PROVE k < key
    BY <1>1, <2>1, <2>3
  <2> QED BY <1>1, <2>2, <2>3 DEF Aim
<1> QED BY <1>4, <1>5

LEMMA AimMatches ==
  ASSUME NEW B \in SUBSET Nat, NEW S \in SUBSET Nat, Covers(S, B), NEW key \in Nat,
         NEW w, Aim(S, key, w), NEW b, b = key \/ b \in Held(B, S, w)
  PROVE  Matches(S, {w}, B, {b}) /\ Apart(S, {w}, {})
<1>1. w \in S /\ w \in Nat /\ b \in Nat
  BY DEF Aim, Held
<1>2. ASSUME NEW o \in S \ {w}, o < w PROVE o < b
  BY <1>2 DEF Aim, Held
<1>3. ASSUME NEW k \in B, w < k PROVE b < k
  <2>1. CASE b = key
    <3>1. PICK id \in S : k <= id
      BY DEF Covers
    <3>2. id \in Nat /\ k \in Nat
      OBVIOUS
    <3>3. ~(id <= w)
      BY <1>1, <1>3, <3>1, <3>2
    <3>4. ~(w < key)
      BY <3>3 DEF Aim
    <3> QED BY <1>1, <1>3, <2>1, <3>2, <3>4
  <2>2. CASE b \in Held(B, S, w)
    <3>1. b <= w /\ k \in Nat
      BY <2>2 DEF Held
    <3> QED BY <1>1, <1>3, <3>1
  <2> QED BY <2>1, <2>2
<1>4. Matches(S, {w}, B, {b})
  BY <1>2, <1>3 DEF Matches
<1>5. Apart(S, {w}, {})
  <2>1. \A o \in S \ {w} : o < w \/ w < o
    BY <1>1
  <2> QED BY <2>1 DEF Apart
<1> QED BY <1>4, <1>5

-----------------------------------------------------------------------------
(***************************************************************************)
(* Counting: a row whose nodes list c / 2 keys each, n nodes of it, lies   *)
(* above a row of n * c / 2 nodes.                                         *)
(***************************************************************************)
Crowded(B, S, c) == \A id \in S : 2 * Cardinality(Held(B, S, id)) >= c

LEMMA WithoutLeast ==
  ASSUME NEW B \in SUBSET Nat, NEW S \in SUBSET Nat, Covers(S, B), NEW c, Crowded(B, S, c),
         NEW least \in S, \A id \in S : least <= id,
         NEW B2, B2 = B \ Held(B, S, least), NEW S2, S2 = S \ {least}
  PROVE  Covers(S2, B2) /\ Crowded(B2, S2, c)
<1>1. \A k \in B : k <= least => k \in Held(B, S, least)
  <2>1. \A o \in S : o \in Nat /\ least \in Nat /\ ~(o < least)
    OBVIOUS
  <2> QED BY <2>1 DEF Held
<1>2. \A k \in B2 : k \in B /\ k \in Nat /\ least < k
  BY <1>1
<1>3. \A id \in S2 : id \in B /\ id \in Nat /\ least < id
  BY DEF Covers
<1>4. S2 \subseteq B2
  BY <1>3 DEF Held
<1>5. ASSUME NEW k \in B2 PROVE \E id \in S2 : k <= id
  <2>1. PICK id \in S : k <= id
    BY <1>2 DEF Covers
  <2> QED BY <1>2, <2>1
<1>6. ASSUME NEW id \in S2 PROVE Held(B2, S2, id) = Held(B, S, id)
  <2>1. ASSUME NEW k \in Held(B, S, id) PROVE k \in Held(B2, S2, id)
    <3>1. k \in B /\ k <= id /\ least < k /\ \A o \in S2 : o < id => o < k
      BY <1>3 DEF Held
    <3>2. k \notin Held(B, S, least)
      BY <3>1 DEF Held
    <3> QED BY <3>1, <3>2 DEF Held
  <2>2. ASSUME NEW k \in Held(B2, S2, id) PROVE k \in Held(B, S, id)
    BY <1>2 DEF Held
  <2> QED BY <2>1, <2>2
<1> QED BY <1>4, <1>5, <1>6 DEF Covers, Crowded

LEMMA NamesCount ==
  ASSUME NEW B \in SUBSET Nat, IsFiniteSet(B), NEW S \in SUBSET Nat, Covers(S, B),
         NEW c \in Nat, Crowded(B, S, c)
  PROVE  2 * Cardinality(B) >= c * Cardinality(S)
<1> DEFINE Bad(X, Y) == /\ IsFiniteSet(X) /\ Covers(Y, X) /\ Crowded(X, Y, c)
                        /\ ~(2 * Cardinality(X) >= c * Cardinality(Y))
           T == {n \in Nat : \E X, Y \in SUBSET Nat : n = Cardinality(Y) /\ Bad(X, Y)}
<1>1. \A X, Y \in SUBSET Nat :
        IsFiniteSet(X) /\ Covers(Y, X) =>
          IsFiniteSet(Y) /\ Cardinality(Y) \in Nat /\ Cardinality(X) \in Nat
  BY FS_Subset, FS_CardinalityType DEF Covers
<1>2. SUFFICES ASSUME T # {} PROVE FALSE
  <2>1. ~Bad(B, S)
    <3>1. Cardinality(S) \notin T
      BY <1>2
    <3> HIDE DEF Bad
    <3>2. IsFiniteSet(S) /\ Cardinality(S) \in Nat
      BY <1>1
    <3> QED BY <3>1, <3>2
  <2> QED BY <2>1
<1>3. PICK n \in T : \A m \in T : n <= m
  <2>1. T \subseteq Nat
    OBVIOUS
  <2> HIDE DEF T
  <2> QED BY <1>2, <2>1, LeastOf
<1> HIDE DEF Bad
<1>4. PICK X \in SUBSET Nat, Y \in SUBSET Nat : n = Cardinality(Y) /\ Bad(X, Y)
  BY <1>3
<1>5. /\ IsFiniteSet(X) /\ IsFiniteSet(Y) /\ Cardinality(X) \in Nat /\ n \in Nat
      /\ Covers(Y, X) /\ Crowded(X, Y, c) /\ ~(2 * Cardinality(X) >= c * n)
  BY <1>1, <1>4 DEF Bad
<1>6. Y # {}
  <2>1. SUFFICES ASSUME Y = {} PROVE FALSE
    OBVIOUS
  <2>2. n = 0
    BY <1>4, <2>1, FS_EmptySet
  <2> QED BY <1>5, <2>2
<1>7. PICK least \in Y : \A id \in Y : least <= id
  BY <1>6, LeastOf
<1>8. PICK h : h = Held(X, Y, least)
  OBVIOUS
<1>9. PICK X2 : X2 = X \ h
  OBVIOUS
<1>10. PICK Y2 : Y2 = Y \ {least}
  OBVIOUS
<1>11. Covers(Y2, X2) /\ Crowded(X2, Y2, c)
  BY <1>5, <1>7, <1>8, <1>9, <1>10, WithoutLeast
<1>12. h \subseteq X /\ 2 * Cardinality(h) >= c
  BY <1>5, <1>7, <1>8 DEF Held, Crowded
<1>13. IsFiniteSet(h) /\ Cardinality(h) \in Nat /\ IsFiniteSet(X2) /\ Cardinality(X2) = Cardinality(X) - Cardinality(h)
  <2>1. X \cap h = h
    BY <1>12
  <2>2. IsFiniteSet(h) /\ Cardinality(h) \in Nat
    BY <1>5, <1>12, FS_Subset, FS_CardinalityType
  <2>3. IsFiniteSet(X \ h) /\ Cardinality(X \ h) = Cardinality(X) - Cardinality(X \cap h)
    BY <1>5, FS_Difference
  <2> QED BY <1>9, <2>1, <2>2, <2>3
<1>14. n - 1 \in Nat /\ Cardinality(Y2) = n - 1 /\ IsFiniteSet(Y2)
  <2>1. Cardinality(Y2) = n - 1 /\ IsFiniteSet(Y2)
    BY <1>4, <1>5, <1>7, <1>10, FS_RemoveElement
  <2>2. Cardinality(Y2) \in Nat
    BY <2>1, FS_CardinalityType
  <2> QED BY <2>1, <2>2
<1>15. 2 * Cardinality(X2) >= c * (n - 1)
  <2>1. n - 1 \notin T
    <3>1. n \in Nat /\ ~(n <= n - 1)
      BY <1>5
    <3> QED BY <1>3, <3>1
  <2>2. X2 \in SUBSET Nat /\ Y2 \in SUBSET Nat
    BY <1>9, <1>10
  <2>3. ~Bad(X2, Y2)
    BY <1>14, <2>1, <2>2
  <2> QED BY <1>11, <1>13, <1>14, <2>3 DEF Bad
<1>16. PICK x \in Nat, y \in Nat : x = Cardinality(X) /\ y = Cardinality(h)
  BY <1>5, <1>13
<1>17. 2 * (x - y) >= c * (n - 1) /\ 2 * y >= c /\ ~(2 * x >= c * n)
  BY <1>5, <1>12, <1>13, <1>15, <1>16
<1>18. c * (n - 1) = c * n - c /\ c * n \in Nat
  BY <1>5
<1> QED BY <1>5, <1>16, <1>17, <1>18

-----------------------------------------------------------------------------
(***************************************************************************)
(* Nodes and rows.  Row h lists the keys B: those of the entries stored    *)
(* for the leaves, the names of the row below for the others.              *)
(***************************************************************************)
Items(h) == IF h = 0 THEN [key : Keys, value : Values] ELSE [key : Keys, pos : Int]
Room(h)  == IF h = 0 THEN C ELSE P2

NodeSet(h) ==
  IF h = 0
  THEN [arr : Seq([key : Keys, value : Values]), old_max : Int, max_value : Int, pos : Int]
  ELSE [childMap : Seq([key : Keys, pos : Int]), old_max : Int, max_value : Int, pos : Int]

IsNode(h, n, id, held) ==
  /\ n \in NodeSet(h) /\ Ordered(Array(h, n), Items(h)) /\ Len(Array(h, n)) <= Room(h)
  /\ n.max_value = id /\ n.old_max = id
  /\ Keyed(Array(h, n)) = held

IsRow(h, table, B) ==
  /\ DOMAIN table \subseteq Keys /\ Covers(DOMAIN table, B)
  /\ \A id \in DOMAIN table : IsNode(h, table[id], id, Held(B, DOMAIN table, id))

HalfFull(h, table) ==
  \A id, other \in DOMAIN table : id # other => 2 * Len(Array(h, table[id])) >= Room(h)

LEMMA RowsAre ==
  /\ Keys \in SUBSET Nat /\ IsFiniteSet(Keys) /\ NoKey \notin Keys
  /\ Top \in Nat /\ Top >= 1 /\ Rows = 0 .. Top /\ Top \in Rows /\ 0 \in Rows
  /\ C \in Nat \ {0} /\ P1 \in Nat \ {0} /\ P2 \in Nat \ {0}
  /\ \A h : Keyable(Items(h)) /\ Room(h) \in Nat \ {0}
  /\ Positions \subseteq Nat /\ Positions # {}
<1>1. Keys \in SUBSET Nat /\ IsFiniteSet(Keys) /\ NoKey \notin Keys
  BY TreeAssumption DEF NoKey
<1>2. Top \in Nat /\ Top >= 1 /\ Rows = 0 .. Top /\ Top \in Rows /\ 0 \in Rows
  BY TreeAssumption DEF Rows, Top
<1>3. C \in Nat \ {0} /\ P1 \in Nat \ {0} /\ P2 \in Nat \ {0}
  BY TreeAssumption
<1>4. ASSUME NEW h PROVE Keyable(Items(h)) /\ Room(h) \in Nat \ {0}
  <2>1. \A e \in Items(h) : e.key \in Keys
    BY DEF Items
  <2>2. Room(h) \in Nat \ {0}
    BY <1>3 DEF Room
  <2>3. \A k \in Keys : k \in Int
    BY <1>1
  <2>4. Keyable(Items(h))
    BY <2>1, <2>3, Zenon DEF Keyable
  <2> QED BY <2>2, <2>4
<1>5. Positions \subseteq Nat /\ Positions # {}
  BY TreeAssumption
<1> QED BY <1>1, <1>2, <1>3, <1>4, <1>5

IsHolding(h, p, n, t) ==
  /\ p \in NodeSet(h) /\ Array(h, p) = t /\ p.max_value = LastKey(t) /\ p.pos = n.pos
  /\ p.old_max = (IF h = 0 THEN n.max_value ELSE n.old_max)
  /\ Listed(p) \in NodeSet(h) /\ Array(h, Listed(p)) = t /\ Listed(p).pos = n.pos
  /\ Listed(p).max_value = LastKey(t) /\ Listed(p).old_max = LastKey(t)

LEMMA HoldingIs ==
  ASSUME NEW h \in Nat, NEW n \in NodeSet(h), NEW t, Ordered(t, Items(h)), t # <<>>,
         NEW p, p = Holding(h, n, t)
  PROVE  IsHolding(h, p, n, t)
<1>1. t \in Seq(Items(h)) /\ LastKey(t) \in Int
  <2>1. Keyable(Items(h))
    BY RowsAre
  <2>2. Last(t) \in ToSet(t) /\ LastKey(t) = Last(t).key
    BY <2>1, LastKeyIs
  <2>3. t \in Seq(Items(h))
    BY DEF Ordered
  <2>4. Last(t) \in Items(h)
    BY <2>2, <2>3, ToSetIsTyped
  <2> QED BY <2>1, <2>2, <2>3, <2>4 DEF Keyable
<1>2. PICK z \in Int : z = LastKey(t)
  BY <1>1
<1>3. CASE h = 0
  <2>1. n \in [arr : Seq(Items(h)), old_max : Int, max_value : Int, pos : Int]
    BY <1>3 DEF NodeSet, Items
  <2>2. p = [n EXCEPT !.arr = t, !.old_max = n.max_value, !.max_value = z]
    BY <1>2, <1>3 DEF Holding, LeafHolding
  <2>3. /\ p \in [arr : Seq(Items(h)), old_max : Int, max_value : Int, pos : Int]
        /\ p.arr = t /\ p.old_max = n.max_value /\ p.max_value = z /\ p.pos = n.pos
    BY <1>1, <2>1, <2>2
  <2>4. /\ Listed(p) \in [arr : Seq(Items(h)), old_max : Int, max_value : Int, pos : Int]
        /\ Listed(p).arr = t /\ Listed(p).old_max = z /\ Listed(p).max_value = z /\ Listed(p).pos = n.pos
    BY <2>3 DEF Listed
  <2> QED BY <1>2, <1>3, <2>3, <2>4 DEF NodeSet, Array, Items, IsHolding
<1>4. CASE h # 0
  <2>1. n \in [childMap : Seq(Items(h)), old_max : Int, max_value : Int, pos : Int]
    BY <1>4 DEF NodeSet, Items
  <2>2. p = [n EXCEPT !.childMap = t, !.max_value = z]
    BY <1>2, <1>4 DEF Holding, MidHolding
  <2>3. /\ p \in [childMap : Seq(Items(h)), old_max : Int, max_value : Int, pos : Int]
        /\ p.childMap = t /\ p.old_max = n.old_max /\ p.max_value = z /\ p.pos = n.pos
    BY <1>1, <2>1, <2>2
  <2>4. /\ Listed(p) \in [childMap : Seq(Items(h)), old_max : Int, max_value : Int, pos : Int]
        /\ Listed(p).childMap = t /\ Listed(p).old_max = z /\ Listed(p).max_value = z /\ Listed(p).pos = n.pos
    BY <2>3 DEF Listed
  <2> QED BY <1>2, <1>4, <2>3, <2>4 DEF NodeSet, Array, Items, IsHolding
<1> QED BY <1>3, <1>4

LEMMA NewbornIs == \A h \in Nat : Newborn(h) \in NodeSet(h)
<1>1. NewLeaf \in NodeSet(0)
  BY DEF NewLeaf, NodeSet, NoKey, Unplaced
<1>2. ASSUME NEW h \in Nat, h # 0 PROVE NewMid \in NodeSet(h)
  BY <1>2 DEF NewMid, NodeSet, NoKey, Unplaced
<1> QED BY <1>1, <1>2 DEF Newborn

LEMMA GreatestHeld ==
  ASSUME NEW h \in Nat, NEW t, Ordered(t, Items(h)), t # <<>>
  PROVE  /\ LastKey(t) \in Keyed(t) /\ \A k \in Keyed(t) : k <= LastKey(t)
         /\ Keyed(t) \subseteq Keys /\ Keyed(t) \subseteq Nat /\ LastKey(t) \in Nat
<1>1. Keyable(Items(h))
  BY RowsAre
<1>2. Last(t) \in ToSet(t) /\ LastKey(t) = Last(t).key /\ \A x \in ToSet(t) : x.key <= Last(t).key
  BY <1>1, LastKeyIs
<1>3. \A x \in ToSet(t) : x \in Items(h)
  BY ToSetIsTyped DEF Ordered
<1>4. \A x \in Items(h) : x.key \in Keys
  BY DEF Items
<1>5. Keyed(t) \subseteq Keys /\ LastKey(t) \in Keyed(t) /\ \A k \in Keyed(t) : k <= LastKey(t)
  BY <1>2, <1>3, <1>4, KeyedIs
<1>6. Keys \subseteq Nat
  BY RowsAre
<1> QED BY <1>5, <1>6

\* The nodes an insertion makes of one, and their names.
Pieces(pair)  == {pair.node} \cup ToSet(pair.new)
NamesOf(pair) == {p.max_value : p \in Pieces(pair)}

\* Together they hold the entries X, and every one the interval of its name.
KeysOf(X) == {x.key : x \in X}

ArePieces(h, pair, X) ==
  LET G == KeysOf(X) IN
  /\ NamesOf(pair) \subseteq G /\ \A k \in G : \E a \in NamesOf(pair) : k <= a
  /\ \A p, q \in Pieces(pair) : p.max_value = q.max_value => p = q
  /\ \A p \in Pieces(pair) :
       /\ p \in NodeSet(h) /\ ToSet(Array(h, p)) \subseteq X
       /\ IsNode(h, Listed(p), p.max_value, Held(G, NamesOf(pair), p.max_value))

\* One new half at most, with the greater keys.
IsPair(pair) == pair.new = <<>> \/ \E q : pair.new = <<q>> /\ pair.node.max_value < q.max_value

\* The node has its old name on it, and is no less full if it was not cut.
IsMade(h, pair, n, X) ==
  /\ ArePieces(h, pair, X) /\ IsPair(pair)
  /\ pair.node.old_max = (IF h = 0 THEN n.max_value ELSE n.old_max)
  /\ \/ pair.new = <<>> /\ Len(Array(h, pair.node)) >= Len(Array(h, n))
     \/ \A p \in Pieces(pair) : 2 * Len(Array(h, p)) >= Room(h)

LEMMA KeptIs ==
  ASSUME NEW h \in Nat, NEW n \in NodeSet(h), NEW X, NEW pair,
         Keeps(h, pair, n, Items(h), X, Room(h))
  PROVE  IsMade(h, pair, n, X)
<1>1. PICK t : /\ pair.node = Holding(h, n, t)
               /\ Ordered(t, Items(h)) /\ t # <<>> /\ ToSet(t) = X
               /\ Len(t) <= Room(h) /\ Len(t) >= Len(Array(h, n))
  BY DEF Keeps
<1>2. PICK p : p = pair.node
  OBVIOUS
<1>3. /\ p \in NodeSet(h) /\ Array(h, p) = t /\ p.max_value = LastKey(t)
      /\ p.old_max = (IF h = 0 THEN n.max_value ELSE n.old_max)
      /\ Listed(p) \in NodeSet(h) /\ Array(h, Listed(p)) = t
      /\ Listed(p).max_value = LastKey(t) /\ Listed(p).old_max = LastKey(t)
  <2>1. IsHolding(h, p, n, t)
    BY <1>1, <1>2, HoldingIs
  <2> QED BY <2>1 DEF IsHolding
<1>4. pair.new = <<>> /\ Pieces(pair) = {p} /\ NamesOf(pair) = {LastKey(t)}
  BY <1>2, <1>3 DEF Keeps, Pieces, NamesOf, ToSet
<1>5. Keyed(t) = KeysOf(X)
  BY <1>1, KeyedIs DEF KeysOf
<1>6. LastKey(t) \in Keyed(t) /\ \A k \in Keyed(t) : k <= LastKey(t)
  BY <1>1, GreatestHeld
<1>7. Held(Keyed(t), {LastKey(t)}, LastKey(t)) = Keyed(t)
  <2>1. LastKey(t) \in Nat
    BY <1>1, GreatestHeld
  <2> QED BY <1>6, <2>1 DEF Held
<1>8. IsNode(h, Listed(p), p.max_value, Held(Keyed(t), NamesOf(pair), p.max_value))
  BY <1>1, <1>3, <1>4, <1>7 DEF IsNode
<1>9. ArePieces(h, pair, X)
  BY <1>1, <1>3, <1>4, <1>5, <1>6, <1>8 DEF ArePieces
<1> QED BY <1>1, <1>2, <1>3, <1>4, <1>9 DEF IsMade, IsPair

LEMMA SharedIs ==
  ASSUME NEW h \in Nat, NEW n \in NodeSet(h), NEW X, NEW pair,
         Shares(h, pair, n, Items(h), X, Room(h))
  PROVE  IsMade(h, pair, n, X)
<1>1. PICK low, high :
        /\ pair.node = Holding(h, n, low) /\ pair.new = << Holding(h, Newborn(h), high) >>
        /\ AreParts(low, high, Items(h), X, Room(h))
  BY DEF Shares
<1>2. PICK p : p = pair.node
  OBVIOUS
<1>3. PICK q : q = Holding(h, Newborn(h), high)
  OBVIOUS
<1>4. /\ Ordered(low, Items(h)) /\ low # <<>> /\ Len(low) <= Room(h) /\ 2 * Len(low) >= Room(h)
      /\ Ordered(high, Items(h)) /\ high # <<>> /\ Len(high) <= Room(h) /\ 2 * Len(high) >= Room(h)
  BY <1>1 DEF AreParts, IsPart
<1>45. p = Holding(h, n, low)
  BY <1>1, <1>2
<1>5. /\ p \in NodeSet(h) /\ Array(h, p) = low /\ p.max_value = LastKey(low)
      /\ p.old_max = (IF h = 0 THEN n.max_value ELSE n.old_max)
      /\ Listed(p) \in NodeSet(h) /\ Array(h, Listed(p)) = low
      /\ Listed(p).max_value = LastKey(low) /\ Listed(p).old_max = LastKey(low)
  <2>1. IsHolding(h, p, n, low)
    BY <1>45, <1>4, HoldingIs, Zenon
  <2> QED BY <2>1, Zenon DEF IsHolding
<1>6. /\ q \in NodeSet(h) /\ Array(h, q) = high /\ q.max_value = LastKey(high)
      /\ Listed(q) \in NodeSet(h) /\ Array(h, Listed(q)) = high
      /\ Listed(q).max_value = LastKey(high) /\ Listed(q).old_max = LastKey(high)
  <2>1. IsHolding(h, q, Newborn(h), high)
    BY <1>3, <1>4, NewbornIs, HoldingIs
  <2> QED BY <2>1 DEF IsHolding
<1>7. pair.new = <<q>> /\ Pieces(pair) = {p, q} /\ NamesOf(pair) = {LastKey(low), LastKey(high)}
  <2>1. pair.new = <<q>> /\ ToSet(pair.new) = {q}
    BY <1>1, <1>3 DEF ToSet
  <2> QED BY <1>2, <1>5, <1>6, <2>1 DEF Pieces, NamesOf
<1>8. PICK G : G = KeysOf(X)
  OBVIOUS
<1>9. G = Keyed(low) \cup Keyed(high) /\ \A k \in Keyed(low), l \in Keyed(high) : k < l
  BY <1>1, <1>8, KeyedIs DEF AreParts, KeysOf
<1>10. /\ LastKey(low) \in Keyed(low) /\ \A k \in Keyed(low) : k <= LastKey(low)
       /\ LastKey(high) \in Keyed(high) /\ \A k \in Keyed(high) : k <= LastKey(high)
       /\ Keyed(low) \subseteq Nat /\ Keyed(high) \subseteq Nat
  BY <1>4, GreatestHeld
<1>11. PICK a \in Int, b \in Int : a = LastKey(low) /\ b = LastKey(high)
  BY <1>10
<1>12. a < b /\ a \in G /\ b \in G /\ \A k \in G : k <= a \/ k <= b
  BY <1>9, <1>10, <1>11
<1>13. Held(G, {a, b}, a) = Keyed(low)
  <2>1. \A k \in Keyed(high) : ~(k <= a)
    BY <1>9, <1>10, <1>11
  <2> QED BY <1>9, <1>10, <1>11, <1>12, <2>1 DEF Held
<1>14. Held(G, {a, b}, b) = Keyed(high)
  <2>1. \A k \in Keyed(low) : ~(a < k)
    BY <1>10, <1>11
  <2>2. \A k \in Keyed(high) : a < k
    BY <1>9, <1>10, <1>11
  <2> QED BY <1>9, <1>10, <1>11, <1>12, <2>1, <2>2 DEF Held
<1>15. IsNode(h, Listed(p), a, Keyed(low)) /\ IsNode(h, Listed(q), b, Keyed(high))
  BY <1>4, <1>5, <1>6, <1>11 DEF IsNode
<1>16. ToSet(low) \subseteq X /\ ToSet(high) \subseteq X
  BY <1>1 DEF AreParts
<1>17. NamesOf(pair) = {a, b} /\ p.max_value = a /\ q.max_value = b
  BY <1>5, <1>6, <1>7, <1>11
<1>18. ArePieces(h, pair, X)
  <2>1. NamesOf(pair) \subseteq G /\ \A k \in G : \E x \in NamesOf(pair) : k <= x
    BY <1>12, <1>17
  <2>2. \A x, y \in Pieces(pair) : x.max_value = y.max_value => x = y
    BY <1>7, <1>12, <1>17
  <2>3. ASSUME NEW x \in Pieces(pair)
        PROVE  /\ x \in NodeSet(h) /\ ToSet(Array(h, x)) \subseteq X
               /\ IsNode(h, Listed(x), x.max_value, Held(G, NamesOf(pair), x.max_value))
    <3>1. CASE x = p
      BY <1>5, <1>13, <1>15, <1>16, <1>17, <3>1
    <3>2. CASE x = q
      BY <1>6, <1>14, <1>15, <1>16, <1>17, <3>2
    <3> QED BY <1>7, <3>1, <3>2
  <2> QED BY <1>8, <2>1, <2>2, <2>3, Zenon DEF ArePieces
<1>19. \A x \in Pieces(pair) : 2 * Len(Array(h, x)) >= Room(h)
  BY <1>4, <1>5, <1>6, <1>7
<1>20. IsPair(pair)
  BY <1>2, <1>7, <1>12, <1>17 DEF IsPair
<1> QED BY <1>2, <1>5, <1>18, <1>19, <1>20, Zenon DEF IsMade

-----------------------------------------------------------------------------
(***************************************************************************)
(* What an insertion does to a row.                                        *)
(***************************************************************************)
\* The row with the pieces in the place of the node w.
PieceOf(pair, id) == CHOOSE p \in Pieces(pair) : p.max_value = id

Regrown(table, w, pair) ==
  [id \in (DOMAIN table \ {w}) \cup NamesOf(pair) |->
     IF id \in NamesOf(pair) THEN Listed(PieceOf(pair, id)) ELSE table[id]]

\* In the row below the keys A have taken the place of b.
Replaced(B, b, A) == (B \ {b}) \cup A

LEMMA PieceOfIs ==
  ASSUME NEW h, NEW pair, NEW X, ArePieces(h, pair, X)
  PROVE  /\ \A id \in NamesOf(pair) : PieceOf(pair, id) \in Pieces(pair) /\ PieceOf(pair, id).max_value = id
         /\ \A p \in Pieces(pair) : PieceOf(pair, p.max_value) = p
<1>1. \A id \in NamesOf(pair) : \E p \in Pieces(pair) : p.max_value = id
  BY DEF NamesOf
<1>2. \A p, q \in Pieces(pair) : p.max_value = q.max_value => p = q
  BY DEF ArePieces
<1> QED BY <1>1, <1>2 DEF PieceOf, NamesOf

RowRegrown(h, table, w, B, b, A, pair) ==
  /\ IsRow(h, Regrown(table, w, pair), Replaced(B, b, A))
  /\ Apart(DOMAIN table, {w}, NamesOf(pair)) /\ NamesOf(pair) \subseteq Keys
  /\ DOMAIN Regrown(table, w, pair) = Replaced(DOMAIN table, w, NamesOf(pair))

LEMMA RegrownIs ==
  ASSUME NEW h \in Rows, NEW B \in SUBSET Keys, NEW table, IsRow(h, table, B), NEW w \in DOMAIN table,
         NEW b \in Nat, NEW A \in SUBSET Keys, Apart(B, {b}, A), Apart(DOMAIN table, {w}, {}),
         Matches(DOMAIN table, {w}, B, {b}),
         NEW pair, NEW X, ArePieces(h, pair, X),
         KeysOf(X) = (Held(B, DOMAIN table, w) \ {b}) \cup A
  PROVE  RowRegrown(h, table, w, B, b, A, pair)
<1>1. PICK S : S = DOMAIN table
  OBVIOUS
<1>2. PICK N : N = NamesOf(pair)
  OBVIOUS
<1>3. PICK G : G = KeysOf(X)
  OBVIOUS
<1>4. PICK t : t = Regrown(table, w, pair)
  OBVIOUS
<1>5. /\ B \in SUBSET Nat /\ S \in SUBSET Nat /\ A \in SUBSET Nat /\ Covers(S, B)
      /\ {w} \in SUBSET S /\ {b} \in SUBSET Nat
  BY <1>1, RowsAre DEF IsRow
<1>6. N \subseteq G /\ \A k \in G : \E a \in N : k <= a
  BY <1>2, <1>3 DEF ArePieces
<1>7. PICK H : H = {k \in B : \E x \in {w} : k \in Held(B, S, x)}
  OBVIOUS
<1>8. H = Held(B, S, w) /\ G = (H \ {b}) \cup A
  BY <1>1, <1>3, <1>7 DEF Held
<1>9. DOMAIN t = Replaced(S, w, N)
  BY <1>1, <1>2, <1>4 DEF Regrown, Replaced
<1>10. PICK B2 : B2 = (B \ {b}) \cup A
  OBVIOUS
<1>11. PICK S2 : S2 = (S \ {w}) \cup N
  OBVIOUS
<1>12. /\ Covers(S2, B2) /\ Apart(S, {w}, N)
       /\ \A id \in S \ {w} : Held(B2, S2, id) = Held(B, S, id)
       /\ \A id \in N : Held(B2, S2, id) = Held(G, N, id)
  <2>1. PICK W : W = {w}
    OBVIOUS
  <2>2. PICK D : D = {b}
    OBVIOUS
  <2>3. /\ N \in SUBSET G /\ W \in SUBSET S /\ W # {} /\ D \in SUBSET Nat /\ D # {}
        /\ H = {k \in B : \E x \in W : k \in Held(B, S, x)} /\ G = (H \ D) \cup A
        /\ B2 = (B \ D) \cup A /\ S2 = (S \ W) \cup N
    BY <1>5, <1>6, <1>7, <1>8, <1>10, <1>11, <2>1, <2>2
  <2>4. Apart(S, W, {}) /\ Matches(S, W, B, D) /\ Apart(B, D, A)
    BY <1>1, <2>1, <2>2
  <2>5. Rebuilding(B, S, W, D, A, H, G, N, B2, S2)
    BY <1>5, <1>6, <2>3, <2>4 DEF Rebuilding
  <2>6. IsRebuilt(B, S, W, G, N, B2, S2)
    BY <2>5, Rebuilt
  <2> QED BY <2>1, <2>6 DEF IsRebuilt
<1>13. N \subseteq Keys
  BY <1>6, <1>7, <1>8
<1>14. S2 \subseteq Keys
  BY <1>1, <1>11, <1>13 DEF IsRow
<1>15. ASSUME NEW id \in S2 PROVE IsNode(h, t[id], id, Held(B2, S2, id))
  <2>1. CASE id \in N
    <3>1. PICK p \in Pieces(pair) : p = PieceOf(pair, id) /\ p.max_value = id
      BY <1>2, <2>1, PieceOfIs
    <3>2. t[id] = Listed(p)
      BY <1>2, <1>4, <2>1, <3>1 DEF Regrown
    <3>3. IsNode(h, Listed(p), p.max_value, Held(G, N, p.max_value))
      BY <1>2, <1>3, Zenon DEF ArePieces
    <3> QED BY <1>12, <2>1, <3>1, <3>2, <3>3
  <2>2. CASE id \notin N
    <3>1. id \in S \ {w} /\ t[id] = table[id]
      BY <1>1, <1>2, <1>4, <1>11, <2>2 DEF Regrown
    <3>2. IsNode(h, table[id], id, Held(B, S, id))
      BY <1>1, <3>1 DEF IsRow
    <3> QED BY <1>12, <3>1, <3>2
  <2> QED BY <2>1, <2>2
<1>16. IsRow(h, t, B2)
  <2>1. DOMAIN t = S2
    BY <1>9, <1>11 DEF Replaced
  <2> QED BY <1>12, <1>14, <1>15, <2>1 DEF IsRow
<1> QED BY <1>1, <1>2, <1>4, <1>9, <1>10, <1>12, <1>13, <1>16 DEF Replaced, RowRegrown

LEMMA RegrownIsHalfFull ==
  ASSUME NEW h \in Nat, NEW table, HalfFull(h, table), DOMAIN table \subseteq Nat, NEW w \in DOMAIN table,
         NEW pair, NEW X, ArePieces(h, pair, X), Apart(DOMAIN table, {w}, NamesOf(pair)),
         \/ /\ pair.new = <<>> /\ Len(Array(h, table[w])) \in Int /\ Len(Array(h, pair.node)) \in Int
            /\ Len(Array(h, pair.node)) >= Len(Array(h, table[w]))
         \/ \A p \in Pieces(pair) : 2 * Len(Array(h, p)) >= Room(h)
  PROVE  HalfFull(h, Regrown(table, w, pair))
<1>1. PICK S : S = DOMAIN table
  OBVIOUS
<1>2. PICK N : N = NamesOf(pair)
  OBVIOUS
<1>3. PICK t : t = Regrown(table, w, pair)
  OBVIOUS
<1>4. DOMAIN t = (S \ {w}) \cup N
  BY <1>1, <1>2, <1>3 DEF Regrown
<1>5. ASSUME NEW id \in S \ {w} PROVE id \notin N /\ t[id] = table[id]
  <2>1. \A x \in {w} \cup N : id < x \/ x < id
    BY <1>1, <1>2 DEF Apart
  <2>2. id \notin N
    BY <1>1, <2>1
  <2> QED BY <1>1, <1>2, <1>3, <2>2 DEF Regrown
<1>6. ASSUME NEW id \in S \ {w} PROVE 2 * Len(Array(h, t[id])) >= Room(h)
  BY <1>1, <1>5 DEF HalfFull
<1>7. \A p : Array(h, Listed(p)) = Array(h, p)
  BY DEF Array, Listed
<1>8. ASSUME NEW id \in N PROVE PieceOf(pair, id) \in Pieces(pair) /\ Array(h, t[id]) = Array(h, PieceOf(pair, id))
  BY <1>2, <1>3, <1>7, PieceOfIs DEF Regrown
<1>9. CASE \A p \in Pieces(pair) : 2 * Len(Array(h, p)) >= Room(h)
  BY <1>3, <1>4, <1>6, <1>8, <1>9 DEF HalfFull
<1>10. CASE /\ pair.new = <<>> /\ Len(Array(h, table[w])) \in Int /\ Len(Array(h, pair.node)) \in Int
            /\ Len(Array(h, pair.node)) >= Len(Array(h, table[w]))
  <2>1. Pieces(pair) = {pair.node} /\ N = {pair.node.max_value}
    BY <1>2, <1>10 DEF Pieces, NamesOf, ToSet
  <2>2. ASSUME NEW id \in DOMAIN t, NEW other \in DOMAIN t, id # other
        PROVE  2 * Len(Array(h, t[id])) >= Room(h)
    <3>1. CASE id \in S \ {w}
      BY <1>6, <3>1
    <3>2. CASE id \in N
      <4>1. other \in S \ {w}
        BY <1>4, <2>1, <2>2, <3>2
      <4>2. 2 * Len(Array(h, table[w])) >= Room(h)
        BY <1>1, <4>1 DEF HalfFull
      <4>3. Array(h, t[id]) = Array(h, pair.node)
        BY <1>8, <2>1, <3>2
      <4>4. PICK x \in Int, y \in Int : x = Len(Array(h, table[w])) /\ y = Len(Array(h, pair.node))
        BY <1>10
      <4>5. y >= x /\ 2 * x >= Room(h) /\ Room(h) \in Int
        BY <1>10, <4>2, <4>4, RowsAre
      <4>6. 2 * y >= Room(h)
        BY <4>5
      <4> QED BY <4>3, <4>4, <4>6
    <3> QED BY <1>4, <3>1, <3>2
  <2> QED BY <1>3, <2>2 DEF HalfFull
<1> QED BY <1>9, <1>10

\* The tables of client::insert: the node is taken out, the pieces are filed.
LEMMA WrittenIs ==
  ASSUME NEW h \in Rows, NEW e, Found(h, e), NEW pair, NEW X, ArePieces(h, pair, X),
         NamesOf(pair) \subseteq Keys,
         \/ pair.new = <<>>
         \/ (\E q : pair.new = <<q>>) /\ (h = Top => RootAccepts(root, P1))
  PROVE  Written(h, Less(h, {e}), pair) = Regrown(row[h], e.key, pair)
<1>1. PICK t : t = row[h]
  OBVIOUS
<1>2. PICK w : w = e.key
  OBVIOUS
<1>3. PICK p : p = pair.node
  OBVIOUS
<1>4. PICK taken : taken = Less(h, {e})
  OBVIOUS
<1>5. taken = [id \in DOMAIN t \ {w} |-> t[id]]
  <2>1. {x.key : x \in {y \in {e} : Found(h, y)}} = {w}
    BY <1>2
  <2> QED BY <1>1, <1>4, <2>1 DEF Less, Drop
<1>6. ASSUME NEW q \in Pieces(pair)
      PROVE  q.max_value \in NamesOf(pair) /\ Listed(q).max_value = q.max_value /\ q.max_value # NoKey
  <2>1. q.max_value \in NamesOf(pair)
    BY DEF NamesOf
  <2>2. IsNode(h, Listed(q), q.max_value, Held(KeysOf(X), NamesOf(pair), q.max_value))
    BY Zenon DEF ArePieces
  <2>3. q.max_value # NoKey
    BY <2>1, RowsAre
  <2> QED BY <2>1, <2>2, <2>3 DEF IsNode
<1>7. PICK kept : kept = Filed(taken, Listed(p))
  OBVIOUS
<1>8. p \in Pieces(pair)
  BY <1>3 DEF Pieces
<1>9. kept = [id \in DOMAIN taken \cup {p.max_value} |-> IF id = p.max_value THEN Listed(p) ELSE taken[id]]
  BY <1>6, <1>7, <1>8 DEF Filed, Put
<1>10. kept = [id \in (DOMAIN t \ {w}) \cup {p.max_value} |-> IF id = p.max_value THEN Listed(p) ELSE t[id]]
  BY <1>5, <1>9
<1>11. CASE pair.new = <<>>
  <2>1. Written(h, taken, pair) = kept
    BY <1>3, <1>7, <1>11 DEF Written
  <2>2. Pieces(pair) = {p} /\ NamesOf(pair) = {p.max_value}
    BY <1>3, <1>11 DEF Pieces, NamesOf, ToSet
  <2>3. PieceOf(pair, p.max_value) = p
    BY <2>2 DEF PieceOf
  <2>4. Regrown(t, w, pair) = kept
    BY <1>10, <2>2, <2>3 DEF Regrown
  <2> QED BY <1>1, <1>2, <1>4, <2>1, <2>4
<1>12. ASSUME NEW q, pair.new = <<q>>, h = Top => RootAccepts(root, P1)
       PROVE  Written(h, taken, pair) = Regrown(t, w, pair)
  <2>1. Head(pair.new) = q /\ pair.new # <<>> /\ ToSet(pair.new) = {q}
    BY <1>12 DEF ToSet
  <2>2. Written(h, taken, pair) = Filed(kept, Listed(q))
    BY <1>3, <1>7, <1>12, <2>1 DEF Written
  <2>3. Pieces(pair) = {p, q} /\ NamesOf(pair) = {p.max_value, q.max_value}
    BY <1>3, <2>1 DEF Pieces, NamesOf
  <2>4. q \in Pieces(pair)
    BY <2>3
  <2>5. PieceOf(pair, p.max_value) = p /\ PieceOf(pair, q.max_value) = q
    BY <1>8, <2>4, PieceOfIs
  <2>6. Filed(kept, Listed(q))
          = [id \in DOMAIN kept \cup {q.max_value} |-> IF id = q.max_value THEN Listed(q) ELSE kept[id]]
    BY <1>6, <2>4 DEF Filed, Put
  <2>7. Regrown(t, w, pair) = [id \in (DOMAIN t \ {w}) \cup {p.max_value, q.max_value} |->
           IF id \in {p.max_value, q.max_value} THEN Listed(PieceOf(pair, id)) ELSE t[id]]
    BY <2>3 DEF Regrown
  <2>8. DOMAIN kept = (DOMAIN t \ {w}) \cup {p.max_value}
    BY <1>10
  <2>9. ASSUME NEW id \in (DOMAIN t \ {w}) \cup {p.max_value, q.max_value}
        PROVE  (IF id = q.max_value THEN Listed(q) ELSE kept[id])
                 = (IF id \in {p.max_value, q.max_value} THEN Listed(PieceOf(pair, id)) ELSE t[id])
    <3>1. CASE id = q.max_value
      BY <2>5, <3>1
    <3>2. CASE id # q.max_value
      <4>1. kept[id] = IF id = p.max_value THEN Listed(p) ELSE t[id]
        BY <1>10, <3>2
      <4> QED BY <2>5, <3>2, <4>1
    <3> QED BY <3>1, <3>2
  <2> QED BY <2>2, <2>6, <2>7, <2>8, <2>9
<1> QED BY <1>1, <1>2, <1>4, <1>11, <1>12

-----------------------------------------------------------------------------
(***************************************************************************)
(* The way to a key.                                                       *)
(***************************************************************************)
\* The part of it from row n upwards.
IsWayFrom(n, f, key) ==
  /\ DOMAIN f = n .. Top
  /\ \A h \in n .. Top :
       f[h] = IF h = Top THEN ChildFor(root, key) ELSE ChildFor(NodeAt(h + 1, f[h + 1]), key)

LEMMA WayExists ==
  ASSUME NEW key, NEW n \in Rows
  PROVE  \E f : IsWayFrom(n, f, key)
<1> DEFINE Bad == {k \in 0 .. Top : ~\E f : IsWayFrom(Top - k, f, key)}
<1>1. SUFFICES ASSUME Bad # {} PROVE FALSE
  <2>1. Top - n \in 0 .. Top /\ Top - (Top - n) = n
    BY RowsAre
  <2> QED BY <2>1
<1>2. PICK k \in Bad : \A j \in Bad : k <= j
  <2>1. Bad \subseteq Nat
    BY RowsAre
  <2> HIDE DEF Bad
  <2> QED BY <1>1, <2>1, LeastOf
<1>3. k \in 0 .. Top /\ ~\E f : IsWayFrom(Top - k, f, key)
  BY <1>2
<1>4. PICK m \in 0 .. Top : m = Top - k
  BY <1>3, RowsAre
<1>5. CASE k = 0
  <2>1. m = Top
    BY <1>3, <1>4, <1>5, RowsAre
  <2> DEFINE g == [h \in {Top} |-> ChildFor(root, key)]
  <2>2. Top .. Top = {Top}
    BY RowsAre
  <2>3. DOMAIN g = Top .. Top /\ g[Top] = ChildFor(root, key)
    BY <2>2
  <2> HIDE DEF g
  <2>4. IsWayFrom(Top, g, key)
    BY <2>2, <2>3 DEF IsWayFrom
  <2> QED BY <1>3, <1>4, <2>1, <2>4
<1>6. CASE k # 0
  <2>1. k - 1 \in 0 .. Top /\ k - 1 < k /\ m + 1 = Top - (k - 1) /\ m < Top /\ m + 1 \in 0 .. Top
    BY <1>3, <1>4, <1>6, RowsAre
  <2>2. k - 1 \notin Bad
    <3>1. ~(k <= k - 1)
      BY <1>3, <2>1
    <3> QED BY <1>2, <3>1
  <2>3. PICK f : IsWayFrom(m + 1, f, key)
    BY <2>1, <2>2
  <2> DEFINE g == [h \in m .. Top |-> IF h = m THEN ChildFor(NodeAt(m + 1, f[m + 1]), key) ELSE f[h]]
  <2>4. \A h \in m .. Top : h = m \/ h \in m + 1 .. Top
    BY <1>4, RowsAre
  <2>5. m + 1 \in m .. Top /\ m \in m .. Top /\ m + 1 # m
    BY <2>1, RowsAre
  <2>6. \A h \in m + 1 .. Top : h \in m .. Top /\ h # m /\ (h # Top => h + 1 \in m + 1 .. Top /\ h + 1 \in m .. Top /\ h + 1 # m)
    BY <1>4, <2>1, RowsAre
  <2>7. DOMAIN g = m .. Top /\ g[m] = ChildFor(NodeAt(m + 1, f[m + 1]), key) /\ \A h \in m + 1 .. Top : g[h] = f[h]
    BY <2>5, <2>6
  <2> HIDE DEF g
  <2>8. \A h \in m + 1 .. Top :
          f[h] = IF h = Top THEN ChildFor(root, key) ELSE ChildFor(NodeAt(h + 1, f[h + 1]), key)
    BY <2>3 DEF IsWayFrom
  <2>9. ASSUME NEW h \in m .. Top
        PROVE  g[h] = IF h = Top THEN ChildFor(root, key) ELSE ChildFor(NodeAt(h + 1, g[h + 1]), key)
    <3>1. CASE h = m
      <4>1. g[m + 1] = f[m + 1] /\ m # Top
        BY <2>1, <2>6, <2>7, RowsAre
      <4> QED BY <2>7, <3>1, <4>1
    <3>2. CASE h \in m + 1 .. Top
      <4>1. h # Top => g[h + 1] = f[h + 1]
        BY <2>6, <2>7, <3>2
      <4> QED BY <2>7, <2>8, <3>2, <4>1
    <3> QED BY <2>4, <3>1, <3>2
  <2>10. IsWayFrom(m, g, key)
    BY <2>7, <2>9 DEF IsWayFrom
  <2> QED BY <1>3, <1>4, <2>10
<1> QED BY <1>5, <1>6

LEMMA WayIs ==
  ASSUME NEW key
  PROVE  IsWayFrom(0, WayTo(key), key)
<1> DEFINE way[h \in Rows] == IF h = Top THEN ChildFor(root, key)
                              ELSE ChildFor(NodeAt(h + 1, way[h + 1]), key)
<1>1. way = [h \in Rows |-> IF h = Top THEN ChildFor(root, key)
                            ELSE ChildFor(NodeAt(h + 1, way[h + 1]), key)]
  <2>1. PICK f : IsWayFrom(0, f, key)
    BY WayExists, RowsAre
  <2> DEFINE g == [h \in Rows |-> f[h]]
  <2>2. \A h \in Rows : g[h] = f[h]
    OBVIOUS
  <2>3. g = [h \in Rows |-> g[h]]
    OBVIOUS
  <2> HIDE DEF g
  <2>4. \A h \in Rows : g[h] = IF h = Top THEN ChildFor(root, key)
                               ELSE ChildFor(NodeAt(h + 1, g[h + 1]), key)
    <3>1. \A h \in Rows : h # Top => h + 1 \in Rows
      BY RowsAre
    <3>2. \A h \in Rows : f[h] = IF h = Top THEN ChildFor(root, key)
                                 ELSE ChildFor(NodeAt(h + 1, f[h + 1]), key)
      BY <2>1, RowsAre DEF IsWayFrom
    <3> QED BY <2>2, <3>1, <3>2
  <2>5. g = [h \in Rows |-> IF h = Top THEN ChildFor(root, key)
                            ELSE ChildFor(NodeAt(h + 1, g[h + 1]), key)]
    BY <2>3, <2>4
  <2> QED BY <2>5
<1> HIDE DEF way
<1>2. DOMAIN way = Rows /\ \A h \in Rows : way[h] = IF h = Top THEN ChildFor(root, key)
                                                   ELSE ChildFor(NodeAt(h + 1, way[h + 1]), key)
  BY <1>1
<1>3. WayTo(key) = [h \in Rows |-> way[h]]
  BY DEF WayTo, way
<1>4. DOMAIN WayTo(key) = Rows /\ \A h \in Rows : WayTo(key)[h] = way[h]
  BY <1>3
<1>5. \A h \in Rows : h # Top => h + 1 \in Rows
  BY RowsAre
<1> QED BY <1>2, <1>4, <1>5, RowsAre DEF IsWayFrom

-----------------------------------------------------------------------------
(***************************************************************************)
(* The tree.                                                               *)
(***************************************************************************)
Below(keys, rows, h) == IF h = 0 THEN keys ELSE DOMAIN rows[h - 1]

IsRoot(r, names) ==
  /\ r \in [childMap : Seq([key : Keys, pos : Int]), max_value : Int]
  /\ Ordered(r.childMap, Items(1)) /\ Len(r.childMap) <= P1
  /\ Keyed(r.childMap) = names
  /\ r.max_value = IF r.childMap = <<>> THEN NoKey ELSE LastKey(r.childMap)

\* A tree of the given keys.
IsTree(keys, r, rows) ==
  /\ keys \subseteq Keys /\ DOMAIN rows = Rows
  /\ \A h \in Rows : IsRow(h, rows[h], Below(keys, rows, h)) /\ HalfFull(h, rows[h])
  /\ IsRoot(r, DOMAIN rows[Top])

\* The entries of s say where the nodes of a row are.
Placed(table, s) == \A e \in ToSet(s) : table[e.key].pos = e.pos

IsAware(r, rows) ==
  /\ \A h \in Rows : \A id \in DOMAIN rows[h] : rows[h][id].pos \in Positions
  /\ Placed(rows[Top], r.childMap)
  /\ \A h \in Rows \ {0} : \A id \in DOMAIN rows[h] : Placed(rows[h - 1], rows[h][id].childMap)

LEMMA LeadsToName ==
  ASSUME NEW s, Ordered(s, Items(1)), NEW key \in Int, NEW x, LeadsTo(s, key, x)
  PROVE  Leads(Keyed(s), key, x.key)
BY KeyedIs DEF LeadsTo, Leads

LEMMA ChildIs ==
  ASSUME NEW m, Ordered(m.childMap, Items(1)), m.childMap # <<>>, m.max_value = LastKey(m.childMap),
         NEW key \in Int
  PROVE  LeadsTo(m.childMap, key, ChildFor(m, key))
<1>1. Items(1) = [key : Keys, pos : Int] /\ Keys \in SUBSET Int
  BY RowsAre DEF Items
<1>2. Ordered(m.childMap, [key : Keys, pos : Int])
  BY <1>1
<1> QED BY <1>1, <1>2, ChildForIs, Zenon

\* Between operations a node lists names of the row below.
LEMMA NodeLists ==
  ASSUME NEW keys, NEW r, NEW rows, IsTree(keys, r, rows), NEW h \in Rows \ {0}, NEW id \in DOMAIN rows[h]
  PROVE  /\ h - 1 \in Rows /\ DOMAIN rows[h - 1] \in SUBSET Nat /\ DOMAIN rows[h] \in SUBSET Nat
         /\ Covers(DOMAIN rows[h], DOMAIN rows[h - 1])
         /\ Ordered(rows[h][id].childMap, Items(1))
         /\ Keyed(rows[h][id].childMap) = Held(DOMAIN rows[h - 1], DOMAIN rows[h], id)
         /\ id \in Keyed(rows[h][id].childMap) /\ rows[h][id].childMap # <<>>
         /\ rows[h][id].max_value = LastKey(rows[h][id].childMap)
<1>1. h - 1 \in Rows /\ h # 0
  BY RowsAre
<1>2. PICK B : B = DOMAIN rows[h - 1]
  OBVIOUS
<1>3. PICK S : S = DOMAIN rows[h]
  OBVIOUS
<1>4. PICK n : n = rows[h][id]
  OBVIOUS
<1>5. IsRow(h, rows[h], B) /\ IsRow(h - 1, rows[h - 1], Below(keys, rows, h - 1))
  BY <1>1, <1>2 DEF IsTree, Below
<1>6. B \in SUBSET Nat /\ S \in SUBSET Nat /\ Covers(S, B)
  BY <1>2, <1>3, <1>5, RowsAre DEF IsRow
<1>7. IsNode(h, n, id, Held(B, S, id))
  BY <1>3, <1>4, <1>5 DEF IsRow
<1>8. /\ Ordered(n.childMap, Items(1)) /\ Keyed(n.childMap) = Held(B, S, id) /\ n.max_value = id
  BY <1>1, <1>7 DEF IsNode, Array, Items
<1>9. id \in Held(B, S, id)
  BY <1>3, <1>6 DEF Covers, Held
<1>10. n.childMap # <<>>
  <2>1. n.childMap = <<>> => Keyed(n.childMap) = {}
    BY DEF Keyed
  <2> QED BY <1>8, <1>9, <2>1
<1>11. n.max_value = LastKey(n.childMap)
  <2>1. LastKey(n.childMap) \in Held(B, S, id) /\ \A k \in Held(B, S, id) : k <= LastKey(n.childMap)
    BY <1>8, <1>10, GreatestHeld
  <2>2. LastKey(n.childMap) \in Nat /\ LastKey(n.childMap) <= id /\ id \in Nat /\ id <= LastKey(n.childMap)
    BY <1>3, <1>6, <1>9, <2>1 DEF Held
  <2> QED BY <1>8, <2>2
<1> QED BY <1>1, <1>2, <1>3, <1>4, <1>6, <1>8, <1>9, <1>10, <1>11

\* client::search and client::insert find every node of their way, which is
\* where the key is or belongs.
LEMMA AimsAre ==
  ASSUME NEW keys, IsTree(keys, root, row), IsAware(root, row), root.childMap # <<>>,
         NEW key \in Keys, NEW way, IsWayFrom(0, way, key)
  PROVE  \A h \in Rows :
           /\ Aim(DOMAIN row[h], key, way[h].key) /\ Found(h, way[h])
           /\ h # Top => /\ way[h] \in ToSet(row[h + 1][way[h + 1].key].childMap)
                         /\ way[h].key \in Held(DOMAIN row[h], DOMAIN row[h + 1], way[h + 1].key)
<1> DEFINE Good(h) == Aim(DOMAIN row[h], key, way[h].key) /\ Found(h, way[h])
<1>0. key \in Nat
  BY RowsAre
<1>1. Good(Top)
  <2>1. way[Top] = ChildFor(root, key)
    BY RowsAre DEF IsWayFrom
  <2>2. Ordered(root.childMap, Items(1)) /\ Keyed(root.childMap) = DOMAIN row[Top] /\ root.max_value = LastKey(root.childMap)
    BY DEF IsTree, IsRoot
  <2>4. LeadsTo(root.childMap, key, way[Top])
    BY <1>0, <2>1, <2>2, ChildIs
  <2>5. Leads(DOMAIN row[Top], key, way[Top].key)
    BY <1>0, <2>2, <2>4, LeadsToName
  <2>6. DOMAIN row[Top] \subseteq Nat
    BY RowsAre DEF IsTree, IsRow
  <2>7. Aim(DOMAIN row[Top], key, way[Top].key)
    BY <1>0, <2>5, <2>6 DEF Aim, Leads
  <2>8. Found(Top, way[Top])
    BY <2>4, <2>5 DEF IsAware, Placed, LeadsTo, Found, Leads
  <2> QED BY <2>7, <2>8
<1>2. ASSUME NEW h \in Rows, h # Top, Good(h + 1)
      PROVE  /\ Good(h) /\ way[h] \in ToSet(row[h + 1][way[h + 1].key].childMap)
             /\ way[h].key \in Held(DOMAIN row[h], DOMAIN row[h + 1], way[h + 1].key)
  <2>1. h + 1 \in Rows \ {0} /\ (h + 1) - 1 = h
    BY <1>2, RowsAre
  <2>2. PICK w : w = way[h + 1].key
    OBVIOUS
  <2>3. PICK m : m = row[h + 1][w]
    OBVIOUS
  <2>4. w \in DOMAIN row[h + 1] /\ NodeAt(h + 1, way[h + 1]) = m /\ Aim(DOMAIN row[h + 1], key, w)
    BY <1>2, <2>2, <2>3 DEF Found, NodeAt
  <2>5. way[h] = ChildFor(m, key)
    BY <1>2, <2>4, RowsAre DEF IsWayFrom
  <2>6. /\ DOMAIN row[h] \in SUBSET Nat /\ DOMAIN row[h + 1] \in SUBSET Nat
        /\ Covers(DOMAIN row[h + 1], DOMAIN row[h])
        /\ Ordered(m.childMap, Items(1)) /\ m.childMap # <<>> /\ m.max_value = LastKey(m.childMap)
        /\ Keyed(m.childMap) = Held(DOMAIN row[h], DOMAIN row[h + 1], w)
    BY <2>1, <2>3, <2>4, NodeLists
  <2>8. LeadsTo(m.childMap, key, way[h])
    BY <1>0, <2>5, <2>6, ChildIs
  <2>9. PICK H : H = Held(DOMAIN row[h], DOMAIN row[h + 1], w)
    OBVIOUS
  <2>10. Leads(H, key, way[h].key)
    BY <1>0, <2>6, <2>8, <2>9, LeadsToName
  <2>11. Aim(DOMAIN row[h], key, way[h].key)
    BY <1>0, <2>4, <2>6, <2>9, <2>10, AimBelow
  <2>12. Placed(row[h], m.childMap)
    BY <2>1, <2>3, <2>4 DEF IsAware
  <2>13. way[h] \in ToSet(m.childMap) /\ Found(h, way[h])
    BY <2>8, <2>11, <2>12 DEF Placed, LeadsTo, Found, Aim
  <2> QED BY <2>2, <2>3, <2>9, <2>10, <2>11, <2>13 DEF Leads
<1> HIDE DEF Good
<1>3. \A h \in Rows : Good(h)
  <2> DEFINE Bad == {k \in 0 .. Top : ~Good(Top - k)}
  <2>1. SUFFICES ASSUME Bad # {} PROVE FALSE
    <3>1. \A h \in Rows : Top - h \in 0 .. Top /\ Top - (Top - h) = h
      BY RowsAre
    <3> QED BY <3>1
  <2>2. PICK k \in Bad : \A j \in Bad : k <= j
    <3>1. Bad \subseteq Nat
      BY RowsAre
    <3> HIDE DEF Bad
    <3> QED BY <2>1, <3>1, LeastOf
  <2>3. k \in 0 .. Top /\ ~Good(Top - k)
    BY <2>2
  <2>4. k # 0
    BY <1>1, <2>3, RowsAre
  <2>5. k - 1 \notin Bad
    <3>1. k - 1 \in Nat /\ ~(k <= k - 1)
      BY <2>3, <2>4, RowsAre
    <3> QED BY <2>2, <3>1
  <2>6. k - 1 \in 0 .. Top /\ Top - k \in Rows /\ Top - k # Top /\ (Top - k) + 1 = Top - (k - 1)
    BY <2>3, <2>4, RowsAre
  <2>7. Good((Top - k) + 1)
    BY <2>5, <2>6
  <2> QED BY <1>2, <2>3, <2>6, <2>7
<1>4. ASSUME NEW h \in Rows, h # Top PROVE Good(h + 1)
  <2>1. h + 1 \in Rows
    BY <1>4, RowsAre
  <2> QED BY <1>3, <2>1
<1> QED BY <1>2, <1>3, <1>4 DEF Good

-----------------------------------------------------------------------------
(***************************************************************************)
(* What becomes of the nodes on the way, from the leaf up.                 *)
(***************************************************************************)
\* A node m that takes notice of what has become of the node below.
Raised(m, below) ==
  IF below.new = <<>> THEN [node |-> Update(m, below.node), new |-> <<>>]
                      ELSE MidInsert(Update(m, below.node), Entry(Head(below.new)), P2)

GrownLeaf(way, key, value) == LeafInsert(NodeAt(0, way[0]), [key |-> key, value |-> value], C)

IsGrownTo(n, g, way, key, value) ==
  /\ DOMAIN g = 0 .. n
  /\ \A h \in 0 .. n : g[h] = IF h = 0 THEN GrownLeaf(way, key, value)
                                       ELSE Raised(NodeAt(h, way[h]), g[h - 1])

LEMMA GrownExists ==
  ASSUME NEW way, NEW key, NEW value, NEW n \in Rows
  PROVE  \E g : IsGrownTo(n, g, way, key, value)
<1> DEFINE Bad == {k \in Rows : ~\E g : IsGrownTo(k, g, way, key, value)}
<1>1. SUFFICES ASSUME Bad # {} PROVE FALSE
  OBVIOUS
<1>2. PICK k \in Bad : \A j \in Bad : k <= j
  <2>1. Bad \subseteq Nat
    BY RowsAre
  <2> HIDE DEF Bad
  <2> QED BY <1>1, <2>1, LeastOf
<1>3. k \in 0 .. Top /\ k \in Nat /\ ~\E g : IsGrownTo(k, g, way, key, value)
  BY <1>2, RowsAre
<1>4. CASE k = 0
  <2> DEFINE g == [h \in {0} |-> GrownLeaf(way, key, value)]
  <2>1. DOMAIN g = 0 .. 0 /\ g[0] = GrownLeaf(way, key, value)
    OBVIOUS
  <2> HIDE DEF g
  <2>2. IsGrownTo(0, g, way, key, value)
    BY <2>1 DEF IsGrownTo
  <2> QED BY <1>3, <1>4, <2>2
<1>5. CASE k # 0
  <2>1. k - 1 \in Rows /\ k - 1 \in Nat /\ ~(k <= k - 1)
    BY <1>3, <1>5, RowsAre
  <2>2. PICK f : IsGrownTo(k - 1, f, way, key, value)
    BY <1>2, <2>1
  <2> DEFINE g == [h \in 0 .. k |-> IF h = k THEN Raised(NodeAt(k, way[k]), f[k - 1]) ELSE f[h]]
  <2>3. \A h \in 0 .. k : h = k \/ h \in 0 .. k - 1
    BY <1>3
  <2>4. \A h \in 0 .. k - 1 : h \in 0 .. k /\ h # k /\ (h # 0 => h - 1 \in 0 .. k - 1)
    BY <1>3
  <2>5. DOMAIN g = 0 .. k /\ g[k] = Raised(NodeAt(k, way[k]), f[k - 1]) /\ \A h \in 0 .. k - 1 : g[h] = f[h]
    BY <1>3, <2>4
  <2> HIDE DEF g
  <2>6. \A h \in 0 .. k - 1 : f[h] = IF h = 0 THEN GrownLeaf(way, key, value)
                                     ELSE Raised(NodeAt(h, way[h]), f[h - 1])
    BY <2>2 DEF IsGrownTo
  <2>7. ASSUME NEW h \in 0 .. k
        PROVE  g[h] = IF h = 0 THEN GrownLeaf(way, key, value) ELSE Raised(NodeAt(h, way[h]), g[h - 1])
    <3>1. CASE h = k
      <4>1. g[k - 1] = f[k - 1]
        BY <1>3, <1>5, <2>5
      <4> QED BY <1>5, <2>5, <3>1, <4>1
    <3>2. CASE h \in 0 .. k - 1
      <4>1. h # 0 => g[h - 1] = f[h - 1]
        BY <2>4, <2>5, <3>2
      <4> QED BY <2>5, <2>6, <3>2, <4>1
    <3> QED BY <2>3, <3>1, <3>2
  <2>8. IsGrownTo(k, g, way, key, value)
    BY <2>5, <2>7 DEF IsGrownTo
  <2> QED BY <1>3, <2>8
<1> QED BY <1>4, <1>5

LEMMA GrownIs ==
  ASSUME NEW way, NEW key, NEW value
  PROVE  IsGrownTo(Top, Grown(way, key, value), way, key, value)
<1> DEFINE grown[h \in Rows] ==
      IF h = 0
      THEN LeafInsert(NodeAt(0, way[0]), [key |-> key, value |-> value], C)
      ELSE LET below == grown[h - 1]
               m     == Update(NodeAt(h, way[h]), below.node)
           IN  IF below.new = <<>> THEN [node |-> m, new |-> <<>>]
                                   ELSE MidInsert(m, Entry(Head(below.new)), P2)
<1>1. grown = [h \in Rows |-> IF h = 0 THEN GrownLeaf(way, key, value)
                              ELSE Raised(NodeAt(h, way[h]), grown[h - 1])]
  <2>1. PICK f : IsGrownTo(Top, f, way, key, value)
    BY GrownExists, RowsAre
  <2> DEFINE g == [h \in Rows |-> f[h]]
  <2>2. \A h \in Rows : g[h] = f[h]
    OBVIOUS
  <2>3. g = [h \in Rows |-> g[h]]
    OBVIOUS
  <2> HIDE DEF g
  <2>4. \A h \in Rows : g[h] = IF h = 0 THEN GrownLeaf(way, key, value)
                               ELSE Raised(NodeAt(h, way[h]), g[h - 1])
    <3>1. \A h \in Rows : h # 0 => h - 1 \in Rows
      BY RowsAre
    <3>2. \A h \in Rows : f[h] = IF h = 0 THEN GrownLeaf(way, key, value)
                                 ELSE Raised(NodeAt(h, way[h]), f[h - 1])
      BY <2>1, RowsAre DEF IsGrownTo
    <3> QED BY <2>2, <3>1, <3>2
  <2>5. g = [h \in Rows |-> IF h = 0 THEN GrownLeaf(way, key, value)
                            ELSE Raised(NodeAt(h, way[h]), g[h - 1])]
    BY <2>3, <2>4
  <2>6. g = [h \in Rows |->
               IF h = 0
               THEN LeafInsert(NodeAt(0, way[0]), [key |-> key, value |-> value], C)
               ELSE IF g[h - 1].new = <<>>
                    THEN [node |-> Update(NodeAt(h, way[h]), g[h - 1].node), new |-> <<>>]
                    ELSE MidInsert(Update(NodeAt(h, way[h]), g[h - 1].node), Entry(Head(g[h - 1].new)), P2)]
    BY <2>5, Zenon DEF Raised, GrownLeaf
  <2>7. grown = [h \in Rows |->
               IF h = 0
               THEN LeafInsert(NodeAt(0, way[0]), [key |-> key, value |-> value], C)
               ELSE IF grown[h - 1].new = <<>>
                    THEN [node |-> Update(NodeAt(h, way[h]), grown[h - 1].node), new |-> <<>>]
                    ELSE MidInsert(Update(NodeAt(h, way[h]), grown[h - 1].node), Entry(Head(grown[h - 1].new)), P2)]
    BY <2>6
  <2> HIDE DEF grown
  <2> QED BY <2>7, Zenon DEF Raised, GrownLeaf
<1> HIDE DEF grown
<1>2. DOMAIN grown = Rows /\ \A h \in Rows : grown[h] = IF h = 0 THEN GrownLeaf(way, key, value)
                                                       ELSE Raised(NodeAt(h, way[h]), grown[h - 1])
  BY <1>1
<1>3. Grown(way, key, value) = [h \in Rows |-> grown[h]]
  BY DEF Grown, grown
<1>4. DOMAIN Grown(way, key, value) = Rows /\ \A h \in Rows : Grown(way, key, value)[h] = grown[h]
  BY <1>3
<1>5. \A h \in Rows : h # 0 => h - 1 \in Rows
  BY RowsAre
<1> QED BY <1>2, <1>4, <1>5, RowsAre DEF IsGrownTo

\* pair is made of the node n: one that has the entries X, or two.
IsMadeOf(h, pair, n, X) ==
  Keeps(h, pair, n, Items(h), X, Room(h)) \/ Shares(h, pair, n, Items(h), X, Room(h))

\* The entries of an inner node, s, once the child named b has become the
\* nodes named A: X are its own, but for b, and theirs.
Relists(X, s, b, A) ==
  /\ KeysOf(X) = (Keyed(s) \ {b}) \cup A
  /\ \A x \in X : x.key \notin A => x \in ToSet(s)

LEMMA RaisedIs ==
  ASSUME NEW h \in Nat \ {0}, NEW m, m \in NodeSet(h), Ordered(m.childMap, Items(1)),
         Len(m.childMap) <= P2,
         NEW below, NEW Y, ArePieces(h - 1, below, Y), IsPair(below), NamesOf(below) \subseteq Keys,
         below.node.old_max \in Keyed(m.childMap),
         \A k \in Keyed(m.childMap) \ {below.node.old_max} : k \notin NamesOf(below)
  PROVE  \E X : /\ IsMadeOf(h, Raised(m, below), m, X)
                /\ Relists(X, m.childMap, below.node.old_max, NamesOf(below))
<1>1. PICK s : s = m.childMap
  OBVIOUS
<1>2. PICK b : b = below.node.old_max
  OBVIOUS
<1>3. PICK T : T = Items(1)
  OBVIOUS
<1>4. /\ Keyable(T) /\ Ordered(s, T) /\ s \in Seq(T) /\ T = [key : Keys, pos : Int]
      /\ Items(h) = T /\ Room(h) = P2 /\ Len(s) \in Nat
  <2>1. T = [key : Keys, pos : Int] /\ Items(h) = T /\ Room(h) = P2
    <3>1. h # 0 /\ 1 # 0
      OBVIOUS
    <3> QED BY <1>3, <3>1, Zenon DEF Items, Room
  <2>2. Keyable(T) /\ Ordered(s, T)
    BY <1>1, <1>3, RowsAre
  <2>3. s \in Seq(T)
    BY <2>2 DEF Ordered
  <2>4. Len(s) \in Nat
    BY <2>3
  <2> QED BY <2>1, <2>2, <2>3, <2>4
<1>5. PICK x \in ToSet(s) : x.key = b
  BY <1>1, <1>2, KeyedIs
<1>6. PICK a : a = below.node.max_value
  OBVIOUS
<1>7. below.node \in Pieces(below) /\ a \in NamesOf(below) /\ a \in Keys
  BY <1>6 DEF Pieces, NamesOf
<1>8. \A y \in ToSet(s) : y.key = a => y = x
  <2>1. ASSUME NEW y \in ToSet(s), y.key = a PROVE y = x
    <3>1. y.key \in Keyed(s)
      BY KeyedIs
    <3>2. y.key = b
      BY <1>1, <1>2, <1>7, <2>1, <3>1
    <3> QED BY <1>4, <1>5, <3>2, OneEntryPerKey
  <2> QED BY <2>1
<1>9. PICK t : Update(m, below.node) = MidHolding(m, t) /\ Renames(t, T, s, x, a)
  <2>1. Ordered(m.childMap, [key : Keys, pos : Int]) /\ Keys \in SUBSET Int
    BY <1>1, <1>4, RowsAre
  <2>2. /\ below.node.max_value \in Keys /\ x \in ToSet(m.childMap) /\ x.key = below.node.old_max
        /\ \A y \in ToSet(m.childMap) : y.key = below.node.max_value => y = x
    BY <1>1, <1>2, <1>5, <1>6, <1>7, <1>8
  <2>3. \E u : Update(m, below.node) = MidHolding(m, u)
               /\ Renames(u, [key : Keys, pos : Int], m.childMap, x, below.node.max_value)
    BY <2>1, <2>2, UpdateIs
  <2> QED BY <1>1, <1>4, <1>6, <2>3
<1>10. PICK e : e = [x EXCEPT !.key = a]
  OBVIOUS
<1>11. x \in T /\ e \in T /\ e.key = a
  <2>1. x \in T
    BY <1>4, ToSetIsTyped
  <2> QED BY <1>4, <1>7, <1>10, <2>1
<1>12. PICK R : R = (ToSet(s) \ {x}) \cup {e}
  OBVIOUS
<1>13. Ordered(t, T) /\ Len(t) = Len(s) /\ ToSet(t) = R
  BY <1>9, <1>10, <1>12 DEF Renames
<1>14. {y.key : y \in R} = (Keyed(s) \ {b}) \cup {a}
  <2>1. ASSUME NEW y \in ToSet(s), y # x PROVE y.key \in Keyed(s) \ {b}
    BY <1>4, <1>5, <2>1, OneEntryPerKey, KeyedIs
  <2>2. ASSUME NEW k \in Keyed(s) \ {b} PROVE \E y \in ToSet(s) \ {x} : y.key = k
    BY <1>5, KeyedIs
  <2> QED BY <1>11, <1>12, <2>1, <2>2
<1>15. t # <<>>
  <2>1. R # {}
    BY <1>12
  <2>2. t \in Seq(T)
    BY <1>13 DEF Ordered
  <2> QED BY <1>13, <2>1, <2>2, ToSetIsTyped
<1>16. h # 0
  OBVIOUS
<1>17. CASE below.new = <<>>
  <2>1. Raised(m, below) = [node |-> MidHolding(m, t), new |-> <<>>]
    BY <1>9, <1>17 DEF Raised
  <2>2. Keeps(h, Raised(m, below), m, Items(h), R, Room(h))
    BY <1>1, <1>4, <1>13, <1>15, <1>16, <2>1 DEF Keeps, Holding, Array
  <2>3. NamesOf(below) = {a}
    BY <1>6, <1>17 DEF NamesOf, Pieces, ToSet
  <2>4. Relists(R, s, b, NamesOf(below))
    BY <1>11, <1>12, <1>14, <2>3 DEF Relists, KeysOf
  <2> QED BY <1>1, <1>2, <2>2, <2>4 DEF IsMadeOf
<1>18. ASSUME NEW q, below.new = <<q>>, a < q.max_value
       PROVE  \E X : /\ IsMadeOf(h, Raised(m, below), m, X)
                     /\ Relists(X, s, b, NamesOf(below))
  <2>1. PICK m2 : m2 = MidHolding(m, t)
    OBVIOUS
  <2>2. /\ m2 \in NodeSet(h) /\ m2.childMap = t
        /\ \A u : MidHolding(m2, u) = MidHolding(m, u)
    <3>1. IsHolding(h, m2, m, t)
      BY <1>4, <1>13, <1>15, <1>16, <2>1, HoldingIs DEF Holding
    <3>2. ASSUME NEW u PROVE MidHolding(m2, u) = MidHolding(m, u)
      <4>1. m \in [childMap : Seq(T), old_max : Int, max_value : Int, pos : Int]
        BY <1>4, <1>16 DEF NodeSet
      <4> QED BY <2>1, <4>1 DEF MidHolding
    <3> QED BY <1>16, <3>1, <3>2 DEF IsHolding, Array
  <2>3. PICK f : f = Entry(q)
    OBVIOUS
  <2>4. /\ q \in Pieces(below) /\ NamesOf(below) = {a, q.max_value} /\ q.max_value \in Keys
        /\ Head(below.new) = q /\ below.new # <<>>
    <3>1. ToSet(below.new) = {q}
      BY <1>18 DEF ToSet
    <3> QED BY <1>6, <1>18, <3>1 DEF NamesOf, Pieces
  <2>5. f \in T /\ f.key = q.max_value
    <3>1. q.pos \in Int
      <4>1. q \in NodeSet(h - 1)
        BY <2>4 DEF ArePieces
      <4> QED BY <4>1 DEF NodeSet
    <3> QED BY <1>4, <2>3, <2>4, <3>1 DEF Entry
  <2>6. f.key \notin Keyed(t)
    <3>1. Keyed(t) = (Keyed(s) \ {b}) \cup {a}
      BY <1>13, <1>14, KeyedIs
    <3>2. q.max_value # a
      BY <1>7, <1>18, <2>4, RowsAre
    <3> QED BY <1>1, <1>2, <2>4, <2>5, <3>1, <3>2
  <2>7. PICK pair : pair = MidInsert(m2, f, P2)
    OBVIOUS
  <2>8. Raised(m, below) = pair
    BY <1>9, <2>1, <2>3, <2>4, <2>7 DEF Raised
  <2>9. PICK X : X = R \cup {f}
    OBVIOUS
  <2>10. Keeps(h, pair, m2, T, X, P2) \/ Shares(h, pair, m2, T, X, P2)
    <3>1. Ordered(m2.childMap, T) /\ Len(m2.childMap) <= P2 /\ f.key \notin Keyed(m2.childMap) /\ P2 \in Nat \ {0}
      BY <1>1, <1>13, <2>2, <2>6, RowsAre
    <3>2. X = ToSet(m2.childMap) \cup {f}
      BY <1>13, <2>2, <2>9
    <3> QED BY <1>4, <2>5, <2>7, <3>1, <3>2, MidInsertIs, Zenon
  <2>11. Keeps(h, pair, m, T, X, P2) \/ Shares(h, pair, m, T, X, P2)
    <3>1. \A u : Holding(h, m2, u) = Holding(h, m, u)
      BY <1>16, <2>2 DEF Holding
    <3>2. Len(Array(h, m2)) = Len(Array(h, m))
      BY <1>1, <1>13, <1>16, <2>2 DEF Array
    <3> QED BY <2>10, <3>1, <3>2, Zenon DEF Keeps, Shares
  <2>12. Relists(X, s, b, NamesOf(below))
    <3>1. {y.key : y \in X} = {y.key : y \in R} \cup {f.key}
      BY <2>9
    <3>2. \A y \in X : y.key \notin {a, f.key} => y \in ToSet(s)
      BY <1>11, <1>12, <2>9
    <3> QED BY <1>14, <2>4, <2>5, <3>1, <3>2 DEF Relists, KeysOf
  <2> QED BY <1>4, <2>8, <2>11, <2>12 DEF IsMadeOf
<1> QED BY <1>1, <1>2, <1>6, <1>17, <1>18 DEF IsPair

-----------------------------------------------------------------------------
(***************************************************************************)
(* A row and what an insertion makes of it.                                *)
(***************************************************************************)
IsRegrown(h, table, w, B, b, A, pair, X) ==
  /\ ArePieces(h, pair, X) /\ IsPair(pair) /\ pair.node.old_max = w
  /\ RowRegrown(h, table, w, B, b, A, pair) /\ HalfFull(h, Regrown(table, w, pair))

LEMMA ArrayLength ==
  ASSUME NEW h, NEW n \in NodeSet(h)
  PROVE  Len(Array(h, n)) \in Nat
<1>1. CASE h = 0
  <2>1. n.arr \in Seq([key : Keys, value : Values])
    BY <1>1 DEF NodeSet
  <2>2. Len(n.arr) \in Nat
    BY <2>1
  <2> QED BY <1>1, <2>2 DEF Array
<1>2. CASE h # 0
  <2>1. n.childMap \in Seq([key : Keys, pos : Int])
    BY <1>2 DEF NodeSet
  <2>2. Len(n.childMap) \in Nat
    BY <2>1
  <2> QED BY <1>2, <2>2 DEF Array
<1> QED BY <1>1, <1>2

LEMMA MadeRow ==
  ASSUME NEW h \in Rows, NEW B \in SUBSET Keys, NEW table, IsRow(h, table, B), HalfFull(h, table),
         NEW w \in DOMAIN table, NEW b \in Nat, NEW A \in SUBSET Keys, Apart(B, {b}, A),
         Apart(DOMAIN table, {w}, {}), Matches(DOMAIN table, {w}, B, {b}),
         NEW pair, NEW X, IsMadeOf(h, pair, table[w], X),
         KeysOf(X) = (Held(B, DOMAIN table, w) \ {b}) \cup A
  PROVE  IsRegrown(h, table, w, B, b, A, pair, X)
<1>1. h \in Nat
  BY RowsAre
<1>2. PICK n : n = table[w]
  OBVIOUS
<1>3. n \in NodeSet(h) /\ n.max_value = w /\ n.old_max = w
  BY <1>2 DEF IsRow, IsNode
<1>4. (IF h = 0 THEN n.max_value ELSE n.old_max) = w
  BY <1>3
<1>5. /\ ArePieces(h, pair, X) /\ IsPair(pair) /\ pair.node.old_max = w
      /\ \/ pair.new = <<>> /\ Len(Array(h, pair.node)) >= Len(Array(h, n))
         \/ \A p \in Pieces(pair) : 2 * Len(Array(h, p)) >= Room(h)
  <2>1. IsMade(h, pair, n, X)
    BY <1>1, <1>2, <1>3, KeptIs, SharedIs DEF IsMadeOf
  <2> QED BY <1>4, <2>1, Zenon DEF IsMade
<1>6. RowRegrown(h, table, w, B, b, A, pair)
  <2>1. ArePieces(h, pair, X)
    BY <1>5
  <2> QED BY <2>1, RegrownIs
<1>7. HalfFull(h, Regrown(table, w, pair))
  <2>1. pair.node \in NodeSet(h)
    <3>1. pair.node \in Pieces(pair)
      BY DEF Pieces
    <3> QED BY <1>5, <3>1 DEF ArePieces
  <2>2. Len(Array(h, table[w])) \in Int /\ Len(Array(h, pair.node)) \in Int
    BY <1>2, <1>3, <2>1, ArrayLength
  <2>3. DOMAIN table \subseteq Nat
    BY RowsAre DEF IsRow
  <2>4. Apart(DOMAIN table, {w}, NamesOf(pair))
    BY <1>6 DEF RowRegrown
  <2> QED BY <1>1, <1>2, <1>5, <2>2, <2>3, <2>4, RegrownIsHalfFull
<1> QED BY <1>5, <1>6, <1>7 DEF IsRegrown

-----------------------------------------------------------------------------
(***************************************************************************)
(* An insertion: what every row gets.                                      *)
(***************************************************************************)
Inserting(keys, way, grown, key, value) ==
  /\ IsTree(keys, root, row) /\ IsAware(root, row) /\ root.childMap # <<>>
  /\ key \in Keys /\ value \in Values
  /\ IsWayFrom(0, way, key) /\ IsGrownTo(Top, grown, way, key, value)

\* The key that goes in the row below, and the keys that come.
Gone(way, key, h)   == IF h = 0 THEN key ELSE way[h - 1].key
Come(grown, key, h) == IF h = 0 THEN {key} ELSE NamesOf(grown[h - 1])

\* The entries of the node on the way afterwards.
LeafHas(X, n, key, value) ==
  X = {x \in ToSet(n.arr) : x.key # key} \cup {[key |-> key, value |-> value]}

HasThem(X, n, h, way, grown, key, value) ==
  IF h = 0 THEN LeafHas(X, n, key, value)
           ELSE Relists(X, n.childMap, Gone(way, key, h), Come(grown, key, h))

IsStep(keys, way, grown, key, value, h) ==
  \E X :
    /\ IsRegrown(h, row[h], way[h].key, Below(keys, row, h), Gone(way, key, h), Come(grown, key, h), grown[h], X)
    /\ HasThem(X, row[h][way[h].key], h, way, grown, key, value)

LEMMA LeafStep ==
  ASSUME NEW keys, NEW way, NEW grown, NEW key, NEW value, Inserting(keys, way, grown, key, value)
  PROVE  IsStep(keys, way, grown, key, value, 0)
<1>1. /\ IsTree(keys, root, row) /\ key \in Keys /\ value \in Values /\ key \in Nat
      /\ IsGrownTo(Top, grown, way, key, value) /\ 0 \in Rows
  BY RowsAre DEF Inserting
<1>2. PICK w : w = way[0].key
  OBVIOUS
<1>3. PICK n : n = row[0][w]
  OBVIOUS
<1>4. PICK S : S = DOMAIN row[0]
  OBVIOUS
<1>5. Aim(S, key, w) /\ Found(0, way[0])
  BY <1>1, <1>2, <1>4, AimsAre DEF Inserting
<1>6. NodeAt(0, way[0]) = n
  BY <1>2, <1>3, <1>5 DEF NodeAt
<1>7. IsRow(0, row[0], keys) /\ HalfFull(0, row[0]) /\ keys \in SUBSET Keys
  BY <1>1, RowsAre DEF IsTree, Below
<1>8. keys \in SUBSET Nat /\ S \in SUBSET Nat /\ Covers(S, keys) /\ w \in S
  BY <1>4, <1>5, <1>7, RowsAre DEF IsRow, Aim
<1>9. PICK H : H = Held(keys, S, w)
  OBVIOUS
<1>10. n \in NodeSet(0) /\ Ordered(n.arr, Items(0)) /\ Len(n.arr) <= C /\ n.max_value = w /\ n.old_max = w /\ Keyed(n.arr) = H
  <2>1. IsNode(0, n, w, H)
    BY <1>3, <1>4, <1>7, <1>8, <1>9 DEF IsRow
  <2> QED BY <2>1 DEF IsNode, Array, Room
<1>11. n.arr # <<>> /\ LastKey(n.arr) = w
  <2>1. w \in H
    BY <1>8, <1>9 DEF Held, Covers
  <2>2. n.arr # <<>>
    <3>1. n.arr = <<>> => Keyed(n.arr) = {}
      BY DEF Keyed
    <3> QED BY <1>10, <2>1, <3>1
  <2>3. LastKey(n.arr) \in H /\ \A k \in H : k <= LastKey(n.arr)
    BY <1>10, <2>2, GreatestHeld
  <2>4. LastKey(n.arr) \in Nat /\ w \in Nat /\ LastKey(n.arr) <= w /\ w <= LastKey(n.arr)
    BY <1>8, <1>9, <2>1, <2>3 DEF Held
  <2> QED BY <2>2, <2>4
<1>12. PICK e : e = [key |-> key, value |-> value]
  OBVIOUS
<1>13. PICK X : X = {x \in ToSet(n.arr) : x.key # e.key} \cup {e}
  OBVIOUS
<1>14. PICK pair : pair = grown[0]
  OBVIOUS
<1>15. pair = LeafInsert(n, e, C)
  <2>1. 0 \in 0 .. Top
    BY <1>1 DEF Rows, Top
  <2> QED BY <1>1, <1>6, <1>12, <1>14, <2>1 DEF IsGrownTo, GrownLeaf
<1>16. IsMadeOf(0, pair, n, X)
  <2>1. /\ Items(0) = [key : Keys, value : Values] /\ Room(0) = C /\ e \in Items(0) /\ Keyable(Items(0)) /\ C \in Nat \ {0}
    BY <1>1, <1>12, RowsAre DEF Items, Room
  <2>2. n \in [arr : Seq(Items(0)), old_max : Int, max_value : Int, pos : Int]
    BY <1>10, <2>1 DEF NodeSet
  <2>3. Keeps(0, pair, n, Items(0), X, C) \/ Shares(0, pair, n, Items(0), X, C)
    <3>1. Ascending(n.arr) /\ n.max_value = LastKey(n.arr) /\ n.old_max = n.max_value
      BY <1>10, <1>11 DEF Ordered
    <3>2. PICK T : T = Items(0)
      OBVIOUS
    <3> QED BY <1>10, <1>11, <1>13, <1>15, <2>1, <2>2, <3>1, <3>2, LeafInsertIs
  <2> QED BY <2>1, <2>3 DEF IsMadeOf
<1>17. KeysOf(X) = (H \ {key}) \cup {key}
  <2>1. e.key = key
    BY <1>12
  <2> QED BY <1>10, <1>13, <2>1, KeyedIs DEF KeysOf
<1>18. Apart(keys, {key}, {key})
  <2>1. \A k \in keys \ {key} : k < key \/ key < k
    BY <1>1, <1>8
  <2> QED BY <2>1 DEF Apart
<1>19. Matches(S, {w}, keys, {key}) /\ Apart(S, {w}, {})
  BY <1>1, <1>5, <1>8, AimMatches
<1>20. IsRegrown(0, row[0], w, keys, key, {key}, pair, X)
  BY <1>1, <1>3, <1>4, <1>7, <1>8, <1>9, <1>16, <1>17, <1>18, <1>19, MadeRow
<1>21. Below(keys, row, 0) = keys /\ Gone(way, key, 0) = key /\ Come(grown, key, 0) = {key}
  BY DEF Below, Gone, Come
<1>22. HasThem(X, row[0][way[0].key], 0, way, grown, key, value)
  <2>1. e.key = key
    BY <1>12
  <2>2. LeafHas(X, row[0][way[0].key], key, value)
    BY <1>2, <1>3, <1>12, <1>13, <2>1 DEF LeafHas
  <2> QED BY <2>2 DEF HasThem
<1> QED BY <1>2, <1>14, <1>20, <1>21, <1>22 DEF IsStep

LEMMA InnerStep ==
  ASSUME NEW keys, NEW way, NEW grown, NEW key, NEW value, Inserting(keys, way, grown, key, value),
         NEW h \in Rows \ {0}, IsStep(keys, way, grown, key, value, h - 1)
  PROVE  IsStep(keys, way, grown, key, value, h)
<1>1. /\ IsTree(keys, root, row) /\ IsAware(root, row) /\ root.childMap # <<>> /\ key \in Keys /\ key \in Nat
      /\ IsWayFrom(0, way, key) /\ IsGrownTo(Top, grown, way, key, value)
  BY RowsAre DEF Inserting
<1>2. /\ h \in Nat \ {0} /\ h # 0 /\ h - 1 \in Rows /\ h - 1 # Top /\ (h - 1) + 1 = h /\ h \in 0 .. Top
  BY RowsAre
<1>3. PICK w : w = way[h].key
  OBVIOUS
<1>4. PICK b : b = way[h - 1].key
  OBVIOUS
<1>5. PICK B : B = DOMAIN row[h - 1]
  OBVIOUS
<1>6. PICK S : S = DOMAIN row[h]
  OBVIOUS
<1>7. PICK n : n = row[h][w]
  OBVIOUS
<1>8. PICK below : below = grown[h - 1]
  OBVIOUS
<1>9. PICK A : A = NamesOf(below)
  OBVIOUS
<1>10. Aim(S, key, w) /\ Found(h, way[h]) /\ b \in Held(B, S, w)
  BY <1>1, <1>2, <1>3, <1>4, <1>5, <1>6, AimsAre
<1>11. NodeAt(h, way[h]) = n /\ w \in S
  BY <1>3, <1>7, <1>10 DEF NodeAt, Found, Aim
<1>12. IsRow(h, row[h], B) /\ HalfFull(h, row[h])
  BY <1>1, <1>2, <1>5 DEF IsTree, Below
<1>13. /\ B \in SUBSET Keys /\ B \in SUBSET Nat /\ S \in SUBSET Nat /\ Covers(S, B)
       /\ Ordered(n.childMap, Items(1)) /\ Keyed(n.childMap) = Held(B, S, w)
  <2>1. /\ B \in SUBSET Nat /\ S \in SUBSET Nat /\ Covers(S, B)
        /\ Ordered(n.childMap, Items(1)) /\ Keyed(n.childMap) = Held(B, S, w)
    BY <1>1, <1>5, <1>6, <1>7, <1>11, NodeLists
  <2>2. B \in SUBSET Keys
    BY <1>1, <1>2, <1>5 DEF IsTree, IsRow
  <2> QED BY <2>1, <2>2
<1>14. n \in NodeSet(h) /\ Len(n.childMap) <= P2
  <2>1. IsNode(h, n, w, Held(B, S, w))
    BY <1>6, <1>7, <1>11, <1>12 DEF IsRow
  <2> QED BY <1>2, <2>1 DEF IsNode, Array, Room
<1>15. PICK Y : IsRegrown(h - 1, row[h - 1], way[h - 1].key, Below(keys, row, h - 1),
                          Gone(way, key, h - 1), Come(grown, key, h - 1), grown[h - 1], Y)
  BY DEF IsStep
<1>16. /\ ArePieces(h - 1, below, Y) /\ IsPair(below) /\ below.node.old_max = b
       /\ Apart(B, {b}, A) /\ A \subseteq Keys
  BY <1>4, <1>5, <1>8, <1>9, <1>15 DEF IsRegrown, RowRegrown
<1>17. \A k \in B \ {b} : k \notin A
  <2>1. ASSUME NEW k \in B \ {b} PROVE \A x \in A : k # x
    <3>1. \A x \in A : x \in Nat /\ k \in Nat
      BY <1>13, <1>16, RowsAre
    <3>2. \A x \in A : k < x \/ x < k
      BY <1>16 DEF Apart
    <3> QED BY <3>1, <3>2
  <2> QED BY <2>1
<1>18. b \in Nat /\ b \in B
  BY <1>10, <1>13 DEF Held
<1>19. PICK pair : pair = grown[h]
  OBVIOUS
<1>20. pair = Raised(n, below)
  BY <1>1, <1>2, <1>8, <1>11, <1>19 DEF IsGrownTo
<1>21. PICK X : IsMadeOf(h, pair, n, X) /\ Relists(X, n.childMap, b, A)
  <2>1. below.node.old_max \in Keyed(n.childMap)
    BY <1>10, <1>13, <1>16
  <2>2. \A k \in Keyed(n.childMap) \ {below.node.old_max} : k \notin NamesOf(below)
    BY <1>9, <1>13, <1>16, <1>17 DEF Held
  <2>3. \E X : /\ IsMadeOf(h, Raised(n, below), n, X)
               /\ Relists(X, n.childMap, below.node.old_max, NamesOf(below))
    BY <1>2, <1>9, <1>13, <1>14, <1>16, <2>1, <2>2, RaisedIs
  <2> QED BY <1>9, <1>16, <1>20, <2>3
<1>22. KeysOf(X) = (Held(B, S, w) \ {b}) \cup A
  BY <1>13, <1>21 DEF Relists
<1>23. Matches(S, {w}, B, {b}) /\ Apart(S, {w}, {})
  BY <1>1, <1>10, <1>13, AimMatches
<1>24. IsRegrown(h, row[h], w, B, b, A, pair, X)
  BY <1>6, <1>7, <1>11, <1>12, <1>13, <1>16, <1>18, <1>21, <1>22, <1>23, MadeRow
<1>25. Below(keys, row, h) = B /\ Gone(way, key, h) = b /\ Come(grown, key, h) = A
  BY <1>2, <1>4, <1>5, <1>8, <1>9 DEF Below, Gone, Come
<1>26. HasThem(X, row[h][way[h].key], h, way, grown, key, value)
  BY <1>2, <1>3, <1>7, <1>21, <1>25 DEF HasThem
<1> QED BY <1>3, <1>19, <1>24, <1>25, <1>26 DEF IsStep

LEMMA Steps ==
  ASSUME NEW keys, NEW way, NEW grown, NEW key, NEW value, Inserting(keys, way, grown, key, value)
  PROVE  \A h \in Rows : IsStep(keys, way, grown, key, value, h)
<1> DEFINE Bad == {h \in Rows : ~IsStep(keys, way, grown, key, value, h)}
<1>1. SUFFICES ASSUME Bad # {} PROVE FALSE
  OBVIOUS
<1>2. PICK h \in Bad : \A j \in Bad : h <= j
  <2>1. Bad \subseteq Nat
    BY RowsAre
  <2> HIDE DEF Bad
  <2> QED BY <1>1, <2>1, LeastOf
<1>3. h \in Rows /\ ~IsStep(keys, way, grown, key, value, h)
  BY <1>2
<1>4. h # 0
  BY <1>3, LeafStep
<1>5. h - 1 \in Rows /\ ~(h <= h - 1)
  BY <1>3, <1>4, RowsAre
<1>6. IsStep(keys, way, grown, key, value, h - 1)
  BY <1>2, <1>5
<1> QED BY <1>3, <1>4, <1>6, InnerStep

-----------------------------------------------------------------------------
(***************************************************************************)
(* The parameters leave room in the root: rows half full are too few nodes *)
(* to fill it.                                                             *)
(***************************************************************************)
IsPower(b, n, f) ==
  DOMAIN f = 0 .. n /\ \A k \in 0 .. n : f[k] = IF k = 0 THEN 1 ELSE b * f[k - 1]

LEMMA PowersAgree ==
  ASSUME NEW b \in Nat \ {0}, NEW n \in Nat, NEW m \in Nat, n <= m,
         NEW f, IsPower(b, n, f), NEW g, IsPower(b, m, g)
  PROVE  \A k \in 0 .. n : f[k] = g[k] /\ f[k] \in Nat \ {0}
<1> DEFINE Bad == {k \in 0 .. n : ~(f[k] = g[k] /\ f[k] \in Nat \ {0})}
<1>1. SUFFICES ASSUME Bad # {} PROVE FALSE
  OBVIOUS
<1>2. PICK k \in Bad : \A j \in Bad : k <= j
  <2>1. Bad \subseteq Nat
    OBVIOUS
  <2> HIDE DEF Bad
  <2> QED BY <1>1, <2>1, LeastOf
<1>3. k \in 0 .. n /\ k \in 0 .. m /\ ~(f[k] = g[k] /\ f[k] \in Nat \ {0})
  BY <1>2
<1>4. k # 0
  BY <1>3 DEF IsPower
<1>5. k - 1 \in 0 .. n /\ ~(k <= k - 1)
  BY <1>3, <1>4
<1>6. k - 1 \notin Bad
  BY <1>2, <1>5
<1>7. f[k - 1] = g[k - 1] /\ f[k - 1] \in Nat \ {0}
  BY <1>5, <1>6
<1>8. f[k] = b * f[k - 1] /\ g[k] = b * g[k - 1]
  BY <1>3, <1>4 DEF IsPower
<1>9. PICK x \in Nat \ {0} : x = f[k - 1]
  BY <1>7
<1>10. b * x \in Nat \ {0}
  BY <1>9
<1> QED BY <1>3, <1>7, <1>8, <1>9, <1>10

LEMMA PowerExists ==
  ASSUME NEW b \in Nat \ {0}, NEW n \in Nat
  PROVE  \E f : IsPower(b, n, f)
<1> DEFINE Bad == {k \in Nat : ~\E f : IsPower(b, k, f)}
<1>1. SUFFICES ASSUME Bad # {} PROVE FALSE
  OBVIOUS
<1>2. PICK k \in Bad : \A j \in Bad : k <= j
  <2>1. Bad \subseteq Nat
    OBVIOUS
  <2> HIDE DEF Bad
  <2> QED BY <1>1, <2>1, LeastOf
<1>3. k \in Nat /\ ~\E f : IsPower(b, k, f)
  BY <1>2
<1>4. CASE k = 0
  <2>1. IsPower(b, 0, [j \in 0 .. 0 |-> 1])
    BY DEF IsPower
  <2> QED BY <1>3, <1>4, <2>1
<1>5. CASE k # 0
  <2>1. k - 1 \in Nat /\ ~(k <= k - 1)
    BY <1>3, <1>5
  <2>2. PICK f : IsPower(b, k - 1, f)
    BY <1>2, <2>1
  <2> DEFINE g == [j \in 0 .. k |-> IF j = k THEN b * f[k - 1] ELSE f[j]]
  <2>3. \A j \in 0 .. k : j = k \/ j \in 0 .. k - 1
    BY <1>3
  <2>4. \A j \in 0 .. k - 1 : j \in 0 .. k /\ j # k /\ (j # 0 => j - 1 \in 0 .. k - 1)
    BY <1>3
  <2>5. DOMAIN g = 0 .. k /\ g[k] = b * f[k - 1] /\ \A j \in 0 .. k - 1 : g[j] = f[j]
    BY <1>3, <2>4
  <2> HIDE DEF g
  <2>6. ASSUME NEW j \in 0 .. k PROVE g[j] = IF j = 0 THEN 1 ELSE b * g[j - 1]
    <3>1. CASE j = k
      <4>1. g[k - 1] = f[k - 1]
        BY <1>3, <1>5, <2>5
      <4> QED BY <1>5, <2>5, <3>1, <4>1
    <3>2. CASE j \in 0 .. k - 1
      <4>1. j # 0 => g[j - 1] = f[j - 1]
        BY <2>4, <2>5, <3>2
      <4> QED BY <2>2, <2>5, <3>2, <4>1 DEF IsPower
    <3> QED BY <2>3, <3>1, <3>2
  <2>7. IsPower(b, k, g)
    BY <2>5, <2>6 DEF IsPower
  <2> QED BY <1>3, <2>7
<1> QED BY <1>4, <1>5

LEMMA PowerOf ==
  ASSUME NEW b \in Nat \ {0}, NEW n \in Nat
  PROVE  \E f : IsPower(b, n, f) /\ Power(b, n) = f[n]
<1> DEFINE power[k \in 0 .. n] == IF k = 0 THEN 1 ELSE b * power[k - 1]
<1>1. power = [k \in 0 .. n |-> IF k = 0 THEN 1 ELSE b * power[k - 1]]
  <2>1. PICK f : IsPower(b, n, f)
    BY PowerExists
  <2> DEFINE g == [k \in 0 .. n |-> f[k]]
  <2>2. \A k \in 0 .. n : g[k] = f[k]
    OBVIOUS
  <2>3. g = [k \in 0 .. n |-> g[k]]
    OBVIOUS
  <2> HIDE DEF g
  <2>4. \A k \in 0 .. n : g[k] = IF k = 0 THEN 1 ELSE b * g[k - 1]
    <3>1. \A k \in 0 .. n : k # 0 => k - 1 \in 0 .. n
      OBVIOUS
    <3> QED BY <2>1, <2>2, <3>1 DEF IsPower
  <2>5. g = [k \in 0 .. n |-> IF k = 0 THEN 1 ELSE b * g[k - 1]]
    BY <2>3, <2>4
  <2> QED BY <2>5
<1> HIDE DEF power
<1>2. IsPower(b, n, power)
  BY <1>1 DEF IsPower
<1>3. Power(b, n) = power[n]
  BY DEF Power, power
<1> QED BY <1>2, <1>3

LEMMA PowerIs ==
  ASSUME NEW b \in Nat \ {0}, NEW n \in Nat
  PROVE  Power(b, 0) = 1 /\ Power(b, n + 1) = b * Power(b, n) /\ Power(b, n) \in Nat \ {0}
<1>1. Power(b, 0) = 1
  <2>1. PICK f : IsPower(b, 0, f) /\ Power(b, 0) = f[0]
    <3>1. 0 \in Nat
      OBVIOUS
    <3> QED BY <3>1, PowerOf
  <2>2. f[0] = 1
    BY <2>1 DEF IsPower
  <2> QED BY <2>1, <2>2
<1>2. PICK f : IsPower(b, n, f) /\ Power(b, n) = f[n]
  BY PowerOf
<1>3. PICK g : IsPower(b, n + 1, g) /\ Power(b, n + 1) = g[n + 1]
  BY PowerOf
<1>4. f[n] = g[n] /\ f[n] \in Nat \ {0}
  BY <1>2, <1>3, PowersAgree
<1>5. g[n + 1] = b * g[n]
  <2>1. n + 1 \in 0 .. n + 1 /\ n + 1 # 0 /\ (n + 1) - 1 = n
    OBVIOUS
  <2> QED BY <1>3, <2>1 DEF IsPower
<1> QED BY <1>1, <1>2, <1>3, <1>4, <1>5

\* Rows above one another.
IsForest(keys, rows) ==
  /\ keys \in SUBSET Keys
  /\ \A h \in Rows : IsRow(h, rows[h], Below(keys, rows, h)) /\ HalfFull(h, rows[h])

LEMMA ForestIs ==
  ASSUME NEW keys, NEW rows, IsForest(keys, rows), NEW h \in Rows,
         NEW B, B = Below(keys, rows, h), NEW S, S = DOMAIN rows[h]
  PROVE  /\ B \in SUBSET Nat /\ IsFiniteSet(B) /\ Cardinality(B) \in Nat
         /\ S \in SUBSET Nat /\ IsFiniteSet(S) /\ Cardinality(S) \in Nat
         /\ Covers(S, B) /\ Cardinality(S) <= Cardinality(B)
         /\ Cardinality(S) > 1 => 2 * Cardinality(B) >= Room(h) * Cardinality(S)
<1>1. B \in SUBSET Keys
  <2>1. CASE h = 0
    BY <2>1 DEF IsForest, Below
  <2>2. CASE h # 0
    <3>1. h - 1 \in Rows
      BY <2>2, RowsAre
    <3> QED BY <2>2, <3>1 DEF IsForest, Below, IsRow
  <2> QED BY <2>1, <2>2
<1>2. IsRow(h, rows[h], B) /\ HalfFull(h, rows[h])
  BY DEF IsForest
<1>3. S \in SUBSET Keys /\ Covers(S, B)
  BY <1>2 DEF IsRow
<1>4. /\ B \in SUBSET Nat /\ IsFiniteSet(B) /\ Cardinality(B) \in Nat
      /\ S \in SUBSET Nat /\ IsFiniteSet(S) /\ Cardinality(S) \in Nat
      /\ Cardinality(S) <= Cardinality(B)
  <2>1. Keys \in SUBSET Nat /\ IsFiniteSet(Keys) /\ S \subseteq B
    BY <1>3, RowsAre DEF Covers
  <2> QED BY <1>1, <1>3, <2>1, FS_Subset, FS_CardinalityType
<1>5. ASSUME Cardinality(S) > 1 PROVE 2 * Cardinality(B) >= Room(h) * Cardinality(S)
  <2>1. ASSUME NEW id \in S PROVE 2 * Cardinality(Held(B, S, id)) >= Room(h)
    <3>1. PICK other \in S : other # id
      <4>1. SUFFICES ASSUME S \subseteq {id} PROVE FALSE
        OBVIOUS
      <4>2. S = {id}
        BY <4>1
      <4>3. Cardinality(S) = 1
        BY <4>2, FS_Singleton
      <4> QED BY <1>5, <4>3
    <3>2. 2 * Len(Array(h, rows[h][id])) >= Room(h)
      BY <1>2, <3>1 DEF HalfFull
    <3>3. IsNode(h, rows[h][id], id, Held(B, S, id))
      BY <1>2 DEF IsRow
    <3>4. Len(Array(h, rows[h][id])) = Cardinality(Held(B, S, id))
      <4>1. Ordered(Array(h, rows[h][id]), Items(h)) /\ Keyed(Array(h, rows[h][id])) = Held(B, S, id)
        BY <3>3 DEF IsNode
      <4>2. Keyable(Items(h))
        BY RowsAre
      <4> QED BY <4>1, <4>2, LengthIs
    <3> QED BY <3>2, <3>4
  <2>2. Crowded(B, S, Room(h)) /\ Room(h) \in Nat
    BY <2>1, RowsAre DEF Crowded
  <2> QED BY <1>3, <1>4, <2>2, NamesCount
<1> QED BY <1>3, <1>4, <1>5

\* The count of a row, in terms of the keys.
Counted(keys, rows, h) ==
  Power(2, h + 1) * Cardinality(keys) >= C * Power(P2, h) * Cardinality(DOMAIN rows[h])

LEMMA LeavesCounted ==
  ASSUME NEW keys, NEW rows, IsForest(keys, rows), Cardinality(DOMAIN rows[0]) > 1
  PROVE  Counted(keys, rows, 0)
<1>1. PICK k : k = Cardinality(keys)
  OBVIOUS
<1>2. PICK s : s = Cardinality(DOMAIN rows[0])
  OBVIOUS
<1>3. k \in Nat /\ s \in Nat /\ 2 * k >= C * s /\ C \in Nat
  <2>1. Below(keys, rows, 0) = keys /\ Room(0) = C /\ 0 \in Rows /\ C \in Nat
    BY RowsAre DEF Below, Room
  <2> QED BY <1>1, <1>2, <2>1, ForestIs
<1>4. Power(2, 0 + 1) = 2 /\ Power(P2, 0) = 1
  <2>1. 2 \in Nat \ {0} /\ P2 \in Nat \ {0} /\ 0 \in Nat
    BY RowsAre
  <2>2. Power(2, 0 + 1) = 2 * Power(2, 0) /\ Power(2, 0) = 1 /\ Power(P2, 0) = 1
    BY <2>1, PowerIs
  <2> QED BY <2>2
<1>5. 2 * k >= C * 1 * s
  BY <1>3
<1> QED BY <1>1, <1>2, <1>4, <1>5 DEF Counted

LEMMA Chained ==
  ASSUME NEW p \in Nat, NEW k \in Nat, NEW c \in Nat, NEW q \in Nat, NEW s \in Nat, NEW n \in Nat, NEW r \in Nat,
         p * k >= c * q * s, 2 * s >= r * n
  PROVE  2 * p * k >= c * (r * q) * n
<1>1. PICK x \in Nat : x = c * q
  OBVIOUS
<1>2. 2 * (p * k) >= 2 * (x * s)
  <2>1. p * k \in Nat /\ x * s \in Nat /\ p * k >= x * s
    BY <1>1
  <2> QED BY <2>1
<1>3. x * (2 * s) >= x * (r * n)
  <2>1. PICK a \in Nat, b \in Nat : a = 2 * s /\ b = r * n
    OBVIOUS
  <2>2. a >= b
    BY <2>1
  <2>3. x * a >= x * b
    BY <2>2
  <2> QED BY <2>1, <2>3
<1>4. 2 * (x * s) = x * (2 * s)
  OBVIOUS
<1>5. x * (r * n) = c * (r * q) * n
  BY <1>1
<1>6. 2 * (p * k) = 2 * p * k
  OBVIOUS
<1>7. PICK a1 \in Nat, a2 \in Nat, a3 \in Nat : a1 = 2 * (p * k) /\ a2 = x * (2 * s) /\ a3 = x * (r * n)
  OBVIOUS
<1>8. a1 >= a2 /\ a2 >= a3
  BY <1>2, <1>3, <1>4, <1>7
<1>9. a1 >= a3
  BY <1>8
<1> QED BY <1>5, <1>6, <1>7, <1>9

LEMMA RowCounted ==
  ASSUME NEW keys, NEW rows, IsForest(keys, rows), NEW h \in Rows \ {0}, Cardinality(DOMAIN rows[h]) > 1,
         Counted(keys, rows, h - 1)
  PROVE  Counted(keys, rows, h)
<1>1. h \in Nat /\ h # 0 /\ h - 1 \in Nat /\ h - 1 \in Rows /\ (h - 1) + 1 = h
  BY RowsAre
<1>2. PICK k : k = Cardinality(keys)
  OBVIOUS
<1>3. PICK s : s = Cardinality(DOMAIN rows[h - 1])
  OBVIOUS
<1>4. PICK n : n = Cardinality(DOMAIN rows[h])
  OBVIOUS
<1>5. k \in Nat /\ s \in Nat /\ n \in Nat /\ 2 * s >= P2 * n
  <2>1. Below(keys, rows, h) = DOMAIN rows[h - 1] /\ Room(h) = P2
    BY <1>1 DEF Below, Room
  <2>2. k \in Nat
    <3>1. 0 \in Rows /\ Below(keys, rows, 0) = keys
      BY RowsAre DEF Below
    <3> QED BY <1>2, <3>1, ForestIs
  <2> QED BY <1>3, <1>4, <2>1, <2>2, ForestIs
<1>6. PICK p : p = Power(2, h)
  OBVIOUS
<1>7. PICK q : q = Power(P2, h - 1)
  OBVIOUS
<1>8. p \in Nat /\ q \in Nat /\ P2 \in Nat /\ C \in Nat /\ Power(2, h + 1) = 2 * p /\ Power(P2, h) = P2 * q
  <2>1. 2 \in Nat \ {0} /\ P2 \in Nat \ {0} /\ C \in Nat
    BY RowsAre
  <2>2. Power(2, h + 1) = 2 * p /\ p \in Nat
    BY <1>1, <1>6, <2>1, PowerIs
  <2>3. Power(P2, (h - 1) + 1) = P2 * q /\ q \in Nat
    BY <1>1, <1>7, <2>1, PowerIs
  <2> QED BY <1>1, <2>1, <2>2, <2>3
<1>9. p * k >= C * q * s
  BY <1>1, <1>2, <1>3, <1>6, <1>7 DEF Counted
<1>10. 2 * p * k >= C * (P2 * q) * n
  BY <1>5, <1>8, <1>9, Chained
<1> QED BY <1>2, <1>4, <1>8, <1>10 DEF Counted

LEMMA RowsShrink ==
  ASSUME NEW keys, NEW rows, IsForest(keys, rows), Cardinality(DOMAIN rows[Top]) > 1
  PROVE  \A h \in Rows : Cardinality(DOMAIN rows[h]) > 1
<1> DEFINE Bad == {k \in 0 .. Top : ~(Cardinality(DOMAIN rows[Top - k]) > 1)}
<1>1. SUFFICES ASSUME Bad # {} PROVE FALSE
  <2>1. \A h \in Rows : Top - h \in 0 .. Top /\ Top - (Top - h) = h
    BY RowsAre
  <2> QED BY <2>1
<1>2. PICK k \in Bad : \A j \in Bad : k <= j
  <2>1. Bad \subseteq Nat
    BY RowsAre
  <2> HIDE DEF Bad
  <2> QED BY <1>1, <2>1, LeastOf
<1>3. k \in 0 .. Top /\ ~(Cardinality(DOMAIN rows[Top - k]) > 1)
  BY <1>2
<1>4. k # 0
  BY <1>3, RowsAre
<1>5. k - 1 \in 0 .. Top /\ ~(k <= k - 1)
  BY <1>3, <1>4, RowsAre
<1>6. Cardinality(DOMAIN rows[Top - (k - 1)]) > 1
  BY <1>2, <1>5
<1>7. PICK h \in Rows \ {0} : h = Top - (k - 1) /\ h - 1 = Top - k
  BY <1>3, <1>4, RowsAre
<1>8. Below(keys, rows, h) = DOMAIN rows[h - 1]
  BY DEF Below
<1>9. /\ Cardinality(DOMAIN rows[h]) <= Cardinality(DOMAIN rows[h - 1])
      /\ Cardinality(DOMAIN rows[h]) \in Nat /\ Cardinality(DOMAIN rows[h - 1]) \in Nat
  BY <1>8, ForestIs
<1> QED BY <1>3, <1>6, <1>7, <1>9

LEMMA AllCounted ==
  ASSUME NEW keys, NEW rows, IsForest(keys, rows), Cardinality(DOMAIN rows[Top]) > 1
  PROVE  Counted(keys, rows, Top)
<1> DEFINE Bad == {h \in Rows : ~Counted(keys, rows, h)}
<1>1. SUFFICES ASSUME Bad # {} PROVE FALSE
  BY RowsAre
<1>2. PICK h \in Bad : \A j \in Bad : h <= j
  <2>1. Bad \subseteq Nat
    BY RowsAre
  <2> HIDE DEF Bad
  <2> QED BY <1>1, <2>1, LeastOf
<1>3. h \in Rows /\ ~Counted(keys, rows, h)
  BY <1>2
<1>4. h # 0
  BY <1>3, LeavesCounted, RowsShrink
<1>5. h - 1 \in Rows /\ ~(h <= h - 1)
  BY <1>3, <1>4, RowsAre
<1>6. Counted(keys, rows, h - 1)
  BY <1>2, <1>5
<1> QED BY <1>3, <1>4, <1>6, RowCounted, RowsShrink

LEMMA TopFits ==
  ASSUME NEW keys, NEW rows, IsForest(keys, rows)
  PROVE  Cardinality(DOMAIN rows[Top]) <= P1
<1>1. PICK s : s = Cardinality(DOMAIN rows[Top])
  OBVIOUS
<1>2. PICK k : k = Cardinality(keys)
  OBVIOUS
<1>3. PICK a : a = Cardinality(Keys)
  OBVIOUS
<1>4. s \in Nat /\ k \in Nat /\ a \in Nat /\ k <= a
  <2>1. s \in Nat
    BY <1>1, ForestIs, RowsAre
  <2>2. keys \in SUBSET Keys /\ IsFiniteSet(Keys)
    BY RowsAre DEF IsForest
  <2> QED BY <1>2, <1>3, <2>1, <2>2, FS_Subset, FS_CardinalityType
<1>5. P1 \in Nat \ {0} /\ C \in Nat \ {0} /\ P2 \in Nat \ {0} /\ Top \in Nat /\ L - 1 = Top + 1 /\ L - 2 = Top
  BY RowsAre, TreeAssumption DEF Top
<1>6. SUFFICES ASSUME s > 1 PROVE s <= P1
  BY <1>1, <1>4, <1>5
<1>7. PICK p : p = Power(2, Top + 1)
  OBVIOUS
<1>8. PICK q : q = Power(P2, Top)
  OBVIOUS
<1>9. p \in Nat \ {0} /\ q \in Nat \ {0}
  <2>1. 2 \in Nat \ {0} /\ Top + 1 \in Nat
    BY <1>5
  <2> QED BY <1>5, <1>7, <1>8, <2>1, PowerIs
<1>10. p * k >= C * q * s
  BY <1>1, <1>2, <1>6, <1>7, <1>8, AllCounted DEF Counted
<1>11. p * a <= C * P1 * q
  BY <1>3, <1>5, <1>7, <1>8, CapacityAssumption DEF Fits
<1>12. p * k <= p * a
  BY <1>4, <1>9
<1>13. PICK x \in Nat \ {0} : x = C * q
  <2>1. C * q \in Nat \ {0}
    BY <1>5, <1>9
  <2> QED BY <2>1
<1>14. C * P1 * q = x * P1
  BY <1>5, <1>9, <1>13
<1>15. x * s <= x * P1
  <2>1. PICK u \in Nat, v \in Nat : u = p * k /\ v = p * a
    BY <1>4, <1>9
  <2>2. PICK y \in Nat, z \in Nat : y = x * s /\ z = x * P1
    BY <1>4, <1>5
  <2>3. u >= y /\ v <= z /\ u <= v
    BY <1>10, <1>11, <1>12, <1>13, <1>14, <2>1, <2>2
  <2>4. y <= z
    BY <2>3
  <2> QED BY <2>2, <2>4
<1>16. ~(s >= P1 + 1)
  <2>1. SUFFICES ASSUME s >= P1 + 1 PROVE FALSE
    OBVIOUS
  <2>2. x * s >= x * (P1 + 1)
    BY <1>4, <1>5, <2>1
  <2>3. x * (P1 + 1) = x * P1 + x
    BY <1>5
  <2>4. PICK y \in Nat, z \in Nat : y = x * s /\ z = x * P1
    BY <1>4, <1>5
  <2>5. y >= z + x /\ y <= z
    BY <1>15, <2>2, <2>3, <2>4
  <2> QED BY <2>5
<1> QED BY <1>4, <1>5, <1>16

-----------------------------------------------------------------------------
(***************************************************************************)
(* An insertion: the rows as it leaves them.                               *)
(***************************************************************************)
RowsGrown(way, grown) == [h \in Rows |-> Regrown(row[h], way[h].key, grown[h])]

IsGrownForest(keys, rows, way, grown) ==
  /\ IsForest(keys, rows)
  /\ \A h \in Rows : /\ NamesOf(grown[h]) \subseteq Keys
                     /\ DOMAIN rows[h] = Replaced(DOMAIN row[h], way[h].key, NamesOf(grown[h]))

LEMMA ForestGrown ==
  ASSUME NEW keys, NEW way, NEW grown, NEW key, NEW value, Inserting(keys, way, grown, key, value),
         NEW rows, rows = RowsGrown(way, grown)
  PROVE  IsGrownForest(keys \cup {key}, rows, way, grown)
<1>1. \A h \in Rows : \E X :
        IsRegrown(h, row[h], way[h].key, Below(keys, row, h), Gone(way, key, h), Come(grown, key, h), grown[h], X)
  BY Steps DEF IsStep
<1>2. \A h \in Rows : rows[h] = Regrown(row[h], way[h].key, grown[h])
  BY DEF RowsGrown
<1>3. ASSUME NEW h \in Rows
      PROVE  /\ IsRow(h, rows[h], Replaced(Below(keys, row, h), Gone(way, key, h), Come(grown, key, h)))
             /\ HalfFull(h, rows[h]) /\ NamesOf(grown[h]) \subseteq Keys
             /\ DOMAIN rows[h] = Replaced(DOMAIN row[h], way[h].key, NamesOf(grown[h]))
  <2>1. PICK X : IsRegrown(h, row[h], way[h].key, Below(keys, row, h), Gone(way, key, h), Come(grown, key, h), grown[h], X)
    BY <1>1
  <2> QED BY <1>2, <2>1 DEF IsRegrown, RowRegrown
<1>4. keys \cup {key} \in SUBSET Keys
  BY DEF Inserting, IsTree
<1>5. ASSUME NEW h \in Rows
      PROVE  Replaced(Below(keys, row, h), Gone(way, key, h), Come(grown, key, h)) = Below(keys \cup {key}, rows, h)
  <2>1. CASE h = 0
    BY <2>1 DEF Replaced, Below, Gone, Come
  <2>2. CASE h # 0
    <3>1. h - 1 \in Rows
      BY <2>2, RowsAre
    <3> QED BY <1>3, <2>2, <3>1 DEF Below, Gone, Come
  <2> QED BY <2>1, <2>2
<1>6. IsForest(keys \cup {key}, rows)
  BY <1>3, <1>4, <1>5 DEF IsForest
<1> QED BY <1>3, <1>6 DEF IsGrownForest

\* A root that gets another child has room for it.
LEMMA Roomy ==
  ASSUME NEW keys, NEW way, NEW grown, NEW key, NEW value, Inserting(keys, way, grown, key, value),
         grown[Top].new # <<>>
  PROVE  RootAccepts(root, P1)
<1>1. PICK rows : rows = RowsGrown(way, grown)
  OBVIOUS
<1>0. IsGrownForest(keys \cup {key}, rows, way, grown)
  BY <1>1, ForestGrown
<1>2. PICK pair : pair = grown[Top]
  OBVIOUS
<1>3. PICK S : S = DOMAIN row[Top]
  OBVIOUS
<1>4. PICK w : w = way[Top].key
  OBVIOUS
<1>5. PICK X : IsRegrown(Top, row[Top], w, Below(keys, row, Top), Gone(way, key, Top), Come(grown, key, Top), pair, X)
  BY <1>2, <1>4, Steps, RowsAre DEF IsStep
<1>6. IsPair(pair) /\ Apart(S, {w}, NamesOf(pair)) /\ NamesOf(pair) \subseteq Nat
  BY <1>3, <1>5, RowsAre DEF IsRegrown, RowRegrown
<1>7. PICK q : pair.new = <<q>> /\ pair.node.max_value < q.max_value
  BY <1>2, <1>6 DEF IsPair
<1>8. PICK a : a = pair.node.max_value
  OBVIOUS
<1>9. PICK z : z = q.max_value
  OBVIOUS
<1>10. NamesOf(pair) = {a, z} /\ a \in Nat /\ z \in Nat /\ a # z
  <2>1. ToSet(pair.new) = {q}
    BY <1>7 DEF ToSet
  <2>2. NamesOf(pair) = {a, z}
    BY <1>8, <1>9, <2>1 DEF NamesOf, Pieces
  <2>3. a \in Nat /\ z \in Nat /\ a < z
    BY <1>6, <1>7, <1>8, <1>9, <2>2
  <2> QED BY <2>2, <2>3
<1>11. w \in S /\ S \in SUBSET Nat /\ IsFiniteSet(S) /\ Cardinality(S) \in Nat
  <2>1. Found(Top, way[Top])
    BY AimsAre, RowsAre DEF Inserting
  <2>2. S \in SUBSET Keys
    BY <1>3, RowsAre DEF Inserting, IsTree, IsRow
  <2>3. S \in SUBSET Nat /\ IsFiniteSet(S)
    BY <2>2, RowsAre, FS_Subset
  <2> QED BY <1>3, <1>4, <2>1, <2>3, FS_CardinalityType DEF Found
<1>12. a \notin S \ {w} /\ z \notin (S \ {w}) \cup {a}
  <2>1. \A k \in S \ {w} : (k < a \/ a < k) /\ (k < z \/ z < k) /\ k \in Nat
    BY <1>6, <1>10, <1>11 DEF Apart
  <2>2. a \notin S \ {w}
    BY <1>10, <2>1
  <2>3. z \notin S \ {w}
    BY <1>10, <2>1
  <2> QED BY <1>10, <2>2, <2>3
<1>13. PICK n \in Nat : n = Cardinality(S)
  BY <1>11
<1>14. Cardinality(DOMAIN rows[Top]) = n + 1
  <2>1. IsFiniteSet(S \ {w}) /\ Cardinality(S \ {w}) = n - 1
    BY <1>11, <1>13, FS_RemoveElement
  <2>2. PICK S1 : S1 = (S \ {w}) \cup {a}
    OBVIOUS
  <2>3. IsFiniteSet(S1) /\ Cardinality(S1) = n
    <3>1. Cardinality(S1) = (n - 1) + 1 /\ IsFiniteSet(S1)
      BY <1>12, <2>1, <2>2, FS_AddElement
    <3> QED BY <3>1, <1>13
  <2>4. Cardinality(S1 \cup {z}) = n + 1
    BY <1>12, <2>2, <2>3, FS_AddElement
  <2>5. DOMAIN rows[Top] = Replaced(S, w, {a, z})
    <3>1. \A h \in Rows : DOMAIN rows[h] = Replaced(DOMAIN row[h], way[h].key, NamesOf(grown[h]))
      BY <1>0 DEF IsGrownForest
    <3>2. Top \in Rows
      BY RowsAre
    <3> QED BY <1>2, <1>3, <1>4, <1>10, <3>1, <3>2
  <2>6. Replaced(S, w, {a, z}) = S1 \cup {z}
    BY <2>2 DEF Replaced
  <2> QED BY <2>4, <2>5, <2>6
<1>15. n + 1 <= P1
  <2>1. IsForest(keys \cup {key}, rows)
    BY <1>0 DEF IsGrownForest
  <2> QED BY <1>14, <2>1, TopFits
<1>16. Len(root.childMap) = n
  <2>1. Ordered(root.childMap, Items(1)) /\ Keyed(root.childMap) = S
    BY <1>3 DEF Inserting, IsTree, IsRoot
  <2>2. Keyable(Items(1))
    BY RowsAre
  <2> QED BY <1>13, <2>1, <2>2, LengthIs
<1> QED BY <1>13, <1>15, <1>16, RowsAre DEF RootAccepts

LEMMA RowsWritten ==
  ASSUME NEW keys, NEW way, NEW grown, NEW key, NEW value, Inserting(keys, way, grown, key, value)
  PROVE  [h \in Rows |-> Written(h, Less(h, {way[h]}), grown[h])] = RowsGrown(way, grown)
<1>1. ASSUME NEW h \in Rows
      PROVE  Written(h, Less(h, {way[h]}), grown[h]) = Regrown(row[h], way[h].key, grown[h])
  <2>1. PICK pair : pair = grown[h]
    OBVIOUS
  <2>2. PICK X : IsRegrown(h, row[h], way[h].key, Below(keys, row, h), Gone(way, key, h), Come(grown, key, h), pair, X)
    BY <2>1, Steps DEF IsStep
  <2>3. ArePieces(h, pair, X) /\ IsPair(pair) /\ NamesOf(pair) \subseteq Keys
    BY <2>2 DEF IsRegrown, RowRegrown
  <2>4. Found(h, way[h])
    BY AimsAre DEF Inserting
  <2>5. \/ pair.new = <<>>
        \/ (\E q : pair.new = <<q>>) /\ (h = Top => RootAccepts(root, P1))
    <3>1. pair.new # <<>> /\ h = Top => RootAccepts(root, P1)
      BY <2>1, Roomy
    <3> QED BY <2>3, <3>1 DEF IsPair
  <2> QED BY <2>1, <2>3, <2>4, <2>5, WrittenIs
<1> QED BY <1>1 DEF RowsGrown

RootGrown(grown) ==
  LET r == Update(root, grown[Top].node)
  IN  IF ToSet(grown[Top].new) = {} THEN r ELSE RootInsert(r, Entry(Head(grown[Top].new)), P1)

\* The root r lists these names, and where it was for all but A.
RootLists(r, names, A) ==
  IsRoot(r, names) /\ \A x \in ToSet(r.childMap) : x.key \notin A => x \in ToSet(root.childMap)

LEMMA RootHolds ==
  ASSUME NEW t, Ordered(t, Items(1)), t # <<>>, Len(t) <= P1,
         NEW r, r = [childMap |-> t, max_value |-> LastKey(t)]
  PROVE  IsRoot(r, Keyed(t))
<1>1. LastKey(t) \in Int
  <2>1. LastKey(t) \in Nat
    BY GreatestHeld
  <2> QED BY <2>1
<1>2. t \in Seq([key : Keys, pos : Int])
  BY DEF Ordered, Items
<1>3. r \in [childMap : Seq([key : Keys, pos : Int]), max_value : Int]
  BY <1>1, <1>2
<1>4. r.childMap = t /\ r.max_value = LastKey(t)
  OBVIOUS
<1> QED BY <1>3, <1>4 DEF IsRoot

LEMMA RootIsGrown ==
  ASSUME NEW keys, NEW way, NEW grown, NEW key, NEW value, Inserting(keys, way, grown, key, value),
         NEW rows, rows = RowsGrown(way, grown)
  PROVE  RootLists(RootGrown(grown), DOMAIN rows[Top], NamesOf(grown[Top]))
<1>0. IsGrownForest(keys \cup {key}, rows, way, grown)
  BY ForestGrown
<1>1. PICK s : s = root.childMap
  OBVIOUS
<1>2. PICK b : b = way[Top].key
  OBVIOUS
<1>3. PICK T : T = Items(1)
  OBVIOUS
<1>4. PICK below : below = grown[Top]
  OBVIOUS
<1>5. PICK A : A = NamesOf(below)
  OBVIOUS
<1>6. PICK S : S = DOMAIN row[Top]
  OBVIOUS
<1>7. /\ Keyable(T) /\ Ordered(s, T) /\ s \in Seq(T) /\ T = [key : Keys, pos : Int]
      /\ Len(s) \in Nat /\ Len(s) <= P1 /\ Keyed(s) = S /\ P1 \in Nat
      /\ root \in [childMap : Seq(T), max_value : Int]
  <2>0. 1 # 0
    OBVIOUS
  <2>1. T = [key : Keys, pos : Int] /\ Keyable(T) /\ P1 \in Nat
    <3>1. T = [key : Keys, pos : Int]
      BY <1>3, <2>0, Zenon DEF Items
    <3> QED BY <1>3, <3>1, RowsAre
  <2>2. IsRoot(root, S)
    BY <1>6 DEF Inserting, IsTree
  <2>3. Ordered(s, T) /\ Len(s) <= P1 /\ Keyed(s) = S /\ root \in [childMap : Seq(T), max_value : Int]
    BY <1>1, <1>3, <2>1, <2>2 DEF IsRoot
  <2>4. s \in Seq(T)
    BY <2>3 DEF Ordered
  <2>5. Len(s) \in Nat
    BY <2>4
  <2> QED BY <2>1, <2>3, <2>4, <2>5
<1>8. PICK Y : IsRegrown(Top, row[Top], way[Top].key, Below(keys, row, Top),
                         Gone(way, key, Top), Come(grown, key, Top), grown[Top], Y)
  BY Steps, RowsAre DEF IsStep
<1>9. /\ ArePieces(Top, below, Y) /\ IsPair(below) /\ below.node.old_max = b
      /\ Apart(S, {b}, A) /\ A \subseteq Keys
  BY <1>2, <1>4, <1>5, <1>6, <1>8 DEF IsRegrown, RowRegrown
<1>10. DOMAIN rows[Top] = Replaced(S, b, A)
  BY <1>0, <1>2, <1>4, <1>5, <1>6, RowsAre DEF IsGrownForest
<1>11. b \in S /\ S \in SUBSET Nat
  <2>1. Found(Top, way[Top])
    BY AimsAre, RowsAre DEF Inserting
  <2>2. S \in SUBSET Keys
    BY <1>6, RowsAre DEF Inserting, IsTree, IsRow
  <2> QED BY <1>2, <1>6, <2>1, <2>2, RowsAre DEF Found
<1>12. \A k \in S \ {b} : k \notin A
  <2>1. ASSUME NEW k \in S \ {b} PROVE \A x \in A : k # x
    <3>1. \A x \in A : x \in Nat /\ k \in Nat
      BY <1>9, <1>11, RowsAre
    <3>2. \A x \in A : k < x \/ x < k
      BY <1>9 DEF Apart
    <3> QED BY <3>1, <3>2
  <2> QED BY <2>1
<1>13. PICK x \in ToSet(s) : x.key = b
  BY <1>7, <1>11, KeyedIs
<1>14. PICK a : a = below.node.max_value
  OBVIOUS
<1>15. below.node \in Pieces(below) /\ a \in A /\ a \in Keys
  BY <1>5, <1>9, <1>14 DEF Pieces, NamesOf
<1>16. \A y \in ToSet(s) : y.key = a => y = x
  <2>1. ASSUME NEW y \in ToSet(s), y.key = a PROVE y = x
    <3>1. y.key \in S
      BY <1>7, KeyedIs
    <3>2. y.key = b
      BY <1>12, <1>15, <2>1, <3>1
    <3> QED BY <1>7, <1>13, <3>2, OneEntryPerKey
  <2> QED BY <2>1
<1>17. PICK t : Update(root, below.node) = MidHolding(root, t) /\ Renames(t, T, s, x, a)
  <2>1. Ordered(root.childMap, [key : Keys, pos : Int]) /\ Keys \in SUBSET Int
    BY <1>1, <1>7, RowsAre
  <2>2. /\ below.node.max_value \in Keys /\ x \in ToSet(root.childMap) /\ x.key = below.node.old_max
        /\ \A y \in ToSet(root.childMap) : y.key = below.node.max_value => y = x
    BY <1>1, <1>9, <1>13, <1>14, <1>15, <1>16
  <2>3. \E u : Update(root, below.node) = MidHolding(root, u)
               /\ Renames(u, [key : Keys, pos : Int], root.childMap, x, below.node.max_value)
    BY <2>1, <2>2, UpdateIs
  <2> QED BY <1>1, <1>7, <1>14, <2>3
<1>18. PICK e : e = [x EXCEPT !.key = a]
  OBVIOUS
<1>19. x \in T /\ e \in T /\ e.key = a
  <2>1. x \in T
    BY <1>7, ToSetIsTyped
  <2> QED BY <1>7, <1>15, <1>18, <2>1
<1>20. PICK R : R = (ToSet(s) \ {x}) \cup {e}
  OBVIOUS
<1>21. Ordered(t, T) /\ Len(t) = Len(s) /\ ToSet(t) = R
  BY <1>17, <1>18, <1>20 DEF Renames
<1>22. {y.key : y \in R} = (S \ {b}) \cup {a}
  <2>1. ASSUME NEW y \in ToSet(s), y # x PROVE y.key \in S \ {b}
    BY <1>7, <1>13, <2>1, OneEntryPerKey, KeyedIs
  <2>2. ASSUME NEW k \in S \ {b} PROVE \E y \in ToSet(s) \ {x} : y.key = k
    BY <1>7, <1>13, KeyedIs
  <2> QED BY <1>19, <1>20, <2>1, <2>2
<1>23. t # <<>>
  <2>1. R # {}
    BY <1>20
  <2>2. t \in Seq(T)
    BY <1>21 DEF Ordered
  <2> QED BY <1>21, <2>1, <2>2, ToSetIsTyped
<1>24. PICK r : r = MidHolding(root, t)
  OBVIOUS
<1>25. r = [childMap |-> t, max_value |-> LastKey(t)]
  BY <1>7, <1>24 DEF MidHolding
<1>26. RootGrown(grown) = IF ToSet(below.new) = {} THEN r ELSE RootInsert(r, Entry(Head(below.new)), P1)
  BY <1>4, <1>17, <1>24 DEF RootGrown
<1>27. CASE below.new = <<>>
  <2>1. RootGrown(grown) = r /\ A = {a}
    <3>1. ToSet(below.new) = {}
      BY <1>27 DEF ToSet
    <3> QED BY <1>5, <1>14, <1>26, <3>1 DEF NamesOf, Pieces
  <2>2. IsRoot(r, Keyed(t))
    BY <1>3, <1>7, <1>21, <1>23, <1>25, RootHolds
  <2>3. Keyed(t) = DOMAIN rows[Top]
    BY <1>10, <1>21, <1>22, <2>1, KeyedIs DEF Replaced
  <2>4. \A y \in ToSet(r.childMap) : y.key \notin A => y \in ToSet(s)
    BY <1>19, <1>20, <1>21, <1>25, <2>1
  <2> QED BY <1>1, <1>4, <1>5, <2>1, <2>2, <2>3, <2>4 DEF RootLists
<1>28. ASSUME NEW q, below.new = <<q>>, a < q.max_value
       PROVE  RootLists(RootGrown(grown), DOMAIN rows[Top], A)
  <2>1. PICK f : f = Entry(q)
    OBVIOUS
  <2>2. /\ q \in Pieces(below) /\ A = {a, q.max_value} /\ q.max_value \in Keys
        /\ Head(below.new) = q /\ below.new # <<>> /\ ToSet(below.new) # {}
    <3>1. ToSet(below.new) = {q}
      BY <1>28 DEF ToSet
    <3> QED BY <1>5, <1>9, <1>14, <1>28, <3>1 DEF NamesOf, Pieces
  <2>3. f \in T /\ f.key = q.max_value
    <3>1. q.pos \in Int
      <4>1. q \in NodeSet(Top)
        BY <1>9, <2>2 DEF ArePieces
      <4> QED BY <4>1 DEF NodeSet
    <3> QED BY <1>7, <2>1, <2>2, <3>1 DEF Entry
  <2>4. Keyed(t) = (S \ {b}) \cup {a}
    BY <1>21, <1>22, KeyedIs
  <2>5. f.key \notin Keyed(t)
    <3>1. q.max_value # a
      BY <1>15, <1>28, <2>2, RowsAre
    <3> QED BY <1>12, <2>2, <2>3, <2>4, <3>1
  <2>6. r.childMap = t
    BY <1>25
  <2>7. RootAccepts(r, P1) /\ Len(t) < P1
    <3>1. RootAccepts(root, P1)
      BY <1>4, <2>2, Roomy
    <3> QED BY <1>1, <1>21, <2>6, <3>1 DEF RootAccepts
  <2>8. PICK u : RootInsert(r, f, P1) = MidHolding(r, u) /\ Gains(u, T, t, f)
    BY <1>7, <1>21, <2>3, <2>5, <2>6, <2>7, RootInsertIs
  <2>9. PICK r2 : r2 = RootInsert(r, f, P1)
    OBVIOUS
  <2>10. r2 = [childMap |-> u, max_value |-> LastKey(u)]
    BY <1>25, <2>8, <2>9 DEF MidHolding
  <2>11. Ordered(u, T) /\ Len(u) = Len(t) + 1 /\ ToSet(u) = R \cup {f}
    BY <1>21, <2>8 DEF Gains
  <2>12. u # <<>> /\ Len(u) <= P1
    <3>1. u \in Seq(T)
      BY <2>11 DEF Ordered
    <3>2. u # <<>>
      BY <2>11, <3>1, ToSetIsTyped
    <3>3. PICK n \in Nat : n = Len(t)
      BY <1>7, <1>21
    <3>4. n + 1 <= P1
      BY <1>7, <2>7, <3>3
    <3> QED BY <2>11, <3>2, <3>3, <3>4
  <2>13. IsRoot(r2, Keyed(u))
    BY <1>3, <2>10, <2>11, <2>12, RootHolds
  <2>14. Keyed(u) = DOMAIN rows[Top]
    <3>1. Keyed(u) = {y.key : y \in R} \cup {f.key}
      BY <2>11, KeyedIs
    <3> QED BY <1>10, <1>22, <2>2, <2>3, <3>1 DEF Replaced
  <2>15. \A y \in ToSet(r2.childMap) : y.key \notin A => y \in ToSet(s)
    BY <1>19, <1>20, <2>2, <2>3, <2>10, <2>11
  <2>16. RootGrown(grown) = r2
    BY <1>26, <2>1, <2>2, <2>9
  <2> QED BY <1>1, <2>13, <2>14, <2>15, <2>16 DEF RootLists
<1> QED BY <1>4, <1>5, <1>9, <1>14, <1>27, <1>28 DEF IsPair

-----------------------------------------------------------------------------
(***************************************************************************)
(* client::finish: new positions for the nodes touched.                    *)
(***************************************************************************)
IsDrawn(drawn, left, modified) ==
  \A h \in Rows : /\ DOMAIN drawn[h] = DOMAIN left[h] \cap modified[h]
                  /\ \A id \in DOMAIN drawn[h] : drawn[h][id] \in Positions

LEMMA DrawnAre ==
  ASSUME NEW r, NEW left, NEW modified, Finish(r, left, modified)
  PROVE  \E drawn : /\ IsDrawn(drawn, left, modified)
                    /\ root' = Refreshed(r, drawn[Top])
                    /\ row' = [h \in Rows |-> RowAfter(h, left[h], drawn)]
<1>1. PICK rows \in {left} :
        \E touched \in {UNION {{h} \X (DOMAIN rows[h] \cap modified[h]) : h \in Rows}} :
        \E draw \in [touched -> Positions] :
        \E drawn \in {[h \in Rows |->
                         [id \in {t[2] : t \in {u \in touched : u[1] = h}} |-> draw[<<h, id>>]]]} :
          /\ root' = Refreshed(r, drawn[Top])
          /\ row' = [h \in Rows |-> RowAfter(h, rows[h], drawn)]
  BY Zenon DEF Finish
<1>2. PICK touched \in {UNION {{h} \X (DOMAIN rows[h] \cap modified[h]) : h \in Rows}} :
        \E draw \in [touched -> Positions] :
        \E drawn \in {[h \in Rows |->
                         [id \in {t[2] : t \in {u \in touched : u[1] = h}} |-> draw[<<h, id>>]]]} :
          /\ root' = Refreshed(r, drawn[Top])
          /\ row' = [h \in Rows |-> RowAfter(h, rows[h], drawn)]
  BY <1>1, Zenon
<1>3. PICK draw \in [touched -> Positions] :
        \E drawn \in {[h \in Rows |->
                         [id \in {t[2] : t \in {u \in touched : u[1] = h}} |-> draw[<<h, id>>]]]} :
          /\ root' = Refreshed(r, drawn[Top])
          /\ row' = [h \in Rows |-> RowAfter(h, rows[h], drawn)]
  BY <1>2, Zenon
<1>4. PICK drawn \in {[h \in Rows |->
                         [id \in {t[2] : t \in {u \in touched : u[1] = h}} |-> draw[<<h, id>>]]]} :
          /\ root' = Refreshed(r, drawn[Top])
          /\ row' = [h \in Rows |-> RowAfter(h, rows[h], drawn)]
  BY <1>3, Zenon
<1>5. /\ touched = UNION {{h} \X (DOMAIN rows[h] \cap modified[h]) : h \in Rows}
      /\ drawn = [h \in Rows |-> [id \in {t[2] : t \in {u \in touched : u[1] = h}} |-> draw[<<h, id>>]]]
  BY <1>2, <1>4, Zenon
<1>6. ASSUME NEW h \in Rows
      PROVE  /\ DOMAIN drawn[h] = DOMAIN rows[h] \cap modified[h]
             /\ \A id \in DOMAIN drawn[h] : drawn[h][id] \in Positions
  <2>1. drawn[h] = [id \in {t[2] : t \in {u \in touched : u[1] = h}} |-> draw[<<h, id>>]]
    BY <1>5
  <2>2. ASSUME NEW id \in DOMAIN rows[h] \cap modified[h]
        PROVE  <<h, id>> \in touched /\ <<h, id>>[1] = h /\ <<h, id>>[2] = id
    BY <1>5
  <2>3. ASSUME NEW t \in touched, t[1] = h
        PROVE  t[2] \in DOMAIN rows[h] \cap modified[h]
    BY <1>5, <2>3
  <2>4. {t[2] : t \in {u \in touched : u[1] = h}} = DOMAIN rows[h] \cap modified[h]
    <3>1. ASSUME NEW id \in DOMAIN rows[h] \cap modified[h]
          PROVE  id \in {t[2] : t \in {u \in touched : u[1] = h}}
      BY <2>2
    <3> QED BY <2>3, <3>1
  <2>5. \A id \in DOMAIN rows[h] \cap modified[h] : draw[<<h, id>>] \in Positions
    BY <1>3, <2>2
  <2> QED BY <2>1, <2>4, <2>5
<1>7. rows = left
  OBVIOUS
<1>8. IsDrawn(drawn, rows, modified)
  BY <1>6 DEF IsDrawn
<1>9. \E d : /\ IsDrawn(d, rows, modified)
             /\ root' = Refreshed(r, d[Top])
             /\ row' = [h \in Rows |-> RowAfter(h, rows[h], d)]
  BY <1>4, <1>8, Zenon
<1> QED BY <1>7, <1>9, Zenon

\* The entries s with the new positions d.
WithNew(e, d) == IF e.key \in DOMAIN d THEN [e EXCEPT !.pos = d[e.key]] ELSE e
Moved(s, d)   == [i \in DOMAIN s |-> WithNew(s[i], d)]

IsMoved(t, s, d) ==
  /\ Ordered(t, Items(1)) /\ Len(t) = Len(s) /\ Keyed(t) = Keyed(s) /\ LastKey(t) = LastKey(s)
  /\ (t = <<>>) = (s = <<>>)
  /\ \A x \in ToSet(t) : \E y \in ToSet(s) : x = WithNew(y, d)

LEMMA MovedIs ==
  ASSUME NEW s, Ordered(s, Items(1)), NEW d, \A id \in DOMAIN d : d[id] \in Int,
         NEW t, t = Moved(s, d)
  PROVE  IsMoved(t, s, d)
<1>1. PICK T : T = [key : Keys, pos : Int]
  OBVIOUS
<1>2. Items(1) = T /\ s \in Seq(T) /\ Ascending(s)
  <2>1. 1 # 0
    OBVIOUS
  <2>2. Items(1) = T
    BY <1>1, <2>1, Zenon DEF Items
  <2> QED BY <2>2 DEF Ordered
<1>3. \A e \in T : WithNew(e, d) \in T /\ WithNew(e, d).key = e.key
  BY <1>1 DEF WithNew
<1>4. PICK n \in Nat : n = Len(s) /\ DOMAIN s = 1 .. n
  BY <1>2
<1>5. \A i \in 1 .. n : s[i] \in T
  BY <1>2, <1>4
<1>6. t = [i \in 1 .. n |-> WithNew(s[i], d)]
  BY <1>4 DEF Moved
<1>7. t \in Seq(T) /\ Len(t) = n /\ DOMAIN t = 1 .. n /\ \A i \in 1 .. n : t[i] = WithNew(s[i], d) /\ t[i].key = s[i].key
  BY <1>3, <1>4, <1>5, <1>6
<1>8. Ascending(t)
  BY <1>2, <1>4, <1>7 DEF Ascending
<1>9. Keyed(t) = Keyed(s)
  BY <1>4, <1>7 DEF Keyed
<1>10. (t = <<>>) = (s = <<>>)
  BY <1>2, <1>4, <1>7
<1>11. LastKey(t) = LastKey(s)
  <2>1. CASE s = <<>>
    BY <1>10, <2>1 DEF LastKey
  <2>2. CASE s # <<>>
    <3>1. n \in 1 .. n
      BY <1>2, <1>4, <2>2
    <3>2. Last(s) = s[n] /\ Last(t) = t[n]
      BY <1>4, <1>7 DEF Last
    <3> QED BY <1>7, <1>10, <2>2, <3>1, <3>2 DEF LastKey
  <2> QED BY <2>1, <2>2
<1>12. ASSUME NEW x \in ToSet(t) PROVE \E y \in ToSet(s) : x = WithNew(y, d)
  BY <1>4, <1>7 DEF ToSet
<1> QED BY <1>2, <1>4, <1>7, <1>8, <1>9, <1>10, <1>11, <1>12 DEF IsMoved, Ordered

LEMMA RefreshedIs ==
  ASSUME NEW m, NEW d
  PROVE  Refreshed(m, d) = [m EXCEPT !.childMap = Moved(m.childMap, d)]
BY Zenon DEF Refreshed, Moved, WithNew

\* The node n as a node m of row h after it: id is among those touched, or not.
IsFinished(h, m, n, id, drawn) ==
  /\ m.pos = (IF id \in DOMAIN drawn[h] THEN drawn[h][id] ELSE n.pos)
  /\ h = 0 => m.arr = n.arr
  /\ h # 0 => m.childMap = (IF id \in DOMAIN drawn[h] THEN Moved(n.childMap, drawn[h - 1]) ELSE n.childMap)
  /\ Len(Array(h, m)) = Len(Array(h, n))

LEMMA RowAfterIs ==
  ASSUME NEW left, NEW modified, NEW drawn, IsDrawn(drawn, left, modified), NEW h \in Rows,
         NEW id \in DOMAIN left[h], NEW held, NEW n, n = left[h][id], IsNode(h, n, id, held),
         NEW m, m = RowAfter(h, left[h], drawn)[id]
  PROVE  IsNode(h, m, id, held) /\ IsFinished(h, m, n, id, drawn)
<1>0. \A p \in Positions : p \in Int
  BY RowsAre
<1>1. m = IF id \notin DOMAIN drawn[h] THEN n
          ELSE [IF h = 0 THEN n ELSE Refreshed(n, drawn[h - 1]) EXCEPT !.pos = drawn[h][id]]
  BY DEF RowAfter
<1>2. CASE id \notin DOMAIN drawn[h]
  BY <1>1, <1>2 DEF IsFinished
<1>3. CASE id \in DOMAIN drawn[h] /\ h = 0
  <2>1. PICK p \in Int : p = drawn[h][id]
    BY <1>3, <1>0 DEF IsDrawn
  <2>2. m = [n EXCEPT !.pos = p]
    BY <1>1, <1>3, <2>1
  <2>3. n \in NodeSet(0) /\ Ordered(n.arr, Items(0)) /\ Len(n.arr) <= Room(0) /\ n.max_value = id /\ n.old_max = id /\ Keyed(n.arr) = held
    BY <1>3 DEF IsNode, Array
  <2>4. m \in NodeSet(0) /\ m.arr = n.arr /\ m.max_value = n.max_value /\ m.old_max = n.old_max /\ m.pos = p
    BY <2>2, <2>3 DEF NodeSet
  <2> QED BY <1>3, <2>1, <2>3, <2>4 DEF IsNode, Array, IsFinished
<1>4. CASE id \in DOMAIN drawn[h] /\ h # 0
  <2>1. PICK p \in Int : p = drawn[h][id]
    BY <1>4, <1>0 DEF IsDrawn
  <2>2. PICK t : t = Moved(n.childMap, drawn[h - 1])
    OBVIOUS
  <2>3. /\ n \in [childMap : Seq([key : Keys, pos : Int]), old_max : Int, max_value : Int, pos : Int]
        /\ Ordered(n.childMap, Items(1)) /\ Len(n.childMap) <= Room(h) /\ n.max_value = id /\ n.old_max = id
        /\ Keyed(n.childMap) = held /\ Items(1) = Items(h) /\ Items(1) = [key : Keys, pos : Int]
    <3>1. 1 # 0
      OBVIOUS
    <3>2. Items(h) = [key : Keys, pos : Int] /\ Items(1) = [key : Keys, pos : Int]
      BY <1>4, <3>1, Zenon DEF Items
    <3>3. NodeSet(h) = [childMap : Seq([key : Keys, pos : Int]), old_max : Int, max_value : Int, pos : Int]
      BY <1>4, Zenon DEF NodeSet
    <3> QED BY <1>4, <3>2, <3>3 DEF IsNode, Array
  <2>4. IsMoved(t, n.childMap, drawn[h - 1])
    <3>1. h - 1 \in Rows
      BY <1>4, RowsAre
    <3>2. \A x \in DOMAIN drawn[h - 1] : drawn[h - 1][x] \in Int
      BY <1>0, <3>1 DEF IsDrawn
    <3> QED BY <2>2, <2>3, <3>2, MovedIs
  <2>5. m = [[n EXCEPT !.childMap = t] EXCEPT !.pos = p]
    BY <1>1, <1>4, <2>1, <2>2, RefreshedIs
  <2>6. t \in Seq([key : Keys, pos : Int])
    BY <2>3, <2>4 DEF IsMoved, Ordered
  <2>7. /\ m \in [childMap : Seq([key : Keys, pos : Int]), old_max : Int, max_value : Int, pos : Int]
        /\ m.childMap = t /\ m.max_value = n.max_value /\ m.old_max = n.old_max /\ m.pos = p
    BY <2>3, <2>5, <2>6
  <2>8. m \in NodeSet(h)
    BY <1>4, <2>7 DEF NodeSet
  <2>9. Array(h, m) = t /\ Array(h, n) = n.childMap
    BY <1>4, <2>7 DEF Array
  <2>10. Ordered(t, Items(h)) /\ Len(t) = Len(n.childMap) /\ Keyed(t) = held
    BY <2>3, <2>4 DEF IsMoved
  <2>11. IsNode(h, m, id, held)
    BY <2>3, <2>7, <2>8, <2>9, <2>10 DEF IsNode
  <2> QED BY <1>4, <2>1, <2>2, <2>7, <2>9, <2>10, <2>11 DEF IsFinished
<1> QED BY <1>2, <1>3, <1>4

\* Before client::finish an entry whose child was not touched is right, and
\* every node above a touched one was touched.
Pending(r, left, modified) ==
  /\ \A h \in Rows : \A id \in DOMAIN left[h] \ modified[h] : left[h][id].pos \in Positions
  /\ \A e \in ToSet(r.childMap) : e.key \notin modified[Top] => left[Top][e.key].pos = e.pos
  /\ \A h \in Rows \ {0} : \A id \in DOMAIN left[h] : \A e \in ToSet(left[h][id].childMap) :
       /\ e.key \in modified[h - 1] => id \in modified[h]
       /\ e.key \notin modified[h - 1] => left[h - 1][e.key].pos = e.pos

\* The leaves of the two tables have the same entries.
SameLeaves(rows, left) ==
  DOMAIN rows[0] = DOMAIN left[0] /\ \A id \in DOMAIN left[0] : rows[0][id].arr = left[0][id].arr

\* Where the nodes of a row are afterwards.
PositionsAre(h, table, left, d) ==
  /\ DOMAIN table = DOMAIN left
  /\ \A id \in DOMAIN left : table[id].pos = IF id \in DOMAIN d THEN d[id] ELSE left[id].pos

LEMMA PlacedIs ==
  ASSUME NEW left, NEW modified, NEW drawn, IsDrawn(drawn, left, modified), NEW h \in Rows,
         NEW table, PositionsAre(h, table, left[h], drawn[h]),
         NEW s, Ordered(s, Items(1)), Keyed(s) \subseteq DOMAIN left[h],
         \A e \in ToSet(s) : e.key \notin modified[h] => left[h][e.key].pos = e.pos
  PROVE  /\ Placed(table, Moved(s, drawn[h]))
         /\ (\A e \in ToSet(s) : e.key \notin modified[h]) => Placed(table, s)
<1>1. PICK d : d = drawn[h]
  OBVIOUS
<1>2. DOMAIN d = DOMAIN left[h] \cap modified[h] /\ \A id \in DOMAIN d : d[id] \in Int
  <2>1. \A p \in Positions : p \in Int
    BY RowsAre
  <2> QED BY <1>1, <2>1 DEF IsDrawn
<1>3. \A y \in ToSet(s) : y.key \in DOMAIN left[h] /\ y \in [key : Keys, pos : Int]
  <2>1. \A y \in ToSet(s) : y \in Items(1)
    BY ToSetIsTyped DEF Ordered
  <2>2. Items(1) = [key : Keys, pos : Int]
    <3>1. 1 # 0
      OBVIOUS
    <3> QED BY <3>1, Zenon DEF Items
  <2> QED BY <2>1, <2>2, KeyedIs
<1>4. PICK t : t = Moved(s, d)
  OBVIOUS
<1>5. \A x \in ToSet(t) : \E y \in ToSet(s) : x = WithNew(y, d)
  BY <1>2, <1>4, MovedIs DEF IsMoved
<1>6. ASSUME NEW x \in ToSet(t) PROVE table[x.key].pos = x.pos
  <2>1. PICK y \in ToSet(s) : x = WithNew(y, d)
    BY <1>5
  <2>2. CASE y.key \in DOMAIN d
    <3>1. x.key = y.key /\ x.pos = d[y.key]
      BY <1>3, <2>1, <2>2 DEF WithNew
    <3> QED BY <1>1, <1>3, <2>2, <3>1 DEF PositionsAre
  <2>3. CASE y.key \notin DOMAIN d
    <3>1. x = y /\ y.key \notin modified[h]
      BY <1>2, <1>3, <2>1, <2>3 DEF WithNew
    <3> QED BY <1>1, <1>3, <2>3, <3>1 DEF PositionsAre
  <2> QED BY <2>2, <2>3
<1>7. ASSUME \A e \in ToSet(s) : e.key \notin modified[h] PROVE Placed(table, s)
  <2>1. ASSUME NEW y \in ToSet(s) PROVE table[y.key].pos = y.pos
    <3>1. y.key \notin DOMAIN d /\ y.key \notin modified[h]
      BY <1>2, <1>7
    <3> QED BY <1>1, <1>3, <3>1 DEF PositionsAre
  <2> QED BY <2>1 DEF Placed
<1> QED BY <1>1, <1>4, <1>6, <1>7 DEF Placed

LEMMA FinishIs ==
  ASSUME NEW keys, NEW r, NEW left, NEW modified, IsTree(keys, r, left), Pending(r, left, modified),
         Finish(r, left, modified)
  PROVE  IsTree(keys, root', row') /\ IsAware(root', row') /\ SameLeaves(row', left)
<1>1. PICK drawn : /\ IsDrawn(drawn, left, modified)
                   /\ root' = Refreshed(r, drawn[Top])
                   /\ row' = [h \in Rows |-> RowAfter(h, left[h], drawn)]
  BY DrawnAre
<1>2. PICK r2 : r2 = root'
  OBVIOUS
<1>3. PICK rows : rows = row'
  OBVIOUS
<1>4. DOMAIN rows = Rows /\ \A h \in Rows : rows[h] = RowAfter(h, left[h], drawn) /\ DOMAIN rows[h] = DOMAIN left[h]
  BY <1>1, <1>3 DEF RowAfter
<1>5. ASSUME NEW h \in Rows PROVE Below(keys, rows, h) = Below(keys, left, h)
  <2>1. h # 0 => h - 1 \in Rows
    BY RowsAre
  <2> QED BY <1>4, <2>1 DEF Below
<1>6. ASSUME NEW h \in Rows
      PROVE  IsRow(h, left[h], Below(keys, left, h)) /\ HalfFull(h, left[h])
  BY DEF IsTree
<1>7. ASSUME NEW h \in Rows, NEW id \in DOMAIN left[h]
      PROVE  /\ IsNode(h, rows[h][id], id, Held(Below(keys, left, h), DOMAIN left[h], id))
             /\ IsFinished(h, rows[h][id], left[h][id], id, drawn)
  <2>1. IsNode(h, left[h][id], id, Held(Below(keys, left, h), DOMAIN left[h], id))
    BY <1>6 DEF IsRow
  <2>2. rows[h][id] = RowAfter(h, left[h], drawn)[id]
    BY <1>4
  <2> QED BY <1>1, <2>1, <2>2, RowAfterIs
<1>8. ASSUME NEW h \in Rows
      PROVE  IsRow(h, rows[h], Below(keys, rows, h)) /\ HalfFull(h, rows[h])
  <2>1. IsRow(h, rows[h], Below(keys, rows, h))
    BY <1>4, <1>5, <1>6, <1>7 DEF IsRow
  <2>2. HalfFull(h, rows[h])
    <3>1. \A id \in DOMAIN left[h] : Len(Array(h, rows[h][id])) = Len(Array(h, left[h][id]))
      BY <1>7 DEF IsFinished
    <3> QED BY <1>4, <1>6, <3>1 DEF HalfFull
  <2> QED BY <2>1, <2>2
<1>9. \A id \in DOMAIN drawn[Top] : drawn[Top][id] \in Int
  <2>1. \A p \in Positions : p \in Int
    BY RowsAre
  <2> QED BY <1>1, <2>1, RowsAre DEF IsDrawn
<1>10. IsRoot(r2, DOMAIN rows[Top]) /\ r2.childMap = Moved(r.childMap, drawn[Top])
  <2>1. IsRoot(r, DOMAIN rows[Top])
    BY <1>4, RowsAre DEF IsTree
  <2>2. PICK t : t = Moved(r.childMap, drawn[Top])
    OBVIOUS
  <2>3. r2 = [r EXCEPT !.childMap = t]
    BY <1>1, <1>2, <2>2, RefreshedIs
  <2>4. /\ r \in [childMap : Seq([key : Keys, pos : Int]), max_value : Int]
        /\ Ordered(r.childMap, Items(1)) /\ Len(r.childMap) <= P1 /\ Keyed(r.childMap) = DOMAIN rows[Top]
        /\ r.max_value = IF r.childMap = <<>> THEN NoKey ELSE LastKey(r.childMap)
    BY <2>1 DEF IsRoot
  <2>5. IsMoved(t, r.childMap, drawn[Top])
    BY <1>9, <2>2, <2>4, MovedIs
  <2>6. t \in Seq([key : Keys, pos : Int])
    <3>1. Items(1) = [key : Keys, pos : Int]
      <4>1. 1 # 0
        OBVIOUS
      <4> QED BY <4>1, Zenon DEF Items
    <3> QED BY <2>5, <3>1 DEF IsMoved, Ordered
  <2>7. /\ r2 \in [childMap : Seq([key : Keys, pos : Int]), max_value : Int]
        /\ r2.childMap = t /\ r2.max_value = r.max_value
    BY <2>3, <2>4, <2>6
  <2>8. /\ Ordered(t, Items(1)) /\ Len(t) = Len(r.childMap) /\ Keyed(t) = Keyed(r.childMap)
        /\ LastKey(t) = LastKey(r.childMap) /\ (t = <<>>) = (r.childMap = <<>>)
    BY <2>5 DEF IsMoved
  <2>9. r2.max_value = IF t = <<>> THEN NoKey ELSE LastKey(t)
    BY <2>4, <2>7, <2>8
  <2>10. IsRoot(r2, DOMAIN rows[Top])
    BY <2>4, <2>7, <2>8, <2>9 DEF IsRoot
  <2> QED BY <2>2, <2>7, <2>10
<1>11. IsTree(keys, r2, rows)
  <2>1. keys \subseteq Keys
    BY DEF IsTree
  <2> QED BY <1>4, <1>8, <1>10, <2>1 DEF IsTree
<1>12. ASSUME NEW h \in Rows PROVE PositionsAre(h, rows[h], left[h], drawn[h])
  BY <1>4, <1>7 DEF PositionsAre, IsFinished
<1>13. ASSUME NEW h \in Rows, NEW id \in DOMAIN rows[h] PROVE rows[h][id].pos \in Positions
  <2>1. CASE id \in DOMAIN drawn[h]
    BY <1>1, <1>4, <1>12, <2>1 DEF IsDrawn, PositionsAre
  <2>2. CASE id \notin DOMAIN drawn[h]
    <3>1. id \in DOMAIN left[h] \ modified[h]
      BY <1>1, <1>4, <2>2 DEF IsDrawn
    <3>2. left[h][id].pos \in Positions
      BY <3>1 DEF Pending
    <3> QED BY <1>12, <2>2, <3>1, <3>2 DEF PositionsAre
  <2> QED BY <2>1, <2>2
<1>14. Placed(rows[Top], r2.childMap)
  <2>1. Ordered(r.childMap, Items(1)) /\ Keyed(r.childMap) \subseteq DOMAIN left[Top]
    BY DEF IsTree, IsRoot
  <2>2. \A e \in ToSet(r.childMap) : e.key \notin modified[Top] => left[Top][e.key].pos = e.pos
    BY DEF Pending
  <2>3. Top \in Rows
    BY RowsAre
  <2>4. PICK s : s = r.childMap
    OBVIOUS
  <2>5. PositionsAre(Top, rows[Top], left[Top], drawn[Top])
    BY <1>12, <2>3
  <2>6. Placed(rows[Top], Moved(s, drawn[Top]))
    BY <1>1, <2>1, <2>2, <2>3, <2>4, <2>5, PlacedIs
  <2> QED BY <1>10, <2>4, <2>6
<1>15. ASSUME NEW h \in Rows \ {0}, NEW id \in DOMAIN rows[h] PROVE Placed(rows[h - 1], rows[h][id].childMap)
  <2>1. h - 1 \in Rows /\ h # 0 /\ id \in DOMAIN left[h]
    BY <1>4, RowsAre
  <2>2. PICK s : s = left[h][id].childMap
    OBVIOUS
  <2>3. Ordered(s, Items(1)) /\ Keyed(s) \subseteq DOMAIN left[h - 1]
    <3>1. Keyed(s) = Held(DOMAIN left[h - 1], DOMAIN left[h], id) /\ Ordered(s, Items(1))
      BY <2>1, <2>2, NodeLists
    <3> QED BY <3>1 DEF Held
  <2>4. \A e \in ToSet(s) : /\ e.key \in modified[h - 1] => id \in modified[h]
                            /\ e.key \notin modified[h - 1] => left[h - 1][e.key].pos = e.pos
    BY <2>1, <2>2 DEF Pending
  <2>5. /\ Placed(rows[h - 1], Moved(s, drawn[h - 1]))
        /\ (\A e \in ToSet(s) : e.key \notin modified[h - 1]) => Placed(rows[h - 1], s)
    BY <1>1, <1>12, <2>1, <2>3, <2>4, PlacedIs
  <2>6. rows[h][id].childMap = IF id \in DOMAIN drawn[h] THEN Moved(s, drawn[h - 1]) ELSE s
    BY <1>7, <2>1, <2>2 DEF IsFinished
  <2>7. CASE id \in DOMAIN drawn[h]
    BY <2>5, <2>6, <2>7
  <2>8. CASE id \notin DOMAIN drawn[h]
    <3>1. id \notin modified[h]
      BY <1>1, <2>1, <2>8 DEF IsDrawn
    <3> QED BY <2>4, <2>5, <2>6, <2>8, <3>1
  <2> QED BY <2>7, <2>8
<1>16. IsAware(r2, rows)
  BY <1>4, <1>13, <1>14, <1>15 DEF IsAware
<1>17. SameLeaves(rows, left)
  <2>1. 0 \in Rows
    BY RowsAre
  <2>2. \A id \in DOMAIN left[0] : rows[0][id].arr = left[0][id].arr
    BY <1>7, <2>1 DEF IsFinished
  <2> QED BY <1>4, <2>1, <2>2 DEF SameLeaves
<1> QED BY <1>2, <1>3, <1>11, <1>16, <1>17

-----------------------------------------------------------------------------
(***************************************************************************)
(* The operations of test_bomap keep the tree.                             *)
(***************************************************************************)
LEMMA HeldOnce ==
  ASSUME NEW B \in SUBSET Nat, NEW S \in SUBSET Nat, NEW a \in S, NEW b \in S,
         NEW k, k \in Held(B, S, a), k \in Held(B, S, b)
  PROVE  a = b
<1>1. k \in Nat /\ a \in Nat /\ b \in Nat /\ k <= a /\ k <= b
  BY DEF Held
<1>2. ~(a < b) /\ ~(b < a)
  BY <1>1 DEF Held
<1> QED BY <1>1, <1>2

\* A tree whose root lists nothing.
LEMMA EmptyIs ==
  ASSUME NEW keys, NEW r, NEW rows, IsTree(keys, r, rows), r.childMap = <<>>
  PROVE  keys = {} /\ \A h \in Rows : DOMAIN rows[h] = {}
<1>1. DOMAIN rows[Top] = {}
  <2>1. Keyed(r.childMap) = DOMAIN rows[Top]
    BY DEF IsTree, IsRoot
  <2>2. Keyed(r.childMap) = {}
    BY DEF Keyed
  <2> QED BY <2>1, <2>2
<1>2. ASSUME NEW h \in Rows, DOMAIN rows[h] = {} PROVE Below(keys, rows, h) = {}
  <2>1. Covers({}, Below(keys, rows, h))
    BY <1>2 DEF IsTree, IsRow
  <2> QED BY <2>1 DEF Covers
<1>3. \A h \in Rows : DOMAIN rows[h] = {}
  <2> DEFINE Bad == {k \in 0 .. Top : DOMAIN rows[Top - k] # {}}
  <2>1. SUFFICES ASSUME Bad # {} PROVE FALSE
    <3>1. \A h \in Rows : Top - h \in 0 .. Top /\ Top - (Top - h) = h
      BY RowsAre
    <3> QED BY <3>1
  <2>2. PICK k \in Bad : \A j \in Bad : k <= j
    <3>1. Bad \subseteq Nat
      BY RowsAre
    <3> HIDE DEF Bad
    <3> QED BY <2>1, <3>1, LeastOf
  <2>3. k \in 0 .. Top /\ DOMAIN rows[Top - k] # {}
    BY <2>2
  <2>4. k # 0
    BY <1>1, <2>3, RowsAre
  <2>5. k - 1 \in 0 .. Top /\ ~(k <= k - 1)
    BY <2>3, <2>4, RowsAre
  <2>6. DOMAIN rows[Top - (k - 1)] = {}
    BY <2>2, <2>5
  <2>7. PICK h \in Rows \ {0} : h = Top - (k - 1) /\ h - 1 = Top - k
    BY <2>3, <2>4, RowsAre
  <2>8. Below(keys, rows, h) = {} /\ Below(keys, rows, h) = DOMAIN rows[h - 1]
    <3>1. Below(keys, rows, h) = {}
      BY <1>2, <2>6, <2>7
    <3> QED BY <3>1 DEF Below
  <2> QED BY <2>3, <2>7, <2>8
<1>4. keys = {}
  <2>1. Below(keys, rows, 0) = {}
    BY <1>2, <1>3, RowsAre
  <2> QED BY <2>1 DEF Below
<1> QED BY <1>3, <1>4

LEMMA SearchPending ==
  ASSUME NEW keys, IsTree(keys, root, row), IsAware(root, row), NEW key \in Keys,
         NEW way, IsWayFrom(0, way, key), NEW modified, modified = [h \in Rows |-> {way[h].key}]
  PROVE  Pending(root, row, modified)
<1>1. \A h \in Rows : modified[h] = {way[h].key}
  OBVIOUS
<1>2. ASSUME NEW h \in Rows, NEW id \in DOMAIN row[h] PROVE row[h][id].pos \in Positions
  BY DEF IsAware
<1>3. ASSUME NEW e \in ToSet(root.childMap) PROVE row[Top][e.key].pos = e.pos
  BY DEF IsAware, Placed
<1>4. ASSUME NEW h \in Rows \ {0}, NEW id \in DOMAIN row[h], NEW e \in ToSet(row[h][id].childMap)
      PROVE  row[h - 1][e.key].pos = e.pos
  BY DEF IsAware, Placed
<1>5. ASSUME NEW h \in Rows \ {0}, NEW id \in DOMAIN row[h], NEW e \in ToSet(row[h][id].childMap), e.key \in modified[h - 1]
      PROVE  id \in modified[h]
  <2>1. root.childMap # <<>>
    BY EmptyIs
  <2>2. h - 1 \in Rows /\ h - 1 # Top /\ (h - 1) + 1 = h
    BY RowsAre
  <2>3. e.key = way[h - 1].key
    BY <1>1, <1>5, <2>2
  <2>4. way[h - 1].key \in Held(DOMAIN row[h - 1], DOMAIN row[h], way[h].key)
    BY <2>1, <2>2, AimsAre
  <2>5. way[h].key \in DOMAIN row[h]
    BY <2>1, AimsAre DEF Aim
  <2>6. /\ Keyed(row[h][id].childMap) = Held(DOMAIN row[h - 1], DOMAIN row[h], id)
        /\ DOMAIN row[h - 1] \in SUBSET Nat /\ DOMAIN row[h] \in SUBSET Nat
    BY NodeLists
  <2>7. e.key \in Held(DOMAIN row[h - 1], DOMAIN row[h], id)
    BY <2>6, KeyedIs
  <2>8. id = way[h].key
    BY <2>3, <2>4, <2>5, <2>6, <2>7, HeldOnce
  <2> QED BY <1>1, <2>8
<1>6. \A h \in Rows : \A id \in DOMAIN row[h] \ modified[h] : row[h][id].pos \in Positions
  BY <1>2
<1>7. \A e \in ToSet(root.childMap) : e.key \notin modified[Top] => row[Top][e.key].pos = e.pos
  BY <1>3
<1>8. \A h \in Rows \ {0} : \A id \in DOMAIN row[h] : \A e \in ToSet(row[h][id].childMap) :
        /\ e.key \in modified[h - 1] => id \in modified[h]
        /\ e.key \notin modified[h - 1] => row[h - 1][e.key].pos = e.pos
  <2>1. SUFFICES ASSUME NEW h \in Rows \ {0}, NEW id \in DOMAIN row[h], NEW e \in ToSet(row[h][id].childMap)
                 PROVE  /\ e.key \in modified[h - 1] => id \in modified[h]
                        /\ e.key \notin modified[h - 1] => row[h - 1][e.key].pos = e.pos
    BY Zenon
  <2>2. row[h - 1][e.key].pos = e.pos
    BY <1>4, Zenon
  <2>3. e.key \in modified[h - 1] => id \in modified[h]
    BY <1>5, Zenon
  <2> QED BY <2>2, <2>3, Zenon
<1> QED BY <1>6, <1>7, <1>8, Zenon DEF Pending

\* What a search says of the leaf it finds.
LEMMA LeafAt ==
  ASSUME NEW keys, IsTree(keys, root, row), NEW e
  PROVE  Ordered(NodeAt(0, e).arr, Items(0))
<1>1. CASE Found(0, e)
  <2>1. e.key \in DOMAIN row[0] /\ NodeAt(0, e) = row[0][e.key]
    BY <1>1 DEF Found, NodeAt
  <2>2. IsNode(0, row[0][e.key], e.key, Held(Below(keys, row, 0), DOMAIN row[0], e.key))
    BY <2>1, RowsAre DEF IsTree, IsRow
  <2>3. PICK n : n = row[0][e.key]
    OBVIOUS
  <2>4. Ordered(n.arr, Items(0))
    BY <2>2, <2>3 DEF IsNode, Array
  <2> QED BY <2>1, <2>3, <2>4
<1>2. CASE ~Found(0, e)
  <2>1. NodeAt(0, e).arr = <<>>
    BY <1>2 DEF NodeAt, NewLeaf
  <2>2. \A T : <<>> \in Seq(T)
    OBVIOUS
  <2>3. Ordered(<<>>, Items(0))
    BY <2>2 DEF Ordered, Ascending
  <2> QED BY <2>1, <2>3
<1> QED BY <1>1, <1>2

LEMMA AnswerIs ==
  ASSUME NEW keys, IsTree(keys, root, row), NEW e, NEW key
  PROVE  Answer(LeafSearch(NodeAt(0, e), key)) \in Values \cup {NotFound}
<1>1. PICK l : l = NodeAt(0, e)
  OBVIOUS
<1>2. Ordered(l.arr, Items(0)) /\ Keyable(Items(0))
  BY <1>1, LeafAt, RowsAre
<1>3. CASE LeafSearch(l, key) = <<>>
  BY <1>1, <1>3 DEF Answer
<1>4. CASE \E x \in ToSet(l.arr) : LeafSearch(l, key) = <<x>>
  <2>1. PICK x \in ToSet(l.arr) : LeafSearch(l, key) = <<x>>
    BY <1>4
  <2>2. Answer(<<x>>) = x.value
    BY DEF Answer
  <2>3. x \in Items(0)
    BY <1>2, ToSetIsTyped DEF Ordered
  <2>4. x.value \in Values
    BY <2>3 DEF Items
  <2> QED BY <1>1, <2>1, <2>2, <2>4
<1> QED BY <1>2, <1>3, <1>4, LeafSearchIs

\* What remains true of the tree.
Tidy(keys) == IsTree(keys, root, row) /\ IsAware(root, row)

LEMMA SearchIs ==
  ASSUME NEW keys, Tidy(keys), NEW key \in Keys, Search(key)
  PROVE  /\ IsTree(keys, root', row') /\ IsAware(root', row') /\ SameLeaves(row', row)
         /\ ret' = Singleton(key, Answer(LeafSearch(NodeAt(0, WayTo(key)[0]), key)))
<1>1. PICK way : way = WayTo(key)
  OBVIOUS
<1>2. PICK modified : modified = [h \in Rows |-> {way[h].key}]
  OBVIOUS
<1>3. Finish(root, row, modified) /\ ret' = Singleton(key, Answer(LeafSearch(NodeAt(0, way[0]), key)))
  <2>1. \E w \in {way} : /\ ret' = Singleton(key, Answer(LeafSearch(NodeAt(0, w[0]), key)))
                         /\ Finish(root, row, [h \in Rows |-> {w[h].key}])
    BY <1>1, Zenon DEF Search
  <2> QED BY <1>2, <2>1, Zenon
<1>4. IsTree(keys, root, row) /\ IsAware(root, row)
  BY DEF Tidy
<1>5. IsWayFrom(0, way, key)
  BY <1>1, WayIs
<1>6. Pending(root, row, modified)
  BY <1>2, <1>4, <1>5, SearchPending
<1> QED BY <1>1, <1>3, <1>4, <1>6, FinishIs

LEMMA Untouched ==
  ASSUME NEW keys, NEW way, NEW grown, NEW key, NEW value, Inserting(keys, way, grown, key, value),
         NEW rows, rows = RowsGrown(way, grown), NEW h \in Rows
  PROVE  /\ DOMAIN rows[h] = Replaced(DOMAIN row[h], way[h].key, NamesOf(grown[h]))
         /\ \A id \in DOMAIN rows[h] \ NamesOf(grown[h]) : rows[h][id] = row[h][id]
         /\ way[h].key \in DOMAIN row[h] /\ DOMAIN row[h] \in SUBSET Nat
         /\ \A id \in DOMAIN row[h] \ {way[h].key} : id \notin NamesOf(grown[h])
<1>1. IsGrownForest(keys \cup {key}, rows, way, grown)
  BY ForestGrown
<1>2. DOMAIN rows[h] = Replaced(DOMAIN row[h], way[h].key, NamesOf(grown[h])) /\ NamesOf(grown[h]) \subseteq Keys
  BY <1>1 DEF IsGrownForest
<1>3. rows[h] = Regrown(row[h], way[h].key, grown[h])
  BY DEF RowsGrown
<1>4. \A id \in DOMAIN rows[h] \ NamesOf(grown[h]) : rows[h][id] = row[h][id]
  BY <1>2, <1>3 DEF Regrown, Replaced
<1>5. way[h].key \in DOMAIN row[h]
  BY AimsAre DEF Inserting, Aim
<1>6. DOMAIN row[h] \in SUBSET Nat
  <2>1. DOMAIN row[h] \in SUBSET Keys
    BY DEF Inserting, IsTree, IsRow
  <2> QED BY <2>1, RowsAre
<1>7. ASSUME NEW id \in DOMAIN row[h] \ {way[h].key} PROVE id \notin NamesOf(grown[h])
  <2>1. PICK X : IsRegrown(h, row[h], way[h].key, Below(keys, row, h), Gone(way, key, h), Come(grown, key, h), grown[h], X)
    BY Steps DEF IsStep
  <2>2. Apart(DOMAIN row[h], {way[h].key}, NamesOf(grown[h]))
    BY <2>1 DEF IsRegrown, RowRegrown
  <2>3. \A x \in NamesOf(grown[h]) : id < x \/ x < id
    BY <2>2 DEF Apart
  <2>4. \A x \in NamesOf(grown[h]) : x \in Nat /\ id \in Nat
    BY <1>2, <1>6, RowsAre
  <2> QED BY <2>3, <2>4
<1> QED BY <1>2, <1>4, <1>5, <1>6, <1>7

\* The entries of a node above a row that have not been touched are right.
LEMMA InsertedNode ==
  ASSUME NEW keys, NEW way, NEW grown, NEW key, NEW value, Inserting(keys, way, grown, key, value),
         NEW rows, rows = RowsGrown(way, grown), NEW modified,
         modified = [h \in Rows |-> {way[h].key} \cup NamesOf(grown[h])],
         NEW h \in Rows \ {0}, NEW id \in DOMAIN rows[h], NEW e \in ToSet(rows[h][id].childMap)
  PROVE  /\ e.key \in modified[h - 1] => id \in modified[h]
         /\ e.key \notin modified[h - 1] => rows[h - 1][e.key].pos = e.pos
<1>1. h \in Rows /\ h # 0 /\ h - 1 \in Rows /\ h - 1 # Top /\ (h - 1) + 1 = h
  BY RowsAre
<1>2. PICK v : v = way[h - 1].key
  OBVIOUS
<1>3. PICK w : w = way[h].key
  OBVIOUS
<1>4. PICK A : A = NamesOf(grown[h - 1])
  OBVIOUS
<1>5. PICK N : N = NamesOf(grown[h])
  OBVIOUS
<1>6. modified[h - 1] = {v} \cup A /\ modified[h] = {w} \cup N
  BY <1>1, <1>2, <1>3, <1>4, <1>5
<1>7. /\ DOMAIN rows[h] = Replaced(DOMAIN row[h], w, N)
      /\ \A x \in DOMAIN rows[h] \ N : rows[h][x] = row[h][x]
      /\ w \in DOMAIN row[h] /\ DOMAIN row[h] \in SUBSET Nat
  BY <1>1, <1>3, <1>5, Untouched
<1>8. /\ DOMAIN rows[h - 1] = Replaced(DOMAIN row[h - 1], v, A)
      /\ \A x \in DOMAIN rows[h - 1] \ A : rows[h - 1][x] = row[h - 1][x]
      /\ DOMAIN row[h - 1] \in SUBSET Nat
      /\ \A x \in DOMAIN row[h - 1] \ {v} : x \notin A
  BY <1>1, <1>2, <1>4, Untouched
<1>9. ASSUME NEW a \in DOMAIN row[h], e \in ToSet(row[h][a].childMap)
      PROVE  /\ row[h - 1][e.key].pos = e.pos /\ e.key \in Held(DOMAIN row[h - 1], DOMAIN row[h], a)
             /\ e.key \in DOMAIN row[h - 1]
  <2>1. row[h - 1][e.key].pos = e.pos
    BY <1>1, <1>9 DEF Inserting, IsAware, Placed
  <2>2. Keyed(row[h][a].childMap) = Held(DOMAIN row[h - 1], DOMAIN row[h], a)
    BY <1>1, NodeLists DEF Inserting
  <2>3. e.key \in Held(DOMAIN row[h - 1], DOMAIN row[h], a)
    BY <1>9, <2>2, KeyedIs
  <2> QED BY <2>1, <2>3 DEF Held
<1>10. ASSUME e.key \in DOMAIN row[h - 1], row[h - 1][e.key].pos = e.pos, e.key \notin modified[h - 1]
       PROVE  rows[h - 1][e.key].pos = e.pos
  <2>1. e.key \in DOMAIN rows[h - 1] \ A
    BY <1>6, <1>8, <1>10 DEF Replaced
  <2> QED BY <1>8, <1>10, <2>1
<1>11. CASE id \notin N
  <2>1. id \in DOMAIN row[h] /\ rows[h][id] = row[h][id] /\ id # w
    BY <1>7, <1>11 DEF Replaced
  <2>2. /\ row[h - 1][e.key].pos = e.pos /\ e.key \in Held(DOMAIN row[h - 1], DOMAIN row[h], id)
        /\ e.key \in DOMAIN row[h - 1]
    BY <1>9, <2>1
  <2>3. v \in Held(DOMAIN row[h - 1], DOMAIN row[h], w)
    BY <1>1, <1>2, <1>3, AimsAre DEF Inserting
  <2>4. e.key # v
    BY <1>7, <1>8, <2>1, <2>2, <2>3, HeldOnce
  <2>5. e.key \notin modified[h - 1]
    BY <1>6, <1>8, <2>2, <2>4
  <2> QED BY <1>10, <2>2, <2>5
<1>12. CASE id \in N
  <2>1. PICK pair : pair = grown[h]
    OBVIOUS
  <2>2. PICK X :
          /\ IsRegrown(h, row[h], way[h].key, Below(keys, row, h), Gone(way, key, h), Come(grown, key, h), pair, X)
          /\ HasThem(X, row[h][way[h].key], h, way, grown, key, value)
    BY <1>1, <2>1, Steps DEF IsStep
  <2>3. ArePieces(h, pair, X)
    BY <2>2 DEF IsRegrown
  <2>4. PICK p \in Pieces(pair) : p = PieceOf(pair, id)
    BY <1>5, <1>12, <2>1, <2>3, PieceOfIs
  <2>5. rows[h][id] = Listed(p)
    BY <1>1, <1>3, <1>5, <1>7, <1>12, <2>1, <2>4 DEF RowsGrown, Regrown
  <2>6. p \in NodeSet(h) /\ ToSet(Array(h, p)) \subseteq X
    BY <2>3 DEF ArePieces
  <2>7. Listed(p).childMap = p.childMap
    BY DEF Listed
  <2>8. e \in X
    BY <1>1, <2>5, <2>6, <2>7 DEF Array
  <2>9. Relists(X, row[h][w].childMap, v, A)
    BY <1>1, <1>2, <1>3, <1>4, <2>2 DEF HasThem, Gone, Come
  <2>10. e.key \notin A => e \in ToSet(row[h][w].childMap)
    BY <2>8, <2>9 DEF Relists
  <2>11. e.key \notin modified[h - 1] => rows[h - 1][e.key].pos = e.pos
    BY <1>6, <1>7, <1>9, <1>10, <2>10
  <2> QED BY <1>6, <1>12, <2>11
<1> QED BY <1>11, <1>12

LEMMA InsertPending ==
  ASSUME NEW keys, NEW way, NEW grown, NEW key, NEW value, Inserting(keys, way, grown, key, value),
         NEW rows, rows = RowsGrown(way, grown), NEW modified,
         modified = [h \in Rows |-> {way[h].key} \cup NamesOf(grown[h])]
  PROVE  Pending(RootGrown(grown), rows, modified)
<1>1. \A h \in Rows : modified[h] = {way[h].key} \cup NamesOf(grown[h])
  OBVIOUS
<1>2. \A h \in Rows : \A id \in DOMAIN rows[h] \ modified[h] : rows[h][id].pos \in Positions
  <2>1. SUFFICES ASSUME NEW h \in Rows, NEW id \in DOMAIN rows[h] \ modified[h]
                 PROVE  rows[h][id].pos \in Positions
    BY Zenon
  <2>2. id \in DOMAIN rows[h] \ NamesOf(grown[h])
    BY <1>1
  <2>3. id \in DOMAIN row[h] /\ rows[h][id] = row[h][id]
    BY <2>2, Untouched DEF Replaced
  <2> QED BY <2>3 DEF Inserting, IsAware
<1>3. \A e \in ToSet(RootGrown(grown).childMap) : e.key \notin modified[Top] => rows[Top][e.key].pos = e.pos
  <2>1. SUFFICES ASSUME NEW e \in ToSet(RootGrown(grown).childMap), e.key \notin modified[Top]
                 PROVE  rows[Top][e.key].pos = e.pos
    BY Zenon
  <2>2. Top \in Rows
    BY RowsAre
  <2>3. RootLists(RootGrown(grown), DOMAIN rows[Top], NamesOf(grown[Top]))
    BY RootIsGrown
  <2>4. e.key \notin NamesOf(grown[Top])
    BY <1>1, <2>1, <2>2
  <2>5. e \in ToSet(root.childMap)
    BY <2>3, <2>4 DEF RootLists
  <2>6. row[Top][e.key].pos = e.pos
    BY <2>5 DEF Inserting, IsAware, Placed
  <2>7. Keyed(RootGrown(grown).childMap) = DOMAIN rows[Top]
    BY <2>3 DEF RootLists, IsRoot
  <2>8. e.key \in DOMAIN rows[Top] \ NamesOf(grown[Top])
    BY <2>4, <2>7, KeyedIs
  <2>9. rows[Top][e.key] = row[Top][e.key]
    BY <2>2, <2>8, Untouched
  <2> QED BY <2>6, <2>9
<1>4. \A h \in Rows \ {0} : \A id \in DOMAIN rows[h] : \A e \in ToSet(rows[h][id].childMap) :
        /\ e.key \in modified[h - 1] => id \in modified[h]
        /\ e.key \notin modified[h - 1] => rows[h - 1][e.key].pos = e.pos
  <2>1. SUFFICES ASSUME NEW h \in Rows \ {0}, NEW id \in DOMAIN rows[h], NEW e \in ToSet(rows[h][id].childMap)
                 PROVE  /\ e.key \in modified[h - 1] => id \in modified[h]
                        /\ e.key \notin modified[h - 1] => rows[h - 1][e.key].pos = e.pos
    BY Zenon
  <2> QED BY InsertedNode
<1> QED BY <1>2, <1>3, <1>4, Zenon DEF Pending

LEMMA InsertIs ==
  ASSUME NEW keys, Tidy(keys), NEW key \in Keys, NEW value \in Values, Insert(key, value)
  PROVE  \E way, grown :
           /\ Inserting(keys, way, grown, key, value)
           /\ IsTree(keys \cup {key}, root', row') /\ IsAware(root', row')
           /\ SameLeaves(row', RowsGrown(way, grown)) /\ ret' = ret
<1>1. PICK way : way = WayTo(key)
  OBVIOUS
<1>2. PICK grown : grown = Grown(way, key, value)
  OBVIOUS
<1>3. PICK modified : modified = [h \in Rows |-> {way[h].key} \cup NamesOf(grown[h])]
  OBVIOUS
<1>4. PICK rows : rows = RowsGrown(way, grown)
  OBVIOUS
<1>5. Inserting(keys, way, grown, key, value)
  <2>1. IsWayFrom(0, way, key) /\ IsGrownTo(Top, grown, way, key, value)
    BY <1>1, <1>2, WayIs, GrownIs
  <2>2. root.childMap # <<>>
    BY Zenon DEF Insert
  <2> QED BY <2>1, <2>2 DEF Inserting, Tidy
<1>6. Finish(RootGrown(grown), rows, modified) /\ ret' = ret
  <2>1. \E w \in {way} : \E g \in {Grown(w, key, value)} :
          Finish(IF ToSet(g[Top].new) = {} THEN Update(root, g[Top].node)
                 ELSE RootInsert(Update(root, g[Top].node), Entry(Head(g[Top].new)), P1),
                 [h \in Rows |-> Written(h, Less(h, {w[h]}), g[h])],
                 [h \in Rows |-> {w[h].key} \cup {node.max_value : node \in {g[h].node} \cup ToSet(g[h].new)}])
    BY <1>1, Zenon DEF Insert
  <2>2. Finish(IF ToSet(grown[Top].new) = {} THEN Update(root, grown[Top].node)
               ELSE RootInsert(Update(root, grown[Top].node), Entry(Head(grown[Top].new)), P1),
               [h \in Rows |-> Written(h, Less(h, {way[h]}), grown[h])],
               [h \in Rows |-> {way[h].key} \cup {node.max_value : node \in {grown[h].node} \cup ToSet(grown[h].new)}])
    BY <1>2, <2>1, Zenon
  <2>3. [h \in Rows |-> Written(h, Less(h, {way[h]}), grown[h])] = rows
    BY <1>4, <1>5, RowsWritten
  <2>4. [h \in Rows |-> {way[h].key} \cup {node.max_value : node \in {grown[h].node} \cup ToSet(grown[h].new)}] = modified
    BY <1>3, Zenon DEF NamesOf, Pieces
  <2>5. RootGrown(grown) = IF ToSet(grown[Top].new) = {} THEN Update(root, grown[Top].node)
                           ELSE RootInsert(Update(root, grown[Top].node), Entry(Head(grown[Top].new)), P1)
    BY Zenon DEF RootGrown
  <2>6. Finish(RootGrown(grown), rows, modified)
    BY <2>2, <2>3, <2>4, <2>5, Zenon
  <2>7. ret' = ret
    BY Zenon DEF Insert
  <2> QED BY <2>6, <2>7
<1>7. IsTree(keys \cup {key}, RootGrown(grown), rows)
  <2>1. IsForest(keys \cup {key}, rows)
    BY <1>4, <1>5, ForestGrown DEF IsGrownForest
  <2>2. IsRoot(RootGrown(grown), DOMAIN rows[Top])
    BY <1>4, <1>5, RootIsGrown DEF RootLists
  <2>3. DOMAIN rows = Rows
    BY <1>4 DEF RowsGrown
  <2> QED BY <2>1, <2>2, <2>3 DEF IsForest, IsTree
<1>8. Pending(RootGrown(grown), rows, modified)
  BY <1>3, <1>4, <1>5, InsertPending
<1>9. IsTree(keys \cup {key}, root', row') /\ IsAware(root', row') /\ SameLeaves(row', rows)
  BY <1>6, <1>7, <1>8, FinishIs
<1> QED BY <1>4, <1>5, <1>6, <1>9

\* The nodes of a tree of one key.
FirstNode(h, key, value) ==
  IF h = 0
  THEN [NewLeaf EXCEPT !.arr = << [key |-> key, value |-> value] >>, !.old_max = key, !.max_value = key]
  ELSE [NewMid EXCEPT !.childMap = << [key |-> key, pos |-> Unplaced] >>, !.old_max = key, !.max_value = key]

FirstRows(key, value) == [h \in Rows |-> Singleton(key, FirstNode(h, key, value))]
FirstRoot(key)        == [childMap |-> << [key |-> key, pos |-> Unplaced] >>, max_value |-> key]

LEMMA OneEntry ==
  ASSUME NEW T, NEW e \in T, NEW t, t = <<e>>
  PROVE  Ordered(t, T) /\ Len(t) = 1 /\ Keyed(t) = {e.key} /\ t # <<>> /\ LastKey(t) = e.key /\ ToSet(t) = {e}
<1>1. t \in Seq(T) /\ Len(t) = 1 /\ DOMAIN t = {1} /\ t[1] = e /\ t # <<>>
  OBVIOUS
<1>2. Ascending(t)
  BY <1>1 DEF Ascending
<1>3. Keyed(t) = {e.key} /\ ToSet(t) = {e}
  BY <1>1 DEF Keyed, ToSet
<1>4. LastKey(t) = e.key
  BY <1>1 DEF LastKey, Last
<1> QED BY <1>1, <1>2, <1>3, <1>4 DEF Ordered

LEMMA FirstNodeIs ==
  ASSUME NEW h \in Nat, NEW key \in Keys, NEW value \in Values
  PROVE  IsNode(h, FirstNode(h, key, value), key, {key})
<1>1. PICK n : n = FirstNode(h, key, value)
  OBVIOUS
<1>2. key \in Int /\ Room(h) \in Nat \ {0}
  BY RowsAre
<1>3. CASE h = 0
  <2>1. PICK e : e = [key |-> key, value |-> value]
    OBVIOUS
  <2>2. PICK t : t = <<e>>
    OBVIOUS
  <2>3. e \in Items(0) /\ e.key = key
    BY <2>1 DEF Items
  <2>4. Ordered(t, Items(0)) /\ Len(t) = 1 /\ Keyed(t) = {key}
    BY <2>2, <2>3, OneEntry
  <2>5. t \in Seq([key : Keys, value : Values])
    BY <2>4 DEF Ordered, Items
  <2>6. n = [arr |-> t, old_max |-> key, max_value |-> key, pos |-> Unplaced]
    BY <1>1, <1>3, <2>1, <2>2 DEF FirstNode, NewLeaf
  <2>7. n \in NodeSet(0)
    BY <1>2, <2>5, <2>6 DEF NodeSet, Unplaced
  <2>8. Array(0, n) = t /\ n.max_value = key /\ n.old_max = key
    BY <2>6 DEF Array
  <2>9. Len(t) <= Room(0)
    BY <1>2, <1>3, <2>4
  <2>10. IsNode(0, n, key, {key})
    BY <2>4, <2>7, <2>8, <2>9, Zenon DEF IsNode
  <2> QED BY <1>1, <1>3, <2>10
<1>4. CASE h # 0
  <2>1. PICK e : e = [key |-> key, pos |-> Unplaced]
    OBVIOUS
  <2>2. PICK t : t = <<e>>
    OBVIOUS
  <2>3. e \in Items(h) /\ e.key = key
    BY <1>4, <2>1 DEF Items, Unplaced
  <2>4. Ordered(t, Items(h)) /\ Len(t) = 1 /\ Keyed(t) = {key}
    BY <2>2, <2>3, OneEntry
  <2>5. t \in Seq([key : Keys, pos : Int])
    BY <1>4, <2>4 DEF Ordered, Items
  <2>6. n = [childMap |-> t, old_max |-> key, max_value |-> key, pos |-> Unplaced]
    BY <1>1, <1>4, <2>1, <2>2 DEF FirstNode, NewMid
  <2>7. n \in NodeSet(h)
    BY <1>2, <1>4, <2>5, <2>6 DEF NodeSet, Unplaced
  <2>8. Array(h, n) = t /\ n.max_value = key /\ n.old_max = key
    BY <1>4, <2>6 DEF Array
  <2>9. Len(t) <= Room(h)
    BY <1>2, <2>4
  <2>10. IsNode(h, n, key, {key})
    BY <2>4, <2>7, <2>8, <2>9, Zenon DEF IsNode
  <2> QED BY <1>1, <2>10
<1> QED BY <1>3, <1>4

LEMMA FirstTree ==
  ASSUME NEW key \in Keys, NEW value \in Values,
         NEW rows, rows = FirstRows(key, value), NEW r, r = FirstRoot(key)
  PROVE  /\ IsTree({key}, r, rows) /\ \A h \in Rows : DOMAIN rows[h] = {key}
         /\ \A e \in ToSet(r.childMap) : e.key = key
<1>1. key \in Nat /\ key \in Int /\ {key} \subseteq Keys
  BY RowsAre
<1>2. DOMAIN rows = Rows /\ \A h \in Rows : rows[h] = [x \in {key} |-> FirstNode(h, key, value)]
  BY DEF FirstRows, Singleton
<1>3. Covers({key}, {key}) /\ Held({key}, {key}, key) = {key}
  BY <1>1 DEF Covers, Held
<1>4. ASSUME NEW h \in Rows PROVE IsRow(h, rows[h], Below({key}, rows, h)) /\ HalfFull(h, rows[h])
  <2>1. DOMAIN rows[h] = {key} /\ rows[h][key] = FirstNode(h, key, value)
    BY <1>2
  <2>2. Below({key}, rows, h) = {key}
    <3>1. h # 0 => h - 1 \in Rows
      BY RowsAre
    <3> QED BY <1>2, <3>1 DEF Below
  <2>3. IsNode(h, rows[h][key], key, Held({key}, {key}, key))
    <3>1. IsNode(h, FirstNode(h, key, value), key, {key})
      <4>1. h \in Nat
        BY RowsAre
      <4> QED BY <4>1, FirstNodeIs, Zenon
    <3> QED BY <1>3, <2>1, <3>1, Zenon
  <2>4. IsRow(h, rows[h], {key})
    BY <1>1, <1>3, <2>1, <2>3 DEF IsRow
  <2>5. HalfFull(h, rows[h])
    BY <2>1 DEF HalfFull
  <2> QED BY <2>2, <2>4, <2>5
<1>5. PICK e : e = [key |-> key, pos |-> Unplaced]
  OBVIOUS
<1>6. PICK t : t = <<e>>
  OBVIOUS
<1>7. e \in Items(1) /\ e.key = key
  <2>1. 1 # 0
    OBVIOUS
  <2>2. Items(1) = [key : Keys, pos : Int]
    BY <2>1, Zenon DEF Items
  <2>3. Unplaced \in Int
    BY DEF Unplaced
  <2> QED BY <1>5, <2>2, <2>3
<1>8. Ordered(t, Items(1)) /\ Len(t) = 1 /\ Keyed(t) = {key} /\ t # <<>> /\ LastKey(t) = key /\ ToSet(t) = {e}
  BY <1>6, <1>7, OneEntry
<1>9. r = [childMap |-> t, max_value |-> LastKey(t)]
  BY <1>5, <1>6, <1>8 DEF FirstRoot
<1>10. IsRoot(r, {key})
  <2>1. Len(t) <= P1
    BY <1>8, RowsAre
  <2> QED BY <1>8, <1>9, <2>1, RootHolds
<1>11. r.childMap = t
  BY <1>9
<1> QED BY <1>1, <1>2, <1>4, <1>7, <1>8, <1>10, <1>11, RowsAre DEF IsTree

LEMMA InsertFirstIs ==
  ASSUME NEW keys, Tidy(keys), NEW key \in Keys, NEW value \in Values, InsertFirst(key, value)
  PROVE  /\ keys = {} /\ IsTree({key}, root', row') /\ IsAware(root', row')
         /\ SameLeaves(row', FirstRows(key, value)) /\ ret' = ret
<1>1. keys = {}
  <2>1. root.childMap = <<>>
    BY Zenon DEF InsertFirst
  <2> QED BY <2>1, EmptyIs DEF Tidy
<1>2. PICK rows : rows = FirstRows(key, value)
  OBVIOUS
<1>3. PICK r : r = FirstRoot(key)
  OBVIOUS
<1>4. PICK modified : modified = [h \in Rows |-> {key}]
  OBVIOUS
<1>5. Finish(r, rows, modified) /\ ret' = ret
  <2>1. rows = [h \in Rows |->
              Singleton(key,
                IF h = 0
                THEN [NewLeaf EXCEPT !.arr = << [key |-> key, value |-> value] >>,
                                     !.old_max = key, !.max_value = key]
                ELSE [NewMid EXCEPT !.childMap = << [key |-> key, pos |-> Unplaced] >>,
                                    !.old_max = key, !.max_value = key])]
    BY <1>2, Zenon DEF FirstRows, FirstNode
  <2>2. r = [childMap |-> << [key |-> key, pos |-> Unplaced] >>, max_value |-> key]
    BY <1>3, Zenon DEF FirstRoot
  <2> QED BY <1>4, <2>1, <2>2, Zenon DEF InsertFirst
<1>6. IsTree({key}, r, rows) /\ (\A h \in Rows : DOMAIN rows[h] = {key}) /\ \A e \in ToSet(r.childMap) : e.key = key
  BY <1>2, <1>3, FirstTree
<1>7. \A h \in Rows : modified[h] = {key}
  BY <1>4
<1>8. Pending(r, rows, modified)
  <2>1. \A h \in Rows : \A id \in DOMAIN rows[h] \ modified[h] : rows[h][id].pos \in Positions
    BY <1>6, <1>7
  <2>2. \A e \in ToSet(r.childMap) : e.key \notin modified[Top] => rows[Top][e.key].pos = e.pos
    BY <1>6, <1>7, RowsAre
  <2>3. \A h \in Rows \ {0} : \A id \in DOMAIN rows[h] : \A e \in ToSet(rows[h][id].childMap) :
          /\ e.key \in modified[h - 1] => id \in modified[h]
          /\ e.key \notin modified[h - 1] => rows[h - 1][e.key].pos = e.pos
    <3>1. SUFFICES ASSUME NEW h \in Rows \ {0}, NEW id \in DOMAIN rows[h], NEW e \in ToSet(rows[h][id].childMap)
                   PROVE  e.key \in modified[h - 1] /\ id \in modified[h]
      BY Zenon
    <3>2. Keyed(rows[h][id].childMap) = Held(DOMAIN rows[h - 1], DOMAIN rows[h], id) /\ h - 1 \in Rows
      BY <1>6, NodeLists
    <3>3. e.key \in DOMAIN rows[h - 1]
      BY <3>2, KeyedIs DEF Held
    <3> QED BY <1>6, <1>7, <3>2, <3>3
  <2> QED BY <2>1, <2>2, <2>3, Zenon DEF Pending
<1> QED BY <1>1, <1>2, <1>5, <1>6, <1>8, FinishIs

-----------------------------------------------------------------------------
(***************************************************************************)
(* What a tidy tree is like.                                               *)
(***************************************************************************)
\* A node of row h and what it lists.
NodeIs(h, id, n, names) ==
  /\ Ordered(Array(h, n), Items(h)) /\ Len(Array(h, n)) <= Room(h)
  /\ n.max_value = id /\ n.old_max = id /\ n.pos \in Positions
  /\ id \in Keyed(Array(h, n))
  /\ \A k \in Keyed(Array(h, n)) : k \in Nat /\ k <= id /\ \A other \in names : other < id => other < k

LEMMA NodesAre ==
  ASSUME NEW keys, Tidy(keys), NEW h \in Rows, NEW id \in DOMAIN row[h]
  PROVE  NodeIs(h, id, row[h][id], DOMAIN row[h]) /\ id \in Nat
<1>1. PICK B : B = Below(keys, row, h)
  OBVIOUS
<1>2. PICK S : S = DOMAIN row[h]
  OBVIOUS
<1>3. PICK n : n = row[h][id]
  OBVIOUS
<1>4. IsRow(h, row[h], B)
  BY <1>1 DEF Tidy, IsTree
<1>5. IsNode(h, n, id, Held(B, S, id)) /\ Covers(S, B) /\ S \subseteq Nat
  BY <1>2, <1>3, <1>4, RowsAre DEF IsRow
<1>6. Ordered(Array(h, n), Items(h)) /\ Keyed(Array(h, n)) = Held(B, S, id)
  BY <1>5 DEF IsNode
<1>7. id \in Held(B, S, id)
  BY <1>2, <1>5 DEF Covers, Held
<1>8. Keyed(Array(h, n)) \subseteq Nat
  <2>1. B \in SUBSET Keys
    <3>1. h = 0 => B = keys
      BY <1>1 DEF Below
    <3>2. h # 0 => B = DOMAIN row[h - 1] /\ h - 1 \in Rows
      BY <1>1, RowsAre DEF Below
    <3> QED BY <3>1, <3>2 DEF Tidy, IsTree, IsRow
  <2> QED BY <1>6, <2>1, RowsAre DEF Held
<1>9. n.pos \in Positions
  BY <1>3 DEF Tidy, IsAware
<1>10. \A k \in Held(B, S, id) : k <= id /\ \A other \in S : other < id => other < k
  BY DEF Held
<1> QED BY <1>2, <1>3, <1>5, <1>6, <1>7, <1>8, <1>9, <1>10 DEF NodeIs, IsNode

LEMMA TidyNames ==
  ASSUME NEW keys, Tidy(keys)
  PROVE  NamedByGreatestKey
<1> DEFINE HeldBy(h, node) == Keyed(IF h = 0 THEN node.arr ELSE node.childMap)
<1> SUFFICES ASSUME NEW h \in Rows, NEW id \in DOMAIN row[h]
             PROVE  /\ id \in HeldBy(h, row[h][id]) /\ \A k \in HeldBy(h, row[h][id]) : k <= id
                    /\ row[h][id].max_value = id /\ row[h][id].old_max = id
  BY DEF NamedByGreatestKey
<1>1. NodeIs(h, id, row[h][id], DOMAIN row[h])
  BY NodesAre
<1>2. HeldBy(h, row[h][id]) = Keyed(Array(h, row[h][id]))
  BY DEF Array
<1> HIDE DEF HeldBy
<1> QED BY <1>1, <1>2 DEF NodeIs

LEMMA TidySearch ==
  ASSUME NEW keys, Tidy(keys)
  PROVE  SearchOrder
<1>1. ASSUME NEW m \in InnerNodes PROVE Ascending(m.childMap)
  <2>1. CASE m = root
    BY <2>1 DEF Tidy, IsTree, IsRoot, Ordered
  <2>2. CASE m # root
    <3>1. PICK h \in 1 .. Top : \E id \in DOMAIN row[h] : m = row[h][id]
      BY <2>2 DEF InnerNodes
    <3>a. PICK id \in DOMAIN row[h] : m = row[h][id]
      BY <3>1
    <3>2. h \in Rows /\ h # 0
      BY RowsAre
    <3>3. NodeIs(h, id, m, DOMAIN row[h])
      BY <3>a, <3>2, NodesAre
    <3> QED BY <3>2, <3>3 DEF NodeIs, Array, Ordered
  <2> QED BY <2>1, <2>2
<1>2. ASSUME NEW l \in Leaves PROVE Ascending(l.arr)
  <2>1. PICK id \in DOMAIN row[0] : l = row[0][id]
    BY DEF Leaves
  <2>2. NodeIs(0, id, l, DOMAIN row[0])
    BY <2>1, NodesAre, RowsAre
  <2> QED BY <2>2 DEF NodeIs, Array, Ordered
<1>3. ASSUME NEW h \in Rows, NEW id \in DOMAIN row[h], NEW other \in DOMAIN row[h], other < id,
             NEW k, k \in Keyed(IF h = 0 THEN row[h][id].arr ELSE row[h][id].childMap)
      PROVE  k > other
  <2>1. NodeIs(h, id, row[h][id], DOMAIN row[h]) /\ other \in Nat
    BY NodesAre
  <2>2. k \in Keyed(Array(h, row[h][id]))
    BY <1>3 DEF Array
  <2>3. k \in Nat /\ other < k
    BY <1>3, <2>1, <2>2 DEF NodeIs
  <2> QED BY <2>1, <2>3
<1> QED BY <1>1, <1>2, <1>3 DEF SearchOrder

LEMMA TidyHalf ==
  ASSUME NEW keys, Tidy(keys)
  PROVE  AtLeastHalfFull
<1> SUFFICES ASSUME NEW h \in Rows, Cardinality(DOMAIN row[h]) > 1, NEW id \in DOMAIN row[h]
             PROVE  IF h = 0 THEN 2 * Len(row[h][id].arr) >= C ELSE 2 * Len(row[h][id].childMap) >= P2
  BY DEF AtLeastHalfFull
<1>1. PICK other \in DOMAIN row[h] : other # id
  <2>1. SUFFICES ASSUME DOMAIN row[h] \subseteq {id} PROVE FALSE
    OBVIOUS
  <2>2. DOMAIN row[h] = {id}
    BY <2>1
  <2>3. Cardinality(DOMAIN row[h]) = 1
    BY <2>2, FS_Singleton
  <2> QED BY <2>3
<1>2. HalfFull(h, row[h])
  BY DEF Tidy, IsTree
<1>3. 2 * Len(Array(h, row[h][id])) >= Room(h)
  BY <1>1, <1>2 DEF HalfFull
<1> QED BY <1>3 DEF Array, Room

LEMMA AboveIs ==
  ASSUME NEW keys, Tidy(keys), NEW h \in Rows, NEW m \in Above(h)
  PROVE  /\ Ordered(m.childMap, Items(1)) /\ Placed(row[h], m.childMap)
         /\ Keyed(m.childMap) \subseteq DOMAIN row[h] /\ Len(m.childMap) <= P1 + P2
         /\ h = Top => m = root
         /\ h # Top => h + 1 \in Rows \ {0} /\ (h + 1) - 1 = h /\ \E id \in DOMAIN row[h + 1] : m = row[h + 1][id]
<1>1. P1 \in Nat /\ P2 \in Nat
  BY RowsAre
<1>2. CASE h = Top
  <2>1. m = root
    BY <1>2 DEF Above
  <2>2. Ordered(root.childMap, Items(1)) /\ Keyed(root.childMap) = DOMAIN row[Top] /\ Len(root.childMap) <= P1
    BY DEF Tidy, IsTree, IsRoot
  <2>3. Placed(row[Top], root.childMap)
    BY DEF Tidy, IsAware
  <2>4. PICK s : s = root.childMap
    OBVIOUS
  <2>5. Len(s) \in Nat
    <3>1. s \in Seq(Items(1))
      BY <2>2, <2>4 DEF Ordered
    <3> QED BY <3>1
  <2>6. Len(s) <= P1 + P2
    BY <1>1, <2>2, <2>4, <2>5
  <2> QED BY <1>2, <2>1, <2>2, <2>3, <2>4, <2>6
<1>3. CASE h # Top
  <2>1. h + 1 \in Rows \ {0} /\ (h + 1) - 1 = h /\ h + 1 # 0
    BY <1>3, RowsAre
  <2>2. PICK id \in DOMAIN row[h + 1] : m = row[h + 1][id]
    BY <1>3 DEF Above
  <2>3. Placed(row[h], m.childMap)
    BY <2>1, <2>2 DEF Tidy, IsAware
  <2>4. Ordered(m.childMap, Items(1)) /\ Keyed(m.childMap) = Held(DOMAIN row[h], DOMAIN row[h + 1], id)
    BY <2>1, <2>2, NodeLists DEF Tidy
  <2>5. PICK s : s = m.childMap
    OBVIOUS
  <2>6. Len(s) <= P2
    <3>1. NodeIs(h + 1, id, m, DOMAIN row[h + 1])
      BY <2>1, <2>2, NodesAre
    <3> QED BY <2>1, <2>5, <3>1 DEF NodeIs, Array, Room
  <2>7. Len(s) \in Nat
    <3>1. s \in Seq(Items(1))
      BY <2>4, <2>5 DEF Ordered
    <3> QED BY <3>1
  <2>8. Len(s) <= P1 + P2
    BY <1>1, <2>6, <2>7
  <2> QED BY <1>3, <2>1, <2>2, <2>3, <2>4, <2>5, <2>8 DEF Held
<1> QED BY <1>2, <1>3

LEMMA TidyPositions ==
  ASSUME NEW keys, Tidy(keys)
  PROVE  EntriesKnowPositions
<1> SUFFICES ASSUME NEW h \in Rows, NEW m \in Above(h), NEW i \in DOMAIN m.childMap
             PROVE  Found(h, m.childMap[i])
  BY DEF EntriesKnowPositions
<1>1. Placed(row[h], m.childMap) /\ Keyed(m.childMap) \subseteq DOMAIN row[h]
  BY AboveIs
<1>2. m.childMap[i] \in ToSet(m.childMap) /\ m.childMap[i].key \in Keyed(m.childMap)
  BY DEF ToSet, Keyed
<1> QED BY <1>1, <1>2 DEF Placed, Found

\* The entries for the nodes of a row: the node above and the place in it.
Entries(h) == {e \in {<<m, i>> : m \in Above(h), i \in 1 .. P1 + P2} : e[2] \in DOMAIN e[1].childMap}

LEMMA EntriesAre ==
  ASSUME NEW keys, Tidy(keys), NEW h \in Rows
  PROVE  /\ \A e \in Entries(h) : e = <<e[1], e[2]>> /\ e[1] \in Above(h) /\ e[2] \in DOMAIN e[1].childMap
         /\ \A m \in Above(h) : \A i \in DOMAIN m.childMap : <<m, i>> \in Entries(h)
<1>1. \A e \in Entries(h) : e = <<e[1], e[2]>> /\ e[1] \in Above(h) /\ e[2] \in DOMAIN e[1].childMap
  BY DEF Entries
<1>2. ASSUME NEW m \in Above(h), NEW i \in DOMAIN m.childMap PROVE <<m, i>> \in Entries(h)
  <2>1. PICK s : s = m.childMap
    OBVIOUS
  <2>2. s \in Seq(Items(1)) /\ Len(s) <= P1 + P2
    BY <2>1, AboveIs DEF Ordered
  <2>3. i \in 1 .. Len(s) /\ Len(s) \in Nat
    BY <2>1, <2>2
  <2>4. P1 + P2 \in Nat
    BY RowsAre
  <2>5. i \in 1 .. P1 + P2
    <3>1. PICK n : n = Len(s)
      OBVIOUS
    <3>2. PICK p : p = P1 + P2
      OBVIOUS
    <3>3. i \in 1 .. p
      BY <2>2, <2>3, <2>4, <3>1, <3>2
    <3> QED BY <3>2, <3>3
  <2> QED BY <2>5 DEF Entries
<1> QED BY <1>1, <1>2

LEMMA OneHolds ==
  ASSUME NEW B \in SUBSET Nat, NEW S \in SUBSET Nat, Covers(S, B), NEW k \in B
  PROVE  \E id \in S : k \in Held(B, S, id)
<1> DEFINE From == {id \in S : k <= id}
<1>1. From \subseteq Nat /\ From # {}
  BY DEF Covers
<1>2. PICK id \in From : \A x \in From : id <= x
  <2> HIDE DEF From
  <2> QED BY <1>1, LeastOf
<1>3. \A other \in S : other < id => other < k
  <2> SUFFICES ASSUME NEW other \in S, other < id, ~(other < k) PROVE FALSE
    OBVIOUS
  <2>1. other \in From
    OBVIOUS
  <2> QED BY <1>2, <2>1
<1> QED BY <1>2, <1>3 DEF Held

LEMMA ListedHere ==
  ASSUME NEW keys, Tidy(keys), NEW h \in Rows, NEW k \in DOMAIN row[h]
  PROVE  \E m \in Above(h) : k \in Keyed(m.childMap)
<1>1. CASE h = Top
  <2>1. root \in Above(h)
    BY <1>1 DEF Above
  <2>2. Keyed(root.childMap) = DOMAIN row[Top]
    BY DEF Tidy, IsTree, IsRoot
  <2> QED BY <1>1, <2>1, <2>2
<1>2. CASE h # Top
  <2>1. h + 1 \in Rows \ {0} /\ (h + 1) - 1 = h
    BY <1>2, RowsAre
  <2>2. PICK S : S = DOMAIN row[h + 1]
    OBVIOUS
  <2>3. PICK B : B = DOMAIN row[h]
    OBVIOUS
  <2>4. \A id \in S : Keyed(row[h + 1][id].childMap) = Held(B, S, id) /\ row[h + 1][id] \in Above(h)
    BY <1>2, <2>1, <2>2, <2>3, NodeLists DEF Tidy, Above
  <2>5. Covers(S, B) /\ B \in SUBSET Nat /\ S \in SUBSET Nat
    <3>1. Below(keys, row, h + 1) = B
      BY <2>1, <2>3 DEF Below
    <3>2. IsRow(h + 1, row[h + 1], B) /\ IsRow(h, row[h], Below(keys, row, h))
      BY <2>1, <3>1 DEF Tidy, IsTree
    <3> QED BY <2>2, <2>3, <3>2, RowsAre DEF IsRow
  <2>6. PICK id \in S : k \in Held(B, S, id)
    BY <2>3, <2>5, OneHolds
  <2> QED BY <2>4, <2>6
<1> QED BY <1>1, <1>2

LEMMA ListedByOne ==
  ASSUME NEW keys, Tidy(keys), NEW h \in Rows, NEW m \in Above(h), NEW n \in Above(h),
         NEW k, k \in Keyed(m.childMap), k \in Keyed(n.childMap)
  PROVE  m = n
<1>1. CASE h = Top
  BY <1>1 DEF Above
<1>2. CASE h # Top
  <2>1. h + 1 \in Rows \ {0} /\ (h + 1) - 1 = h
    BY <1>2, RowsAre
  <2>2. PICK S : S = DOMAIN row[h + 1]
    OBVIOUS
  <2>3. PICK B : B = DOMAIN row[h]
    OBVIOUS
  <2>4. \A id \in S : Keyed(row[h + 1][id].childMap) = Held(B, S, id) /\ B \in SUBSET Nat /\ S \in SUBSET Nat
    BY <2>1, <2>2, <2>3, NodeLists DEF Tidy
  <2>5. PICK a \in S : m = row[h + 1][a]
    BY <1>2, <2>2 DEF Above
  <2>6. PICK b \in S : n = row[h + 1][b]
    BY <1>2, <2>2 DEF Above
  <2>7. k \in Held(B, S, a) /\ k \in Held(B, S, b)
    BY <2>4, <2>5, <2>6
  <2>8. a = b
    BY <2>4, <2>7, HeldOnce
  <2> QED BY <2>5, <2>6, <2>8
<1> QED BY <1>1, <1>2

LEMMA TidyListed ==
  ASSUME NEW keys, Tidy(keys)
  PROVE  EveryNodeListedOnce
<1>1. ASSUME NEW h \in Rows
      PROVE  /\ Cardinality(Entries(h)) = Cardinality(DOMAIN row[h])
             /\ {e[1].childMap[e[2]].key : e \in Entries(h)} = DOMAIN row[h]
  <2> DEFINE Named(e) == e[1].childMap[e[2]].key
  <2>1. \A e \in Entries(h) : Named(e) \in Keyed(e[1].childMap) /\ Named(e) \in DOMAIN row[h]
    <3> SUFFICES ASSUME NEW e \in Entries(h)
                 PROVE  Named(e) \in Keyed(e[1].childMap) /\ Named(e) \in DOMAIN row[h]
      OBVIOUS
    <3>1. e[1] \in Above(h) /\ e[2] \in DOMAIN e[1].childMap
      BY EntriesAre
    <3>2. Named(e) \in Keyed(e[1].childMap)
      BY <3>1 DEF Keyed
    <3>3. Keyed(e[1].childMap) \subseteq DOMAIN row[h]
      BY <3>1, AboveIs
    <3> QED BY <3>2, <3>3
  <2>2. \A k \in DOMAIN row[h] : \E e \in Entries(h) : Named(e) = k
    <3> SUFFICES ASSUME NEW k \in DOMAIN row[h] PROVE \E e \in Entries(h) : Named(e) = k
      OBVIOUS
    <3>1. PICK m \in Above(h) : k \in Keyed(m.childMap)
      BY ListedHere
    <3>2. PICK i \in DOMAIN m.childMap : k = m.childMap[i].key
      BY <3>1 DEF Keyed
    <3>3. <<m, i>> \in Entries(h)
      BY EntriesAre
    <3> QED BY <3>2, <3>3
  <2>3. \A d, e \in Entries(h) : Named(d) = Named(e) => d = e
    <3> SUFFICES ASSUME NEW d \in Entries(h), NEW e \in Entries(h), Named(d) = Named(e)
                 PROVE  d = e
      OBVIOUS
    <3>1. /\ d = <<d[1], d[2]>> /\ d[1] \in Above(h) /\ d[2] \in DOMAIN d[1].childMap
          /\ e = <<e[1], e[2]>> /\ e[1] \in Above(h) /\ e[2] \in DOMAIN e[1].childMap
      BY EntriesAre
    <3>2. d[1] = e[1]
      <4>1. Named(d) \in Keyed(d[1].childMap) /\ Named(d) \in Keyed(e[1].childMap)
        BY <2>1
      <4> QED BY <3>1, <4>1, ListedByOne
    <3>3. PICK s : s = d[1].childMap
      OBVIOUS
    <3>4. Ordered(s, Items(1))
      BY <3>1, <3>3, AboveIs
    <3>5. PICK i : i = d[2]
      OBVIOUS
    <3>6. PICK j : j = e[2]
      OBVIOUS
    <3>7. i \in DOMAIN s /\ j \in DOMAIN s /\ s[i].key = s[j].key
      BY <3>1, <3>2, <3>3, <3>5, <3>6
    <3>8. i = j
      <4>1. Len(s) \in Nat /\ DOMAIN s = 1 .. Len(s) /\ s[i].key \in Int
        BY <3>4, <3>7, RowsAre DEF Ordered, Keyable
      <4>2. ~(i < j) /\ ~(j < i)
        BY <3>4, <3>7, <4>1 DEF Ordered, Ascending
      <4> QED BY <3>7, <4>1, <4>2
    <3> QED BY <3>1, <3>2, <3>5, <3>6, <3>8
  <2> DEFINE f == [e \in Entries(h) |-> Named(e)]
  <2>4. f \in Bijection(Entries(h), DOMAIN row[h])
    <3>1. \A e \in Entries(h) : f[e] \in DOMAIN row[h]
      BY <2>1
    <3>2. \A d, e \in Entries(h) : f[d] = f[e] => d = e
      BY <2>3
    <3>3. \A k \in DOMAIN row[h] : \E e \in Entries(h) : f[e] = k
      BY <2>2
    <3> HIDE DEF Named
    <3> QED BY <3>1, <3>2, <3>3 DEF Bijection, Injection, Surjection, IsInjective
  <2>5. ExistsBijection(DOMAIN row[h], Entries(h))
    <3> HIDE DEF f
    <3>1. ExistsBijection(Entries(h), DOMAIN row[h])
      BY <2>4 DEF ExistsBijection
    <3> QED BY <3>1, Fun_ExistsBijSymmetric
  <2>6. IsFiniteSet(DOMAIN row[h])
    <3>1. DOMAIN row[h] \subseteq Keys
      BY DEF Tidy, IsTree, IsRow
    <3> QED BY <3>1, RowsAre, FS_Subset
  <2>7. Cardinality(Entries(h)) = Cardinality(DOMAIN row[h])
    BY <2>5, <2>6, FS_Bijection
  <2>8. {Named(e) : e \in Entries(h)} = DOMAIN row[h]
    <3> HIDE DEF Named
    <3> QED BY <2>1, <2>2
  <2> QED BY <2>7, <2>8
<1> QED BY <1>1 DEF EveryNodeListedOnce, Entries

LEMMA Retyped ==
  ASSUME NEW T, NEW U, NEW s \in Seq(T), \A i \in 1 .. Len(s) : s[i] \in T => s[i] \in U
  PROVE  s \in Seq(U) /\ \A i \in 1 .. Len(s) : s[i] \in U
<1>1. \A i \in 1 .. Len(s) : s[i] \in U
  OBVIOUS
<1> QED BY <1>1

LEMMA LastIn ==
  ASSUME NEW T, NEW s \in Seq(T), s # <<>>
  PROVE  Last(s) \in T
<1>1. Len(s) \in 1 .. Len(s)
  OBVIOUS
<1> QED BY <1>1 DEF Last

\* Entries that say where the nodes are have positions.
LEMMA PlacesAre ==
  ASSUME NEW keys, Tidy(keys), NEW h \in Rows, NEW m \in Above(h)
  PROVE  m.childMap \in Seq([key : Keys, pos : Positions])
<1>1. PICK s : s = m.childMap
  OBVIOUS
<1>2. PICK table : table = row[h]
  OBVIOUS
<1>3. s \in Seq(Items(1)) /\ Placed(table, s) /\ Keyed(s) \subseteq DOMAIN table
  BY <1>1, <1>2, AboveIs DEF Ordered
<1>4. s \in Seq([key : Keys, pos : Int])
  <2>1. Items(1) = [key : Keys, pos : Int]
    <3>1. 1 # 0
      OBVIOUS
    <3> QED BY <3>1, Zenon DEF Items
  <2> QED BY <1>3, <2>1
<1>5. \A id \in DOMAIN table : table[id].pos \in Positions
  BY <1>2 DEF Tidy, IsAware
<1>6. ASSUME NEW i \in 1 .. Len(s), s[i] \in [key : Keys, pos : Int]
      PROVE  s[i] \in [key : Keys, pos : Positions]
  <2>1. PICK e : e = s[i]
    OBVIOUS
  <2>2. e \in ToSet(s) /\ e.key \in Keyed(s)
    <3>1. i \in DOMAIN s
      BY <1>4
    <3> QED BY <2>1, <3>1 DEF ToSet, Keyed
  <2>3. e.pos = table[e.key].pos /\ e.key \in DOMAIN table
    BY <1>3, <2>2 DEF Placed
  <2>4. e.pos \in Positions
    BY <1>5, <2>3
  <2> QED BY <1>6, <2>1, <2>4
<1>7. s \in Seq([key : Keys, pos : Positions])
  BY <1>4, <1>6, Retyped
<1> QED BY <1>1, <1>7

LEMMA TidyTypes ==
  ASSUME NEW keys, Tidy(keys), IsMap(ret, Keys, Values \cup {NotFound} \cup BOOLEAN)
  PROVE  TypeOK
<1>1. root.childMap \in Seq([key : Keys, pos : Positions]) /\ Len(root.childMap) <= P1
  <2>1. root \in Above(Top) /\ Top \in Rows
    BY RowsAre DEF Above
  <2>2. Len(root.childMap) <= P1
    BY DEF Tidy, IsTree, IsRoot
  <2> QED BY <2>1, <2>2, PlacesAre
<1>2. root.max_value \in Keys \cup {NoKey}
  <2>1. PICK s : s = root.childMap
    OBVIOUS
  <2>2. root.max_value = IF s = <<>> THEN NoKey ELSE LastKey(s)
    BY <2>1 DEF Tidy, IsTree, IsRoot
  <2>3. s # <<>> => LastKey(s) \in Keys
    <3>1. s \in Seq([key : Keys, pos : Positions])
      BY <1>1, <2>1
    <3>2. SUFFICES ASSUME s # <<>> PROVE Last(s) \in [key : Keys, pos : Positions]
      BY DEF LastKey
    <3> QED BY <3>1, <3>2, LastIn
  <2> QED BY <2>2, <2>3
<1>3. ASSUME NEW h \in Rows PROVE DOMAIN row[h] \subseteq Keys
  BY DEF Tidy, IsTree, IsRow
<1>4. ASSUME NEW h \in Rows, NEW id \in DOMAIN row[h]
      PROVE  /\ row[h][id].pos \in Positions
             /\ IF h = 0 THEN /\ row[h][id].arr \in Seq([key : Keys, value : Values])
                              /\ Len(row[h][id].arr) <= C
                         ELSE /\ row[h][id].childMap \in Seq([key : Keys, pos : Positions])
                              /\ Len(row[h][id].childMap) <= P2
  <2>1. PICK n : n = row[h][id]
    OBVIOUS
  <2>2. NodeIs(h, id, n, DOMAIN row[h])
    BY <2>1, NodesAre
  <2>3. CASE h = 0
    <3>1. Items(h) = [key : Keys, value : Values]
      BY <2>3, Zenon DEF Items
    <3>2. n.arr \in Seq([key : Keys, value : Values]) /\ Len(n.arr) <= C
      BY <2>2, <2>3, <3>1 DEF NodeIs, Array, Room, Ordered
    <3> QED BY <2>1, <2>2, <2>3, <3>2 DEF NodeIs
  <2>4. CASE h # 0
    <3>1. h - 1 \in Rows /\ h - 1 # Top /\ (h - 1) + 1 = h
      BY <2>4, RowsAre
    <3>2. n \in Above(h - 1)
      BY <2>1, <3>1 DEF Above
    <3>3. n.childMap \in Seq([key : Keys, pos : Positions])
      BY <3>1, <3>2, PlacesAre
    <3>4. Len(n.childMap) <= P2
      BY <2>2, <2>4 DEF NodeIs, Array, Room
    <3> QED BY <2>1, <2>2, <2>4, <3>3, <3>4 DEF NodeIs
  <2> QED BY <2>3, <2>4
<1>5. DOMAIN row = Rows
  BY DEF Tidy, IsTree
<1> QED BY <1>1, <1>2, <1>3, <1>4, <1>5 DEF TypeOK

-----------------------------------------------------------------------------
(***************************************************************************)
(* The inductive invariant: some keys are in the tree, and the tree is     *)
(* tidy.                                                                   *)
(***************************************************************************)
Returned == IsMap(ret, Keys, Values \cup {NotFound} \cup BOOLEAN)
Grows    == (\E keys : Tidy(keys)) /\ Returned

LEMMA AtFirst ==
  ASSUME Init
  PROVE  Tidy({}) /\ Returned
<1>1. /\ root = [childMap |-> <<>>, max_value |-> NoKey]
      /\ row = [h \in Rows |-> [id \in {} |-> root]]
      /\ ret = [key \in {} |-> NotFound]
  BY DEF Init
<1>2. \A h \in Rows : DOMAIN row[h] = {}
  BY <1>1
<1>3. ASSUME NEW h \in Rows PROVE IsRow(h, row[h], Below({}, row, h)) /\ HalfFull(h, row[h])
  <2>1. Below({}, row, h) = {}
    <3>1. h # 0 => h - 1 \in Rows
      BY RowsAre
    <3> QED BY <1>2, <3>1 DEF Below
  <2> QED BY <1>2, <2>1 DEF IsRow, HalfFull, Covers
<1>4. <<>> \in Seq([key : Keys, pos : Int]) /\ Len(<<>>) = 0 /\ Keyed(<<>>) = {} /\ ToSet(<<>>) = {}
  BY DEF Keyed, ToSet
<1>5. IsRoot(root, {})
  <2>1. NoKey \in Int
    BY DEF NoKey
  <2>2. Ordered(<<>>, Items(1))
    <3>1. \A T : <<>> \in Seq(T)
      OBVIOUS
    <3> QED BY <3>1 DEF Ordered, Ascending
  <2>3. 0 <= P1
    BY RowsAre
  <2> QED BY <1>1, <1>4, <2>1, <2>2, <2>3 DEF IsRoot
<1>6. IsTree({}, root, row)
  BY <1>1, <1>2, <1>3, <1>5, RowsAre DEF IsTree
<1>7. IsAware(root, row)
  BY <1>1, <1>2, <1>4 DEF IsAware, Placed
<1>8. Returned
  BY <1>1 DEF Returned, IsMap
<1> QED BY <1>6, <1>7, <1>8 DEF Tidy

LEMMA Afterwards ==
  ASSUME NEW keys, Tidy(keys), Returned, [SearchOrInsert]_vars
  PROVE  (\E more : keys \subseteq more /\ Tidy(more)') /\ Returned'
<1>1. CASE UNCHANGED vars
  <2>1. Tidy(keys)'
    BY <1>1 DEF vars, Tidy
  <2> QED BY <1>1, <2>1 DEF vars, Returned, IsMap
<1>2. ASSUME NEW key \in Keys, Search(key) PROVE Tidy(keys)' /\ Returned'
  <2>1. /\ IsTree(keys, root', row') /\ IsAware(root', row')
        /\ ret' = Singleton(key, Answer(LeafSearch(NodeAt(0, WayTo(key)[0]), key)))
    BY <1>2, SearchIs
  <2>2. Answer(LeafSearch(NodeAt(0, WayTo(key)[0]), key)) \in Values \cup {NotFound}
    BY AnswerIs DEF Tidy
  <2>3. PICK a : a = Answer(LeafSearch(NodeAt(0, WayTo(key)[0]), key))
    OBVIOUS
  <2>4. Returned'
    BY <2>1, <2>2, <2>3 DEF Returned, IsMap, Singleton
  <2> QED BY <2>1, <2>4 DEF Tidy
<1>3. ASSUME NEW key \in Keys, NEW value \in Values, InsertFirst(key, value)
      PROVE  Tidy({key})' /\ keys = {} /\ Returned'
  <2>1. keys = {} /\ IsTree({key}, root', row') /\ IsAware(root', row') /\ ret' = ret
    BY <1>3, InsertFirstIs
  <2> QED BY <2>1 DEF Tidy, Returned
<1>4. ASSUME NEW key \in Keys, NEW value \in Values, Insert(key, value)
      PROVE  Tidy(keys \cup {key})' /\ Returned'
  <2>1. IsTree(keys \cup {key}, root', row') /\ IsAware(root', row') /\ ret' = ret
    BY <1>4, InsertIs
  <2> QED BY <2>1 DEF Tidy, Returned
<1> QED BY <1>1, <1>2, <1>3, <1>4 DEF SearchOrInsert

LEMMA GrowsAlways == InsertSpec => []Grows
<1>1. Init => Grows
  BY AtFirst DEF Grows
<1>2. Grows /\ [SearchOrInsert]_vars => Grows'
  <2> SUFFICES ASSUME Grows, [SearchOrInsert]_vars PROVE Grows'
    OBVIOUS
  <2>1. PICK keys : Tidy(keys)
    BY DEF Grows
  <2>2. (\E more : keys \subseteq more /\ Tidy(more)') /\ Returned'
    BY <2>1, Afterwards DEF Grows
  <2> QED BY <2>2 DEF Grows
<1> QED BY <1>1, <1>2, PTL DEF InsertSpec

-----------------------------------------------------------------------------
(***************************************************************************)
(* The map that the leaves of a table stand for.                           *)
(***************************************************************************)
StoredIn(table) == UNION {{l.arr[i] : i \in DOMAIN l.arr} : l \in {table[id] : id \in DOMAIN table}}

MapOf(table) ==
  [k \in {e.key : e \in StoredIn(table)} |-> (CHOOSE e \in StoredIn(table) : e.key = k).value]

LEMMA StoredMapIs == StoredMap = MapOf(row[0])
BY Zenon DEF StoredMap, StoredEntries, Leaves, MapOf, StoredIn

LEMMA StoredInIs ==
  ASSUME NEW table, NEW e
  PROVE  e \in StoredIn(table) <=> \E id \in DOMAIN table : e \in ToSet(table[id].arr)
BY DEF StoredIn, ToSet

\* Every key of a tidy row of leaves has one entry.
LEMMA MapIs ==
  ASSUME NEW keys \in SUBSET Keys, NEW table, IsRow(0, table, keys)
  PROVE  /\ DOMAIN MapOf(table) = keys
         /\ \A e \in StoredIn(table) : e.key \in keys /\ MapOf(table)[e.key] = e.value
         /\ \A k \in keys : \E e \in StoredIn(table) : e.key = k
<1>1. PICK S : S = DOMAIN table
  OBVIOUS
<1>2. S \in SUBSET Nat /\ keys \in SUBSET Nat /\ Covers(S, keys) /\ 0 \in Rows
  BY <1>1, RowsAre DEF IsRow
<1>3. ASSUME NEW id \in S
      PROVE  Ordered(table[id].arr, Items(0)) /\ Keyed(table[id].arr) = Held(keys, S, id)
  BY <1>1 DEF IsRow, IsNode, Array
<1>4. \A e \in StoredIn(table) : \E id \in S : e \in ToSet(table[id].arr) /\ e.key \in Held(keys, S, id)
  <2> SUFFICES ASSUME NEW e \in StoredIn(table)
               PROVE  \E id \in S : e \in ToSet(table[id].arr) /\ e.key \in Held(keys, S, id)
    OBVIOUS
  <2>1. PICK id \in S : e \in ToSet(table[id].arr)
    BY <1>1, StoredInIs
  <2>2. e.key \in Keyed(table[id].arr)
    BY <2>1, KeyedIs
  <2> QED BY <1>3, <2>1, <2>2
<1>5. ASSUME NEW k \in keys PROVE \E e \in StoredIn(table) : e.key = k
  <2>1. PICK id \in S : k \in Held(keys, S, id)
    BY <1>2, OneHolds
  <2>2. PICK e \in ToSet(table[id].arr) : e.key = k
    BY <1>3, <2>1, KeyedIs
  <2> QED BY <1>1, <2>2, StoredInIs
<1>6. ASSUME NEW d \in StoredIn(table), NEW e \in StoredIn(table), d.key = e.key PROVE d = e
  <2>1. PICK a \in S : d \in ToSet(table[a].arr) /\ d.key \in Held(keys, S, a)
    BY <1>4
  <2>2. PICK b \in S : e \in ToSet(table[b].arr) /\ e.key \in Held(keys, S, b)
    BY <1>4
  <2>3. a = b
    BY <1>2, <1>6, <2>1, <2>2, HeldOnce
  <2>4. Ordered(table[a].arr, Items(0)) /\ Keyable(Items(0))
    BY <1>3, RowsAre
  <2> QED BY <1>6, <2>1, <2>2, <2>3, <2>4, OneEntryPerKey
<1>7. {e.key : e \in StoredIn(table)} = keys
  BY <1>4, <1>5 DEF Held
<1>8. DOMAIN MapOf(table) = keys
  BY <1>7 DEF MapOf
<1>9. ASSUME NEW e \in StoredIn(table) PROVE e.key \in keys /\ MapOf(table)[e.key] = e.value
  <2>1. e.key \in keys
    BY <1>7
  <2>2. PICK c : c = CHOOSE x \in StoredIn(table) : x.key = e.key
    OBVIOUS
  <2>3. c \in StoredIn(table) /\ c.key = e.key
    BY <2>2
  <2>4. c = e
    BY <1>6, <2>3
  <2>5. MapOf(table)[e.key] = c.value
    BY <1>7, <2>1, <2>2 DEF MapOf
  <2> QED BY <2>1, <2>4, <2>5
<1> QED BY <1>5, <1>8, <1>9

LEMMA SameMap ==
  ASSUME NEW rows, NEW left, SameLeaves(rows, left)
  PROVE  MapOf(rows[0]) = MapOf(left[0])
<1>1. StoredIn(rows[0]) = StoredIn(left[0])
  <2>1. DOMAIN rows[0] = DOMAIN left[0] /\ \A id \in DOMAIN left[0] : rows[0][id].arr = left[0][id].arr
    BY DEF SameLeaves
  <2>2. \A e : e \in StoredIn(rows[0]) <=> e \in StoredIn(left[0])
    BY <2>1, StoredInIs
  <2> QED BY <2>2
<1> QED BY <1>1 DEF MapOf

\* Two maps are the same if every entry of the one is in the other.
IsPut(m, f, key, value) ==
  /\ DOMAIN m = DOMAIN f \cup {key} /\ m = [k \in DOMAIN m |-> m[k]]
  /\ \A k \in DOMAIN m : m[k] = IF k = key THEN value ELSE f[k]

LEMMA MapPut ==
  ASSUME NEW m, NEW f, NEW key, NEW value, IsPut(m, f, key, value)
  PROVE  m = Put(f, key, value)
BY DEF Put, IsPut

LEMMA AimHolds ==
  ASSUME NEW B \in SUBSET Nat, NEW S \in SUBSET Nat, NEW key \in Nat, NEW w, Aim(S, key, w),
         NEW id \in S, key \in Held(B, S, id)
  PROVE  id = w
<1>1. id \in Nat /\ w \in Nat /\ w \in S /\ key <= id
  BY DEF Aim, Held
<1>2. ~(w < id)
  BY <1>1 DEF Aim, Held
<1>3. ~(id < w)
  BY <1>1 DEF Aim
<1> QED BY <1>1, <1>2, <1>3

\* client::search finds what the map has.
LEMMA SearchAnswers ==
  ASSUME NEW keys, Tidy(keys), NEW key \in Keys
  PROVE  Answer(LeafSearch(NodeAt(0, WayTo(key)[0]), key)) =
           IF key \in DOMAIN StoredMap THEN StoredMap[key] ELSE NotFound
<1>1. PICK way : way = WayTo(key)
  OBVIOUS
<1>2. PICK l : l = NodeAt(0, way[0])
  OBVIOUS
<1>3. PICK f : f = MapOf(row[0])
  OBVIOUS
<1>4. IsTree(keys, root, row) /\ IsAware(root, row) /\ IsWayFrom(0, way, key)
  BY <1>1, WayIs DEF Tidy
<1>5. keys \in SUBSET Keys /\ keys \in SUBSET Nat /\ key \in Nat /\ IsRow(0, row[0], keys)
  <2>1. Below(keys, row, 0) = keys
    BY DEF Below
  <2> QED BY <1>4, <2>1, RowsAre DEF IsTree
<1>6. /\ DOMAIN f = keys
      /\ \A e \in StoredIn(row[0]) : f[e.key] = e.value
      /\ \A k \in keys : \E e \in StoredIn(row[0]) : e.key = k
  BY <1>3, <1>5, MapIs
<1>7. Ordered(l.arr, Items(0)) /\ Keyable(Items(0))
  BY <1>2, <1>4, LeafAt, RowsAre
<1>8. ASSUME NEW x \in ToSet(l.arr) PROVE x \in StoredIn(row[0])
  <2>1. CASE Found(0, way[0])
    <3>1. way[0].key \in DOMAIN row[0] /\ l = row[0][way[0].key]
      BY <1>2, <2>1 DEF Found, NodeAt
    <3> QED BY <3>1, StoredInIs
  <2>2. CASE ~Found(0, way[0])
    BY <1>2, <2>2 DEF NodeAt, NewLeaf, ToSet
  <2> QED BY <2>1, <2>2
<1>9. ASSUME key \in keys PROVE key \in Keyed(l.arr)
  <2>1. root.childMap # <<>>
    <3>1. PICK e \in StoredIn(row[0]) : e.key = key
      BY <1>6, <1>9
    <3>2. DOMAIN row[0] # {}
      BY <3>1, StoredInIs
    <3> QED BY <1>4, <3>2, EmptyIs, RowsAre
  <2>2. Aim(DOMAIN row[0], key, way[0].key) /\ Found(0, way[0])
    BY <1>4, <2>1, AimsAre, RowsAre
  <2>3. PICK S : S = DOMAIN row[0]
    OBVIOUS
  <2>4. S \in SUBSET Nat /\ Covers(S, keys)
    BY <1>5, <2>3, RowsAre DEF IsRow
  <2>5. PICK id \in S : key \in Held(keys, S, id)
    BY <1>5, <1>9, <2>4, OneHolds
  <2>6. id = way[0].key
    BY <1>5, <2>2, <2>3, <2>4, <2>5, AimHolds
  <2>7. l = row[0][id]
    BY <1>2, <2>2, <2>6 DEF Found, NodeAt
  <2>8. Keyed(row[0][id].arr) = Held(keys, S, id)
    BY <1>5, <2>3 DEF IsRow, IsNode, Array
  <2> QED BY <2>5, <2>7, <2>8
<1>10. CASE LeafSearch(l, key) = <<>> /\ key \notin Keyed(l.arr)
  BY <1>1, <1>2, <1>3, <1>6, <1>9, <1>10, StoredMapIs DEF Answer
<1>11. CASE \E x \in ToSet(l.arr) : x.key = key /\ LeafSearch(l, key) = <<x>>
  <2>1. PICK x \in ToSet(l.arr) : x.key = key /\ LeafSearch(l, key) = <<x>>
    BY <1>11
  <2>2. x \in StoredIn(row[0])
    BY <1>8
  <2>3. key \in keys /\ f[key] = x.value
    <3>1. x.key \in keys
      BY <1>5, <2>2, MapIs
    <3> QED BY <1>6, <2>1, <2>2, <3>1
  <2>4. Answer(<<x>>) = x.value
    BY DEF Answer
  <2> QED BY <1>1, <1>2, <1>3, <1>6, <2>1, <2>3, <2>4, StoredMapIs
<1> QED BY <1>7, <1>10, <1>11, LeafSearchIs

\* What client::insert does to the leaves: the key has the value, the others
\* have what they had.
LEMMA InsertStores ==
  ASSUME NEW keys, NEW way, NEW grown, NEW key, NEW value, Inserting(keys, way, grown, key, value)
  PROVE  MapOf(RowsGrown(way, grown)[0]) = Put(MapOf(row[0]), key, value)
<1>1. PICK table : table = RowsGrown(way, grown)[0]
  OBVIOUS
<1>2. PICK w : w = way[0].key
  OBVIOUS
<1>3. PICK pair : pair = grown[0]
  OBVIOUS
<1>4. PICK more : more = keys \cup {key}
  OBVIOUS
<1>5. IsTree(keys, root, row) /\ key \in Keys /\ key \in Nat /\ 0 \in Rows
  BY RowsAre DEF Inserting
<1>6. keys \in SUBSET Keys /\ keys \in SUBSET Nat /\ IsRow(0, row[0], keys)
  <2>1. Below(keys, row, 0) = keys
    BY DEF Below
  <2> QED BY <1>5, <2>1, RowsAre DEF IsTree
<1>7. more \in SUBSET Keys /\ IsRow(0, table, more)
  <2>1. PICK rows : rows = RowsGrown(way, grown)
    OBVIOUS
  <2>2. IsForest(more, rows)
    BY <1>4, <2>1, ForestGrown DEF IsGrownForest
  <2>3. Below(more, rows, 0) = more
    BY DEF Below
  <2>4. IsRow(0, rows[0], more)
    BY <1>5, <2>2, <2>3 DEF IsForest
  <2> QED BY <1>1, <1>4, <1>5, <1>6, <2>1, <2>4
<1>8. table = Regrown(row[0], w, pair)
  BY <1>1, <1>2, <1>3, <1>5 DEF RowsGrown
<1>9. PICK X : ArePieces(0, pair, X) /\ LeafHas(X, row[0][w], key, value)
  <2>1. PICK X : /\ IsRegrown(0, row[0], way[0].key, Below(keys, row, 0), Gone(way, key, 0), Come(grown, key, 0), grown[0], X)
                 /\ HasThem(X, row[0][way[0].key], 0, way, grown, key, value)
    BY <1>5, LeafStep DEF IsStep
  <2> QED BY <1>2, <1>3, <2>1 DEF IsRegrown, HasThem
<1>10. Aim(DOMAIN row[0], key, w)
  <2>1. IsAware(root, row) /\ root.childMap # <<>> /\ IsWayFrom(0, way, key)
    BY DEF Inserting
  <2> QED BY <1>2, <1>5, <2>1, AimsAre
<1>11. ASSUME NEW e \in StoredIn(table)
       PROVE  \/ e = [key |-> key, value |-> value]
              \/ e \in StoredIn(row[0]) /\ e.key # key
  <2>1. PICK id \in DOMAIN table : e \in ToSet(table[id].arr)
    BY StoredInIs
  <2>2. CASE id \in NamesOf(pair)
    <3>1. PICK p \in Pieces(pair) : p = PieceOf(pair, id)
      BY <1>9, <2>2, PieceOfIs
    <3>2. table[id] = Listed(p)
      BY <1>8, <2>1, <2>2, <3>1 DEF Regrown
    <3>3. Listed(p).arr = p.arr
      BY DEF Listed
    <3>4. ToSet(p.arr) \subseteq X
      BY <1>9, <3>1 DEF ArePieces, Array
    <3>5. e \in X
      BY <2>1, <3>2, <3>3, <3>4
    <3>6. \/ e = [key |-> key, value |-> value]
          \/ e \in ToSet(row[0][w].arr) /\ e.key # key
      BY <1>9, <3>5 DEF LeafHas
    <3>7. w \in DOMAIN row[0]
      BY <1>10 DEF Aim
    <3> QED BY <3>6, <3>7, StoredInIs
  <2>3. CASE id \notin NamesOf(pair)
    <3>1. id \in DOMAIN row[0] \ {w} /\ table[id] = row[0][id]
      BY <1>8, <2>1, <2>3 DEF Regrown
    <3>2. e \in StoredIn(row[0])
      BY <2>1, <3>1, StoredInIs
    <3>3. e.key # key
      <4>1. SUFFICES ASSUME e.key = key PROVE FALSE
        OBVIOUS
      <4>2. PICK S : S = DOMAIN row[0]
        OBVIOUS
      <4>3. S \in SUBSET Nat /\ Keyed(row[0][id].arr) = Held(keys, S, id)
        BY <1>6, <3>1, <4>2, RowsAre DEF IsRow, IsNode, Array
      <4>4. key \in Held(keys, S, id)
        BY <2>1, <3>1, <4>1, <4>3, KeyedIs
      <4> QED BY <1>5, <1>6, <1>10, <3>1, <4>2, <4>3, <4>4, AimHolds
    <3> QED BY <3>2, <3>3
  <2> QED BY <2>2, <2>3
<1>12. PICK m : m = MapOf(table)
  OBVIOUS
<1>13. PICK f : f = MapOf(row[0])
  OBVIOUS
<1>14. DOMAIN m = more /\ DOMAIN f = keys /\ m = [k \in DOMAIN m |-> m[k]]
  <2>1. DOMAIN m = more /\ DOMAIN f = keys
    BY <1>6, <1>7, <1>12, <1>13, MapIs
  <2>2. m = [k \in DOMAIN m |-> m[k]]
    BY <1>12 DEF MapOf
  <2> QED BY <2>1, <2>2
<1>15. ASSUME NEW k \in more PROVE m[k] = IF k = key THEN value ELSE f[k]
  <2>1. PICK e \in StoredIn(table) : e.key = k
    BY <1>7, MapIs
  <2>2. m[k] = e.value
    BY <1>7, <1>12, <2>1, MapIs
  <2>3. CASE e = [key |-> key, value |-> value]
    BY <2>1, <2>2, <2>3
  <2>4. CASE e \in StoredIn(row[0]) /\ e.key # key
    <3>1. f[k] = e.value
      BY <1>6, <1>13, <2>1, <2>4, MapIs
    <3> QED BY <2>1, <2>2, <2>4, <3>1
  <2> QED BY <1>11, <2>3, <2>4
<1>16. m = Put(f, key, value)
  BY <1>4, <1>14, <1>15, MapPut DEF IsPut
<1> QED BY <1>1, <1>12, <1>13, <1>16

\* The first key.
LEMMA FirstStores ==
  ASSUME NEW key \in Keys, NEW value \in Values, IsRow(0, row[0], {})
  PROVE  MapOf(FirstRows(key, value)[0]) = Put(MapOf(row[0]), key, value)
<1>1. PICK rows : rows = FirstRows(key, value)
  OBVIOUS
<1>2. PICK table : table = rows[0]
  OBVIOUS
<1>3. PICK e : e = [key |-> key, value |-> value]
  OBVIOUS
<1>4. 0 \in Rows
  BY RowsAre
<1>5. IsRow(0, table, {key})
  <2>1. IsTree({key}, FirstRoot(key), rows)
    BY <1>1, FirstTree
  <2>2. Below({key}, rows, 0) = {key}
    BY DEF Below
  <2> QED BY <1>2, <1>4, <2>1, <2>2 DEF IsTree
<1>6. DOMAIN table = {key} /\ table[key].arr = <<e>>
  BY <1>1, <1>2, <1>3, <1>4 DEF FirstRows, FirstNode, Singleton, NewLeaf
<1>7. \A x \in StoredIn(table) : x = e
  <2>1. ToSet(<<e>>) = {e}
    BY DEF ToSet
  <2> QED BY <1>6, <2>1, StoredInIs
<1>8. PICK m : m = MapOf(table)
  OBVIOUS
<1>9. PICK f : f = MapOf(row[0])
  OBVIOUS
<1>10. DOMAIN m = {key} /\ DOMAIN f = {} /\ m = [k \in DOMAIN m |-> m[k]]
  <2>1. DOMAIN m = {key}
    <3>1. {key} \in SUBSET Keys
      OBVIOUS
    <3> QED BY <1>5, <1>8, <3>1, MapIs
  <2>3. DOMAIN f = {}
    <3>1. {} \in SUBSET Keys
      OBVIOUS
    <3> QED BY <1>9, <3>1, MapIs
  <2>2. m = [k \in DOMAIN m |-> m[k]]
    BY <1>8 DEF MapOf
  <2> QED BY <2>1, <2>2, <2>3
<1>11. m[key] = value
  <2>1. PICK x \in StoredIn(table) : x.key = key
    BY <1>5, MapIs
  <2>2. m[x.key] = x.value
    BY <1>5, <1>8, MapIs
  <2> QED BY <1>3, <1>7, <2>1, <2>2
<1>12. m = Put(f, key, value)
  <2>1. DOMAIN m = DOMAIN f \cup {key}
    BY <1>10
  <2>2. \A k \in DOMAIN m : m[k] = IF k = key THEN value ELSE f[k]
    BY <1>10, <1>11
  <2>3. m = [k \in DOMAIN m |-> m[k]]
    BY <1>10
  <2>4. IsPut(m, f, key, value)
    BY <2>1, <2>2, <2>3, Zenon DEF IsPut
  <2> QED BY <2>4, MapPut
<1> QED BY <1>1, <1>2, <1>8, <1>9, <1>12

-----------------------------------------------------------------------------
(***************************************************************************)
(* The tree is a map.                                                      *)
(***************************************************************************)
LEMMA StartsEmpty == Init => Map!Init
<1> SUFFICES ASSUME Init PROVE Map!Init
  OBVIOUS
<1>1. DOMAIN row[0] = {}
  BY RowsAre DEF Init
<1>2. StoredIn(row[0]) = {}
  BY <1>1 DEF StoredIn
<1>3. StoredMap = [k \in {} |-> NotFound]
  BY <1>2, StoredMapIs DEF MapOf
<1> QED BY <1>3 DEF Init, Map!Init

LEMMA StepsAsMap ==
  ASSUME Grows, [SearchOrInsert]_vars
  PROVE  [Map!Next]_<<StoredMap, ret>>
<1>1. PICK keys : Tidy(keys)
  BY DEF Grows
<1>2. StoredMap = MapOf(row[0]) /\ StoredMap' = MapOf(row'[0])
  BY StoredMapIs, Zenon DEF StoredMap, StoredEntries, Leaves, MapOf, StoredIn
<1>3. CASE UNCHANGED vars
  BY <1>2, <1>3 DEF vars
<1>4. ASSUME NEW key \in Keys, Search(key) PROVE Map!Next
  <2>1. SameLeaves(row', row) /\ ret' = Singleton(key, Answer(LeafSearch(NodeAt(0, WayTo(key)[0]), key)))
    BY <1>1, <1>4, SearchIs
  <2>2. StoredMap' = StoredMap
    BY <1>2, <2>1, SameMap
  <2>3. ret' = Singleton(key, IF key \in DOMAIN StoredMap THEN StoredMap[key] ELSE NotFound)
    BY <1>1, <2>1, SearchAnswers
  <2>4. Map!Search(key)
    BY <2>2, <2>3, Zenon DEF Map!Search, Map!Singleton, Singleton
  <2> QED BY <2>4 DEF Map!Next
<1>5. ASSUME NEW key \in Keys, NEW value \in Values, InsertFirst(key, value) PROVE Map!Next
  <2>1. keys = {} /\ SameLeaves(row', FirstRows(key, value)) /\ ret' = ret
    BY <1>1, <1>5, InsertFirstIs
  <2>2. IsRow(0, row[0], {})
    <3>1. Below({}, row, 0) = {}
      BY DEF Below
    <3> QED BY <1>1, <2>1, <3>1, RowsAre DEF Tidy, IsTree
  <2>3. MapOf(row'[0]) = Put(MapOf(row[0]), key, value)
    <3>1. MapOf(row'[0]) = MapOf(FirstRows(key, value)[0])
      BY <2>1, SameMap
    <3> QED BY <2>2, <3>1, FirstStores
  <2>4. Map!Insert(key, value)
    BY <1>2, <2>1, <2>3, Zenon DEF Map!Insert, Map!Put, Put
  <2> QED BY <2>4 DEF Map!Next
<1>6. ASSUME NEW key \in Keys, NEW value \in Values, Insert(key, value) PROVE Map!Next
  <2>1. PICK way, grown : /\ Inserting(keys, way, grown, key, value)
                          /\ SameLeaves(row', RowsGrown(way, grown)) /\ ret' = ret
    BY <1>1, <1>6, InsertIs
  <2>2. MapOf(row'[0]) = Put(MapOf(row[0]), key, value)
    <3>1. MapOf(row'[0]) = MapOf(RowsGrown(way, grown)[0])
      BY <2>1, SameMap
    <3> QED BY <2>1, <3>1, InsertStores
  <2>3. Map!Insert(key, value)
    BY <1>2, <2>1, <2>2, Zenon DEF Map!Insert, Map!Put, Put
  <2> QED BY <2>3 DEF Map!Next
<1> QED BY <1>3, <1>4, <1>5, <1>6 DEF SearchOrInsert

-----------------------------------------------------------------------------
(***************************************************************************)
(* The theorems, for a program that inserts and searches.                  *)
(***************************************************************************)
\* The variables keep their types, and no node is ever given more entries
\* than its array has room for.
THEOREM TreeIsTyped == InsertSpec => []TypeOK
<1>1. Grows => TypeOK
  BY TidyTypes DEF Grows, Returned
<1> QED BY <1>1, GrowsAlways, PTL

\* Every node of a row is listed by one entry of the row above, and nothing
\* else is: no split loses a subtree, and the root never refuses one.
THEOREM NodesAreListed == InsertSpec => []EveryNodeListedOnce
<1>1. Grows => EveryNodeListedOnce
  BY TidyListed DEF Grows
<1> QED BY <1>1, GrowsAlways, PTL

\* A node is filed and listed under its greatest key, through every renaming
\* that leafNode::Insert, Update and midNode::Insert cause above.
THEOREM NamesAreGreatest == InsertSpec => []NamedByGreatestKey
<1>1. Grows => NamedByGreatestKey
  BY TidyNames DEF Grows
<1> QED BY <1>1, GrowsAlways, PTL

\* Entries ascend in every node and leaves do not overlap: the descents of
\* client::search and client::insert end at the only leaf for the key.
THEOREM SearchesAreGuided == InsertSpec => []SearchOrder
<1>1. Grows => SearchOrder
  BY TidySearch DEF Grows
<1> QED BY <1>1, GrowsAlways, PTL

\* Splits leave no node of several in a row less than half full.
THEOREM NodesAreHalfFull == InsertSpec => []AtLeastHalfFull
<1>1. Grows => AtLeastHalfFull
  BY TidyHalf DEF Grows
<1> QED BY <1>1, GrowsAlways, PTL

\* client::finish leaves every entry with its child's new position, also the
\* entries that a split has moved to a new node.
THEOREM PositionsAreKnown == InsertSpec => []EntriesKnowPositions
<1>1. Grows => EntriesKnowPositions
  BY TidyPositions DEF Grows
<1> QED BY <1>1, GrowsAlways, PTL

\* The tree implements the map: what insert_map has stored last for a key is
\* what search_map returns, however many nodes have been split in between.
THEOREM TreeIsAMap == InsertSpec => ImplementsOMap
<1>1. Init => Map!Init
  BY StartsEmpty
<1>2. Grows /\ [SearchOrInsert]_vars => [Map!Next]_<<StoredMap, ret>>
  BY StepsAsMap
<1> QED BY <1>1, <1>2, GrowsAlways, PTL DEF InsertSpec, ImplementsOMap, Map!Spec
=============================================================================
