---------------------------- MODULE Nodes_proofs ----------------------------
(***************************************************************************)
(* Lemmas about the node operations, for entries with numbers for keys.    *)
(* The array of a node is an ascending sequence of entries; what matters   *)
(* of it is the set of entries (ToSet), of which no two have the same key, *)
(* so each lemma says what an operation does to that set.                  *)
(***************************************************************************)
EXTENDS Nodes, FiniteSetTheorems, SequenceTheorems, WellFoundedInduction, TLAPS

LEMMA LeastOf ==
  ASSUME NEW T, T \subseteq Nat, T # {}
  PROVE  \E x \in T : \A y \in T : x <= y
<1> DEFINE R == OpToRel(<, Nat)
<1>1. \A x, y \in Nat : <<y, x>> \in R <=> y < x
  BY Zenon DEF OpToRel
<1>2. IsWellFoundedOn(R, Nat)
  BY NatLessThanWellFounded
<1> HIDE DEF R
<1>3. PICK x \in T : \A y \in T : ~(<<y, x>> \in R)
  BY <1>2, WFMin
<1>4. \A y \in T : ~(y < x)
  BY <1>1, <1>3
<1> QED BY <1>4

Keyable(T) == \A e \in T : e.key \in Int

Ordered(s, T) == s \in Seq(T) /\ Ascending(s)

Distinct(s) == \A i, j \in DOMAIN s : s[i].key = s[j].key => i = j

-----------------------------------------------------------------------------
(***************************************************************************)
(* Searching.                                                              *)
(***************************************************************************)
LEMMA LeastIndex ==
  ASSUME NEW T, NEW s \in Seq(T), NEW I \in SUBSET (1 .. Len(s)), I # {}
  PROVE  Min(I) \in I /\ \A j \in I : Min(I) <= j
<1>1. I \subseteq Nat
  OBVIOUS
<1>2. \E i \in I : \A j \in I : i <= j
  BY <1>1, LeastOf
<1> QED BY <1>2 DEF Min

\* i is the first index of s with a key in K.
IsFirst(s, K, i) ==
  IF i = 0 THEN \A j \in DOMAIN s : s[j].key \notin K
  ELSE i \in DOMAIN s /\ s[i].key \in K /\ \A j \in DOMAIN s : j < i => s[j].key \notin K

\* What SelectInSeq finds, for the keys in K.
LEMMA FirstIs ==
  ASSUME NEW T, NEW s \in Seq(T), NEW K, NEW I,
         I = {j \in 1 .. Len(s) : s[j].key \in K}
  PROVE  IsFirst(s, K, IF I # {} THEN Min(I) ELSE 0)
<1>1. DOMAIN s = 1 .. Len(s) /\ Len(s) \in Nat
  OBVIOUS
<1>2. CASE I = {}
  BY <1>1, <1>2 DEF IsFirst
<1>3. CASE I # {}
  <2>1. Min(I) \in I /\ \A j \in I : Min(I) <= j
    <3>1. I \in SUBSET (1 .. Len(s))
      OBVIOUS
    <3> QED BY <1>3, <3>1, LeastIndex
  <2>2. ASSUME NEW j \in DOMAIN s, j < Min(I) PROVE s[j].key \notin K
    <3>1. j \notin I
      BY <1>1, <2>1, <2>2
    <3> QED BY <1>1, <3>1
  <2>3. Min(I) # 0 /\ Min(I) \in DOMAIN s /\ s[Min(I)].key \in K
    BY <1>1, <2>1
  <2> QED BY <1>3, <2>2, <2>3 DEF IsFirst
<1> QED BY <1>2, <1>3

LEMMA IndexOfIs ==
  ASSUME NEW T, NEW s \in Seq(T), NEW k
  PROVE  IsFirst(s, {k}, IndexOf(s, k))
<1> DEFINE I == {j \in 1 .. Len(s) : s[j].key = k}
<1>1. IndexOf(s, k) = IF I # {} THEN Min(I) ELSE 0
  BY DEF IndexOf, SelectInSeq
<1>2. I = {j \in 1 .. Len(s) : s[j].key \in {k}}
  OBVIOUS
<1> HIDE DEF I
<1> QED BY <1>1, <1>2, FirstIs

LEMMA FirstFromIs ==
  ASSUME NEW T, Keyable(T), NEW s \in Seq(T), NEW k \in Int
  PROVE  IsFirst(s, {n \in Int : n >= k}, FirstFrom(s, k))
<1> DEFINE I == {j \in 1 .. Len(s) : s[j].key >= k}
<1>1. FirstFrom(s, k) = IF I # {} THEN Min(I) ELSE 0
  BY DEF FirstFrom, SelectInSeq
<1>2. I = {j \in 1 .. Len(s) : s[j].key \in {n \in Int : n >= k}}
  BY DEF Keyable
<1> HIDE DEF I
<1> QED BY <1>1, <1>2, FirstIs

LEMMA FirstAboveIs ==
  ASSUME NEW T, Keyable(T), NEW s \in Seq(T), NEW k \in Int
  PROVE  IsFirst(s, {n \in Int : n > k}, FirstAbove(s, k))
<1> DEFINE I == {j \in 1 .. Len(s) : s[j].key > k}
<1>1. FirstAbove(s, k) = IF I # {} THEN Min(I) ELSE 0
  BY DEF FirstAbove, SelectInSeq
<1>2. I = {j \in 1 .. Len(s) : s[j].key \in {n \in Int : n > k}}
  BY DEF Keyable
<1> HIDE DEF I
<1> QED BY <1>1, <1>2, FirstIs

-----------------------------------------------------------------------------
(***************************************************************************)
(* Inserting, cutting, renaming, sorting.                                  *)
(***************************************************************************)
LEMMA InsertAtIs ==
  ASSUME NEW T, NEW s \in Seq(T), NEW i \in 1 .. Len(s), NEW e \in T
  PROVE  /\ InsertAt(s, i, e) \in Seq(T) /\ Len(InsertAt(s, i, e)) = Len(s) + 1
         /\ \A j \in 1 .. Len(s) + 1 :
              InsertAt(s, i, e)[j] = IF j < i THEN s[j] ELSE IF j = i THEN e ELSE s[j - 1]
<1>1. Len(s) \in Nat /\ \A j \in 1 .. Len(s) : s[j] \in T
  OBVIOUS
<1>2. PICK a : a = SubSeq(s, 1, i - 1)
  OBVIOUS
<1>3. PICK b : b = SubSeq(s, i, Len(s))
  OBVIOUS
<1>4. a \in Seq(T) /\ Len(a) = i - 1 /\ \A j \in 1 .. i - 1 : a[j] = s[j]
  <2>1. /\ SubSeq(s, 1, i - 1) \in Seq(T)
        /\ Len(SubSeq(s, 1, i - 1)) = IF 1 <= i - 1 THEN i - 1 - 1 + 1 ELSE 0
        /\ \A j \in 1 .. i - 1 - 1 + 1 : SubSeq(s, 1, i - 1)[j] = s[1 + j - 1]
    <3>1. \A j \in 1 .. i - 1 : s[j] \in T
      BY <1>1
    <3> QED BY <3>1, SubSeqProperties
  <2> QED BY <1>1, <1>2, <2>1
<1>5. b \in Seq(T) /\ Len(b) = Len(s) - i + 1 /\ \A j \in 1 .. Len(s) - i + 1 : b[j] = s[i + j - 1]
  <2>1. /\ SubSeq(s, i, Len(s)) \in Seq(T)
        /\ Len(SubSeq(s, i, Len(s))) = IF i <= Len(s) THEN Len(s) - i + 1 ELSE 0
        /\ \A j \in 1 .. Len(s) - i + 1 : SubSeq(s, i, Len(s))[j] = s[i + j - 1]
    <3>1. \A j \in i .. Len(s) : s[j] \in T
      BY <1>1
    <3> QED BY <1>1, <3>1, SubSeqProperties
  <2> QED BY <1>1, <1>3, <2>1
<1>6. PICK c : c = a \o <<e>>
  OBVIOUS
<1>7. c \in Seq(T) /\ Len(c) = i /\ \A j \in 1 .. i : c[j] = IF j < i THEN s[j] ELSE e
  <2>1. <<e>> \in Seq(T) /\ Len(<<e>>) = 1 /\ <<e>>[1] = e
    OBVIOUS
  <2>2. /\ a \o <<e>> \in Seq(T) /\ Len(a \o <<e>>) = Len(a) + 1
        /\ \A j \in 1 .. Len(a) + 1 : (a \o <<e>>)[j] = IF j <= Len(a) THEN a[j] ELSE <<e>>[j - Len(a)]
    BY <1>4, <2>1, ConcatProperties
  <2> QED BY <1>1, <1>4, <1>6, <2>1, <2>2
<1>8. /\ c \o b \in Seq(T) /\ Len(c \o b) = Len(c) + Len(b)
      /\ \A j \in 1 .. Len(c) + Len(b) : (c \o b)[j] = IF j <= Len(c) THEN c[j] ELSE b[j - Len(c)]
  BY <1>5, <1>7, ConcatProperties
<1>9. InsertAt(s, i, e) = c \o b
  BY <1>2, <1>3, <1>6 DEF InsertAt
<1>10. ASSUME NEW j \in 1 .. Len(s) + 1
       PROVE  (c \o b)[j] = IF j < i THEN s[j] ELSE IF j = i THEN e ELSE s[j - 1]
  <2>1. CASE j <= i
    <3>1. j \in 1 .. i /\ j \in 1 .. Len(c) + Len(b) /\ j <= Len(c)
      BY <1>1, <1>5, <1>7, <2>1
    <3>2. (c \o b)[j] = c[j]
      BY <1>8, <3>1
    <3> QED BY <1>7, <2>1, <3>1, <3>2
  <2>2. CASE j > i
    <3>1. j - i \in 1 .. Len(s) - i + 1 /\ i + (j - i) - 1 = j - 1
      BY <1>1, <2>2
    <3>2. (c \o b)[j] = b[j - i]
      BY <1>1, <1>5, <1>7, <1>8, <2>2
    <3>3. b[j - i] = s[i + (j - i) - 1]
      BY <1>5, <3>1
    <3> QED BY <2>2, <3>1, <3>2, <3>3
  <2>3. j <= i \/ j > i
    BY <1>1
  <2> QED BY <2>1, <2>2, <2>3
<1> QED BY <1>1, <1>5, <1>7, <1>8, <1>9, <1>10

\* t has the entries of s and e, in order.
Gains(t, T, s, e) ==
  Ordered(t, T) /\ Len(t) = Len(s) + 1 /\ ToSet(t) = ToSet(s) \cup {e}

LEMMA InsortedIs ==
  ASSUME NEW T, Keyable(T), NEW s, Ordered(s, T), NEW e \in T, e.key \notin Keyed(s)
  PROVE  Gains(Insorted(s, e), T, s, e)
<1>1. /\ s \in Seq(T) /\ Len(s) \in Nat /\ DOMAIN s = 1 .. Len(s) /\ e.key \in Int
      /\ \A j \in 1 .. Len(s) : s[j] \in T /\ s[j].key \in Int /\ s[j].key # e.key
      /\ \A j, k \in 1 .. Len(s) : j < k => s[j].key < s[k].key
  BY DEF Ordered, Ascending, Keyable, Keyed
<1>2. PICK i : i = FirstAbove(s, e.key)
  OBVIOUS
<1>3. IsFirst(s, {n \in Int : n > e.key}, i)
  BY <1>1, <1>2, FirstAboveIs
<1>4. CASE i = 0
  <2>1. PICK t : t = Append(s, e)
    OBVIOUS
  <2>2. /\ t \in Seq(T) /\ Len(t) = Len(s) + 1 /\ t[Len(s) + 1] = e
        /\ \A j \in 1 .. Len(s) : t[j] = s[j]
    BY <1>1, <2>1, AppendProperties
  <2>3. \A j \in 1 .. Len(s) : s[j].key < e.key
    BY <1>1, <1>3, <1>4 DEF IsFirst
  <2>4. DOMAIN t = 1 .. Len(s) + 1
    BY <2>2
  <2>5. Ascending(t)
    <3>1. ASSUME NEW j \in DOMAIN t, NEW k \in DOMAIN t, j < k PROVE t[j].key < t[k].key
      <4>1. j \in 1 .. Len(s) /\ (k \in 1 .. Len(s) \/ k = Len(s) + 1)
        BY <1>1, <2>4, <3>1
      <4> QED BY <1>1, <2>2, <2>3, <3>1, <4>1
    <3> QED BY <3>1 DEF Ascending
  <2>6. ToSet(t) = ToSet(s) \cup {e}
    <3>1. ASSUME NEW x \in ToSet(t) PROVE x \in ToSet(s) \cup {e}
      <4>1. PICK j \in 1 .. Len(s) + 1 : x = t[j]
        BY <2>4 DEF ToSet
      <4>2. j \in 1 .. Len(s) \/ j = Len(s) + 1
        BY <1>1
      <4> QED BY <1>1, <2>2, <4>1, <4>2 DEF ToSet
    <3>2. ASSUME NEW x \in ToSet(s) PROVE x \in ToSet(t)
      <4>1. PICK j \in 1 .. Len(s) : x = s[j]
        BY <1>1 DEF ToSet
      <4> QED BY <1>1, <2>2, <2>4, <4>1 DEF ToSet
    <3>3. e \in ToSet(t)
      <4>1. Len(s) + 1 \in 1 .. Len(s) + 1
        BY <1>1
      <4> QED BY <2>2, <2>4, <4>1 DEF ToSet
    <3> QED BY <3>1, <3>2, <3>3
  <2>7. Insorted(s, e) = t
    BY <1>2, <1>4, <2>1 DEF Insorted
  <2> QED BY <2>2, <2>5, <2>6, <2>7 DEF Gains, Ordered
<1>5. CASE i # 0
  <2>1. /\ i \in 1 .. Len(s) /\ s[i].key > e.key
        /\ \A j \in 1 .. Len(s) : j < i => s[j].key < e.key
    BY <1>1, <1>3, <1>5 DEF IsFirst
  <2>2. PICK t : t = InsertAt(s, i, e)
    OBVIOUS
  <2>3. /\ t \in Seq(T) /\ Len(t) = Len(s) + 1 /\ DOMAIN t = 1 .. Len(s) + 1
        /\ \A j \in 1 .. Len(s) + 1 : t[j] = IF j < i THEN s[j] ELSE IF j = i THEN e ELSE s[j - 1]
    <3>1. /\ t \in Seq(T) /\ Len(t) = Len(s) + 1
          /\ \A j \in 1 .. Len(s) + 1 : t[j] = IF j < i THEN s[j] ELSE IF j = i THEN e ELSE s[j - 1]
      <4>1. s \in Seq(T)
        BY <1>1
      <4> QED BY <2>1, <2>2, <4>1, InsertAtIs
    <3>2. DOMAIN t = 1 .. Len(t)
      BY <3>1
    <3> QED BY <3>1, <3>2
  <2>4. ASSUME NEW j \in 1 .. Len(s) + 1
        PROVE  /\ j < i => j \in 1 .. Len(s) /\ t[j] = s[j]
               /\ j = i => t[j] = e
               /\ j > i => j - 1 \in 1 .. Len(s) /\ j - 1 >= i /\ t[j] = s[j - 1]
    BY <1>1, <2>1, <2>3
  <2>5. \A j \in 1 .. Len(s) : j >= i => s[j].key > e.key
    <3>1. ASSUME NEW j \in 1 .. Len(s), j > i PROVE s[j].key > e.key
      <4>1. s[i].key < s[j].key
        BY <1>1, <2>1, <3>1
      <4> QED BY <1>1, <2>1, <4>1
    <3> QED BY <1>1, <2>1, <3>1
  <2>6. Ascending(t)
    <3>1. ASSUME NEW j \in 1 .. Len(s) + 1, NEW k \in 1 .. Len(s) + 1, j < k PROVE t[j].key < t[k].key
      <4>1. CASE k < i
        <5>1. t[j] = s[j] /\ t[k] = s[k] /\ j \in 1 .. Len(s) /\ k \in 1 .. Len(s)
          BY <1>1, <2>1, <2>4, <3>1, <4>1
        <5> QED BY <1>1, <3>1, <5>1
      <4>2. CASE k = i
        <5>1. t[j] = s[j] /\ t[k] = e /\ j \in 1 .. Len(s) /\ j < i
          BY <1>1, <2>1, <2>4, <3>1, <4>2
        <5> QED BY <2>1, <5>1
      <4>3. CASE k > i /\ j = i
        <5>1. t[j] = e /\ t[k] = s[k - 1] /\ k - 1 \in 1 .. Len(s) /\ k - 1 >= i
          BY <2>4, <4>3
        <5> QED BY <1>1, <2>5, <5>1
      <4>4. CASE k > i /\ j < i
        <5>1. t[j] = s[j] /\ t[k] = s[k - 1] /\ j \in 1 .. Len(s) /\ k - 1 \in 1 .. Len(s) /\ k - 1 >= i
          BY <2>4, <4>4
        <5>2. j < k - 1
          BY <2>1, <4>4, <5>1
        <5> QED BY <1>1, <5>1, <5>2
      <4>5. CASE k > i /\ j > i
        <5>1. t[j] = s[j - 1] /\ t[k] = s[k - 1] /\ j - 1 \in 1 .. Len(s) /\ k - 1 \in 1 .. Len(s)
          BY <2>4, <4>5
        <5>2. j - 1 < k - 1
          BY <3>1
        <5> QED BY <1>1, <5>1, <5>2
      <4> QED BY <2>1, <4>1, <4>2, <4>3, <4>4, <4>5
    <3> QED BY <2>3, <3>1 DEF Ascending
  <2>7. ToSet(t) = ToSet(s) \cup {e}
    <3>1. ASSUME NEW x \in ToSet(t) PROVE x \in ToSet(s) \cup {e}
      <4>1. PICK j \in 1 .. Len(s) + 1 : x = t[j]
        BY <2>3 DEF ToSet
      <4>2. j < i \/ j = i \/ j > i
        BY <2>1
      <4> QED BY <1>1, <2>4, <4>1, <4>2 DEF ToSet
    <3>2. ASSUME NEW x \in ToSet(s) PROVE x \in ToSet(t)
      <4>1. PICK j \in 1 .. Len(s) : x = s[j]
        BY <1>1 DEF ToSet
      <4>2. CASE j < i
        <5>1. j \in 1 .. Len(s) + 1 /\ t[j] = s[j]
          BY <1>1, <2>4, <4>2
        <5> QED BY <2>3, <4>1, <5>1 DEF ToSet
      <4>3. CASE j >= i
        <5>1. j + 1 \in 1 .. Len(s) + 1 /\ j + 1 > i /\ (j + 1) - 1 = j
          BY <1>1, <2>1, <4>3
        <5>2. t[j + 1] = s[j]
          BY <2>4, <5>1
        <5> QED BY <2>3, <4>1, <5>1, <5>2 DEF ToSet
      <4> QED BY <2>1, <4>2, <4>3
    <3>3. e \in ToSet(t)
      <4>1. i \in 1 .. Len(s) + 1 /\ t[i] = e
        BY <1>1, <2>1, <2>4
      <4> QED BY <2>3, <4>1 DEF ToSet
    <3> QED BY <3>1, <3>2, <3>3
  <2>8. Insorted(s, e) = t
    BY <1>2, <1>5, <2>2 DEF Insorted
  <2> QED BY <2>3, <2>6, <2>7, <2>8 DEF Gains, Ordered
<1> QED BY <1>4, <1>5

\* The first n entries of s and the others.
Halves(low, high, T, s, n) ==
  /\ Ordered(low, T) /\ Len(low) = n
  /\ Ordered(high, T) /\ Len(high) = Len(s) - n
  /\ ToSet(low) \cup ToSet(high) = ToSet(s)
  /\ \A x \in ToSet(low), y \in ToSet(high) : x.key < y.key

LEMMA HalvesAre ==
  ASSUME NEW T, NEW s, Ordered(s, T), NEW n \in 0 .. Len(s)
  PROVE  Halves(SubSeq(s, 1, n), SubSeq(s, n + 1, Len(s)), T, s, n)
<1>1. /\ s \in Seq(T) /\ Len(s) \in Nat /\ DOMAIN s = 1 .. Len(s)
      /\ \A j \in 1 .. Len(s) : s[j] \in T
      /\ \A j, k \in 1 .. Len(s) : j < k => s[j].key < s[k].key
  BY DEF Ordered, Ascending
<1>2. PICK a : a = SubSeq(s, 1, n)
  OBVIOUS
<1>3. PICK b : b = SubSeq(s, n + 1, Len(s))
  OBVIOUS
<1>4. a \in Seq(T) /\ Len(a) = n /\ \A j \in 1 .. n : a[j] = s[j]
  <2>1. /\ SubSeq(s, 1, n) \in Seq(T)
        /\ Len(SubSeq(s, 1, n)) = IF 1 <= n THEN n - 1 + 1 ELSE 0
        /\ \A j \in 1 .. n - 1 + 1 : SubSeq(s, 1, n)[j] = s[1 + j - 1]
    <3>1. \A j \in 1 .. n : s[j] \in T
      BY <1>1
    <3> QED BY <3>1, SubSeqProperties
  <2> QED BY <1>1, <1>2, <2>1
<1>5. b \in Seq(T) /\ Len(b) = Len(s) - n /\ \A j \in 1 .. Len(s) - n : b[j] = s[n + j]
  <2>1. /\ SubSeq(s, n + 1, Len(s)) \in Seq(T)
        /\ Len(SubSeq(s, n + 1, Len(s))) = IF n + 1 <= Len(s) THEN Len(s) - (n + 1) + 1 ELSE 0
        /\ \A j \in 1 .. Len(s) - (n + 1) + 1 : SubSeq(s, n + 1, Len(s))[j] = s[n + 1 + j - 1]
    <3>1. \A j \in n + 1 .. Len(s) : s[j] \in T
      BY <1>1
    <3> QED BY <1>1, <3>1, SubSeqProperties
  <2>2. Len(b) = Len(s) - n /\ Len(s) - (n + 1) + 1 = Len(s) - n
    <3>1. PICK m \in Nat : m = Len(s)
      BY <1>1
    <3>2. n \in 0 .. m /\ m - (n + 1) + 1 = m - n /\ (n + 1 <= m \/ m - n = 0)
      BY <3>1
    <3>3. Len(b) = IF n + 1 <= m THEN m - (n + 1) + 1 ELSE 0
      BY <1>3, <2>1, <3>1
    <3>4. Len(b) = m - n
      BY <3>2, <3>3
    <3> QED BY <3>1, <3>2, <3>4
  <2>3. ASSUME NEW j \in 1 .. Len(s) - n PROVE b[j] = s[n + j]
    <3>1. n + 1 + j - 1 = n + j
      BY <1>1
    <3> QED BY <1>3, <2>1, <2>2, <3>1
  <2> QED BY <1>3, <2>1, <2>2, <2>3
<1>6. DOMAIN a = 1 .. n /\ DOMAIN b = 1 .. Len(s) - n
  BY <1>4, <1>5
<1>7. Ascending(a)
  <2>1. ASSUME NEW j \in 1 .. n, NEW k \in 1 .. n, j < k PROVE a[j].key < a[k].key
    <3>1. j \in 1 .. Len(s) /\ k \in 1 .. Len(s)
      BY <1>1
    <3> QED BY <1>1, <1>4, <2>1, <3>1
  <2> QED BY <1>6, <2>1 DEF Ascending
<1>8. Ascending(b)
  <2>1. ASSUME NEW j \in 1 .. Len(s) - n, NEW k \in 1 .. Len(s) - n, j < k PROVE b[j].key < b[k].key
    <3>1. n + j \in 1 .. Len(s) /\ n + k \in 1 .. Len(s) /\ n + j < n + k
      BY <1>1, <2>1
    <3>2. s[n + j].key < s[n + k].key
      BY <1>1, <3>1
    <3> QED BY <1>5, <3>2
  <2> QED BY <1>6, <2>1 DEF Ascending
<1>9. ToSet(a) \cup ToSet(b) = ToSet(s)
  <2>1. ASSUME NEW x \in ToSet(a) PROVE x \in ToSet(s)
    <3>1. PICK j \in 1 .. n : x = a[j]
      BY <1>6 DEF ToSet
    <3>2. j \in 1 .. Len(s) /\ x = s[j]
      BY <1>1, <1>4, <3>1
    <3> QED BY <1>1, <3>2 DEF ToSet
  <2>2. ASSUME NEW x \in ToSet(b) PROVE x \in ToSet(s)
    <3>1. PICK j \in 1 .. Len(s) - n : x = b[j]
      BY <1>6 DEF ToSet
    <3>2. n + j \in 1 .. Len(s)
      BY <1>1
    <3>3. x = s[n + j]
      BY <1>5, <3>1
    <3> QED BY <1>1, <3>2, <3>3 DEF ToSet
  <2>3. ASSUME NEW x \in ToSet(s) PROVE x \in ToSet(a) \cup ToSet(b)
    <3>1. PICK j \in 1 .. Len(s) : x = s[j]
      BY <1>1 DEF ToSet
    <3>2. CASE j <= n
      <4>1. j \in 1 .. n /\ a[j] = x
        BY <1>4, <3>1, <3>2
      <4> QED BY <1>6, <4>1 DEF ToSet
    <3>3. CASE j > n
      <4>1. j - n \in 1 .. Len(s) - n /\ n + (j - n) = j
        BY <1>1, <3>3
      <4>2. b[j - n] = x
        BY <1>5, <3>1, <4>1
      <4> QED BY <1>6, <4>1, <4>2 DEF ToSet
    <3> QED BY <3>2, <3>3
  <2> QED BY <2>1, <2>2, <2>3
<1>10. ASSUME NEW x \in ToSet(a), NEW y \in ToSet(b) PROVE x.key < y.key
  <2>1. PICK j \in 1 .. n : x = a[j]
    BY <1>6 DEF ToSet
  <2>2. PICK k \in 1 .. Len(s) - n : y = b[k]
    BY <1>6 DEF ToSet
  <2>3. j \in 1 .. Len(s) /\ n + k \in 1 .. Len(s) /\ j < n + k
    BY <1>1
  <2>4. s[j].key < s[n + k].key
    BY <1>1, <2>3
  <2> QED BY <1>4, <1>5, <2>1, <2>2, <2>4
<1> QED BY <1>2, <1>3, <1>4, <1>5, <1>7, <1>8, <1>9, <1>10 DEF Halves, Ordered

LEMMA LastKeyIs ==
  ASSUME NEW T, Keyable(T), NEW s, Ordered(s, T), s # <<>>
  PROVE  /\ Last(s) \in ToSet(s) /\ LastKey(s) = Last(s).key
         /\ \A x \in ToSet(s) : x.key <= LastKey(s)
<1>1. /\ Len(s) \in Nat \ {0} /\ DOMAIN s = 1 .. Len(s)
      /\ \A j \in 1 .. Len(s) : s[j].key \in Int
      /\ \A j, k \in 1 .. Len(s) : j < k => s[j].key < s[k].key
  <2>1. s \in Seq(T) /\ Len(s) \in Nat /\ DOMAIN s = 1 .. Len(s) /\ Len(s) # 0
    BY EmptySeq DEF Ordered
  <2> QED BY <2>1 DEF Ordered, Ascending, Keyable
<1>2. LastKey(s) = s[Len(s)].key /\ Last(s) = s[Len(s)] /\ Len(s) \in 1 .. Len(s)
  BY <1>1 DEF LastKey, Last
<1>3. ASSUME NEW x \in ToSet(s) PROVE x.key <= s[Len(s)].key
  <2>1. PICK j \in 1 .. Len(s) : x = s[j]
    BY <1>1 DEF ToSet
  <2>2. PICK m \in Nat \ {0} : m = Len(s)
    BY <1>1
  <2>3. j \in 1 .. m /\ (j < m \/ j = m)
    BY <2>2
  <2>4. m \in 1 .. Len(s) /\ s[j].key \in Int /\ s[m].key \in Int
    BY <1>1, <2>2
  <2>5. j < m => s[j].key < s[m].key
    BY <1>1, <2>4
  <2>6. s[j].key <= s[m].key
    BY <2>3, <2>4, <2>5
  <2> QED BY <2>1, <2>2, <2>6
<1> QED BY <1>1, <1>2, <1>3 DEF ToSet

\* No two entries of an ascending sequence have the same key.
LEMMA OneEntryPerKey ==
  ASSUME NEW T, Keyable(T), NEW s, Ordered(s, T), NEW x \in ToSet(s), NEW y \in ToSet(s), x.key = y.key
  PROVE  x = y
<1>1. /\ Len(s) \in Nat /\ DOMAIN s = 1 .. Len(s)
      /\ \A j \in 1 .. Len(s) : s[j].key \in Int
      /\ \A j, k \in 1 .. Len(s) : j < k => s[j].key < s[k].key
  BY DEF Ordered, Ascending, Keyable
<1>2. PICK j \in 1 .. Len(s) : x = s[j]
  BY <1>1 DEF ToSet
<1>3. PICK k \in 1 .. Len(s) : y = s[k]
  BY <1>1 DEF ToSet
<1>4. ~(s[j].key < s[k].key) /\ ~(s[k].key < s[j].key)
  BY <1>1, <1>2, <1>3
<1>5. j = k
  BY <1>1, <1>4
<1> QED BY <1>2, <1>3, <1>5

LEMMA KeyedIs ==
  ASSUME NEW s
  PROVE  Keyed(s) = {x.key : x \in ToSet(s)}
BY DEF Keyed, ToSet

LEMMA ToSetIsTyped ==
  ASSUME NEW T, NEW s \in Seq(T)
  PROVE  /\ \A x \in ToSet(s) : x \in T
         /\ s = <<>> <=> ToSet(s) = {}
         /\ s = <<>> <=> Len(s) = 0
<1>1. DOMAIN s = 1 .. Len(s) /\ Len(s) \in Nat /\ (s = <<>> <=> Len(s) = 0)
  BY EmptySeq
<1>2. s # <<>> => 1 \in DOMAIN s
  BY <1>1
<1>3. \A j \in DOMAIN s : s[j] \in T
  OBVIOUS
<1>4. s = <<>> => DOMAIN s = {}
  BY <1>1
<1>5. s = <<>> <=> ToSet(s) = {}
  BY <1>2, <1>4 DEF ToSet
<1>6. \A x \in ToSet(s) : x \in T
  BY <1>3 DEF ToSet
<1> QED BY <1>1, <1>5, <1>6

\* t is s with the entry x replaced by e.
Replaces(t, T, s, x, e) ==
  /\ t \in Seq(T) /\ Distinct(t) /\ Len(t) = Len(s)
  /\ ToSet(t) = (ToSet(s) \ {x}) \cup {e}
  /\ e.key = x.key => Ascending(t)

\* An entry replaced by one whose key no other entry has.
LEMMA ReplacedIs ==
  ASSUME NEW T, Keyable(T), NEW s, Ordered(s, T), NEW i \in DOMAIN s, NEW e \in T,
         \A x \in ToSet(s) : x.key = e.key => x = s[i]
  PROVE  Replaces([s EXCEPT ![i] = e], T, s, s[i], e)
<1> DEFINE t == [s EXCEPT ![i] = e]
<1>1. /\ s \in Seq(T) /\ Len(s) \in Nat /\ DOMAIN s = 1 .. Len(s)
      /\ \A j \in 1 .. Len(s) : s[j] \in T /\ s[j].key \in Int
      /\ \A j, k \in 1 .. Len(s) : j < k => s[j].key < s[k].key
  BY DEF Ordered, Ascending, Keyable
<1>2. /\ t \in Seq(T) /\ Len(t) = Len(s) /\ DOMAIN t = 1 .. Len(s)
      /\ \A j \in 1 .. Len(s) : t[j] = IF j = i THEN e ELSE s[j]
  BY <1>1, ExceptSeq
<1> HIDE DEF t
<1>3. \A j, k \in 1 .. Len(s) : s[j].key = s[k].key => j = k
  <2>1. ASSUME NEW j \in 1 .. Len(s), NEW k \in 1 .. Len(s), s[j].key = s[k].key PROVE j = k
    <3>1. ~(s[j].key < s[k].key) /\ ~(s[k].key < s[j].key)
      BY <1>1, <2>1
    <3> QED BY <1>1, <3>1
  <2> QED BY <2>1
<1>4. \A j \in 1 .. Len(s) : j # i => s[j].key # e.key /\ s[j] # s[i]
  <2>1. ASSUME NEW j \in 1 .. Len(s), j # i PROVE s[j].key # e.key /\ s[j] # s[i]
    <3>1. s[j] \in ToSet(s)
      BY <1>1 DEF ToSet
    <3>2. s[j] # s[i]
      BY <1>1, <1>3, <2>1
    <3> QED BY <3>1, <3>2
  <2> QED BY <2>1
<1>5. Distinct(t)
  <2>1. ASSUME NEW j \in 1 .. Len(s), NEW k \in 1 .. Len(s), t[j].key = t[k].key PROVE j = k
    BY <1>1, <1>2, <1>3, <1>4, <2>1
  <2> QED BY <1>2, <2>1 DEF Distinct
<1>6. ToSet(t) = (ToSet(s) \ {s[i]}) \cup {e}
  <2>1. ToSet(t) = {t[j] : j \in 1 .. Len(s)} /\ ToSet(s) = {s[j] : j \in 1 .. Len(s)}
    BY <1>1, <1>2 DEF ToSet
  <2> QED BY <1>1, <1>2, <1>4, <2>1
<1>7. ASSUME e.key = s[i].key PROVE Ascending(t)
  <2>1. \A j \in 1 .. Len(s) : t[j].key = s[j].key
    BY <1>2, <1>7
  <2> QED BY <1>1, <1>2, <2>1 DEF Ascending
<1> QED BY <1>2, <1>5, <1>6, <1>7 DEF t, Replaces

-----------------------------------------------------------------------------
(***************************************************************************)
(* Sorting.  When no two keys are equal, the ranks of the entries are the  *)
(* numbers from 1 on, each once.                                           *)
(***************************************************************************)
LEMMA UpToFinite ==
  ASSUME NEW n \in Nat
  PROVE  IsFiniteSet(1 .. n) /\ Cardinality(1 .. n) = n
<1>1. IsFiniteSet(1 .. n) /\ Cardinality(1 .. n) = IF 1 > n THEN 0 ELSE n - 1 + 1
  BY FS_Interval
<1> QED BY <1>1

LEMMA RanksAre ==
  ASSUME NEW T, Keyable(T), NEW s \in Seq(T), Distinct(s)
  PROVE  /\ \A i \in DOMAIN s : Rank(s, i) \in DOMAIN s
         /\ \A i, j \in DOMAIN s : s[i].key < s[j].key => Rank(s, i) < Rank(s, j)
<1> DEFINE less(i) == {j \in DOMAIN s : s[j].key < s[i].key}
<1>1. DOMAIN s = 1 .. Len(s) /\ Len(s) \in Nat /\ \A i \in DOMAIN s : s[i].key \in Int
  BY DEF Keyable
<1>2. IsFiniteSet(DOMAIN s) /\ Cardinality(DOMAIN s) = Len(s)
  BY <1>1, UpToFinite
<1>3. \A i \in DOMAIN s : IsFiniteSet(less(i)) /\ Cardinality(less(i)) \in Nat
  <2>1. ASSUME NEW i \in DOMAIN s PROVE IsFiniteSet(less(i))
    <3>1. less(i) \in SUBSET DOMAIN s
      OBVIOUS
    <3> HIDE DEF less
    <3> QED BY <1>2, <3>1, FS_Subset
  <2> HIDE DEF less
  <2> QED BY <2>1, FS_CardinalityType
<1>4. ASSUME NEW i \in DOMAIN s PROVE Rank(s, i) = 1 + Cardinality(less(i))
  <2>1. {j \in DOMAIN s : s[j].key < s[i].key \/ (s[j].key = s[i].key /\ j < i)} = less(i)
    <3>1. \A j \in DOMAIN s : s[j].key = s[i].key => ~(j < i)
      BY <1>1 DEF Distinct
    <3> QED BY <3>1
  <2> HIDE DEF less
  <2> QED BY <2>1 DEF Rank
<1>5. ASSUME NEW i \in DOMAIN s PROVE Cardinality(less(i)) < Len(s)
  <2>1. less(i) \in SUBSET DOMAIN s /\ i \notin less(i)
    BY <1>1
  <2> HIDE DEF less
  <2>2. Cardinality(less(i)) <= Len(s) /\ Cardinality(less(i)) # Len(s)
    BY <1>2, <2>1, FS_Subset
  <2> QED BY <1>1, <1>3, <2>2
<1>6. ASSUME NEW i \in DOMAIN s, NEW j \in DOMAIN s, s[i].key < s[j].key
      PROVE  Cardinality(less(i)) < Cardinality(less(j))
  <2>1. less(i) \in SUBSET less(j) /\ i \in less(j) /\ i \notin less(i)
    BY <1>1, <1>6
  <2> HIDE DEF less
  <2>2. Cardinality(less(i)) <= Cardinality(less(j)) /\ Cardinality(less(i)) # Cardinality(less(j))
    BY <1>3, <2>1, FS_Subset
  <2> QED BY <1>3, <2>2
<1> HIDE DEF less
<1>7. ASSUME NEW i \in DOMAIN s PROVE Rank(s, i) \in DOMAIN s
  <2>1. PICK c \in Nat : c = Cardinality(less(i))
    BY <1>3
  <2>2. c < Len(s) /\ Rank(s, i) = 1 + c
    BY <1>4, <1>5, <2>1
  <2> QED BY <1>1, <2>2
<1>8. ASSUME NEW i \in DOMAIN s, NEW j \in DOMAIN s, s[i].key < s[j].key PROVE Rank(s, i) < Rank(s, j)
  BY <1>3, <1>4, <1>6, <1>8
<1> QED BY <1>7, <1>8

LEMMA SortedIs ==
  ASSUME NEW T, Keyable(T), NEW s \in Seq(T), Distinct(s)
  PROVE  Ordered(Sorted(s), T) /\ Len(Sorted(s)) = Len(s) /\ ToSet(Sorted(s)) = ToSet(s)
<1>1. DOMAIN s = 1 .. Len(s) /\ Len(s) \in Nat /\ \A i \in DOMAIN s : s[i] \in T /\ s[i].key \in Int
  BY DEF Keyable
<1> DEFINE r == [i \in DOMAIN s |-> Rank(s, i)]
<1>2. r \in [DOMAIN s -> DOMAIN s] /\ \A i, j \in DOMAIN s : s[i].key < s[j].key => r[i] < r[j]
  BY RanksAre
<1>3. \A i \in DOMAIN s : r[i] = Rank(s, i)
  OBVIOUS
<1> HIDE DEF r
<1>4. \A i, j \in DOMAIN s : r[i] = r[j] => i = j
  <2>1. ASSUME NEW i \in DOMAIN s, NEW j \in DOMAIN s, r[i] = r[j] PROVE i = j
    <3>1. r[i] \in Int /\ ~(r[i] < r[j]) /\ ~(r[j] < r[i])
      BY <1>1, <1>2, <2>1
    <3>2. s[i].key = s[j].key
      BY <1>1, <1>2, <3>1
    <3> QED BY <3>2 DEF Distinct
  <2> QED BY <2>1
<1>5. \A k \in DOMAIN s : \E i \in DOMAIN s : r[i] = k
  <2>1. IsFiniteSet(DOMAIN s)
    BY <1>1, FS_Interval
  <2>2. r \in Injection(DOMAIN s, DOMAIN s)
    BY <1>2, <1>4 DEF Injection, IsInjective
  <2>3. r \in Surjection(DOMAIN s, DOMAIN s)
    BY <2>1, <2>2, FS_Injection
  <2> QED BY <2>3 DEF Surjection
<1> DEFINE at == [k \in DOMAIN s |-> CHOOSE i \in DOMAIN s : Rank(s, i) = k]
<1>6. \A k \in DOMAIN s : at[k] \in DOMAIN s /\ r[at[k]] = k
  BY <1>3, <1>5
<1>7. Sorted(s) = [k \in DOMAIN s |-> s[at[k]]]
  BY DEF Sorted
<1> HIDE DEF at
<1> DEFINE t == [k \in DOMAIN s |-> s[at[k]]]
<1>8. t \in Seq(T) /\ Len(t) = Len(s) /\ DOMAIN t = DOMAIN s /\ \A k \in DOMAIN s : t[k] = s[at[k]]
  BY <1>1, <1>6
<1>9. ToSet(t) = ToSet(s)
  <2>1. ASSUME NEW i \in DOMAIN s PROVE \E k \in DOMAIN s : t[k] = s[i]
    <3>1. r[i] \in DOMAIN s /\ at[r[i]] = i
      BY <1>2, <1>4, <1>6
    <3> QED BY <1>8, <3>1
  <2>2. ASSUME NEW k \in DOMAIN s PROVE t[k] = s[at[k]] /\ at[k] \in DOMAIN s
    BY <1>6, <1>8
  <2> HIDE DEF t
  <2> QED BY <1>8, <2>1, <2>2 DEF ToSet
<1> HIDE DEF t
<1>10. Ascending(t)
  <2>1. ASSUME NEW k \in DOMAIN s, NEW l \in DOMAIN s, k < l PROVE t[k].key < t[l].key
    <3>1. at[k] \in DOMAIN s /\ at[l] \in DOMAIN s /\ r[at[k]] = k /\ r[at[l]] = l
      BY <1>6
    <3>2. k \in Int /\ l \in Int /\ at[k] # at[l]
      BY <1>1, <2>1, <3>1
    <3>3. s[at[k]].key # s[at[l]].key
      BY <3>1, <3>2 DEF Distinct
    <3>4. ~(s[at[l]].key < s[at[k]].key)
      BY <1>2, <2>1, <3>1, <3>2
    <3> QED BY <1>1, <1>8, <3>1, <3>3, <3>4
  <2> QED BY <1>8, <2>1 DEF Ascending
<1> QED BY <1>7, <1>8, <1>9, <1>10 DEF Ordered, t

-----------------------------------------------------------------------------
(***************************************************************************)
(* The node operations of insert and search.                               *)
(***************************************************************************)
\* What descends: the entry of the first key that is no less, or else the last.
LeadsTo(s, key, x) ==
  /\ x \in ToSet(s)
  /\ \/ x.key >= key /\ \A y \in ToSet(s) : y.key < x.key => y.key < key
     \/ \A y \in ToSet(s) : y.key < key /\ y.key <= x.key

LEMMA ChildForIs ==
  ASSUME NEW K \in SUBSET Int, NEW P, NEW m, NEW key \in Int,
         Ordered(m.childMap, [key : K, pos : P]),
         m.childMap # <<>>, m.max_value = LastKey(m.childMap)
  PROVE  LeadsTo(m.childMap, key, ChildFor(m, key))
<1> DEFINE T == [key : K, pos : P]
<1>0. Keyable(T)
  BY DEF Keyable
<1>1. PICK s : s = m.childMap
  OBVIOUS
<1>2. /\ s \in Seq(T) /\ Ordered(s, T) /\ s # <<>> /\ Len(s) \in Nat /\ DOMAIN s = 1 .. Len(s)
      /\ \A j \in 1 .. Len(s) : s[j] \in T /\ s[j].key \in Int
      /\ \A j, k \in 1 .. Len(s) : j < k => s[j].key < s[k].key
  <2>1. Ordered(s, T) /\ s # <<>>
    BY <1>1
  <2> HIDE DEF T
  <2> QED BY <1>0, <2>1 DEF Ordered, Ascending, Keyable
<1>3. /\ Last(s) \in ToSet(s) /\ LastKey(s) = Last(s).key
      /\ \A x \in ToSet(s) : x.key <= Last(s).key
  BY <1>0, <1>2, LastKeyIs
<1>4. PICK i : i = FirstFrom(s, key)
  OBVIOUS
<1>5. IsFirst(s, {n \in Int : n >= key}, i)
  BY <1>0, <1>2, <1>4, FirstFromIs
<1>6. ToSet(s) = {s[j] : j \in 1 .. Len(s)}
  BY <1>2 DEF ToSet
<1>7. CASE i = 0
  <2>1. ChildFor(m, key) = [Last(s) EXCEPT !.key = m.max_value]
    BY <1>1, <1>2, <1>4, <1>7 DEF ChildFor
  <2>2. Last(s) \in T
    BY <1>2, <1>3, <1>6
  <2>3. ChildFor(m, key) = Last(s)
    BY <1>1, <1>3, <2>1, <2>2
  <2>4. \A j \in 1 .. Len(s) : s[j].key < key
    BY <1>2, <1>5, <1>7 DEF IsFirst
  <2> QED BY <1>1, <1>3, <1>6, <2>3, <2>4 DEF LeadsTo
<1>8. CASE i # 0
  <2>1. i \in 1 .. Len(s) /\ s[i].key >= key /\ \A j \in 1 .. Len(s) : j < i => s[j].key < key
    BY <1>2, <1>5, <1>8 DEF IsFirst
  <2>2. ChildFor(m, key) = s[i]
    BY <1>1, <1>2, <1>4, <1>8 DEF ChildFor
  <2>3. ASSUME NEW y \in ToSet(s), y.key < s[i].key PROVE y.key < key
    <3>1. PICK j \in 1 .. Len(s) : y = s[j]
      BY <1>6
    <3>2. ~(i < j) /\ i # j
      BY <1>2, <2>1, <2>3, <3>1
    <3>3. j < i
      BY <1>2, <2>1, <3>2
    <3> QED BY <2>1, <3>1, <3>3
  <2> QED BY <1>1, <1>6, <2>1, <2>2, <2>3 DEF LeadsTo
<1> QED BY <1>7, <1>8

\* t is s with x renamed.
Renames(t, T, s, x, key) ==
  /\ Ordered(t, T) /\ Len(t) = Len(s)
  /\ ToSet(t) = (ToSet(s) \ {x}) \cup {[x EXCEPT !.key = key]}

LEMMA UpdateIs ==
  ASSUME NEW K \in SUBSET Int, NEW P, NEW m, Ordered(m.childMap, [key : K, pos : P]),
         NEW child, child.max_value \in K,
         NEW x \in ToSet(m.childMap), x.key = child.old_max,
         \A y \in ToSet(m.childMap) : y.key = child.max_value => y = x
  PROVE  \E t : /\ Update(m, child) = MidHolding(m, t)
                /\ Renames(t, [key : K, pos : P], m.childMap, x, child.max_value)
<1> DEFINE T == [key : K, pos : P]
           e == [x EXCEPT !.key = child.max_value]
<1>0. Keyable(T)
  BY DEF Keyable
<1>1. PICK s : s = m.childMap
  OBVIOUS
<1>2. s \in Seq(T) /\ Ordered(s, T) /\ DOMAIN s = 1 .. Len(s) /\ \A j \in DOMAIN s : s[j] \in T
  <2>1. Ordered(s, T)
    BY <1>1
  <2> HIDE DEF T
  <2> QED BY <2>1 DEF Ordered
<1>3. PICK i : i = IndexOf(s, child.old_max)
  OBVIOUS
<1>4. i # 0 /\ i \in DOMAIN s /\ s[i] = x
  <2>1. IsFirst(s, {child.old_max}, i)
    BY <1>2, <1>3, IndexOfIs
  <2>2. PICK j \in DOMAIN s : x = s[j]
    BY <1>1 DEF ToSet
  <2>3. i # 0 /\ i \in DOMAIN s /\ s[i].key = x.key
    BY <2>1, <2>2 DEF IsFirst
  <2>4. s[i] \in ToSet(s)
    BY <2>3 DEF ToSet
  <2> QED BY <1>0, <1>1, <1>2, <2>3, <2>4, OneEntryPerKey
<1>5. x \in T /\ e \in T /\ e.key = child.max_value
  BY <1>2, <1>4
<1> HIDE DEF T, e
<1>6. PICK r : r = [s EXCEPT ![i] = e]
  OBVIOUS
<1>7. [s EXCEPT ![i].key = child.max_value] = r
  BY <1>4, <1>6 DEF e
<1>8. /\ r \in Seq(T) /\ Distinct(r) /\ Len(r) = Len(s)
      /\ ToSet(r) = (ToSet(s) \ {s[i]}) \cup {e}
      /\ e.key = s[i].key => Ascending(r)
  <2>1. \A y \in ToSet(s) : y.key = e.key => y = s[i]
    BY <1>1, <1>4, <1>5
  <2>2. Replaces(r, T, s, s[i], e)
    BY <1>0, <1>2, <1>4, <1>5, <1>6, <2>1, ReplacedIs
  <2> QED BY <2>2 DEF Replaces
<1>9. CASE child.max_value = child.old_max
  <2>1. Update(m, child) = MidHolding(m, r)
    BY <1>1, <1>3, <1>4, <1>7, <1>9 DEF Update, MidHolding
  <2>2. Renames(r, T, s, x, child.max_value)
    BY <1>4, <1>5, <1>8, <1>9 DEF Renames, Ordered, e
  <2> QED BY <1>1, <2>1, <2>2 DEF T
<1>10. CASE child.max_value # child.old_max
  <2>1. Update(m, child) = MidHolding(m, Sorted(r))
    BY <1>1, <1>3, <1>4, <1>7, <1>10 DEF Update, MidHolding
  <2>2. Ordered(Sorted(r), T) /\ Len(Sorted(r)) = Len(r) /\ ToSet(Sorted(r)) = ToSet(r)
    BY <1>0, <1>8, SortedIs
  <2>3. Renames(Sorted(r), T, s, x, child.max_value)
    BY <1>4, <1>8, <2>2 DEF Renames, e
  <2> QED BY <1>1, <2>1, <2>3 DEF T
<1> QED BY <1>9, <1>10

LEMMA LengthIs ==
  ASSUME NEW T, Keyable(T), NEW s, Ordered(s, T)
  PROVE  IsFiniteSet(Keyed(s)) /\ Len(s) = Cardinality(Keyed(s))
<1>1. /\ Len(s) \in Nat /\ DOMAIN s = 1 .. Len(s)
      /\ \A j \in 1 .. Len(s) : s[j].key \in Int
      /\ \A j, k \in 1 .. Len(s) : j < k => s[j].key < s[k].key
  BY DEF Ordered, Ascending, Keyable
<1>2. IsFiniteSet(1 .. Len(s)) /\ Cardinality(1 .. Len(s)) = Len(s)
  BY <1>1, UpToFinite
<1> DEFINE f == [j \in 1 .. Len(s) |-> s[j].key]
<1>3. \A j \in 1 .. Len(s) : f[j] \in Keyed(s)
  BY <1>1 DEF Keyed
<1>4. \A j, k \in 1 .. Len(s) : f[j] = f[k] => j = k
  BY <1>1
<1>5. \A k \in Keyed(s) : \E j \in 1 .. Len(s) : f[j] = k
  BY <1>1 DEF Keyed
<1>6. f \in Bijection(1 .. Len(s), Keyed(s))
  BY <1>3, <1>4, <1>5 DEF Bijection, Injection, Surjection, IsInjective
<1> HIDE DEF f
<1>7. ExistsBijection(1 .. Len(s), Keyed(s))
  BY <1>6 DEF ExistsBijection
<1> QED BY <1>2, <1>7, FS_Bijection

-----------------------------------------------------------------------------
(***************************************************************************)
(* Nodes of both kinds: h = 0 for leaves.                                  *)
(***************************************************************************)
Array(h, n)      == IF h = 0 THEN n.arr ELSE n.childMap
Holding(h, n, s) == IF h = 0 THEN LeafHolding(n, s) ELSE MidHolding(n, s)
Newborn(h)       == IF h = 0 THEN NewLeaf ELSE NewMid

\* The node n holds the entries X, or shares them with a new node.
Keeps(h, pair, n, T, X, capacity) ==
  /\ pair.new = <<>>
  /\ \E t : /\ pair.node = Holding(h, n, t)
            /\ Ordered(t, T) /\ t # <<>> /\ ToSet(t) = X
            /\ Len(t) <= capacity /\ Len(t) >= Len(Array(h, n))

IsPart(s, T, capacity) ==
  Ordered(s, T) /\ s # <<>> /\ Len(s) <= capacity /\ 2 * Len(s) >= capacity

AreParts(low, high, T, X, capacity) ==
  /\ IsPart(low, T, capacity) /\ IsPart(high, T, capacity)
  /\ ToSet(low) \cup ToSet(high) = X
  /\ \A x \in ToSet(low), y \in ToSet(high) : x.key < y.key

Shares(h, pair, n, T, X, capacity) ==
  \E low, high :
    /\ pair.node = Holding(h, n, low) /\ pair.new = << Holding(h, Newborn(h), high) >>
    /\ AreParts(low, high, T, X, capacity)

LEMMA SplitIs ==
  ASSUME NEW T, NEW s, Ordered(s, T), NEW capacity \in Nat \ {0}, Len(s) = capacity + 1,
         NEW low, low = SubSeq(s, 1, Half(capacity)),
         NEW high, high = SubSeq(s, Half(capacity) + 1, Len(s))
  PROVE  AreParts(low, high, T, ToSet(s), capacity)
<1>1. PICK n : n = Half(capacity)
  OBVIOUS
<1>2. /\ n \in Nat /\ n >= 1 /\ n <= capacity /\ 2 * n >= capacity
      /\ capacity + 1 - n >= 1 /\ capacity + 1 - n <= capacity /\ 2 * (capacity + 1 - n) >= capacity
  BY <1>1 DEF Half
<1>3. Halves(low, high, T, s, n)
  <2>1. n \in 0 .. Len(s)
    BY <1>2
  <2> QED BY <1>1, <2>1, HalvesAre
<1>4. Len(low) = n /\ Len(high) = Len(s) - n /\ Ordered(low, T) /\ Ordered(high, T)
  BY <1>3, Zenon DEF Halves
<1>5. PICK m : m = Len(s)
  OBVIOUS
<1>6. Len(high) = m - n /\ m = capacity + 1
  BY <1>4, <1>5
<1>7. PICK o : o = m - n
  OBVIOUS
<1>8. o \in Nat /\ o >= 1 /\ o <= capacity /\ 2 * o >= capacity
  BY <1>2, <1>6, <1>7
<1>9. Len(low) # 0 /\ Len(high) # 0
  <2>1. n # 0 /\ o # 0
    BY <1>2, <1>8
  <2> QED BY <1>4, <1>6, <1>7, <2>1, Zenon
<1>10. low # <<>> /\ high # <<>>
  BY <1>9, EmptySeq, Zenon
<1>11. IsPart(low, T, capacity)
  BY <1>2, <1>4, <1>10 DEF IsPart
<1>12. IsPart(high, T, capacity)
  BY <1>4, <1>6, <1>7, <1>8, <1>10 DEF IsPart
<1> QED BY <1>3, <1>11, <1>12, Zenon DEF Halves, AreParts

\* midNode::Insert
LEMMA MidInsertIs ==
  ASSUME NEW T, Keyable(T), NEW capacity \in Nat \ {0},
         NEW m, Ordered(m.childMap, T), Len(m.childMap) <= capacity,
         NEW e \in T, e.key \notin Keyed(m.childMap), NEW h \in Nat \ {0},
         NEW pair, pair = MidInsert(m, e, capacity)
  PROVE  \/ Keeps(h, pair, m, T, ToSet(m.childMap) \cup {e}, capacity)
         \/ Shares(h, pair, m, T, ToSet(m.childMap) \cup {e}, capacity)
<1>1. PICK s : s = m.childMap
  OBVIOUS
<1>2. PICK all : all = Insorted(s, e)
  OBVIOUS
<1>3. /\ Ordered(all, T) /\ Len(all) = Len(s) + 1 /\ ToSet(all) = ToSet(s) \cup {e} /\ Len(s) \in Nat
  <2>1. Gains(all, T, s, e)
    BY <1>1, <1>2, InsortedIs
  <2> QED BY <1>1, <2>1 DEF Gains, Ordered
<1>4. CASE Len(s) < capacity
  <2>1. pair.node = MidHolding(m, all) /\ pair.new = <<>>
    BY <1>1, <1>2, <1>4 DEF MidInsert, MidHolding
  <2>2. all # <<>>
    BY <1>3, EmptySeq
  <2> QED BY <1>1, <1>3, <1>4, <2>1, <2>2 DEF Keeps, Holding, Array
<1>5. CASE Len(s) >= capacity
  <2>1. PICK low : low = SubSeq(all, 1, Half(capacity))
    OBVIOUS
  <2>2. PICK high : high = SubSeq(all, Half(capacity) + 1, Len(all))
    OBVIOUS
  <2>3. pair.node = MidHolding(m, low) /\ pair.new = << MidHolding(NewMid, high) >>
    BY <1>1, <1>2, <1>3, <1>5, <2>1, <2>2 DEF MidInsert, MidHolding
  <2>4. Len(all) = capacity + 1
    BY <1>1, <1>3, <1>5
  <2>5. pair.node = Holding(h, m, low) /\ pair.new = << Holding(h, Newborn(h), high) >>
    BY <2>3 DEF Holding, Newborn
  <2>6. AreParts(low, high, T, ToSet(all), capacity)
    BY <1>3, <2>1, <2>2, <2>4, SplitIs
  <2> QED BY <1>1, <1>3, <2>5, <2>6 DEF Shares
<1> QED BY <1>3, <1>4, <1>5

\* leafNode::Insert, of a key that is there or is not.
LEMMA LeafInsertIs ==
  ASSUME NEW T, Keyable(T), NEW capacity \in Nat \ {0},
         NEW l, l \in [arr : Seq(T), old_max : Int, max_value : Int, pos : Int],
         Ascending(l.arr), l.arr # <<>>, Len(l.arr) <= capacity,
         l.max_value = LastKey(l.arr), l.old_max = l.max_value,
         NEW e \in T, NEW pair, pair = LeafInsert(l, e, capacity),
         NEW X, X = {x \in ToSet(l.arr) : x.key # e.key} \cup {e}
  PROVE  Keeps(0, pair, l, T, X, capacity) \/ Shares(0, pair, l, T, X, capacity)
<1>1. PICK s : s = l.arr
  OBVIOUS
<1>2. s \in Seq(T) /\ Ordered(s, T) /\ s # <<>> /\ Len(s) \in Nat /\ Len(s) <= capacity
  BY <1>1 DEF Ordered
<1>3. PICK i : i = IndexOf(s, e.key)
  OBVIOUS
<1>4. IsFirst(s, {e.key}, i)
  BY <1>2, <1>3, IndexOfIs
<1>5. CASE i # 0
  <2>1. i \in DOMAIN s /\ s[i].key = e.key /\ s[i] \in ToSet(s)
    BY <1>4, <1>5 DEF IsFirst, ToSet
  <2>2. \A x \in ToSet(s) : x.key = e.key => x = s[i]
    BY <1>2, <2>1, OneEntryPerKey
  <2>3. PICK t : t = [s EXCEPT ![i] = e]
    OBVIOUS
  <2>4. Replaces(t, T, s, s[i], e)
    BY <1>2, <2>1, <2>2, <2>3, ReplacedIs
  <2>5. Ordered(t, T) /\ Len(t) = Len(s) /\ ToSet(t) = X
    BY <1>1, <2>1, <2>2, <2>4 DEF Replaces, Ordered
  <2>6. t # <<>> /\ LastKey(t) = LastKey(s)
    <3>1. s # <<>> /\ Len(s) # 0 /\ Len(t) # 0 /\ t # <<>>
      BY <1>2, <2>5, EmptySeq
    <3>2. PICK n \in Nat \ {0} : n = Len(s) /\ n = Len(t) /\ DOMAIN s = 1 .. n
      BY <1>2, <2>5, <3>1
    <3>3. t[n].key = s[n].key
      BY <2>1, <2>3, <3>2
    <3> QED BY <3>1, <3>2, <3>3 DEF LastKey, Last
  <2>7. pair = [node |-> [l EXCEPT !.arr = t], new |-> <<>>]
    BY <1>1, <1>3, <1>5, <2>3 DEF LeafInsert
  <2>8. [l EXCEPT !.arr = t] = LeafHolding(l, t)
    BY <1>1, <2>6 DEF LeafHolding
  <2>9. pair.new = <<>> /\ pair.node = Holding(0, l, t)
    BY <2>7, <2>8 DEF Holding
  <2>10. Len(t) <= capacity /\ Len(t) >= Len(Array(0, l))
    BY <1>1, <1>2, <2>5 DEF Array
  <2> QED BY <2>5, <2>6, <2>9, <2>10 DEF Keeps
<1>6. CASE i = 0
  <2>1. e.key \notin Keyed(s) /\ X = ToSet(s) \cup {e}
    BY <1>1, <1>4, <1>6 DEF IsFirst, Keyed, ToSet
  <2>2. PICK all : all = Insorted(s, e)
    OBVIOUS
  <2>3. Ordered(all, T) /\ Len(all) = Len(s) + 1 /\ ToSet(all) = X
    <3>1. Gains(all, T, s, e)
      BY <1>2, <2>1, <2>2, InsortedIs
    <3> QED BY <2>1, <3>1 DEF Gains
  <2>4. CASE Len(s) < capacity
    <3>1. pair.node = LeafHolding(l, all) /\ pair.new = <<>>
      BY <1>1, <1>3, <1>6, <2>2, <2>4 DEF LeafInsert, LeafHolding
    <3>2. all # <<>>
      BY <1>2, <2>3, EmptySeq
    <3>3. Len(all) <= capacity /\ Len(all) >= Len(Array(0, l))
      BY <1>1, <1>2, <2>3, <2>4 DEF Array
    <3>4. pair.node = Holding(0, l, all)
      BY <3>1 DEF Holding
    <3> QED BY <2>3, <3>1, <3>2, <3>3, <3>4 DEF Keeps
  <2>5. CASE Len(s) >= capacity
    <3>1. PICK low : low = SubSeq(all, 1, Half(capacity))
      OBVIOUS
    <3>2. PICK high : high = SubSeq(all, Half(capacity) + 1, Len(all))
      OBVIOUS
    <3>3. pair.node = LeafHolding(l, low) /\ pair.new = << [NewLeaf EXCEPT !.arr = high, !.max_value = LastKey(high)] >>
      BY <1>1, <1>2, <1>3, <1>6, <2>2, <2>5, <3>1, <3>2 DEF LeafInsert, LeafHolding
    <3>4. [NewLeaf EXCEPT !.arr = high, !.max_value = LastKey(high)] = LeafHolding(NewLeaf, high)
      <4>1. PICK z : z = LastKey(high)
        OBVIOUS
      <4>2. NewLeaf = [NewLeaf EXCEPT !.old_max = NewLeaf.max_value]
        BY DEF NewLeaf
      <4>3. [NewLeaf EXCEPT !.arr = high, !.max_value = z]
              = [NewLeaf EXCEPT !.arr = high, !.old_max = NewLeaf.max_value, !.max_value = z]
        BY <4>2 DEF NewLeaf
      <4> QED BY <4>1, <4>2, <4>3 DEF LeafHolding
    <3>5. Len(all) = capacity + 1
      BY <1>2, <2>3, <2>5
    <3>6. pair.node = Holding(0, l, low) /\ pair.new = << Holding(0, Newborn(0), high) >>
      BY <3>3, <3>4 DEF Holding, Newborn
    <3>7. AreParts(low, high, T, ToSet(all), capacity)
      BY <2>3, <3>1, <3>2, <3>5, SplitIs
    <3> QED BY <2>3, <3>6, <3>7 DEF Shares
  <2> QED BY <1>2, <2>4, <2>5
<1> QED BY <1>5, <1>6

\* rootNode::Insert, when there is room.
LEMMA RootInsertIs ==
  ASSUME NEW T, Keyable(T), NEW capacity, NEW r, Ordered(r.childMap, T), RootAccepts(r, capacity),
         NEW e \in T, e.key \notin Keyed(r.childMap)
  PROVE  \E t : RootInsert(r, e, capacity) = MidHolding(r, t) /\ Gains(t, T, r.childMap, e)
<1>1. PICK t : t = Insorted(r.childMap, e)
  OBVIOUS
<1>2. Gains(t, T, r.childMap, e)
  BY <1>1, InsortedIs
<1>3. RootInsert(r, e, capacity) = MidHolding(r, t)
  BY <1>1 DEF RootInsert, MidHolding
<1> QED BY <1>2, <1>3

\* leafNode::Search
LEMMA LeafSearchIs ==
  ASSUME NEW T, Keyable(T), NEW l, Ordered(l.arr, T), NEW key
  PROVE  \/ LeafSearch(l, key) = <<>> /\ key \notin Keyed(l.arr)
         \/ \E x \in ToSet(l.arr) : x.key = key /\ LeafSearch(l, key) = <<x>>
<1>1. PICK i : i = IndexOf(l.arr, key)
  OBVIOUS
<1>2. IsFirst(l.arr, {key}, i)
  BY <1>1, IndexOfIs DEF Ordered
<1> QED BY <1>1, <1>2 DEF LeafSearch, IsFirst, Keyed, ToSet
=============================================================================
