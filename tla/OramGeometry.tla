---------------------------- MODULE OramGeometry ----------------------------
(***************************************************************************)
(* The shape of the binary bucket tree that stores one level of the map.   *)
(* Client and server compute it separately (client.cpp GetNodeOnPath and   *)
(* RandomPath, ORAM.cpp constructor and GetNodeOnPath); both must agree on *)
(* which buckets a path visits.  Buckets are numbered as in a heap: 0 is   *)
(* the top, and the bottom row is numbered from left to right.             *)
(***************************************************************************)
EXTENDS Naturals

\* pow(2, n), for whole n.
Pow2[n \in Nat] == IF n = 0 THEN 1 ELSE 2 * Pow2[n - 1]

\* floor(log2(maxSize / Z)), the number of the bottom row.
DepthOf(maxSize, z) ==
  CHOOSE d \in 0 .. maxSize :
    /\ Pow2[d] <= maxSize \div z
    /\ maxSize \div z < Pow2[d + 1]

BucketCount(depth) == Pow2[depth + 1] - 1

\* Mistake: the halving of a heap numbered from 1.
NodeOnPathFromOne(depth, leaf, d) ==
  LET climb[k \in 0 .. depth] ==
        IF k = 0 THEN leaf + BucketCount(depth) \div 2 ELSE climb[k - 1] \div 2
  IN  climb[depth - d]

\* The bucket of row d on the path that ends in bottom bucket `leaf`: start
\* at the bottom and take the parent, (b + 1) / 2 - 1, once per row climbed.
NodeOnPath(depth, leaf, d) ==
  LET climb[k \in 0 .. depth] ==
        IF k = 0 THEN leaf + BucketCount(depth) \div 2
                 ELSE (climb[k - 1] + 1) \div 2 - 1
  IN  climb[depth - d]

PathOf(depth, leaf) == {NodeOnPath(depth, leaf, d) : d \in 0 .. depth}

\* Mistake: a range halved once more.
PositionsOfQuarter(depth) == 0 .. ((Pow2[depth] - 1) \div 4)

\* What the client draws positions from: uniform integers between 0 and
\* (2^depth - 1) / 2, the upper bound truncated to an integer.
PositionsOf(depth) == 0 .. ((Pow2[depth] - 1) \div 2)
=============================================================================
