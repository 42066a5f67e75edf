----------------------------- MODULE MCOperators -----------------------------
(***************************************************************************)
(* Evaluates the pure algorithms over bounded inputs.                      *)
(*                                                                         *)
(* OramGeometry: for every size of a level up to MaxNodes and every        *)
(* position, the path is walked row by row from the bottom to the top.     *)
(*                                                                         *)
(* Bids: on all pairs of identifiers, a being counted up by operator++     *)
(* from any int, b any identifier.                                         *)
(***************************************************************************)
EXTENDS OramGeometry, Bids

CONSTANTS MaxNodes,    \* nodes a full level has
          BucketSizes  \* values of Z

ASSUME SizesAssumption == MaxNodes \in Nat /\ BucketSizes \subseteq Nat \ {0}

VARIABLE at  \* the inputs: of a level [nodes, z, leaf, row] or two identifiers [a, b, n]

\* client::init gives the server twice the number of nodes of a full level
\* as the size of its tree.
LevelDepth(nodes, z) == DepthOf(2 * nodes, z)

Levels == {level \in [nodes : 1 .. MaxNodes, z : BucketSizes] : 2 * level.nodes >= level.z}

Climbing == "row" \in DOMAIN at
Counting == "n" \in DOMAIN at
Depth    == LevelDepth(at.nodes, at.z)

Init ==
  \/ \E level \in Levels :
       LET depth == LevelDepth(level.nodes, level.z)
       IN  \E leaf \in PositionsOf(depth) :
             at = [nodes |-> level.nodes, z |-> level.z, leaf |-> leaf, row |-> depth]
  \/ \E n \in Ints, b \in Bid : at = [a |-> FromInt(n), b |-> b, n |-> n]

Climb == Climbing /\ at.row > 0 /\ at' = [at EXCEPT !.row = @ - 1]

Count == Counting /\ at' = [at EXCEPT !.a = Incremented(@)]

Next == Climb \/ Count

Spec == Init /\ [][Next]_at

-----------------------------------------------------------------------------
\* The bucket of a row is the one whose stretch of the bottom row contains
\* the leaf.  The loop of GetNodeOnPath, run in both programs, computes it
\* by repeated halving.
PathIsRowWise ==
  Climbing =>
    NodeOnPath(Depth, at.leaf, at.row) = Pow2[at.row] - 1 + at.leaf \div Pow2[Depth - at.row]

\* Positions are drawn from the left half of the bottom row only.  The
\* buckets they lead to still have a slot for every node of a full level.
ReachableSlotsSuffice ==
  Climbing =>
    LET reachable == UNION {PathOf(Depth, l) : l \in PositionsOf(Depth)}
    IN  at.nodes <= at.z * Cardinality(reachable)

\* What the nodes compare: numbers with the first byte highest.
Rank(id) ==
  LET sum[k \in 0 .. IdSize] == IF k = 0 THEN 0 ELSE Base * sum[k - 1] + id[k - 1]
  IN  sum[IdSize]

\* The comparisons are those of numbers, each its own loop in Bid.cpp: one
\* total order, so that sorting entries by one of them and searching them by
\* another agree.
OrderIsOfNumbers ==
  Counting =>
    /\ Less(at.a, at.b) <=> Rank(at.a) < Rank(at.b)
    /\ LessOrEqual(at.a, at.b) <=> Rank(at.a) <= Rank(at.b)
    /\ Greater(at.a, at.b) <=> Rank(at.a) > Rank(at.b)
    /\ GreaterOrEqual(at.a, at.b) <=> Rank(at.a) >= Rank(at.b)
    /\ Equal(at.a, at.b) <=> Rank(at.a) = Rank(at.b)

\* Two ints give two keys, and only 0 gives one that compares equal to 0, which
\* Read...Node, Write...Node and search_map take for "no key", although the
\* constructor and the comparison have opposite orders of bytes.  An empty slot
\* of a bucket, to which 0 is assigned, is no key either.
IntKeysAreKeys ==
  Counting =>
    /\ \A m \in Ints : FromInt(m) = FromInt(at.n) => m = at.n
    /\ EqualsInt(FromInt(at.n), 0) <=> at.n = 0
    /\ EqualsInt(AssignedInt(at.n), 0) <=> at.n = 0

\* Counting visits the identifiers in their order and leaves none out.
CountsInOrder ==
  [][Counting => \/ Less(at.a, at.a') /\ ~(Less(at.a, at.b) /\ Less(at.b, at.a'))
                 \/ \A i \in Indices : at.a[i] = Base - 1 /\ at.a'[i] = 0]_at
=============================================================================
