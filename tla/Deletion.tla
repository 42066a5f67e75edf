------------------------------ MODULE Deletion ------------------------------
(***************************************************************************)
(* The tree with delete_map.  client::Delete descends with a neighbour for *)
(* every node on the way, takes both out of the cache, and climbs: a row   *)
(* where the two stay two renames entries above, a row where they become   *)
(* one removes an entry above, which may repeat there.                     *)
(***************************************************************************)
EXTENDS BPlusTree

\* m1Delete has a loop that counts in the wrong direction; it is not entered
\* before there are six levels, and no parameters in use have more than five.
ASSUME LevelsAssumption == L <= 5

\* For every row the node on the way, its neighbour and the neighbour's side.
WayBeside(key) ==
  LET way[h \in Rows] ==
        IF h = Top THEN SearchBeside(root, NewMid, key, 0)
        ELSE LET above == way[h + 1]
             IN  SearchBeside(NodeAt(h + 1, above.child), NodeAt(h + 1, above.nb), key, above.flag)
  IN  [h \in Rows |-> way[h]]

\* Mistake: a node and its neighbour are always taken for siblings.
SameParentAlways(way) == TRUE

SameParent(way) == way.brother

Empty(h, node) == IF h = 0 THEN node.arr = <<>> ELSE node.childMap = <<>>

UpdateIf(condition, m, child) == IF condition THEN Update(m, child) ELSE m

\* Two inner nodes learn what became of the two below them.
Told(h, m, below, brother) ==
  UpdateIf(brother /\ ~Empty(h - 1, below.nb),
           UpdateIf(below.did = "kept", m, below.node), below.nb)

NeighbourTold(h, mnb, below, brother) ==
  UpdateIf(~brother /\ ~Empty(h, mnb), mnb, below.nb)

\* "absent": the entry to be removed is not there; Delete goes no further up.
Settled(m, mnb, below, flag) ==
  IF below.did = "merged" THEN MidDelete(m, mnb, flag, below.node.max_value, P2)
  ELSE [did |-> below.did, node |-> m, nb |-> mnb]

Climbed(h, m, mnb, below, brother, flag) ==
  Settled(Told(h, m, below, brother), NeighbourTold(h, mnb, below, brother), below, flag)

\* What becomes of the two nodes of every row.
Shrunk(key, way) ==
  LET shrunk[h \in Rows] ==
        IF h = 0
        THEN LeafDelete(NodeAt(0, way[0].child), NodeAt(0, way[0].nb), way[0].flag, key, C)
        ELSE Climbed(h, NodeAt(h, way[h].child), NodeAt(h, way[h].nb),
                     shrunk[h - 1], SameParent(way[h - 1]), way[h].flag)
  IN  [h \in Rows |-> shrunk[h]]

\* A row once both nodes are taken out and written back.
Rewritten(taken, pair) ==
  IF pair.did = "kept" THEN Filed(Filed(taken, Listed(pair.node)), Listed(pair.nb))
  ELSE IF pair.did = "merged" THEN Filed(taken, Listed(pair.nb)) ELSE taken

RootAfter(pair) ==
  LET Renamed(r) == UpdateIf(~Empty(Top, pair.nb), r, pair.nb)
  IN  IF pair.did = "kept" THEN Renamed(Update(root, pair.node))
      ELSE IF pair.did = "merged" THEN RootDelete(Renamed(root), pair.node.max_value)
      ELSE root

Delete(key) ==
  /\ root.childMap # <<>>
  /\ \E way \in {WayBeside(key)} : \E shrunk \in {Shrunk(key, way)} :
       /\ ret' = Singleton(key, shrunk[0].did # "absent")
       /\ Finish(RootAfter(shrunk[Top]),
                 [h \in Rows |-> Rewritten(Less(h, {way[h].child, way[h].nb}), shrunk[h])],
                 [h \in Rows |-> {way[h].child.key, way[h].nb.key,
                                  shrunk[h].node.max_value, shrunk[h].nb.max_value}])

\* Of a stored key that is not the last one.
DeleteStored(key) ==
  /\ key \in DOMAIN StoredMap /\ Cardinality(DOMAIN StoredMap) > 1
  /\ Delete(key)

\* A root with an entry RootDelete has emptied.  A descent that takes the
\* entry asks the server for the path of position -1, which has no bucket, and
\* is undefined.
RootHasEmptyEntry == \E i \in DOMAIN root.childMap : root.childMap[i] = NoEntry

StoredNext ==
  /\ ~RootHasEmptyEntry
  /\ SearchOrInsert \/ \E key \in Keys : DeleteStored(key)

StoredSpec == Init /\ [][StoredNext]_vars

\* ... and without taking a child from the root.
DeleteBelowRoot(key) == DeleteStored(key) /\ Shrunk(key, WayBeside(key))[Top].did = "kept"

BelowRootNext == SearchOrInsert \/ \E key \in Keys : DeleteBelowRoot(key)

BelowRootSpec == Init /\ [][BelowRootNext]_vars

-----------------------------------------------------------------------------
(***************************************************************************)
(* Three things go wrong in a delete: a key that is not stored makes it    *)
(* give up half-way, the last key leaves a leaf whose greatest key is read *)
(* before its array, and the root does not count its entries down.         *)
(* BelowRootSpec meets none of them.  StoredSpec meets the last one and    *)
(* ends there.                                                             *)
(***************************************************************************)

\* What the next descent with a neighbour makes of the root, whichever key it
\* is for: "-1 left, 0 none, 1 right" of the child is the neighbour, which is
\* a node on that side, so that a node without any beside it has side 0.
RootNamesNeighbours ==
  \A key \in DOMAIN StoredMap :
    LET at == SearchBeside(root, NewMid, key, 0)
    IN  IF at.flag = 0 THEN DOMAIN row[Top] = {at.child.key}
        ELSE /\ at.nb.key \in DOMAIN row[Top]
             /\ IF at.flag = Left THEN at.nb.key < at.child.key ELSE at.nb.key > at.child.key
=============================================================================
