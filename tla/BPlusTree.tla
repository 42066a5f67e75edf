----------------------------- MODULE BPlusTree -----------------------------
(***************************************************************************)
(* The map as a B+-tree of a fixed number of levels: the root, which the   *)
(* client keeps, inner rows (mid1 ..., mid2) and the leaves.  Every row    *)
(* below the root is a table from greatest key to node, which is what      *)
(* PathORAM provides to a reader who knows the node's position: the entry  *)
(* in the row above has it, and every operation draws it anew for all      *)
(* nodes it touches.  An operation runs to its end before the next.        *)
(***************************************************************************)
EXTENDS FiniteSets, Nodes, Maps

CONSTANTS Keys,      \* the keys inserted or searched, positive numbers
          Values,
          NotFound,  \* search_map's -1
          L,         \* number of levels, root and leaves included
          C,         \* entries of a leaf
          P1,        \* entries of the root
          P2,        \* entries of an inner node
          Positions  \* the positions of a row, the same set for each

ASSUME TreeAssumption ==
  /\ Keys \subseteq Nat \ {NoKey} /\ IsFiniteSet(Keys)
  /\ NotFound \notin Values
  /\ L \in Nat /\ L >= 3
  /\ C \in Nat \ {0} /\ P1 \in Nat \ {0} /\ P2 \in Nat \ {0, 1}
  /\ Positions # {} /\ Positions \subseteq Nat

\* The parameters are chosen for a number of keys so that a root of P1
\* entries over nodes no more than half full has room for them.
Power(b, n) == LET power[k \in 0 .. n] == IF k = 0 THEN 1 ELSE b * power[k - 1] IN power[n]

Fits(keys) == Power(2, L - 1) * keys <= C * P1 * Power(P2, L - 2)

ASSUME CapacityAssumption == Fits(Cardinality(Keys))

VARIABLES root,  \* [childMap, max_value]
          row,   \* row[h]: greatest key -> node, h = 0 for the leaves
          ret    \* the key last searched for or deleted -> what was returned

vars == <<root, row, ret>>

Rows == 0 .. L - 2
Top  == L - 2

\* Mistake: a child is listed under the name it had.
EntryOldName(node) == [key |-> node.old_max, pos |-> node.pos]

Entry(node) == [key |-> node.max_value, pos |-> node.pos]

Init ==
  /\ root = [childMap |-> <<>>, max_value |-> NoKey]
  /\ row = [h \in Rows |-> [id \in {} |-> root]]
  /\ ret = [key \in {} |-> NotFound]

-----------------------------------------------------------------------------
(***************************************************************************)
(* Every operation ends in client::finish, which gives the nodes touched   *)
(* new positions, leaves first, and after a row copies the row's new       *)
(* positions into the nodes above.                                         *)
(***************************************************************************)
\* Mistake: the row above is dealt with before the new positions are drawn.
RefreshedFirst(m, drawn) == m

\* An inner node, or the root, with the new positions of its children.
Refreshed(m, drawn) ==
  LET New(e) == IF e.key \in DOMAIN drawn THEN [e EXCEPT !.pos = drawn[e.key]] ELSE e
  IN  [m EXCEPT !.childMap = [i \in DOMAIN m.childMap |-> New(m.childMap[i])]]

\* drawn[h]: the new positions of the nodes touched in row h.
RowAfter(h, table, drawn) ==
  [id \in DOMAIN table |->
     IF id \notin DOMAIN drawn[h] THEN table[id]
     ELSE [IF h = 0 THEN table[id] ELSE Refreshed(table[id], drawn[h - 1])
             EXCEPT !.pos = drawn[h][id]]]

\* client::finish, with the root and the rows as the operation leaves them,
\* modified[h] the names it has read or written.
Finish(r, left, modified) ==
  \E rows \in {left} :
  \E touched \in {UNION {{h} \X (DOMAIN rows[h] \cap modified[h]) : h \in Rows}} :
  \E draw \in [touched -> Positions] :
  \E drawn \in {[h \in Rows |->
                   [id \in {t[2] : t \in {u \in touched : u[1] = h}} |-> draw[<<h, id>>]]]} :
    /\ root' = Refreshed(r, drawn[Top])
    /\ row' = [h \in Rows |-> RowAfter(h, rows[h], drawn)]

-----------------------------------------------------------------------------
\* Read...Node and Write...Node: 0 names nothing, is not read and not written.
\* A node is found with its name and the position it was given.  No node with a
\* name is asked for at Unplaced, which is no path: Deletion ends before that.
Found(h, e) == e.key \in DOMAIN row[h] /\ row[h][e.key].pos = e.pos

NodeAt(h, e) ==
  IF Found(h, e) THEN row[h][e.key] ELSE IF h = 0 THEN NewLeaf ELSE NewMid

\* A row without the nodes taken out of it.
Less(h, entries) == Drop(row[h], {e.key : e \in {x \in entries : Found(h, x)}})

Filed(table, node) ==
  IF node.max_value = NoKey THEN table ELSE Put(table, node.max_value, node)

\* The entries on the way to a key, from the root down.  (Recursive functions
\* of a row are handed on as tables, which TLC does not compute anew.)
WayTo(key) ==
  LET way[h \in Rows] ==
        IF h = Top THEN ChildFor(root, key)
                   ELSE ChildFor(NodeAt(h + 1, way[h + 1]), key)
  IN  [h \in Rows |-> way[h]]

\* The first key: one node in every row, each listed by the one above.
InsertFirst(key, value) ==
  /\ root.childMap = <<>>
  /\ Finish([childMap |-> << [key |-> key, pos |-> Unplaced] >>, max_value |-> key],
            [h \in Rows |->
              Singleton(key,
                IF h = 0
                THEN [NewLeaf EXCEPT !.arr = << [key |-> key, value |-> value] >>,
                                     !.old_max = key, !.max_value = key]
                ELSE [NewMid EXCEPT !.childMap = << [key |-> key, pos |-> Unplaced] >>,
                                    !.old_max = key, !.max_value = key])],
            [h \in Rows |-> {key}])
  /\ UNCHANGED ret

\* What becomes of the nodes on the way: the leaf takes the entry, and every
\* node above renames the child below it and lists the child's new half.
Grown(way, key, value) ==
  LET grown[h \in Rows] ==
        IF h = 0
        THEN LeafInsert(NodeAt(0, way[0]), [key |-> key, value |-> value], C)
        ELSE LET below == grown[h - 1]
                 m     == Update(NodeAt(h, way[h]), below.node)
             IN  IF below.new = <<>> THEN [node |-> m, new |-> <<>>]
                                     ELSE MidInsert(m, Entry(Head(below.new)), P2)
  IN  [h \in Rows |-> grown[h]]

\* Mistake: old_max is left as it was.
Unlisted(node) == node

\* A node its parent has taken notice of.
Listed(node) == [node EXCEPT !.old_max = node.max_value]

\* A row with the node on the way and its new half written back.
Written(h, taken, pair) ==
  LET kept == Filed(taken, Listed(pair.node))
      Refused == h = Top /\ ~RootAccepts(root, P1)
  IN  IF pair.new = <<>> THEN kept
      ELSE Filed(kept, IF Refused THEN Head(pair.new) ELSE Listed(Head(pair.new)))

\* client::insert.  The root's refusal of a new child goes unnoticed.
Insert(key, value) ==
  /\ root.childMap # <<>>
  /\ \E way \in {WayTo(key)} : \E grown \in {Grown(way, key, value)} :
       LET r        == Update(root, grown[Top].node)
           New(h)   == ToSet(grown[h].new)
           Named(h) == {way[h].key} \cup {node.max_value : node \in {grown[h].node} \cup New(h)}
       IN  Finish(IF New(Top) = {} THEN r ELSE RootInsert(r, Entry(Head(grown[Top].new)), P1),
                  [h \in Rows |-> Written(h, Less(h, {way[h]}), grown[h])],
                  [h \in Rows |-> Named(h)])
  /\ UNCHANGED ret

\* client::search and the result search_map makes of it.
Answer(found) == IF found = <<>> THEN NotFound ELSE Head(found).value

Search(key) ==
  \E way \in {WayTo(key)} :
    /\ ret' = Singleton(key, Answer(LeafSearch(NodeAt(0, way[0]), key)))
    /\ Finish(root, row, [h \in Rows |-> {way[h].key}])

SearchOrInsert ==
  \E key \in Keys :
    \/ Search(key)
    \/ \E value \in Values : InsertFirst(key, value) \/ Insert(key, value)

\* Insertions and searches: all that test_bomap does before its one delete.
InsertSpec == Init /\ [][SearchOrInsert]_vars

-----------------------------------------------------------------------------
InnerNodes == {root} \cup UNION {{row[h][id] : id \in DOMAIN row[h]} : h \in 1 .. Top}
Leaves == {row[0][id] : id \in DOMAIN row[0]}

\* The types of the variables; what a node may hold at most is part of it,
\* the arrays of node.hpp having no room for more.
TypeOK ==
  /\ root.childMap \in Seq([key : Keys, pos : Positions]) /\ Len(root.childMap) <= P1
  /\ root.max_value \in Keys \cup {NoKey}
  /\ DOMAIN row = Rows
  /\ \A h \in Rows :
       /\ DOMAIN row[h] \subseteq Keys
       /\ \A id \in DOMAIN row[h] :
            /\ row[h][id].pos \in Positions
            /\ IF h = 0
               THEN /\ row[h][id].arr \in Seq([key : Keys, value : Values])
                    /\ Len(row[h][id].arr) <= C
               ELSE /\ row[h][id].childMap \in Seq([key : Keys, pos : Positions])
                    /\ Len(row[h][id].childMap) <= P2
  /\ IsMap(ret, Keys, Values \cup {NotFound} \cup BOOLEAN)

\* The nodes that may list the nodes of a row.
Above(h) == IF h = Top THEN {root} ELSE {row[h + 1][id] : id \in DOMAIN row[h + 1]}

\* Between operations every node of a row is listed by exactly one entry of
\* the row above, and every entry names a node that is there: no subtree is
\* unreachable and no descent of client::search or client::insert asks the
\* server for a node that does not exist.
EveryNodeListedOnce ==
  \A h \in Rows :
    LET above == Above(h)
        entries == {<<m, i>> : m \in above, i \in 1 .. P1 + P2}
        Real == {e \in entries : e[2] \in DOMAIN e[1].childMap}
    IN  /\ Cardinality(Real) = Cardinality(DOMAIN row[h])
        /\ {e[1].childMap[e[2]].key : e \in Real} = DOMAIN row[h]

\* Between operations every entry of the root and of the inner nodes has its
\* child's position, however often splits, merges and loans have moved the
\* entry from node to node: the next descent will find the child.
EntriesKnowPositions ==
  \A h \in Rows : \A m \in Above(h) : \A i \in DOMAIN m.childMap :
    Found(h, m.childMap[i])

\* A node is filed, listed by its parent and searched for under the greatest
\* key it holds, and remembers that name in old_max, which the next Update of
\* its parent looks for.
NamedByGreatestKey ==
  \A h \in Rows : \A id \in DOMAIN row[h] :
    LET node == row[h][id]
        held == Keyed(IF h = 0 THEN node.arr ELSE node.childMap)
    IN  /\ id \in held /\ \A k \in held : k <= id
        /\ node.max_value = id /\ node.old_max = id

\* Entries ascend in every node, and the keys of a leaf lie above all keys of
\* the leaves filed under smaller names: a descent by first key >= wanted ends
\* at the only leaf that can hold the key.
SearchOrder ==
  /\ \A m \in InnerNodes : Ascending(m.childMap)
  /\ \A l \in Leaves : Ascending(l.arr)
  /\ \A h \in Rows : \A id, other \in DOMAIN row[h] :
       other < id =>
         \A k \in Keyed(IF h = 0 THEN row[h][id].arr ELSE row[h][id].childMap) :
            k > other

\* A row of more than one node has none less than half full; this is what
\* the choice of the parameters in precompute.cpp counts on.
AtLeastHalfFull ==
  \A h \in Rows : Cardinality(DOMAIN row[h]) > 1 =>
    \A id \in DOMAIN row[h] :
      IF h = 0 THEN 2 * Len(row[h][id].arr) >= C
               ELSE 2 * Len(row[h][id].childMap) >= P2

\* What the tree has stored, the map it stands for.
StoredEntries == UNION {{l.arr[i] : i \in DOMAIN l.arr} : l \in Leaves}

StoredMap == [k \in {e.key : e \in StoredEntries} |->
                (CHOOSE e \in StoredEntries : e.key = k).value]

Map == INSTANCE OMap WITH map <- StoredMap

\* The tree does what a map with deletion does: what insert_map stored is
\* found by search_map, through splits, merges and rearrangements, until
\* overwritten or deleted; a delete removes its own key and no other, whichever
\* leaves and inner nodes it joins or evens out on the way, and says so.
ImplementsOMap == Map!Spec
=============================================================================
