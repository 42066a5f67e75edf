-------------------------------- MODULE Nodes --------------------------------
(***************************************************************************)
(* The node operations of node.cpp.  A leaf holds entries [key, value], an *)
(* inner node or the root entries [key, pos] that name children by their   *)
(* greatest keys and say where they are; arrays are sequences of their     *)
(* used part.  A node knows its greatest key, max_value, the one its       *)
(* parent still lists it under, old_max, and its position, pos.  midNode2, *)
(* midNode1 and rootNode have copies of the same functions.                *)
(*                                                                         *)
(* A node that needs room gives its upper half to a new node; `new` is the *)
(* empty sequence of nodes or holds that node.                             *)
(***************************************************************************)
EXTENDS Integers, Sequences, FiniteSets, SequencesExt

\* The 0 a Bid starts as.
NoKey == 0

\* Mistake: half of the entries before the insertion.
HalfShort(capacity) == capacity \div 2

Half(capacity) == (capacity + 1) \div 2

\* The loops over an array: the first entry with a key, one no less, one
\* greater; 0 if there is none.
IndexOf(s, key)    == SelectInSeq(s, LAMBDA x : x.key = key)
FirstFrom(s, key)  == SelectInSeq(s, LAMBDA x : x.key >= key)
FirstAbove(s, key) == SelectInSeq(s, LAMBDA x : x.key > key)

\* Entries are kept in the order of their keys.
Insorted(s, e) ==
  LET i == FirstAbove(s, e.key)
  IN  IF i = 0 THEN Append(s, e) ELSE InsertAt(s, i, e)

\* sort, with kppair_sort_rule.
Rank(s, i) ==
  1 + Cardinality({j \in DOMAIN s : s[j].key < s[i].key \/ (s[j].key = s[i].key /\ j < i)})
Sorted(s) == [k \in DOMAIN s |-> s[CHOOSE i \in DOMAIN s : Rank(s, i) = k]]

\* kppair(): names nothing.
Unplaced == -1
NoEntry  == [key |-> NoKey, pos |-> Unplaced]

\* Of an array that has entries.  Before an empty one lies nothing.
LastKey(s) == Last(s).key

\* Nodes as their constructors leave them: what a read that finds none returns.
\* The position a new node is given at once is drawn again before it is used.
NewLeaf == [arr |-> <<>>, old_max |-> NoKey, max_value |-> NoKey, pos |-> Unplaced]
NewMid  == [childMap |-> <<>>, old_max |-> NoKey, max_value |-> NoKey, pos |-> Unplaced]

Keyed(s)     == {s[i].key : i \in DOMAIN s}
Ascending(s) == \A i, j \in DOMAIN s : i < j => s[i].key < s[j].key

\* leafNode::Insert.  The key's value is replaced if the key is there.
LeafInsert(l, e, capacity) ==
  LET same == IndexOf(l.arr, e.key)
      all  == Insorted(l.arr, e)
      low  == SubSeq(all, 1, Half(capacity))
      high == SubSeq(all, Half(capacity) + 1, Len(all))
      Keep(arr) == [l EXCEPT !.arr = arr, !.old_max = l.max_value, !.max_value = LastKey(arr)]
  IN  IF same # 0
      THEN [node |-> [l EXCEPT !.arr[same] = e], new |-> <<>>]
      ELSE IF Len(l.arr) < capacity
      THEN [node |-> Keep(all), new |-> <<>>]
      ELSE [node |-> Keep(low),
            new  |-> << [NewLeaf EXCEPT !.arr = high, !.max_value = LastKey(high)] >>]

\* Mistake: the search of inner nodes used in a leaf.
LeafSearchFrom(l, key) == SelectSeq(l.arr, LAMBDA x : x.key >= key)

\* leafNode::Search: the entry, if the key is there.
LeafSearch(l, key) ==
  LET i == IndexOf(l.arr, key) IN IF i = 0 THEN <<>> ELSE << l.arr[i] >>

\* Mistake: only a child that has grown is renamed, not one that was split.
UpdateIfGrown(m, child) ==
  LET i == IndexOf(m.childMap, child.old_max)
      entries == IF i = 0 \/ child.max_value < child.old_max THEN m.childMap
                 ELSE [m.childMap EXCEPT ![i].key = child.max_value]
  IN  [m EXCEPT !.childMap = entries, !.max_value = LastKey(entries)]

\* midNode::Update, rootNode::Update: rename the entry of a child, put the
\* entries in order again.
Update(m, child) ==
  LET i == IndexOf(m.childMap, child.old_max)
      renamed == IF i = 0 THEN m.childMap
                          ELSE [m.childMap EXCEPT ![i].key = child.max_value]
      entries == IF child.max_value = child.old_max THEN renamed
                 ELSE Sorted(renamed)
  IN  [m EXCEPT !.childMap = entries, !.max_value = LastKey(entries)]

\* midNode::Insert: list a new child.
MidInsert(m, e, capacity) ==
  LET all  == Insorted(m.childMap, e)
      low  == SubSeq(all, 1, Half(capacity))
      high == SubSeq(all, Half(capacity) + 1, Len(all))
      Keep(entries) == [m EXCEPT !.childMap = entries, !.max_value = LastKey(entries)]
  IN  IF Len(m.childMap) < capacity
      THEN [node |-> Keep(all), new |-> <<>>]
      ELSE [node |-> Keep(low),
            new  |-> << [NewMid EXCEPT !.childMap = high, !.max_value = LastKey(high)] >>]

\* rootNode::Insert: a full root refuses.
RootAccepts(r, capacity) == Len(r.childMap) < capacity

RootInsert(r, e, capacity) ==
  LET all == Insorted(r.childMap, e)
  IN  IF RootAccepts(r, capacity)
      THEN [r EXCEPT !.childMap = all, !.max_value = LastKey(all)] ELSE r

\* Mistake: an entry is taken for the least key of its child.
ChildAbove(m, key) ==
  LET i == FirstAbove(m.childMap, key)
  IN  IF m.childMap = <<>> THEN NoEntry
      ELSE IF i = 0 THEN [Last(m.childMap) EXCEPT !.key = m.max_value] ELSE m.childMap[i]

\* Mistake: past the last entry, the first position.
ChildForFirst(m, key) ==
  LET i == FirstFrom(m.childMap, key)
  IN  IF m.childMap = <<>> THEN NoEntry
      ELSE IF i = 0 THEN [Head(m.childMap) EXCEPT !.key = m.max_value] ELSE m.childMap[i]

\* Search of an inner node or the root: name and position of the child to
\* descend into; past the last entry, the last position under the node's
\* greatest key.
ChildFor(m, key) ==
  LET i == FirstFrom(m.childMap, key)
  IN  IF m.childMap = <<>> THEN NoEntry
      ELSE IF i = 0 THEN [Last(m.childMap) EXCEPT !.key = m.max_value] ELSE m.childMap[i]

-----------------------------------------------------------------------------
(***************************************************************************)
(* Delete.  A node that would fall below half gets an entry from a         *)
(* neighbour or moves into it.  The neighbour is on the side `flag` of the *)
(* node; the side is chosen once, in the highest node with a choice.       *)
(***************************************************************************)
Left  == -1
Right == 1

\* Mistake: the far end of the neighbour.
FarChild(mnb, side) ==
  IF mnb.childMap = <<>> THEN NoEntry
  ELSE IF side = Right THEN [Last(mnb.childMap) EXCEPT !.key = mnb.max_value]
                       ELSE Head(mnb.childMap)

\* The child of a neighbour on the given side that is nearest.
NearChild(mnb, side) ==
  IF mnb.childMap = <<>> THEN NoEntry
  ELSE IF side = Left THEN [Last(mnb.childMap) EXCEPT !.key = mnb.max_value]
                      ELSE Head(mnb.childMap)

\* Search with a neighbour: the child to descend into and the one beside it,
\* a child of m or, at the edge of m, of its neighbour mnb.
SearchBeside(m, mnb, key, flag) ==
  LET from    == FirstFrom(m.childMap, key)
      i       == IF from = 0 THEN Len(m.childMap) ELSE from
      side    == IF flag # 0 THEN flag
                 ELSE IF Len(m.childMap) = 1 THEN 0
                 ELSE IF i = 1 THEN Right ELSE Left
      sibling == i + side \in DOMAIN m.childMap
  IN  [child |-> ChildFor(m, key), flag |-> side, brother |-> side = 0 \/ sibling,
       nb |-> IF side = 0 THEN NoEntry
              ELSE IF sibling THEN m.childMap[i + side] ELSE NearChild(mnb, side)]

\* Mistake: a node at its limit may still give an entry away.
SparesBelowHalf(s, capacity) == Len(s) >= Half(capacity)

Spares(s, capacity) == Len(s) > Half(capacity)

\* Mistake: merged in the wrong order.
JoinedSwapped(own, t, flag) == IF flag = Left THEN own \o t ELSE t \o own

Joined(own, t, flag) == IF flag = Left THEN t \o own ELSE own \o t

\* Mistake: the entries behind the gap do not move up.
WithoutMovingUp(s, i) == Front(s)

Without(s, i) == SubSeq(s, 1, i - 1) \o SubSeq(s, i + 1, Len(s))

\* Take entry i out of s and settle the rest with the neighbour's entries t.
Settle(s, i, t, flag, capacity) ==
  LET rest == Without(s, i)
  IN  IF flag = 0 \/ t = <<>> \/ Spares(s, capacity)
      THEN [did |-> "kept", own |-> rest, nb |-> t]
      ELSE IF Len(t) + Len(rest) <= capacity
      THEN [did |-> "merged", own |-> <<>>, nb |-> Joined(rest, t, flag)]
      ELSE [did |-> "kept",
            own |-> IF flag = Left THEN << Last(t) >> \o rest ELSE Append(rest, Head(t)),
            nb  |-> IF flag = Left THEN Front(t) ELSE Tail(t)]

\* Mistake: the greatest key is not determined anew.
LeafHoldingSameMax(l, arr) == [l EXCEPT !.arr = arr, !.old_max = l.max_value]

LeafHolding(l, arr) ==
  [l EXCEPT !.arr = arr, !.old_max = l.max_value, !.max_value = LastKey(arr)]

LeafSettled(l, nb, flag, r) ==
  [did  |-> r.did,
   node |-> IF r.did = "merged" THEN l ELSE LeafHolding(l, r.own),
   nb   |-> IF flag = Left /\ r.nb # nb.arr THEN LeafHolding(nb, r.nb)
                                           ELSE [nb EXCEPT !.arr = r.nb]]

\* leafNode::Delete.  A left neighbour's greatest key changes, a right one's
\* does not.
LeafDelete(l, nb, flag, key, capacity) ==
  LET i == IndexOf(l.arr, key)
  IN  IF i = 0 THEN [did |-> "absent", node |-> l, nb |-> nb]
      ELSE LeafSettled(l, nb, flag, Settle(l.arr, i, nb.arr, flag, capacity))

\* Mistake: the greatest key is not determined anew.
MidHoldingSameMax(m, entries) == [m EXCEPT !.childMap = entries]

\* old_max stays: it is what the parent still lists the node under.
MidHolding(m, entries) == [m EXCEPT !.childMap = entries, !.max_value = LastKey(entries)]

MidSettled(m, nb, flag, r) ==
  [did  |-> r.did,
   node |-> IF r.did = "merged" THEN m ELSE MidHolding(m, r.own),
   nb   |-> IF flag = Left /\ r.nb # nb.childMap THEN MidHolding(nb, r.nb)
                                                ELSE [nb EXCEPT !.childMap = r.nb]]

\* midNode::Delete
MidDelete(m, nb, flag, key, capacity) ==
  LET i == IndexOf(m.childMap, key)
  IN  IF i = 0 THEN [did |-> "absent", node |-> m, nb |-> nb]
      ELSE MidSettled(m, nb, flag, Settle(m.childMap, i, nb.childMap, flag, capacity))

\* rootNode::Delete closes the gap but keeps its count of entries: the last
\* one becomes an empty entry.
RootDelete(r, key) ==
  LET i == IndexOf(r.childMap, key)
  IN  IF i = 0 THEN r
      ELSE [r EXCEPT !.childMap = Append(Without(@, i), NoEntry)]
=============================================================================
