------------------------------ MODULE PathORAM ------------------------------
(***************************************************************************)
(* One level of the map (the leaves, or one row of inner nodes) as client  *)
(* and server keep it between them.  The server stores a binary tree of    *)
(* encrypted buckets; the client keeps the nodes it has not placed yet in  *)
(* a cache, and the parent of a node records the position, a bottom        *)
(* bucket, on whose path the node may be stored.                           *)
(*                                                                         *)
(* An operation of the map does the following at every level: part_init,   *)
(* read the nodes it needs, change them, write them back to the cache,     *)
(* read random paths until two have been read, give every node it touched  *)
(* a new random position, move cached nodes into the buckets it has read,  *)
(* deepest first, and send those buckets back.                             *)
(*                                                                         *)
(* The three levels' functions (...mid1..., ...mid2..., ...leaf...) are    *)
(* copies of each other; the leaf copies are the ones translated.          *)
(***************************************************************************)
EXTENDS Naturals, FiniteSets, Functions, Maps, OramGeometry

CONSTANTS Ids,      \* node identifiers: the greatest key of a node
          Vals,     \* node contents, as far as they are told apart
          NoVal,    \* content of the default node of a read that finds none
          Depth,    \* number of the bottom row of the bucket tree
          Z         \* slots of a bucket

ASSUME ConstantsAssumption ==
  /\ Depth \in Nat
  /\ Z \in Nat \ {0}
  /\ NoVal \notin Vals

VARIABLES pc,         \* where the operation in progress stands
          result,     \* id -> content, the node this operation searched for
          parentPos,  \* id -> position recorded in the parent's childMap
          cache,      \* leafcache: id -> node
          held,       \* nodes taken out of the cache into local variables
          fresh,      \* the node a split or the first insert created
          modified,   \* leafmodified: ids read or written
          leafList,   \* leafList3: positions whose paths will be rewritten
          readCnt,    \* readCntleaf: paths read by this operation
          writeview,  \* writeviewmap3: buckets already refilled
          outbuf,     \* buffer_vec, position_vec: refilled buckets to send
          tree,       \* server: bucket -> the nodes in it
          readview,   \* server: readviewmap, buckets already handed out
          recvCount   \* server: recv_count3 modulo 2

local  == <<pc, result, held, fresh>>
client == <<parentPos, cache, modified, leafList, readCnt>>
evict  == <<writeview, outbuf>>
server == <<tree, readview, recvCount>>
vars   == <<local, client, evict, server>>

Positions     == PositionsOf(Depth)
NodeTable     == [leaf \in Positions |-> [d \in 0 .. Depth |-> NodeOnPath(Depth, leaf, d)]]
Node(leaf, d) == NodeTable[leaf][d]
Path(leaf)    == {Node(leaf, d) : d \in 0 .. Depth}

\* The constructor fills all buckets with dummies.  The ones no position
\* leads to are never read or written again and are left out.
Buckets == UNION {Path(leaf) : leaf \in Positions}

Nodes == [pos : Positions, val : Vals]

IsNodeMap(f) == IsMap(f, Ids, Nodes)
NoNodes == [id \in {} |-> NoVal]

Free == Ids \ DOMAIN parentPos

-----------------------------------------------------------------------------
(***************************************************************************)
(* Reading a path.  The server hands out a bucket once per operation: it   *)
(* forgets what it handed out when it has served an even number of reads.  *)
(***************************************************************************)
\* Mistake: the server hands out a bucket as often as it is asked for it.
HandedOutNever == {}

HandedOut == IF recvCount = 0 THEN {} ELSE readview

Opening(leaf) == Path(leaf) \ HandedOut

\* The client stores every node of the reply in its cache, replacing what
\* is there; the reply runs from the top down, so the deepest copy stays.
Received(leaf) == UNION {DOMAIN tree[b] : b \in Opening(leaf)}

CopyOf(id, leaf) ==
  LET rows    == {d \in 0 .. Depth : Node(leaf, d) \in Opening(leaf) /\ id \in DOMAIN tree[Node(leaf, d)]}
      deepest == CHOOSE d \in rows : \A e \in rows : e <= d
  IN  tree[Node(leaf, deepest)][id]

Fetched(leaf) == Override(cache, [id \in Received(leaf) |-> CopyOf(id, leaf)])

\* Mistake: a read the client does not count.
FetchPathUncounted(leaf) ==
  /\ readview' = HandedOut \cup Path(leaf)
  /\ recvCount' = 1 - recvCount
  /\ UNCHANGED <<readCnt, tree>>

FetchPath(leaf) ==
  /\ readview' = HandedOut \cup Path(leaf)
  /\ recvCount' = 1 - recvCount
  /\ readCnt' = readCnt + 1
  /\ UNCHANGED tree

-----------------------------------------------------------------------------
(***************************************************************************)
(* Reading a node: from the cache if it is there, else from the path of    *)
(* the position its parent records.                                        *)
(***************************************************************************)
Looked(id) == IF id \in DOMAIN cache THEN cache ELSE Fetched(parentPos[id])

Finds(id) == id \in DOMAIN Looked(id)

NodeRead(id) == [Looked(id)[id] EXCEPT !.pos = parentPos[id]]

ReadBookkeeping(id) ==
  /\ modified' = IF Finds(id) THEN modified \cup {id} ELSE modified
  /\ IF id \in DOMAIN cache
     THEN UNCHANGED <<leafList, readCnt, server>>
     ELSE /\ FetchPath(parentPos[id])
          /\ leafList' = IF Finds(id) THEN leafList \cup {parentPos[id]}
                                      ELSE leafList

Init ==
  /\ pc = "idle"
  /\ result = NoNodes
  /\ parentPos = NoNodes
  /\ cache = NoNodes /\ held = NoNodes /\ fresh = NoNodes
  /\ modified = {} /\ leafList = {} /\ readCnt = 0
  /\ writeview = {} /\ outbuf = NoNodes
  /\ tree = [b \in Buckets |-> NoNodes]
  /\ readview = {} /\ recvCount = 0

\* Mistake: the count of the last operation stays.
PartInitKeepsCount ==
  /\ pc = "idle"
  /\ pc' = "access"
  /\ writeview' = {}
  /\ result' = NoNodes
  /\ UNCHANGED <<held, fresh, client, outbuf, server>>

\* Mistake: the record of buckets refilled stays.
PartInitKeepsWriteview ==
  /\ pc = "idle"
  /\ pc' = "access"
  /\ readCnt' = 0
  /\ result' = NoNodes
  /\ UNCHANGED <<held, fresh, parentPos, cache, modified, leafList, evict, server>>

PartInit ==
  /\ pc = "idle"
  /\ pc' = "access"
  /\ readCnt' = 0
  /\ writeview' = {}
  /\ result' = NoNodes
  /\ UNCHANGED <<held, fresh, parentPos, cache, modified, leafList, outbuf, server>>

\* client::search at this level: the node stays in the cache.
SearchNode(id) ==
  /\ pc = "access" /\ held = NoNodes
  /\ id \in DOMAIN parentPos
  /\ ReadBookkeeping(id)
  /\ cache' = IF Finds(id) /\ id \notin DOMAIN cache
              THEN Put(Looked(id), id, NodeRead(id))
              ELSE Looked(id)
  /\ result' = Singleton(id, IF Finds(id) THEN NodeRead(id).val ELSE NoVal)
  /\ pc' = "writeback"
  /\ UNCHANGED <<held, fresh, parentPos, evict>>

\* Nothing is stored at this level yet: the identifier looked up is 0.
SearchEmpty ==
  /\ pc = "access"
  /\ DOMAIN parentPos = {}
  /\ pc' = "writeback"
  /\ UNCHANGED <<result, held, fresh, client, evict, server>>

\* client::insert and client::Delete read a node, Delete also its neighbour,
\* and erase it from the cache, two nodes at most.  The local variable starts
\* as a default node with a random position, which a read that finds nothing
\* leaves in place.
TakeNode(id, random) ==
  /\ pc = "access"
  /\ \A x, y \in DOMAIN held : x = y
  /\ id \in DOMAIN parentPos \ DOMAIN held
  /\ ReadBookkeeping(id)
  /\ cache' = Drop(Looked(id), {id})
  /\ held' = Put(held, id, IF Finds(id) THEN NodeRead(id)
                                     ELSE [pos |-> random, val |-> NoVal])
  /\ UNCHANGED <<pc, result, fresh, parentPos, evict>>

-----------------------------------------------------------------------------
(***************************************************************************)
(* Changing the nodes read.  The local nodes become `h`, a node created by *)
(* the change is `f`; Update and Insert of the parent, which the operation *)
(* calls in the same breath, record their names and positions.             *)
(***************************************************************************)
Change(h, f) ==
  /\ pc = "access"
  /\ DOMAIN h \cup DOMAIN f \subseteq Free \cup DOMAIN held
  /\ held' = h
  /\ fresh' = f
  /\ parentPos' = Override(Drop(parentPos, DOMAIN held),
                           [id \in DOMAIN Override(f, h) |-> Override(f, h)[id].pos])
  /\ pc' = "writeback"
  /\ UNCHANGED <<result, cache, modified, leafList, readCnt, evict, server>>

\* The first key: a node is made, none is read.
FirstNode(id, v, random) ==
  /\ DOMAIN parentPos = {}
  /\ Change(NoNodes, Singleton(id, [pos |-> random, val |-> v]))

\* Insert without a split, Delete without a neighbour: one node changes, and
\* so may its greatest key.
ChangeNode(id, new, v) ==
  /\ DOMAIN held = {id}
  /\ Change(Singleton(new, [held[id] EXCEPT !.val = v]), NoNodes)

\* Insert with a split: the node keeps the lower half; the new node has the
\* upper half and either the old greatest key or the inserted one.
SplitNode(id, lo, hi, v, w, random) ==
  /\ DOMAIN held = {id}
  /\ lo \in Free /\ lo # hi
  /\ Change(Singleton(lo, [held[id] EXCEPT !.val = v]),
            Singleton(hi, [pos |-> random, val |-> w]))

\* Delete with a neighbour that gives up an entry, or is only rewritten.
RearrangeNodes(id, nb, new, newNb, v, w) ==
  /\ id # nb /\ DOMAIN held = {id, nb}
  /\ new # newNb
  /\ Change(Put(Singleton(newNb, [held[nb] EXCEPT !.val = w]),
                new, [held[id] EXCEPT !.val = v]), NoNodes)

\* Delete that moves the rest of the node into its neighbour; the emptied
\* node is not written back.
MergeNodes(id, nb, newNb, v) ==
  /\ id # nb /\ DOMAIN held = {id, nb}
  /\ Change(Singleton(newNb, [held[nb] EXCEPT !.val = v]), NoNodes)

-----------------------------------------------------------------------------
(***************************************************************************)
(* Writing back.  Leaves write the old node first, inner nodes the new one *)
(* first; both orders are allowed here.                                    *)
(***************************************************************************)
WriteHeld(id) ==
  /\ pc = "writeback"
  /\ id \in DOMAIN held
  /\ modified' = modified \cup {id}
  /\ cache' = Put(cache, id, held[id])
  /\ held' = Drop(held, {id})
  /\ UNCHANGED <<pc, result, fresh, parentPos, leafList, readCnt, evict, server>>

WriteFresh(id) ==
  /\ pc = "writeback"
  /\ id \in DOMAIN fresh
  /\ modified' = modified \cup {id}
  /\ FetchPath(fresh[id].pos)
  /\ cache' = Put(Fetched(fresh[id].pos), id, fresh[id])
  /\ leafList' = leafList \cup {fresh[id].pos}
  /\ fresh' = Drop(fresh, {id})
  /\ UNCHANGED <<pc, result, held, parentPos, evict>>

-----------------------------------------------------------------------------
(***************************************************************************)
(* client::finish.                                                         *)
(***************************************************************************)
WrittenBack == pc = "writeback" /\ held = NoNodes /\ fresh = NoNodes

\* Mistake: off by one.
FinalizeLeafOnceMore(random) ==
  /\ WrittenBack
  /\ readCnt <= 2
  /\ leafList' = leafList \cup {random}
  /\ FetchPath(random)
  /\ cache' = Fetched(random)
  /\ UNCHANGED <<local, parentPos, modified, evict>>

\* Mistake: a path read as padding is not noted for rewriting.
FinalizeLeafUnlisted(random) ==
  /\ WrittenBack
  /\ readCnt < 2
  /\ FetchPath(random)
  /\ cache' = Fetched(random)
  /\ UNCHANGED <<local, parentPos, modified, leafList, evict>>

\* finalizeleaf: read random paths until two have been read; the index of the
\* code's loop starts from readCntleaf and runs along with it.
FinalizeLeaf(random) ==
  /\ WrittenBack
  /\ readCnt < 2
  /\ leafList' = leafList \cup {random}
  /\ FetchPath(random)
  /\ cache' = Fetched(random)
  /\ UNCHANGED <<local, parentPos, modified, evict>>

\* Mistake: the parents are not told.
RemapUnrecorded ==
  /\ WrittenBack
  /\ readCnt >= 2
  /\ \E random \in [DOMAIN cache \cap modified -> Positions] :
       cache' = [id \in DOMAIN cache |->
                   IF id \in modified THEN [cache[id] EXCEPT !.pos = random[id]]
                                      ELSE cache[id]]
  /\ pc' = "evict"
  /\ UNCHANGED <<result, held, fresh, parentPos, modified, leafList, readCnt,
                 evict, server>>

\* Nodes touched and still cached move to random positions; the parents'
\* entries of all cached nodes are brought up to date.
Remap ==
  /\ WrittenBack
  /\ readCnt >= 2
  /\ \E random \in [DOMAIN cache \cap modified -> Positions] :
       cache' = [id \in DOMAIN cache |->
                   IF id \in modified THEN [cache[id] EXCEPT !.pos = random[id]]
                                      ELSE cache[id]]
  /\ parentPos' = [id \in DOMAIN parentPos |->
                     IF id \in DOMAIN cache THEN cache'[id].pos ELSE parentPos[id]]
  /\ pc' = "evict"
  /\ UNCHANGED <<result, held, fresh, modified, leafList, readCnt, evict, server>>

\* GetIntersectingBlocks3: the cached nodes that may go into bucket b of row d.

\* Mistake: only nodes of this operation are considered.
IntersectingTouched(b, d) ==
  {id \in DOMAIN cache \cap modified : Node(cache[id].pos, d) = b}

Intersecting(b, d) == {id \in DOMAIN cache : Node(cache[id].pos, d) = b}

\* Mistake: what is sent stays in the cache.
WriteLeafPathKeepsCached(leaf, d) ==
  LET b == Node(leaf, d) IN
  /\ pc = "evict"
  /\ leaf \in leafList
  /\ b \notin writeview
  /\ \A l \in leafList, e \in d + 1 .. Depth : Node(l, e) \in writeview
  /\ \E chosen \in SUBSET Intersecting(b, d) :
       /\ \/ Cardinality(chosen) = Z
          \/ Cardinality(chosen) < Z /\ chosen = Intersecting(b, d)
       /\ outbuf' = Put(outbuf, b, Restrict(cache, chosen))
  /\ writeview' = writeview \cup {b}
  /\ UNCHANGED <<local, client, server>>

\* WriteleafPath: refill the bucket of row d on the path of a leaf with as
\* many cached nodes as fit, in the order the hash table yields them.
WriteLeafPath(leaf, d) ==
  LET b == Node(leaf, d) IN
  /\ pc = "evict"
  /\ leaf \in leafList
  /\ b \notin writeview
  /\ \A l \in leafList, e \in d + 1 .. Depth : Node(l, e) \in writeview
  /\ \E chosen \in SUBSET Intersecting(b, d) :
       /\ \/ Cardinality(chosen) = Z
          \/ Cardinality(chosen) < Z /\ chosen = Intersecting(b, d)
       /\ outbuf' = Put(outbuf, b, Restrict(cache, chosen))
       /\ cache' = Drop(cache, chosen)
  /\ writeview' = writeview \cup {b}
  /\ UNCHANGED <<local, parentPos, modified, leafList, readCnt, server>>

\* finalize2leaf: when every row is done the refilled buckets go to the
\* server in one write_bucket call, which overwrites them.
WriteBuckets ==
  /\ pc = "evict"
  /\ UNION {Path(leaf) : leaf \in leafList} \subseteq writeview
  /\ tree' = [b \in Buckets |-> IF b \in DOMAIN outbuf THEN outbuf[b] ELSE tree[b]]
  /\ outbuf' = NoNodes
  /\ leafList' = {} /\ modified' = {}
  /\ pc' = "idle"
  /\ UNCHANGED <<result, held, fresh, parentPos, cache, readCnt, writeview,
                 readview, recvCount>>

-----------------------------------------------------------------------------
Access ==
  \/ SearchEmpty
  \/ \E id \in Ids : SearchNode(id)
  \/ \E id \in Ids, random \in Positions : TakeNode(id, random)
  \/ \E id \in Ids, v \in Vals, random \in Positions : FirstNode(id, v, random)
  \/ \E id, new \in Ids, v \in Vals : ChangeNode(id, new, v)
  \/ \E id, lo, hi \in Ids, v, w \in Vals, random \in Positions :
       SplitNode(id, lo, hi, v, w, random)
  \/ \E id, nb, new, newNb \in Ids, v, w \in Vals :
       RearrangeNodes(id, nb, new, newNb, v, w)
  \/ \E id, nb, newNb \in Ids, v \in Vals : MergeNodes(id, nb, newNb, v)

Finish ==
  \/ \E id \in Ids : WriteHeld(id) \/ WriteFresh(id)
  \/ \E random \in Positions : FinalizeLeaf(random)
  \/ Remap
  \/ \E leaf \in Positions, d \in 0 .. Depth : WriteLeafPath(leaf, d)
  \/ WriteBuckets

Next == PartInit \/ Access \/ Finish

Spec == Init /\ [][Next]_vars

\* The client is a single thread: an operation it has started it carries on
\* with.  Nothing makes it start another one.
FairSpec == Spec /\ WF_vars(Access \/ Finish)

-----------------------------------------------------------------------------
(***************************************************************************)
(* Properties.                                                             *)
(***************************************************************************)

TypeOK ==
  /\ pc \in {"idle", "access", "writeback", "evict"}
  /\ IsMap(result, Ids, Vals \cup {NoVal})
  /\ IsMap(parentPos, Ids, Positions)
  /\ IsNodeMap(cache) /\ IsNodeMap(held) /\ IsNodeMap(fresh)
  /\ modified \subseteq Ids
  /\ leafList \subseteq Positions
  /\ readCnt \in 0 .. 2
  /\ writeview \subseteq Buckets
  /\ DOMAIN outbuf \subseteq Buckets /\ DOMAIN tree = Buckets
  /\ \A b \in DOMAIN outbuf : IsNodeMap(outbuf[b])
  /\ \A b \in Buckets : IsNodeMap(tree[b])
  /\ readview \subseteq Buckets
  /\ recvCount \in {0, 1}

\* Buckets the running operation has been given.  What the server still
\* stores in them is out of date until the operation overwrites it.
Opened == IF pc = "idle" \/ readCnt = 0 THEN {} ELSE readview

\* Where a node is: in a local variable, new, cached, about to be sent, or
\* in a bucket the server has not handed out.
Copies(id) ==
  {<<kind, 0>> : kind \in {k \in {"held", "fresh", "cache"} :
                             \/ k = "held"  /\ id \in DOMAIN held
                             \/ k = "fresh" /\ id \in DOMAIN fresh
                             \/ k = "cache" /\ id \in DOMAIN cache}}
    \cup {<<"outbuf", b>> : b \in {c \in DOMAIN outbuf : id \in DOMAIN outbuf[c]}}
    \cup {<<"tree", b>> : b \in {c \in Buckets \ Opened : id \in DOMAIN tree[c]}}

\* No node is lost and none is there twice: a node the parents name has one
\* copy, any other has none.  A stale copy that survives an operation would
\* come back with a later read and overwrite the cached node.
OneCopy ==
  \A id \in Ids :
    IF id \in DOMAIN parentPos THEN \E place \in Copies(id) : Copies(id) = {place}
                               ELSE Copies(id) = {}

\* A node stored in a bucket, or about to be, is on the path its parent
\* records for it, wherever remapping and eviction have moved it.
OnRecordedPath ==
  \A id \in DOMAIN parentPos :
    /\ id \in DOMAIN cache => cache[id].pos = parentPos[id]
    /\ \A b \in Buckets \ Opened : id \in DOMAIN tree[b] =>
         tree[b][id].pos = parentPos[id] /\ b \in Path(parentPos[id])
    /\ \A b \in DOMAIN outbuf : id \in DOMAIN outbuf[b] =>
         outbuf[b][id].pos = parentPos[id] /\ b \in Path(parentPos[id])

\* The buckets rewritten are the buckets read: a bucket rewritten unread
\* loses its nodes, a bucket read and not rewritten keeps stale copies.  Both
\* sides keep their own list of them, leafList3 here and readviewmap there.
RewritesWhatItRead ==
  /\ Opened = UNION {Path(leaf) : leaf \in leafList}
  /\ IF pc = "evict" THEN DOMAIN outbuf = writeview ELSE outbuf = NoNodes

\* "read overflow!!!": an operation reads two paths, and ends with the
\* server's count of reads even, whatever the cache held.  The next
\* operation depends on it to be given all buckets.
TwoReads ==
  /\ readCnt <= 2
  /\ pc = "evict" => readCnt = 2
  /\ recvCount = IF pc # "idle" /\ readCnt = 1 THEN 1 ELSE 0

\* Eviction is greedy: a refilled bucket with a free slot is one no node left
\* in the cache could have gone to.
GreedyEviction ==
  pc = "evict" =>
    \A b \in DOMAIN outbuf, id \in DOMAIN cache :
      b \in Path(cache[id].pos) => Cardinality(DOMAIN outbuf[b]) >= Z

\* An operation that has begun ends.
OperationsEnd == (pc = "access") ~> (pc = "idle")

-----------------------------------------------------------------------------
(***************************************************************************)
(* The level implements a plain table: reading, padding, remapping and     *)
(* eviction change nothing in it, and a search returns what is in it.      *)
(***************************************************************************)
Content(id) ==
  LET sent   == {b \in DOMAIN outbuf : id \in DOMAIN outbuf[b]}
      onPath == {b \in Path(parentPos[id]) \ Opened : id \in DOMAIN tree[b]}
  IN  IF id \in DOMAIN held  THEN held[id].val
      ELSE IF id \in DOMAIN fresh THEN fresh[id].val
      ELSE IF id \in DOMAIN cache THEN cache[id].val
      ELSE IF sent # {}   THEN outbuf[CHOOSE b \in sent : TRUE][id].val
      ELSE IF onPath # {} THEN tree[CHOOSE b \in onPath : TRUE][id].val
      ELSE NoVal

Store == INSTANCE BlockStore
           WITH table <- [id \in DOMAIN parentPos |-> Content(id)], answer <- result

ImplementsBlockStore == Store!Spec
=============================================================================
