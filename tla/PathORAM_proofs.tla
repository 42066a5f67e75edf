-------------------------- MODULE PathORAM_proofs --------------------------
(***************************************************************************)
(* Proofs about PathORAM for every set of nodes, every depth of the tree   *)
(* and every bucket size.  The inductive invariant IInv says, in terms     *)
(* the provers handle well, where the copies of a node are (Unique, Live), *)
(* that they agree with the parent's record (PosAgree), and what the       *)
(* operation in progress may still read (Phase).                           *)
(***************************************************************************)
EXTENDS PathORAM, OramGeometry_proofs, TLAPS

InTree(id, b) == b \in Buckets \ Opened /\ id \in DOMAIN tree[b]
InOut(id, b)  == b \in DOMAIN outbuf /\ id \in DOMAIN outbuf[b]

Local(id) == id \in DOMAIN held \/ id \in DOMAIN fresh \/ id \in DOMAIN cache

\* A node has at most one copy.
Unique ==
  \A id \in Ids :
    /\ ~(id \in DOMAIN held /\ id \in DOMAIN fresh)
    /\ ~(id \in DOMAIN held /\ id \in DOMAIN cache)
    /\ ~(id \in DOMAIN fresh /\ id \in DOMAIN cache)
    /\ Local(id) => \A b : ~InOut(id, b) /\ ~InTree(id, b)
    /\ \A b, c : /\ ~(InOut(id, b) /\ InTree(id, c))
                 /\ InOut(id, b) /\ InOut(id, c) => b = c
                 /\ InTree(id, b) /\ InTree(id, c) => b = c

\* The nodes that have a copy are those the parents name.
Live ==
  \A id \in Ids :
    id \in DOMAIN parentPos <=> Local(id) \/ \E b : InOut(id, b) \/ InTree(id, b)

\* All copies have the position the parents record and are on its path.
PosAgree ==
  \A id \in DOMAIN parentPos :
    /\ id \in DOMAIN held => held[id].pos = parentPos[id]
    /\ id \in DOMAIN fresh => fresh[id].pos = parentPos[id]
    /\ id \in DOMAIN cache => cache[id].pos = parentPos[id]
    /\ \A b : InOut(id, b) => outbuf[b][id].pos = parentPos[id] /\ b \in Path(parentPos[id])
    /\ \A b : InTree(id, b) => tree[b][id].pos = parentPos[id] /\ b \in Path(parentPos[id])

\* What each stage of an operation leaves in the local variables, and how
\* many of its two reads it may have used.
Phase ==
  /\ pc \in {"idle", "evict"} => DOMAIN held = {}
  /\ pc # "writeback" => DOMAIN fresh = {}
  /\ pc = "idle" => leafList = {}
  /\ pc \in {"access", "writeback"} => writeview = {}
  /\ pc = "evict" => writeview \subseteq Opened
  /\ pc = "access" =>
       /\ DOMAIN held \subseteq DOMAIN parentPos
       /\ DOMAIN held = {} => readCnt = 0
       /\ (\A x, y \in DOMAIN held : x = y) => readCnt <= 1
  /\ \A x, y \in DOMAIN fresh : x = y
  /\ pc = "writeback" /\ DOMAIN fresh # {} => readCnt <= 1

IInv ==
  /\ TypeOK
  /\ Phase
  /\ TwoReads
  /\ RewritesWhatItRead
  /\ Unique
  /\ Live
  /\ PosAgree

-----------------------------------------------------------------------------
LEMMA PathInBuckets ==
  ASSUME NEW leaf \in Positions
  PROVE  Path(leaf) \subseteq Buckets
BY DEF Buckets

\* The initial state satisfies the inductive invariant.
LEMMA InitIInv == Init => IInv
<1> SUFFICES ASSUME Init PROVE IInv
  OBVIOUS
<1>1. TypeOK
  BY DEF Init, TypeOK, IsNodeMap, IsMap, NoNodes, Nodes
<1>2. Phase /\ TwoReads
  BY DEF Init, Phase, TwoReads, NoNodes
<1>3. RewritesWhatItRead
  BY DEF Init, RewritesWhatItRead, Opened, NoNodes
<1>4. Unique /\ Live /\ PosAgree
  BY DEF Init, Unique, Live, PosAgree, Local, InTree, InOut, NoNodes
<1> QED BY <1>1, <1>2, <1>3, <1>4 DEF IInv

(***************************************************************************)
(* Reading.  N is the cache once the reply has been stored in it, R the    *)
(* set of buckets opened.                                                  *)
(***************************************************************************)
Reads(R, N) ==
  /\ IsNodeMap(N)
  /\ \A id \in Ids :
       /\ id \in DOMAIN N <=> id \in DOMAIN cache \/ \E b \in R : InTree(id, b)
       /\ id \in DOMAIN cache => N[id] = cache[id]
       /\ \A b \in R : InTree(id, b) => N[id] = tree[b][id]

\* A path read during an operation brings exactly the nodes of the buckets
\* it opens, and replaces none that was cached.
LEMMA FetchReads ==
  ASSUME IInv, pc \in {"access", "writeback"}, readCnt <= 1,
         NEW leaf \in Positions
  PROVE  Reads(Path(leaf), Fetched(leaf)) /\ HandedOut = Opened
<1>1. HandedOut = Opened
  BY DEF IInv, TwoReads, TypeOK, HandedOut, Opened
<1>2. Path(leaf) \subseteq Buckets
  BY PathInBuckets
<1>3. \A b : b \in Opening(leaf) <=> b \in Path(leaf) /\ b \in Buckets \ Opened
  BY <1>1, <1>2 DEF Opening
<1>4. \A id \in Ids : id \in Received(leaf) <=> \E b \in Path(leaf) : InTree(id, b)
  BY <1>3 DEF Received, InTree
<1>5. Received(leaf) \subseteq Ids
  BY <1>3 DEF Received, IInv, TypeOK, IsNodeMap, IsMap
<1>6. ASSUME NEW id \in Ids, NEW b \in Path(leaf), InTree(id, b)
      PROVE  CopyOf(id, leaf) = tree[b][id]
  <2> DEFINE rows    == {d \in 0 .. Depth : Node(leaf, d) \in Opening(leaf)
                                           /\ id \in DOMAIN tree[Node(leaf, d)]}
             deepest == CHOOSE d \in rows : \A e \in rows : e <= d
  <2>1. \A d \in rows : Node(leaf, d) = b
    BY <1>3, <1>6 DEF IInv, Unique, InTree
  <2>2. rows \subseteq 0 .. Depth /\ rows # {}
    BY <1>3, <1>6 DEF Path, InTree
  <2> HIDE DEF rows
  <2>3. \E d \in rows : \A e \in rows : e <= d
    BY <2>2, GreatestUpTo, ConstantsAssumption
  <2>4. Node(leaf, deepest) = b
    BY <2>1, <2>3
  <2>5. CopyOf(id, leaf) = tree[Node(leaf, deepest)][id]
    BY DEF CopyOf, rows
  <2> QED BY <2>4, <2>5
<1>7. ASSUME NEW id \in Received(leaf) PROVE CopyOf(id, leaf) \in Nodes
  <2>1. PICK b \in Path(leaf) : InTree(id, b)
    BY <1>4, <1>5
  <2> QED BY <2>1, <1>5, <1>6 DEF InTree, IInv, TypeOK, IsNodeMap, IsMap
<1>8. IsNodeMap(Fetched(leaf))
  BY <1>5, <1>7 DEF Fetched, Override, IInv, TypeOK, IsNodeMap, IsMap
<1>9. ASSUME NEW id \in Ids, id \in DOMAIN cache
      PROVE  id \notin Received(leaf)
  BY <1>4, <1>9 DEF IInv, Unique, Local
<1> QED BY <1>1, <1>4, <1>5, <1>6, <1>8, <1>9 DEF Reads, Fetched, Override

\* What a read leaves: every node still has one copy, where the buckets
\* opened no longer count and N stands for the cache.
ReadKeeps(R, N) ==
  \A id \in Ids :
    /\ id \in DOMAIN N =>
         /\ id \notin DOMAIN held /\ id \notin DOMAIN fresh
         /\ \A b : ~InOut(id, b) /\ (InTree(id, b) => b \in R)
    /\ id \in DOMAIN parentPos <=>
         \/ id \in DOMAIN held \/ id \in DOMAIN fresh \/ id \in DOMAIN N
         \/ \E b : InOut(id, b) \/ (InTree(id, b) /\ b \notin R)
    /\ id \in DOMAIN parentPos /\ id \in DOMAIN N => N[id].pos = parentPos[id]

LEMMA ReadsKeep ==
  ASSUME IInv, NEW R, NEW N, Reads(R, N)
  PROVE  ReadKeeps(R, N)
<1> SUFFICES ASSUME NEW id \in Ids
             PROVE  /\ id \in DOMAIN N =>
                         /\ id \notin DOMAIN held /\ id \notin DOMAIN fresh
                         /\ \A b : ~InOut(id, b) /\ (InTree(id, b) => b \in R)
                    /\ id \in DOMAIN parentPos <=>
                         \/ id \in DOMAIN held \/ id \in DOMAIN fresh \/ id \in DOMAIN N
                         \/ \E b : InOut(id, b) \/ (InTree(id, b) /\ b \notin R)
                    /\ id \in DOMAIN parentPos /\ id \in DOMAIN N =>
                         N[id].pos = parentPos[id]
  BY DEF ReadKeeps
<1>1. id \in DOMAIN N <=> id \in DOMAIN cache \/ \E b \in R : InTree(id, b)
  BY DEF Reads
<1>2. ASSUME id \in DOMAIN N
      PROVE  /\ id \notin DOMAIN held /\ id \notin DOMAIN fresh
             /\ \A b : ~InOut(id, b) /\ (InTree(id, b) => b \in R)
  <2>1. CASE id \in DOMAIN cache
    BY <2>1 DEF IInv, Unique, Local
  <2>2. CASE \E b \in R : InTree(id, b)
    BY <2>2 DEF IInv, Unique, Local
  <2> QED BY <1>1, <1>2, <2>1, <2>2
<1>3. id \in DOMAIN parentPos <=>
         \/ id \in DOMAIN held \/ id \in DOMAIN fresh \/ id \in DOMAIN N
         \/ \E b : InOut(id, b) \/ (InTree(id, b) /\ b \notin R)
  BY <1>1 DEF IInv, Live, Local
<1>4. id \in DOMAIN parentPos /\ id \in DOMAIN N => N[id].pos = parentPos[id]
  BY <1>1 DEF IInv, PosAgree, Reads
<1> QED BY <1>2, <1>3, <1>4

\* Reading a node finds it, and opens a set R of buckets that the list of
\* leaves to rewrite covers.
NodeReads(id, R) ==
  /\ R \subseteq Buckets
  /\ Reads(R, Looked(id))
  /\ Finds(id)
  /\ tree' = tree
  /\ modified' \subseteq Ids
  /\ leafList' \subseteq Positions
  /\ UNION {Path(leaf) : leaf \in leafList'} = Opened \cup R
  /\ \/ R = {} /\ readCnt' = readCnt /\ UNCHANGED <<readview, recvCount>>
     \/ readCnt' = readCnt + 1 /\ readview' = Opened \cup R /\ recvCount' = 1 - recvCount

LEMMA NodeIsRead ==
  ASSUME IInv, pc = "access", \A x, y \in DOMAIN held : x = y,
         NEW id \in DOMAIN parentPos \ DOMAIN held, ReadBookkeeping(id)
  PROVE  \E R : NodeReads(id, R)
<1>0. id \in Ids /\ parentPos[id] \in Positions
  BY DEF IInv, TypeOK, IsMap
<1>1. CASE id \in DOMAIN cache
  <2>1. Reads({}, cache)
    BY DEF Reads, IInv, TypeOK
  <2>2. NodeReads(id, {})
    BY <1>0, <1>1, <2>1 DEF NodeReads, Looked, Finds, ReadBookkeeping, server, IInv, TypeOK,
                            RewritesWhatItRead
  <2> QED BY <2>2
<1>2. CASE id \notin DOMAIN cache
  <2> DEFINE leaf == parentPos[id]
  <2>1. readCnt <= 1
    BY DEF IInv, Phase
  <2>2. Reads(Path(leaf), Fetched(leaf)) /\ HandedOut = Opened
    BY <1>0, <2>1, FetchReads
  <2>3. id \in DOMAIN Fetched(leaf)
    <3>1. ~Local(id)
      BY <1>2 DEF Local, IInv, Phase
    <3>2. \A b : ~InOut(id, b)
      BY DEF InOut, IInv, RewritesWhatItRead, NoNodes
    <3>3. PICK b : InTree(id, b)
      BY <1>0, <3>1, <3>2 DEF IInv, Live
    <3>4. b \in Path(leaf)
      BY <3>3 DEF IInv, PosAgree
    <3> QED BY <1>0, <2>2, <3>3, <3>4 DEF Reads
  <2>4. Looked(id) = Fetched(leaf) /\ Finds(id)
    BY <1>2, <2>3 DEF Looked, Finds
  <2>5. leafList' = leafList \cup {leaf} /\ modified' = modified \cup {id}
    BY <1>2, <2>4 DEF ReadBookkeeping
  <2>6. UNION {Path(l) : l \in leafList'} = Opened \cup Path(leaf)
    BY <2>5 DEF IInv, RewritesWhatItRead
  <2>7. FetchPath(leaf)
    BY <1>2 DEF ReadBookkeeping
  <2>8. NodeReads(id, Path(leaf))
    BY <1>0, <2>2, <2>4, <2>5, <2>6, <2>7, PathInBuckets DEF NodeReads, FetchPath, IInv, TypeOK
  <2> QED BY <2>8
<1> QED BY <1>1, <1>2

(***************************************************************************)
(* Every action preserves the inductive invariant.                         *)
(***************************************************************************)
LEMMA PartInitStep == IInv /\ PartInit => IInv'
<1> SUFFICES ASSUME IInv, PartInit PROVE IInv'
  OBVIOUS
<1>1. Opened' = {} /\ Opened = {}
  BY DEF PartInit, Opened
<1>2. TypeOK' /\ Phase' /\ TwoReads'
  BY DEF IInv, TypeOK, Phase, TwoReads, PartInit, server, NoNodes, IsNodeMap, IsMap
<1>3. RewritesWhatItRead'
  BY <1>1 DEF IInv, RewritesWhatItRead, PartInit, Phase
<1>4. Unique' /\ Live' /\ PosAgree'
  BY <1>1 DEF IInv, Unique, Live, PosAgree, Local, InTree, InOut, PartInit, server
<1> QED BY <1>2, <1>3, <1>4 DEF IInv

LEMMA SearchEmptyStep == IInv /\ SearchEmpty => IInv'
<1> SUFFICES ASSUME IInv, SearchEmpty PROVE IInv'
  OBVIOUS
<1> USE DEF client, server, evict
<1>1. Opened' = Opened
  BY DEF SearchEmpty, Opened
<1>2. TypeOK' /\ Phase' /\ TwoReads'
  BY DEF IInv, TypeOK, Phase, TwoReads, SearchEmpty, IsNodeMap, IsMap
<1>3. RewritesWhatItRead'
  BY <1>1 DEF IInv, RewritesWhatItRead, SearchEmpty
<1>4. Unique' /\ Live' /\ PosAgree'
  BY <1>1 DEF IInv, Unique, Live, PosAgree, Local, InTree, InOut, SearchEmpty
<1> QED BY <1>2, <1>3, <1>4 DEF IInv

LEMMA SearchNodeStep == ASSUME NEW id \in Ids, IInv, SearchNode(id) PROVE IInv'
<1>1. PICK R : NodeReads(id, R)
  BY NodeIsRead DEF SearchNode, NoNodes
<1> DEFINE N == Looked(id)
<1>2. ReadKeeps(R, N)
  BY <1>1, ReadsKeep DEF NodeReads
<1>3. Opened' = Opened \cup R
  BY <1>1 DEF NodeReads, Opened, SearchNode, IInv, TypeOK, Phase, NoNodes
<1>4. parentPos[id] \in Positions /\ N[id].pos = parentPos[id] /\ N[id] \in Nodes
  BY <1>1, <1>2 DEF NodeReads, Finds, ReadKeeps, SearchNode, IInv, TypeOK, Reads, IsNodeMap, IsMap
<1>5. NodeRead(id) = N[id] /\ N[id].val \in Vals
  BY <1>4 DEF NodeRead, Nodes
<1>6. cache' = N
  <2>1. id \in DOMAIN N /\ N = [x \in DOMAIN N |-> N[x]]
    BY <1>1 DEF NodeReads, Reads, Finds, IsNodeMap, IsMap
  <2>2. Put(N, id, N[id]) = N
    <3> HIDE DEF N
    <3> QED BY <2>1 DEF Put
  <2> QED BY <1>1, <1>5, <2>2 DEF SearchNode, NodeReads
<1>7. TypeOK'
  <2>1. IsMap(result', Ids, Vals \cup {NoVal})
    BY <1>1, <1>5 DEF NodeReads, SearchNode, Singleton, IsMap
  <2>2. IsNodeMap(cache')
    BY <1>1, <1>6 DEF NodeReads, Reads
  <2>3. readCnt' \in 0 .. 2 /\ recvCount' \in {0, 1}
    BY <1>1 DEF NodeReads, IInv, Phase, SearchNode, TypeOK, NoNodes
  <2> QED
    BY <1>1, <2>1, <2>2, <2>3, Opened \subseteq Buckets
       DEF NodeReads, IInv, TypeOK, SearchNode, evict, Opened
<1>8. Phase' /\ TwoReads'
  BY <1>1 DEF NodeReads, IInv, Phase, TwoReads, TypeOK, SearchNode, NoNodes, evict
<1>9. RewritesWhatItRead'
  BY <1>1, <1>3 DEF NodeReads, IInv, RewritesWhatItRead, SearchNode, evict, Phase
<1>10. \A x, b : (InTree(x, b)' <=> InTree(x, b) /\ b \notin R) /\ (InOut(x, b)' <=> InOut(x, b))
  BY <1>1, <1>3 DEF InTree, InOut, NodeReads, SearchNode, evict
<1>11. Unique' /\ Live'
  BY <1>2, <1>6, <1>10 DEF ReadKeeps, IInv, Unique, Live, Local, SearchNode
<1>12. PosAgree'
  BY <1>1, <1>2, <1>6, <1>10
     DEF ReadKeeps, IInv, PosAgree, SearchNode, NodeReads, evict, TypeOK, IsMap
<1> QED BY <1>7, <1>8, <1>9, <1>11, <1>12 DEF IInv

LEMMA TakeNodeStep ==
  ASSUME NEW id \in Ids, NEW random \in Positions, IInv, TakeNode(id, random)
  PROVE  IInv'
<1>1. PICK R : NodeReads(id, R)
  BY NodeIsRead DEF TakeNode
<1> DEFINE N == Looked(id)
<1>2. ReadKeeps(R, N)
  BY <1>1, ReadsKeep DEF NodeReads
<1>3. Opened' = Opened \cup R
  BY <1>1 DEF NodeReads, Opened, TakeNode, IInv, TypeOK, Phase
<1>4. parentPos[id] \in Positions /\ N[id].pos = parentPos[id] /\ N[id] \in Nodes
  BY <1>1, <1>2 DEF NodeReads, Finds, ReadKeeps, TakeNode, IInv, TypeOK, Reads, IsNodeMap, IsMap
<1>5. NodeRead(id) = N[id]
  BY <1>4 DEF NodeRead, Nodes
<1>6. held' = Put(held, id, N[id]) /\ cache' = Drop(N, {id})
  BY <1>1, <1>5 DEF TakeNode, NodeReads
<1>7. TypeOK'
  <2>1. IsNodeMap(held') /\ IsNodeMap(cache')
    BY <1>1, <1>4, <1>6 DEF NodeReads, Reads, IInv, TypeOK, IsNodeMap, IsMap, Put, Drop
  <2>2. readCnt' \in 0 .. 2
    BY <1>1 DEF NodeReads, IInv, Phase, TakeNode, TypeOK
  <2> QED
    BY <1>1, <2>1, <2>2, Opened \subseteq Buckets
       DEF NodeReads, IInv, TypeOK, TakeNode, evict, Opened
<1>8. Phase' /\ TwoReads'
  <2>1. DOMAIN held' = DOMAIN held \cup {id}
    BY <1>6 DEF Put
  <2>2. DOMAIN held = {} \/ ~(\A x, y \in DOMAIN held' : x = y)
    BY <2>1 DEF TakeNode
  <2>3. readCnt' <= 2 /\ (DOMAIN held = {} => readCnt' <= 1)
    BY <1>1 DEF NodeReads, IInv, Phase, TakeNode, TypeOK
  <2>4. Phase'
    <3>1. pc' = "access" /\ writeview' = writeview /\ fresh' = fresh
      BY DEF TakeNode, IInv, evict
    <3>2. DOMAIN fresh' = {} /\ writeview' = {} /\ DOMAIN held' \subseteq DOMAIN parentPos'
      BY <2>1, <3>1 DEF TakeNode, IInv, Phase
    <3>3. pc' \notin {"idle", "evict", "writeback"}
      BY <3>1
    <3> QED BY <2>1, <2>2, <2>3, <3>1, <3>2, <3>3 DEF Phase
  <2>5. TwoReads'
    BY <1>1, <2>3 DEF NodeReads, IInv, Phase, TwoReads, TypeOK, TakeNode
  <2> QED BY <2>4, <2>5
<1>9. RewritesWhatItRead'
  BY <1>1, <1>3 DEF NodeReads, IInv, RewritesWhatItRead, TakeNode, evict, Phase
<1>10. \A x, b : (InTree(x, b)' <=> InTree(x, b) /\ b \notin R) /\ (InOut(x, b)' <=> InOut(x, b))
  BY <1>1, <1>3 DEF InTree, InOut, NodeReads, TakeNode, evict
<1>11. /\ DOMAIN held' = DOMAIN held \cup {id} /\ DOMAIN cache' = DOMAIN N \ {id}
       /\ fresh' = fresh /\ parentPos' = parentPos /\ id \in DOMAIN N
  BY <1>1, <1>6 DEF Put, Drop, TakeNode, NodeReads, Finds
<1>12. Unique' /\ Live'
  BY <1>2, <1>10, <1>11 DEF ReadKeeps, IInv, Unique, Live, Local
<1>13. PosAgree'
  BY <1>1, <1>2, <1>4, <1>6, <1>10, <1>11
     DEF ReadKeeps, IInv, PosAgree, TakeNode, NodeReads, evict, TypeOK, IsMap, Put, Drop
<1> QED BY <1>7, <1>8, <1>9, <1>12, <1>13 DEF IInv

\* Any change of the nodes read: their copies are replaced by copies of the
\* new nodes, and the parents' records with them.
LEMMA ChangeStep ==
  ASSUME IInv, NEW h, NEW f, IsNodeMap(h), IsNodeMap(f),
         DOMAIN h \cap DOMAIN f = {},
         \A x, y \in DOMAIN f : x = y,
         DOMAIN f # {} => readCnt <= 1,
         Change(h, f)
  PROVE  IInv'
<1> USE DEF evict, server
<1>1. Opened' = Opened
  BY DEF Change, Opened
<1>2. /\ DOMAIN parentPos' = (DOMAIN parentPos \ DOMAIN held) \cup DOMAIN h \cup DOMAIN f
      /\ \A id \in DOMAIN parentPos \ DOMAIN held :
           id \notin DOMAIN h \cup DOMAIN f => parentPos'[id] = parentPos[id]
      /\ \A id \in DOMAIN h : parentPos'[id] = h[id].pos
      /\ \A id \in DOMAIN f : parentPos'[id] = f[id].pos
  BY DEF Change, Override, Drop
<1>3. TypeOK'
  <2>1. parentPos' \in [DOMAIN parentPos' -> Positions]
    <3>1. \A id \in DOMAIN parentPos' : parentPos'[id] \in Positions
      BY <1>2 DEF IsNodeMap, IsMap, Nodes, IInv, TypeOK
    <3>2. parentPos' = [id \in DOMAIN parentPos' |-> parentPos'[id]]
      BY DEF Change, Override
    <3> QED BY <3>1, <3>2
  <2>2. DOMAIN parentPos' \subseteq Ids
    BY <1>2 DEF IsNodeMap, IsMap, IInv, TypeOK
  <2> QED BY <2>1, <2>2 DEF IInv, TypeOK, Change, IsMap, IsNodeMap
<1>4. Phase' /\ TwoReads'
  BY DEF IInv, Phase, TwoReads, TypeOK, Change
<1>5. RewritesWhatItRead'
  BY <1>1 DEF IInv, RewritesWhatItRead, Change, Phase
<1>6. \A x, b : (InTree(x, b)' <=> InTree(x, b)) /\ (InOut(x, b)' <=> InOut(x, b))
  BY <1>1 DEF InTree, InOut, Change
<1>7. /\ held' = h /\ fresh' = f /\ cache' = cache /\ DOMAIN fresh = {}
      /\ DOMAIN h \cup DOMAIN f \subseteq (Ids \ DOMAIN parentPos) \cup DOMAIN held
      /\ DOMAIN held \subseteq DOMAIN parentPos
  BY DEF Change, Free, IInv, Phase
<1>8. ASSUME NEW id \in Ids
      PROVE  /\ id \in DOMAIN h \cup DOMAIN f =>
                  id \notin DOMAIN cache /\ \A b : ~InTree(id, b) /\ ~InOut(id, b)
             /\ id \in DOMAIN held =>
                  id \notin DOMAIN cache /\ \A b : ~InTree(id, b) /\ ~InOut(id, b)
  BY <1>7 DEF IInv, Unique, Live, Local
<1>9. Unique'
  BY <1>6, <1>7, <1>8 DEF IInv, Unique, Local
<1>10. Live'
  BY <1>2, <1>6, <1>7, <1>8 DEF IInv, Live, Local
<1>11. PosAgree'
  <2> SUFFICES ASSUME NEW id \in DOMAIN parentPos'
               PROVE  /\ id \in DOMAIN h => h[id].pos = parentPos'[id]
                      /\ id \in DOMAIN f => f[id].pos = parentPos'[id]
                      /\ id \in DOMAIN cache => cache[id].pos = parentPos'[id]
                      /\ \A b : InOut(id, b) => /\ outbuf[b][id].pos = parentPos'[id]
                                                /\ b \in Path(parentPos'[id])
                      /\ \A b : InTree(id, b) => /\ tree[b][id].pos = parentPos'[id]
                                                 /\ b \in Path(parentPos'[id])
    BY <1>6, <1>7 DEF PosAgree, Change
  <2>1. id \in Ids
    BY <1>3 DEF TypeOK, IsMap
  <2>2. CASE id \in DOMAIN h \cup DOMAIN f
    BY <1>2, <1>8, <2>1, <2>2
  <2>3. CASE id \notin DOMAIN h \cup DOMAIN f
    BY <1>2, <2>3 DEF IInv, PosAgree
  <2> QED BY <2>2, <2>3
<1> QED BY <1>3, <1>4, <1>5, <1>9, <1>10, <1>11 DEF IInv

LEMMA NodeMapFacts ==
  /\ IsNodeMap(NoNodes) /\ DOMAIN NoNodes = {}
  /\ \A id \in Ids, n \in Nodes :
       IsNodeMap(Singleton(id, n)) /\ DOMAIN Singleton(id, n) = {id}
  /\ \A id, new \in Ids, m, n \in Nodes :
       IsNodeMap(Put(Singleton(id, m), new, n))
BY DEF NoNodes, IsNodeMap, IsMap, Singleton, Put

LEMMA ChangeNodesStep ==
  ASSUME IInv,
         NEW id \in Ids, NEW nb \in Ids, NEW new \in Ids, NEW newNb \in Ids,
         NEW v \in Vals, NEW w \in Vals, NEW random \in Positions,
         \/ FirstNode(id, v, random)
         \/ ChangeNode(id, new, v)
         \/ SplitNode(id, new, newNb, v, w, random)
         \/ RearrangeNodes(id, nb, new, newNb, v, w)
         \/ MergeNodes(id, nb, newNb, v)
  PROVE  IInv'
<1>1. \A x \in DOMAIN held, u \in Vals : [held[x] EXCEPT !.val = u] \in Nodes
  BY DEF IInv, TypeOK, IsNodeMap, IsMap, Nodes
<1>2. [pos |-> random, val |-> v] \in Nodes /\ [pos |-> random, val |-> w] \in Nodes
  BY DEF Nodes
<1>3. CASE FirstNode(id, v, random)
  <2>1. pc = "access" /\ DOMAIN held = {}
    BY <1>3 DEF FirstNode, Change, IInv, Phase
  <2>2. readCnt <= 1
    BY <2>1 DEF IInv, Phase
  <2> QED BY <1>2, <1>3, <2>2, NodeMapFacts, ChangeStep DEF FirstNode
<1>4. CASE ChangeNode(id, new, v)
  BY <1>1, <1>4, NodeMapFacts, ChangeStep DEF ChangeNode
<1>5. CASE SplitNode(id, new, newNb, v, w, random)
  <2>1. pc = "access" /\ \A x, y \in DOMAIN held : x = y
    BY <1>5 DEF SplitNode, Change
  <2>2. readCnt <= 1
    BY <2>1 DEF IInv, Phase
  <2> DEFINE h == Singleton(new, [held[id] EXCEPT !.val = v])
             f == Singleton(newNb, [pos |-> random, val |-> w])
  <2>3. /\ IsNodeMap(h) /\ IsNodeMap(f)
        /\ DOMAIN h = {new} /\ DOMAIN f = {newNb} /\ new # newNb
    BY <1>1, <1>2, <1>5, NodeMapFacts DEF SplitNode
  <2>4. Change(h, f)
    BY <1>5 DEF SplitNode
  <2> QED
    <3> HIDE DEF h, f
    <3> QED BY <2>2, <2>3, <2>4, ChangeStep
<1>6. CASE RearrangeNodes(id, nb, new, newNb, v, w)
  BY <1>1, <1>6, NodeMapFacts, ChangeStep DEF RearrangeNodes
<1>7. CASE MergeNodes(id, nb, newNb, v)
  BY <1>1, <1>7, NodeMapFacts, ChangeStep DEF MergeNodes
<1> QED BY <1>3, <1>4, <1>5, <1>6, <1>7

LEMMA WriteHeldStep == ASSUME NEW id \in Ids, IInv, WriteHeld(id) PROVE IInv'
<1> USE DEF evict, server
<1>1. Opened' = Opened
  BY DEF WriteHeld, Opened
<1>2. TypeOK'
  BY DEF IInv, TypeOK, WriteHeld, IsNodeMap, IsMap, Put, Drop
<1>3. Phase' /\ TwoReads'
  BY DEF IInv, Phase, TwoReads, WriteHeld
<1>4. RewritesWhatItRead'
  BY <1>1 DEF IInv, RewritesWhatItRead, WriteHeld
<1>5. \A x, b : (InTree(x, b)' <=> InTree(x, b)) /\ (InOut(x, b)' <=> InOut(x, b))
  BY <1>1 DEF InTree, InOut, WriteHeld
<1>6. /\ DOMAIN held' = DOMAIN held \ {id} /\ DOMAIN cache' = DOMAIN cache \cup {id}
      /\ id \in DOMAIN held /\ fresh' = fresh /\ parentPos' = parentPos
  BY DEF WriteHeld, Put, Drop
<1>7. Unique' /\ Live'
  BY <1>5, <1>6 DEF IInv, Unique, Live, Local
<1>8. PosAgree'
  BY <1>5, <1>6 DEF IInv, PosAgree, WriteHeld, Put, Drop
<1> QED BY <1>2, <1>3, <1>4, <1>7, <1>8 DEF IInv

LEMMA WriteFreshStep == ASSUME NEW id \in Ids, IInv, WriteFresh(id) PROVE IInv'
<1> DEFINE leaf == fresh[id].pos
           N == Fetched(leaf)
<1> USE DEF evict
<1>1. leaf \in Positions /\ fresh[id] \in Nodes /\ readCnt <= 1 /\ id \in DOMAIN fresh
  BY DEF WriteFresh, IInv, TypeOK, Phase, IsNodeMap, IsMap, Nodes
<1>2. Reads(Path(leaf), N) /\ HandedOut = Opened
  BY <1>1, FetchReads DEF WriteFresh
<1>3. ReadKeeps(Path(leaf), N)
  BY <1>2, ReadsKeep
<1>4. Opened' = Opened \cup Path(leaf)
  BY <1>2 DEF Opened, WriteFresh, FetchPath, IInv, TypeOK
<1>5. Path(leaf) \subseteq Buckets /\ Opened \subseteq Buckets
  BY <1>1, PathInBuckets DEF IInv, TypeOK, Opened
<1>6. TypeOK'
  <2>1. IsNodeMap(cache') /\ IsNodeMap(fresh')
    BY <1>1, <1>2 DEF WriteFresh, IInv, TypeOK, IsNodeMap, IsMap, Put, Drop, Reads
  <2>2. readCnt' \in 0 .. 2 /\ recvCount' \in {0, 1}
    BY <1>1 DEF WriteFresh, FetchPath, IInv, TypeOK
  <2> QED
    BY <1>1, <1>2, <1>5, <2>1, <2>2 DEF WriteFresh, FetchPath, IInv, TypeOK
<1>7. /\ DOMAIN fresh' = {} /\ DOMAIN cache' = DOMAIN N \cup {id}
      /\ held' = held /\ parentPos' = parentPos
  BY DEF WriteFresh, Put, Drop, IInv, Phase
<1>8. Phase' /\ TwoReads'
  <2>1. /\ readCnt \in {0, 1} /\ recvCount = readCnt
        /\ readCnt' = readCnt + 1 /\ recvCount' = 1 - recvCount
    BY <1>1 DEF IInv, TwoReads, TypeOK, WriteFresh, FetchPath
  <2>2. pc' = "writeback" /\ DOMAIN fresh' = {} /\ writeview' = {}
    BY <1>7 DEF WriteFresh, IInv, Phase
  <2>3. TwoReads'
    BY <2>1, <2>2 DEF TwoReads
  <2>4. Phase'
    BY <2>2 DEF Phase
  <2> QED BY <2>3, <2>4
<1>9. RewritesWhatItRead'
  BY <1>4 DEF IInv, RewritesWhatItRead, WriteFresh
<1>10. \A x, b : /\ InTree(x, b)' <=> InTree(x, b) /\ b \notin Path(leaf)
                 /\ InOut(x, b)' <=> InOut(x, b)
  BY <1>4 DEF InTree, InOut, WriteFresh, FetchPath
<1>11. \A x \in DOMAIN fresh : x = id
  BY <1>1 DEF IInv, Phase
<1>12. Unique' /\ Live'
  BY <1>1, <1>3, <1>7, <1>10, <1>11 DEF ReadKeeps, IInv, Unique, Live, Local
<1>13. PosAgree'
  BY <1>1, <1>3, <1>7, <1>10
     DEF ReadKeeps, IInv, PosAgree, WriteFresh, FetchPath, TypeOK, IsMap, Put
<1> QED BY <1>6, <1>8, <1>9, <1>12, <1>13 DEF IInv

LEMMA FinalizeLeafStep ==
  ASSUME NEW random \in Positions, IInv, FinalizeLeaf(random) PROVE IInv'
<1> DEFINE N == Fetched(random)
<1> USE DEF evict, local
<1>1. readCnt <= 1 /\ pc = "writeback" /\ DOMAIN held = {} /\ DOMAIN fresh = {}
  BY DEF FinalizeLeaf, WrittenBack, NoNodes, IInv, TypeOK
<1>2. Reads(Path(random), N) /\ HandedOut = Opened
  BY <1>1, FetchReads
<1>3. ReadKeeps(Path(random), N)
  BY <1>2, ReadsKeep
<1>4. Opened' = Opened \cup Path(random)
  BY <1>1, <1>2 DEF Opened, FinalizeLeaf, FetchPath, IInv, TypeOK
<1>5. Path(random) \subseteq Buckets /\ Opened \subseteq Buckets
  BY PathInBuckets DEF IInv, TypeOK, Opened
<1>6. TypeOK'
  <2>1. readCnt' \in 0 .. 2 /\ recvCount' \in {0, 1}
    BY <1>1 DEF FinalizeLeaf, FetchPath, IInv, TypeOK
  <2> QED BY <1>2, <1>5, <2>1 DEF FinalizeLeaf, FetchPath, IInv, TypeOK, Reads
<1>7. Phase' /\ TwoReads'
  <2>1. /\ readCnt \in {0, 1} /\ recvCount = readCnt
        /\ readCnt' = readCnt + 1 /\ recvCount' = 1 - recvCount
    BY <1>1 DEF IInv, TwoReads, TypeOK, FinalizeLeaf, FetchPath
  <2>2. pc' = pc /\ held' = held /\ fresh' = fresh /\ writeview' = {}
    BY <1>1 DEF FinalizeLeaf, IInv, Phase
  <2>3. TwoReads'
    BY <1>1, <2>1, <2>2 DEF TwoReads
  <2>4. Phase'
    BY <1>1, <2>2 DEF Phase
  <2> QED BY <2>3, <2>4
<1>8. RewritesWhatItRead'
  BY <1>4 DEF IInv, RewritesWhatItRead, FinalizeLeaf
<1>9. \A x, b : /\ InTree(x, b)' <=> InTree(x, b) /\ b \notin Path(random)
                /\ InOut(x, b)' <=> InOut(x, b)
  BY <1>4 DEF InTree, InOut, FinalizeLeaf, FetchPath
<1>10. Unique' /\ Live'
  BY <1>3, <1>9 DEF ReadKeeps, IInv, Unique, Live, Local, FinalizeLeaf
<1>11. PosAgree'
  BY <1>3, <1>9 DEF ReadKeeps, IInv, PosAgree, FinalizeLeaf, FetchPath, TypeOK, IsMap
<1> QED BY <1>6, <1>7, <1>8, <1>10, <1>11 DEF IInv

LEMMA RemapStep == IInv /\ Remap => IInv'
<1> SUFFICES ASSUME IInv, Remap PROVE IInv'
  OBVIOUS
<1> USE DEF evict, server
<1>1. PICK random \in [DOMAIN cache \cap modified -> Positions] :
        cache' = [id \in DOMAIN cache |->
                    IF id \in modified THEN [cache[id] EXCEPT !.pos = random[id]]
                                       ELSE cache[id]]
  BY DEF Remap
<1>2. DOMAIN cache' = DOMAIN cache /\ DOMAIN parentPos' = DOMAIN parentPos
  BY <1>1 DEF Remap
<1>3. /\ DOMAIN held = {} /\ DOMAIN fresh = {} /\ held' = held /\ fresh' = fresh
      /\ pc = "writeback" /\ pc' = "evict"
  BY DEF Remap, WrittenBack, NoNodes
<1>4. IsNodeMap(cache')
  <2>1. \A id \in DOMAIN cache : cache'[id] \in Nodes
    BY <1>1 DEF IInv, TypeOK, IsNodeMap, IsMap, Nodes
  <2> QED BY <1>1, <2>1 DEF IInv, TypeOK, IsNodeMap, IsMap
<1>5. IsMap(parentPos', Ids, Positions)
  <2>1. \A id \in DOMAIN parentPos : parentPos'[id] \in Positions
    BY <1>2, <1>4 DEF Remap, IInv, TypeOK, IsNodeMap, IsMap, Nodes
  <2> QED BY <1>2, <2>1 DEF Remap, IInv, TypeOK, IsMap
<1>6. TypeOK' /\ Phase' /\ TwoReads'
  BY <1>3, <1>4, <1>5 DEF IInv, TypeOK, Phase, TwoReads, Remap
<1>7. Opened' = Opened
  BY <1>3 DEF Remap, Opened
<1>8. writeview = {} /\ RewritesWhatItRead'
  BY <1>3, <1>7 DEF IInv, Phase, RewritesWhatItRead, Remap, NoNodes
<1>9. \A x, b : (InTree(x, b)' <=> InTree(x, b)) /\ (InOut(x, b)' <=> InOut(x, b))
  BY <1>7 DEF InTree, InOut, Remap
<1>10. Unique' /\ Live'
  BY <1>2, <1>3, <1>9 DEF IInv, Unique, Live, Local
<1>11. \A id \in DOMAIN parentPos :
         /\ id \in DOMAIN cache => parentPos'[id] = cache'[id].pos
         /\ id \notin DOMAIN cache => parentPos'[id] = parentPos[id]
  BY DEF Remap
<1>12. PosAgree'
  <2> SUFFICES ASSUME NEW id \in DOMAIN parentPos
               PROVE  /\ id \in DOMAIN cache => cache'[id].pos = parentPos'[id]
                      /\ \A b : ~InOut(id, b)
                      /\ \A b : InTree(id, b) => /\ tree[b][id].pos = parentPos'[id]
                                                 /\ b \in Path(parentPos'[id])
    BY <1>2, <1>3, <1>9 DEF PosAgree, Remap
  <2>1. \A b : ~InOut(id, b)
    BY <1>3 DEF InOut, IInv, RewritesWhatItRead, NoNodes
  <2>2. CASE id \in DOMAIN cache
    BY <1>11, <2>1, <2>2 DEF IInv, Unique, Local, TypeOK, IsMap
  <2>3. CASE id \notin DOMAIN cache
    BY <1>11, <2>1, <2>3 DEF IInv, PosAgree
  <2> QED BY <2>2, <2>3
<1> QED BY <1>6, <1>8, <1>10, <1>12 DEF IInv

LEMMA WriteLeafPathStep ==
  ASSUME NEW leaf \in Positions, NEW d \in 0 .. Depth, IInv, WriteLeafPath(leaf, d)
  PROVE  IInv'
<1> DEFINE b == Node(leaf, d)
<1> USE DEF local, server
<1>1. PICK chosen \in SUBSET Intersecting(b, d) :
        /\ outbuf' = Put(outbuf, b, Restrict(cache, chosen))
        /\ cache' = Drop(cache, chosen)
  BY DEF WriteLeafPath
<1>2. pc = "evict" /\ leaf \in leafList /\ b \notin writeview /\ writeview' = writeview \cup {b}
  BY DEF WriteLeafPath
<1>3. b \in Path(leaf) /\ b \in Buckets
  BY PathInBuckets DEF Path
<1>4. \A id \in chosen : id \in DOMAIN cache /\ b \in Path(cache[id].pos)
  BY DEF Intersecting, Path
<1> HIDE DEF b
<1>5. Opened' = Opened
  BY DEF WriteLeafPath, Opened
<1>6. /\ DOMAIN cache' = DOMAIN cache \ chosen
      /\ \A id \in DOMAIN cache' : cache'[id] = cache[id]
      /\ DOMAIN outbuf' = DOMAIN outbuf \cup {b}
      /\ \A c \in DOMAIN outbuf : c # b => outbuf'[c] = outbuf[c]
      /\ outbuf'[b] = [id \in chosen |-> cache[id]]
  BY <1>1 DEF Put, Drop, Restrict
<1>7. b \notin DOMAIN outbuf
  BY <1>2 DEF IInv, RewritesWhatItRead
<1>8. TypeOK'
  <2>1. IsNodeMap(cache')
    BY <1>1 DEF IInv, TypeOK, IsNodeMap, IsMap, Drop
  <2>2. IsNodeMap([id \in chosen |-> cache[id]])
    BY <1>4 DEF IInv, TypeOK, IsNodeMap, IsMap
  <2>3. \A c \in DOMAIN outbuf' : IsNodeMap(outbuf'[c])
    BY <1>6, <2>2 DEF IInv, TypeOK
  <2> QED BY <1>2, <1>3, <1>6, <2>1, <2>3 DEF IInv, TypeOK, WriteLeafPath
<1>9. Phase' /\ TwoReads'
  <2>1. b \in Opened
    BY <1>2, <1>3 DEF IInv, RewritesWhatItRead
  <2> QED BY <1>2, <1>5, <2>1 DEF IInv, Phase, TwoReads, WriteLeafPath
<1>10. RewritesWhatItRead'
  BY <1>2, <1>5, <1>6 DEF IInv, RewritesWhatItRead, WriteLeafPath
<1>11. \A x, c : InTree(x, c)' <=> InTree(x, c)
  BY <1>5 DEF InTree, WriteLeafPath
<1>12. \A x, c : InOut(x, c)' <=> InOut(x, c) \/ (x \in chosen /\ c = b)
  BY <1>6, <1>7 DEF InOut
<1>13. held' = held /\ fresh' = fresh /\ parentPos' = parentPos /\ tree' = tree
  BY DEF WriteLeafPath
<1>14. Unique' /\ Live'
  BY <1>4, <1>6, <1>11, <1>12, <1>13 DEF IInv, Unique, Live, Local
<1>15. PosAgree'
  <2> SUFFICES ASSUME NEW id \in DOMAIN parentPos
               PROVE  /\ id \in DOMAIN held => held[id].pos = parentPos[id]
                      /\ id \in DOMAIN fresh => fresh[id].pos = parentPos[id]
                      /\ id \in DOMAIN cache' => cache'[id].pos = parentPos[id]
                      /\ \A c : InOut(id, c)' => /\ outbuf'[c][id].pos = parentPos[id]
                                                 /\ c \in Path(parentPos[id])
                      /\ \A c : InTree(id, c) => /\ tree[c][id].pos = parentPos[id]
                                                 /\ c \in Path(parentPos[id])
    BY <1>11, <1>13 DEF PosAgree
  <2>1. ASSUME NEW c, InOut(id, c)'
        PROVE  outbuf'[c][id].pos = parentPos[id] /\ c \in Path(parentPos[id])
    <3>1. CASE id \in chosen /\ c = b
      BY <1>4, <1>6, <3>1 DEF IInv, PosAgree
    <3>2. CASE InOut(id, c)
      BY <1>6, <1>7, <3>2 DEF IInv, PosAgree, InOut
    <3> QED BY <1>12, <2>1, <3>1, <3>2
  <2> QED BY <1>6, <2>1 DEF IInv, PosAgree
<1> QED BY <1>8, <1>9, <1>10, <1>14, <1>15 DEF IInv

LEMMA WriteBucketsStep == IInv /\ WriteBuckets => IInv'
<1> SUFFICES ASSUME IInv, WriteBuckets PROVE IInv'
  OBVIOUS
<1>1. pc = "evict" /\ pc' = "idle" /\ readCnt = 2
  BY DEF WriteBuckets, IInv, TwoReads
<1>2. DOMAIN outbuf = Opened /\ Opened = readview
  <2>1. DOMAIN outbuf = writeview /\ Opened \subseteq writeview
    BY <1>1 DEF WriteBuckets, IInv, RewritesWhatItRead
  <2>2. Opened = readview
    BY <1>1 DEF Opened
  <2>3. writeview \subseteq Opened
    BY <1>1 DEF IInv, Phase
  <2> QED BY <2>1, <2>2, <2>3
<1>3. Opened' = {} /\ DOMAIN outbuf' = {}
  BY <1>1 DEF Opened, WriteBuckets, NoNodes
<1>4. /\ DOMAIN tree' = Buckets
      /\ \A b \in Buckets : tree'[b] = IF b \in Opened THEN outbuf[b] ELSE tree[b]
  BY <1>2 DEF WriteBuckets
<1>5. TypeOK'
  BY <1>2, <1>4 DEF IInv, TypeOK, WriteBuckets, IsNodeMap, IsMap, NoNodes
<1>6. Phase' /\ TwoReads'
  BY <1>1 DEF IInv, Phase, TwoReads, WriteBuckets
<1>7. RewritesWhatItRead'
  BY <1>1, <1>3 DEF RewritesWhatItRead, WriteBuckets
<1>8. \A x, b : ~InOut(x, b)' /\ (InTree(x, b)' <=> InTree(x, b) \/ InOut(x, b))
  BY <1>2, <1>3, <1>4 DEF InTree, InOut, IInv, TypeOK
<1>9. \A x, b : /\ InTree(x, b) => tree'[b] = tree[b]
                /\ InOut(x, b) => tree'[b] = outbuf[b]
  BY <1>2, <1>4 DEF InTree, InOut, IInv, TypeOK
<1>10. held' = held /\ fresh' = fresh /\ cache' = cache /\ parentPos' = parentPos
  BY DEF WriteBuckets
<1>11. Unique' /\ Live'
  BY <1>8, <1>10 DEF IInv, Unique, Live, Local
<1>12. PosAgree'
  BY <1>8, <1>9, <1>10 DEF IInv, PosAgree
<1> QED BY <1>5, <1>6, <1>7, <1>11, <1>12 DEF IInv

LEMMA StutterStep == IInv /\ UNCHANGED vars => IInv'
<1> SUFFICES ASSUME IInv, UNCHANGED vars PROVE IInv'
  OBVIOUS
<1> USE DEF vars, local, client, evict, server
<1>1. TypeOK' /\ TwoReads'
  BY DEF IInv, TypeOK, TwoReads, IsNodeMap, IsMap
<1>2. Opened' = Opened /\ Phase'
  BY DEF Opened, IInv, Phase
<1>3. RewritesWhatItRead'
  BY <1>2 DEF IInv, RewritesWhatItRead
<1>4. Unique' /\ Live' /\ PosAgree'
  BY <1>2 DEF IInv, Unique, Live, PosAgree, Local, InTree, InOut
<1> QED BY <1>1, <1>2, <1>3, <1>4 DEF IInv

LEMMA NextIInv == IInv /\ [Next]_vars => IInv'
<1> SUFFICES ASSUME IInv, [Next]_vars PROVE IInv'
  OBVIOUS
<1>1. CASE PartInit
  BY <1>1, PartInitStep
<1>2. CASE Access
  <2>1. CASE SearchEmpty
    BY <2>1, SearchEmptyStep
  <2>2. CASE \E id \in Ids : SearchNode(id)
    BY <2>2, SearchNodeStep
  <2>3. CASE \E id \in Ids, random \in Positions : TakeNode(id, random)
    BY <2>3, TakeNodeStep
  <2>4. CASE \E id \in Ids, v \in Vals, random \in Positions : FirstNode(id, v, random)
    BY <2>4, ChangeNodesStep
  <2>5. CASE \E id, new \in Ids, v \in Vals : ChangeNode(id, new, v)
    <3>1. \E random : random \in Positions
      <4>1. pc = "access" /\ \E id \in DOMAIN held : TRUE
        BY <2>5 DEF ChangeNode, Change
      <4> QED BY <4>1 DEF IInv, Phase, TypeOK, IsMap
    <3> QED BY <2>5, <3>1, ChangeNodesStep
  <2>6. CASE \E id, lo, hi \in Ids, v, w \in Vals, random \in Positions :
               SplitNode(id, lo, hi, v, w, random)
    BY <2>6, ChangeNodesStep
  <2>7. CASE \E id, nb, new, newNb \in Ids, v, w \in Vals :
               RearrangeNodes(id, nb, new, newNb, v, w)
    <3>1. \E random : random \in Positions
      <4>1. pc = "access" /\ \E id \in DOMAIN held : TRUE
        BY <2>7 DEF RearrangeNodes, Change
      <4> QED BY <4>1 DEF IInv, Phase, TypeOK, IsMap
    <3> QED BY <2>7, <3>1, ChangeNodesStep
  <2>8. CASE \E id, nb, newNb \in Ids, v \in Vals : MergeNodes(id, nb, newNb, v)
    <3>1. \E random : random \in Positions
      <4>1. pc = "access" /\ \E id \in DOMAIN held : TRUE
        BY <2>8 DEF MergeNodes, Change
      <4> QED BY <4>1 DEF IInv, Phase, TypeOK, IsMap
    <3> QED BY <2>8, <3>1, ChangeNodesStep
  <2> QED BY <1>2, <2>1, <2>2, <2>3, <2>4, <2>5, <2>6, <2>7, <2>8 DEF Access
<1>3. CASE Finish
  <2>1. CASE \E id \in Ids : WriteHeld(id) \/ WriteFresh(id)
    BY <2>1, WriteHeldStep, WriteFreshStep
  <2>2. CASE \E random \in Positions : FinalizeLeaf(random)
    BY <2>2, FinalizeLeafStep
  <2>3. CASE Remap
    BY <2>3, RemapStep
  <2>4. CASE \E leaf \in Positions, d \in 0 .. Depth : WriteLeafPath(leaf, d)
    BY <2>4, WriteLeafPathStep
  <2>5. CASE WriteBuckets
    BY <2>5, WriteBucketsStep
  <2> QED BY <1>3, <2>1, <2>2, <2>3, <2>4, <2>5 DEF Finish
<1>4. CASE UNCHANGED vars
  BY <1>4, StutterStep
<1> QED BY <1>1, <1>2, <1>3, <1>4 DEF Next

-----------------------------------------------------------------------------
(***************************************************************************)
(* The theorems.                                                           *)
(***************************************************************************)

\* The inductive invariant holds in every state the level can reach.
THEOREM Inductive == Spec => []IInv
<1>1. Init => IInv
  BY InitIInv
<1>2. IInv /\ [Next]_vars => IInv'
  BY NextIInv
<1> QED BY <1>1, <1>2, PTL DEF Spec

\* Every variable of a level keeps its type, for any number of nodes and any
\* geometry: no operation puts a default node into the cache.
THEOREM TypeCorrect == Spec => []TypeOK
<1>1. IInv => TypeOK
  BY DEF IInv
<1> QED BY <1>1, Inductive, PTL

\* An operation reads exactly two paths and leaves the server's read count
\* even, whichever nodes it found in its cache.
THEOREM ReadsAreTwo == Spec => []TwoReads
<1>1. IInv => TwoReads
  BY DEF IInv
<1> QED BY <1>1, Inductive, PTL

\* The client's list of leaves covers what the server handed out: the buckets
\* rewritten are exactly the buckets read.
THEOREM RewritesReads == Spec => []RewritesWhatItRead
<1>1. IInv => RewritesWhatItRead
  BY DEF IInv
<1> QED BY <1>1, Inductive, PTL

\* Every node stored is on the path of the position its parent records.
THEOREM RecordedPaths == Spec => []OnRecordedPath
<1>1. IInv => OnRecordedPath
  BY DEF IInv, PosAgree, OnRecordedPath, InTree, InOut
<1> QED BY <1>1, Inductive, PTL

\* No node is lost and none is there twice, through any sequence of
\* operations, positions drawn, and choices of the eviction.
THEOREM NoNodeLostOrDoubled == Spec => []OneCopy
<1> DEFINE Kinds(id) == {k \in {"held", "fresh", "cache"} :
                           \/ k = "held"  /\ id \in DOMAIN held
                           \/ k = "fresh" /\ id \in DOMAIN fresh
                           \/ k = "cache" /\ id \in DOMAIN cache}
           Outs(id)  == {b \in DOMAIN outbuf : id \in DOMAIN outbuf[b]}
           Trees(id) == {b \in Buckets \ Opened : id \in DOMAIN tree[b]}
<1>1. \A id : Copies(id) = {<<kind, 0>> : kind \in Kinds(id)}
                             \cup {<<"outbuf", b>> : b \in Outs(id)}
                             \cup {<<"tree", b>> : b \in Trees(id)}
  BY DEF Copies
<1>2. ASSUME IInv, NEW id \in Ids, id \notin DOMAIN parentPos
      PROVE  Copies(id) = {}
  <2>1. Kinds(id) = {} /\ Outs(id) = {} /\ Trees(id) = {}
    BY <1>2 DEF IInv, Live, Local, InOut, InTree
  <2> HIDE DEF Kinds, Outs, Trees
  <2> QED BY <1>1, <2>1
<1>3. ASSUME IInv, NEW id \in Ids, id \in DOMAIN parentPos
      PROVE  \E place \in Copies(id) : Copies(id) = {place}
  <2>1. CASE Local(id)
    <3>1. Outs(id) = {} /\ Trees(id) = {}
      BY <1>3, <2>1 DEF IInv, Unique, InOut, InTree
    <3>2. PICK k : Kinds(id) = {k}
      BY <1>3, <2>1 DEF IInv, Unique, Local
    <3> HIDE DEF Kinds, Outs, Trees
    <3>3. Copies(id) = {<<k, 0>>}
      BY <1>1, <3>1, <3>2
    <3> QED BY <3>3
  <2>2. CASE ~Local(id)
    <3>1. Kinds(id) = {}
      BY <2>2 DEF Local
    <3>2. PICK b : InOut(id, b) \/ InTree(id, b)
      BY <1>3, <2>2 DEF IInv, Live
    <3>3. CASE InOut(id, b)
      <4>1. Outs(id) = {b} /\ Trees(id) = {}
        BY <1>3, <3>3 DEF IInv, Unique, InOut, InTree
      <4> HIDE DEF Kinds, Outs, Trees
      <4>2. Copies(id) = {<<"outbuf", b>>}
        BY <1>1, <3>1, <4>1
      <4> QED BY <4>2
    <3>4. CASE InTree(id, b)
      <4>1. Trees(id) = {b} /\ Outs(id) = {}
        BY <1>3, <3>4 DEF IInv, Unique, InOut, InTree
      <4> HIDE DEF Kinds, Outs, Trees
      <4>2. Copies(id) = {<<"tree", b>>}
        BY <1>1, <3>1, <4>1
      <4> QED BY <4>2
    <3> QED BY <3>2, <3>3, <3>4
  <2> QED BY <2>1, <2>2
<1>4. IInv => OneCopy
  BY <1>2, <1>3 DEF OneCopy
<1> QED BY <1>4, Inductive, PTL

-----------------------------------------------------------------------------
(***************************************************************************)
(* Eviction.                                                               *)
(***************************************************************************)

\* A bucket is in one row, for whichever path it is looked at.
LEMMA OneRow ==
  ASSUME NEW k \in Positions, NEW l \in Positions, NEW d \in 0 .. Depth, NEW e \in 0 .. Depth,
         Node(k, d) = Node(l, e)
  PROVE  d = e
<1>1. k \in BottomRow(Depth) /\ l \in BottomRow(Depth)
  BY PositionsAreBottomRow, ConstantsAssumption DEF Positions
<1>2. NodeOnPath(Depth, k, d) = NodeOnPath(Depth, l, e)
  BY DEF Node, NodeTable
<1> QED BY <1>1, <1>2, RowsApart, ConstantsAssumption

\* A bucket is refilled with as many of the nodes that may go there as fit,
\* and later buckets of the same operation only take nodes out of the cache.
LEMMA WriteLeafPathGreedy ==
  ASSUME NEW leaf \in Positions, NEW d \in 0 .. Depth,
         IInv, GreedyEviction, WriteLeafPath(leaf, d)
  PROVE  GreedyEviction'
<1> DEFINE b == Node(leaf, d)
<1> USE DEF local, server
<1>1. PICK chosen \in SUBSET Intersecting(b, d) :
        /\ \/ Cardinality(chosen) = Z
           \/ Cardinality(chosen) < Z /\ chosen = Intersecting(b, d)
        /\ outbuf' = Put(outbuf, b, Restrict(cache, chosen))
        /\ cache' = Drop(cache, chosen)
  BY DEF WriteLeafPath
<1>2. pc = "evict"
  BY DEF WriteLeafPath
<1> SUFFICES ASSUME NEW c \in DOMAIN outbuf', NEW id \in DOMAIN cache',
                    c \in Path(cache'[id].pos)
             PROVE  Cardinality(DOMAIN outbuf'[c]) >= Z
  BY DEF GreedyEviction
<1>3. id \in DOMAIN cache /\ id \notin chosen /\ cache'[id] = cache[id]
  BY <1>1 DEF Drop
<1>4. CASE c = b
  <2>1. PICK e \in 0 .. Depth : c = Node(cache[id].pos, e)
    BY <1>3 DEF Path
  <2>2. cache[id].pos \in Positions
    BY <1>3 DEF IInv, TypeOK, IsNodeMap, IsMap, Nodes
  <2>3. e = d
    BY <1>4, <2>1, <2>2, OneRow
  <2>4. id \in Intersecting(b, d)
    BY <1>3, <1>4, <2>1, <2>3 DEF Intersecting
  <2>5. Cardinality(chosen) = Z
    BY <1>1, <1>3, <2>4
  <2> HIDE DEF b
  <2>6. DOMAIN outbuf'[b] = chosen
    BY <1>1 DEF Put, Restrict
  <2> QED BY <1>4, <2>5, <2>6, ConstantsAssumption
<1>5. CASE c # b
  <2> HIDE DEF b
  <2>1. c \in DOMAIN outbuf /\ outbuf'[c] = outbuf[c]
    BY <1>1, <1>5 DEF Put
  <2> QED BY <1>2, <1>3, <2>1 DEF GreedyEviction
<1> QED BY <1>4, <1>5

LEMMA NextGreedy ==
  ASSUME IInv, GreedyEviction, [Next]_vars
  PROVE  GreedyEviction'
<1>1. CASE PartInit
  BY <1>1 DEF PartInit, GreedyEviction
<1>2. CASE Access
  <2>1. CASE \/ SearchEmpty
             \/ \E id \in Ids : SearchNode(id)
             \/ \E id \in Ids, random \in Positions : TakeNode(id, random)
    BY <2>1 DEF SearchEmpty, SearchNode, TakeNode, GreedyEviction
  <2>2. CASE \E h, f : Change(h, f)
    BY <2>2 DEF Change, GreedyEviction
  <2>3. CASE \/ \E id \in Ids, v \in Vals, random \in Positions : FirstNode(id, v, random)
             \/ \E id, new \in Ids, v \in Vals : ChangeNode(id, new, v)
             \/ \E id, lo, hi \in Ids, v, w \in Vals, random \in Positions :
                  SplitNode(id, lo, hi, v, w, random)
             \/ \E id, nb, new, newNb \in Ids, v, w \in Vals :
                  RearrangeNodes(id, nb, new, newNb, v, w)
             \/ \E id, nb, newNb \in Ids, v \in Vals : MergeNodes(id, nb, newNb, v)
    BY <2>2, <2>3 DEF FirstNode, ChangeNode, SplitNode, RearrangeNodes, MergeNodes
  <2> QED BY <1>2, <2>1, <2>2, <2>3 DEF Access
<1>3. CASE Finish
  <2>1. CASE \E id \in Ids : WriteHeld(id) \/ WriteFresh(id)
    BY <2>1 DEF WriteHeld, WriteFresh, GreedyEviction
  <2>2. CASE \E random \in Positions : FinalizeLeaf(random)
    BY <2>2 DEF FinalizeLeaf, WrittenBack, local, GreedyEviction
  <2>3. CASE Remap
    <3>1. DOMAIN outbuf' = {}
      BY <2>3 DEF Remap, WrittenBack, evict, IInv, RewritesWhatItRead, NoNodes
    <3> QED BY <3>1 DEF GreedyEviction
  <2>4. CASE \E leaf \in Positions, d \in 0 .. Depth : WriteLeafPath(leaf, d)
    BY <2>4, WriteLeafPathGreedy
  <2>5. CASE WriteBuckets
    BY <2>5 DEF WriteBuckets, GreedyEviction
  <2> QED BY <1>3, <2>1, <2>2, <2>3, <2>4, <2>5 DEF Finish
<1>4. CASE UNCHANGED vars
  BY <1>4 DEF vars, local, client, evict, GreedyEviction
<1> QED BY <1>1, <1>2, <1>3, <1>4 DEF Next

\* No bucket is sent back with a free slot that a node left in the cache
\* could have had, whichever order the rows' buckets are refilled in.
THEOREM EvictionIsGreedy == Spec => []GreedyEviction
<1>1. Init => GreedyEviction
  BY DEF Init, GreedyEviction
<1>2. IInv /\ GreedyEviction /\ [Next]_vars => GreedyEviction'
  BY NextGreedy
<1> QED BY <1>1, <1>2, Inductive, PTL DEF Spec

-----------------------------------------------------------------------------
(***************************************************************************)
(* PathORAM implements BlockStore.  The argument follows each node through *)
(* the places it can be in: Has(id, v) says that a copy of the node        *)
(* somewhere has content v.  The inductive invariant makes that content    *)
(* unique, so a step that only moves copies leaves the table as it is.     *)
(***************************************************************************)
Has(id, v) ==
  \/ id \in DOMAIN held /\ held[id].val = v
  \/ id \in DOMAIN fresh /\ fresh[id].val = v
  \/ id \in DOMAIN cache /\ cache[id].val = v
  \/ \E b : InOut(id, b) /\ outbuf[b][id].val = v
  \/ \E b : InTree(id, b) /\ tree[b][id].val = v

\* What the refinement mapping reads is the content of the one copy.
ContentHeld ==
  \A id \in DOMAIN parentPos :
    Has(id, Content(id)) /\ \A v : Has(id, v) => Content(id) = v

LEMMA ContentIsHeld == IInv => ContentHeld
<1> SUFFICES ASSUME IInv, NEW id \in DOMAIN parentPos
             PROVE  Has(id, Content(id)) /\ \A v : Has(id, v) => Content(id) = v
  BY DEF ContentHeld
<1> DEFINE sent   == {b \in DOMAIN outbuf : id \in DOMAIN outbuf[b]}
           onPath == {b \in Path(parentPos[id]) \ Opened : id \in DOMAIN tree[b]}
<1>1. id \in Ids /\ parentPos[id] \in Positions
  BY DEF IInv, TypeOK, IsMap
<1>2. \A b : b \in sent <=> InOut(id, b)
  BY DEF InOut
<1>3. \A b : b \in onPath <=> InTree(id, b)
  BY <1>1, PathInBuckets DEF InTree, IInv, PosAgree
<1>4. Local(id) => sent = {} /\ onPath = {}
  BY <1>1, <1>2, <1>3 DEF IInv, Unique
<1>5. Local(id) \/ sent # {} \/ onPath # {}
  BY <1>1, <1>2, <1>3 DEF IInv, Live
<1>6. /\ \A b \in sent : sent = {b} /\ onPath = {}
      /\ \A b \in onPath : onPath = {b} /\ sent = {}
  BY <1>1, <1>2, <1>3 DEF IInv, Unique
<1>7. Content(id) = IF id \in DOMAIN held THEN held[id].val
                   ELSE IF id \in DOMAIN fresh THEN fresh[id].val
                   ELSE IF id \in DOMAIN cache THEN cache[id].val
                   ELSE IF sent # {} THEN outbuf[CHOOSE b \in sent : TRUE][id].val
                   ELSE IF onPath # {} THEN tree[CHOOSE b \in onPath : TRUE][id].val
                   ELSE NoVal
  BY DEF Content
<1> HIDE DEF sent, onPath
<1>8. CASE Local(id)
  <2>1. \A b : ~InOut(id, b) /\ ~InTree(id, b)
    BY <1>2, <1>3, <1>4, <1>8
  <2> QED BY <1>1, <1>4, <1>7, <1>8, <2>1 DEF Has, Local, IInv, Unique
<1>9. CASE ~Local(id) /\ sent # {}
  <2>1. PICK b \in sent : sent = {b} /\ onPath = {}
    BY <1>6, <1>9
  <2>2. (CHOOSE c \in sent : TRUE) = b
    BY <2>1
  <2>3. Content(id) = outbuf[b][id].val
    BY <1>7, <1>9, <2>1, <2>2 DEF Local
  <2>4. \A c : (InOut(id, c) <=> c = b) /\ ~InTree(id, c)
    BY <1>2, <1>3, <2>1
  <2> QED BY <1>9, <2>3, <2>4 DEF Has, Local
<1>10. CASE ~Local(id) /\ onPath # {}
  <2>1. PICK b \in onPath : onPath = {b} /\ sent = {}
    BY <1>6, <1>10
  <2>2. (CHOOSE c \in onPath : TRUE) = b
    BY <2>1
  <2>3. Content(id) = tree[b][id].val
    BY <1>7, <1>10, <2>1, <2>2 DEF Local
  <2>4. \A c : (InTree(id, c) <=> c = b) /\ ~InOut(id, c)
    BY <1>2, <1>3, <2>1
  <2> QED BY <1>10, <2>3, <2>4 DEF Has, Local
<1> QED BY <1>5, <1>8, <1>9, <1>10

LEMMA ContentIsHeldNext == IInv' => ContentHeld'
BY ContentIsHeld, PTL

Table == [id \in DOMAIN parentPos |-> Content(id)]

\* A step that moves copies of nodes from place to place, or leaves them.
MovesOnly ==
  /\ DOMAIN parentPos' = DOMAIN parentPos
  /\ \A id \in DOMAIN parentPos : \A v : Has(id, v) => Has(id, v)'

LEMMA MovingKeepsTable ==
  ASSUME IInv, IInv', MovesOnly
  PROVE  Table' = Table
<1>1. ContentHeld /\ ContentHeld'
  BY ContentIsHeld, ContentIsHeldNext
<1>2. \A id \in DOMAIN parentPos : Content(id)' = Content(id)
  BY <1>1 DEF ContentHeld, MovesOnly
<1> QED BY <1>2 DEF Table, MovesOnly

(***************************************************************************)
(* Reads only move: what was in the buckets opened is in the cache N.      *)
(***************************************************************************)
LEMMA ReadMoves ==
  ASSUME IInv, NEW R, NEW N, Reads(R, N), NEW id \in DOMAIN parentPos, NEW v
  PROVE  /\ id \in DOMAIN cache /\ cache[id].val = v =>
              id \in DOMAIN N /\ N[id].val = v
         /\ \A b \in R : InTree(id, b) /\ tree[b][id].val = v =>
              id \in DOMAIN N /\ N[id].val = v
<1>1. id \in Ids
  BY DEF IInv, TypeOK, IsMap
<1> QED BY <1>1 DEF Reads

LEMMA PartInitMoves == IInv /\ PartInit => MovesOnly
<1> SUFFICES ASSUME IInv, PartInit PROVE MovesOnly
  OBVIOUS
<1>1. Opened' = {} /\ Opened = {}
  BY DEF PartInit, Opened
<1> QED BY <1>1 DEF MovesOnly, Has, InTree, InOut, PartInit, server

LEMMA SearchEmptyMoves == IInv /\ SearchEmpty => MovesOnly
<1> SUFFICES ASSUME IInv, SearchEmpty PROVE MovesOnly
  OBVIOUS
<1>1. Opened' = Opened
  BY DEF SearchEmpty, Opened, client, server
<1> QED BY <1>1 DEF MovesOnly, Has, InTree, InOut, SearchEmpty, client, evict, server

\* A search also answers with the content of the node.
LEMMA SearchNodeMoves ==
  ASSUME NEW id \in Ids, IInv, SearchNode(id)
  PROVE  MovesOnly /\ result' = Singleton(id, Content(id))
<1>1. PICK R : NodeReads(id, R)
  BY NodeIsRead DEF SearchNode, NoNodes
<1> DEFINE N == Looked(id)
<1>2. ReadKeeps(R, N)
  BY <1>1, ReadsKeep DEF NodeReads
<1>3. Opened' = Opened \cup R
  BY <1>1 DEF NodeReads, Opened, SearchNode, IInv, TypeOK, Phase, NoNodes
<1>4. parentPos[id] \in Positions /\ N[id].pos = parentPos[id] /\ N[id] \in Nodes
  BY <1>1, <1>2 DEF NodeReads, Finds, ReadKeeps, SearchNode, IInv, TypeOK, Reads, IsNodeMap, IsMap
<1>5. NodeRead(id) = N[id]
  BY <1>4 DEF NodeRead, Nodes
<1>6. \A x \in DOMAIN N : x \in DOMAIN cache' /\ cache'[x] = N[x]
  BY <1>1, <1>5 DEF SearchNode, NodeReads, Put
<1>7. \A x, b : (InTree(x, b)' <=> InTree(x, b) /\ b \notin R) /\ (InOut(x, b)' <=> InOut(x, b))
  BY <1>1, <1>3 DEF InTree, InOut, NodeReads, SearchNode, evict
<1>8. /\ held' = held /\ fresh' = fresh /\ parentPos' = parentPos
      /\ tree' = tree /\ outbuf' = outbuf
  BY <1>1 DEF SearchNode, NodeReads, evict
<1>9. ASSUME NEW x \in DOMAIN parentPos, NEW v, Has(x, v)
      PROVE  Has(x, v)'
  <2>1. /\ x \in DOMAIN cache /\ cache[x].val = v => x \in DOMAIN N /\ N[x].val = v
        /\ \A b \in R : InTree(x, b) /\ tree[b][x].val = v =>
             x \in DOMAIN N /\ N[x].val = v
    BY <1>1, <1>9, ReadMoves DEF NodeReads
  <2> HIDE DEF N
  <2> QED BY <1>6, <1>7, <1>8, <1>9, <2>1 DEF Has
<1>10. MovesOnly
  BY <1>8, <1>9 DEF MovesOnly
<1>11. Content(id) = N[id].val
  <2>1. id \in DOMAIN parentPos /\ id \in DOMAIN N
    BY <1>1 DEF SearchNode, NodeReads, Finds
  <2>2. Has(id, N[id].val)
    <3>1. id \in DOMAIN cache \/ \E b \in R : InTree(id, b)
      BY <1>1, <2>1 DEF NodeReads, Reads
    <3>2. id \in DOMAIN cache => N[id] = cache[id]
      BY <1>1 DEF NodeReads, Reads
    <3>3. \A b \in R : InTree(id, b) => N[id] = tree[b][id]
      BY <1>1 DEF NodeReads, Reads
    <3> HIDE DEF N
    <3> QED BY <3>1, <3>2, <3>3 DEF Has
  <2> QED BY <2>1, <2>2, ContentIsHeld DEF ContentHeld
<1>12. result' = Singleton(id, N[id].val)
  BY <1>1, <1>5 DEF SearchNode, NodeReads
<1> QED BY <1>10, <1>11, <1>12

LEMMA TakeNodeMoves ==
  ASSUME NEW id \in Ids, NEW random \in Positions, IInv, TakeNode(id, random)
  PROVE  MovesOnly
<1>1. PICK R : NodeReads(id, R)
  BY NodeIsRead DEF TakeNode
<1> DEFINE N == Looked(id)
<1>2. ReadKeeps(R, N)
  BY <1>1, ReadsKeep DEF NodeReads
<1>3. Opened' = Opened \cup R
  BY <1>1 DEF NodeReads, Opened, TakeNode, IInv, TypeOK, Phase
<1>4. parentPos[id] \in Positions /\ N[id].pos = parentPos[id] /\ N[id] \in Nodes
  BY <1>1, <1>2 DEF NodeReads, Finds, ReadKeeps, TakeNode, IInv, TypeOK, Reads, IsNodeMap, IsMap
<1>5. NodeRead(id) = N[id]
  BY <1>4 DEF NodeRead, Nodes
<1>6. held' = Put(held, id, N[id]) /\ cache' = Drop(N, {id})
  BY <1>1, <1>5 DEF TakeNode, NodeReads
<1>7. /\ \A x \in DOMAIN N : x # id => x \in DOMAIN cache' /\ cache'[x] = N[x]
      /\ \A x \in DOMAIN held : x \in DOMAIN held' /\ held'[x] = held[x]
      /\ id \in DOMAIN held' /\ held'[id] = N[id]
  BY <1>6 DEF Put, Drop, TakeNode
<1>8. \A x, b : (InTree(x, b)' <=> InTree(x, b) /\ b \notin R) /\ (InOut(x, b)' <=> InOut(x, b))
  BY <1>1, <1>3 DEF InTree, InOut, NodeReads, TakeNode, evict
<1>9. fresh' = fresh /\ parentPos' = parentPos /\ tree' = tree /\ outbuf' = outbuf
  BY <1>1 DEF TakeNode, NodeReads, evict
<1>10. ASSUME NEW x \in DOMAIN parentPos, NEW v, Has(x, v)
       PROVE  Has(x, v)'
  <2>1. /\ x \in DOMAIN cache /\ cache[x].val = v => x \in DOMAIN N /\ N[x].val = v
        /\ \A b \in R : InTree(x, b) /\ tree[b][x].val = v =>
             x \in DOMAIN N /\ N[x].val = v
    BY <1>1, <1>10, ReadMoves DEF NodeReads
  <2> HIDE DEF N
  <2> QED BY <1>7, <1>8, <1>9, <1>10, <2>1 DEF Has
<1> QED BY <1>9, <1>10 DEF MovesOnly

LEMMA WriteHeldMoves == ASSUME NEW id \in Ids, IInv, WriteHeld(id) PROVE MovesOnly
<1> USE DEF evict, server
<1>1. Opened' = Opened
  BY DEF WriteHeld, Opened
<1>2. \A x, b : (InTree(x, b)' <=> InTree(x, b)) /\ (InOut(x, b)' <=> InOut(x, b))
  BY <1>1 DEF InTree, InOut, WriteHeld
<1>3. /\ \A x \in DOMAIN held : x # id => x \in DOMAIN held' /\ held'[x] = held[x]
      /\ id \in DOMAIN cache' /\ cache'[id] = held[id]
      /\ \A x \in DOMAIN cache : x # id => x \in DOMAIN cache' /\ cache'[x] = cache[x]
      /\ id \notin DOMAIN cache
  BY DEF WriteHeld, Put, Drop, IInv, Unique
<1>4. fresh' = fresh /\ parentPos' = parentPos /\ tree' = tree /\ outbuf' = outbuf
  BY DEF WriteHeld
<1> QED BY <1>2, <1>3, <1>4 DEF MovesOnly, Has

LEMMA WriteFreshMoves == ASSUME NEW id \in Ids, IInv, WriteFresh(id) PROVE MovesOnly
<1> DEFINE leaf == fresh[id].pos
           N == Fetched(leaf)
<1>1. leaf \in Positions /\ readCnt <= 1 /\ id \in DOMAIN fresh
  BY DEF WriteFresh, IInv, TypeOK, Phase, IsNodeMap, IsMap, Nodes
<1>2. Reads(Path(leaf), N) /\ HandedOut = Opened
  BY <1>1, FetchReads DEF WriteFresh
<1>3. ReadKeeps(Path(leaf), N)
  BY <1>2, ReadsKeep
<1>4. Opened' = Opened \cup Path(leaf)
  BY <1>2 DEF Opened, WriteFresh, FetchPath, IInv, TypeOK
<1>5. \A x, b : /\ InTree(x, b)' <=> InTree(x, b) /\ b \notin Path(leaf)
                /\ InOut(x, b)' <=> InOut(x, b)
  BY <1>4 DEF InTree, InOut, WriteFresh, FetchPath, evict
<1>6. /\ id \in DOMAIN cache' /\ cache'[id] = fresh[id]
      /\ \A x \in DOMAIN N : x # id => x \in DOMAIN cache' /\ cache'[x] = N[x]
      /\ \A x \in DOMAIN fresh : x = id
      /\ id \notin DOMAIN N
  BY <1>1, <1>3 DEF WriteFresh, Put, IInv, Phase, ReadKeeps
<1>7. held' = held /\ parentPos' = parentPos /\ tree' = tree /\ outbuf' = outbuf
  BY DEF WriteFresh, FetchPath, evict
<1>8. ASSUME NEW x \in DOMAIN parentPos, NEW v, Has(x, v)
      PROVE  Has(x, v)'
  <2>1. /\ x \in DOMAIN cache /\ cache[x].val = v => x \in DOMAIN N /\ N[x].val = v
        /\ \A b \in Path(leaf) : InTree(x, b) /\ tree[b][x].val = v =>
             x \in DOMAIN N /\ N[x].val = v
    BY <1>2, <1>8, ReadMoves
  <2> HIDE DEF N, leaf
  <2> QED BY <1>5, <1>6, <1>7, <1>8, <2>1 DEF Has
<1> QED BY <1>7, <1>8 DEF MovesOnly

LEMMA FinalizeLeafMoves ==
  ASSUME NEW random \in Positions, IInv, FinalizeLeaf(random) PROVE MovesOnly
<1> DEFINE N == Fetched(random)
<1> USE DEF evict, local
<1>1. readCnt <= 1 /\ pc = "writeback"
  BY DEF FinalizeLeaf, WrittenBack, IInv, TypeOK
<1>2. Reads(Path(random), N) /\ HandedOut = Opened
  BY <1>1, FetchReads
<1>3. Opened' = Opened \cup Path(random)
  BY <1>1, <1>2 DEF Opened, FinalizeLeaf, FetchPath, IInv, TypeOK
<1>4. \A x, b : /\ InTree(x, b)' <=> InTree(x, b) /\ b \notin Path(random)
                /\ InOut(x, b)' <=> InOut(x, b)
  BY <1>3 DEF InTree, InOut, FinalizeLeaf, FetchPath
<1>5. /\ held' = held /\ fresh' = fresh /\ parentPos' = parentPos
      /\ tree' = tree /\ outbuf' = outbuf /\ cache' = N
  BY DEF FinalizeLeaf, FetchPath
<1>6. ASSUME NEW x \in DOMAIN parentPos, NEW v, Has(x, v)
      PROVE  Has(x, v)'
  <2>1. /\ x \in DOMAIN cache /\ cache[x].val = v => x \in DOMAIN N /\ N[x].val = v
        /\ \A b \in Path(random) : InTree(x, b) /\ tree[b][x].val = v =>
             x \in DOMAIN N /\ N[x].val = v
    BY <1>2, <1>6, ReadMoves
  <2> HIDE DEF N
  <2> QED BY <1>4, <1>5, <1>6, <2>1 DEF Has
<1> QED BY <1>5, <1>6 DEF MovesOnly

LEMMA RemapMoves == IInv /\ Remap => MovesOnly
<1> SUFFICES ASSUME IInv, Remap PROVE MovesOnly
  OBVIOUS
<1> USE DEF evict, server
<1>1. PICK random \in [DOMAIN cache \cap modified -> Positions] :
        cache' = [id \in DOMAIN cache |->
                    IF id \in modified THEN [cache[id] EXCEPT !.pos = random[id]]
                                       ELSE cache[id]]
  BY DEF Remap
<1>2. Opened' = Opened
  BY DEF Remap, Opened, WrittenBack
<1>3. \A x, b : (InTree(x, b)' <=> InTree(x, b)) /\ (InOut(x, b)' <=> InOut(x, b))
  BY <1>2 DEF InTree, InOut, Remap
<1>4. \A x \in DOMAIN cache : x \in DOMAIN cache' /\ cache'[x].val = cache[x].val
  BY <1>1 DEF IInv, TypeOK, IsNodeMap, IsMap, Nodes
<1>5. /\ held' = held /\ fresh' = fresh /\ DOMAIN parentPos' = DOMAIN parentPos
      /\ tree' = tree /\ outbuf' = outbuf
  BY DEF Remap
<1> QED BY <1>3, <1>4, <1>5 DEF MovesOnly, Has

LEMMA WriteLeafPathMoves ==
  ASSUME NEW leaf \in Positions, NEW d \in 0 .. Depth, IInv, WriteLeafPath(leaf, d)
  PROVE  MovesOnly
<1> DEFINE b == Node(leaf, d)
<1> USE DEF local, server
<1>1. PICK chosen \in SUBSET Intersecting(b, d) :
        /\ outbuf' = Put(outbuf, b, Restrict(cache, chosen))
        /\ cache' = Drop(cache, chosen)
  BY DEF WriteLeafPath
<1>2. b \notin DOMAIN outbuf /\ chosen \subseteq DOMAIN cache
  BY DEF WriteLeafPath, IInv, RewritesWhatItRead, Intersecting
<1>3. Opened' = Opened
  BY DEF WriteLeafPath, Opened
<1> HIDE DEF b
<1>4. \A x, c : InTree(x, c)' <=> InTree(x, c)
  BY <1>3 DEF InTree, WriteLeafPath
<1>5. /\ \A x \in DOMAIN cache \ chosen : x \in DOMAIN cache' /\ cache'[x] = cache[x]
      /\ \A x \in chosen : InOut(x, b)' /\ outbuf'[b][x] = cache[x]
      /\ \A x, c : InOut(x, c) => InOut(x, c)' /\ outbuf'[c][x] = outbuf[c][x]
  BY <1>1, <1>2 DEF InOut, Put, Drop, Restrict
<1>6. held' = held /\ fresh' = fresh /\ parentPos' = parentPos /\ tree' = tree
  BY DEF WriteLeafPath
<1>7. ASSUME NEW x \in DOMAIN parentPos, NEW v, Has(x, v)
      PROVE  Has(x, v)'
  <2>1. CASE x \in DOMAIN cache /\ cache[x].val = v
    BY <1>5, <2>1 DEF Has
  <2>2. CASE ~(x \in DOMAIN cache /\ cache[x].val = v)
    BY <1>4, <1>5, <1>6, <1>7, <2>2 DEF Has
  <2> QED BY <2>1, <2>2
<1> QED BY <1>6, <1>7 DEF MovesOnly

LEMMA WriteBucketsMoves == IInv /\ WriteBuckets => MovesOnly
<1> SUFFICES ASSUME IInv, WriteBuckets PROVE MovesOnly
  OBVIOUS
<1>1. DOMAIN outbuf = Opened
  <2>1. pc = "evict" /\ readCnt = 2
    BY DEF WriteBuckets, IInv, TwoReads
  <2>2. DOMAIN outbuf = writeview /\ Opened \subseteq writeview
    BY <2>1 DEF WriteBuckets, IInv, RewritesWhatItRead
  <2>3. writeview \subseteq Opened
    BY <2>1 DEF IInv, Phase
  <2> QED BY <2>2, <2>3
<1>2. Opened' = {}
  BY DEF Opened, WriteBuckets
<1>3. /\ DOMAIN tree' = Buckets
      /\ \A b \in Buckets : tree'[b] = IF b \in Opened THEN outbuf[b] ELSE tree[b]
  BY <1>1 DEF WriteBuckets
<1>4. \A x, b : /\ InTree(x, b) => InTree(x, b)' /\ tree'[b] = tree[b]
                /\ InOut(x, b) => InTree(x, b)' /\ tree'[b] = outbuf[b]
  BY <1>1, <1>2, <1>3 DEF InTree, InOut, IInv, TypeOK
<1>5. held' = held /\ fresh' = fresh /\ cache' = cache /\ parentPos' = parentPos
  BY DEF WriteBuckets
<1> QED BY <1>4, <1>5 DEF MovesOnly, Has

LEMMA StutterMoves == IInv /\ UNCHANGED vars => MovesOnly
<1> SUFFICES ASSUME IInv, UNCHANGED vars PROVE MovesOnly
  OBVIOUS
<1> USE DEF vars, local, client, evict, server
<1>1. Opened' = Opened
  BY DEF Opened
<1> QED BY <1>1 DEF MovesOnly, Has, InTree, InOut

(***************************************************************************)
(* Changes.  The nodes read, at most two, are replaced by h and f.         *)
(***************************************************************************)
LEMMA ChangeReplaces ==
  ASSUME IInv, IInv', NEW h, NEW f, IsNodeMap(h), IsNodeMap(f),
         DOMAIN h \cap DOMAIN f = {},
         NEW x \in Ids, NEW y \in Ids, DOMAIN held \subseteq {x, y},
         NEW z \in Ids, NEW u \in Ids, DOMAIN h \cup DOMAIN f \subseteq {z, u},
         DOMAIN h \cup DOMAIN f # {},
         DOMAIN held = {} => DOMAIN parentPos = {},
         Change(h, f)
  PROVE  Store!Replace
<1> DEFINE S == DOMAIN h \cup DOMAIN f
           t == [id \in S |-> IF id \in DOMAIN h THEN h[id].val ELSE f[id].val]
<1>1. Opened' = Opened
  BY DEF Change, Opened, server
<1>2. \A id, b : (InTree(id, b)' <=> InTree(id, b)) /\ (InOut(id, b)' <=> InOut(id, b))
  BY <1>1 DEF InTree, InOut, Change, server, evict
<1>3. /\ held' = h /\ fresh' = f /\ cache' = cache /\ tree' = tree /\ outbuf' = outbuf
      /\ DOMAIN fresh = {} /\ DOMAIN held \subseteq DOMAIN parentPos
      /\ result' = result
      /\ S \subseteq (Ids \ DOMAIN parentPos) \cup DOMAIN held
  BY DEF Change, Free, IInv, Phase, server, evict
<1>4. DOMAIN parentPos' = (DOMAIN parentPos \ DOMAIN held) \cup S
  BY DEF Change, Override, Drop
<1>5. ContentHeld /\ ContentHeld'
  BY ContentIsHeld, ContentIsHeldNext
<1>6. ASSUME NEW id \in DOMAIN parentPos' PROVE Content(id)' = IF id \in S THEN t[id] ELSE Content(id)
  <2>1. CASE id \in S
    <3>1. Has(id, t[id])'
      BY <1>3, <2>1 DEF Has
    <3> QED BY <1>5, <1>6, <2>1, <3>1 DEF ContentHeld
  <2>2. CASE id \notin S
    <3>1. id \in DOMAIN parentPos /\ id \notin DOMAIN held
      BY <1>4, <1>6, <2>2
    <3>2. \A v : Has(id, v) => Has(id, v)'
      BY <1>2, <1>3, <3>1 DEF Has
    <3>3. Content(id)' = Content(id)
      BY <1>5, <1>6, <3>1, <3>2 DEF ContentHeld
    <3> QED BY <2>2, <3>3
  <2> QED BY <2>1, <2>2
<1>7. t \in Store!Tables
  <2>1. S \in SUBSET Ids /\ \A id \in S : t[id] \in Vals
    BY DEF IsNodeMap, IsMap, Nodes
  <2>2. t \in [S -> Vals]
    BY <2>1
  <2> QED BY <2>1, <2>2 DEF Store!Tables
<1>8. DOMAIN t = S
  OBVIOUS
<1> HIDE DEF t, S
<1>9. Store!AtMostTwo(DOMAIN held) /\ Store!AtMostTwo(DOMAIN t) /\ DOMAIN t # {}
  BY <1>8 DEF S, Store!AtMostTwo
<1>10. Table' = [id \in (DOMAIN Table \ DOMAIN held) \cup DOMAIN t |->
                   IF id \in DOMAIN t THEN t[id] ELSE Table[id]]
  BY <1>4, <1>6, <1>8 DEF Table
<1>11. DOMAIN Table = DOMAIN parentPos
  BY DEF Table
<1> QED
  BY <1>3, <1>7, <1>8, <1>9, <1>10, <1>11 DEF Store!Replace, Table

LEMMA ChangeNodesReplaces ==
  ASSUME IInv, IInv',
         NEW id \in Ids, NEW nb \in Ids, NEW new \in Ids, NEW newNb \in Ids,
         NEW v \in Vals, NEW w \in Vals, NEW random \in Positions,
         \/ FirstNode(id, v, random)
         \/ ChangeNode(id, new, v)
         \/ SplitNode(id, new, newNb, v, w, random)
         \/ RearrangeNodes(id, nb, new, newNb, v, w)
         \/ MergeNodes(id, nb, newNb, v)
  PROVE  Store!Replace
<1>1. \A x \in DOMAIN held, e \in Vals : [held[x] EXCEPT !.val = e] \in Nodes
  BY DEF IInv, TypeOK, IsNodeMap, IsMap, Nodes
<1>2. [pos |-> random, val |-> v] \in Nodes /\ [pos |-> random, val |-> w] \in Nodes
  BY DEF Nodes
<1>3. CASE FirstNode(id, v, random)
  <2> DEFINE f == Singleton(id, [pos |-> random, val |-> v])
  <2>1. pc = "access" /\ DOMAIN held = {} /\ DOMAIN parentPos = {} /\ Change(NoNodes, f)
    BY <1>3 DEF FirstNode, Change, IInv, Phase
  <2>2. IsNodeMap(NoNodes) /\ IsNodeMap(f) /\ DOMAIN NoNodes = {} /\ DOMAIN f = {id}
    BY <1>2, NodeMapFacts
  <2> HIDE DEF f
  <2> QED BY <2>1, <2>2, ChangeReplaces
<1>4. CASE ChangeNode(id, new, v)
  <2> DEFINE h == Singleton(new, [held[id] EXCEPT !.val = v])
  <2>1. DOMAIN held = {id} /\ Change(h, NoNodes)
    BY <1>4 DEF ChangeNode
  <2>2. IsNodeMap(NoNodes) /\ IsNodeMap(h) /\ DOMAIN NoNodes = {} /\ DOMAIN h = {new}
    BY <1>1, <2>1, NodeMapFacts
  <2> HIDE DEF h
  <2> QED BY <2>1, <2>2, ChangeReplaces
<1>5. CASE SplitNode(id, new, newNb, v, w, random)
  <2> DEFINE h == Singleton(new, [held[id] EXCEPT !.val = v])
             f == Singleton(newNb, [pos |-> random, val |-> w])
  <2>1. DOMAIN held = {id} /\ Change(h, f) /\ new # newNb
    BY <1>5 DEF SplitNode
  <2>2. IsNodeMap(h) /\ IsNodeMap(f) /\ DOMAIN h = {new} /\ DOMAIN f = {newNb}
    BY <1>1, <1>2, <2>1, NodeMapFacts
  <2> HIDE DEF h, f
  <2> QED BY <2>1, <2>2, ChangeReplaces
<1>6. CASE RearrangeNodes(id, nb, new, newNb, v, w)
  <2> DEFINE h == Put(Singleton(newNb, [held[nb] EXCEPT !.val = w]),
                      new, [held[id] EXCEPT !.val = v])
  <2>1. DOMAIN held = {id, nb} /\ Change(h, NoNodes)
    BY <1>6 DEF RearrangeNodes
  <2>2. /\ IsNodeMap(NoNodes) /\ IsNodeMap(h) /\ DOMAIN NoNodes = {}
        /\ DOMAIN h = {newNb, new}
    BY <1>1, <2>1, NodeMapFacts DEF Put, Singleton
  <2> HIDE DEF h
  <2> QED BY <2>1, <2>2, ChangeReplaces
<1>7. CASE MergeNodes(id, nb, newNb, v)
  <2> DEFINE h == Singleton(newNb, [held[nb] EXCEPT !.val = v])
  <2>1. DOMAIN held = {id, nb} /\ Change(h, NoNodes)
    BY <1>7 DEF MergeNodes
  <2>2. IsNodeMap(NoNodes) /\ IsNodeMap(h) /\ DOMAIN NoNodes = {} /\ DOMAIN h = {newNb}
    BY <1>1, <2>1, NodeMapFacts
  <2> HIDE DEF h
  <2> QED BY <2>1, <2>2, ChangeReplaces
<1> QED BY <1>3, <1>4, <1>5, <1>6, <1>7

-----------------------------------------------------------------------------
LEMMA InitImplements == Init => Store!Init
<1> SUFFICES ASSUME Init PROVE Store!Init
  OBVIOUS
<1>1. DOMAIN parentPos = {} /\ result = [id \in {} |-> NoVal]
  BY DEF Init, NoNodes
<1>2. [id \in DOMAIN parentPos |-> Content(id)] = [id \in {} |-> NoVal]
  BY <1>1
<1> QED BY <1>1, <1>2 DEF Store!Init

\* A step that moves nodes is none of the table; the search answers as well,
\* the next operation forgets the answer.
LEMMA StepImplements ==
  ASSUME IInv, IInv', [Next]_vars
  PROVE  [Store!Next]_<<Table, result>>
<1>1. MovesOnly => Table' = Table
  BY MovingKeepsTable
<1>2. CASE PartInit
  <2>1. MovesOnly /\ result' = [id \in {} |-> NoVal]
    BY <1>2, PartInitMoves DEF PartInit, NoNodes
  <2> QED BY <1>1, <2>1 DEF Store!Next, Store!Begin, Table
<1>3. CASE Access
  <2>1. CASE SearchEmpty
    <3>1. MovesOnly /\ result' = result
      BY <2>1, SearchEmptyMoves DEF SearchEmpty
    <3> QED BY <1>1, <3>1
  <2>2. CASE \E id \in Ids : SearchNode(id)
    <3>1. PICK id \in Ids : SearchNode(id)
      BY <2>2
    <3>2. MovesOnly /\ result' = Singleton(id, Content(id)) /\ id \in DOMAIN parentPos
      BY <3>1, SearchNodeMoves DEF SearchNode
    <3>3. id \in DOMAIN Table /\ Table[id] = Content(id)
      BY <3>2 DEF Table
    <3>4. result' = [x \in {id} |-> Table[id]]
      BY <3>2, <3>3 DEF Singleton
    <3> QED BY <1>1, <3>2, <3>3, <3>4 DEF Store!Next, Store!Lookup, Table
  <2>3. CASE \E id \in Ids, random \in Positions : TakeNode(id, random)
    <3>1. MovesOnly /\ result' = result
      BY <2>3, TakeNodeMoves DEF TakeNode
    <3> QED BY <1>1, <3>1
  <2>4. CASE \/ \E id \in Ids, v \in Vals, random \in Positions : FirstNode(id, v, random)
             \/ \E id, new \in Ids, v \in Vals : ChangeNode(id, new, v)
             \/ \E id, lo, hi \in Ids, v, w \in Vals, random \in Positions :
                  SplitNode(id, lo, hi, v, w, random)
             \/ \E id, nb, new, newNb \in Ids, v, w \in Vals :
                  RearrangeNodes(id, nb, new, newNb, v, w)
             \/ \E id, nb, newNb \in Ids, v \in Vals : MergeNodes(id, nb, newNb, v)
    <3> SUFFICES Store!Replace
      BY DEF Store!Next
    <3>1. CASE \E id \in Ids, v \in Vals, random \in Positions : FirstNode(id, v, random)
      BY <3>1, ChangeNodesReplaces
    <3>2. ASSUME \E id \in DOMAIN held : TRUE, pc = "access"
          PROVE  \E random : random \in Positions
      BY <3>2 DEF IInv, Phase, TypeOK, IsMap
    <3>3. CASE \E id, new \in Ids, v \in Vals : ChangeNode(id, new, v)
      <4>1. \E random : random \in Positions
        BY <3>2, <3>3 DEF ChangeNode, Change
      <4> QED BY <3>3, <4>1, ChangeNodesReplaces
    <3>4. CASE \E id, lo, hi \in Ids, v, w \in Vals, random \in Positions :
                 SplitNode(id, lo, hi, v, w, random)
      BY <3>4, ChangeNodesReplaces
    <3>5. CASE \E id, nb, new, newNb \in Ids, v, w \in Vals :
                 RearrangeNodes(id, nb, new, newNb, v, w)
      <4>1. \E random : random \in Positions
        BY <3>2, <3>5 DEF RearrangeNodes, Change
      <4> QED BY <3>5, <4>1, ChangeNodesReplaces
    <3>6. CASE \E id, nb, newNb \in Ids, v \in Vals : MergeNodes(id, nb, newNb, v)
      <4>1. \E random : random \in Positions
        BY <3>2, <3>6 DEF MergeNodes, Change
      <4> QED BY <3>6, <4>1, ChangeNodesReplaces
    <3> QED BY <2>4, <3>1, <3>3, <3>4, <3>5, <3>6
  <2> QED BY <1>3, <2>1, <2>2, <2>3, <2>4 DEF Access
<1>4. CASE Finish
  <2>1. CASE \E id \in Ids : WriteHeld(id) \/ WriteFresh(id)
    BY <2>1, WriteHeldMoves, WriteFreshMoves, <1>1 DEF WriteHeld, WriteFresh
  <2>2. CASE \E random \in Positions : FinalizeLeaf(random)
    BY <2>2, FinalizeLeafMoves, <1>1 DEF FinalizeLeaf, local
  <2>3. CASE Remap
    BY <2>3, RemapMoves, <1>1 DEF Remap
  <2>4. CASE \E leaf \in Positions, d \in 0 .. Depth : WriteLeafPath(leaf, d)
    BY <2>4, WriteLeafPathMoves, <1>1 DEF WriteLeafPath, local
  <2>5. CASE WriteBuckets
    BY <2>5, WriteBucketsMoves, <1>1 DEF WriteBuckets
  <2> QED BY <1>4, <2>1, <2>2, <2>3, <2>4, <2>5 DEF Finish
<1>5. CASE UNCHANGED vars
  BY <1>1, <1>5, StutterMoves DEF vars, local
<1> QED BY <1>2, <1>3, <1>4, <1>5 DEF Next

\* The level is a table to the operations above it: whatever is read, padded,
\* remapped and evicted, a search answers with the content stored last, and
\* a change replaces the nodes it read and no others.
THEOREM ImplementsTable == Spec => ImplementsBlockStore
<1>1. Init => Store!Init
  BY InitImplements
<1>2. IInv /\ IInv' /\ [Next]_vars => [Store!Next]_<<Table, result>>
  BY StepImplements
<1> QED BY <1>1, <1>2, Inductive, PTL DEF Spec, ImplementsBlockStore, Store!Spec, Table
=============================================================================
