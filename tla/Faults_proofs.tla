---------------------------- MODULE Faults_proofs ----------------------------
(***************************************************************************)
(* Proofs about Faults, for every set of nodes, every depth and bucket     *)
(* size, and any number of faults.  Harmed nodes may be anywhere, several  *)
(* times or not at all, so the invariant is about one node at a time and   *)
(* leaves them out.  It has two halves: Level is about the client and the  *)
(* buckets as the client sees them, Disk about what a client would find    *)
(* that started now.  A client that ends between two reads of an operation *)
(* ends all that; what is left are the counts, at the end.                 *)
(***************************************************************************)
EXTENDS Faults, PathORAM_proofs

-----------------------------------------------------------------------------
(***************************************************************************)
(* The level, as far as nodes outside H are concerned.                     *)
(***************************************************************************)

\* A node read in vain stays a default node until the change.
Taken == [pos : Positions, val : Vals \cup {NoVal}]

LevelTypes ==
  /\ pc \in {"idle", "access", "writeback", "evict"}
  /\ IsMap(parentPos, Ids, Positions)
  /\ IsNodeMap(cache) /\ IsNodeMap(fresh)
  /\ IsMap(held, Ids, Taken)
  /\ pc # "access" => IsNodeMap(held)
  /\ modified \subseteq Ids
  /\ leafList \subseteq Positions
  /\ readCnt \in 0 .. 2
  /\ DOMAIN outbuf \subseteq Buckets /\ DOMAIN tree = Buckets
  /\ \A b \in DOMAIN outbuf : IsNodeMap(outbuf[b])
  /\ \A b \in Buckets : IsNodeMap(tree[b])
  /\ readview \subseteq Buckets
  /\ recvCount \in {0, 1}

\* Every bucket rewritten has been read.  Not every bucket read is rewritten:
\* the path of a read in vain is not.
RewritesOnlyRead ==
  /\ UNION {Path(leaf) : leaf \in leafList} \subseteq Opened
  /\ IF pc = "evict" THEN DOMAIN outbuf = writeview ELSE outbuf = NoNodes

AtMostOnce(id) ==
  /\ ~(id \in DOMAIN held /\ id \in DOMAIN fresh)
  /\ ~(id \in DOMAIN held /\ id \in DOMAIN cache)
  /\ ~(id \in DOMAIN fresh /\ id \in DOMAIN cache)
  /\ Local(id) => \A b : ~InOut(id, b) /\ ~InTree(id, b)
  /\ \A b, c :
       /\ ~(InOut(id, b) /\ InTree(id, c))
       /\ InOut(id, b) /\ InOut(id, c) => b = c
       /\ InTree(id, b) /\ InTree(id, c) => b = c

There(id) ==
  id \in DOMAIN parentPos <=> Local(id) \/ \E b : InOut(id, b) \/ InTree(id, b)

InPlace(id) ==
  id \in DOMAIN parentPos =>
    /\ id \in DOMAIN held => held[id].pos = parentPos[id]
    /\ id \in DOMAIN fresh => fresh[id].pos = parentPos[id]
    /\ id \in DOMAIN cache => cache[id].pos = parentPos[id]
    /\ \A b : InOut(id, b) => outbuf[b][id].pos = parentPos[id] /\ b \in Path(parentPos[id])
    /\ \A b : InTree(id, b) => tree[b][id].pos = parentPos[id] /\ b \in Path(parentPos[id])

\* A node outside H that has been taken was found.
TakenWereFound(H) == pc = "access" => DOMAIN held \subseteq modified \cup H

Level(H) ==
  /\ LevelTypes
  /\ Phase
  /\ pc = "idle" => modified = {}
  /\ TwoReads
  /\ RewritesOnlyRead
  /\ TakenWereFound(H)
  /\ \A id \in Ids \ H : AtMostOnce(id) /\ There(id) /\ InPlace(id)

-----------------------------------------------------------------------------
(***************************************************************************)
(* What is stored: the server's buckets and the root.                      *)
(***************************************************************************)
HistoryTypes ==
  /\ IsMap(savedPos, Ids, Positions)
  /\ rootSent \in BOOLEAN
  /\ rootSent => pc = "evict"
  /\ harmed \subseteq Ids /\ behind \subseteq Ids /\ stash \subseteq Ids

\* The stored root and the client's agree on the nodes that the operation has
\* not changed and that are not behind.
RootsAgree ==
  \A id \in Ids \ (harmed \cup behind \cup modified \cup DOMAIN held \cup DOMAIN fresh) :
    /\ id \in DOMAIN savedPos <=> id \in DOMAIN parentPos
    /\ id \in DOMAIN savedPos => savedPos[id] = parentPos[id]

OnDisk(id) ==
  /\ id \in DOMAIN savedPos <=> \E b \in Buckets : id \in DOMAIN tree[b]
  /\ \A b, c \in Buckets : id \in DOMAIN tree[b] /\ id \in DOMAIN tree[c] => b = c
  /\ \A b \in Buckets : id \in DOMAIN tree[b] =>
       tree[b][id].pos = savedPos[id] /\ b \in Path(savedPos[id])

\* A client that started now would find the nodes it is said to find.
Disk == \A id \in Ids \ HarmOfRestart : OnDisk(id)

FaultInv == Level(harmed) /\ HistoryTypes /\ RootsAgree /\ Disk

-----------------------------------------------------------------------------
(***************************************************************************)
(* Reading.  N is the cache once the reply has been stored in it, R the    *)
(* set of buckets opened.                                                  *)
(***************************************************************************)
ReadsLevel(H, R, N) ==
  /\ IsNodeMap(N)
  /\ \A id \in Ids \ H :
       /\ id \in DOMAIN N <=> id \in DOMAIN cache \/ \E b \in R : InTree(id, b)
       /\ id \in DOMAIN cache => N[id] = cache[id]
       /\ \A b \in R : InTree(id, b) => N[id] = tree[b][id]

\* Of the copies of a harmed node the client keeps some node; of any other it
\* finds the only one.
LEMMA FetchReadsLevel ==
  ASSUME NEW H, Level(H), pc \in {"access", "writeback"}, readCnt <= 1,
         NEW leaf \in Positions
  PROVE  ReadsLevel(H, Path(leaf), Fetched(leaf)) /\ HandedOut = Opened
<1>1. HandedOut = Opened
  BY DEF Level, TwoReads, LevelTypes, HandedOut, Opened
<1>2. Path(leaf) \subseteq Buckets
  BY PathInBuckets
<1>3. \A b : b \in Opening(leaf) <=> b \in Path(leaf) /\ b \in Buckets \ Opened
  BY <1>1, <1>2 DEF Opening
<1>4. \A id \in Ids : id \in Received(leaf) <=> \E b \in Path(leaf) : InTree(id, b)
  BY <1>3 DEF Received, InTree
<1>5. Received(leaf) \subseteq Ids
  BY <1>3 DEF Received, Level, LevelTypes, IsNodeMap, IsMap
<1>6. ASSUME NEW id \in Received(leaf)
      PROVE  \E b \in Path(leaf) : InTree(id, b) /\ CopyOf(id, leaf) = tree[b][id]
  <2> DEFINE rows    == {d \in 0 .. Depth : Node(leaf, d) \in Opening(leaf)
                                           /\ id \in DOMAIN tree[Node(leaf, d)]}
             deepest == CHOOSE d \in rows : \A e \in rows : e <= d
  <2>1. rows \subseteq 0 .. Depth /\ rows # {}
    BY <1>3, <1>6 DEF Path, Received
  <2>2. \A d \in rows : Node(leaf, d) \in Path(leaf) /\ InTree(id, Node(leaf, d))
    BY <1>3 DEF InTree
  <2>3. CopyOf(id, leaf) = tree[Node(leaf, deepest)][id]
    BY DEF CopyOf
  <2> HIDE DEF rows
  <2>4. \E d \in rows : \A e \in rows : e <= d
    BY <2>1, GreatestUpTo, ConstantsAssumption
  <2> QED BY <2>2, <2>3, <2>4
<1>7. ASSUME NEW id \in Received(leaf) PROVE CopyOf(id, leaf) \in Nodes
  BY <1>5, <1>6 DEF InTree, Level, LevelTypes, IsNodeMap, IsMap
<1>8. IsNodeMap(Fetched(leaf))
  BY <1>5, <1>7 DEF Fetched, Override, Level, LevelTypes, IsNodeMap, IsMap
<1>9. ASSUME NEW id \in Ids \ H
      PROVE  /\ id \in DOMAIN cache => id \notin Received(leaf)
             /\ \A b \in Path(leaf) : InTree(id, b) => CopyOf(id, leaf) = tree[b][id]
  BY <1>4, <1>6 DEF Level, AtMostOnce, Local
<1> QED BY <1>1, <1>4, <1>8, <1>9 DEF ReadsLevel, Fetched, Override

\* What a read leaves of a node outside H.
KeepsOne(id, R, N) ==
  /\ id \in DOMAIN N =>
       /\ id \notin DOMAIN held /\ id \notin DOMAIN fresh
       /\ \A b : ~InOut(id, b) /\ (InTree(id, b) => b \in R)
  /\ id \in DOMAIN parentPos <=>
       \/ id \in DOMAIN held \/ id \in DOMAIN fresh \/ id \in DOMAIN N
       \/ \E b : InOut(id, b) \/ (InTree(id, b) /\ b \notin R)
  /\ id \in DOMAIN parentPos /\ id \in DOMAIN N => N[id].pos = parentPos[id]

LEMMA ReadsKeepOne ==
  ASSUME NEW H, Level(H), NEW R, NEW N, ReadsLevel(H, R, N), NEW id \in Ids \ H
  PROVE  KeepsOne(id, R, N)
<1>1. id \in DOMAIN N <=> id \in DOMAIN cache \/ \E b \in R : InTree(id, b)
  BY DEF ReadsLevel
<1>2. AtMostOnce(id) /\ There(id) /\ InPlace(id)
  BY DEF Level
<1>3. ASSUME id \in DOMAIN N
      PROVE  /\ id \notin DOMAIN held /\ id \notin DOMAIN fresh
             /\ \A b : ~InOut(id, b) /\ (InTree(id, b) => b \in R)
  <2>1. CASE id \in DOMAIN cache
    BY <1>2, <2>1 DEF AtMostOnce, Local
  <2>2. CASE \E b \in R : InTree(id, b)
    BY <1>2, <2>2 DEF AtMostOnce, Local
  <2> QED BY <1>1, <1>3, <2>1, <2>2
<1>4. id \in DOMAIN parentPos <=>
        \/ id \in DOMAIN held \/ id \in DOMAIN fresh \/ id \in DOMAIN N
        \/ \E b : InOut(id, b) \/ (InTree(id, b) /\ b \notin R)
  BY <1>1, <1>2 DEF There, Local
<1>5. id \in DOMAIN parentPos /\ id \in DOMAIN N => N[id].pos = parentPos[id]
  BY <1>1, <1>2 DEF InPlace, ReadsLevel
<1> QED BY <1>3, <1>4, <1>5 DEF KeepsOne

\* Reading node x opens a set R of buckets.  A node outside H is found.
ReadsNode(H, x, R) ==
  /\ R \subseteq Buckets
  /\ ReadsLevel(H, R, Looked(x))
  /\ x \notin H => Finds(x)
  /\ tree' = tree
  /\ modified' = IF Finds(x) THEN modified \cup {x} ELSE modified
  /\ leafList' \subseteq Positions
  /\ UNION {Path(leaf) : leaf \in leafList'} \subseteq Opened \cup R
  /\ \/ R = {} /\ readCnt' = readCnt /\ UNCHANGED <<readview, recvCount>>
     \/ readCnt' = readCnt + 1 /\ readview' = Opened \cup R /\ recvCount' = 1 - recvCount

LEMMA ReadIsOfLevel ==
  ASSUME NEW H, Level(H), pc = "access", \A y, z \in DOMAIN held : y = z,
         NEW x \in DOMAIN parentPos \ DOMAIN held, ReadBookkeeping(x)
  PROVE  \E R : ReadsNode(H, x, R)
<1>0. x \in Ids /\ parentPos[x] \in Positions
  BY DEF Level, LevelTypes, IsMap
<1>1. CASE x \in DOMAIN cache
  <2>1. ReadsLevel(H, {}, cache)
    BY DEF ReadsLevel, Level, LevelTypes
  <2>2. ReadsNode(H, x, {})
    BY <1>0, <1>1, <2>1 DEF ReadsNode, Looked, Finds, ReadBookkeeping, server, Level,
                            LevelTypes, RewritesOnlyRead
  <2> QED BY <2>2
<1>2. CASE x \notin DOMAIN cache
  <2> DEFINE leaf == parentPos[x]
  <2>1. readCnt <= 1
    BY DEF Level, Phase
  <2>2. ReadsLevel(H, Path(leaf), Fetched(leaf)) /\ HandedOut = Opened
    BY <1>0, <2>1, FetchReadsLevel
  <2>3. Looked(x) = Fetched(leaf)
    BY <1>2 DEF Looked
  <2>4. x \notin H => Finds(x)
    <3> SUFFICES ASSUME x \notin H PROVE x \in DOMAIN Fetched(leaf)
      BY <2>3 DEF Finds
    <3>1. ~Local(x)
      BY <1>2 DEF Local, Level, Phase
    <3>2. \A b : ~InOut(x, b)
      BY DEF InOut, Level, RewritesOnlyRead, NoNodes
    <3>3. There(x) /\ InPlace(x)
      BY <1>0 DEF Level
    <3>4. PICK b : InTree(x, b)
      BY <3>1, <3>2, <3>3 DEF There
    <3>5. b \in Path(leaf)
      BY <3>3, <3>4 DEF InPlace
    <3> QED BY <1>0, <2>2, <3>4, <3>5 DEF ReadsLevel
  <2>5. /\ modified' = IF Finds(x) THEN modified \cup {x} ELSE modified
        /\ leafList' = leafList \cup {leaf} \/ leafList' = leafList
        /\ FetchPath(leaf)
    BY <1>2 DEF ReadBookkeeping
  <2>6. /\ leafList' \subseteq Positions
        /\ UNION {Path(l) : l \in leafList'} \subseteq Opened \cup Path(leaf)
    BY <1>0, <2>5 DEF Level, LevelTypes, RewritesOnlyRead
  <2>7. ReadsNode(H, x, Path(leaf))
    BY <1>0, <2>2, <2>3, <2>4, <2>5, <2>6, PathInBuckets DEF ReadsNode, FetchPath
  <2> QED BY <2>7
<1> QED BY <1>1, <1>2

-----------------------------------------------------------------------------
(***************************************************************************)
(* The steps of an operation keep the level in order outside H.            *)
(***************************************************************************)
LEMMA PartInitLevel == ASSUME NEW H, Level(H), PartInit PROVE Level(H)'
<1>1. Opened' = {} /\ Opened = {}
  BY DEF PartInit, Opened
<1>2. LevelTypes' /\ Phase' /\ TwoReads' /\ pc' # "idle"
  BY DEF Level, LevelTypes, Phase, TwoReads, PartInit, server, NoNodes, IsNodeMap, IsMap, Nodes,
         Taken
<1>3. RewritesOnlyRead'
  BY <1>1 DEF Level, RewritesOnlyRead, PartInit, Phase
<1>4. TakenWereFound(H)'
  BY DEF Level, Phase, TakenWereFound, PartInit
<1>5. ASSUME NEW id \in Ids \ H
      PROVE  AtMostOnce(id)' /\ There(id)' /\ InPlace(id)'
  <2>1. AtMostOnce(id) /\ There(id) /\ InPlace(id)
    BY DEF Level
  <2> QED
    BY <1>1, <2>1 DEF AtMostOnce, There, InPlace, Local, InTree, InOut, PartInit, server
<1> QED BY <1>2, <1>3, <1>4, <1>5 DEF Level

LEMMA SearchEmptyLevel == ASSUME NEW H, Level(H), SearchEmpty PROVE Level(H)'
<1> USE DEF client, server, evict
<1>1. Opened' = Opened
  BY DEF SearchEmpty, Opened
<1>2. LevelTypes' /\ Phase' /\ TwoReads' /\ pc' = "writeback"
  <2>1. DOMAIN held = {}
    BY DEF SearchEmpty, Level, Phase
  <2>2. IsNodeMap(held)
    BY <2>1 DEF Level, LevelTypes, IsNodeMap, IsMap
  <2> QED BY <2>2 DEF Level, LevelTypes, Phase, TwoReads, SearchEmpty, IsNodeMap, IsMap
<1>3. RewritesOnlyRead' /\ TakenWereFound(H)'
  BY <1>1, <1>2 DEF Level, RewritesOnlyRead, TakenWereFound, SearchEmpty
<1>4. ASSUME NEW id \in Ids \ H
      PROVE  AtMostOnce(id)' /\ There(id)' /\ InPlace(id)'
  <2>1. AtMostOnce(id) /\ There(id) /\ InPlace(id)
    BY DEF Level
  <2> QED
    BY <1>1, <2>1 DEF AtMostOnce, There, InPlace, Local, InTree, InOut, SearchEmpty
<1> QED BY <1>2, <1>3, <1>4 DEF Level

\* What the reading of node x gives the steps that do it.
ReadSets(H, x, R) ==
  /\ Opened' = Opened \cup R
  /\ \A id \in Ids \ H : KeepsOne(id, R, Looked(x))
  /\ Finds(x) => Looked(x)[x] \in Nodes /\ NodeRead(x) \in Nodes /\ NodeRead(x).pos = parentPos[x]
  /\ Finds(x) /\ x \notin H => NodeRead(x) = Looked(x)[x]
  /\ readCnt' \in 0 .. 2 /\ recvCount' \in {0, 1} /\ readview' \subseteq Buckets
  /\ readCnt <= 1 /\ recvCount = readCnt /\ recvCount' = IF readCnt' = 1 THEN 1 ELSE 0
  /\ DOMAIN held = {} => readCnt' <= 1

LEMMA ReadGives ==
  ASSUME NEW H, Level(H), pc = "access", \A y, z \in DOMAIN held : y = z,
         NEW x \in DOMAIN parentPos \ DOMAIN held, NEW R, ReadsNode(H, x, R),
         pc' \in {"access", "writeback"}
  PROVE  ReadSets(H, x, R)
<1> DEFINE N == Looked(x)
<1>1. x \in Ids /\ parentPos[x] \in Positions
  BY DEF Level, LevelTypes, IsMap
<1>2. readCnt \in {0, 1} /\ recvCount = readCnt /\ (DOMAIN held = {} => readCnt = 0)
  BY DEF Level, Phase, TwoReads, LevelTypes
<1>3. \A id \in Ids \ H : KeepsOne(id, R, N)
  BY ReadsKeepOne DEF ReadsNode
<1>4. Finds(x) => N[x] \in Nodes /\ NodeRead(x) \in Nodes /\ NodeRead(x).pos = parentPos[x]
  <2>1. Finds(x) => N[x] \in Nodes
    BY DEF ReadsNode, ReadsLevel, Finds, IsNodeMap, IsMap
  <2> QED BY <1>1, <2>1 DEF NodeRead, Nodes
<1>5. ASSUME Finds(x), x \notin H PROVE NodeRead(x) = N[x]
  <2>1. N[x].pos = parentPos[x]
    BY <1>1, <1>3, <1>5 DEF KeepsOne, Finds
  <2> QED BY <1>4, <1>5, <2>1 DEF NodeRead, Nodes
<1>6. /\ readCnt' \in 0 .. 2 /\ recvCount' \in {0, 1}
      /\ recvCount' = IF readCnt' = 1 THEN 1 ELSE 0
      /\ DOMAIN held = {} => readCnt' <= 1
  BY <1>2 DEF ReadsNode
<1>7. Opened \subseteq Buckets /\ readview' \subseteq Buckets
  BY DEF ReadsNode, Level, LevelTypes, Opened
<1>8. Opened' = Opened \cup R
  BY <1>2 DEF ReadsNode, Opened
<1> HIDE DEF N
<1> QED BY <1>2, <1>3, <1>4, <1>5, <1>6, <1>7, <1>8 DEF ReadSets, N

LEMMA SearchNodeLevel ==
  ASSUME NEW H, Level(H), NEW x \in Ids, SearchNode(x) PROVE Level(H)'
<1> DEFINE N == Looked(x)
<1>1. /\ pc = "access" /\ DOMAIN held = {} /\ pc' = "writeback" /\ ReadBookkeeping(x)
      /\ x \in DOMAIN parentPos
      /\ held' = held /\ fresh' = fresh /\ parentPos' = parentPos
      /\ writeview' = writeview /\ outbuf' = outbuf
  BY DEF SearchNode, NoNodes, evict
<1>2. PICK R : ReadsNode(H, x, R)
  BY <1>1, ReadIsOfLevel
<1>3. ReadSets(H, x, R)
  BY <1>1, <1>2, ReadGives
<1>4. /\ IsNodeMap(cache') /\ DOMAIN cache' = DOMAIN N
      /\ \A id \in Ids \ H : id \in DOMAIN N => cache'[id] = N[id]
  <2>1. IsNodeMap(N)
    BY <1>2 DEF ReadsNode, ReadsLevel
  <2>2. cache' = IF Finds(x) /\ x \notin DOMAIN cache THEN Put(N, x, NodeRead(x)) ELSE N
    BY DEF SearchNode
  <2>3. /\ Finds(x) <=> x \in DOMAIN N
        /\ Finds(x) => NodeRead(x) \in Nodes
        /\ Finds(x) /\ x \notin H => NodeRead(x) = N[x]
    BY <1>3 DEF ReadSets, Finds
  <2> HIDE DEF N
  <2> QED BY <2>1, <2>2, <2>3 DEF Put, IsNodeMap, IsMap
<1>5. LevelTypes'
  <2>1. tree' = tree /\ modified' \subseteq Ids /\ leafList' \subseteq Positions
    BY <1>2 DEF ReadsNode, Level, LevelTypes
  <2>2. IsNodeMap(held)
    BY <1>1 DEF Level, LevelTypes, IsNodeMap, IsMap
  <2> QED BY <1>1, <1>3, <1>4, <2>1, <2>2 DEF ReadSets, Level, LevelTypes
<1>6. Phase' /\ TwoReads'
  <2>1. readCnt' <= 1 /\ recvCount' = IF readCnt' = 1 THEN 1 ELSE 0
    BY <1>1, <1>3 DEF ReadSets
  <2>2. DOMAIN fresh = {} /\ writeview = {}
    BY <1>1 DEF Level, Phase
  <2>3. readCnt' <= 2
    BY <1>3 DEF ReadSets
  <2> QED BY <1>1, <2>1, <2>2, <2>3 DEF Phase, TwoReads
<1>7. RewritesOnlyRead' /\ TakenWereFound(H)'
  BY <1>1, <1>2, <1>3 DEF ReadsNode, ReadSets, Level, RewritesOnlyRead, TakenWereFound
<1>8. ASSUME NEW id \in Ids \ H
      PROVE  AtMostOnce(id)' /\ There(id)' /\ InPlace(id)'
  <2>1. AtMostOnce(id) /\ There(id) /\ InPlace(id)
    BY DEF Level
  <2>2. KeepsOne(id, R, N)
    BY <1>3 DEF ReadSets
  <2>3. tree' = tree
    BY <1>2 DEF ReadsNode
  <2>4. \A b : (InTree(id, b)' <=> InTree(id, b) /\ b \notin R) /\ (InOut(id, b)' <=> InOut(id, b))
    BY <1>1, <1>3, <2>3 DEF InTree, InOut, ReadSets
  <2>5. AtMostOnce(id)' /\ There(id)'
    BY <1>1, <1>4, <2>1, <2>2, <2>4 DEF KeepsOne, AtMostOnce, There, Local
  <2>6. InPlace(id)'
    BY <1>1, <1>4, <2>1, <2>2, <2>3, <2>4 DEF KeepsOne, InPlace
  <2> QED BY <2>5, <2>6
<1> QED BY <1>1, <1>5, <1>6, <1>7, <1>8 DEF Level

LEMMA TakeNodeLevel ==
  ASSUME NEW H, Level(H), NEW x \in Ids, NEW random \in Positions, TakeNode(x, random)
  PROVE  Level(H)'
<1> DEFINE N == Looked(x)
           n == IF Finds(x) THEN NodeRead(x) ELSE [pos |-> random, val |-> NoVal]
<1>1. /\ pc = "access" /\ pc' = pc /\ ReadBookkeeping(x)
      /\ \A y, z \in DOMAIN held : y = z
      /\ x \in DOMAIN parentPos \ DOMAIN held
      /\ fresh' = fresh /\ parentPos' = parentPos
      /\ writeview' = writeview /\ outbuf' = outbuf
      /\ cache' = Drop(N, {x}) /\ held' = Put(held, x, n)
  BY DEF TakeNode, evict
<1>2. PICK R : ReadsNode(H, x, R)
  BY <1>1, ReadIsOfLevel
<1>3. ReadSets(H, x, R)
  BY <1>1, <1>2, ReadGives
<1>4. n \in Taken /\ (x \notin H => x \in DOMAIN N /\ n = N[x])
  BY <1>2, <1>3 DEF ReadSets, ReadsNode, Finds, Taken, Nodes
<1>5. /\ DOMAIN held' = DOMAIN held \cup {x} /\ DOMAIN cache' = DOMAIN N \ {x}
      /\ \A id \in DOMAIN held : held'[id] = held[id]
      /\ held'[x] = n
      /\ \A id \in DOMAIN cache' : cache'[id] = N[id]
      /\ IsNodeMap(cache') /\ IsMap(held', Ids, Taken)
  <2>1. IsNodeMap(N) /\ IsMap(held, Ids, Taken)
    BY <1>2 DEF ReadsNode, ReadsLevel, Level, LevelTypes
  <2> HIDE DEF N, n
  <2> QED BY <1>1, <1>4, <2>1 DEF Put, Drop, IsNodeMap, IsMap
<1>6. LevelTypes'
  <2>1. tree' = tree /\ modified' \subseteq Ids /\ leafList' \subseteq Positions
    BY <1>2 DEF ReadsNode, Level, LevelTypes
  <2> QED BY <1>1, <1>3, <1>5, <2>1 DEF ReadSets, Level, LevelTypes
<1>7. Phase' /\ TwoReads'
  <2>1. /\ readCnt' <= 2 /\ recvCount' = IF readCnt' = 1 THEN 1 ELSE 0
        /\ DOMAIN held = {} => readCnt' <= 1
    BY <1>3 DEF ReadSets
  <2>2. DOMAIN fresh = {} /\ writeview = {} /\ DOMAIN held \subseteq DOMAIN parentPos
    BY <1>1 DEF Level, Phase
  <2>3. DOMAIN held = {} \/ ~(\A y, z \in DOMAIN held' : y = z)
    <3>1. x \notin DOMAIN held /\ DOMAIN held' = DOMAIN held \cup {x}
      BY <1>1, <1>5
    <3> QED BY <3>1
  <2>4. DOMAIN held' # {} /\ DOMAIN held' \subseteq DOMAIN parentPos
    BY <1>1, <1>5, <2>2
  <2> QED BY <1>1, <2>1, <2>2, <2>3, <2>4 DEF Phase, TwoReads
<1>8. RewritesOnlyRead' /\ TakenWereFound(H)'
  BY <1>1, <1>2, <1>3, <1>5 DEF ReadsNode, ReadSets, Level, RewritesOnlyRead, TakenWereFound
<1>9. ASSUME NEW id \in Ids \ H
      PROVE  AtMostOnce(id)' /\ There(id)' /\ InPlace(id)'
  <2>1. AtMostOnce(id) /\ There(id) /\ InPlace(id)
    BY DEF Level
  <2>2. KeepsOne(id, R, N)
    BY <1>3 DEF ReadSets
  <2>3. tree' = tree
    BY <1>2 DEF ReadsNode
  <2>4. \A b : (InTree(id, b)' <=> InTree(id, b) /\ b \notin R) /\ (InOut(id, b)' <=> InOut(id, b))
    BY <1>1, <1>3, <2>3 DEF InTree, InOut, ReadSets
  <2>5. id = x => x \in DOMAIN N
    BY <1>4
  <2>6. AtMostOnce(id)' /\ There(id)'
    BY <1>1, <1>5, <2>1, <2>2, <2>4, <2>5 DEF KeepsOne, AtMostOnce, There, Local
  <2>7. InPlace(id)'
    <3> HIDE DEF N, n
    <3>1. id = x => held'[id] = N[id]
      BY <1>4, <1>5
    <3> QED BY <1>1, <1>5, <2>1, <2>2, <2>3, <2>4, <2>5, <3>1 DEF KeepsOne, InPlace
  <2> QED BY <2>6, <2>7
<1> QED BY <1>1, <1>6, <1>7, <1>8, <1>9 DEF Level

LEMMA ChangeLevel ==
  ASSUME NEW H, Level(H), NEW h, NEW f, IsNodeMap(h), IsNodeMap(f),
         DOMAIN h \cap DOMAIN f = {},
         \A x, y \in DOMAIN f : x = y,
         DOMAIN f # {} => readCnt <= 1,
         Change(h, f)
  PROVE  Level(H)'
<1> USE DEF evict, server
<1>1. Opened' = Opened
  BY DEF Change, Opened
<1>2. /\ DOMAIN parentPos' = (DOMAIN parentPos \ DOMAIN held) \cup DOMAIN h \cup DOMAIN f
      /\ \A id \in DOMAIN parentPos \ DOMAIN held :
           id \notin DOMAIN h \cup DOMAIN f => parentPos'[id] = parentPos[id]
      /\ \A id \in DOMAIN h : parentPos'[id] = h[id].pos
      /\ \A id \in DOMAIN f : parentPos'[id] = f[id].pos
  BY DEF Change, Override, Drop
<1>3. LevelTypes'
  <2>1. parentPos' \in [DOMAIN parentPos' -> Positions]
    <3>1. \A id \in DOMAIN parentPos' : parentPos'[id] \in Positions
      BY <1>2 DEF IsNodeMap, IsMap, Nodes, Level, LevelTypes
    <3>2. parentPos' = [id \in DOMAIN parentPos' |-> parentPos'[id]]
      BY DEF Change, Override
    <3> QED BY <3>1, <3>2
  <2>2. DOMAIN parentPos' \subseteq Ids
    BY <1>2 DEF IsNodeMap, IsMap, Level, LevelTypes
  <2>3. held' = h /\ fresh' = f /\ IsMap(h, Ids, Taken)
    BY DEF Change, IsNodeMap, IsMap, Nodes, Taken
  <2> QED BY <2>1, <2>2, <2>3 DEF Level, LevelTypes, Change, IsMap, IsNodeMap
<1>4. Phase' /\ TwoReads' /\ pc' = "writeback"
  BY DEF Level, Phase, TwoReads, LevelTypes, Change
<1>5. RewritesOnlyRead' /\ TakenWereFound(H)'
  BY <1>1, <1>4 DEF Level, RewritesOnlyRead, TakenWereFound, Change
<1>6. /\ held' = h /\ fresh' = f /\ cache' = cache /\ DOMAIN fresh = {}
      /\ DOMAIN h \cup DOMAIN f \subseteq (Ids \ DOMAIN parentPos) \cup DOMAIN held
      /\ DOMAIN held \subseteq DOMAIN parentPos
      /\ tree' = tree /\ outbuf' = outbuf
  BY DEF Change, Free, Level, Phase
<1>7. ASSUME NEW id \in Ids \ H
      PROVE  AtMostOnce(id)' /\ There(id)' /\ InPlace(id)'
  <2>1. AtMostOnce(id) /\ There(id) /\ InPlace(id)
    BY DEF Level
  <2>2. \A b : (InTree(id, b)' <=> InTree(id, b)) /\ (InOut(id, b)' <=> InOut(id, b))
    BY <1>1, <1>6 DEF InTree, InOut
  <2>3. id \in DOMAIN h \cup DOMAIN f \cup DOMAIN held =>
          id \notin DOMAIN cache /\ \A b : ~InTree(id, b) /\ ~InOut(id, b)
    BY <1>6, <2>1 DEF AtMostOnce, There, Local
  <2>4. AtMostOnce(id)'
    BY <1>6, <2>1, <2>2, <2>3 DEF AtMostOnce, Local
  <2>5. There(id)'
    BY <1>2, <1>6, <2>1, <2>2, <2>3 DEF There, Local
  <2>6. InPlace(id)'
    BY <1>2, <1>6, <2>1, <2>2, <2>3 DEF InPlace
  <2> QED BY <2>4, <2>5, <2>6
<1> QED BY <1>3, <1>4, <1>5, <1>7 DEF Level

\* The changes operations make: at most two nodes become at most two.
ChangesTo(h, f) ==
  /\ IsNodeMap(h) /\ IsNodeMap(f)
  /\ DOMAIN h \cap DOMAIN f = {}
  /\ \A x, y \in DOMAIN f : x = y
  /\ DOMAIN f # {} => \A x, y \in DOMAIN held : x = y
  /\ \E x, y \in Ids : DOMAIN held \subseteq {x, y}
  /\ \E x, y \in Ids : DOMAIN h \cup DOMAIN f \subseteq {x, y}
  /\ Change(h, f)

LEMMA ChangeNodesChange ==
  ASSUME NEW H, Level(H),
         NEW id \in Ids, NEW nb \in Ids, NEW new \in Ids, NEW newNb \in Ids,
         NEW v \in Vals, NEW w \in Vals, NEW random \in Positions,
         \/ FirstNode(id, v, random)
         \/ ChangeNode(id, new, v)
         \/ SplitNode(id, new, newNb, v, w, random)
         \/ RearrangeNodes(id, nb, new, newNb, v, w)
         \/ MergeNodes(id, nb, newNb, v)
  PROVE  \E h, f : ChangesTo(h, f)
<1>1. \A x \in DOMAIN held, u \in Vals : [held[x] EXCEPT !.val = u] \in Nodes
  BY DEF Level, LevelTypes, IsMap, Taken, Nodes
<1>2. [pos |-> random, val |-> v] \in Nodes /\ [pos |-> random, val |-> w] \in Nodes
  BY DEF Nodes
<1>3. CASE FirstNode(id, v, random)
  <2> DEFINE f == Singleton(id, [pos |-> random, val |-> v])
  <2>1. DOMAIN held = {} /\ Change(NoNodes, f)
    BY <1>3 DEF FirstNode, Change, Level, Phase
  <2>2. IsNodeMap(NoNodes) /\ IsNodeMap(f) /\ DOMAIN NoNodes = {} /\ DOMAIN f = {id}
    BY <1>2, NodeMapFacts
  <2> HIDE DEF f
  <2>3. ChangesTo(NoNodes, f)
    BY <2>1, <2>2 DEF ChangesTo
  <2> QED BY <2>3
<1>4. CASE ChangeNode(id, new, v)
  <2> DEFINE h == Singleton(new, [held[id] EXCEPT !.val = v])
  <2>1. DOMAIN held = {id} /\ Change(h, NoNodes)
    BY <1>4 DEF ChangeNode
  <2>2. IsNodeMap(NoNodes) /\ IsNodeMap(h) /\ DOMAIN NoNodes = {} /\ DOMAIN h = {new}
    BY <1>1, <2>1, NodeMapFacts
  <2> HIDE DEF h
  <2>3. ChangesTo(h, NoNodes)
    BY <2>1, <2>2 DEF ChangesTo
  <2> QED BY <2>3
<1>5. CASE SplitNode(id, new, newNb, v, w, random)
  <2> DEFINE h == Singleton(new, [held[id] EXCEPT !.val = v])
             f == Singleton(newNb, [pos |-> random, val |-> w])
  <2>1. DOMAIN held = {id} /\ Change(h, f) /\ new # newNb
    BY <1>5 DEF SplitNode
  <2>2. IsNodeMap(h) /\ IsNodeMap(f) /\ DOMAIN h = {new} /\ DOMAIN f = {newNb}
    BY <1>1, <1>2, <2>1, NodeMapFacts
  <2> HIDE DEF h, f
  <2>3. ChangesTo(h, f)
    BY <2>1, <2>2 DEF ChangesTo
  <2> QED BY <2>3
<1>6. CASE RearrangeNodes(id, nb, new, newNb, v, w)
  <2> DEFINE h == Put(Singleton(newNb, [held[nb] EXCEPT !.val = w]),
                      new, [held[id] EXCEPT !.val = v])
  <2>1. DOMAIN held = {id, nb} /\ Change(h, NoNodes)
    BY <1>6 DEF RearrangeNodes
  <2>2. /\ IsNodeMap(NoNodes) /\ IsNodeMap(h) /\ DOMAIN NoNodes = {}
        /\ DOMAIN h = {newNb, new}
    BY <1>1, <2>1, NodeMapFacts, SMTT(30) DEF Put, Singleton
  <2> HIDE DEF h
  <2>3. ChangesTo(h, NoNodes)
    BY <2>1, <2>2 DEF ChangesTo
  <2> QED BY <2>3
<1>7. CASE MergeNodes(id, nb, newNb, v)
  <2> DEFINE h == Singleton(newNb, [held[nb] EXCEPT !.val = v])
  <2>1. DOMAIN held = {id, nb} /\ Change(h, NoNodes)
    BY <1>7 DEF MergeNodes
  <2>2. IsNodeMap(NoNodes) /\ IsNodeMap(h) /\ DOMAIN NoNodes = {} /\ DOMAIN h = {newNb}
    BY <1>1, <2>1, NodeMapFacts
  <2> HIDE DEF h
  <2>3. ChangesTo(h, NoNodes)
    BY <2>1, <2>2 DEF ChangesTo
  <2> QED BY <2>3
<1> QED BY <1>3, <1>4, <1>5, <1>6, <1>7

LEMMA AccessIs ==
  ASSUME NEW H, Level(H), Access
  PROVE  \/ SearchEmpty
         \/ \E id \in Ids : SearchNode(id)
         \/ \E id \in Ids, random \in Positions : TakeNode(id, random)
         \/ \E h, f : ChangesTo(h, f)
<1>1. ASSUME \E id \in DOMAIN held : TRUE, pc = "access"
      PROVE  \E random : random \in Positions
  BY <1>1 DEF Level, Phase, LevelTypes, IsMap
<1>2. CASE \E id \in Ids, v \in Vals, random \in Positions : FirstNode(id, v, random)
  BY <1>2, ChangeNodesChange
<1>3. CASE \E id, new \in Ids, v \in Vals : ChangeNode(id, new, v)
  <2>1. \E random : random \in Positions
    BY <1>1, <1>3 DEF ChangeNode, Change
  <2> QED BY <1>3, <2>1, ChangeNodesChange
<1>4. CASE \E id, lo, hi \in Ids, v, w \in Vals, random \in Positions :
             SplitNode(id, lo, hi, v, w, random)
  BY <1>4, ChangeNodesChange
<1>5. CASE \E id, nb, new, newNb \in Ids, v, w \in Vals :
             RearrangeNodes(id, nb, new, newNb, v, w)
  <2>1. \E random : random \in Positions
    BY <1>1, <1>5 DEF RearrangeNodes, Change
  <2> QED BY <1>5, <2>1, ChangeNodesChange
<1>6. CASE \E id, nb, newNb \in Ids, v \in Vals : MergeNodes(id, nb, newNb, v)
  <2>1. \E random : random \in Positions
    BY <1>1, <1>6 DEF MergeNodes, Change
  <2> QED BY <1>6, <2>1, ChangeNodesChange
<1> QED BY <1>2, <1>3, <1>4, <1>5, <1>6 DEF Access

LEMMA AccessLevel == ASSUME NEW H, Level(H), Access PROVE Level(H)'
<1>1. ASSUME NEW h, NEW f, ChangesTo(h, f) PROVE Level(H)'
  <2>1. DOMAIN f # {} => readCnt <= 1
    BY <1>1 DEF ChangesTo, Change, Level, Phase
  <2> QED BY <1>1, <2>1, ChangeLevel DEF ChangesTo
<1> QED BY <1>1, AccessIs, SearchEmptyLevel, SearchNodeLevel, TakeNodeLevel

LEMMA WriteHeldLevel ==
  ASSUME NEW H, Level(H), NEW x \in Ids, WriteHeld(x) PROVE Level(H)'
<1> USE DEF evict, server
<1>1. Opened' = Opened
  BY DEF WriteHeld, Opened
<1>2. LevelTypes'
  <2>1. IsNodeMap(held) /\ x \in DOMAIN held /\ IsNodeMap(cache)
    BY DEF WriteHeld, Level, LevelTypes
  <2>2. IsNodeMap(held') /\ IsNodeMap(cache')
    BY <2>1 DEF WriteHeld, IsNodeMap, IsMap, Put, Drop
  <2>3. IsMap(held', Ids, Taken)
    BY <2>2 DEF IsNodeMap, IsMap, Nodes, Taken
  <2> QED BY <2>2, <2>3 DEF Level, LevelTypes, WriteHeld
<1>3. Phase' /\ TwoReads' /\ pc' = "writeback"
  BY DEF Level, Phase, TwoReads, WriteHeld
<1>4. RewritesOnlyRead' /\ TakenWereFound(H)'
  BY <1>1, <1>3 DEF Level, RewritesOnlyRead, TakenWereFound, WriteHeld
<1>5. /\ DOMAIN held' = DOMAIN held \ {x} /\ DOMAIN cache' = DOMAIN cache \cup {x}
      /\ \A id \in DOMAIN held' : held'[id] = held[id]
      /\ \A id \in DOMAIN cache : id # x => cache'[id] = cache[id]
      /\ cache'[x] = held[x] /\ x \in DOMAIN held
      /\ fresh' = fresh /\ parentPos' = parentPos /\ tree' = tree /\ outbuf' = outbuf
  BY DEF WriteHeld, Put, Drop
<1>6. ASSUME NEW id \in Ids \ H
      PROVE  AtMostOnce(id)' /\ There(id)' /\ InPlace(id)'
  <2>1. AtMostOnce(id) /\ There(id) /\ InPlace(id)
    BY DEF Level
  <2>2. \A b : (InTree(id, b)' <=> InTree(id, b)) /\ (InOut(id, b)' <=> InOut(id, b))
    BY <1>1, <1>5 DEF InTree, InOut
  <2>3. AtMostOnce(id)' /\ There(id)'
    BY <1>5, <2>1, <2>2 DEF AtMostOnce, There, Local
  <2>4. InPlace(id)'
    BY <1>5, <2>1, <2>2 DEF InPlace
  <2> QED BY <2>3, <2>4
<1> QED BY <1>2, <1>3, <1>4, <1>6 DEF Level

LEMMA WriteFreshLevel ==
  ASSUME NEW H, Level(H), NEW x \in Ids, WriteFresh(x) PROVE Level(H)'
<1> DEFINE leaf == fresh[x].pos
           N == Fetched(leaf)
<1> USE DEF evict
<1>1. /\ leaf \in Positions /\ fresh[x] \in Nodes /\ readCnt <= 1 /\ x \in DOMAIN fresh
      /\ \A y \in DOMAIN fresh : y = x
  BY DEF WriteFresh, Level, LevelTypes, Phase, IsNodeMap, IsMap, Nodes
<1>2. ReadsLevel(H, Path(leaf), N) /\ HandedOut = Opened
  BY <1>1, FetchReadsLevel DEF WriteFresh
<1>3. \A id \in Ids \ H : KeepsOne(id, Path(leaf), N)
  BY <1>2, ReadsKeepOne
<1>4. Opened' = Opened \cup Path(leaf)
  BY <1>2 DEF Opened, WriteFresh, FetchPath, Level, LevelTypes
<1>5. Path(leaf) \subseteq Buckets /\ Opened \subseteq Buckets
  BY <1>1, PathInBuckets DEF Level, LevelTypes, Opened
<1>6. /\ DOMAIN fresh' = {} /\ DOMAIN cache' = DOMAIN N \cup {x}
      /\ \A id \in DOMAIN N : id # x => cache'[id] = N[id]
      /\ cache'[x] = fresh[x]
      /\ held' = held /\ parentPos' = parentPos /\ tree' = tree /\ outbuf' = outbuf
  BY <1>1 DEF WriteFresh, FetchPath, Put, Drop
<1>7. LevelTypes'
  <2>1. IsNodeMap(cache') /\ IsNodeMap(fresh')
    BY <1>1, <1>2 DEF WriteFresh, Level, LevelTypes, IsNodeMap, IsMap, Put, Drop, ReadsLevel
  <2>2. readCnt' \in 0 .. 2 /\ recvCount' \in {0, 1}
    BY <1>1 DEF WriteFresh, FetchPath, Level, LevelTypes
  <2> QED
    BY <1>1, <1>2, <1>5, <2>1, <2>2 DEF WriteFresh, FetchPath, Level, LevelTypes
<1>8. Phase' /\ TwoReads' /\ pc' = "writeback"
  <2>1. /\ readCnt \in {0, 1} /\ recvCount = readCnt
        /\ readCnt' = readCnt + 1 /\ recvCount' = 1 - recvCount
    BY <1>1 DEF Level, TwoReads, LevelTypes, WriteFresh, FetchPath
  <2>2. pc' = "writeback" /\ DOMAIN fresh' = {} /\ writeview' = {}
    BY <1>6 DEF WriteFresh, Level, Phase
  <2>3. TwoReads'
    BY <2>1, <2>2 DEF TwoReads
  <2>4. Phase'
    BY <2>2 DEF Phase
  <2> QED BY <2>2, <2>3, <2>4
<1>9. RewritesOnlyRead' /\ TakenWereFound(H)'
  BY <1>4, <1>8 DEF Level, RewritesOnlyRead, TakenWereFound, WriteFresh
<1>10. ASSUME NEW id \in Ids \ H
       PROVE  AtMostOnce(id)' /\ There(id)' /\ InPlace(id)'
  <2> HIDE DEF leaf, N
  <2>1. AtMostOnce(id) /\ There(id) /\ InPlace(id)
    BY DEF Level
  <2>2. KeepsOne(id, Path(leaf), N)
    BY <1>3
  <2>3. \A b : /\ InTree(id, b)' <=> InTree(id, b) /\ b \notin Path(leaf)
               /\ InOut(id, b)' <=> InOut(id, b)
    BY <1>4, <1>6 DEF InTree, InOut
  <2>4. AtMostOnce(id)' /\ There(id)'
    BY <1>1, <1>6, <2>1, <2>2, <2>3 DEF KeepsOne, AtMostOnce, There, Local
  <2>5. InPlace(id)'
    BY <1>1, <1>6, <2>1, <2>2, <2>3 DEF KeepsOne, InPlace
  <2> QED BY <2>4, <2>5
<1> QED BY <1>7, <1>8, <1>9, <1>10 DEF Level

LEMMA FinalizeLeafLevel ==
  ASSUME NEW H, Level(H), NEW random \in Positions, FinalizeLeaf(random)
  PROVE  Level(H)'
<1> DEFINE N == Fetched(random)
<1> USE DEF evict, local
<1>1. readCnt <= 1 /\ pc = "writeback" /\ DOMAIN held = {} /\ DOMAIN fresh = {}
  BY DEF FinalizeLeaf, WrittenBack, NoNodes, Level, LevelTypes
<1>2. ReadsLevel(H, Path(random), N) /\ HandedOut = Opened
  BY <1>1, FetchReadsLevel
<1>3. \A id \in Ids \ H : KeepsOne(id, Path(random), N)
  BY <1>2, ReadsKeepOne
<1>4. Opened' = Opened \cup Path(random)
  BY <1>1, <1>2 DEF Opened, FinalizeLeaf, FetchPath, Level, LevelTypes
<1>5. Path(random) \subseteq Buckets /\ Opened \subseteq Buckets
  BY PathInBuckets DEF Level, LevelTypes, Opened
<1>6. LevelTypes'
  <2>1. readCnt' \in 0 .. 2 /\ recvCount' \in {0, 1}
    BY <1>1 DEF FinalizeLeaf, FetchPath, Level, LevelTypes
  <2> QED BY <1>2, <1>5, <2>1 DEF FinalizeLeaf, FetchPath, Level, LevelTypes, ReadsLevel
<1>7. Phase' /\ TwoReads' /\ pc' = "writeback"
  <2>1. /\ readCnt \in {0, 1} /\ recvCount = readCnt
        /\ readCnt' = readCnt + 1 /\ recvCount' = 1 - recvCount
    BY <1>1 DEF Level, TwoReads, LevelTypes, FinalizeLeaf, FetchPath
  <2>2. pc' = pc /\ held' = held /\ fresh' = fresh /\ writeview' = {}
    BY <1>1 DEF FinalizeLeaf, Level, Phase
  <2>3. TwoReads'
    BY <1>1, <2>1, <2>2 DEF TwoReads
  <2>4. Phase'
    BY <1>1, <2>2 DEF Phase
  <2> QED BY <1>1, <2>2, <2>3, <2>4
<1>8. RewritesOnlyRead' /\ TakenWereFound(H)'
  BY <1>4, <1>7 DEF Level, RewritesOnlyRead, TakenWereFound, FinalizeLeaf
<1>9. /\ held' = held /\ fresh' = fresh /\ parentPos' = parentPos
      /\ tree' = tree /\ outbuf' = outbuf /\ cache' = N
  BY DEF FinalizeLeaf, FetchPath
<1>10. ASSUME NEW id \in Ids \ H
       PROVE  AtMostOnce(id)' /\ There(id)' /\ InPlace(id)'
  <2> HIDE DEF N
  <2>1. AtMostOnce(id) /\ There(id) /\ InPlace(id)
    BY DEF Level
  <2>2. KeepsOne(id, Path(random), N)
    BY <1>3
  <2>3. \A b : /\ InTree(id, b)' <=> InTree(id, b) /\ b \notin Path(random)
               /\ InOut(id, b)' <=> InOut(id, b)
    BY <1>4, <1>9 DEF InTree, InOut
  <2>4. AtMostOnce(id)' /\ There(id)'
    BY <1>1, <1>9, <2>1, <2>2, <2>3 DEF KeepsOne, AtMostOnce, There, Local
  <2>5. InPlace(id)'
    BY <1>1, <1>9, <2>1, <2>2, <2>3 DEF KeepsOne, InPlace
  <2> QED BY <2>4, <2>5
<1> QED BY <1>6, <1>7, <1>8, <1>10 DEF Level

LEMMA RemapLevel == ASSUME NEW H, Level(H), Remap PROVE Level(H)'
<1> USE DEF evict, server
<1>1. PICK random \in [DOMAIN cache \cap modified -> Positions] :
        cache' = [id \in DOMAIN cache |->
                    IF id \in modified THEN [cache[id] EXCEPT !.pos = random[id]]
                                       ELSE cache[id]]
  BY DEF Remap
<1>2. DOMAIN cache' = DOMAIN cache /\ DOMAIN parentPos' = DOMAIN parentPos
  BY <1>1 DEF Remap
<1>3. /\ DOMAIN held = {} /\ DOMAIN fresh = {} /\ held' = held /\ fresh' = fresh
      /\ pc = "writeback" /\ pc' = "evict" /\ tree' = tree /\ outbuf' = outbuf
  BY DEF Remap, WrittenBack, NoNodes
<1>4. IsNodeMap(cache')
  <2>1. \A id \in DOMAIN cache : cache'[id] \in Nodes
    BY <1>1 DEF Level, LevelTypes, IsNodeMap, IsMap, Nodes
  <2> QED BY <1>1, <2>1 DEF Level, LevelTypes, IsNodeMap, IsMap
<1>5. IsMap(parentPos', Ids, Positions)
  <2>1. \A id \in DOMAIN parentPos : parentPos'[id] \in Positions
    BY <1>2, <1>4 DEF Remap, Level, LevelTypes, IsNodeMap, IsMap, Nodes
  <2> QED BY <1>2, <2>1 DEF Remap, Level, LevelTypes, IsMap
<1>6. LevelTypes'
  BY <1>3, <1>4, <1>5 DEF Level, LevelTypes, Remap
<1>7. Opened' = Opened
  BY <1>3 DEF Remap, Opened
<1>8. writeview = {} /\ RewritesOnlyRead' /\ TakenWereFound(H)'
  BY <1>3, <1>7 DEF Level, Phase, RewritesOnlyRead, TakenWereFound, Remap, NoNodes
<1>9. Phase' /\ TwoReads'
  BY <1>3, <1>8 DEF Level, LevelTypes, Phase, TwoReads, Remap
<1>10. \A id \in DOMAIN parentPos :
         /\ id \in DOMAIN cache => parentPos'[id] = cache'[id].pos
         /\ id \notin DOMAIN cache => parentPos'[id] = parentPos[id]
  BY DEF Remap
<1>11. ASSUME NEW id \in Ids \ H
       PROVE  AtMostOnce(id)' /\ There(id)' /\ InPlace(id)'
  <2>1. AtMostOnce(id) /\ There(id) /\ InPlace(id)
    BY DEF Level
  <2>2. \A b : (InTree(id, b)' <=> InTree(id, b)) /\ (InOut(id, b)' <=> InOut(id, b))
    BY <1>3, <1>7 DEF InTree, InOut
  <2>3. \A b : ~InOut(id, b)
    BY <1>3 DEF InOut, Level, RewritesOnlyRead, NoNodes
  <2>4. AtMostOnce(id)' /\ There(id)'
    BY <1>2, <1>3, <2>1, <2>2 DEF AtMostOnce, There, Local
  <2>5. InPlace(id)'
    <3>1. CASE id \in DOMAIN cache
      <4>1. \A b : ~InTree(id, b)
        BY <2>1, <3>1 DEF AtMostOnce, Local
      <4> QED BY <1>2, <1>3, <1>10, <2>2, <2>3, <3>1, <4>1 DEF InPlace
    <3>2. CASE id \notin DOMAIN cache
      BY <1>2, <1>3, <1>10, <2>1, <2>2, <2>3, <3>2 DEF InPlace
    <3> QED BY <3>1, <3>2
  <2> QED BY <2>4, <2>5
<1> QED BY <1>3, <1>6, <1>8, <1>9, <1>11 DEF Level

LEMMA WriteLeafPathLevel ==
  ASSUME NEW H, Level(H), NEW leaf \in Positions, NEW d \in 0 .. Depth,
         WriteLeafPath(leaf, d)
  PROVE  Level(H)'
<1> DEFINE b == Node(leaf, d)
<1> USE DEF local, server
<1>1. PICK chosen \in SUBSET Intersecting(b, d) :
        /\ outbuf' = Put(outbuf, b, Restrict(cache, chosen))
        /\ cache' = Drop(cache, chosen)
  BY DEF WriteLeafPath
<1>2. pc = "evict" /\ leaf \in leafList /\ b \notin writeview /\ writeview' = writeview \cup {b}
  BY DEF WriteLeafPath
<1>3. b \in Path(leaf) /\ b \in Buckets
  BY PathInBuckets DEF Path
<1>4. \A id \in chosen : id \in DOMAIN cache /\ b \in Path(cache[id].pos)
  BY DEF Intersecting, Path
<1> HIDE DEF b
<1>5. Opened' = Opened
  BY DEF WriteLeafPath, Opened
<1>6. /\ DOMAIN cache' = DOMAIN cache \ chosen
      /\ \A id \in DOMAIN cache' : cache'[id] = cache[id]
      /\ DOMAIN outbuf' = DOMAIN outbuf \cup {b}
      /\ \A c \in DOMAIN outbuf : c # b => outbuf'[c] = outbuf[c]
      /\ outbuf'[b] = [id \in chosen |-> cache[id]]
      /\ held' = held /\ fresh' = fresh /\ parentPos' = parentPos /\ tree' = tree
  BY <1>1 DEF Put, Drop, Restrict, WriteLeafPath
<1>7. b \notin DOMAIN outbuf
  BY <1>2 DEF Level, RewritesOnlyRead
<1>8. LevelTypes'
  <2>1. IsNodeMap(cache')
    BY <1>1 DEF Level, LevelTypes, IsNodeMap, IsMap, Drop
  <2>2. IsNodeMap([id \in chosen |-> cache[id]])
    BY <1>4 DEF Level, LevelTypes, IsNodeMap, IsMap
  <2>3. \A c \in DOMAIN outbuf' : IsNodeMap(outbuf'[c])
    BY <1>6, <2>2 DEF Level, LevelTypes
  <2> QED BY <1>2, <1>3, <1>6, <2>1, <2>3 DEF Level, LevelTypes, WriteLeafPath
<1>9. Phase' /\ TwoReads' /\ pc' = "evict"
  <2>1. b \in Opened
    BY <1>2, <1>3 DEF Level, RewritesOnlyRead
  <2> QED BY <1>2, <1>5, <2>1 DEF Level, Phase, TwoReads, WriteLeafPath
<1>10. RewritesOnlyRead' /\ TakenWereFound(H)'
  BY <1>2, <1>5, <1>6, <1>9 DEF Level, RewritesOnlyRead, TakenWereFound, WriteLeafPath
<1>11. ASSUME NEW id \in Ids \ H
       PROVE  AtMostOnce(id)' /\ There(id)' /\ InPlace(id)'
  <2>1. AtMostOnce(id) /\ There(id) /\ InPlace(id)
    BY DEF Level
  <2>2. \A c : /\ InTree(id, c)' <=> InTree(id, c)
               /\ InOut(id, c)' <=> InOut(id, c) \/ (id \in chosen /\ c = b)
    BY <1>5, <1>6, <1>7 DEF InTree, InOut
  <2>3. AtMostOnce(id)' /\ There(id)'
    BY <1>4, <1>6, <2>1, <2>2 DEF AtMostOnce, There, Local
  <2>4. \A c : InOut(id, c) => outbuf'[c] = outbuf[c]
    BY <1>6, <1>7 DEF InOut
  <2>5. id \in chosen => outbuf'[b][id] = cache[id]
    BY <1>6
  <2>6. InPlace(id)'
    BY <1>4, <1>6, <2>1, <2>2, <2>4, <2>5 DEF InPlace
  <2> QED BY <2>3, <2>6
<1> QED BY <1>8, <1>9, <1>10, <1>11 DEF Level

\* What a read in vain leaves behind is harmed when the buckets are written.
LEMMA WriteBucketsLevel ==
  ASSUME NEW H, Level(H), WriteBuckets, NEW G, G = H \cup LeftBehind
  PROVE  Level(G)'
<1>1. pc = "evict" /\ pc' = "idle" /\ readCnt = 2 /\ modified' = {}
  BY DEF WriteBuckets, Level, TwoReads
<1>2. DOMAIN outbuf = writeview /\ writeview \subseteq Opened /\ Opened = readview
  BY <1>1 DEF Level, RewritesOnlyRead, Phase, Opened
<1>3. Opened' = {} /\ DOMAIN outbuf' = {} /\ leafList' = {}
  BY <1>1 DEF Opened, WriteBuckets, NoNodes
<1>4. /\ DOMAIN tree' = Buckets
      /\ \A b \in Buckets : tree'[b] = IF b \in writeview THEN outbuf[b] ELSE tree[b]
      /\ held' = held /\ fresh' = fresh /\ cache' = cache /\ parentPos' = parentPos
  BY <1>2 DEF WriteBuckets
<1>5. LevelTypes'
  <2>1. IsNodeMap(held)
    BY <1>1 DEF Level, LevelTypes
  <2>2. \A b \in DOMAIN outbuf : IsNodeMap(outbuf[b])
    BY DEF Level, LevelTypes
  <2>3. \A b \in Buckets : IsNodeMap(tree'[b])
    BY <1>2, <1>4, <2>2 DEF Level, LevelTypes
  <2> QED BY <1>3, <1>4, <2>1, <2>3 DEF Level, LevelTypes, WriteBuckets
<1>6. Phase' /\ TwoReads'
  BY <1>1, <1>3 DEF Level, Phase, TwoReads, WriteBuckets
<1>7. RewritesOnlyRead' /\ TakenWereFound(G)'
  BY <1>1, <1>3 DEF RewritesOnlyRead, TakenWereFound, WriteBuckets
<1>8. ASSUME NEW id \in Ids \ G
      PROVE  AtMostOnce(id)' /\ There(id)' /\ InPlace(id)'
  <2>1. AtMostOnce(id) /\ There(id) /\ InPlace(id)
    BY DEF Level
  <2>2. \A b \in Opened \ writeview : id \notin DOMAIN tree[b]
    BY DEF LeftBehind
  <2>3. \A b : ~InOut(id, b)' /\ (InTree(id, b)' <=> InTree(id, b) \/ InOut(id, b))
    BY <1>2, <1>3, <1>4, <2>2 DEF InTree, InOut, Level, LevelTypes
  <2>4. \A b : /\ InTree(id, b) => tree'[b] = tree[b]
               /\ InOut(id, b) => tree'[b] = outbuf[b]
    BY <1>2, <1>4 DEF InTree, InOut, Level, LevelTypes
  <2>5. AtMostOnce(id)' /\ There(id)'
    BY <1>4, <2>1, <2>3 DEF AtMostOnce, There, Local
  <2>6. InPlace(id)'
    BY <1>4, <2>1, <2>3, <2>4 DEF InPlace
  <2> QED BY <2>5, <2>6
<1> QED BY <1>1, <1>5, <1>6, <1>7, <1>8 DEF Level

LEMMA FinishLevel ==
  ASSUME NEW H, Level(H), Finish, NEW G,
         G = IF WriteBuckets THEN H \cup LeftBehind ELSE H
  PROVE  Level(G)'
<1>1. CASE WriteBuckets
  BY <1>1, WriteBucketsLevel
<1>2. CASE ~WriteBuckets
  BY <1>2, WriteHeldLevel, WriteFreshLevel, FinalizeLeafLevel, RemapLevel, WriteLeafPathLevel
     DEF Finish
<1> QED BY <1>1, <1>2

LEMMA StutterLevel == ASSUME NEW H, Level(H), UNCHANGED vars PROVE Level(H)'
<1> USE DEF vars, local, client, evict, server
<1>1. Opened' = Opened
  BY DEF Opened
<1>2. LevelTypes' /\ TwoReads' /\ Phase' /\ (pc' = "idle" => modified' = {})
  <2>1. LevelTypes'
    BY DEF Level, LevelTypes, IsNodeMap, IsMap, Taken
  <2>2. Phase'
    BY <1>1 DEF Level, Phase
  <2>3. TwoReads' /\ (pc' = "idle" => modified' = {})
    BY DEF Level, TwoReads
  <2> QED BY <2>1, <2>2, <2>3
<1>3. RewritesOnlyRead' /\ TakenWereFound(H)'
  BY <1>1 DEF Level, RewritesOnlyRead, TakenWereFound
<1>4. ASSUME NEW id \in Ids \ H
      PROVE  AtMostOnce(id)' /\ There(id)' /\ InPlace(id)'
  <2>1. AtMostOnce(id) /\ There(id) /\ InPlace(id)
    BY DEF Level
  <2> QED BY <1>1, <2>1 DEF AtMostOnce, There, InPlace, Local, InTree, InOut
<1> QED BY <1>2, <1>3, <1>4 DEF Level

-----------------------------------------------------------------------------
(***************************************************************************)
(* What an operation does to the table of positions, and does not do to    *)
(* the buckets before its end.                                             *)
(***************************************************************************)
Touched == modified \cup DOMAIN held \cup DOMAIN fresh

\* A node untouched is where it was; a node touched stays so, or is harmed.
LeavesUntouched(H) ==
  /\ tree' = tree
  /\ modified \subseteq modified'
  /\ Touched \subseteq Touched' \cup H
  /\ \A id \in Ids \ (H \cup Touched') :
       /\ id \in DOMAIN parentPos' <=> id \in DOMAIN parentPos
       /\ id \in DOMAIN parentPos => parentPos'[id] = parentPos[id]

LEMMA ReadingLeaves ==
  ASSUME NEW H, NEW x, ReadBookkeeping(x)
  PROVE  tree' = tree /\ modified \subseteq modified'
BY DEF ReadBookkeeping, FetchPath, server

LEMMA StepLeavesUntouched ==
  ASSUME NEW H, Level(H), PartInit \/ Access \/ Finish, ~WriteBuckets
  PROVE  LeavesUntouched(H)
<1> USE DEF LeavesUntouched, Touched
<1>1. CASE PartInit
  BY <1>1 DEF PartInit, server
<1>2. CASE Access
  <2>1. CASE SearchEmpty
    BY <2>1 DEF SearchEmpty, client, server
  <2>2. ASSUME NEW x \in Ids, SearchNode(x) PROVE LeavesUntouched(H)
    <3>1. held' = held /\ fresh' = fresh /\ parentPos' = parentPos
      BY <2>2 DEF SearchNode
    <3> QED BY <2>2, <3>1, ReadingLeaves DEF SearchNode
  <2>3. ASSUME NEW x \in Ids, NEW random \in Positions, TakeNode(x, random)
        PROVE  LeavesUntouched(H)
    <3>1. fresh' = fresh /\ parentPos' = parentPos /\ DOMAIN held \subseteq DOMAIN held'
      BY <2>3 DEF TakeNode, Put
    <3> QED BY <2>3, <3>1, ReadingLeaves DEF TakeNode
  <2>4. ASSUME NEW h, NEW f, ChangesTo(h, f) PROVE LeavesUntouched(H)
    <3>1. /\ held' = h /\ fresh' = f /\ modified' = modified /\ tree' = tree
          /\ DOMAIN fresh = {} /\ DOMAIN held \subseteq modified \cup H
      BY <2>4 DEF ChangesTo, Change, Level, Phase, TakenWereFound, server
    <3>2. /\ DOMAIN parentPos' = (DOMAIN parentPos \ DOMAIN held) \cup DOMAIN h \cup DOMAIN f
          /\ \A id \in DOMAIN parentPos \ DOMAIN held :
               id \notin DOMAIN h \cup DOMAIN f => parentPos'[id] = parentPos[id]
      BY <2>4 DEF ChangesTo, Change, Override, Drop
    <3> QED BY <3>1, <3>2
  <2> QED BY <1>2, <2>1, <2>2, <2>3, <2>4, AccessIs
<1>3. CASE Finish
  <2>1. ASSUME NEW x \in Ids, WriteHeld(x) PROVE LeavesUntouched(H)
    BY <2>1 DEF WriteHeld, Drop, server
  <2>2. ASSUME NEW x \in Ids, WriteFresh(x) PROVE LeavesUntouched(H)
    BY <2>2 DEF WriteFresh, FetchPath, Drop
  <2>3. ASSUME NEW random \in Positions, FinalizeLeaf(random) PROVE LeavesUntouched(H)
    BY <2>3 DEF FinalizeLeaf, FetchPath, local
  <2>4. CASE Remap
    <3>1. PICK random \in [DOMAIN cache \cap modified -> Positions] :
            cache' = [id \in DOMAIN cache |->
                        IF id \in modified THEN [cache[id] EXCEPT !.pos = random[id]]
                                           ELSE cache[id]]
      BY <2>4 DEF Remap
    <3>2. /\ held' = held /\ fresh' = fresh /\ modified' = modified /\ tree' = tree
          /\ parentPos' = [id \in DOMAIN parentPos |->
                             IF id \in DOMAIN cache THEN cache'[id].pos ELSE parentPos[id]]
      BY <2>4 DEF Remap, server
    <3>3. \A id \in DOMAIN cache \ modified : cache'[id] = cache[id]
      BY <3>1
    <3>4. \A id \in Ids \ H : id \in DOMAIN parentPos /\ id \in DOMAIN cache =>
                                cache[id].pos = parentPos[id]
      BY DEF Level, InPlace
    <3> QED BY <3>2, <3>3, <3>4
  <2>5. ASSUME NEW leaf \in Positions, NEW d \in 0 .. Depth, WriteLeafPath(leaf, d)
        PROVE  LeavesUntouched(H)
    BY <2>5 DEF WriteLeafPath, local, server
  <2> QED BY <1>3, <2>1, <2>2, <2>3, <2>4, <2>5 DEF Finish
<1> QED BY <1>1, <1>2, <1>3

\* An operation begins with part_init, changes nothing of its stage but the
\* next, and ends with the writing of the buckets.
LEMMA Stages ==
  ASSUME PartInit \/ Access \/ Finish
  PROVE  /\ pc = "evict" /\ pc' = "idle" <=> WriteBuckets
         /\ pc' = "idle" => pc = "evict"
         /\ pc = "idle" => PartInit
         /\ pc = "evict" => pc' \in {"evict", "idle"}
<1>0. WriteBuckets => pc = "evict" /\ pc' = "idle"
  BY DEF WriteBuckets
<1>1. CASE PartInit
  BY <1>0, <1>1 DEF PartInit
<1>2. CASE Access
  <2>1. ASSUME NEW h, NEW f, Change(h, f) PROVE pc = "access" /\ pc' = "writeback"
    BY <2>1 DEF Change
  <2>2. SearchEmpty \/ (\E x \in Ids : SearchNode(x)) => pc = "access" /\ pc' = "writeback"
    BY DEF SearchEmpty, SearchNode
  <2>3. (\E x \in Ids, random \in Positions : TakeNode(x, random)) =>
          pc = "access" /\ pc' = "access"
    BY DEF TakeNode
  <2> QED BY <1>0, <1>2, <2>1, <2>2, <2>3
             DEF Access, FirstNode, ChangeNode, SplitNode, RearrangeNodes, MergeNodes
<1>3. CASE Finish
  <2>1. ASSUME ~WriteBuckets PROVE pc \in {"writeback", "evict"} /\ pc' # "idle"
                                   /\ (pc = "evict" => pc' = "evict")
    BY <1>3, <2>1 DEF Finish, WriteHeld, WriteFresh, FinalizeLeaf, WrittenBack, Remap,
                      WriteLeafPath, local
  <2> QED BY <1>0, <2>1
<1> QED BY <1>1, <1>2, <1>3

-----------------------------------------------------------------------------
(***************************************************************************)
(* The invariant with the faults in it.                                    *)
(***************************************************************************)

\* Between operations the buckets and the root agree with the client on all
\* nodes that are not cached, harmed or behind.
LEMMA DiskAtRest ==
  ASSUME Level(harmed), RootsAgree, pc = "idle" PROVE Disk
<1>1. /\ DOMAIN held = {} /\ DOMAIN fresh = {} /\ modified = {} /\ outbuf = NoNodes
      /\ Opened = {}
  BY DEF Level, Phase, RewritesOnlyRead, Opened
<1> SUFFICES ASSUME NEW id \in Ids \ HarmOfRestart PROVE OnDisk(id)
  BY DEF Disk
<1>2. id \notin harmed /\ id \notin behind /\ id \notin DOMAIN cache
  BY DEF HarmOfRestart
<1>3. AtMostOnce(id) /\ There(id) /\ InPlace(id)
  BY <1>2 DEF Level
<1>4. /\ id \in DOMAIN savedPos <=> id \in DOMAIN parentPos
      /\ id \in DOMAIN savedPos => savedPos[id] = parentPos[id]
  BY <1>1, <1>2 DEF RootsAgree
<1>5. \A b : ~InOut(id, b) /\ (InTree(id, b) <=> b \in Buckets /\ id \in DOMAIN tree[b])
  BY <1>1 DEF InTree, InOut, NoNodes
<1> QED BY <1>1, <1>2, <1>3, <1>4, <1>5 DEF OnDisk, AtMostOnce, There, InPlace, Local

AtRest == Level(harmed) /\ RootsAgree /\ pc = "idle"

LEMMA DiskAtRestNext == Level(harmed)' /\ RootsAgree' /\ pc' = "idle" => Disk'
<1>1. AtRest => Disk
  BY DiskAtRest DEF AtRest
<1>2. AtRest' => Disk'
  BY <1>1, PTL
<1> QED BY <1>2 DEF AtRest

LEMMA LeftBehindAreIds == ASSUME NEW H, Level(H) PROVE LeftBehind \subseteq Ids
BY DEF Level, LevelTypes, LeftBehind, Opened, IsNodeMap, IsMap

\* A step of the operation, before its last.
LEMMA OperateOnInv ==
  ASSUME FaultInv, Operate, ~WriteBuckets
  PROVE  FaultInv'
<1>1. PICK H : H = harmed
  OBVIOUS
<1>2. Level(H) /\ H \subseteq Ids
  BY <1>1 DEF FaultInv, HistoryTypes
<1>3. /\ PartInit \/ Access \/ Finish
      /\ pc' # "idle" /\ (pc = "idle" => PartInit) /\ (pc = "evict" => pc' = "evict")
  BY Stages DEF Operate
<1>4. Level(H)'
  BY <1>2, <1>3, PartInitLevel, AccessLevel, FinishLevel
<1>5. /\ harmed' = H /\ behind' = behind /\ savedPos' = savedPos /\ rootSent' = rootSent
      /\ stash' = IF pc = "idle" THEN DOMAIN cache ELSE stash
  BY <1>1, <1>3 DEF Operate, FaultInv, HistoryTypes
<1>6. HistoryTypes'
  BY <1>2, <1>3, <1>5 DEF FaultInv, HistoryTypes, Level, LevelTypes, IsNodeMap, IsMap
<1>7. LeavesUntouched(H)
  BY <1>2, <1>3, StepLeavesUntouched
<1>8. RootsAgree'
  BY <1>1, <1>5, <1>7 DEF FaultInv, RootsAgree, LeavesUntouched, Touched
<1>9. HarmOfRestart \subseteq HarmOfRestart'
  BY <1>1, <1>3, <1>5, <1>7 DEF HarmOfRestart, LeavesUntouched
<1>10. ASSUME NEW id PROVE OnDisk(id)' <=> OnDisk(id)
  BY <1>5, <1>7 DEF OnDisk, LeavesUntouched
<1>11. Disk'
  BY <1>9, <1>10 DEF FaultInv, Disk
<1> QED BY <1>1, <1>4, <1>5, <1>6, <1>8, <1>11 DEF FaultInv

\* The last step: with the buckets written, the server has the new state.
LEMMA EndOnInv ==
  ASSUME FaultInv, Operate, WriteBuckets
  PROVE  FaultInv'
<1>1. PICK H : H = harmed
  OBVIOUS
<1>2. PICK G : G = H \cup LeftBehind
  OBVIOUS
<1>3. Level(H) /\ G \subseteq Ids /\ Level(G)'
  BY <1>1, <1>2, WriteBucketsLevel, LeftBehindAreIds DEF FaultInv, HistoryTypes
<1>4. /\ pc = "evict" /\ pc' = "idle" /\ modified' = {}
      /\ parentPos' = parentPos /\ savedPos' = savedPos
      /\ harmed' = G /\ stash' = stash /\ ~rootSent'
      /\ behind' = IF savedPos = parentPos THEN {} ELSE behind \cup modified
      /\ rootSent' \in BOOLEAN
  BY <1>1, <1>2 DEF WriteBuckets, Operate
<1>5. DOMAIN held = {} /\ DOMAIN fresh = {} /\ modified \subseteq Ids
  BY <1>3, <1>4 DEF Level, LevelTypes, Phase
<1>6. HistoryTypes'
  BY <1>3, <1>4, <1>5 DEF FaultInv, HistoryTypes
<1>7. RootsAgree'
  <2> SUFFICES ASSUME NEW id \in Ids, id \notin G, id \notin behind'
               PROVE  /\ id \in DOMAIN savedPos <=> id \in DOMAIN parentPos
                      /\ id \in DOMAIN savedPos => savedPos[id] = parentPos[id]
    BY <1>4 DEF RootsAgree
  <2> QED BY <1>1, <1>2, <1>4, <1>5 DEF FaultInv, RootsAgree
<1>8. Level(harmed)'
  BY <1>3, <1>4
<1> QED BY <1>4, <1>6, <1>7, <1>8, DiskAtRestNext DEF FaultInv

\* Sending the root makes it agree with the client; what the operation has
\* changed is in danger until the buckets are written.
LEMMA RootOnInv == ASSUME FaultInv, WriteRoot PROVE FaultInv'
<1>1. UNCHANGED vars /\ pc = "evict" /\ ~rootSent /\ rootSent' = TRUE /\ savedPos' = parentPos
  BY DEF WriteRoot
<1>2. /\ harmed' = harmed /\ behind' = behind /\ stash' = stash
      /\ parentPos' = parentPos /\ tree' = tree /\ modified' = modified /\ pc' = pc
      /\ cache' = cache
  BY DEF WriteRoot, history, vars, local, client, server
<1>3. PICK H : H = harmed
  OBVIOUS
<1>4. Level(H) /\ Level(H)'
  BY <1>1, <1>3, StutterLevel DEF FaultInv
<1>5. HistoryTypes' /\ RootsAgree'
  BY <1>1, <1>2, <1>4 DEF FaultInv, HistoryTypes, RootsAgree, Level, LevelTypes
<1>6. Disk'
  <2> SUFFICES ASSUME NEW id \in Ids \ HarmOfRestart' PROVE OnDisk(id)'
    BY DEF Disk
  <2>1. id \notin harmed /\ id \notin behind /\ id \notin modified /\ id \notin HarmOfRestart
    BY <1>1, <1>2 DEF HarmOfRestart
  <2>2. DOMAIN held = {} /\ DOMAIN fresh = {}
    BY <1>1, <1>4 DEF Level, Phase
  <2>3. /\ id \in DOMAIN savedPos <=> id \in DOMAIN parentPos
        /\ id \in DOMAIN savedPos => savedPos[id] = parentPos[id]
    BY <2>1, <2>2 DEF FaultInv, RootsAgree
  <2>4. OnDisk(id)
    BY <2>1 DEF FaultInv, Disk
  <2> QED BY <1>1, <1>2, <2>3, <2>4 DEF OnDisk
<1> QED BY <1>2, <1>3, <1>4, <1>5, <1>6 DEF FaultInv

LEMMA RootFailsOnInv == ASSUME FaultInv, WriteRootFails PROVE FaultInv'
<1>1. /\ UNCHANGED vars /\ pc = "evict" /\ ~rootSent /\ rootSent' = TRUE
      /\ savedPos' = savedPos /\ harmed' = harmed /\ behind' = behind /\ stash' = stash
  BY DEF WriteRootFails
<1>2. /\ parentPos' = parentPos /\ tree' = tree /\ modified' = modified /\ pc' = pc
      /\ cache' = cache /\ held' = held /\ fresh' = fresh
  BY <1>1 DEF vars, local, client, server
<1>3. PICK H : H = harmed
  OBVIOUS
<1>4. Level(H)'
  BY <1>1, <1>3, StutterLevel DEF FaultInv
<1>5. HistoryTypes' /\ RootsAgree'
  BY <1>1, <1>2 DEF FaultInv, HistoryTypes, RootsAgree
<1>6. HarmOfRestart \subseteq HarmOfRestart'
  BY <1>1, <1>2 DEF HarmOfRestart
<1>7. \A id : OnDisk(id)' <=> OnDisk(id)
  BY <1>1, <1>2 DEF OnDisk
<1> QED BY <1>1, <1>3, <1>4, <1>5, <1>6, <1>7 DEF FaultInv, Disk

LEMMA BucketsFailOnInv ==
  ASSUME FaultInv, NEW stored \in SUBSET DOMAIN outbuf, WriteBucketsFails(stored)
  PROVE  FaultInv'
<1> DEFINE G == harmed \cup DOMAIN cache \cup modified \cup LeftBehind
                  \cup UNION {DOMAIN outbuf[b] \cup DOMAIN tree[b] : b \in DOMAIN outbuf}
<1>1. PICK H : H = harmed
  OBVIOUS
<1>2. /\ pc = "evict" /\ pc' = "idle" /\ ~rootSent'
      /\ rootSent' \in BOOLEAN
      /\ UNCHANGED <<result, held, fresh, parentPos, cache, readCnt, writeview,
                     readview, recvCount, savedPos, stash>>
      /\ tree' = [b \in Buckets |-> IF b \in stored THEN outbuf[b] ELSE tree[b]]
      /\ outbuf' = NoNodes /\ leafList' = {} /\ modified' = {}
      /\ behind' = IF savedPos = parentPos THEN {} ELSE behind \cup modified
      /\ harmed' = G
  BY DEF WriteBucketsFails
<1>3. Level(H)
  BY <1>1 DEF FaultInv
<1>4. DOMAIN outbuf = writeview /\ writeview \subseteq Opened /\ Opened' = {}
  BY <1>2, <1>3 DEF Level, Phase, RewritesOnlyRead, Opened
<1>5. G \subseteq Ids
  BY <1>3, LeftBehindAreIds DEF FaultInv, HistoryTypes, Level, LevelTypes, IsNodeMap, IsMap
<1>6. PICK K : K = G
  OBVIOUS
<1>7. /\ H \subseteq K /\ DOMAIN cache \subseteq K /\ modified \subseteq K
      /\ \A b \in DOMAIN outbuf, id \in Ids \ K : id \notin DOMAIN outbuf[b] /\ id \notin DOMAIN tree[b]
      /\ \A b \in Opened \ writeview, id \in Ids \ K : id \notin DOMAIN tree[b]
  BY <1>1, <1>6 DEF LeftBehind
<1> HIDE DEF G
<1>8. Level(K)'
  <2>1. LevelTypes'
    BY <1>2, <1>3 DEF Level, LevelTypes, NoNodes
  <2>2. Phase' /\ TwoReads'
    BY <1>2, <1>3 DEF Level, Phase, TwoReads
  <2>3. RewritesOnlyRead' /\ TakenWereFound(K)'
    BY <1>2 DEF RewritesOnlyRead, TakenWereFound
  <2>4. ASSUME NEW id \in Ids \ K
        PROVE  AtMostOnce(id)' /\ There(id)' /\ InPlace(id)'
    <3>1. AtMostOnce(id) /\ There(id) /\ InPlace(id)
      BY <1>3, <1>7 DEF Level
    <3>2. \A b : ~InOut(id, b) /\ ~InOut(id, b)'
      BY <1>2, <1>7 DEF InOut, NoNodes
    <3>3. \A b \in Buckets : /\ id \in DOMAIN tree'[b] <=> InTree(id, b)
                             /\ InTree(id, b) => tree'[b] = tree[b]
      BY <1>2, <1>4, <1>7 DEF InTree
    <3>4. \A b : /\ InTree(id, b)' <=> InTree(id, b)
                 /\ InTree(id, b) => tree'[b] = tree[b]
      BY <1>4, <3>3 DEF InTree
    <3>5. AtMostOnce(id)' /\ There(id)'
      BY <1>2, <3>1, <3>2, <3>4 DEF AtMostOnce, There, Local
    <3>6. InPlace(id)'
      BY <1>2, <3>1, <3>2, <3>4 DEF InPlace
    <3> QED BY <3>5, <3>6
  <2> QED BY <1>2, <2>1, <2>2, <2>3, <2>4 DEF Level
<1>9. DOMAIN held = {} /\ DOMAIN fresh = {} /\ modified \subseteq Ids
  BY <1>2, <1>3 DEF Level, LevelTypes, Phase
<1>10. HistoryTypes'
  BY <1>2, <1>5, <1>9 DEF FaultInv, HistoryTypes
<1>11. RootsAgree'
  <2> SUFFICES ASSUME NEW id \in Ids, id \notin K, id \notin behind'
               PROVE  /\ id \in DOMAIN savedPos <=> id \in DOMAIN parentPos
                      /\ id \in DOMAIN savedPos => savedPos[id] = parentPos[id]
    BY <1>2, <1>6 DEF RootsAgree
  <2> QED BY <1>1, <1>2, <1>7, <1>9 DEF FaultInv, RootsAgree
<1>12. Level(harmed)'
  BY <1>2, <1>6, <1>8
<1> QED BY <1>2, <1>10, <1>11, <1>12, DiskAtRestNext DEF FaultInv

\* A client that starts anew sees the buckets as they are stored.
\* A restart after which the next client meets an even count.
SafeRestart == NewClient /\ harmed' = HarmOfRestart /\ recvCount' = 0

LEMMA RestartOnInv == ASSUME FaultInv, SafeRestart PROVE FaultInv'
<1>1. PICK K : K = HarmOfRestart
  OBVIOUS
<1>2. /\ pc' = "idle" /\ held' = NoNodes /\ fresh' = NoNodes /\ cache' = NoNodes
      /\ modified' = {} /\ leafList' = {} /\ readCnt' = 0 /\ writeview' = {}
      /\ outbuf' = NoNodes /\ readview' = {} /\ parentPos' = savedPos
      /\ ~rootSent' /\ rootSent' \in BOOLEAN
      /\ harmed' = K /\ stash' = {} /\ behind' = {}
      /\ tree' = tree /\ savedPos' = savedPos /\ recvCount' = 0
  BY <1>1 DEF SafeRestart, NewClient
<1>3. NoNodes = [id \in {} |-> NoVal]
  BY DEF NoNodes
<1>4. DOMAIN NoNodes = {} /\ IsNodeMap(NoNodes) /\ IsMap(NoNodes, Ids, Taken)
  BY <1>3 DEF IsNodeMap, IsMap
<1>5. Opened' = {}
  BY <1>2 DEF Opened
<1>6. LevelTypes'
  BY <1>2, <1>4 DEF FaultInv, HistoryTypes, Level, LevelTypes
<1>7. Phase' /\ TwoReads' /\ RewritesOnlyRead' /\ TakenWereFound(K)'
  BY <1>2, <1>4 DEF Phase, TwoReads, RewritesOnlyRead, TakenWereFound
<1>8. ASSUME NEW id \in Ids \ K
      PROVE  AtMostOnce(id)' /\ There(id)' /\ InPlace(id)'
  <2>1. OnDisk(id)
    BY <1>1 DEF FaultInv, Disk
  <2>2. \A b : ~InOut(id, b)' /\ (InTree(id, b)' <=> b \in Buckets /\ id \in DOMAIN tree[b])
    BY <1>2, <1>4, <1>5 DEF InTree, InOut
  <2>3. ~Local(id)'
    BY <1>2, <1>4 DEF Local
  <2>4. AtMostOnce(id)' /\ There(id)'
    BY <1>2, <1>4, <2>1, <2>2, <2>3 DEF AtMostOnce, There, OnDisk
  <2>5. InPlace(id)'
    BY <1>2, <1>4, <2>1, <2>2 DEF InPlace, OnDisk
  <2> QED BY <2>4, <2>5
<1>9. Level(K)'
  BY <1>2, <1>6, <1>7, <1>8 DEF Level
<1>10. HistoryTypes'
  <2>1. K \subseteq Ids
    BY <1>1 DEF HarmOfRestart, FaultInv, HistoryTypes, Level, LevelTypes, IsNodeMap, IsMap
  <2> QED BY <1>2, <2>1 DEF FaultInv, HistoryTypes
<1>11. RootsAgree'
  BY <1>2 DEF RootsAgree
<1> QED BY <1>2, <1>9, <1>10, <1>11, DiskAtRestNext DEF FaultInv

LEMMA StutterOnInv == ASSUME FaultInv, UNCHANGED faultVars PROVE FaultInv'
<1>1. UNCHANGED vars /\ UNCHANGED <<savedPos, rootSent, stash, behind, harmed>>
  BY DEF faultVars, history
<1>2. /\ parentPos' = parentPos /\ tree' = tree /\ modified' = modified /\ pc' = pc
      /\ cache' = cache /\ held' = held /\ fresh' = fresh
  BY <1>1 DEF vars, local, client, server
<1>3. PICK H : H = harmed
  OBVIOUS
<1>4. Level(H)'
  BY <1>1, <1>3, StutterLevel DEF FaultInv
<1>5. HistoryTypes' /\ RootsAgree'
  BY <1>1, <1>2 DEF FaultInv, HistoryTypes, RootsAgree
<1>6. HarmOfRestart' = HarmOfRestart
  BY <1>1, <1>2 DEF HarmOfRestart
<1>7. \A id : OnDisk(id)' <=> OnDisk(id)
  BY <1>1, <1>2 DEF OnDisk
<1> QED BY <1>1, <1>3, <1>4, <1>5, <1>6, <1>7 DEF FaultInv, Disk

LEMMA InitFaultInv == FaultInit => FaultInv
<1> SUFFICES ASSUME FaultInit PROVE FaultInv
  OBVIOUS
<1>1. /\ Init /\ savedPos = parentPos /\ rootSent = FALSE
      /\ stash = {} /\ behind = {} /\ harmed = {}
  BY DEF FaultInit
<1>2. DOMAIN NoNodes = {} /\ IsNodeMap(NoNodes) /\ IsMap(NoNodes, Ids, Taken)
      /\ IsMap(NoNodes, Ids, Positions)
  BY DEF NoNodes, IsNodeMap, IsMap
<1>3. /\ pc = "idle" /\ parentPos = NoNodes
      /\ cache = NoNodes /\ held = NoNodes /\ fresh = NoNodes
      /\ modified = {} /\ leafList = {} /\ readCnt = 0
      /\ writeview = {} /\ outbuf = NoNodes
      /\ tree = [b \in Buckets |-> NoNodes]
      /\ readview = {} /\ recvCount = 0
  BY <1>1 DEF Init
<1>4. LevelTypes
  BY <1>2, <1>3 DEF LevelTypes
<1>5. Phase /\ TwoReads /\ RewritesOnlyRead /\ TakenWereFound(harmed)
  BY <1>2, <1>3 DEF Phase, TwoReads, RewritesOnlyRead, TakenWereFound
<1>6. \A id \in Ids \ harmed : AtMostOnce(id) /\ There(id) /\ InPlace(id)
  BY <1>2, <1>3 DEF AtMostOnce, There, InPlace, Local, InTree, InOut
<1>7. Level(harmed)
  BY <1>3, <1>4, <1>5, <1>6 DEF Level
<1>8. HistoryTypes /\ RootsAgree
  BY <1>1, <1>2, <1>3 DEF HistoryTypes, RootsAgree
<1> QED BY <1>3, <1>7, <1>8, DiskAtRest DEF FaultInv

\* All steps but the death of a client between two reads.
SafeNext == Operate \/ WriteRoot \/ Failures \/ (SafeRestart /\ faults' = faults + 1)

OddDeath == RestartClient /\ recvCount # 0

LEMMA FaultNextIs == [FaultNext]_faultVars => [SafeNext]_faultVars \/ OddDeath
<1>1. RestartBoth => SafeNext
  BY DEF RestartBoth, Fault, SafeRestart, SafeNext
<1>2. RestartClient /\ recvCount = 0 => SafeNext
  BY DEF RestartClient, Fault, SafeRestart, SafeNext
<1> QED BY <1>1, <1>2 DEF FaultNext, SafeNext, OddDeath

LEMMA NextFaultInv == FaultInv /\ [SafeNext]_faultVars => FaultInv'
<1> SUFFICES ASSUME FaultInv, [SafeNext]_faultVars PROVE FaultInv'
  OBVIOUS
<1>1. CASE Operate
  BY <1>1, OperateOnInv, EndOnInv
<1>2. CASE WriteRoot
  BY <1>2, RootOnInv
<1>3. CASE Failures
  BY <1>3, RootFailsOnInv, BucketsFailOnInv DEF Failures
<1>4. CASE SafeRestart
  BY <1>4, RestartOnInv
<1>5. CASE UNCHANGED faultVars
  BY <1>5, StutterOnInv
<1> QED BY <1>1, <1>2, <1>3, <1>4, <1>5 DEF SafeNext

\* After that death nothing is promised of any node, by harmed.
Lost == faults \in Nat \ {0} /\ Ids \subseteq harmed

LEMMA OddDeathLoses == OddDeath /\ faults \in Nat => Lost'
BY DEF OddDeath, RestartClient, Fault, Lost

LEMMA LostStays == Lost /\ [FaultNext]_faultVars => Lost'
<1> SUFFICES ASSUME Lost, [FaultNext]_faultVars PROVE Lost'
  OBVIOUS
<1>1. CASE Operate
  BY <1>1 DEF Operate, Lost
<1>2. CASE WriteRoot \/ UNCHANGED faultVars
  BY <1>2 DEF WriteRoot, faultVars, history, Lost
<1>3. CASE Failures
  BY <1>3 DEF Failures, WriteRootFails, WriteBucketsFails, Fault, Lost
<1>4. CASE RestartBoth \/ RestartClient
  BY <1>4 DEF RestartBoth, RestartClient, HarmOfRestart, Fault, Lost
<1> QED BY <1>1, <1>2, <1>3, <1>4 DEF FaultNext

-----------------------------------------------------------------------------
(***************************************************************************)
(* The theorems.                                                           *)
(***************************************************************************)

LEMMA FaultsCount == faults \in Nat /\ [FaultNext]_faultVars => faults' \in Nat
BY DEF FaultNext, Operate, WriteRoot, Failures, WriteRootFails, WriteBucketsFails,
       RestartBoth, RestartClient, Fault, faultVars, history

\* The inductive invariant holds through all operations, failed writes and
\* restarts, until a client ends between two reads.
THEOREM FaultInductive == FaultSpec => [](faults \in Nat /\ (Lost \/ FaultInv))
<1> DEFINE Inv == faults \in Nat /\ (Lost \/ FaultInv)
<1>1. FaultInit => Inv
  BY InitFaultInv DEF FaultInit
<1>2. Inv /\ [FaultNext]_faultVars => Inv'
  <2> SUFFICES ASSUME Inv, [FaultNext]_faultVars PROVE Inv'
    OBVIOUS
  <2>1. faults' \in Nat
    BY FaultsCount
  <2>2. Lost' \/ FaultInv'
    BY FaultNextIs, NextFaultInv, LostStays, OddDeathLoses
  <2> QED BY <2>1, <2>2
<1> QED BY <1>1, <1>2, PTL DEF FaultSpec

LEMMA CopiesOfOne ==
  ASSUME NEW id, AtMostOnce(id), There(id)
  PROVE  IF id \in DOMAIN parentPos THEN \E place \in Copies(id) : Copies(id) = {place}
                                    ELSE Copies(id) = {}
<1> DEFINE Kinds == {k \in {"held", "fresh", "cache"} :
                       \/ k = "held"  /\ id \in DOMAIN held
                       \/ k = "fresh" /\ id \in DOMAIN fresh
                       \/ k = "cache" /\ id \in DOMAIN cache}
           Outs  == {b \in DOMAIN outbuf : id \in DOMAIN outbuf[b]}
           Trees == {b \in Buckets \ Opened : id \in DOMAIN tree[b]}
<1>1. Copies(id) = {<<kind, 0>> : kind \in Kinds}
                     \cup {<<"outbuf", b>> : b \in Outs}
                     \cup {<<"tree", b>> : b \in Trees}
  BY DEF Copies
<1>2. /\ \A b : b \in Outs <=> InOut(id, b)
      /\ \A b : b \in Trees <=> InTree(id, b)
      /\ Kinds = {} <=> ~Local(id)
  BY DEF InOut, InTree, Local
<1>3. Local(id) => \E k : Kinds = {k}
  BY DEF AtMostOnce, Local
<1> HIDE DEF Kinds, Outs, Trees
<1>4. CASE id \notin DOMAIN parentPos
  <2>1. Kinds = {} /\ Outs = {} /\ Trees = {}
    BY <1>2, <1>4 DEF There
  <2> QED BY <1>1, <1>4, <2>1
<1>5. CASE Local(id)
  <2>1. Outs = {} /\ Trees = {}
    BY <1>2, <1>5 DEF AtMostOnce
  <2>2. PICK k : Kinds = {k}
    BY <1>3, <1>5
  <2>3. Copies(id) = {<<k, 0>>}
    BY <1>1, <2>1, <2>2
  <2> QED BY <1>5, <2>3 DEF There
<1>6. ASSUME ~Local(id), NEW b, InOut(id, b)
      PROVE  \E place \in Copies(id) : Copies(id) = {place}
  <2>1. Kinds = {} /\ Outs = {b} /\ Trees = {}
    BY <1>2, <1>6 DEF AtMostOnce
  <2>2. Copies(id) = {<<"outbuf", b>>}
    BY <1>1, <2>1
  <2> QED BY <2>2
<1>7. ASSUME ~Local(id), NEW b, InTree(id, b)
      PROVE  \E place \in Copies(id) : Copies(id) = {place}
  <2>1. Kinds = {} /\ Outs = {} /\ Trees = {b}
    BY <1>2, <1>7 DEF AtMostOnce
  <2>2. Copies(id) = {<<"tree", b>>}
    BY <1>1, <2>1
  <2> QED BY <2>2
<1> QED BY <1>4, <1>5, <1>6, <1>7 DEF There

\* A node that no fault has met keeps its one copy, on its recorded path,
\* however many writes fail and clients are restarted.
THEOREM HarmIsContained == FaultSpec => []HarmContained
<1>1. ASSUME FaultInv, NEW id \in Ids \ harmed
      PROVE  IF id \in DOMAIN parentPos
             THEN /\ \E place \in Copies(id) : Copies(id) = {place}
                  /\ id \in DOMAIN cache => cache[id].pos = parentPos[id]
                  /\ \A b \in Buckets \ Opened :
                       id \in DOMAIN tree[b] => b \in Path(parentPos[id])
             ELSE Copies(id) = {}
  <2>1. AtMostOnce(id) /\ There(id) /\ InPlace(id)
    BY <1>1 DEF FaultInv, Level
  <2> QED BY <2>1, CopiesOfOne DEF InPlace, InTree
<1>2. Lost \/ FaultInv => HarmContained
  BY <1>1 DEF HarmContained, Lost
<1> QED BY <1>2, FaultInductive, PTL

-----------------------------------------------------------------------------
(***************************************************************************)
(* No harm without a fault: until the first one, the level is as PathORAM  *)
(* has it, and every bucket opened is rewritten.                           *)
(***************************************************************************)
HarmFree == faults \in Nat /\ (faults = 0 => IInv /\ harmed = {})

LEMMA WholePathsRewritten ==
  ASSUME IInv, WriteBuckets
  PROVE  LeftBehind = {}
BY DEF IInv, RewritesWhatItRead, WriteBuckets, LeftBehind

LEMMA NextHarmFree ==
  ASSUME FaultInv, HarmFree, [SafeNext]_faultVars
  PROVE  HarmFree'
<1>1. CASE Operate
  <2>1. faults' = faults /\ (PartInit \/ Access \/ Finish)
    BY <1>1 DEF Operate
  <2> SUFFICES ASSUME faults = 0 PROVE IInv' /\ harmed' = {}
    BY <2>1 DEF HarmFree
  <2>2. IInv /\ harmed = {} /\ Next
    BY <2>1 DEF HarmFree, Next
  <2>3. IInv'
    BY <2>2, NextIInv
  <2>4. CASE WriteBuckets
    <3>1. pc = "evict" /\ pc' = "idle" /\ LeftBehind = {}
      BY <2>1, <2>2, <2>4, Stages, WholePathsRewritten
    <3> QED BY <1>1, <2>2, <2>3, <3>1 DEF Operate
  <2>5. CASE ~WriteBuckets
    <3>1. ~(pc = "evict" /\ pc' = "idle")
      BY <2>1, <2>5, Stages
    <3> QED BY <1>1, <2>2, <2>3, <3>1 DEF Operate
  <2> QED BY <2>3, <2>4, <2>5
<1>2. CASE WriteRoot
  <2>1. UNCHANGED vars /\ harmed' = harmed /\ faults' = faults
    BY <1>2 DEF WriteRoot, history
  <2>2. IInv => IInv'
    BY <2>1, NextIInv
  <2> QED BY <2>1, <2>2 DEF HarmFree
<1>3. CASE Failures \/ (SafeRestart /\ faults' = faults + 1)
  <2>1. faults' = faults + 1
    BY <1>3 DEF Failures, WriteRootFails, WriteBucketsFails, Fault
  <2> QED BY <2>1 DEF HarmFree
<1>4. CASE UNCHANGED faultVars
  <2>1. UNCHANGED vars /\ harmed' = harmed /\ faults' = faults
    BY <1>4 DEF faultVars, history
  <2>2. IInv => IInv'
    BY <2>1, NextIInv
  <2> QED BY <2>1, <2>2 DEF HarmFree
<1> QED BY <1>1, <1>2, <1>3, <1>4 DEF SafeNext

\* What HarmIsContained and FaultsAreDurable leave out is the doing of faults:
\* without one they speak of every node.
THEOREM FaultsHarm == FaultSpec => []HarmlessWithoutFault
<1> DEFINE Inv == Lost \/ (FaultInv /\ HarmFree)
<1>1. FaultInit => Inv
  BY InitFaultInv, InitIInv DEF FaultInit, HarmFree
<1>2. Inv /\ [FaultNext]_faultVars => Inv'
  BY FaultNextIs, NextFaultInv, NextHarmFree, LostStays, OddDeathLoses DEF HarmFree
<1>3. Inv => HarmlessWithoutFault
  BY DEF Lost, HarmFree, HarmlessWithoutFault
<1> QED BY <1>1, <1>2, <1>3, PTL DEF FaultSpec

-----------------------------------------------------------------------------
(***************************************************************************)
(* Faults implements DurableStore.  As for PathORAM each node is followed  *)
(* through the places it can be in, but only as long as it is unharmed;    *)
(* SavedOnDisk says what a restart goes back to.                           *)
(***************************************************************************)
\* The server stores the table as the last operation that ended left it, for
\* the nodes that a client started now is said to find.
SavedOnDisk ==
  \A id \in Ids \ HarmOfRestart :
    /\ id \in DOMAIN finished <=> id \in DOMAIN savedPos
    /\ \A b \in Buckets : id \in DOMAIN tree[b] => finished[id] = tree[b][id].val

\* One node is searched for at a time.
OneAnswer == \A x, y \in DOMAIN result : x = y

DurableInv == FaultInv /\ SavedOnDisk /\ OneAnswer /\ DOMAIN finished \subseteq Ids

-----------------------------------------------------------------------------
(***************************************************************************)
(* The content of a node outside H is that of its one copy.                *)
(***************************************************************************)
LEMMA ContentOfOne ==
  ASSUME NEW H, Level(H), NEW id \in Ids \ H, id \in DOMAIN parentPos
  PROVE  Has(id, Content(id)) /\ \A v : Has(id, v) => Content(id) = v
<1> DEFINE sent   == {b \in DOMAIN outbuf : id \in DOMAIN outbuf[b]}
           onPath == {b \in Path(parentPos[id]) \ Opened : id \in DOMAIN tree[b]}
<1>1. parentPos[id] \in Positions /\ AtMostOnce(id) /\ There(id) /\ InPlace(id)
  BY DEF Level, LevelTypes, IsMap
<1>2. \A b : b \in sent <=> InOut(id, b)
  BY DEF InOut
<1>3. \A b : b \in onPath <=> InTree(id, b)
  BY <1>1, PathInBuckets DEF InTree, InPlace
<1>4. Local(id) => sent = {} /\ onPath = {}
  BY <1>1, <1>2, <1>3 DEF AtMostOnce
<1>5. Local(id) \/ sent # {} \/ onPath # {}
  BY <1>1, <1>2, <1>3 DEF There
<1>6. /\ \A b \in sent : sent = {b} /\ onPath = {}
      /\ \A b \in onPath : onPath = {b} /\ sent = {}
  BY <1>1, <1>2, <1>3 DEF AtMostOnce
<1>7. Content(id) = IF id \in DOMAIN held THEN held[id].val
                   ELSE IF id \in DOMAIN fresh THEN fresh[id].val
                   ELSE IF id \in DOMAIN cache THEN cache[id].val
                   ELSE IF sent # {} THEN outbuf[CHOOSE b \in sent : TRUE][id].val
                   ELSE IF onPath # {} THEN tree[CHOOSE b \in onPath : TRUE][id].val
                   ELSE NoVal
  BY DEF Content
<1> HIDE DEF sent, onPath
<1>8. CASE Local(id)
  <2>1. \A b : ~InOut(id, b) /\ ~InTree(id, b)
    BY <1>2, <1>3, <1>4, <1>8
  <2> QED BY <1>1, <1>4, <1>7, <1>8, <2>1 DEF Has, Local, AtMostOnce
<1>9. CASE ~Local(id) /\ sent # {}
  <2>1. PICK b \in sent : sent = {b} /\ onPath = {}
    BY <1>6, <1>9
  <2>2. (CHOOSE c \in sent : TRUE) = b
    BY <2>1
  <2>3. Content(id) = outbuf[b][id].val
    BY <1>7, <1>9, <2>1, <2>2 DEF Local
  <2>4. \A c : (InOut(id, c) <=> c = b) /\ ~InTree(id, c)
    BY <1>2, <1>3, <2>1
  <2> QED BY <1>9, <2>3, <2>4 DEF Has, Local
<1>10. CASE ~Local(id) /\ onPath # {}
  <2>1. PICK b \in onPath : onPath = {b} /\ sent = {}
    BY <1>6, <1>10
  <2>2. (CHOOSE c \in onPath : TRUE) = b
    BY <2>1
  <2>3. Content(id) = tree[b][id].val
    BY <1>7, <1>10, <2>1, <2>2 DEF Local
  <2>4. \A c : (InTree(id, c) <=> c = b) /\ ~InOut(id, c)
    BY <1>2, <1>3, <2>1
  <2> QED BY <1>10, <2>3, <2>4 DEF Has, Local
<1> QED BY <1>5, <1>8, <1>9, <1>10

Levelled == Level(harmed)

ContentKnown ==
  \A id \in Ids \ harmed : id \in DOMAIN parentPos =>
    Has(id, Content(id)) /\ \A v : Has(id, v) => Content(id) = v

LEMMA ContentIsKnown == Levelled => ContentKnown
BY ContentOfOne DEF Levelled, ContentKnown

LEMMA ContentIsKnownNext == Level(harmed)' => ContentKnown'
<1>1. Levelled' => ContentKnown'
  BY ContentIsKnown, PTL
<1> QED BY <1>1 DEF Levelled

\* A step leaves a node where it is or moves its copy.
Stays(id) ==
  /\ id \in DOMAIN parentPos' <=> id \in DOMAIN parentPos
  /\ id \in DOMAIN parentPos => \A v : Has(id, v) => Has(id, v)'

LEMMA StayingKeepsContent ==
  ASSUME Level(harmed), Level(harmed)', harmed \subseteq harmed',
         NEW id \in Ids \ harmed', Stays(id), id \in DOMAIN parentPos
  PROVE  Content(id)' = Content(id)
<1>1. PICK v : v = Content(id)
  OBVIOUS
<1>2. Has(id, v)
  BY <1>1, ContentIsKnown DEF Levelled, ContentKnown
<1>3. id \in DOMAIN parentPos' /\ Has(id, v)'
  BY <1>2 DEF Stays
<1>4. Content(id)' = v
  BY <1>3, ContentIsKnownNext DEF ContentKnown
<1> QED BY <1>1, <1>4

-----------------------------------------------------------------------------
(***************************************************************************)
(* The steps that move nodes.                                              *)
(***************************************************************************)
LEMMA SameStays ==
  ASSUME Opened' = Opened,
         UNCHANGED <<held, fresh, cache, outbuf, tree, parentPos>>, NEW id
  PROVE  Stays(id)
BY DEF Stays, Has, InTree, InOut

LEMMA PartInitStays == ASSUME PartInit, NEW id PROVE Stays(id)
<1>1. Opened' = Opened
  BY DEF PartInit, Opened
<1> QED BY <1>1, SameStays DEF PartInit, server

LEMMA SearchEmptyStays == ASSUME SearchEmpty, NEW id PROVE Stays(id)
<1>1. Opened' = Opened
  BY DEF SearchEmpty, Opened, client, server
<1> QED BY <1>1, SameStays DEF SearchEmpty, client, server, evict

\* What was in the buckets opened is in N.
LEMMA ReadBrings ==
  ASSUME NEW H, Level(H), NEW R, NEW N, ReadsLevel(H, R, N),
         NEW id \in Ids \ H, NEW v, Has(id, v)
  PROVE  \/ id \in DOMAIN held /\ held[id].val = v
         \/ id \in DOMAIN fresh /\ fresh[id].val = v
         \/ id \in DOMAIN N /\ N[id].val = v
         \/ \E b : InOut(id, b) /\ outbuf[b][id].val = v
         \/ \E b : InTree(id, b) /\ b \notin R /\ tree[b][id].val = v
BY DEF ReadsLevel, Has

LEMMA SearchNodeStays ==
  ASSUME NEW H, Level(H), NEW x \in Ids, SearchNode(x), NEW id \in Ids \ H
  PROVE  /\ Stays(id)
         /\ \E v : result' = Singleton(x, v) /\ (id = x => Content(id) = v)
<1> DEFINE N == Looked(x)
<1>1. /\ pc = "access" /\ DOMAIN held = {} /\ pc' = "writeback" /\ ReadBookkeeping(x)
      /\ x \in DOMAIN parentPos
      /\ held' = held /\ fresh' = fresh /\ parentPos' = parentPos
      /\ writeview' = writeview /\ outbuf' = outbuf
  BY DEF SearchNode, NoNodes, evict
<1>2. PICK R : ReadsNode(H, x, R)
  BY <1>1, ReadIsOfLevel
<1>3. ReadSets(H, x, R)
  BY <1>1, <1>2, ReadGives
<1>4. ReadsLevel(H, R, N) /\ tree' = tree /\ (x \notin H => Finds(x))
  BY <1>2 DEF ReadsNode
<1>5. \A b : (InTree(id, b)' <=> InTree(id, b) /\ b \notin R) /\ (InOut(id, b)' <=> InOut(id, b))
  BY <1>1, <1>3, <1>4 DEF InTree, InOut, ReadSets
<1>6. id \in DOMAIN N => id \in DOMAIN cache' /\ cache'[id] = N[id]
  <2>1. cache' = IF Finds(x) /\ x \notin DOMAIN cache THEN Put(N, x, NodeRead(x)) ELSE N
    BY DEF SearchNode
  <2>2. id = x => NodeRead(x) = N[x]
    BY <1>3, <1>4 DEF ReadSets
  <2> HIDE DEF N
  <2> QED BY <2>1, <2>2 DEF Put
<1>7. Stays(id)
  <2> HIDE DEF N
  <2>1. ASSUME NEW v, Has(id, v) PROVE Has(id, v)'
    BY <1>1, <1>4, <1>5, <1>6, <2>1, ReadBrings, SMTT(30) DEF Has
  <2> QED BY <1>1, <2>1 DEF Stays
<1>8. result' = Singleton(x, IF Finds(x) THEN NodeRead(x).val ELSE NoVal)
  BY DEF SearchNode
<1>9. ASSUME id = x PROVE Finds(x) /\ Content(id) = NodeRead(x).val
  <2>1. Finds(x) /\ NodeRead(x) = N[id]
    BY <1>3, <1>4, <1>9 DEF ReadSets
  <2>2. id \in DOMAIN N /\ id \in DOMAIN parentPos
    BY <1>1, <1>9, <2>1 DEF Finds
  <2> HIDE DEF N
  <2>3. Has(id, N[id].val)
    BY <1>4, <2>2 DEF ReadsLevel, Has
  <2> QED BY <2>1, <2>2, <2>3, ContentOfOne
<1> QED BY <1>7, <1>8, <1>9

LEMMA TakeNodeStays ==
  ASSUME NEW H, Level(H), NEW x \in Ids, NEW random \in Positions, TakeNode(x, random),
         NEW id \in Ids \ H
  PROVE  Stays(id)
<1> DEFINE N == Looked(x)
           n == IF Finds(x) THEN NodeRead(x) ELSE [pos |-> random, val |-> NoVal]
<1>1. /\ pc = "access" /\ pc' = pc /\ ReadBookkeeping(x)
      /\ \A y, z \in DOMAIN held : y = z
      /\ x \in DOMAIN parentPos \ DOMAIN held
      /\ fresh' = fresh /\ parentPos' = parentPos
      /\ writeview' = writeview /\ outbuf' = outbuf
      /\ cache' = Drop(N, {x}) /\ held' = Put(held, x, n)
  BY DEF TakeNode, evict
<1>2. PICK R : ReadsNode(H, x, R)
  BY <1>1, ReadIsOfLevel
<1>3. ReadSets(H, x, R)
  BY <1>1, <1>2, ReadGives
<1>4. ReadsLevel(H, R, N) /\ tree' = tree /\ (x \notin H => Finds(x))
  BY <1>2 DEF ReadsNode
<1>5. id = x => n = N[id]
  BY <1>3, <1>4 DEF ReadSets
<1>6. \A b : (InTree(id, b)' <=> InTree(id, b) /\ b \notin R) /\ (InOut(id, b)' <=> InOut(id, b))
  BY <1>1, <1>3, <1>4 DEF InTree, InOut, ReadSets
<1> HIDE DEF N, n
<1>7. /\ id \in DOMAIN held => id \in DOMAIN held' /\ held'[id] = held[id]
      /\ id \in DOMAIN N /\ id # x => id \in DOMAIN cache' /\ cache'[id] = N[id]
      /\ id = x => id \in DOMAIN held' /\ held'[id] = N[id]
  BY <1>1, <1>5 DEF Put, Drop
<1>8. ASSUME NEW v, Has(id, v) PROVE Has(id, v)'
  <2>1. \/ id \in DOMAIN held /\ held[id].val = v
        \/ id \in DOMAIN fresh /\ fresh[id].val = v
        \/ id \in DOMAIN N /\ N[id].val = v
        \/ \E b : InOut(id, b) /\ outbuf[b][id].val = v
        \/ \E b : InTree(id, b) /\ b \notin R /\ tree[b][id].val = v
    BY <1>4, <1>8, ReadBrings
  <2> QED BY <1>1, <1>4, <1>6, <1>7, <2>1 DEF Has
<1> QED BY <1>1, <1>8 DEF Stays

LEMMA WriteHeldStays ==
  ASSUME NEW H, Level(H), NEW x \in Ids, WriteHeld(x), NEW id \in Ids \ H
  PROVE  Stays(id)
<1>1. Opened' = Opened
  BY DEF WriteHeld, Opened, server
<1>2. /\ id # x => /\ id \in DOMAIN held => id \in DOMAIN held' /\ held'[id] = held[id]
                   /\ id \in DOMAIN cache => id \in DOMAIN cache' /\ cache'[id] = cache[id]
      /\ id = x => id \in DOMAIN cache' /\ cache'[id] = held[id] /\ id \in DOMAIN held
      /\ fresh' = fresh /\ parentPos' = parentPos /\ tree' = tree /\ outbuf' = outbuf
  BY DEF WriteHeld, Put, Drop, server, evict
<1>3. AtMostOnce(id)
  BY DEF Level
<1>4. \A b : (InTree(id, b)' <=> InTree(id, b)) /\ (InOut(id, b)' <=> InOut(id, b))
  BY <1>1, <1>2 DEF InTree, InOut
<1> QED BY <1>2, <1>3, <1>4 DEF Stays, Has, AtMostOnce

LEMMA WriteFreshStays ==
  ASSUME NEW H, Level(H), NEW x \in Ids, WriteFresh(x), NEW id \in Ids \ H
  PROVE  Stays(id)
<1> DEFINE leaf == fresh[x].pos
           N == Fetched(leaf)
<1>1. leaf \in Positions /\ readCnt <= 1 /\ x \in DOMAIN fresh /\ \A y \in DOMAIN fresh : y = x
  BY DEF WriteFresh, Level, LevelTypes, Phase, IsNodeMap, IsMap, Nodes
<1>2. ReadsLevel(H, Path(leaf), N) /\ HandedOut = Opened
  BY <1>1, FetchReadsLevel DEF WriteFresh
<1>3. KeepsOne(id, Path(leaf), N)
  BY <1>2, ReadsKeepOne
<1>4. Opened' = Opened \cup Path(leaf)
  BY <1>2 DEF Opened, WriteFresh, FetchPath, Level, LevelTypes
<1>5. held' = held /\ parentPos' = parentPos /\ tree' = tree /\ outbuf' = outbuf
  BY DEF WriteFresh, FetchPath, evict
<1>6. \A b : /\ InTree(id, b)' <=> InTree(id, b) /\ b \notin Path(leaf)
             /\ InOut(id, b)' <=> InOut(id, b)
  BY <1>4, <1>5 DEF InTree, InOut
<1>7. cache' = Put(N, x, fresh[x])
  BY DEF WriteFresh
<1> HIDE DEF leaf, N
<1>8. /\ x \in DOMAIN cache' /\ cache'[x] = fresh[x]
      /\ id \in DOMAIN N => id \in DOMAIN cache' /\ (id # x => cache'[id] = N[id])
  BY <1>7 DEF Put
<1>9. ASSUME NEW v, Has(id, v) PROVE Has(id, v)'
  <2>1. \/ id \in DOMAIN held /\ held[id].val = v
        \/ id \in DOMAIN fresh /\ fresh[id].val = v
        \/ id \in DOMAIN N /\ N[id].val = v
        \/ \E b : InOut(id, b) /\ outbuf[b][id].val = v
        \/ \E b : InTree(id, b) /\ b \notin Path(leaf) /\ tree[b][id].val = v
    BY <1>2, <1>9, ReadBrings
  <2>2. id \in DOMAIN N => id # x
    BY <1>1, <1>3 DEF KeepsOne
  <2> QED BY <1>1, <1>5, <1>6, <1>8, <2>1, <2>2 DEF Has
<1> QED BY <1>5, <1>9 DEF Stays

LEMMA FinalizeLeafStays ==
  ASSUME NEW H, Level(H), NEW random \in Positions, FinalizeLeaf(random), NEW id \in Ids \ H
  PROVE  Stays(id)
<1> DEFINE N == Fetched(random)
<1>1. readCnt <= 1 /\ pc = "writeback" /\ pc' = pc
  BY DEF FinalizeLeaf, WrittenBack, Level, LevelTypes, local
<1>2. ReadsLevel(H, Path(random), N) /\ HandedOut = Opened
  BY <1>1, FetchReadsLevel
<1>3. Opened' = Opened \cup Path(random)
  BY <1>1, <1>2 DEF Opened, FinalizeLeaf, FetchPath, Level, LevelTypes
<1>4. /\ held' = held /\ fresh' = fresh /\ parentPos' = parentPos
      /\ tree' = tree /\ outbuf' = outbuf /\ cache' = N
  BY DEF FinalizeLeaf, FetchPath, local, evict
<1>5. \A b : /\ InTree(id, b)' <=> InTree(id, b) /\ b \notin Path(random)
             /\ InOut(id, b)' <=> InOut(id, b)
  BY <1>3, <1>4 DEF InTree, InOut
<1> HIDE DEF N
<1>6. ASSUME NEW v, Has(id, v) PROVE Has(id, v)'
  BY <1>2, <1>4, <1>5, <1>6, ReadBrings DEF Has
<1> QED BY <1>4, <1>6 DEF Stays

LEMMA RemapStays ==
  ASSUME NEW H, Level(H), Remap, NEW id \in Ids \ H PROVE Stays(id)
<1>1. PICK random \in [DOMAIN cache \cap modified -> Positions] :
        cache' = [x \in DOMAIN cache |->
                    IF x \in modified THEN [cache[x] EXCEPT !.pos = random[x]]
                                      ELSE cache[x]]
  BY DEF Remap
<1>2. Opened' = Opened
  BY DEF Remap, Opened, WrittenBack, server
<1>3. /\ held' = held /\ fresh' = fresh /\ DOMAIN parentPos' = DOMAIN parentPos
      /\ tree' = tree /\ outbuf' = outbuf
  BY DEF Remap, server, evict
<1>4. \A b : (InTree(id, b)' <=> InTree(id, b)) /\ (InOut(id, b)' <=> InOut(id, b))
  BY <1>2, <1>3 DEF InTree, InOut
<1>5. \A x \in DOMAIN cache : x \in DOMAIN cache' /\ cache'[x].val = cache[x].val
  BY <1>1 DEF Level, LevelTypes, IsNodeMap, IsMap, Nodes
<1> QED BY <1>3, <1>4, <1>5 DEF Stays, Has

LEMMA WriteLeafPathStays ==
  ASSUME NEW H, Level(H), NEW leaf \in Positions, NEW d \in 0 .. Depth,
         WriteLeafPath(leaf, d), NEW id \in Ids \ H
  PROVE  Stays(id)
<1> DEFINE b == Node(leaf, d)
<1>1. PICK chosen \in SUBSET Intersecting(b, d) :
        /\ outbuf' = Put(outbuf, b, Restrict(cache, chosen))
        /\ cache' = Drop(cache, chosen)
  BY DEF WriteLeafPath
<1>2. b \notin DOMAIN outbuf /\ chosen \subseteq DOMAIN cache
  BY DEF WriteLeafPath, Level, RewritesOnlyRead, Intersecting
<1>3. Opened' = Opened
  BY DEF WriteLeafPath, Opened, local, server
<1> HIDE DEF b
<1>4. held' = held /\ fresh' = fresh /\ parentPos' = parentPos /\ tree' = tree
  BY DEF WriteLeafPath, local, server
<1>5. \A c : InTree(id, c)' <=> InTree(id, c)
  BY <1>3, <1>4 DEF InTree
<1>6. /\ \A x \in DOMAIN cache \ chosen : x \in DOMAIN cache' /\ cache'[x] = cache[x]
      /\ \A x \in chosen : InOut(x, b)' /\ outbuf'[b][x] = cache[x]
      /\ \A x, c : InOut(x, c) => InOut(x, c)' /\ outbuf'[c][x] = outbuf[c][x]
  BY <1>1, <1>2 DEF InOut, Put, Drop, Restrict
<1>7. ASSUME NEW v, Has(id, v) PROVE Has(id, v)'
  <2>1. CASE id \in DOMAIN cache /\ cache[id].val = v
    BY <1>6, <2>1 DEF Has
  <2>2. CASE ~(id \in DOMAIN cache /\ cache[id].val = v)
    BY <1>4, <1>5, <1>6, <1>7, <2>2 DEF Has
  <2> QED BY <2>1, <2>2
<1> QED BY <1>4, <1>7 DEF Stays

LEMMA WriteBucketsStays ==
  ASSUME NEW H, Level(H), WriteBuckets, NEW id \in Ids \ H, id \notin LeftBehind
  PROVE  Stays(id)
<1>1. DOMAIN outbuf = writeview /\ writeview \subseteq Opened /\ Opened' = {}
  BY DEF WriteBuckets, Level, RewritesOnlyRead, Phase, Opened
<1>2. /\ DOMAIN tree' = Buckets
      /\ \A b \in Buckets : tree'[b] = IF b \in writeview THEN outbuf[b] ELSE tree[b]
      /\ held' = held /\ fresh' = fresh /\ cache' = cache /\ parentPos' = parentPos
  BY <1>1 DEF WriteBuckets
<1>3. \A b : /\ InTree(id, b) => InTree(id, b)' /\ tree'[b] = tree[b]
             /\ InOut(id, b) => InTree(id, b)' /\ tree'[b] = outbuf[b]
  BY <1>1, <1>2 DEF InTree, InOut, Level, LevelTypes
<1> QED BY <1>2, <1>3 DEF Stays, Has

LEMMA BucketsFailStays ==
  ASSUME FaultInv, NEW stored \in SUBSET DOMAIN outbuf, WriteBucketsFails(stored),
         NEW id \in Ids \ harmed'
  PROVE  Stays(id)
<1>1. /\ pc = "evict" /\ pc' = "idle"
      /\ UNCHANGED <<held, fresh, parentPos, cache>>
      /\ tree' = [b \in Buckets |-> IF b \in stored THEN outbuf[b] ELSE tree[b]]
      /\ \A b \in DOMAIN outbuf : id \notin DOMAIN outbuf[b]
  BY DEF WriteBucketsFails
<1>2. DOMAIN outbuf = writeview /\ writeview \subseteq Opened /\ Opened' = {}
  BY <1>1 DEF FaultInv, Level, Phase, RewritesOnlyRead, Opened
<1>3. \A b : ~InOut(id, b) /\ (InTree(id, b) => InTree(id, b)' /\ tree'[b] = tree[b])
  BY <1>1, <1>2 DEF InTree, InOut
<1> QED BY <1>1, <1>3 DEF Stays, Has

\* The steps of an operation that change no node.
Changing == \E h, f : ChangesTo(h, f)

LEMMA OperateStays ==
  ASSUME FaultInv, Operate, ~Changing, NEW id \in Ids \ harmed'
  PROVE  Stays(id)
<1>1. PICK H : H = harmed
  OBVIOUS
<1>2. Level(H)
  BY <1>1 DEF FaultInv
<1>3. /\ PartInit \/ Access \/ Finish
      /\ id \in Ids \ H /\ (WriteBuckets => id \notin LeftBehind)
  BY <1>1, Stages DEF Operate
<1>4. CASE PartInit
  BY <1>4, PartInitStays
<1>5. CASE Access
  BY <1>2, <1>3, <1>5, AccessIs, SearchEmptyStays, SearchNodeStays, TakeNodeStays DEF Changing
<1>6. CASE Finish
  BY <1>2, <1>3, <1>6, WriteHeldStays, WriteFreshStays, FinalizeLeafStays, RemapStays,
     WriteLeafPathStays, WriteBucketsStays DEF Finish
<1> QED BY <1>3, <1>4, <1>5, <1>6

LEMMA UnchangedStays == ASSUME UNCHANGED vars, NEW id PROVE Stays(id)
<1> USE DEF vars, local, client, evict, server
<1>1. Opened' = Opened
  BY DEF Opened
<1> QED BY <1>1, SameStays

-----------------------------------------------------------------------------
(***************************************************************************)
(* What is saved.                                                          *)
(***************************************************************************)

\* The last table the level is said to have ended with is the present one.
FinishedIsListed ==
  \A id \in Ids \ harmed :
    /\ id \in DOMAIN finished <=> id \in DOMAIN parentPos
    /\ id \in DOMAIN parentPos => finished[id] = Content(id)

LEMMA SavedAtRest ==
  ASSUME Level(harmed), RootsAgree, pc = "idle", FinishedIsListed PROVE SavedOnDisk
<1>1. DOMAIN held = {} /\ DOMAIN fresh = {} /\ modified = {} /\ Opened = {}
  BY DEF Level, Phase, Opened
<1> SUFFICES ASSUME NEW id \in Ids \ HarmOfRestart
             PROVE  /\ id \in DOMAIN finished <=> id \in DOMAIN savedPos
                    /\ \A b \in Buckets : id \in DOMAIN tree[b] => finished[id] = tree[b][id].val
  BY DEF SavedOnDisk
<1>2. id \notin harmed /\ id \notin behind
  BY DEF HarmOfRestart
<1>3. id \in DOMAIN savedPos <=> id \in DOMAIN parentPos
  BY <1>1, <1>2 DEF RootsAgree
<1>4. ASSUME NEW b \in Buckets, id \in DOMAIN tree[b]
      PROVE  finished[id] = tree[b][id].val
  <2>1. InTree(id, b)
    BY <1>1, <1>4 DEF InTree
  <2>2. id \in DOMAIN parentPos /\ Has(id, tree[b][id].val)
    BY <1>2, <2>1 DEF Level, There, Has
  <2>3. Content(id) = tree[b][id].val
    BY <1>2, <2>2, ContentIsKnown DEF Levelled, ContentKnown
  <2> QED BY <1>2, <2>2, <2>3 DEF FinishedIsListed
<1> QED BY <1>2, <1>3, <1>4 DEF FinishedIsListed

LEMMA SavedAtRestNext ==
  Level(harmed)' /\ RootsAgree' /\ pc' = "idle" /\ FinishedIsListed' => SavedOnDisk'
<1>1. AtRest /\ FinishedIsListed => SavedOnDisk
  BY SavedAtRest DEF AtRest
<1>2. AtRest' /\ FinishedIsListed' => SavedOnDisk'
  BY <1>1, PTL
<1> QED BY <1>2 DEF AtRest

\* An operation that ends leaves its table, whether or not all was written.
LEMMA EndSaves ==
  ASSUME FaultInv, FaultInv', pc' = "idle", finished' = Listed, harmed \subseteq harmed',
         \A id \in Ids \ harmed' : Stays(id)
  PROVE  SavedOnDisk'
<1>1. FinishedIsListed'
  <2> SUFFICES ASSUME NEW id \in Ids \ harmed'
               PROVE  /\ id \in DOMAIN finished' <=> id \in DOMAIN parentPos'
                      /\ id \in DOMAIN parentPos' => finished'[id] = Content(id)'
    BY DEF FinishedIsListed
  <2>1. id \in DOMAIN parentPos' <=> id \in DOMAIN parentPos
    BY DEF Stays
  <2>2. id \in DOMAIN parentPos => Content(id)' = Content(id)
    BY StayingKeepsContent DEF FaultInv
  <2> QED BY <2>1, <2>2 DEF Listed
<1> QED BY <1>1, SavedAtRestNext DEF FaultInv

\* A step that leaves the server as it is can only put more nodes in danger.
LEMMA DangerKeepsSaved ==
  ASSUME SavedOnDisk, finished' = finished, savedPos' = savedPos, tree' = tree,
         HarmOfRestart \subseteq HarmOfRestart'
  PROVE  SavedOnDisk'
BY DEF SavedOnDisk

LEMMA OperateIsDanger ==
  ASSUME FaultInv, Operate, ~WriteBuckets
  PROVE  /\ finished' = finished /\ savedPos' = savedPos /\ tree' = tree
         /\ harmed' = harmed /\ HarmOfRestart \subseteq HarmOfRestart'
<1>1. PICK H : H = harmed
  OBVIOUS
<1>2. /\ PartInit \/ Access \/ Finish
      /\ pc' # "idle" /\ (pc = "idle" => PartInit)
  BY Stages DEF Operate
<1>3. LeavesUntouched(H)
  BY <1>1, <1>2, StepLeavesUntouched DEF FaultInv
<1>4. /\ harmed' = harmed /\ behind' = behind /\ savedPos' = savedPos /\ rootSent' = rootSent
      /\ stash' = IF pc = "idle" THEN DOMAIN cache ELSE stash
      /\ finished' = finished
  BY <1>2, Stages DEF Operate, FaultInv, HistoryTypes
<1> QED BY <1>2, <1>3, <1>4 DEF HarmOfRestart, LeavesUntouched

LEMMA RootIsDanger ==
  ASSUME FaultInv, WriteRoot \/ WriteRootFails
  PROVE  HarmOfRestart \subseteq HarmOfRestart'
<1>1. /\ UNCHANGED <<pc, cache, modified, harmed, behind, stash>>
      /\ rootSent' = TRUE /\ ~rootSent
  BY DEF WriteRoot, WriteRootFails, vars, local, client, history
<1> QED BY <1>1 DEF HarmOfRestart

\* What a restart goes back to is on the server, before and after each step.
LEMMA NextSaved ==
  ASSUME DurableInv, FaultInv', [SafeNext]_faultVars
  PROVE  SavedOnDisk'
<1> USE DEF DurableInv
<1>1. CASE Operate /\ ~WriteBuckets
  BY <1>1, OperateIsDanger, DangerKeepsSaved
<1>2. CASE Operate /\ WriteBuckets
  <2>1. /\ pc' = "idle" /\ finished' = Listed /\ harmed \subseteq harmed'
    BY <1>2, Stages DEF Operate
  <2>2. ~Changing
    BY <1>2 DEF Changing, ChangesTo, Change, WriteBuckets
  <2> QED BY <1>2, <2>1, <2>2, OperateStays, EndSaves
<1>3. CASE WriteRoot
  <2> SUFFICES ASSUME NEW id \in Ids \ HarmOfRestart'
               PROVE  /\ id \in DOMAIN finished <=> id \in DOMAIN parentPos
                      /\ \A b \in Buckets : id \in DOMAIN tree[b] => finished[id] = tree[b][id].val
    BY <1>3 DEF SavedOnDisk, WriteRoot, vars, server, history
  <2>1. id \notin HarmOfRestart
    BY <1>3, RootIsDanger
  <2>2. pc = "evict" /\ rootSent' /\ modified' = modified /\ pc' = pc
    BY <1>3 DEF WriteRoot, vars, local, client
  <2>3. id \notin harmed /\ id \notin behind /\ id \notin modified
    BY <2>1, <2>2 DEF HarmOfRestart
  <2>4. id \in DOMAIN savedPos <=> id \in DOMAIN parentPos
    BY <2>2, <2>3 DEF FaultInv, RootsAgree, Level, Phase
  <2> QED BY <2>1, <2>4 DEF SavedOnDisk
<1>4. CASE WriteRootFails
  <2>1. finished' = finished /\ savedPos' = savedPos /\ tree' = tree
    BY <1>4 DEF WriteRootFails, vars, server
  <2> QED BY <1>4, <2>1, RootIsDanger, DangerKeepsSaved
<1>5. ASSUME NEW stored \in SUBSET DOMAIN outbuf, WriteBucketsFails(stored)
      PROVE  SavedOnDisk'
  <2>1. pc' = "idle" /\ finished' = Listed /\ harmed \subseteq harmed'
    BY <1>5 DEF WriteBucketsFails
  <2> QED BY <1>5, <2>1, BucketsFailStays, EndSaves
<1>6. CASE SafeRestart
  <2>1. /\ harmed' = HarmOfRestart /\ tree' = tree /\ savedPos' = savedPos
        /\ finished' = finished
    BY <1>6 DEF SafeRestart, NewClient
  <2>2. HarmOfRestart \subseteq HarmOfRestart'
    BY <2>1 DEF HarmOfRestart
  <2> QED BY <2>1, <2>2, DangerKeepsSaved
<1>7. CASE UNCHANGED faultVars
  <2>1. /\ finished' = finished /\ savedPos' = savedPos /\ tree' = tree
        /\ UNCHANGED <<pc, cache, modified, harmed, behind, stash, rootSent>>
    BY <1>7 DEF faultVars, history, vars, local, client, server
  <2>2. HarmOfRestart' = HarmOfRestart
    BY <2>1 DEF HarmOfRestart
  <2> QED BY <2>1, <2>2, DangerKeepsSaved
<1> QED BY <1>1, <1>2, <1>3, <1>4, <1>5, <1>6, <1>7
           DEF SafeNext, Failures

\* Only a search sets an answer, and an operation's begin, a restart or a
\* step outside the level leave or clear it.
LEMMA AnswerSteps ==
  ASSUME [SafeNext]_faultVars
  PROVE  \/ result' = result
         \/ result' = NoNodes
         \/ \E x \in Ids : SearchNode(x) /\ Operate
<1>1. CASE Operate
  <2>1. CASE PartInit
    BY <2>1 DEF PartInit
  <2>2. CASE Access
    <3>1. ASSUME NEW h, NEW f, Change(h, f) PROVE result' = result
      BY <3>1 DEF Change
    <3>2. SearchEmpty => result' = result
      BY DEF SearchEmpty
    <3>3. (\E x \in Ids, random \in Positions : TakeNode(x, random)) => result' = result
      BY DEF TakeNode
    <3> QED BY <1>1, <2>2, <3>1, <3>2, <3>3
               DEF Access, FirstNode, ChangeNode, SplitNode, RearrangeNodes, MergeNodes
  <2>3. CASE Finish
    BY <2>3 DEF Finish, WriteHeld, WriteFresh, FinalizeLeaf, Remap, WriteLeafPath,
                WriteBuckets, local
  <2> QED BY <1>1, <2>1, <2>2, <2>3 DEF Operate
<1>2. CASE WriteRoot \/ Failures
  BY <1>2 DEF WriteRoot, Failures, WriteRootFails, WriteBucketsFails, vars, local
<1>3. CASE SafeRestart
  BY <1>3 DEF SafeRestart, NewClient
<1>4. CASE UNCHANGED faultVars
  BY <1>4 DEF faultVars, vars, local
<1> QED BY <1>1, <1>2, <1>3, <1>4 DEF SafeNext

LEMMA NextDurableInv == DurableInv /\ [SafeNext]_faultVars => DurableInv'
<1> SUFFICES ASSUME DurableInv, [SafeNext]_faultVars PROVE DurableInv'
  OBVIOUS
<1>1. FaultInv'
  BY NextFaultInv DEF DurableInv
<1>2. SavedOnDisk'
  BY <1>1, NextSaved
<1>3. OneAnswer'
  <2>1. DOMAIN NoNodes = {}
    BY DEF NoNodes
  <2>2. ASSUME NEW x \in Ids, SearchNode(x) PROVE DOMAIN result' \subseteq {x}
    BY <2>2 DEF SearchNode, Singleton
  <2> QED BY <2>1, <2>2, AnswerSteps DEF DurableInv, OneAnswer
<1>4. DOMAIN finished' \subseteq Ids
  <2>1. finished' = finished \/ finished' = Listed
    <3>1. Operate => finished' = finished \/ finished' = Listed
      BY DEF Operate
    <3>2. WriteRoot \/ SafeRestart \/ WriteRootFails => finished' = finished
      BY DEF WriteRoot, SafeRestart, NewClient, WriteRootFails, history
    <3>3. \A stored : WriteBucketsFails(stored) => finished' = Listed
      BY DEF WriteBucketsFails
    <3>4. UNCHANGED faultVars => finished' = finished
      BY DEF faultVars, history
    <3> QED BY <3>1, <3>2, <3>3, <3>4 DEF SafeNext, Failures
  <2>2. DOMAIN Listed \subseteq Ids
    BY DEF Listed, DurableInv, FaultInv, Level, LevelTypes, IsMap
  <2> QED BY <2>1, <2>2 DEF DurableInv
<1> QED BY <1>1, <1>2, <1>3, <1>4 DEF DurableInv

LEMMA InitDurableInv == FaultInit => DurableInv
<1> SUFFICES ASSUME FaultInit PROVE DurableInv
  OBVIOUS
<1>1. FaultInv
  BY InitFaultInv
<1>2. /\ result = NoNodes /\ finished = NoNodes /\ parentPos = NoNodes /\ savedPos = parentPos
      /\ tree = [b \in Buckets |-> NoNodes] /\ DOMAIN NoNodes = {}
  BY DEF FaultInit, Init, NoNodes
<1> QED BY <1>1, <1>2 DEF DurableInv, SavedOnDisk, OneAnswer

-----------------------------------------------------------------------------
(***************************************************************************)
(* The mapping: the three tables, less the nodes harmed.                   *)
(***************************************************************************)
TableLeft  == Restrict(Listed, DOMAIN Listed \ harmed)
SavedLeft  == Restrict(finished, DOMAIN finished \ harmed)
AnswerLeft == Restrict(result, DOMAIN result \ harmed)

TablesAre ==
  /\ DOMAIN TableLeft = DOMAIN parentPos \ harmed
  /\ \A id \in DOMAIN TableLeft : TableLeft[id] = Content(id)
  /\ DOMAIN TableLeft \subseteq Ids /\ DOMAIN SavedLeft \subseteq Ids
  /\ DOMAIN SavedLeft = DOMAIN finished \ harmed
  /\ \A id \in DOMAIN SavedLeft : SavedLeft[id] = finished[id]
  /\ TableLeft = [id \in DOMAIN TableLeft |-> TableLeft[id]]
  /\ SavedLeft = [id \in DOMAIN SavedLeft |-> SavedLeft[id]]

LEMMA TablesLeft == DurableInv => TablesAre
BY DEF TablesAre, TableLeft, SavedLeft, Restrict, Listed, DurableInv, FaultInv, Level,
       LevelTypes, IsMap

LEMMA TablesLeftNext == DurableInv' => TablesAre'
BY TablesLeft, PTL

\* Nodes that stay are in the table as before.
LEMMA StayingKeepsTable ==
  ASSUME DurableInv, DurableInv', harmed \subseteq harmed',
         \A id \in Ids \ harmed' : Stays(id)
  PROVE  TableLeft' = [id \in DOMAIN TableLeft \ harmed' |-> TableLeft[id]]
<1>1. \A id \in DOMAIN TableLeft' :
        id \in DOMAIN parentPos /\ Content(id)' = Content(id)
  BY TablesLeftNext, StayingKeepsContent DEF TablesAre, Stays, DurableInv, FaultInv
<1>2. DOMAIN TableLeft' = DOMAIN TableLeft \ harmed'
  BY TablesLeft, TablesLeftNext DEF TablesAre, Stays
<1>3. \A id \in DOMAIN TableLeft' : TableLeft'[id] = TableLeft[id]
  BY <1>1, <1>2, TablesLeft, TablesLeftNext DEF TablesAre
<1> QED BY <1>2, <1>3, TablesLeftNext DEF TablesAre

LEMMA StayingKeepsAll ==
  ASSUME DurableInv, DurableInv', harmed' = harmed, finished' = finished,
         \A id \in Ids \ harmed' : Stays(id)
  PROVE  TableLeft' = TableLeft /\ SavedLeft' = SavedLeft
<1>1. DOMAIN TableLeft \ harmed' = DOMAIN TableLeft
  BY TablesLeft DEF TablesAre
<1>2. TableLeft' = TableLeft
  BY <1>1, StayingKeepsTable, TablesLeft DEF TablesAre
<1> QED BY <1>2 DEF SavedLeft

LEMMA EmptyAnswer == ASSUME NEW r, NEW S, S = {} PROVE Restrict(r, S) = Durable!Nothing
BY DEF Restrict, Durable!Nothing

\* A change replaces the nodes it read, as far as they are unharmed.
LEMMA ChangeIsReplace ==
  ASSUME DurableInv, DurableInv', NEW h, NEW f, ChangesTo(h, f),
         harmed' = harmed, finished' = finished
  PROVE  Durable!Replace
<1> DEFINE S   == (DOMAIN h \cup DOMAIN f) \ harmed
           t   == [id \in S |-> IF id \in DOMAIN h THEN h[id].val ELSE f[id].val]
           old == DOMAIN held \ harmed
<1>1. Change(h, f) /\ IsNodeMap(h) /\ IsNodeMap(f) /\ DOMAIN h \cap DOMAIN f = {}
  BY DEF ChangesTo
<1>2. Opened' = Opened
  BY <1>1 DEF Change, Opened, server
<1>3. /\ held' = h /\ fresh' = f /\ cache' = cache /\ tree' = tree /\ outbuf' = outbuf
      /\ DOMAIN fresh = {} /\ DOMAIN held \subseteq DOMAIN parentPos
      /\ result' = result
      /\ DOMAIN h \cup DOMAIN f \subseteq (Ids \ DOMAIN parentPos) \cup DOMAIN held
  BY <1>1 DEF Change, Free, DurableInv, FaultInv, Level, Phase, server, evict
<1>4. DOMAIN parentPos' = (DOMAIN parentPos \ DOMAIN held) \cup DOMAIN h \cup DOMAIN f
  BY <1>1 DEF Change, Override, Drop
<1>5. \A id, b : (InTree(id, b)' <=> InTree(id, b)) /\ (InOut(id, b)' <=> InOut(id, b))
  BY <1>2, <1>3 DEF InTree, InOut
<1>6. ASSUME NEW id \in DOMAIN TableLeft'
      PROVE  TableLeft'[id] = IF id \in S THEN t[id] ELSE TableLeft[id]
  <2>1. id \in Ids \ harmed' /\ id \in DOMAIN parentPos' /\ TableLeft'[id] = Content(id)'
    BY <1>6, TablesLeftNext DEF TablesAre
  <2>2. CASE id \in S
    <3>1. Has(id, t[id])'
      BY <1>3, <2>2 DEF Has
    <3>2. Level(harmed)'
      BY DEF DurableInv, FaultInv
    <3>3. Content(id)' = t[id]
      <4> HIDE DEF S, t
      <4>1. PICK v : v = t[id]
        OBVIOUS
      <4>2. Has(id, v)'
        BY <2>2, <3>1, <4>1 DEF Has, S, t
      <4>3. Content(id)' = v
        BY <2>1, <3>2, <4>2, ContentIsKnownNext DEF ContentKnown
      <4> QED BY <4>1, <4>3
    <3> QED BY <2>1, <2>2, <3>3
  <2>3. CASE id \notin S
    <3>1. id \in DOMAIN parentPos /\ id \notin DOMAIN held
      BY <1>4, <2>1, <2>3
    <3>2. Stays(id)
      BY <1>3, <1>5, <2>1, <3>1 DEF Stays, Has
    <3>3. Content(id)' = Content(id)
      BY <2>1, <3>1, <3>2, StayingKeepsContent DEF DurableInv, FaultInv
    <3>4. id \in DOMAIN TableLeft /\ TableLeft[id] = Content(id)
      BY <2>1, <3>1, TablesLeft DEF TablesAre
    <3> QED BY <2>1, <2>3, <3>3, <3>4
  <2> QED BY <2>2, <2>3
<1>7. t \in Durable!Tables
  <2>1. S \in SUBSET Ids /\ \A id \in S : t[id] \in Vals
    BY <1>1 DEF IsNodeMap, IsMap, Nodes
  <2>2. t \in [S -> Vals]
    BY <2>1
  <2> QED BY <2>1, <2>2 DEF Durable!Tables
<1>8. Durable!AtMostTwo(old) /\ Durable!AtMostTwo(S)
  BY DEF ChangesTo, Durable!AtMostTwo
<1>9. old \in SUBSET DOMAIN TableLeft
  BY <1>3, TablesLeft DEF TablesAre
<1>10. S \cap (DOMAIN TableLeft \ old) = {}
  BY <1>3, TablesLeft DEF TablesAre
<1>11. DOMAIN TableLeft' = (DOMAIN TableLeft \ old) \cup S
  BY <1>4, TablesLeft, TablesLeftNext DEF TablesAre
<1>12. DOMAIN t = S
  OBVIOUS
<1> HIDE DEF t, S, old
<1>13. TableLeft' = [id \in (DOMAIN TableLeft \ old) \cup DOMAIN t |->
                       IF id \in DOMAIN t THEN t[id] ELSE TableLeft[id]]
  BY <1>6, <1>11, <1>12, TablesLeftNext DEF TablesAre
<1>14. SavedLeft' = SavedLeft /\ AnswerLeft' = AnswerLeft
  BY <1>3 DEF SavedLeft, AnswerLeft
<1> QED
  BY <1>7, <1>8, <1>9, <1>10, <1>12, <1>13, <1>14
     DEF Durable!Replace, TableLeft, SavedLeft, AnswerLeft

\* An operation that ends saves its table, less what was lost at the end.
LEMMA EndIsLose ==
  ASSUME DurableInv, DurableInv', finished' = Listed, harmed \subseteq harmed',
         result' = result, \A id \in Ids \ harmed' : Stays(id)
  PROVE  Durable!Lose
<1> DEFINE kept == DOMAIN TableLeft \ harmed'
<1>1. TableLeft' = [id \in kept |-> TableLeft[id]]
  BY StayingKeepsTable
<1>2. TableLeft' = Durable!Restrict(TableLeft, kept)
  BY <1>1 DEF Durable!Restrict
<1>3. DOMAIN SavedLeft' = kept
  BY TablesLeft, TablesLeftNext DEF TablesAre, Listed
<1>4. \A id \in kept : SavedLeft'[id] = TableLeft[id]
  BY <1>3, TablesLeft, TablesLeftNext DEF TablesAre, Listed
<1>5. SavedLeft' = TableLeft'
  BY <1>1, <1>3, <1>4, TablesLeftNext DEF TablesAre
<1>6. AnswerLeft' \in {AnswerLeft, Durable!Nothing}
  <2>1. CASE DOMAIN result \ harmed' = DOMAIN result \ harmed
    BY <2>1 DEF AnswerLeft
  <2>2. CASE DOMAIN result \ harmed' # DOMAIN result \ harmed
    <3>1. DOMAIN result \ harmed' = {}
      BY <2>2 DEF DurableInv, OneAnswer
    <3>2. Restrict(result', DOMAIN result' \ harmed') = Durable!Nothing
      BY <3>1, EmptyAnswer
    <3> QED BY <3>2 DEF AnswerLeft
  <2> QED BY <2>1, <2>2
<1> HIDE DEF kept
<1>7. kept \in SUBSET DOMAIN TableLeft
  BY DEF kept
<1> QED BY <1>2, <1>5, <1>6, <1>7 DEF Durable!Lose, TableLeft, SavedLeft, AnswerLeft

\* A restart goes back to the table saved, less what it harms.
LEMMA RestartIsRestart ==
  ASSUME DurableInv, DurableInv', SafeRestart
  PROVE  Durable!Restart
<1> DEFINE kept == DOMAIN SavedLeft \ harmed'
<1>1. /\ parentPos' = savedPos /\ savedPos' = savedPos /\ tree' = tree
      /\ finished' = finished /\ harmed' = HarmOfRestart /\ result' = NoNodes
      /\ harmed \subseteq harmed' /\ pc' = "idle"
      /\ held' = NoNodes /\ fresh' = NoNodes /\ cache' = NoNodes /\ outbuf' = NoNodes
  BY DEF SafeRestart, NewClient, HarmOfRestart
<1>2. DOMAIN NoNodes = {}
  BY DEF NoNodes
<1>3. Opened' = {}
  BY <1>1 DEF Opened
<1>4. DOMAIN SavedLeft' = kept /\ \A id \in kept : SavedLeft'[id] = SavedLeft[id]
  BY <1>1, TablesLeft, TablesLeftNext DEF TablesAre
<1>5. DOMAIN TableLeft' = kept
  <2>1. \A id \in Ids \ harmed' : id \in DOMAIN finished <=> id \in DOMAIN savedPos
    BY <1>1 DEF DurableInv, SavedOnDisk
  <2> QED BY <1>1, <2>1, TablesLeft, TablesLeftNext DEF TablesAre
<1>6. ASSUME NEW id \in kept PROVE TableLeft'[id] = SavedLeft[id]
  <2>1. id \in Ids \ harmed' /\ id \in DOMAIN parentPos' /\ TableLeft'[id] = Content(id)'
    BY <1>5, <1>6, TablesLeftNext DEF TablesAre
  <2>2. Level(harmed)'
    BY DEF DurableInv, FaultInv
  <2>3. Has(id, Content(id))'
    BY <2>1, <2>2, ContentIsKnownNext DEF ContentKnown
  <2>4. PICK b : InTree(id, b)' /\ tree'[b][id].val = Content(id)'
    BY <1>1, <1>2, <2>3 DEF Has, InOut
  <2>5. b \in Buckets /\ id \in DOMAIN tree[b] /\ tree[b][id].val = Content(id)'
    BY <1>1, <2>4 DEF InTree
  <2>6. finished[id] = Content(id)'
    BY <1>1, <2>1, <2>5 DEF DurableInv, SavedOnDisk
  <2>7. SavedLeft[id] = finished[id]
    BY <1>6, TablesLeft DEF TablesAre
  <2> QED BY <2>1, <2>6, <2>7
<1>7. TableLeft' = [id \in kept |-> SavedLeft[id]]
  BY <1>5, <1>6, TablesLeftNext DEF TablesAre
<1>8. SavedLeft' = TableLeft'
  BY <1>4, <1>7, TablesLeftNext DEF TablesAre
<1>9. AnswerLeft' = Durable!Nothing
  BY <1>1, <1>2 DEF AnswerLeft, Restrict, Durable!Nothing
<1> HIDE DEF kept
<1>10. TableLeft' = Durable!Restrict(SavedLeft, kept)
  BY <1>7 DEF Durable!Restrict
<1>11. kept \in SUBSET DOMAIN SavedLeft
  BY DEF kept
<1> QED
  BY <1>8, <1>9, <1>10, <1>11 DEF Durable!Restart, TableLeft, SavedLeft, AnswerLeft

\* A search answers with what the table has, unless the node is harmed.
LEMMA SearchIsLookup ==
  ASSUME DurableInv, DurableInv', NEW x \in Ids, SearchNode(x), Operate
  PROVE  Durable!Lookup \/ Durable!Begin
<1>1. PICK H : H = harmed
  OBVIOUS
<1>2. Level(H)
  BY <1>1 DEF DurableInv, FaultInv
<1>3. harmed' = harmed /\ finished' = finished /\ pc = "access" /\ x \in DOMAIN parentPos
  BY DEF SearchNode, Operate
<1>4. TableLeft' = TableLeft /\ SavedLeft' = SavedLeft
  BY <1>1, <1>2, <1>3, SearchNodeStays, StayingKeepsAll
<1>5. CASE x \in harmed
  <2>1. DOMAIN result' \ harmed' = {}
    BY <1>3, <1>5 DEF SearchNode, Singleton
  <2>2. Restrict(result', DOMAIN result' \ harmed') = Durable!Nothing
    BY <2>1, EmptyAnswer
  <2> QED BY <1>4, <2>2 DEF Durable!Begin, TableLeft, SavedLeft
<1>6. CASE x \notin harmed
  <2>1. PICK v : result' = Singleton(x, v) /\ Content(x) = v
    BY <1>1, <1>2, <1>6, SearchNodeStays
  <2>2. x \in DOMAIN TableLeft /\ TableLeft[x] = v
    BY <1>3, <1>6, <2>1, TablesLeft DEF TablesAre
  <2>3. DOMAIN result' \ harmed' = {x} /\ result'[x] = v
    BY <1>3, <1>6, <2>1 DEF Singleton
  <2>4. AnswerLeft' = [y \in {x} |-> TableLeft[x]]
    BY <2>2, <2>3 DEF AnswerLeft, Restrict
  <2> QED BY <1>4, <2>2, <2>4 DEF Durable!Lookup, TableLeft, SavedLeft, AnswerLeft
<1> QED BY <1>5, <1>6

LEMMA OperateImplements ==
  ASSUME DurableInv, DurableInv', Operate
  PROVE  Durable!Next \/ UNCHANGED <<TableLeft, SavedLeft, AnswerLeft>>
<1> USE DEF Durable!Next
<1>1. CASE Changing
  <2>1. PICK h, f : ChangesTo(h, f)
    BY <1>1 DEF Changing
  <2>2. pc = "access"
    BY <2>1 DEF ChangesTo, Change
  <2>3. harmed' = harmed /\ finished' = finished
    BY <2>2 DEF Operate
  <2> QED BY <2>1, <2>3, ChangeIsReplace
<1>2. CASE \E x \in Ids : SearchNode(x)
  BY <1>2, SearchIsLookup
<1>3. CASE WriteBuckets
  <2>1. /\ finished' = Listed /\ harmed \subseteq harmed' /\ result' = result
    BY <1>3, Stages DEF Operate, WriteBuckets
  <2>2. ~Changing
    BY <1>3 DEF Changing, ChangesTo, Change, WriteBuckets
  <2>3. \A id \in Ids \ harmed' : Stays(id)
    BY <2>2, OperateStays DEF DurableInv
  <2> QED BY <2>1, <2>3, EndIsLose
<1>4. CASE ~Changing /\ ~WriteBuckets /\ ~(\E x \in Ids : SearchNode(x))
  <2>1. harmed' = harmed /\ finished' = finished
    BY <1>4, OperateIsDanger DEF DurableInv
  <2>2. TableLeft' = TableLeft /\ SavedLeft' = SavedLeft
    BY <1>4, <2>1, OperateStays, StayingKeepsAll DEF DurableInv
  <2>3. CASE result' = result
    BY <2>1, <2>2, <2>3 DEF AnswerLeft
  <2>4. CASE result' = NoNodes
    <3>1. AnswerLeft' = Durable!Nothing
      BY <2>4 DEF AnswerLeft, Restrict, NoNodes, Durable!Nothing
    <3> QED BY <2>2, <3>1 DEF Durable!Begin, TableLeft, SavedLeft, AnswerLeft
  <2>5. [SafeNext]_faultVars
    BY DEF SafeNext
  <2> QED BY <1>4, <2>3, <2>4, <2>5, AnswerSteps
<1> QED BY <1>1, <1>2, <1>3, <1>4

LEMMA FaultStepImplements ==
  ASSUME DurableInv, DurableInv', [SafeNext]_faultVars
  PROVE  Durable!Next \/ UNCHANGED <<TableLeft, SavedLeft, AnswerLeft>>
<1> USE DEF Durable!Next
<1>1. CASE Operate
  BY <1>1, OperateImplements
<1>2. CASE WriteRoot \/ WriteRootFails \/ UNCHANGED faultVars
  <2>1. UNCHANGED vars /\ harmed' = harmed /\ finished' = finished /\ result' = result
    BY <1>2 DEF WriteRoot, WriteRootFails, faultVars, history, vars, local
  <2>2. TableLeft' = TableLeft /\ SavedLeft' = SavedLeft
    BY <2>1, UnchangedStays, StayingKeepsAll
  <2> QED BY <2>1, <2>2 DEF AnswerLeft
<1>3. ASSUME NEW stored \in SUBSET DOMAIN outbuf, WriteBucketsFails(stored)
      PROVE  Durable!Next
  <2>1. finished' = Listed /\ harmed \subseteq harmed' /\ result' = result
    BY <1>3 DEF WriteBucketsFails
  <2>2. \A id \in Ids \ harmed' : Stays(id)
    BY <1>3, BucketsFailStays DEF DurableInv
  <2> QED BY <2>1, <2>2, EndIsLose
<1>4. CASE SafeRestart
  BY <1>4, RestartIsRestart
<1> QED BY <1>1, <1>2, <1>3, <1>4 DEF SafeNext, Failures

LEMMA FaultInitImplements == FaultInit => Durable!Init
<1> SUFFICES ASSUME FaultInit PROVE Durable!Init
  OBVIOUS
<1>1. /\ DOMAIN parentPos = {} /\ result = NoNodes /\ finished = NoNodes
      /\ DOMAIN NoNodes = {}
  BY DEF FaultInit, Init, NoNodes
<1>2. DOMAIN Listed \ harmed = {} /\ DOMAIN finished \ harmed = {} /\ DOMAIN result \ harmed = {}
  BY <1>1 DEF Listed
<1> QED BY <1>2, EmptyAnswer DEF Durable!Init

-----------------------------------------------------------------------------
(***************************************************************************)
(* When all is lost the tables are empty, as only ids are in them.         *)
(***************************************************************************)
OnlyIds ==
  /\ DOMAIN parentPos \subseteq Ids /\ DOMAIN savedPos \subseteq Ids
  /\ DOMAIN finished \subseteq Ids /\ DOMAIN result \subseteq Ids
  /\ DOMAIN held \subseteq Ids

LEMMA OperateOnlyIds ==
  ASSUME OnlyIds, Operate
  PROVE  DOMAIN parentPos' \subseteq Ids /\ DOMAIN result' \subseteq Ids /\ DOMAIN held' \subseteq Ids
<1>1. CASE PartInit
  BY <1>1 DEF PartInit, OnlyIds, client, NoNodes
<1>2. ASSUME NEW h, NEW f, Change(h, f)
      PROVE  DOMAIN parentPos' \subseteq Ids /\ DOMAIN result' \subseteq Ids /\ DOMAIN held' \subseteq Ids
  <2>1. DOMAIN h \subseteq Ids /\ DOMAIN f \subseteq Ids
    BY <1>2 DEF Change, Free, OnlyIds
  <2>2. DOMAIN Override(f, h) \subseteq Ids
    BY <2>1 DEF Override
  <2>3. DOMAIN parentPos' \subseteq DOMAIN parentPos \cup DOMAIN Override(f, h)
    BY <1>2 DEF Change, Override, Drop
  <2> QED BY <1>2, <2>1, <2>2, <2>3 DEF Change, OnlyIds
<1>3. CASE Access
  <2>1. CASE SearchEmpty
    BY <2>1 DEF SearchEmpty, OnlyIds, client
  <2>2. ASSUME NEW id \in Ids, SearchNode(id)
        PROVE  DOMAIN parentPos' \subseteq Ids /\ DOMAIN result' \subseteq Ids /\ DOMAIN held' \subseteq Ids
    BY <2>2 DEF SearchNode, Singleton, OnlyIds
  <2>3. ASSUME NEW id \in Ids, NEW random \in Positions, TakeNode(id, random)
        PROVE  DOMAIN parentPos' \subseteq Ids /\ DOMAIN result' \subseteq Ids /\ DOMAIN held' \subseteq Ids
    BY <2>3 DEF TakeNode, Put, OnlyIds
  <2> QED BY <1>2, <1>3, <2>1, <2>2, <2>3
             DEF Access, FirstNode, ChangeNode, SplitNode, RearrangeNodes, MergeNodes
<1>4. CASE Finish
  <2>1. result' = result /\ DOMAIN held' \subseteq DOMAIN held /\ DOMAIN parentPos' = DOMAIN parentPos
    BY <1>4 DEF Finish, WriteHeld, WriteFresh, FinalizeLeaf, Remap, WriteLeafPath, WriteBuckets,
                Drop, local
  <2> QED BY <2>1 DEF OnlyIds
<1> QED BY <1>1, <1>3, <1>4 DEF Operate

LEMMA NextOnlyIds == OnlyIds /\ [FaultNext]_faultVars => OnlyIds'
<1> SUFFICES ASSUME OnlyIds, [FaultNext]_faultVars PROVE OnlyIds'
  OBVIOUS
<1>1. CASE Operate
  <2>1. savedPos' = savedPos /\ (finished' = finished \/ finished' = Listed)
    BY <1>1 DEF Operate
  <2> QED BY <1>1, <2>1, OperateOnlyIds DEF OnlyIds, Listed
<1>2. CASE WriteRoot \/ WriteRootFails \/ UNCHANGED faultVars
  BY <1>2 DEF WriteRoot, WriteRootFails, faultVars, history, vars, local, client, OnlyIds
<1>3. ASSUME NEW stored, WriteBucketsFails(stored) PROVE OnlyIds'
  BY <1>3 DEF WriteBucketsFails, OnlyIds, Listed
<1>4. CASE NewClient
  BY <1>4 DEF NewClient, NoNodes, OnlyIds
<1> QED BY <1>1, <1>2, <1>3, <1>4 DEF FaultNext, Failures, RestartBoth, RestartClient

NothingLeft ==
  TableLeft = Durable!Nothing /\ SavedLeft = Durable!Nothing /\ AnswerLeft = Durable!Nothing

LEMMA LostLeavesNothing == OnlyIds /\ Lost => NothingLeft
<1> SUFFICES ASSUME OnlyIds, Lost PROVE NothingLeft
  OBVIOUS
<1>1. DOMAIN Listed \ harmed = {} /\ DOMAIN finished \ harmed = {} /\ DOMAIN result \ harmed = {}
  BY DEF OnlyIds, Lost, Listed
<1> QED BY <1>1, EmptyAnswer DEF NothingLeft, TableLeft, SavedLeft, AnswerLeft

LEMMA LostLeavesNothingNext == OnlyIds' /\ Lost' => NothingLeft'
BY LostLeavesNothing, PTL

LEMMA LosingIsRestart == ASSUME NothingLeft' PROVE Durable!Restart
<1>1. Durable!Restrict(SavedLeft, {}) = Durable!Nothing
  BY DEF Durable!Restrict, Durable!Nothing
<1> QED BY <1>1 DEF NothingLeft, Durable!Restart, TableLeft, SavedLeft, AnswerLeft, Durable!Nothing

\* Operations are atomic for the nodes no fault has met.  A search answers
\* with what was written last, an operation that is cut short leaves nothing
\* behind, and one that has ended is not undone, wherever the client is
\* restarted and whichever writes fail.
THEOREM FaultsAreDurable == FaultSpec => ImplementsDurableStore
<1> DEFINE Inv == OnlyIds /\ faults \in Nat /\ (Lost \/ DurableInv)
<1>1. FaultInit => Inv
  <2>1. FaultInit => OnlyIds /\ faults \in Nat
    BY DEF FaultInit, Init, NoNodes, OnlyIds
  <2> QED BY <2>1, InitDurableInv
<1>2. Inv /\ [FaultNext]_faultVars => Inv'
  <2> SUFFICES ASSUME Inv, [FaultNext]_faultVars PROVE Inv'
    OBVIOUS
  <2>1. OnlyIds' /\ faults' \in Nat
    BY NextOnlyIds, FaultsCount
  <2>2. Lost' \/ DurableInv'
    BY FaultNextIs, NextDurableInv, LostStays, OddDeathLoses
  <2> QED BY <2>1, <2>2
<1>3. FaultInit => Durable!Init
  BY FaultInitImplements
<1>4. ASSUME Inv, Inv', [FaultNext]_faultVars
      PROVE  [Durable!Next]_<<TableLeft, SavedLeft, AnswerLeft>>
  <2>1. CASE Lost
    BY <1>4, <2>1, LostStays, LostLeavesNothing, LostLeavesNothingNext DEF NothingLeft
  <2>2. CASE OddDeath
    <3>1. Durable!Restart
      BY <1>4, <2>2, OddDeathLoses, LostLeavesNothingNext, LosingIsRestart
    <3> QED BY <3>1 DEF Durable!Next
  <2>3. CASE DurableInv /\ [SafeNext]_faultVars
    BY <2>3, NextDurableInv, FaultStepImplements
  <2> QED BY <1>4, <2>1, <2>2, <2>3, FaultNextIs
<1> QED
  BY <1>1, <1>2, <1>3, <1>4, PTL
     DEF FaultSpec, ImplementsDurableStore, Durable!Spec, TableLeft, SavedLeft, AnswerLeft

-----------------------------------------------------------------------------
(***************************************************************************)
(* The counts of reads, with a client that may end anywhere.  After an odd *)
(* start nothing is left of Level: reads are answered with other buckets   *)
(* than they ask for.  But how many there are depends on the stage of the  *)
(* operation and on what is in local variables, and on nothing else.       *)
(***************************************************************************)
CountInv ==
  /\ recvCount \in {0, 1} /\ foundCount \in {0, 1} /\ readCnt \in 0 .. 2
  /\ recvCount = IF readCnt = 1 THEN 1 - foundCount ELSE foundCount
  /\ pc = "idle" => readCnt # 1
  /\ pc = "evict" => readCnt = 2
  /\ pc \in {"idle", "evict"} => DOMAIN held = {}
  /\ pc # "writeback" => DOMAIN fresh = {}
  /\ pc = "access" =>
       /\ DOMAIN held \subseteq DOMAIN parentPos
       /\ DOMAIN held = {} => readCnt = 0
       /\ (\A x, y \in DOMAIN held : x = y) => readCnt <= 1
  /\ \A x, y \in DOMAIN fresh : x = y
  /\ pc = "writeback" /\ DOMAIN fresh # {} => readCnt <= 1

\* Counting goes up on both sides at once.
LEMMA BothCount ==
  ASSUME CountInv, NEW leaf, FetchPath(leaf), foundCount' = foundCount, readCnt <= 1
  PROVE  /\ recvCount' \in {0, 1} /\ foundCount' \in {0, 1} /\ readCnt' \in 0 .. 2
         /\ readCnt' = readCnt + 1
         /\ recvCount' = IF readCnt' = 1 THEN 1 - foundCount' ELSE foundCount'
BY DEF CountInv, FetchPath

\* A read that goes to the cache counts nowhere.
LEMMA ReadCountsBoth ==
  ASSUME CountInv, NEW id, ReadBookkeeping(id), foundCount' = foundCount, readCnt <= 1
  PROVE  /\ recvCount' \in {0, 1} /\ foundCount' \in {0, 1} /\ readCnt' \in 0 .. 2
         /\ readCnt' \in {readCnt, readCnt + 1}
         /\ recvCount' = IF readCnt' = 1 THEN 1 - foundCount' ELSE foundCount'
<1>1. CASE id \in DOMAIN cache
  BY <1>1 DEF ReadBookkeeping, server, CountInv
<1>2. CASE id \notin DOMAIN cache
  BY <1>2, BothCount DEF ReadBookkeeping
<1> QED BY <1>1, <1>2

LEMMA AccessCounts ==
  ASSUME CountInv, Access, foundCount' = foundCount
  PROVE  CountInv'
<1>1. pc = "access" /\ DOMAIN fresh = {}
  <2>1. ASSUME NEW h, NEW f, Change(h, f) PROVE pc = "access"
    BY <2>1 DEF Change
  <2>2. (\E id, new \in Ids, v \in Vals : ChangeNode(id, new, v)) => pc = "access"
    BY <2>1 DEF ChangeNode
  <2>3. (\E id, nb, new, newNb \in Ids, v, w \in Vals :
           RearrangeNodes(id, nb, new, newNb, v, w)) => pc = "access"
    BY <2>1 DEF RearrangeNodes
  <2>4. pc = "access"
    BY <2>1, <2>2, <2>3
       DEF Access, SearchEmpty, SearchNode, TakeNode, FirstNode, SplitNode, MergeNodes
  <2> QED BY <2>4 DEF CountInv
<1>2. CASE SearchEmpty
  BY <1>1, <1>2 DEF SearchEmpty, CountInv, client, server
<1>3. ASSUME NEW id \in Ids, SearchNode(id) PROVE CountInv'
  <2>1. readCnt = 0
    BY <1>1, <1>3 DEF SearchNode, CountInv, NoNodes
  <2>2. pc' = "writeback" /\ fresh' = fresh /\ ReadBookkeeping(id)
    BY <1>3 DEF SearchNode
  <2> QED BY <1>1, <2>1, <2>2, ReadCountsBoth DEF CountInv
<1>4. ASSUME NEW id \in Ids, NEW random \in Positions, TakeNode(id, random) PROVE CountInv'
  <2>1. /\ pc' = pc /\ fresh' = fresh /\ parentPos' = parentPos /\ ReadBookkeeping(id)
        /\ DOMAIN held' = DOMAIN held \cup {id} /\ id \in DOMAIN parentPos \ DOMAIN held
        /\ \A x, y \in DOMAIN held : x = y
    BY <1>4 DEF TakeNode, Put
  <2>2. readCnt <= 1 /\ readCnt \in 0 .. 2 /\ (DOMAIN held = {} => readCnt = 0)
    BY <1>1, <2>1 DEF CountInv
  <2>3. (\A x, y \in DOMAIN held' : x = y) => DOMAIN held = {}
    BY <2>1
  <2>4. (\A x, y \in DOMAIN held' : x = y) => readCnt' <= 1
    BY <2>1, <2>2, <2>3, ReadCountsBoth
  <2>5. DOMAIN held' # {} /\ DOMAIN held' \subseteq DOMAIN parentPos'
    BY <1>1, <2>1 DEF CountInv
  <2> QED BY <1>1, <2>1, <2>2, <2>4, <2>5, ReadCountsBoth DEF CountInv
<1>5. ASSUME NEW h, NEW f, Change(h, f), \A x, y \in DOMAIN f : x = y,
             DOMAIN f # {} => readCnt <= 1
      PROVE  CountInv'
  BY <1>1, <1>5 DEF Change, CountInv, server
<1>6. \A h : Change(h, NoNodes) => CountInv'
  BY <1>5 DEF NoNodes
<1>7. \A h, id, n : Change(h, Singleton(id, n)) /\ readCnt <= 1 => CountInv'
  BY <1>5 DEF Singleton
<1>8. ASSUME NEW id \in Ids, NEW v \in Vals, NEW random \in Positions, FirstNode(id, v, random)
      PROVE  CountInv'
  <2>1. readCnt <= 1
    BY <1>1, <1>8 DEF FirstNode, CountInv
  <2> QED BY <1>7, <1>8, <2>1 DEF FirstNode
<1>9. ASSUME NEW id \in Ids, NEW new \in Ids, NEW v \in Vals, ChangeNode(id, new, v)
      PROVE  CountInv'
  BY <1>6, <1>9 DEF ChangeNode
<1>10. ASSUME NEW id \in Ids, NEW lo \in Ids, NEW hi \in Ids, NEW v \in Vals, NEW w \in Vals,
              NEW random \in Positions, SplitNode(id, lo, hi, v, w, random)
       PROVE  CountInv'
  <2>1. readCnt <= 1
    BY <1>1, <1>10 DEF SplitNode, CountInv
  <2> QED BY <1>7, <1>10, <2>1 DEF SplitNode
<1>11. ASSUME NEW id \in Ids, NEW nb \in Ids, NEW new \in Ids, NEW newNb \in Ids,
              NEW v \in Vals, NEW w \in Vals, RearrangeNodes(id, nb, new, newNb, v, w)
       PROVE  CountInv'
  BY <1>6, <1>11 DEF RearrangeNodes
<1>12. ASSUME NEW id \in Ids, NEW nb \in Ids, NEW newNb \in Ids, NEW v \in Vals,
              MergeNodes(id, nb, newNb, v)
       PROVE  CountInv'
  BY <1>6, <1>12 DEF MergeNodes
<1> QED BY <1>2, <1>3, <1>4, <1>8, <1>9, <1>10, <1>11, <1>12 DEF Access

LEMMA FinishCounts ==
  ASSUME CountInv, Finish, foundCount' = foundCount
  PROVE  CountInv'
<1>1. ASSUME NEW id \in Ids, WriteHeld(id) PROVE CountInv'
  BY <1>1 DEF WriteHeld, CountInv, server
<1>2. ASSUME NEW id \in Ids, WriteFresh(id) PROVE CountInv'
  <2>1. /\ pc = "writeback" /\ pc' = "writeback" /\ DOMAIN fresh # {}
        /\ DOMAIN fresh' = DOMAIN fresh \ {id} /\ id \in DOMAIN fresh
        /\ FetchPath(fresh[id].pos)
    BY <1>2 DEF WriteFresh, Drop
  <2>2. DOMAIN fresh' = {} /\ readCnt <= 1
    BY <2>1 DEF CountInv
  <2> QED BY <2>1, <2>2, BothCount DEF CountInv
<1>3. ASSUME NEW random \in Positions, FinalizeLeaf(random) PROVE CountInv'
  <2>1. /\ pc = "writeback" /\ pc' = pc /\ fresh' = fresh /\ fresh = NoNodes
        /\ readCnt < 2 /\ FetchPath(random)
    BY <1>3 DEF FinalizeLeaf, WrittenBack, local
  <2>2. DOMAIN fresh' = {} /\ readCnt <= 1
    BY <2>1 DEF CountInv, NoNodes
  <2> QED BY <2>1, <2>2, BothCount DEF CountInv
<1>4. CASE Remap
  BY <1>4 DEF Remap, WrittenBack, CountInv, server, NoNodes
<1>5. ASSUME NEW leaf \in Positions, NEW d \in 0 .. Depth, WriteLeafPath(leaf, d) PROVE CountInv'
  BY <1>5 DEF WriteLeafPath, CountInv, local, server
<1>6. CASE WriteBuckets
  BY <1>6 DEF WriteBuckets, CountInv
<1> QED BY <1>1, <1>2, <1>3, <1>4, <1>5, <1>6 DEF Finish

LEMMA CountStep == CountInv /\ [FaultNext]_faultVars => CountInv'
<1> SUFFICES ASSUME CountInv, [FaultNext]_faultVars PROVE CountInv'
  OBVIOUS
<1>1. CASE Operate
  <2>1. foundCount' = foundCount
    BY <1>1 DEF Operate
  <2>2. CASE PartInit
    BY <2>1, <2>2 DEF PartInit, CountInv, server
  <2> QED BY <1>1, <2>1, <2>2, AccessCounts, FinishCounts DEF Operate
<1>2. CASE WriteRoot \/ WriteRootFails
  BY <1>2 DEF WriteRoot, WriteRootFails, CountInv, vars, local, client, server, history
<1>3. ASSUME NEW stored \in SUBSET DOMAIN outbuf, WriteBucketsFails(stored) PROVE CountInv'
  BY <1>3 DEF WriteBucketsFails, CountInv
<1>4. ASSUME NewClient, recvCount' \in {0, 1}, foundCount' = recvCount' PROVE CountInv'
  BY <1>4 DEF NewClient, CountInv, NoNodes
<1>5. CASE RestartBoth
  BY <1>4, <1>5 DEF RestartBoth
<1>6. CASE RestartClient
  BY <1>4, <1>6 DEF RestartClient, CountInv
<1>7. CASE UNCHANGED faultVars
  BY <1>7 DEF faultVars, history, vars, local, client, server, CountInv
<1> QED BY <1>1, <1>2, <1>3, <1>5, <1>6, <1>7 DEF FaultNext, Failures

\* Wherever clients end, and whatever fails, an operation adds two to the
\* server's count of reads: it ends as odd or even as its client found it.
THEOREM CountStaysAsFound == FaultSpec => []CountAsFound
<1>1. FaultInit => CountInv
  BY DEF FaultInit, Init, CountInv, NoNodes
<1>2. CountInv => CountAsFound
  BY DEF CountInv, CountAsFound
<1> QED BY <1>1, <1>2, CountStep, PTL DEF FaultSpec
=============================================================================
