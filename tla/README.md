# BOMAP in TLA+

BOMAP is an oblivious map: a client stores keys and values in a B+-tree of `L`
levels; every level below the root lives in a Path-ORAM of its own on a server,
so the server sees two random paths per level and operation and learns nothing
from them. This directory holds TLA+ models of the program, the TLC
configurations that check them, and TLAPS proofs. Source paths below are relative
to `src/`; `client.cpp`, `node.cpp`, ... stand for `src/client.cpp`, ...

## The system

| Component | State | Operations | Where |
|---|---|---|---|
| map operations | the root node | `search_map`, `insert_map`, `delete_map` | client.cpp 48-109, 168-756 |
| nodes | entries, `max_value`, `old_max`, `pos` | `Insert`, `Search`, `Update`, `Delete` of leaf, midNode2, midNode1, root | node.cpp, node.hpp |
| client side of a level | cache (the stash), ids touched, paths to rewrite, buckets refilled, count of reads | read a node, write a node back, read a path, pad, remap, evict | client.cpp 758-1206, 1208-1678, 1745-1926 |
| server side of a level | buckets, buckets handed out, count of reads | `read_bucket`, `write_bucket` | test_server.cpp 69-183, ORAM.cpp |
| bucket tree geometry | none | path function, depth, range of positions | client.cpp 1679-1728, ORAM.cpp 44-49, 112-122 |
| session | `is_access`, the server's `init` and vectors | `Setup`, `init_dummy`, `init`, `end_signal`, restart | client.cpp 111-152, test_server.cpp 33-68, 184-252 |
| remote calls | none | status of a call, failure | client.cpp 1928-2028 |
| storage | position -> ciphertext, a unique index | constructor's batches, `Insert`, `Query`, `Update`, `drop` | ORAM.cpp 44-110, Connector.cpp |
| serialisation, AES | none | bucket to bytes, padding, cutting a reply | client.cpp 1381-1426, 1730-1743, AES.cpp |
| Bid | bytes | order, comparison with ints, increment | Bid.cpp |
| parameters | none | choice of `L`, `C`, `P1 = P2` for a number of keys | precompute.cpp, params1.txt |

One client runs one operation at a time, in one thread, and calls the server
synchronously. What makes the program hard is not threads but a protocol spread
over two programs and many calls:

* a node may be in a local variable, in the cache, in the buffer about to be
  sent, or in a bucket, and stale copies of it stay in buckets until they are
  overwritten;
* client and server each keep a list of the buckets in use, and the server
  recognises the start of an operation only by the parity of its reads;
* a node's name is its greatest key, which changes with its content; its
  position changes with every access; both are recorded in the parent, which is
  itself a node with a changing name and position;
* splits and merges climb through a variable number of levels;
* per-operation state is reset partly before and partly after the operation;
* the root is written before the levels, in calls of their own whose failure
  nobody looks at, and only the root is read back by the next client;
* three things decide what a new session finds: its `is_access`, whether the
  server has a Connector already, and how the last session ended.

What must hold: a level loses no node, keeps no second copy, and finds every node
where its parent says (client and server sides of a level); client and server agree
on paths and buckets (geometry, reads, storage); every node is listed once under
its right name and position and the tree stays ordered (nodes); a search returns
what was inserted last (map); a fault harms the nodes it meets and no others, and
is not half an operation (remote calls, restarts); a session works on one map
(session). `PROJECT.json` lists the hazards with their lines.

## Modules

| Module | Models | Used by |
|---|---|---|
| `OramGeometry` | depth, path function, range of positions, as pure operators | `PathORAM`, `BucketStore`, `MCOperators`, `OramGeometry_proofs` |
| `Maps` | the program's hash tables as partial functions | all |
| `BlockStore` | abstract: one level as a table from id to content | `PathORAM` |
| `PathORAM` | one level, client and server together | `Faults`, `AbsentKey`, `MCPathORAM`, `PathORAM_proofs` |
| `AbsentKey` | the same with a delete that gives up | |
| `DurableStore` | abstract: a level whose client may end and whose writes may fail | `Faults` |
| `Faults` | the row below the root with the root, failures and restarts | `MCFaults`, `Faults_proofs` |
| `BucketStore` | one level as bytes: constructor, encryption, replies | `BucketStore_proofs` |
| `Nodes` | node operations of node.cpp, as pure operators | `BPlusTree`, `Nodes_proofs` |
| `OMap` | abstract: a map | `BPlusTree` |
| `BPlusTree` | `search_map` and `insert_map` over all levels, with positions | `Deletion`, `BPlusTree_proofs` |
| `Deletion` | the same with `delete_map` | `MCDeletion` |
| `Bids` | byte strings as identifiers, as pure operators | `MCOperators` |
| `Sessions` | clients and servers that come and go, and the database | `Sessions_proofs` |
| `OramGeometry_proofs` | lemmas: powers of two, paths, rows of the bucket tree | the next four |
| `MCOperators_proofs`, `BucketStore_proofs` | theorems | |
| `PathORAM_proofs` | theorems | `Faults_proofs` |
| `Faults_proofs`, `Sessions_proofs` | theorems | |
| `Nodes_proofs` | lemmas: what the node operations do to the entries of a node | `BPlusTree_proofs` |
| `BPlusTree_proofs` | theorems | |
| `MCPathORAM`, `MCFaults`, `MCDeletion`, `MCOperators` | what TLC needs besides | |

The modules make layers. `BucketStore` shows that bytes are exchanged as whole
buckets. `PathORAM` takes buckets for sets of nodes and shows that a level is a
table (`ImplementsBlockStore`); `Faults` adds what a level is when things fail
(`ImplementsDurableStore`). `BPlusTree` and `Deletion` take every level as a table
in which a node is found under its name and position, and show that the operations
make a map out of them (`ImplementsOMap`). `Sessions` puts whole maps in the
place of levels.

### PathORAM

The functions for leaves, midNode2 and midNode1 are copies of each other; the
module translates one level, and the map names all three copies where they are
adjacent. The variables are the client's and server's own (`leafcache` is `cache`,
`leafmodified` is `modified`, `leafList3` is `leafList`, `readCntleaf` is
`readCnt`, `writeviewmap3` is `writeview`, `buffer_vec` is `outbuf`,
`readviewmap` is `readview`, `recv_count3` modulo 2 is `recvCount`), except:

* `parentPos` is the position that the entry in the parent's `childMap` holds.
  The parent is a node of the row above. That an entry always has the position
  `finish` has drawn last is shown by `EntriesKnowPositions` in `BPlusTree`.
* `held` and `fresh` are local variables of `insert` and `Delete`.
* `pc` is the stage of the operation at this level: `idle`, `access`,
  `writeback` (also padding), `evict`.

An operation is `PartInit`; then `SearchNode`, `SearchEmpty`, or `TakeNode`
(once or twice) and a change; then `WriteHeld`, `WriteFresh`; then
`FinalizeLeaf`, `Remap`, `WriteLeafPath` per bucket, `WriteBuckets`. Each step
is a call in the code between two points at which the state of the level could
be looked at, so that the invariants hold inside operations too. A remote read is
one step with its effect on both sides, as the call is synchronous; it succeeds.
Contents are members of `Vals`, so a change is any new content and any new name
of the shape the node functions produce: one node renamed, one split in two, two
rearranged, two merged.

The order in which a hash table yields nodes and the random positions are free
choices. Buckets no position leads to are left out.

### AbsentKey

`client::Delete` returns at client.cpp:624-629 when the leaf does not have the key,
after it has erased the leaf, its neighbour and their parents from the caches.
`GiveUp` is this return; `finish` follows as in `delete_map`.

### Faults and DurableStore

The row directly below the root, whose parent is the root itself. `finish` sends the
root first (`WriteRoot`) and then each row's buckets; `savedPos` is what the
server's root says of positions, `rootSent` whether this operation has sent it.
The steps of `PathORAM` are taken over (`Operate`), eviction waiting for the root.

`WriteRootFails` and `WriteBucketsFails` are calls that fail, with any part of the
buckets stored; the client does not look at the status and goes on. `RestartBoth`
and `RestartClient` end the client between any two steps: cache, local variables
and buffer are gone, `init` reads the root back, and `Setup` replaces the server's
ORAM objects and their lists, but not the counts of reads, which only a new server
begins at 0. A failed read is undefined (see "Not modelled") and taken to end the
client.

`stash`, `behind`, `finished`, `harmed`, `foundCount` and `faults` are history variables no action
depends on. `harmed` collects the nodes a fault meets: those in the client's hands
or overwritten at a failed write, those only in its cache at a restart, those
changed since the server took its root last, and those touched when the root was
sent and the buckets were not (`HarmOfRestart`). `HarmContained` says that all other nodes keep one
copy, where the root says, through whatever comes after, and `HarmlessWithoutFault`
that without a fault there are no others; the first is not obvious, as
stale copies stay behind in buckets, reads that miss leave their path out of the list to
be rewritten (`LeftBehind`), and the new client reads old buckets under old positions.
`ImplementsDurableStore` says that for those nodes an operation is atomic: a
restart finds the table as the last operation that ended has left it.

A client that ends between the two reads of an operation is a case of its own. It leaves
the server's count odd (test_server.cpp:73-86, 248-250), and its successor's operations
are refused buckets of the operation before in their first read and get twice, in the
second, those their two paths share. No node is safe then, touched or not, so that
`RestartClient` puts all of them in `harmed`: `HarmContained` and
`ImplementsDurableStore` promise nothing after it. What can be said is how long it
lasts. `CountAsFound`: an operation that is about to evict has counted two reads, and
the server's count is as odd or even as when its client was set up (`foundCount`, a
history variable), whatever its reads have found. A client that found it odd meets it odd
in each of its operations; only the next death after one read or a new server ends that.
In the code a client must come to two calls of `read_bucket` on every way through an operation,
also with nodes that are not there.

### BucketStore

A byte is the i-th byte of a node or zero, a byte of ciphertext carries the iv and
the place under which it can be deciphered. `PrepareBucket` and `PrepareRest` are
the constructor's loop, with a first batch of one bucket, full ones, and a rest;
`WriteBucket`, `FetchPath`, `ReceiveBucket` follow a bucket through
`SerialiseBucket`, `Encrypt`, `Update`, `Query`, the concatenated reply, and the
client's loop that cuts it by length. `OnPathAndNew` is the loop over the path that
leaves out what has been handed out. A text as long as a multiple of the cipher
block gets a whole block of padding; that is the program's own case.

### Nodes, BPlusTree and Deletion

`Nodes` has the functions of node.cpp; arrays with counts are sequences. The tests
for room, the choice of the halves, the treatment of `old_max` and `max_value` and
the order of `Update` and `Insert` are those of the code. `BPlusTree` has the rows as
tables, `row[0]` being the leaves and `row[L - 2]` the row below the root. An
operation is one step, since a single thread runs it and the order of effects
inside it at one level is the subject of `PathORAM`. `Grown` is the climb of
`insert` and `m1Update` from the leaf to the root. As in the code the root's refusal
of a child goes unnoticed: the node stays in its row, unlisted. `InsertSpec` is the
specification without deletes, which the theorems are about.

Every operation ends in `Finish`, which is `client::finish` seen from above: the
nodes touched draw new positions, row by row from the leaves, and `Refreshed`
copies a row's new positions into the nodes above, the root last. A node asked for under another
position than the one it has counts as not there (`Found`): in the program its path
would not be read, though it might turn up in the cache or on a shared bucket.
`EntriesKnowPositions` says that this does not happen. With one position
(`Positions = {0}`) the runs look at shapes and names alone.

`client::Delete` descends with a neighbour at its side for every node on the way
(`WayBeside`): the highest node with more than one child chooses the side, and
all rows below keep to it. The neighbour may have the same parent or be a child of
the parent's neighbour (`brother` in the code). `Shrunk` is the climb and `Climbed` one
row of it: in every row the pair stays two nodes, perhaps with an entry passed between
them, or becomes one, which removes an entry from the row above. `Delete` takes the
pairs out of their rows and files what is left.

`CapacityAssumption` is the condition by which precompute.cpp:81 accepts
parameters, `2^(L-1) * N <= C * P1 * P2^(L-2)` with `P1 = P2` there; the rows of
params1.txt satisfy it.

Three things go wrong in a delete, and the specification separates them.

* A key that is not stored makes `Delete` return half-way (see `AbsentKey`).
* The last key of the map leaves an empty leaf, whose greatest key is read at
  `arr[-1]` (node.cpp:241, 249), which is undefined.
* `rootNode::Delete` does not decrement `p1` and leaves an empty entry in the root. A
  descent past the greatest key takes its position, -1, and unless the node is still in
  the cache the client asks for the path of -1, which the database has no bucket of
  (client.cpp:966-988, ORAM.cpp:112-142): Connector.cpp:64-65 dereferences an
  empty result.

`StoredSpec` has deletes of stored keys that are not the last, and no step from a root
with an empty entry; `BelowRootSpec` has of those deletes the ones that take no child from the
root, so that it meets none of the three. `LastKey` has no value for an empty node:
TLC would stop at a step that asks for it.

`LevelsAssumption` (`L <= 5`) keeps out the loop of `m1Delete` that counts in the
wrong direction (client.cpp:266), which is entered from six levels on.

### Bids

The constructor from an int copies its bytes as they lie in memory, low byte first;
assignment of an int and the comparisons with one take the high byte first. So
`Bid b = 5; b == 5` is false, and only comparisons with 0, the name of no node,
mean what they say; the program has no others. `IntKeysAreKeys` is about those.
A string key whose first four bytes are zero would equal 0 too; the program's keys
are ints.

`<`, `<=`, `>`, `>=` and `==` are loops of their own in the code and operators of their
own here. Nothing in the repository calls `operator++`; it is modelled as part of the class,
and serves the run to go through the identifiers.

### Sessions

One step is a call: `Setup` of a level, `StoreRoot` (`init_dummy`) or `ReadRoot`,
operations, `Exit` (`end_signal`), and the end of either program (`Quit`,
`RestartServer`). A level's content is reduced to the map its nodes belong to, named
by the session that began it, so that mixing nodes of two maps is seen; `store[i]`
is a sequence because without the unique index one position can have several
documents, of which Query and Update take the first. A `Setup` that is refused
by the index throws, leaves the vector as it was, and the client goes on.

`OrderlyNext` begins a map only on a server just started or on a dropped
database, and uses `is_access` only on a database with a root. test.sh (37-41)
does so, starting a server for every client. A map begun over the remains of another on
a running server is not orderly: nothing is dropped, the new dummies are refused,
and the old nodes stay. Nor is `is_access` after "exit": the database is gone,
and Connector::Query dereferences an empty result (Connector.cpp:64-65), although
test_bomap.cpp offers that mode (21-23) and ends every session with "exit" (103).

## Runs

| Run | Bounds | Shows |
|---|---|---|
| `operators` | levels of up to 24 nodes, Z up to 4; identifiers of 3 bytes in base 3, ints of 2 bytes | `PathIsRowWise`: the loop computes the bucket whose stretch of the bottom row holds the leaf. `ReachableSlotsSuffice`: the left half of the positions still leads to a slot for every node of a full level. `OrderIsOfNumbers`, `IntKeysAreKeys`, `CountsInOrder` |
| `core` | 3 nodes, 2 contents, `Depth = 2`, `Z = 1`; 118 thousand states up to symmetry | `TypeOK`, `OneCopy`, `OnRecordedPath`, `RewritesWhatItRead`, `TwoReads`, `GreedyEviction`, `ImplementsBlockStore` |
| `live` | 2 nodes, `Depth = 3`, `Z = 1` | `OperationsEnd` |
| `faults_contained` | as `core` with 1 content, 1 fault; 1.2 million states | `HarmContained`, `HarmlessWithoutFault` |
| `faults_durable` | 2 nodes, 2 contents, `Depth = 2`, `Z = 1`, 1 fault; 950 thousand states | `CountAsFound`, `ImplementsDurableStore` |
| `tree` | `L = 4`, `C = 3`, `P1 = 6`, `P2 = 2`, 8 keys; 18 thousand states | `TypeOK`, `EveryNodeListedOnce`, `NamedByGreatestKey`, `SearchOrder`, `AtLeastHalfFull`, `ImplementsOMap` |
| `map` | `L = 3`, `C = 2`, `P1 = 4`, `P2 = 3`, 6 keys, 2 values | the same without `TypeOK` |
| `positions` | `L = 3`, `C = 3`, `P1 = 4`, `P2 = 2`, 6 keys, 2 positions | `EntriesKnowPositions`, `SearchOrder`, `AtLeastHalfFull`, `ImplementsOMap` |
| `sessions` | `L = 4`, 6 sessions | `ServesOneMap`, `AccessContinues` |
| `buckets` | nodes of 1 to 4 bytes, 2 to a bucket, cipher blocks of 4, batches of 4, trees of 3 and 7 buckets, 2 ivs, 2 writes; 290 thousand states | `EveryBucketPrepared`, `ReceivesWhatIsStored` |
| `delete_root` | as `map` with 1 value | violated: `RootNamesNeighbours` |
| `absent` | 2 nodes, `Depth = 2`, `Z = 1` | violated: `NothingForgotten` |

Why the bounds are enough.

* `core`: with `Z = 1` the two buckets all paths share have no room for three nodes, so
  eviction, its leftovers and their later return all occur. Two reads, two held nodes and a
  split are all an operation can have. All it checks is proved for every depth besides.
* `faults_contained`: three nodes for the same reason, one fault at any step of any
  operation. `SomeUnharmed` stops where every node is harmed: `harmed` never loses an
  element, so that `HarmContained` holds trivially from there on. With two faults the second one meets a
  state of which the property says the same as before the first. `faults_durable`
  needs contents and takes two nodes for it; with two, no node is left in the cache
  between operations, which is what the other run has. It has no `SomeUnharmed`: the
  operations of a client that found an odd count are what `CountAsFound` is about.
* `tree`: eight keys are the fewest with which leaves of three entries give the
  root a second midNode1 (4 leaves, 3 midNode2, 2 midNode1). Leaves lend and merge, inner
  nodes merge, with neighbours under the same parent or another, in every row below the
  root. With two entries inner nodes merge where larger ones would lend; `map` has
  inner nodes of three entries, which lend.
* `map`: six keys are the capacity. `OneMarked` keeps the second value to one key at a time:
  values are stored and returned and nothing else, so that whatever might be mixed up
  can be mixed up with the marked one.
* `positions`: a position is right or wrong; two are enough to tell.
* `sessions`: six sessions allow a map to be begun, left, continued, dropped and begun again, with
  deaths in between; the theorems hold for any number.
* `buckets`: texts of 2, 4, 6 and 8 bytes over blocks of 4 do and do not fill their last
  block; 3 and 7 buckets over batches of 4 have a rest, as the program's trees over
  10000 do (a tree has 2^(d+1) - 1 buckets, and 10000 is a multiple of 4).

Symmetry is used where identifiers and contents are only compared for equality,
and not in the run that checks liveness. `operators`, `sessions` end where their bounds do,
and do not check for deadlock.

Fairness. `FairSpec` asks that a step of an operation that has begun is taken
eventually: `insert_map` and its siblings are straight-line code in one thread with
bounded loops. Nothing makes a new operation begin, so `PartInit` has no
fairness. `OperationsEnd` says that no stage waits for something the others do not
bring about.

Beside each definition that a mutant replaces stands the mistaken version, under
"Mistake:". The mutants of `PROJECT.json` show that every property notices one.

### Findings

`delete_root`: insert 1 to 5, delete 1, and search with a neighbour for any key left.
The delete merged the two children of the root, and rootNode::Delete
(node.cpp:1100-1117) left an entry with key 0 and position -1 in the root, which
counts as a child: the root has one, and names the empty entry as the neighbour on its
right. The comment on the function (node.cpp:1063) has "-1 left, 0 none, 1 right", so it
should be 0. The run ends there; what a descent past the greatest key makes of position -1 is
undefined (see "Nodes, BPlusTree and Deletion"). The program's only test of `delete_map`
is commented out (test_bomap.cpp:80-87).

`absent` finds a node that the parents list and that no longer exists anywhere,
after a delete of a key that is not stored (client.cpp:624-629). node.hpp:65
describes that result of `leafNode::Delete` as "no such value to delete". The
nodes on the whole way are lost at every level, so all keys below them are, too.

Three more things are kept out of the specifications by a guard, named above with
it: the delete of the last key (`DeleteStored`), operations on a root with an empty
entry (`StoredNext`), and sessions that begin over remains or read
what was dropped (`OrderlyNext`). Two are inside `HarmContained`, by what counts as harm: a
client that ends after an odd number of reads endangers every node, and a session
closed and opened again loses the nodes of its cache, which no code saves.

## Proofs

Each theorem holds for every value of the constants that the assumptions named with it
allow, and its module names the code it is about. The invariants below have been
checked by TLC on the runs' instances as well.

### Geometry

`OramGeometry_proofs` has what the others need of the bucket tree. A position is at
most the last bucket of the bottom row (`PositionsAreBottomRow`); the loop of the path
function ends at the ancestor given by a division (`NodeOnPathIsAbove`); rows do not
overlap (`RowsApart`); the depth the loop of the constructor finds is the least that fits
(`DepthOfIs`); and the left half of the positions still leads to a known number of
buckets (`ReachableSize`). Induction is done by taking a least counterexample
(`LeastOfNats`), and that a recursive function exists by collecting its finite
beginnings (`Iterates`), since the library's induction theorems cannot be used here.

`MCOperators_proofs` proves for levels and buckets of any size (`SizesAssumption`) and
identifiers of any length over any base (`BidAssumption`, `IntsAssumption`: the ints fit
into their bytes) `PathsAreRowWise`, `HalfIsEnough`, `OneTotalOrder`, `IntsMakeKeys` and
`CountingIsInOrder`, which are the properties of the run `operators`. For the last
three an identifier's number is written as a sum of its digits (`RankIsSum`), and the
first digit that differs decides (`BeforeIsSmaller`).

### A level

`PathORAM_proofs` proves for every set of nodes and contents, every `Depth` and
every `Z >= 1` (`ConstantsAssumption`):

* `TypeCorrect`: `Spec => []TypeOK`
* `ReadsAreTwo`: `Spec => []TwoReads`, the constant number of round trips
* `RewritesReads`: `Spec => []RewritesWhatItRead`
* `RecordedPaths`: `Spec => []OnRecordedPath`
* `NoNodeLostOrDoubled`: `Spec => []OneCopy`
* `EvictionIsGreedy`: `Spec => []GreedyEviction`

The argument is one inductive invariant, `IInv`. `OneCopy` is not inductive alone:
whether a read brings back a stale copy depends on which buckets are open, hence
on `RewritesWhatItRead` and on the parity in `TwoReads`; whether it finds the node
depends on the node's being on its recorded path. `IInv` therefore has, next to
`TypeOK`, `TwoReads` and `RewritesWhatItRead`:

* `Phase`: what is empty or possible in each stage;
* `Unique`: no two of the places local, new, cached, buffered, unopened bucket hold
  the same node, and nodes not listed are in none;
* `Live`: a listed node is in one of them;
* `PosAgree`: each such copy has the recorded position and a bucket on its path.

There is a lemma for each action, with a step for each part it can disturb. They
need of the geometry only that a path is the set of buckets `Node` gives for its rows;
`EvictionIsGreedy` needs `RowsApart` besides.

The module's second part proves `ImplementsTable`, `Spec => ImplementsBlockStore`. `Has(id, v)`
says that some copy of a node has content `v`; by `IInv` there is one copy, so that the
refinement mapping's `Content` is its content (`ContentIsHeld`). All steps but the
changes move copies and keep what they hold (`MovesOnly`), hence the table
(`MovingKeepsTable`), a read because a cached node is not in the buckets it opens. A
change is the table's `Replace` (`ChangeReplaces`), a search its `Lookup`.

### Faults

`Faults_proofs` proves for any number of faults `HarmIsContained` (`HarmContained`) and
`FaultsHarm` (`HarmlessWithoutFault`).

`IInv` is of no use here: a harmed node may have several copies or none, anywhere, and a
path read in vain is not rewritten. The invariant, `FaultInv`, is about one node at a
time and has two halves. `Level(H)` is about the client and the buckets as the client
sees them and says of the nodes outside `H` what `Unique`, `Live` and `PosAgree` say of
all. It is kept by the level's own steps for any set `H`, which is why each has a lemma
about `H` and not about `harmed`. The other half is what the disk holds, and the reason why a
restart harms no more than it is said to:

* `RootsAgree`: the root stored and the client's own agree on the nodes that the
  operation has not changed and that are not `behind`;
* `Disk`: for each node outside `HarmOfRestart` the stored root and the buckets are right.

`RestartOnInv` is then the step from `Disk` to `Level`. In the other direction, `Disk` is
kept because a step leaves alone what it does not touch (`StepLeavesUntouched`), and made
anew when an operation ends (`DiskAtRest`).

A client that ends between two reads (`OddDeath`) leaves the server's count odd, and
`FaultInv` does not hold of the next client. All nodes count as harmed from there on:
`Lost`, which no step takes back (`OddDeathLoses`, `LostStays`). The inductive invariant
is therefore `Lost \/ FaultInv`, and all other steps are those of `SafeNext`
(`FaultNextIs`). Containment says nothing of a lost tree; `CountAsFound`, below, does.

`FaultsHarm` needs `HarmFree`: without a
fault, `IInv` holds after all, by which no path is left behind (`WholePathsRewritten`).

The module's second part proves `FaultsAreDurable`, `FaultSpec => ImplementsDurableStore`. To
`FaultInv` it adds `SavedOnDisk`, that the contents on the disk are those of the table
as the last operation left it. All steps but three leave a node's content where it is
(`Stays`); a change is the abstract `Replace`, a restart the abstract `Restart`, and
what a fault harms is lost from all tables at once (`EndIsLose`). A client's end between
two reads empties all tables (`LosingIsRestart`), and they stay empty (`LostLeavesNothing`).

Its last part proves `CountStaysAsFound`, `FaultSpec => []CountAsFound`. Nothing of `FaultInv` is left after an odd start, not even that a read
finds its node. `CountInv` does without: it says how many reads there can have been by
the stage of the operation and by how many nodes are in local variables (none before the
first node is taken, one at most with one node, one at most while a new node waits to be
written back), and that the server's count has turned exactly if there has been one.

### Bytes

`BucketStore_proofs` proves for every size of nodes, buckets, cipher blocks and trees
(`BucketStoreAssumption`) `AllBucketsPrepared` (`EveryBucketPrepared`) and
`ReceivesStored` (`ReceivesWhatIsStored`). The invariant, `BytesInv`, says what the loop
of the constructor has stored and collected (`Preparing`), that each bucket is stored
as it was written last (`Prepared`), and that what the client has taken out of a reply
are the first buckets of it (`Receiving`). That the rest behind that
loop is never empty, a bulk write of nothing being refused, needs `Batch % 4 = 0`, as 10000
is: the last bucket's number is 2 modulo 4 (`LastBucket`). `Receiving` rests on `RoundTrip` (padding,
encryption and serialisation are undone by their counterparts) and on `FlattenChunks`
(a concatenation of pieces of one length is cut into these pieces).

### Sessions

`Sessions_proofs` proves for any number of levels and sessions
(`SessionsAssumption`) that orderly sessions are served one map
(`OneMapServed`: `ServesOneMap`) and that `is_access` continues the last one
(`SessionsContinue`: `AccessContinues`). `ServesOneMap` speaks of a client at work; its
invariant has to say what a session that dies half-way leaves behind. In
`Sessions_proofs!IInv`, `Whole` says that once there is a root every level has exactly
one document and all are of the last map, `Begun` what is there while a client sets up a
new map level by level, `Rooted` what a client with `is_access` may rely on, `SetUp` which
objects the server has.

### The tree

`BPlusTree_proofs` is about `InsertSpec`, any sequence of insertions and searches, which
is what test_bomap.cpp does but for one delete. For any number of levels from three,
any `C`, `P1`, `P2 >= 2`, any finite set of keys that fits (`TreeAssumption`,
`CapacityAssumption`) and any positions it proves `TreeIsTyped` (`TypeOK`),
`NodesAreListed` (`EveryNodeListedOnce`), `NamesAreGreatest` (`NamedByGreatestKey`),
`SearchesAreGuided` (`SearchOrder`), `NodesAreHalfFull` (`AtLeastHalfFull`),
`PositionsAreKnown` (`EntriesKnowPositions`), and with them `TreeIsAMap`:
`InsertSpec => ImplementsOMap`.

The invariant, `Grows`, says that there is a set of keys of which the tree is tidy
(`Tidy`). In a tidy tree the names of a row cut the names of the row below, or the keys
for the leaves, into intervals (`Held`), and each node has exactly the keys of its
interval (`IsRow`); the greatest keys of the intervals are the names (`Covers`). That one
statement contains most of the properties: a node's name is its greatest key, nodes do not overlap,
and every child is in one interval, so it is listed once. `HalfFull` and `IsAware` (each
entry has its child's position) come besides. None of the properties is inductive alone: a
descent finds its leaf because names cut intervals, an insertion keeps the intervals because the
descent has found the only node whose interval can take the key, and a split
finds the new half a place because nodes above are named by what they hold.

* `Nodes_proofs`: what the loops find (`IsFirst`), that an ordered insertion and the sort after
  a renaming yield ascending entries that are the old ones and the new (`InsortedIs`, `SortedIs`,
  by counting ranks), that a node with room takes an entry and a full one shares with a
  new node, both at least half full (`LeafInsertIs`, `MidInsertIs`).
* The way down: each node of it is the one where the key is or belongs (`Aim`, `AimsAre`).
* The way up (`Steps`): if in the row below one name has become one or two, then `Update` and
  `Insert` make of the node above one or two that list them; `Rebuilt` says what replacing a few
  neighbouring names does to the intervals.
* The root has room (`Roomy`): rows of half-full nodes shrink by a factor from row to row
  (`RowsShrink`), so the assumption on the capacity bounds the row below the root
  (`TopFits`). This is where `AtLeastHalfFull` and precompute.cpp's condition are used, and
  why the root's refusal, which nobody notices, does not come about.
* `finish` (`FinishIs`): a node whose child was touched has been touched itself
  (`Pending`), so each entry with a stale position is in a node that gets the new one.
* The map: every key has one entry in the leaves (`MapIs`), the leaf on the way is the one that
  has it (`SearchAnswers`), an insertion changes the entry of its own key and no other, whether or
  not leaves are split (`InsertStores`).

`WayTo`, `Grown` and `Power` are functions recursive in the row. That they satisfy
their equations is proved by putting together initial pieces of them (`WayIs`, `GrownIs`,
`PowerIs`), and what holds of all rows by taking a least or greatest counterexample.

### Model-checked only

`OperationsEnd`, as liveness under fairness is outside what the prover does; and what
`Deletion` adds: that the properties of `BPlusTree` and `ImplementsOMap` survive deletes.
A delete looks at pairs of neighbouring nodes in every row, of one parent or of two, and
the way up has several cases for each row.

## Not modelled

* A failed read. The client compares its reply with "rpc failed" where read_bucket
  returns "RPC failed" (client.cpp:1371, 1969), deciphers the message and reads past its
  end. That is undefined; `Faults` takes it to end the client.
* The cipher. `BucketStore` assumes that what was encrypted under an iv is deciphered
  under it and nothing else is.
* The search for parameters in floating point (precompute.cpp); its acceptance
  condition is an assumption, which the rows of params1.txt satisfy.
* `m1Delete` with six levels or more, where it runs off its vectors.
* Several clients at once: the program has one.
* Measurements and logging; the database and RPC libraries.

## Plan

1. (done) `OramGeometry`, `PathORAM` against `BlockStore`, invariants proved.
2. (done) `Nodes`, `BPlusTree`, `Deletion` against `OMap`: neighbour selection,
   rearrangement, merge, and what root merges do.
3. (done) Positions as entries of the parents, the refresh in `finish`.
4. (done) `Faults` against `DurableStore`: failing writes, restarts, the order of root and
   levels, the parity of reads.
5. (done) `Sessions`, with proofs; `Bids`; `BucketStore`.
6. (done) Proofs: eviction; `PathORAM` implements `BlockStore`.
7. (done) Proofs: `HarmContained` and `ImplementsDurableStore`, `BucketStore`, the pure
   operators, the geometry.
8. (done) Proofs: `BPlusTree` with insertions and searches is tidy and implements the map.
9. Proofs: the same with deletes of stored keys below the root. `Rebuilt` is stated for several
   neighbouring names at once so that it serves for pairs; what `Settle` does to
   a pair's entries comes first.
10. `m1Delete` from six levels on, as far as its vectors reach; two faults in one run
   with contents told apart.
