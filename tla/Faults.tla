------------------------------- MODULE Faults -------------------------------
(***************************************************************************)
(* The row directly below the root when the client is restarted and writes *)
(* fail.  Its parent is the root, which finish sends to the server before  *)
(* the buckets of any row; client::init reads it back (is_access) and      *)
(* nothing else of the client survives.  No reply to a write is looked at: *)
(* a failure is reported on the console and the operation goes on.         *)
(*                                                                         *)
(* A failed read runs off the end of the reply, which is undefined; it is  *)
(* taken to end the client, before or after the server has counted it.     *)
(***************************************************************************)
EXTENDS PathORAM

CONSTANT MaxFaults  \* bound on the number of faults

ASSUME FaultsAssumption == MaxFaults \in Nat

VARIABLES savedPos,   \* the positions in the root as the server has it
          rootSent,   \* this operation has sent the root
          \* What the properties speak of; no action depends on these.
          stash,      \* what was in the cache when the operation began
          behind,     \* ids changed since the server last took a root
          finished,   \* id -> content, after the last operation that ended
          harmed,     \* ids a fault may have lost, doubled or set back
          foundCount, \* recvCount when the client in use was set up
          faults

history   == <<stash, behind, finished, harmed, foundCount, faults>>
faultVars == <<vars, savedPos, rootSent, history>>

\* The table the level stands for.
Listed == [id \in DOMAIN parentPos |-> Content(id)]

FaultInit ==
  /\ Init
  /\ savedPos = parentPos /\ rootSent = FALSE
  /\ stash = {} /\ behind = {} /\ finished = NoNodes /\ harmed = {}
  /\ foundCount = 0 /\ faults = 0

-----------------------------------------------------------------------------
\* A read that misses leaves its path out of the list of paths to rewrite,
\* after its nodes have come into the cache: the buckets keep copies of them.
LeftBehind == UNION {DOMAIN tree[b] : b \in Opened \ writeview}

\* A step of an operation that meets no fault.  Eviction waits for the root.
Operate ==
  /\ PartInit \/ Access \/ Finish
  /\ pc = "evict" => rootSent
  /\ rootSent' = (rootSent /\ pc' # "idle")
  /\ stash' = IF pc = "idle" THEN DOMAIN cache ELSE stash
  /\ IF pc = "evict" /\ pc' = "idle"
     THEN /\ behind' = IF savedPos = parentPos THEN {} ELSE behind \cup modified
          /\ harmed' = harmed \cup LeftBehind
          /\ finished' = Listed
     ELSE UNCHANGED <<behind, harmed, finished>>
  /\ UNCHANGED <<savedPos, foundCount, faults>>

\* Mistake: the root is sent when the nodes have been written back, before
\* the new positions are drawn.
WriteRootEarly ==
  /\ pc \in {"writeback", "evict"} /\ ~rootSent
  /\ savedPos' = parentPos
  /\ rootSent' = TRUE
  /\ UNCHANGED <<vars, history>>

WriteRoot ==
  /\ pc = "evict" /\ ~rootSent
  /\ savedPos' = parentPos
  /\ rootSent' = TRUE
  /\ UNCHANGED <<vars, history>>

-----------------------------------------------------------------------------
Fault == faults < MaxFaults /\ faults' = faults + 1

\* write_bucket for the root fails; nothing notices.
WriteRootFails ==
  /\ Fault
  /\ pc = "evict" /\ ~rootSent
  /\ rootSent' = TRUE
  /\ UNCHANGED <<vars, savedPos, stash, behind, finished, harmed, foundCount>>

\* write_bucket for the refilled buckets fails after the server has stored
\* some of them.  The client forgets them all.
WriteBucketsFails(stored) ==
  /\ Fault
  /\ pc = "evict" /\ rootSent
  /\ UNION {Path(leaf) : leaf \in leafList} \subseteq writeview
  /\ stored # DOMAIN outbuf
  /\ tree' = [b \in Buckets |-> IF b \in stored THEN outbuf[b] ELSE tree[b]]
  /\ outbuf' = NoNodes
  /\ leafList' = {} /\ modified' = {}
  /\ pc' = "idle"
  /\ rootSent' = FALSE
  /\ harmed' = harmed \cup DOMAIN cache \cup modified \cup LeftBehind
                 \cup UNION {DOMAIN outbuf[b] \cup DOMAIN tree[b] : b \in DOMAIN outbuf}
  /\ behind' = IF savedPos = parentPos THEN {} ELSE behind \cup modified
  /\ finished' = Listed
  /\ UNCHANGED <<result, held, fresh, parentPos, cache, readCnt, writeview,
                 readview, recvCount, savedPos, stash, foundCount>>

\* The client ends, wherever it is, and a new one is set up.
\* What harm that does: nodes that were only in the cache are gone.  Nodes the
\* operation has touched are back where they were if the root was not sent yet;
\* otherwise the root names them and their positions as they were to become.
HarmOfRestart ==
  harmed \cup behind \cup (IF pc = "idle" THEN DOMAIN cache ELSE stash)
         \cup (IF rootSent THEN modified ELSE {})

NewClient ==
  /\ pc' = "idle" /\ result' = NoNodes
  /\ held' = NoNodes /\ fresh' = NoNodes /\ cache' = NoNodes
  /\ modified' = {} /\ leafList' = {} /\ readCnt' = 0
  /\ writeview' = {} /\ outbuf' = NoNodes
  /\ parentPos' = savedPos
  /\ readview' = {}
  /\ rootSent' = FALSE
  /\ stash' = {} /\ behind' = {}
  /\ UNCHANGED <<tree, savedPos, finished>>

\* Mistake: the counts of reads survive.
RestartBothKeepsCount ==
  /\ Fault /\ NewClient
  /\ harmed' = HarmOfRestart
  /\ foundCount' = 0 /\ UNCHANGED recvCount

\* ... together with the server, which counts from 0.
RestartBoth ==
  /\ Fault /\ NewClient
  /\ harmed' = HarmOfRestart
  /\ foundCount' = 0 /\ recvCount' = 0

\* ... with a running server, which replaces its ORAM objects, but not its
\* counts of reads.  If the client has ended between the two reads of an
\* operation, the server begins every operation of the next one at the wrong
\* read, hands out what it should withhold and withholds what it should hand
\* out: no node is safe from them.  (The object of a midNode1 row stays.  What
\* it has handed out is forgotten at the next read of an even count anyway.)
RestartClient ==
  /\ Fault /\ NewClient
  /\ harmed' = IF recvCount = 0 THEN HarmOfRestart ELSE Ids
  /\ foundCount' = recvCount /\ UNCHANGED recvCount

-----------------------------------------------------------------------------
Failures ==
  \/ WriteRootFails
  \/ \E stored \in SUBSET DOMAIN outbuf : WriteBucketsFails(stored)

FaultNext == Operate \/ WriteRoot \/ Failures \/ RestartBoth \/ RestartClient

FaultSpec == FaultInit /\ [][FaultNext]_faultVars

-----------------------------------------------------------------------------
\* Faults harm the nodes they meet and no others: a node that was neither in
\* the client's hands at a failed write nor in its cache at a restart, nor
\* being changed when the root had been sent and the buckets had not, keeps
\* its one copy on its recorded path through all later operations.
HarmContained ==
  \A id \in Ids \ harmed :
    IF id \in DOMAIN parentPos
    THEN /\ \E place \in Copies(id) : Copies(id) = {place}
         /\ id \in DOMAIN cache => cache[id].pos = parentPos[id]
         /\ \A b \in Buckets \ Opened : id \in DOMAIN tree[b] => b \in Path(parentPos[id])
    ELSE Copies(id) = {}

\* Every operation moves the server's count by two: whatever is lost, and
\* whatever its reads find or not, an operation leaves the count as odd or even
\* as its client found it.  So a client that ends after one read leaves an odd
\* count to all operations of the next one, until another client ends after
\* one read or the server is started again.
CountAsFound ==
  /\ pc = "evict" => readCnt = 2
  /\ pc \in {"idle", "evict"} => recvCount = foundCount

\* Only faults harm.  As long as none has met the client an operation leaves no
\* copies behind in the buckets it was given, and reads none in vain.
HarmlessWithoutFault == faults = 0 => harmed = {}

\* Operations are atomic for the nodes not harmed: a restart undoes the one in
\* progress completely and keeps all before it, and lookups return what was
\* written last.
Durable == INSTANCE DurableStore
             WITH table  <- Restrict(Listed, DOMAIN Listed \ harmed),
                  saved  <- Restrict(finished, DOMAIN finished \ harmed),
                  answer <- Restrict(result, DOMAIN result \ harmed)

ImplementsDurableStore == Durable!Spec
=============================================================================
