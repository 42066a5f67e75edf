-------------------------- MODULE Sessions_proofs --------------------------
(***************************************************************************)
(* Proofs about Sessions: with orderly sessions a client at work is served *)
(* one map, and is_access continues the last one, for every number of      *)
(* levels and sessions.                                                    *)
(***************************************************************************)
EXTENDS Sessions, TLAPS

Beginning == phase \in {"setup", "root"}

Types ==
  /\ connected \in BOOLEAN /\ indexed \in BOOLEAN /\ access \in BOOLEAN
  /\ objects \subseteq Levels \ {Root}
  /\ DOMAIN store = Levels
  /\ store = [i \in Levels |-> store[i]]
  /\ phase \in {"off", "setup", "root", "work"}
  /\ level \in 0 .. Root

\* A stored root comes with one document in every level, of the last map.
Whole == store[Root] # <<>> => \A i \in Levels : store[i] = <<last>>

\* A client that begins a map has so far filled the levels it has set up, or
\* has yet to meet the server that was started for it.
Begun ==
  Beginning /\ ~access =>
    \/ level = 0 /\ ~connected
    \/ /\ connected
       /\ \A i \in Levels : store[i] = IF i < level THEN <<EmptyMap>> ELSE <<>>

\* A client with is_access has a root to read, one at work has read it.
Rooted ==
  /\ Beginning /\ access => store[Root] # <<>>
  /\ Beginning => root = EmptyMap
  /\ phase = "work" => store[Root] # <<>> /\ root = last

\* The levels a client has set up.
SetUp ==
  /\ phase = "setup" => level < Root /\ \A i \in 0 .. level - 1 : i \in objects
  /\ phase = "root" => level = Root
  /\ phase \in {"root", "work"} => objects = Levels \ {Root}

IInv == Types /\ Whole /\ Begun /\ Rooted /\ SetUp

\* What storage does with collections of one document.
LEMMA OneDocument ==
  ASSUME NEW m, NEW r
  PROVE  /\ Append(<<>>, m) = <<m>> /\ Head(<<m>>) = m /\ <<m>> # <<>>
         /\ <<r>> \o Tail(<<m>>) = <<r>>
BY SMT

LEMMA RootIsLevel == Root \in Levels /\ Root \in Nat /\ 0 < Root /\ Levels \ {Root} = 0 .. Root - 1
BY SessionsAssumption DEF Root, Levels

LEMMA InitIInv == Init => IInv
<1> SUFFICES ASSUME Init PROVE IInv
  OBVIOUS
<1> QED
  BY RootIsLevel DEF Init, IInv, Types, Whole, Begun, Rooted, SetUp, Beginning, NoData

LEMMA StartIInv ==
  ASSUME IInv, NEW w \in BOOLEAN, Start(w),
         (w /\ store[Root] # <<>>) \/ (~w /\ (~connected \/ store = NoData))
  PROVE  IInv'
<1> USE DEF IInv, Start, server
<1>1. Types' /\ Whole'
  BY RootIsLevel DEF Types, Whole
<1>2. Begun'
  BY RootIsLevel DEF Types, Begun, Beginning, NoData
<1>3. Rooted' /\ SetUp'
  BY RootIsLevel DEF Types, Rooted, SetUp, Beginning
<1> QED
  BY <1>1, <1>2, <1>3

\* The first Setup for a client that begins a map drops the database, and each
\* adds a document to a level that has none.
LEMMA SetupIInv == ASSUME IInv, Setup PROVE IInv'
<1> USE DEF IInv
<1> DEFINE db   == Connected(access)
           data == IF access THEN db.store ELSE Inserted(db.store, level, db.indexed)
<1>1. /\ phase = "setup" /\ connected' = TRUE /\ store' = data /\ indexed' = db.indexed
      /\ objects' = IF access \/ data # db.store THEN objects \cup {level} ELSE objects
      /\ level' = level + 1 /\ phase' = IF level' = Root THEN "root" ELSE phase
      /\ UNCHANGED <<access, root, session, last>>
  BY DEF Setup
<1>2. level \in Levels /\ level \in Levels \ {Root} /\ level + 1 \in 0 .. Root
  BY <1>1, RootIsLevel DEF Types, SetUp, Levels
<1>3. ASSUME objects' = objects \cup {level}, Types' PROVE SetUp'
  <2>1. \A i \in 0 .. level' - 1 : i \in objects'
    <3> SUFFICES ASSUME NEW i \in 0 .. level' - 1 PROVE i \in objects'
      OBVIOUS
    <3>1. i = level \/ i \in 0 .. level - 1
      BY <1>1, <1>2, RootIsLevel
    <3> QED
      BY <1>1, <1>3, <3>1 DEF SetUp
  <2>2. level' = Root => objects' = Levels \ {Root}
    BY <1>3, <2>1, RootIsLevel DEF Types
  <2> QED
    BY <1>1, <1>2, <2>1, <2>2, RootIsLevel DEF SetUp
<1>4. CASE access
  <2>1. db.store = store /\ db.indexed = indexed
    BY <1>4 DEF Connected, Connector
  <2>2. store' = store /\ objects' = objects \cup {level} /\ indexed' = indexed
    BY <1>1, <1>4, <2>1
  <2>3. Types'
    BY <1>1, <1>2, <1>4, <2>2, RootIsLevel DEF Types
  <2>4. Whole' /\ Begun' /\ Rooted'
    BY <1>1, <1>4, <2>2, RootIsLevel DEF Types, Whole, Begun, Rooted, Beginning
  <2>5. SetUp'
    BY <1>3, <2>2, <2>3
  <2> QED
    BY <2>3, <2>4, <2>5
<1>5. CASE ~access
  <2>1. db.indexed \in BOOLEAN
    BY DEF Connected, Connector, Types
  <2>2. DOMAIN db.store = Levels /\ db.store = [i \in Levels |-> db.store[i]]
    BY DEF Connected, Connector, Types, NoData
  <2>3. \A i \in Levels : db.store[i] = IF i < level THEN <<EmptyMap>> ELSE <<>>
    BY <1>1, <1>2, <1>5, RootIsLevel DEF Connected, Connector, Begun, Beginning, NoData, Levels
  <2>4. db.store[level] = <<>>
    BY <1>2, <2>3 DEF Levels
  <2>5. data = [db.store EXCEPT ![level] = <<EmptyMap>>]
    BY <1>5, <2>4, OneDocument DEF Inserted
  <2>6. data # db.store
    BY <1>2, <2>2, <2>4, <2>5, OneDocument, ZenonT(60)
  <2>7. store' = [db.store EXCEPT ![level] = <<EmptyMap>>] /\ objects' = objects \cup {level}
    BY <1>1, <2>5, <2>6
  <2>8. DOMAIN store' = Levels /\ store' = [i \in Levels |-> store'[i]]
    BY <2>2, <2>7
  <2>9. \A i \in Levels : store'[i] = IF i < level' THEN <<EmptyMap>> ELSE <<>>
    <3> SUFFICES ASSUME NEW i \in Levels
                 PROVE  store'[i] = IF i < level' THEN <<EmptyMap>> ELSE <<>>
      OBVIOUS
    <3>1. CASE i = level
      <4>1. store'[i] = <<EmptyMap>>
        BY <2>2, <2>7, <3>1
      <4>2. i < level'
        BY <1>1, <1>2, <3>1, RootIsLevel
      <4> QED
        BY <4>1, <4>2
    <3>2. CASE i # level
      <4>1. store'[i] = db.store[i]
        BY <2>2, <2>7, <3>2
      <4>2. i < level' <=> i < level
        BY <1>1, <1>2, <3>2 DEF Levels
      <4> QED
        BY <2>3, <4>1, <4>2
    <3> QED
      BY <3>1, <3>2
  <2>10. Types'
    BY <1>1, <1>2, <2>1, <2>7, <2>8 DEF Types
  <2>11. store'[Root] = <<>>
    BY <1>2, <2>9, <2>10, RootIsLevel, <1>1 DEF Types
  <2>12. Whole' /\ Rooted' /\ Begun'
    BY <1>1, <1>5, <2>9, <2>11 DEF Whole, Rooted, Begun, Beginning
  <2>13. SetUp'
    BY <1>3, <2>7, <2>10
  <2> QED
    BY <2>10, <2>12, <2>13
<1> QED
  BY <1>4, <1>5

LEMMA StoreRootIInv == ASSUME IInv, StoreRoot PROVE IInv'
<1> USE DEF IInv
<1>1. \A i \in Levels : store[i] = IF i < Root THEN <<EmptyMap>> ELSE <<>>
  BY RootIsLevel DEF StoreRoot, Begun, Beginning, SetUp
<1>2. store[Root] = <<>>
  BY <1>1, RootIsLevel
<1>3. store' = [store EXCEPT ![Root] = <<EmptyMap>>]
  BY <1>2, OneDocument DEF StoreRoot, Inserted
<1>4. \A i \in Levels : store'[i] = <<EmptyMap>>
  BY <1>1, <1>3, RootIsLevel DEF Types, Levels
<1>5. Types'
  BY <1>3 DEF StoreRoot, Types
<1>6. Whole' /\ Begun' /\ SetUp'
  BY <1>4, RootIsLevel DEF StoreRoot, Whole, Begun, SetUp, Beginning
<1>7. Rooted'
  BY <1>4, RootIsLevel, OneDocument DEF StoreRoot, Rooted, Beginning
<1> QED
  BY <1>5, <1>6, <1>7

LEMMA ReadRootIInv == ASSUME IInv, ReadRoot PROVE IInv'
<1> USE DEF IInv
<1>1. root' = last
  BY RootIsLevel, OneDocument DEF ReadRoot, Queried, Whole
<1>2. Types' /\ Whole' /\ Begun' /\ SetUp'
  BY DEF ReadRoot, server, Types, Whole, Begun, SetUp, Beginning
<1>3. Rooted'
  BY <1>1 DEF ReadRoot, server, Rooted, Beginning
<1> QED
  BY <1>2, <1>3

LEMMA OperateIInv == ASSUME IInv, Operate PROVE IInv'
<1> USE DEF IInv
<1>1. \A i \in Levels : store[i] = <<last>> /\ store[i] # <<>>
  BY OneDocument DEF Operate, Rooted, Whole
<1>2. \A i \in Levels : store'[i] = <<root'>>
  BY <1>1, OneDocument DEF Operate
<1>3. Types'
  BY DEF Operate, Types
<1>4. Whole' /\ Begun' /\ SetUp'
  BY <1>2 DEF Operate, Whole, Begun, SetUp, Beginning
<1>5. Rooted'
  BY <1>2, RootIsLevel, OneDocument DEF Operate, Rooted, Beginning
<1> QED
  BY <1>3, <1>4, <1>5

LEMMA ExitIInv == ASSUME IInv, Exit PROVE IInv'
<1>1. store'[Root] = <<>>
  BY RootIsLevel DEF Exit, NoData
<1> QED
  BY <1>1, ZenonT(60) DEF Exit, NoData, IInv, Types, Whole, Begun, Rooted, SetUp, Beginning

LEMMA QuitIInv == ASSUME IInv, Quit PROVE IInv'
BY DEF Quit, server, IInv, Types, Whole, Begun, Rooted, SetUp, Beginning

LEMMA RestartIInv == ASSUME IInv, RestartServer PROVE IInv'
BY DEF RestartServer, client, IInv, Types, Whole, Begun, Rooted, SetUp, Beginning

LEMMA StutterIInv == ASSUME IInv, UNCHANGED vars PROVE IInv'
BY DEF vars, server, client, IInv, Types, Whole, Begun, Rooted, SetUp, Beginning

\* The inductive invariant: one document in every level as soon as there is a
\* root, all of the map last worked on.
THEOREM OrderlyInductive == OrderlySpec => []IInv
<1>1. IInv /\ [OrderlyNext]_vars => IInv'
  <2> SUFFICES ASSUME IInv, [OrderlyNext]_vars PROVE IInv'
    OBVIOUS
  <2> QED
    BY StartIInv, SetupIInv, StoreRootIInv, ReadRootIInv, OperateIInv, ExitIInv, QuitIInv,
       RestartIInv, StutterIInv DEF OrderlyNext, Running
<1> QED
  BY InitIInv, <1>1, PTL DEF OrderlySpec

\* ServesOneMap: nothing of an earlier session is left in any level that a
\* client works on, and every level has been set up.
THEOREM OneMapServed == OrderlySpec => []ServesOneMap
<1>1. IInv => ServesOneMap
  BY OneDocument DEF IInv, Whole, Rooted, SetUp, ServesOneMap, Queried
<1> QED
  BY OrderlyInductive, <1>1, PTL

\* AccessContinues: is_access takes up the map last worked on.
THEOREM SessionsContinue == OrderlySpec => []AccessContinues
<1>1. IInv => AccessContinues
  BY OneDocument, RootIsLevel DEF IInv, Whole, Rooted, Beginning, AccessContinues, Queried
<1> QED
  BY OrderlyInductive, <1>1, PTL
=============================================================================
