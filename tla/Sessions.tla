------------------------------ MODULE Sessions ------------------------------
(***************************************************************************)
(* Clients that come one after the other to a server that runs on, or is   *)
(* started again, in between.  A client sets up every level in a call of   *)
(* its own, then stores an empty root or, with is_access, reads the root.  *)
(* The database outlives both programs until a client says "exit".         *)
(*                                                                         *)
(* What a level holds is the map its nodes belong to, 0 being dummies or   *)
(* an empty root; a map has the number of the session that began it.       *)
(***************************************************************************)
EXTENDS Integers, Sequences

CONSTANTS L,           \* levels, the root's included; the root is level L - 1
          MaxSessions  \* bound on the number of clients

ASSUME SessionsAssumption == L \in Nat /\ L >= 3 /\ MaxSessions \in Nat

VARIABLES connected,  \* the server's `init`: it has its Connector
          objects,    \* levels it has an ORAM object for
          store,      \* level -> the documents stored under each position
          indexed,    \* positions are unique in the collections
          phase,      \* what the client does: "off", "setup", "root", "work"
          level,      \* the level to be set up next
          access,     \* is_access
          root,       \* the map of the client's root
          session,    \* number of clients so far
          last        \* the map last worked on, for the properties

server == <<connected, objects, store, indexed>>
client == <<phase, level, access, root, session>>
vars   == <<server, client, last>>

Levels   == 0 .. L - 1
Root     == L - 1
NoData   == [i \in Levels |-> <<>>]
EmptyMap == 0

Init ==
  /\ connected = FALSE /\ objects = {} /\ store = NoData /\ indexed = FALSE
  /\ phase = "off" /\ level = 0 /\ access = FALSE /\ root = EmptyMap
  /\ session = 0 /\ last = EmptyMap

-----------------------------------------------------------------------------
\* Storage.  Query and Update act on the first document of a position.
Queried(i) == Head(store[i])

\* Insert, Bulk_Insert: refused under a unique index, else one more document.
Inserted(data, i, unique) ==
  IF unique /\ data[i] # <<>> THEN data ELSE [data EXCEPT ![i] = Append(@, EmptyMap)]

\* A client starts, with is_access or without.
Start(withAccess) ==
  /\ phase = "off" /\ session < MaxSessions
  /\ phase' = "setup" /\ level' = 0 /\ access' = withAccess
  /\ root' = EmptyMap /\ session' = session + 1
  /\ UNCHANGED <<server, last>>

\* Mistake: whatever is_access says, the database is dropped.
ConnectorDropping(isAccess) == [store |-> NoData, indexed |-> ~isAccess]

\* Connector::Connector
Connector(isAccess) ==
  IF isAccess THEN [store |-> store, indexed |-> indexed]
              ELSE [store |-> NoData, indexed |-> TRUE]

\* Mistake: `init` is not looked at.
ConnectedEachTime(isAccess) == Connector(isAccess)

\* The first Setup of a server connects it.
Connected(isAccess) ==
  IF connected THEN [store |-> store, indexed |-> indexed] ELSE Connector(isAccess)

\* Setup of one level.  A constructor that may not insert throws, the object
\* is not replaced, and the client goes on.
Setup ==
  /\ phase = "setup"
  /\ LET db   == Connected(access)
         data == IF access THEN db.store ELSE Inserted(db.store, level, db.indexed)
     IN  /\ connected' = TRUE
         /\ store' = data /\ indexed' = db.indexed
         /\ objects' = IF access \/ data # db.store THEN objects \cup {level} ELSE objects
  /\ level' = level + 1
  /\ phase' = IF level' = Root THEN "root" ELSE phase
  /\ UNCHANGED <<access, root, session, last>>

\* init_dummy of the root.
StoreRoot ==
  /\ phase = "root" /\ ~access
  /\ store' = Inserted(store, Root, indexed)
  /\ phase' = "work"
  /\ last' = EmptyMap
  /\ UNCHANGED <<connected, objects, indexed, level, access, root, session>>

\* The root read back.  An empty one turns is_access off.
ReadRoot ==
  /\ phase = "root" /\ access /\ store[Root] # <<>>
  /\ root' = Queried(Root)
  /\ access' = (root' # EmptyMap)
  /\ phase' = "work"
  /\ UNCHANGED <<server, level, session, last>>

\* An operation of the map: nodes of it in every level, and a new root.
Operate ==
  /\ phase = "work"
  /\ root' = IF root = EmptyMap THEN session ELSE root
  /\ store' = [i \in Levels |-> IF store[i] = <<>> THEN <<>> ELSE <<root'>> \o Tail(store[i])]
  /\ last' = root'
  /\ UNCHANGED <<connected, objects, indexed, phase, level, access, session>>

\* sendend("exit") or sendend("drop") at the end: the database is dropped, and
\* its indexes with it; the server stays connected.
Exit ==
  /\ phase = "work"
  /\ store' = NoData /\ indexed' = FALSE
  /\ phase' = "off"
  /\ last' = EmptyMap
  /\ UNCHANGED <<connected, objects, level, access, root, session>>

\* The client ends without a word.
Quit ==
  /\ phase # "off"
  /\ phase' = "off"
  /\ UNCHANGED <<server, level, access, root, session, last>>

RestartServer ==
  /\ phase = "off"
  /\ connected' = FALSE /\ objects' = {}
  /\ UNCHANGED <<store, indexed, client, last>>

-----------------------------------------------------------------------------
Running == Setup \/ StoreRoot \/ ReadRoot \/ Operate \/ Exit \/ Quit \/ RestartServer

\* A session that begins a map comes to a server just started or to a database
\* that was dropped; one with is_access to a database that has a root.
OrderlyNext ==
  \/ (~connected \/ store = NoData) /\ Start(FALSE)
  \/ store[Root] # <<>> /\ Start(TRUE)
  \/ Running

OrderlySpec == Init /\ [][OrderlyNext]_vars

-----------------------------------------------------------------------------
\* A client at work finds every level set up and holding nodes of its own map
\* and no other, or none: nothing is left of an earlier session that could
\* come into the cache under a name its own nodes have.
ServesOneMap ==
  phase = "work" =>
    /\ objects = Levels \ {Root}
    /\ \A i \in Levels : store[i] # <<>> /\ Queried(i) = root

\* A session opened with is_access finds a root when it reads it, and that of
\* the map last worked on, however often clients have died and the server was
\* started since, also when one died while it set up.
AccessContinues ==
  phase = "root" /\ access => store[Root] # <<>> /\ Queried(Root) = last
=============================================================================
