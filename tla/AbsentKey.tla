------------------------------ MODULE AbsentKey ------------------------------
(***************************************************************************)
(* One level of the map when client::Delete is called with a key that is   *)
(* not stored.  PathORAM has the operations that complete; here Delete may *)
(* also give up, as it does when leafNode::Delete reports that it found no *)
(* such key.                                                               *)
(***************************************************************************)
EXTENDS PathORAM

\* Delete returns with the nodes it took out of the cache still in local
\* variables.  finish then runs as after any other operation.
GiveUp ==
  /\ pc = "access"
  /\ held # NoNodes
  /\ held' = NoNodes
  /\ pc' = "writeback"
  /\ UNCHANGED <<result, fresh, client, evict, server>>

AbsentKeyNext == Next \/ GiveUp

AbsentKeySpec == Init /\ [][AbsentKeyNext]_vars

\* node.hpp describes the result of leafNode::Delete as "-1 (no such value to
\* delete); 0 (deleted, both nodes kept); 1 (deleted, nodes merged)": a call
\* that deletes nothing leaves every node in place.
NothingForgotten == \A id \in DOMAIN parentPos : Copies(id) # {}
=============================================================================
