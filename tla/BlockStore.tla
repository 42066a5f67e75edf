----------------------------- MODULE BlockStore -----------------------------
(***************************************************************************)
(* What one level of the map promises to the operations above it: a table  *)
(* from node identifiers to node contents.  An identifier is the greatest  *)
(* key of the node, so changing a node's content may change its name.      *)
(* PathORAM implements this table with a bucket tree, a client cache and   *)
(* positions drawn at random, none of which may show here.                 *)
(***************************************************************************)
CONSTANTS Ids, Vals, NoVal

VARIABLES table,    \* identifier -> content, a partial function
          answer    \* identifier -> content, for the node last looked up

Tables == UNION {[S -> Vals] : S \in SUBSET Ids}

AtMostTwo(S) == \E x, y \in Ids : S \subseteq {x, y}

Init == table = [id \in {} |-> NoVal] /\ answer = [id \in {} |-> NoVal]

\* A lookup returns the present content of the node it names.
Lookup ==
  /\ \E id \in DOMAIN table : answer' = [x \in {id} |-> table[id]]
  /\ UNCHANGED table

\* The next operation does not see the answer to the last one.
Begin == answer' = [id \in {} |-> NoVal] /\ UNCHANGED table

\* An update replaces at most two nodes by at most two nodes and leaves the
\* content of every other node alone.
Replace ==
  \E old \in SUBSET DOMAIN table, t \in Tables :
    /\ AtMostTwo(old)
    /\ DOMAIN t # {} /\ AtMostTwo(DOMAIN t)
    /\ old = {} => DOMAIN table = {}
    /\ DOMAIN t \cap (DOMAIN table \ old) = {}
    /\ table' = [id \in (DOMAIN table \ old) \cup DOMAIN t |->
                   IF id \in DOMAIN t THEN t[id] ELSE table[id]]
    /\ UNCHANGED answer

Next == Begin \/ Lookup \/ Replace

Spec == Init /\ [][Next]_<<table, answer>>
=============================================================================
