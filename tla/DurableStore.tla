---------------------------- MODULE DurableStore ----------------------------
(***************************************************************************)
(* What a level promises when the client may be restarted and writes may   *)
(* fail: operations on the nodes that no fault has touched are atomic.  A   *)
(* restart in the middle of one finds the table as the last operation that *)
(* came to its end left it, less the nodes lost.                           *)
(***************************************************************************)
EXTENDS Functions

CONSTANTS Ids, Vals, NoVal

VARIABLES table,   \* identifier -> content, of the nodes not lost
          saved,   \* the table after the last operation that ended
          answer   \* identifier -> content, for the node last looked up

Tables  == UNION {[S -> Vals] : S \in SUBSET Ids}
Nothing == [id \in {} |-> NoVal]

AtMostTwo(S) == \E x, y \in Ids : S \subseteq {x, y}

Init == table = Nothing /\ saved = Nothing /\ answer = Nothing

Begin == answer' = Nothing /\ UNCHANGED <<table, saved>>

Lookup ==
  /\ \E id \in DOMAIN table : answer' = [x \in {id} |-> table[id]]
  /\ UNCHANGED <<table, saved>>

\* At most two nodes become at most two.  The old ones may be among the lost.
Replace ==
  \E old \in SUBSET DOMAIN table, t \in Tables :
    /\ AtMostTwo(old) /\ AtMostTwo(DOMAIN t)
    /\ DOMAIN t \cap (DOMAIN table \ old) = {}
    /\ table' = [id \in (DOMAIN table \ old) \cup DOMAIN t |->
                   IF id \in DOMAIN t THEN t[id] ELSE table[id]]
    /\ UNCHANGED <<saved, answer>>

End == saved' = table /\ UNCHANGED <<table, answer>>

\* A write that failed: the operation ends and some nodes are lost.
Lose ==
  \E kept \in SUBSET DOMAIN table :
    /\ table' = Restrict(table, kept)
    /\ saved' = table'
    /\ answer' \in {answer, Nothing}

Restart ==
  \E kept \in SUBSET DOMAIN saved :
    /\ table' = Restrict(saved, kept)
    /\ saved' = table'
    /\ answer' = Nothing

Next == Begin \/ Lookup \/ Replace \/ End \/ Lose \/ Restart

Spec == Init /\ [][Next]_<<table, saved, answer>>
=============================================================================
