-------------------------------- MODULE OMap --------------------------------
(***************************************************************************)
(* What the program offers its user: a map from keys to values.            *)
(* insert_map stores, delete_map removes and returns whether there was     *)
(* anything to remove, search_map returns the value stored or -1.          *)
(***************************************************************************)
EXTENDS Maps

CONSTANTS Keys, Values, NotFound

VARIABLES map,   \* key -> value
          ret    \* the key last searched for or deleted -> what was returned

Init == map = [k \in {} |-> NotFound] /\ ret = [k \in {} |-> NotFound]

Insert(k, v) == map' = Put(map, k, v) /\ UNCHANGED ret

Search(k) ==
  /\ ret' = Singleton(k, IF k \in DOMAIN map THEN map[k] ELSE NotFound)
  /\ UNCHANGED map

Delete(k) == map' = Drop(map, {k}) /\ ret' = Singleton(k, k \in DOMAIN map)

Next == \E k \in Keys : Search(k) \/ Delete(k) \/ \E v \in Values : Insert(k, v)

Spec == Init /\ [][Next]_<<map, ret>>
=============================================================================
