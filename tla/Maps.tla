-------------------------------- MODULE Maps --------------------------------
(***************************************************************************)
(* Partial functions as the program's hash tables: a table maps the keys   *)
(* in its domain.                                                          *)
(***************************************************************************)

Singleton(k, v) == [x \in {k} |-> v]

\* t[k] = v
Put(t, k, v) == [x \in DOMAIN t \cup {k} |-> IF x = k THEN v ELSE t[x]]

\* erase, for every key of S
Drop(t, S) == [x \in DOMAIN t \ S |-> t[x]]

\* t[k] = s[k], for every key of s
Override(t, s) ==
  [x \in DOMAIN t \cup DOMAIN s |-> IF x \in DOMAIN s THEN s[x] ELSE t[x]]

\* t has keys in S and values in T.
IsMap(t, S, T) == DOMAIN t \subseteq S /\ t \in [DOMAIN t -> T]
=============================================================================
