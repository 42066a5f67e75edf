----------------------------- MODULE MCDeletion -----------------------------
(***************************************************************************)
(* Small instances of Deletion for TLC.                                    *)
(***************************************************************************)
EXTENDS Deletion

CONSTANT Marked  \* one of the values

\* At most one key has the marked value at a time.  Values are only stored and
\* returned, so that whatever could be mixed up can be mixed up with it.
OneMarked == Cardinality({k \in DOMAIN StoredMap : StoredMap[k] = Marked}) <= 1
=============================================================================
