------------------------------ MODULE MCFaults ------------------------------
(***************************************************************************)
(* Small instances of Faults for TLC.                                      *)
(***************************************************************************)
EXTENDS Faults, TLC

\* Identifiers and contents are compared for equality only.
Symmetry == Permutations(Ids) \cup Permutations(Vals)

\* Once every node has been harmed, HarmContained holds from there on:
\* harmed never loses an element.
SomeUnharmed == harmed # Ids
=============================================================================
