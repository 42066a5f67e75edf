---------------------------- MODULE MCPathORAM ----------------------------
(***************************************************************************)
(* Small instances of PathORAM for TLC.                                    *)
(***************************************************************************)
EXTENDS PathORAM, TLC

\* Identifiers and contents are compared for equality only.
Symmetry == Permutations(Ids) \cup Permutations(Vals)
===========================================================================
