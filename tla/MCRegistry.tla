----------------------------- MODULE MCRegistry -----------------------------
(***************************************************************************)
(* Instances of Registry for TLC.                                          *)
(***************************************************************************)
EXTENDS Registry, TLC

\* Hosts differ only in their names.
MCSymmetry == Permutations(Hosts)
=============================================================================
