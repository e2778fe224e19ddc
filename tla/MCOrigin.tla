------------------------------ MODULE MCOrigin ------------------------------
(***************************************************************************)
(* Instances of Origin for TLC.                                            *)
(***************************************************************************)
EXTENDS Origin, TLC

\* Tasks differ only in their names; so do hosts.
MCSymmetry == Permutations(IssueTasks) \cup Permutations(ExecTasks) \cup Permutations(Hosts)
=============================================================================
