------------------------------ MODULE MCTunnel ------------------------------
(***************************************************************************)
(* Instances of Tunnel for TLC.                                            *)
(***************************************************************************)
EXTENDS Tunnel, TLC

\* Connections, tasks and hosts differ only in their names.
MCSymmetry == Permutations(Conns) \cup Permutations(Tasks) \cup Permutations(Hosts)
=============================================================================
