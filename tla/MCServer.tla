------------------------------ MODULE MCServer ------------------------------
(***************************************************************************)
(* Instances of Server for TLC.                                            *)
(***************************************************************************)
EXTENDS ServerImplements, TLC

\* Connections differ in name only.
Symmetric == Permutations(Conns)
=============================================================================
