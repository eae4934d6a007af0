------------------------------ MODULE MCKeyFile ------------------------------
(* A small instance of KeyFile for TLC. *)
EXTENDS KeyFile, TLC

CONSTANTS k1, k2, k3, c1, c2, a1, a2

\* Keys, commands and processes are alike.
Symmetry == Permutations(KeyValue) \cup Permutations(Command) \cup Permutations(Agent)
=============================================================================
