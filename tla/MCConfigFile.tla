----------------------------- MODULE MCConfigFile -----------------------------
(* A small instance of ConfigFile for TLC. *)
EXTENDS ConfigFile, TLC

CONSTANTS i1, i2, t1, t2, c1, c2

\* What is found on the host goes by one ID; the user may choose the other.
OneID == [t \in Target |-> i1]

\* Other files, each of which lists one database, under the other ID.
OneEntry == {[typed |-> TRUE, dbs |-> <<[id |-> i2, of |-> t]>>] : t \in Target}

\* Commands are alike, and so are the databases of the host.
Symmetry == Permutations(Command) \cup Permutations(Target)
=============================================================================
