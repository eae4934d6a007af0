------------------------------ MODULE MCPipeline ------------------------------
(* Small instances of Pipeline for TLC. *)
EXTENDS Pipeline, TLC

CONSTANTS v1, v2, t1, t2

Create(t) == [create |-> t, insert |-> NoTable]
Insert(t) == [create |-> NoTable, insert |-> t]
Both(t, s) == [create |-> t, insert |-> s]

\* A plain dump; and one that creates a name twice (two schemas), inserts before it
\* creates, into a table it never creates, and says CREATE TABLE in a row.
Dumps ==
  (v1 :> <<Create(t1), Insert(t1), Insert(t1)>>
   @@ v2 :> <<Insert(t1), Create(t1), Insert(t1), Create(t1), Insert(t1), Insert(t2),
              Both(t1, t1)>>)

Symmetry == Permutations(Run) \cup Permutations(Reader) \cup Permutations(KeyValue)
=============================================================================
