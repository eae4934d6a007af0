----------------------------- MODULE MCDaemonLife -----------------------------
(* Small instances of DaemonLife for TLC. *)
EXTENDS DaemonLife, TLC

CONSTANTS i1, i2

Db(d, n, on) == [id |-> d, fields |-> n, enabled |-> on]

\* One ID twice, the default of `init`, a list with a database that is switched off.
SomeLists ==
  {<<Db(i1, 6, TRUE), Db(i1, 6, TRUE)>>,
   <<Db(i1, 5, TRUE)>>,
   <<Db(i1, 0, TRUE), Db(i2, 5, FALSE)>>}
=============================================================================
