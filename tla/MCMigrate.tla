----------------------------- MODULE MCMigrate -----------------------------
(* Two instances and three migrations, the first of which has no Rollback. *)
EXTENDS Migrate

CONSTANTS p1, p2
MCReversible == {2, 3}
=============================================================================
