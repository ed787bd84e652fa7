------------------------------- MODULE MCMigrations -------------------------------
(***************************************************************************)
(* The database file on a small instance: an old and a new version of the  *)
(* program, two migrations apart.                                          *)
(***************************************************************************)
EXTENDS Migrations, TLC

Symmetry == Permutations(Files) \cup Permutations(Facts) \cup Permutations(Processes)
=============================================================================
