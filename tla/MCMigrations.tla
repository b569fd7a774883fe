---------------------------- MODULE MCMigrations ----------------------------
(* Instances for model-checking Migrations; see the configurations. *)
EXTENDS Migrations
=============================================================================
