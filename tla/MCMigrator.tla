----------------------------- MODULE MCMigrator -----------------------------
(* Instances of Migrator for TLC: a rolling upgrade. *)
EXTENDS Migrator, TLC

CONSTANTS old, new1, new2

OldAndNew == (old :> 2) @@ (new1 :> 3) @@ (new2 :> 3)
=============================================================================
