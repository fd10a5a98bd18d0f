-------------------------- MODULE MCLeaseMigration --------------------------
(***************************************************************************)
(* Instances of LeaseMigration for TLC.                                    *)
(***************************************************************************)
EXTENDS LeaseMigration, TLC

Symmetry == Permutations(Procs)
=============================================================================
