--------------------------- MODULE MCExportCommit ---------------------------
(***************************************************************************)
(* Instances of ExportCommit for TLC.                                      *)
(***************************************************************************)
EXTENDS ExportCommit, TLC

Symmetry == Permutations(Calls) \cup Permutations(Packages)
=============================================================================
