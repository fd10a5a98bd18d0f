---------------------------- MODULE MCClientSave ----------------------------
(***************************************************************************)
(* Instances of ClientSave.                                                *)
(***************************************************************************)
EXTENDS ClientSave, TLC

CONSTANTS c1, c2, layers, ruleSets

Symmetry == Permutations(Clients)

\* NothingOverwrittenInOrder speaks of these states only.
InOrderSoFar == behind = {}
=============================================================================
