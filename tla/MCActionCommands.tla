-------------------------- MODULE MCActionCommands --------------------------
(***************************************************************************)
(* Instances of ActionCommands for TLC.  Symmetry is used in safety runs    *)
(* only, over the sets whose members the instance treats alike.             *)
(***************************************************************************)
EXTENDS ActionCommands, TLC

AllSymmetry == Permutations(Procs) \cup Permutations(Keys)
                  \cup Permutations(Bodies)

KeySymmetry == Permutations(Keys)
=============================================================================
