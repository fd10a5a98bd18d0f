---------------------------- MODULE MCConfigIds ----------------------------
(* A range with one usable number, 20 being a multiple of Thousand, and one  *)
(* with two: the second reservation finds the first range exhausted.         *)
EXTENDS ConfigIds, TLC

CONSTANTS m1, m2, x1

MCPartOf == (m1 :> "rod") @@ (m2 :> "rod")
MCRefOf == x1 :> "main"
Small == [id |-> "small", part |-> "rod", low |-> 19, high |-> 20]
More == [id |-> "more", part |-> "rod", low |-> 31, high |-> 32]
MCOffers == {<<Small, More>>}

Symmetry == Permutations(Models) \cup Permutations(Keys) \cup Permutations(Tasks)
            \cup Permutations(Names)
=============================================================================
