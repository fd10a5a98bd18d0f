---------------------------- MODULE MCRuleGraph ----------------------------
(***************************************************************************)
(* Instances of RuleGraph.  Node 1 loads the baseline; what follows is any *)
(* DAG of three nodes, in any order in the list of nodes.                  *)
(***************************************************************************)
EXTENDS RuleGraph, TLC

CONSTANTS r1, r2

OneBreak == {{}, {<<2, r2>>}}

Inner == {2, 3, 4}
Batch == 1..4

\* Edges of a condition lead on by outcome, the lowest target gets the hits.
Outcome(kind, pairs, e) ==
    IF e[1] = 1 \/ kind[e[1]] # "condition" THEN "always"
    ELSE IF \A f \in pairs : f[1] = e[1] => e[2] <= f[2] THEN "matched"
    ELSE "unmatched"

Design(kind, pairs, manual) ==
    [nodes |-> Batch, entry |-> 1, manual |-> manual,
     kind  |-> [n \in Batch |-> IF n = 1 THEN "baseline" ELSE kind[n]],
     edges |-> [e \in pairs |-> Outcome(kind, pairs, e)]]

\* Every inner node has a predecessor; the list of nodes is in the order of the
\* edges, or in the opposite order.
Dags ==
    {pairs \in SUBSET ((Batch \X Inner) \ {<<n, n>> : n \in Inner}) :
        /\ \A n \in Inner : \E m \in Batch : <<m, n>> \in pairs
        /\ \/ \A e \in pairs : e[1] < e[2]
           \/ \A e \in pairs : e[1] = 1 \/ e[1] > e[2]}

InnerKinds == [Inner -> {"rule", "condition", "review"}]
Diamond == {<<1, 2>>, <<1, 3>>, <<2, 4>>, <<3, 4>>}

\* At most one node is started by hand, or all are in two branches that join.
Designs ==
    {Design(kind, pairs, manual) :
        kind \in InnerKinds, pairs \in Dags, manual \in {{}, {2}}}
        \cup {Design(kind, Diamond, Inner) : kind \in InnerKinds}

\* Two branches that join: one divides or adjusts, the other is reviewed.
Redesigned ==
    {Design(kind, Diamond, manual) :
        kind \in {[n \in Inner |-> IF n = 2 THEN k ELSE IF n = 3 THEN "review" ELSE "rule"] :
                    k \in {"rule", "condition"}},
        manual \in {{3}, Inner}}

\* After one node started by hand a review and a rule are ready; another node
\* waits for a hand meanwhile.
Hurried ==
    {[nodes |-> Nodes, entry |-> 1, manual |-> {2, 5},
      kind  |-> [n \in Nodes |-> IF n = 1 THEN "baseline"
                                ELSE IF n = 3 THEN "review" ELSE "rule"],
      edges |-> [e \in {<<1, 2>>, <<1, 5>>, <<2, 3>>, <<2, 4>>} |-> "always"]]}

AllDesigns == Designs \cup Redesigned \cup Hurried
=============================================================================
