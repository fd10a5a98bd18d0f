----------------------------- MODULE RuleGraph -----------------------------
(***************************************************************************)
(* A batch of rows driven through a rule graph (lib/workflow.ts) from the  *)
(* page that shows it (app/RuleGraphStudio.tsx).                           *)
(*                                                                         *)
(* A graph is a DAG of nodes that load, change, divide, freeze for review  *)
(* or pass on the rows they receive.  A node becomes ready when everything *)
(* before it has ended; the scheduler runs ready nodes that need no hand,  *)
(* and stops at a review.  A node started by hand is marked at once and    *)
(* executed by a timer a moment later.  Rows are shared: a node changes    *)
(* them in place, a review changes a copy that replaces them on approval.  *)
(*                                                                         *)
(* What a row's values are is abstracted to their history: the sequence of *)
(* what was done to them since a baseline was loaded.                      *)
(***************************************************************************)
EXTENDS Naturals, FiniteSets, SequencesExt

CONSTANTS
    Nodes,      \* identifiers, numbers in the order in which nodes were added
    Rows,       \* rows of the batch, one per candidate
    Graphs,     \* the graphs a batch is started from
    Breaks,     \* sets of <<node, row>>: formulas that throw
    Hits,       \* rows that satisfy the conditions of a condition node
    Changing,   \* those of Graphs that are changed while a batch runs on them
    MaxEdits,   \* bound: how often such a graph is changed
    None

Kinds == {"baseline", "rule", "condition", "review", "plain"}
\* "hurried": a node was started by hand, or executed by its timer, while a review
\* waited; "reloaded": a timer was lost with the page; "redesigned": the graph was
\* changed.
Disturbances == {"hurried", "reloaded", "redesigned"}
Outcomes == {"always", "matched", "unmatched", "approved"}

\* A graph as it is stored: its parts are what they should be, but it may have
\* loops or lead nowhere.
IsGraph(g) ==
    /\ g \in [nodes : SUBSET Nodes, entry : Nodes, manual : SUBSET Nodes,
             kind : {g.kind}, edges : {g.edges}]
    /\ IsFiniteSet(g.nodes)
    /\ g.kind \in [DOMAIN g.kind -> Kinds] /\ g.nodes \subseteq DOMAIN g.kind
    /\ g.edges \in [DOMAIN g.edges -> Outcomes]

ASSUME GraphAssumption ==
    /\ Nodes \subseteq Nat
    /\ IsFiniteSet(Rows)
    /\ Hits \subseteq Rows
    /\ MaxEdits \in Nat
    /\ \A g \in Graphs : IsGraph(g)

VARIABLES
    graph,      \* the graph, as it is designed now
    run,        \* the batch: status, node states, rows, snapshots
    timers,     \* per node, how many timers will execute it
    broken,     \* the formulas that throw, an element of Breaks
    left,       \* changes of the graph that are left, out of MaxEdits
    disturbed   \* history: what has happened of Disturbances

vars == <<graph, run, timers, broken, left, disturbed>>

-----------------------------------------------------------------------------
(* Graphs                                                                  *)

\* Where the edges lead from a node or a set of nodes, in one step.
Targets(g, from) == {q \in g.nodes : \E p \in from : <<p, q>> \in DOMAIN g.edges}

\* n lies behind m: it is in every set of nodes that edges from m lead into and
\* no edge leads out of.
Leads(g, m, n) ==
    \A S \in SUBSET g.nodes : Targets(g, S \cup {m}) \subseteq S => n \in S

ValidateRuleGraph(g) ==
    /\ g.entry \in g.nodes
    /\ DOMAIN g.edges \subseteq g.nodes \X g.nodes
    /\ \A n \in g.nodes : ~Leads(g, n, n)

CanConnect(g, m, n) ==
    /\ m # n
    /\ <<m, n>> \notin DOMAIN g.edges
    /\ ~Leads(g, n, m)

Incoming(g, n) == {m \in Nodes : <<m, n>> \in DOMAIN g.edges}

-----------------------------------------------------------------------------
(* The batch                                                               *)

\* Mutant: a node that was skipped or has failed does not let others go on.
EndedWell(status) == status = "completed"

Ended(status) == status \in {"completed", "skipped", "failed"}

\* What the edges of a node carry, by outcome.
Output(all, hit, miss) ==
    [always |-> all, matched |-> hit, unmatched |-> miss, approved |-> all]

\* The elements of s that are in T, in their order.
Kept(s, T) ==
    LET upTo[i \in 0..Len(s)] ==
            IF i = 0 THEN <<>>
            ELSE IF s[i] \in T THEN Append(upTo[i - 1], s[i])
            ELSE upTo[i - 1]
    IN  upTo[Len(s)]

\* Appends without repeating what is there.
Merged(s, t) == s \o Kept(t, ToSet(t) \ ToSet(s))

Propagate(g, r, n, output) ==
    LET received(m) == IF <<n, m>> \in DOMAIN g.edges
                       THEN Merged(r.node[m].input, output[g.edges[<<n, m>>]])
                       ELSE r.node[m].input
    IN  [r EXCEPT !.node = [m \in DOMAIN r.node |->
            [r.node[m] EXCEPT !.input = received(m)]]]

\* Mutant: one branch is enough.
AnyPredecessorDone(g, r, n) ==
    \/ n = g.entry
    \/ \E m \in Incoming(g, n) : m \in DOMAIN r.node => Ended(r.node[m].status)

\* Nodes that wait for nothing any more.  A node the batch does not know has
\* nothing to wait for; a node without predecessors, other than the entry,
\* stays as it is.
PredecessorsDone(g, r, n) ==
    \/ n = g.entry
    \/ /\ Incoming(g, n) # {}
       /\ \A m \in Incoming(g, n) : m \in DOMAIN r.node => Ended(r.node[m].status)

Promotable(g, r) ==
    {n \in DOMAIN r.node : r.node[n].status = "pending" /\ PredecessorsDone(g, r, n)}

\* A node that nothing has reached is skipped.
PromoteOnce(g, r) ==
    LET after(n) == IF n \notin Promotable(g, r) THEN r.node[n].status
                    ELSE IF r.node[n].input = <<>> THEN "skipped" ELSE "ready"
    IN  [r EXCEPT !.node = [n \in DOMAIN r.node |->
            [r.node[n] EXCEPT !.status = after(n)]]]

\* Until no node is promotable: every round but the last promotes one.
Promote(g, r) ==
    LET round[i \in Nat] == IF i = 0 THEN r ELSE PromoteOnce(g, round[i - 1])
    IN  round[Cardinality(DOMAIN r.node)]

RunStatus(r) ==
    LET statuses == {r.node[n].status : n \in DOMAIN r.node} IN
    IF "waiting_review" \in statuses THEN "waiting_review"
    ELSE IF \A s \in statuses : Ended(s) THEN "completed"
    ELSE IF "running" \in statuses THEN "running"
    ELSE IF "ready" \in statuses THEN "paused"
    ELSE "ready"

RefreshReadiness(g, r) ==
    LET promoted == Promote(g, r)
    IN  [promoted EXCEPT !.status = RunStatus(promoted)]

\* A review freezes the rows it has received, those in `ids'; it replaces what it
\* had frozen before.
Freeze(r, n) ==
    LET ids  == r.node[n].input
        copy == [node |-> n, status |-> "waiting", ids |-> ids,
                 rows |-> [x \in Rows |-> IF x \in ToSet(ids) THEN r.rows[x] ELSE <<>>]]
        others == {s \in ToSet(r.snapshots) : s.node # n \/ s.status # "waiting"}
    IN  [r EXCEPT !.snapshots = Append(Kept(@, others), copy),
                  !.node[n].status = "waiting_review",
                  !.status = "waiting_review"]

\* What a node does to the values of a row.
Effect(kind, n, value) ==
    CASE kind = "baseline" -> <<>>
      [] kind = "rule"     -> Append(value, <<"rule", n>>)
      [] OTHER             -> value

\* The formulas of a rule may throw on a row.
Throws(g, n, x) == g.kind[n] = "rule" /\ <<n, x>> \in broken

\* The rows a node changes: all, or those before the first whose formula throws.
Reached(g, r, n) ==
    LET input == r.node[n].input
    IN  {input[i] : i \in {k \in DOMAIN input : \A j \in 1..k : ~Throws(g, n, input[j])}}

Changed(g, r, n) ==
    [r EXCEPT !.rows = [x \in Rows |->
        IF x \in Reached(g, r, n) THEN Effect(g.kind[n], n, r.rows[x]) ELSE r.rows[x]]]

Finish(g, r, n) ==
    LET all  == r.node[n].input
        hit  == IF g.kind[n] = "condition" THEN Kept(all, Hits) ELSE all
        miss == IF g.kind[n] = "condition" THEN Kept(all, Rows \ Hits) ELSE <<>>
    IN  Propagate(g, [r EXCEPT !.node[n].status = "completed",
                               !.node[n].output = all], n, Output(all, hit, miss))

\* Mutant: executes whatever the timer was set for.
MayExecuteAgain(g, r, n) ==
    /\ n \in g.nodes
    /\ n \in DOMAIN r.node

MayExecute(g, r, n) ==
    /\ n \in g.nodes
    /\ n \in DOMAIN r.node
    /\ r.node[n].status \in {"ready", "running"}

\* executeRuleGraphNode.  A node that fails leaves the rows it has reached
\* changed and sends nothing on.
Execute(g, r, n) ==
    IF ~MayExecute(g, r, n) THEN r
    ELSE IF g.kind[n] = "review" THEN Freeze(r, n)
    ELSE IF \E x \in ToSet(r.node[n].input) : Throws(g, n, x)
    THEN [Changed(g, r, n) EXCEPT !.node[n].status = "failed", !.status = "failed"]
    ELSE RefreshReadiness(g, Finish(g, Changed(g, r, n), n))

\* Ready nodes that start without a hand: `manual' holds every node of a graph
\* in manual mode, none in automatic mode, the marked ones in hybrid mode.
Automatic(g, r) ==
    {n \in DOMAIN r.node : r.node[n].status = "ready" /\ n \in g.nodes \ g.manual}

\* Mutant: does not stop at a review.
GoesOnPastReviews(g, r) == r.status # "failed" /\ Automatic(g, r) # {}

GoesOn(g, r) == r.status \notin {"waiting_review", "failed"} /\ Automatic(g, r) # {}

AdvanceOnce(g, r) == IF GoesOn(g, r) THEN Execute(g, r, Min(Automatic(g, r))) ELSE r

Advance(g, r) ==
    LET turn[i \in Nat] == IF i = 0 THEN r ELSE AdvanceOnce(g, turn[i - 1])
    IN  RefreshReadiness(g, turn[3 * Cardinality(g.nodes)])

\* createRuleGraphRun, before it advances.  Rows are taken in the order of the
\* candidates.
NewRun(g) ==
    LET start(n) == IF n = g.entry
                    THEN [status |-> "ready", input |-> SetToSeq(Rows), output |-> <<>>]
                    ELSE [status |-> "pending", input |-> <<>>, output |-> <<>>]
    IN  [status    |-> "ready",
         node      |-> [n \in g.nodes |-> start(n)],
         rows      |-> [x \in Rows |-> <<>>],
         snapshots |-> <<>>]

\* The snapshot the page shows: the latest that waits; 0 without one.
Waiting(r) == {i \in DOMAIN r.snapshots : r.snapshots[i].status = "waiting"}
Active(r) == IF Waiting(r) = {} THEN 0 ELSE Max(Waiting(r))

-----------------------------------------------------------------------------
(* The page                                                                *)

Init ==
    /\ graph \in Graphs
    /\ broken \in Breaks
    /\ run = None
    /\ timers = [n \in Nodes |-> 0]
    /\ left = (IF graph \in Changing THEN MaxEdits ELSE 0)
    /\ disturbed = {}

\* startRun: only a graph without issues can be started.
StartRun ==
    /\ run = None
    /\ ValidateRuleGraph(graph)
    /\ run' = Advance(graph, NewRun(graph))
    /\ UNCHANGED <<graph, timers, broken, left, disturbed>>

\* executeNode: marks the node and sets a timer.  A second click gets through
\* as long as the page still shows the node as ready.
ExecuteNode(n) ==
    /\ run # None
    /\ n \in graph.nodes \cap DOMAIN run.node
    /\ \/ run.node[n].status = "ready" /\ timers[n] = 0
       \/ run.node[n].status = "running" /\ timers[n] = 1
    /\ run' = IF run.node[n].status = "ready"
              THEN [run EXCEPT !.node[n].status = "running", !.status = "running"]
              ELSE run
    /\ timers' = [timers EXCEPT ![n] = @ + 1]
    /\ disturbed' = IF Active(run) # 0 THEN disturbed \cup {"hurried"} ELSE disturbed
    /\ UNCHANGED <<graph, broken, left>>

TakeTimer(n) ==
    /\ timers[n] > 0
    /\ timers' = [timers EXCEPT ![n] = @ - 1]

\* The timer of executeNode.
TimerFires(n) ==
    /\ run # None
    /\ TakeTimer(n)
    /\ run' = Advance(graph, Execute(graph, run, n))
    /\ disturbed' = IF Active(run) # 0 /\ MayExecute(graph, run, n)
                    THEN disturbed \cup {"hurried"} ELSE disturbed
    /\ UNCHANGED <<graph, broken, left>>

\* updateSnapshotValue: the reviewer changes a row of the snapshot on the page.
EditRow(x) ==
    /\ run # None
    /\ LET i == Active(run) IN
        /\ i # 0
        /\ x \in ToSet(run.snapshots[i].ids)
        /\ LET edit == <<"edit", run.snapshots[i].node>> IN
            /\ edit \notin ToSet(run.snapshots[i].rows[x])
            /\ run' = [run EXCEPT !.snapshots[i].rows[x] = Append(@, edit)]
    /\ UNCHANGED <<graph, timers, broken, left, disturbed>>

\* The frozen rows replace the rows of the batch and go on.
Approve(g, r, i) ==
    LET snap == r.snapshots[i]
        approved ==
            [r EXCEPT !.rows = [x \in Rows |-> IF x \in ToSet(snap.ids)
                                              THEN snap.rows[x] ELSE r.rows[x]],
                      !.snapshots[i].status = "approved",
                      !.node[snap.node].status = "completed",
                      !.node[snap.node].output = snap.ids]
    IN  Propagate(g, approved, snap.node, Output(snap.ids, snap.ids, <<>>))

\* approveReviewSnapshot.
ApproveSnapshot ==
    /\ run # None
    /\ LET i == Active(run) IN
        /\ i # 0
        /\ run.snapshots[i].node \in graph.nodes
        /\ run' = Advance(graph, RefreshReadiness(graph, Approve(graph, run, i)))
    /\ UNCHANGED <<graph, timers, broken, left, disturbed>>

\* The page is reloaded: the batch is part of the workspace, timers are not.
Reload ==
    /\ \E n \in Nodes : timers[n] > 0
    /\ timers' = [n \in Nodes |-> 0]
    /\ disturbed' = disturbed \cup {"reloaded"}
    /\ UNCHANGED <<graph, run, broken, left>>

-----------------------------------------------------------------------------
(* The designer works on the graph the batch is running on.                *)

CanDesign == run # None /\ left > 0

Redesign(g) ==
    /\ left' = left - 1
    /\ graph' = g
    /\ disturbed' = disturbed \cup {"redesigned"}
    /\ UNCHANGED <<run, timers, broken>>

\* A function that has the value v at x.
With(f, x, v) == [y \in DOMAIN f \cup {x} |-> IF y = x THEN v ELSE f[y]]

AddNode ==
    /\ CanDesign
    /\ \E n \in Nodes :
        /\ n \notin graph.nodes \cup DOMAIN run.node
        /\ Redesign([graph EXCEPT !.nodes = @ \cup {n}, !.manual = @ \cup {n},
                                  !.kind = With(@, n, "rule")])

UpdateNode ==
    /\ CanDesign
    /\ \E n \in graph.nodes, k \in Kinds : \E m \in {graph.manual \cup {n}, graph.manual \ {n}} :
        /\ <<k, m>> # <<graph.kind[n], graph.manual>>
        /\ Redesign([graph EXCEPT !.kind[n] = k, !.manual = m])

\* The execution mode of the whole graph.
SetMode ==
    /\ CanDesign
    /\ \E m \in {{}, graph.nodes} :
        /\ m # graph.manual
        /\ Redesign([graph EXCEPT !.manual = m])

AddEdge ==
    /\ CanDesign
    /\ \E m, n \in graph.nodes, outcome \in Outcomes :
        /\ CanConnect(graph, m, n)
        /\ Redesign([graph EXCEPT !.edges = With(@, <<m, n>>, outcome)])

\* The edges left when those in `gone' are removed.
Without(edges, gone) == [e \in DOMAIN edges \ gone |-> edges[e]]

RemoveEdge ==
    /\ CanDesign
    /\ \E e \in DOMAIN graph.edges :
        Redesign([graph EXCEPT !.edges = Without(@, {e})])

\* The button that removes a node is disabled for the last one; the first of
\* those that remain becomes the entry.
RemoveNode ==
    /\ CanDesign
    /\ \E n \in graph.nodes :
        LET rest == graph.nodes \ {n} IN
        /\ rest # {}
        /\ Redesign([graph EXCEPT !.nodes = rest, !.manual = @ \ {n},
                                  !.edges = Without(@, {e \in DOMAIN @ : n \in {e[1], e[2]}}),
                                  !.entry = IF @ = n THEN Min(rest) ELSE @])

Next ==
    \/ StartRun
    \/ \E n \in Nodes : ExecuteNode(n) \/ TimerFires(n)
    \/ \E x \in Rows : EditRow(x)
    \/ ApproveSnapshot
    \/ Reload
    \/ AddNode \/ UpdateNode \/ SetMode \/ AddEdge \/ RemoveEdge \/ RemoveNode

\* Ready nodes are started in the end, and a timer fires unless it is lost with
\* the page.  Nobody has to approve a review.
Fairness ==
    \A n \in Nodes : WF_vars(ExecuteNode(n)) /\ WF_timers(TakeTimer(n))

Spec == Init /\ [][Next]_vars
FairSpec == Spec /\ Fairness

-----------------------------------------------------------------------------
(* Properties                                                              *)

NodeStates ==
    [status : {"pending", "ready", "running", "waiting_review", "completed",
               "failed", "skipped"},
     input : Seq(Rows), output : Seq(Rows)]

Marks == {"rule", "edit"} \X Nodes

Snapshots ==
    [node : Nodes, status : {"waiting", "approved"}, ids : Seq(Rows),
     rows : [Rows -> Seq(Marks)]]

\* The batches that know the given nodes.
RunsOn(known) ==
    [status : {"ready", "running", "waiting_review", "paused", "completed", "failed"},
     node : [known -> NodeStates],
     rows : [Rows -> Seq(Marks)],
     snapshots : Seq(Snapshots)]

TypeOK ==
    /\ IsGraph(graph)
    /\ broken \in Breaks
    /\ timers \in [Nodes -> 0..2]
    /\ left \in 0..MaxEdits
    /\ disturbed \subseteq Disturbances
    /\ run # None =>
        /\ DOMAIN run.node \subseteq Nodes
        /\ IsFiniteSet(DOMAIN run.node)
        /\ run \in RunsOn(DOMAIN run.node)

Started == run # None

\* A batch on a graph that nobody has changed under it.
Undisturbed == Started /\ "redesigned" \notin disturbed

\* No node changes a row twice, and no edit of a review is made twice, however
\* often the button was clicked, whatever was reloaded and however the graph
\* was changed meanwhile (executeRuleGraphNode, the status it asks for).
AppliedOnce ==
    Started => \A x \in Rows : IsInjective(run.rows[x])

RowsInOrder ==
    \A x \in Rows : \A i, j \in DOMAIN run.rows[x] :
        i < j => ~Leads(graph, run.rows[x][j][2], run.rows[x][i][2])

NoRowLate ==
    \A n \in DOMAIN run.node :
        /\ run.node[n].status = "completed" =>
                ToSet(run.node[n].input) = ToSet(run.node[n].output)
        /\ run.node[n].status = "skipped" => run.node[n].input = <<>>

\* Rows follow the graph, however its branches take turns: what leads to a node
\* has been done to a row before the node changes it, and no row reaches a node
\* that has been executed or skipped already, where it would never be processed
\* (refreshReadiness, propagate).
RowsFollowTheGraph == Undisturbed => RowsInOrder /\ NoRowLate

\* Edits the reviewers have made in snapshots that were approved.
ApprovedEdits(x) ==
    {e \in {"edit"} \X Nodes :
        \E i \in DOMAIN run.snapshots :
            LET snap == run.snapshots[i] IN
            snap.status = "approved" /\ e \in ToSet(snap.rows[x])}

\* What the completed rule nodes have done to a row.
RulesDone(x) ==
    {e \in {"rule"} \X DOMAIN run.node :
        /\ e[2] \in graph.nodes /\ graph.kind[e[2]] = "rule"
        /\ run.node[e[2]].status = "completed"
        /\ x \in ToSet(run.node[e[2]].output)}

\* Only the entry loads a baseline; a later one would wipe out what it finds.
BaselineFirst == \A n \in graph.nodes : graph.kind[n] = "baseline" => n = graph.entry

\* As long as nobody starts a node by hand while a review waits, no branch undoes
\* another: a row bears the effect of every rule that has processed it and every
\* edit that was approved (approveReviewSnapshot replaces whole rows by copies
\* taken earlier).
NothingUndone ==
    Undisturbed /\ "hurried" \notin disturbed /\ BaselineFirst =>
        \A x \in Rows : ApprovedEdits(x) \cup RulesDone(x) \subseteq ToSet(run.rows[x])

Connected == \A n \in graph.nodes \ {graph.entry} : Incoming(graph, n) # {}
AllEnded ==
    \A n \in DOMAIN run.node : run.node[n].status \in {"completed", "skipped", "failed"}

\* A batch ends or waits for a reviewer: whatever branches, fails or is skipped, no
\* node of a connected graph is left waiting for what will not come, unless the
\* page was reloaded under a timer or the graph was changed.
BatchProceeds ==
    (Started /\ Connected) ~>
        (Started /\ \/ AllEnded
                    \/ Active(run) # 0
                    \/ {"reloaded", "redesigned"} \cap disturbed # {})
=============================================================================
