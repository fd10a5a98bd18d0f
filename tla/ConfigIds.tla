----------------------------- MODULE ConfigIds -----------------------------
(***************************************************************************)
(* The numbers under which models enter the game's configuration: the      *)
(* target catalog, the approved scans of the target repositories and the   *)
(* policy with its ranges of numbers, and the reservation of a number for  *)
(* a model, which several requests may attempt at the same time.           *)
(*                                                                         *)
(*   rev      revision of the workspace                                    *)
(*   ws       the workspace: number of catalogs published, manifests,      *)
(*            policies (the last one is in force), cursor of each range,   *)
(*            ledger, done (reservationIdempotency), models                *)
(*   lease    what the coordinator of the target repositories knows of     *)
(*            its last lease                                               *)
(*   tokens   fencing tokens the coordinator has granted                   *)
(*   head     the commit each physical ref is at                           *)
(*   task[t]  a call of reserveConfigIdBundlePersisted                     *)
(*   answers  history: for which command key which model was told which    *)
(*            number                                                       *)
(*                                                                         *)
(* The key of a command stands for its idempotency key and its operation.  *)
(* The coordinator and the adapter that commits a reservation are ports of *)
(* the code, used as their contracts say; neither is part of it.           *)
(***************************************************************************)
EXTENDS Integers, Sequences, FiniteSets

CONSTANTS
    Models, Keys, Tasks, Names,
    PartOf,       \* the part of each model
    Targets,      \* entries of the target catalog, all required
    RefOf,        \* the physical ref of each target
    Offers,       \* the sequences of ranges a policy may declare
    Thousand,     \* 1000: its multiples are reserved
    Attempts,     \* maximumAttempts
    MaxRevision,  \* bound: revisions of the workspace
    MaxPapers,    \* bound: catalogs, manifests and policies
    MaxToken,     \* bound: leases granted
    MaxMoves,     \* bound: the highest commit of a ref
    None

VARIABLES rev, ws, lease, tokens, head, task, answers

vars == <<rev, ws, lease, tokens, head, task, answers>>

Refs == {RefOf[t] : t \in Targets}
Ranges == UNION {{offer[i] : i \in DOMAIN offer} : offer \in Offers}
RangeIds(ranges) == {r.id : r \in ranges}
In(sequence) == {sequence[i] : i \in DOMAIN sequence}

ASSUME ConfigIdsAssumption ==
    /\ RefOf \in [Targets -> Refs]
    /\ DOMAIN PartOf = Models
    /\ \A offer \in Offers : offer \in Seq(In(offer))
    /\ \A r \in Ranges : r.low \in Nat /\ r.high \in Nat
    /\ Thousand \in Nat \ {0}
    /\ Attempts \in Nat \ {0}
    /\ MaxRevision \in Nat /\ MaxPapers \in Nat
    /\ MaxToken \in Nat /\ MaxMoves \in Nat

Idle == [pc |-> "idle", cmd |-> None, attempt |-> 0, observed |-> None,
         checkpoint |-> None, base |-> 0, loaded |-> None]

Init ==
    /\ rev = 0
    /\ \E name \in [Models -> Names] :
         ws = [catalog |-> 0, manifests |-> << >>, policies |-> << >>,
               cursor |-> [r \in RangeIds(Ranges) |-> None],
               ledger |-> << >>,
               done |-> [k \in Keys |-> None],
               model |-> [m \in Models |->
                           [revision |-> 0, name |-> name[m], bundled |-> FALSE]]]
    /\ lease = None
    /\ tokens = 0
    /\ head = [r \in Refs |-> 0]
    /\ task = [t \in Tasks |-> Idle]
    /\ answers = {}

Save(new) ==
    /\ rev < MaxRevision
    /\ rev' = rev + 1
    /\ ws' = new

-----------------------------------------------------------------------------
(* Catalog, scans and policy.                                                *)

Publish(new) ==
    /\ ws.catalog + Len(ws.manifests) + Len(ws.policies) < MaxPapers
    /\ Save(new)
    /\ UNCHANGED <<lease, tokens, head, task, answers>>

PublishCatalog == Publish([ws EXCEPT !.catalog = @ + 1])

\* A scan may be older than the ref is now, and may have verified any ranges.
ApproveManifest(t, oid, verified) ==
    /\ ws.catalog > 0
    /\ Publish([ws EXCEPT !.manifests = Append(@,
         [catalog |-> ws.catalog, target |-> t, oid |-> oid, verified |-> verified])])

ManifestsOf(w, policy) == {w.manifests[i] : i \in policy.manifests}

\* policyManifests: of the published catalog, one for every target.
Covers(w, policy) ==
    /\ policy.manifests # {}
    /\ policy.catalog = w.catalog
    /\ policy.manifests \subseteq DOMAIN w.manifests
    /\ \A i \in policy.manifests : w.manifests[i].catalog = policy.catalog
    /\ \A t \in Targets : \E i \in policy.manifests : w.manifests[i].target = t
    /\ \A i, j \in policy.manifests : w.manifests[i].target = w.manifests[j].target => i = j

\* verifyConfigTargetManifestFreshness: as approved, aliases of a ref agree.
Fresh(w, policy, observed) ==
    /\ Covers(w, policy)
    /\ \A m \in ManifestsOf(w, policy) : observed[RefOf[m.target]] = m.oid

\* The least power of ten above n: deriveConfigIds puts digits before it.
Powers == {10, 100, 1000, 10000}
Magnitude(n) == CHOOSE p \in Powers : n < p /\ \A q \in Powers : n < q => p <= q
GoodsBasic(n) == 10 * Magnitude(n) + n
StoreBuy(n) == 30 * Magnitude(n) + n
Ids(n) == {n, GoodsBasic(n), StoreBuy(n)}

Intervals(r) ==
    {<<r.low, r.high>>, <<GoodsBasic(r.low), GoodsBasic(r.high)>>,
     <<StoreBuy(r.low), StoreBuy(r.high)>>}

Overlap(r, s) == \E x \in Intervals(r), y \in Intervals(s) : x[1] <= y[2] /\ y[1] <= x[2]

Declared(policies) == UNION {In(policies[i].ranges) : i \in DOMAIN policies}

\* assertRangeDefinitions
RangesAllowed(ranges) ==
    LET known == Declared(ws.policies)
        now == In(ranges)
        inForce == IF ws.policies = << >> THEN {} ELSE In(ws.policies[Len(ws.policies)].ranges)
    IN
    /\ ranges # << >>
    /\ \A i, j \in DOMAIN ranges : ranges[i].id = ranges[j].id => i = j
    /\ RangeIds(inForce) \subseteq RangeIds(now)
    /\ \A r \in now : r.low <= r.high
    /\ \A r \in now, s \in known : r.id = s.id => r = s
    /\ \A r, s \in known \cup now : r.id # s.id => ~Overlap(r, s)

PublishPolicy(chosen, ranges, observed) ==
    LET policy == [catalog |-> ws.catalog, manifests |-> chosen, ranges |-> ranges] IN
    /\ RangesAllowed(ranges)
    /\ Fresh(ws, policy, observed)
    /\ \A m \in ManifestsOf(ws, policy) : m.verified = RangeIds(In(ranges))
    /\ Publish([ws EXCEPT !.policies = Append(@, policy)])

\* A number is abandoned or deprecated, never given back.
Transition(i, status) ==
    /\ ws.ledger[i].status = "RESERVED"
    /\ Save([ws EXCEPT !.ledger[i].status = status])
    /\ UNCHANGED <<lease, tokens, head, task, answers>>

\* Any other save: what a reservation has frozen stays.
EditModel(m, name) ==
    /\ ws.model[m].bundled => name = ws.model[m].name
    /\ Save([ws EXCEPT !.model[m] = [revision |-> @.revision + 1, name |-> name,
                                   bundled |-> @.bundled]])
    /\ UNCHANGED <<lease, tokens, head, task, answers>>

-----------------------------------------------------------------------------
(* The coordinator of the target repositories.  While one operation holds    *)
(* its lease, nobody else moves the refs.                                    *)

Live == lease # None /\ lease.live

Policy(w) == w.policies[Len(w.policies)]

\* An operation is at its commit point, bound to the policy in force.
Grant(k) ==
    /\ ~Live
    /\ tokens < MaxToken
    /\ ws.policies # << >>
    /\ tokens' = tokens + 1
    /\ lease' = [token |-> tokens + 1, key |-> k, catalog |-> Policy(ws).catalog,
                 manifests |-> Policy(ws).manifests, heads |-> head, live |-> TRUE]
    /\ UNCHANGED <<rev, ws, head, task, answers>>

Expire ==
    /\ Live
    /\ lease' = [lease EXCEPT !.live = FALSE]
    /\ UNCHANGED <<rev, ws, tokens, head, task, answers>>

Move(r) ==
    /\ ~Live
    /\ head[r] < MaxMoves
    /\ head' = [head EXCEPT ![r] = @ + 1]
    /\ UNCHANGED <<rev, ws, lease, tokens, task, answers>>

-----------------------------------------------------------------------------
(* reserveConfigIdBundle: what it answers and what it writes.                *)

\* The key was used, and for this very command.
Replays(w, c) == w.done[c.key] # None /\ w.done[c.key].cmd = c

\* The command was made for the policy in force and the model as it is.
Current(w, c) ==
    /\ w.done[c.key] = None
    /\ w.policies # << >> /\ c.policy = Len(w.policies)
    /\ c.revision = w.model[c.model].revision
    /\ c.name = w.model[c.model].name

EntryOf(w, m) == CHOOSE i \in DOMAIN w.ledger : w.ledger[i].model = m

\* assertSerializationCheckpoint
Serialized(w, c, checkpoint) ==
    /\ checkpoint # None
    /\ checkpoint.live
    /\ checkpoint.key = c.key
    /\ checkpoint.catalog = Policy(w).catalog
    /\ checkpoint.manifests = Policy(w).manifests
    /\ \A m \in ManifestsOf(w, Policy(w)) : checkpoint.heads[RefOf[m.target]] = m.oid

Occupied(w) == UNION {Ids(e.number) : e \in In(w.ledger)}

From(w, r) ==
    IF w.cursor[r.id] = None \/ w.cursor[r.id] + 1 < r.low THEN r.low ELSE w.cursor[r.id] + 1

Free(w, r) ==
    {n \in From(w, r)..r.high : n % Thousand # 0 /\ Ids(n) \cap Occupied(w) = {}}

\* n is nextBaseId of the first range of the part that has one left.
FirstFree(w, c, r, n) ==
    LET ranges == Policy(w).ranges IN
    \E i \in DOMAIN ranges :
        /\ r = ranges[i] /\ r.part = PartOf[c.model]
        /\ n \in Free(w, r) /\ \A other \in Free(w, r) : n <= other
        /\ \A j \in 1..(i - 1) : ranges[j].part = PartOf[c.model] => Free(w, ranges[j]) = {}

\* Mutant: the names in the ledger are not compared.
NameFreeAlways(w, c) == TRUE

\* assertNameAndModelUniqueness
NameFree(w, c) ==
    \A e \in In(w.ledger) :
        e.model # c.model /\ PartOf[e.model] = PartOf[c.model] => e.name # c.name

Existing(w, c) == Current(w, c) /\ w.model[c.model].bundled

Reservable(w, c, observed, checkpoint, r, n) ==
    /\ Current(w, c)
    /\ ~w.model[c.model].bundled
    /\ Fresh(w, Policy(w), observed)
    /\ Serialized(w, c, checkpoint)
    /\ FirstFree(w, c, r, n)
    /\ NameFree(w, c)

Possible(w, c, observed, checkpoint) ==
    \E r \in Ranges : \E n \in r.low..r.high : Reservable(w, c, observed, checkpoint, r, n)

Reserved(w, c, checkpoint, r, n) ==
    [w EXCEPT
       !.cursor[r.id] = n,
       !.ledger = Append(@, [model |-> c.model, name |-> c.name, number |-> n, range |-> r.id,
                             token |-> checkpoint.token, status |-> "RESERVED"]),
       !.done[c.key] = [cmd |-> c, number |-> n],
       !.model[c.model] = [revision |-> @.revision + 1, name |-> @.name, bundled |-> TRUE]]

-----------------------------------------------------------------------------
(* reserveConfigIdBundlePersisted.                                           *)

\* The task ends and its caller is told the number.
Answer(t, c, n) ==
    /\ task' = [task EXCEPT ![t] = Idle]
    /\ answers' = answers \cup {[key |-> c.key, model |-> c.model, number |-> n]}

Refuse(t) == task' = [task EXCEPT ![t] = Idle] /\ UNCHANGED answers

\* The workspace is loaded and the reservation tried on it.  Without a lease,
\* a fresh scan or a free number and name it is refused.
Preview(t, c, attempt, observed, checkpoint) ==
    \/ /\ Replays(ws, c)
       /\ Answer(t, c, ws.done[c.key].number)
    \/ /\ Existing(ws, c)
       /\ Answer(t, c, ws.ledger[EntryOf(ws, c.model)].number)
    \/ /\ Possible(ws, c, observed, checkpoint)
       /\ task' = [task EXCEPT ![t] =
            [pc |-> "commit", cmd |-> c, attempt |-> attempt, observed |-> observed,
             checkpoint |-> checkpoint, base |-> rev, loaded |-> ws]]
       /\ UNCHANGED answers

\* A request comes in with what its caller has observed and the lease it
\* holds; the command may be older than the workspace.  A request that is
\* refused at once changes nothing and is no step.
Ask(t, c) ==
    /\ task[t].pc = "idle"
    /\ Preview(t, c, 1, head, lease)
    /\ UNCHANGED <<rev, ws, lease, tokens, head>>

\* The next attempt, with the observations and the lease of the first.
Reload(t) ==
    LET c == task[t].cmd
        another == task[t].attempt + 1
    IN
    /\ task[t].pc = "load"
    /\ \/ Preview(t, c, another, task[t].observed, task[t].checkpoint)
       \/ /\ ~Replays(ws, c) /\ ~Existing(ws, c)
          /\ ~Possible(ws, c, task[t].observed, task[t].checkpoint)
          /\ Refuse(t)
    /\ UNCHANGED <<rev, ws, lease, tokens, head>>

\* Mutant: the revision is not compared.
NeverConflicts(t) == FALSE

Conflict(t) == task[t].base # rev

\* The adapter answers conflict; after the last attempt the caller is told.
Again(t) ==
    /\ task[t].pc = "commit"
    /\ Conflict(t)
    /\ IF task[t].attempt < Attempts
       THEN task' = [task EXCEPT ![t].pc = "load", ![t].base = 0, ![t].loaded = None]
       ELSE task' = [task EXCEPT ![t] = Idle]
    /\ UNCHANGED <<rev, ws, lease, tokens, head, answers>>

\* Mutant: the caller's own proof is taken for the coordinator's.
VerifiedByCaller(t) == task[t].checkpoint

\* What the coordinator says at the commit point, if it is the caller's lease.
Verified(t) ==
    IF lease # None /\ [lease EXCEPT !.live = TRUE] = task[t].checkpoint THEN lease ELSE None

\* In one transaction: revision compared, lease verified, number written.
Commit(t) ==
    LET c == task[t].cmd IN
    /\ task[t].pc = "commit"
    /\ ~Conflict(t)
    /\ \E r \in Ranges : \E n \in r.low..r.high :
         /\ Reservable(task[t].loaded, c, task[t].observed, Verified(t), r, n)
         /\ Save(Reserved(task[t].loaded, c, Verified(t), r, n))
         /\ Answer(t, c, n)
    /\ UNCHANGED <<lease, tokens, head>>

CommitRefused(t) ==
    /\ task[t].pc = "commit"
    /\ ~Conflict(t)
    /\ ~Possible(task[t].loaded, task[t].cmd, task[t].observed, Verified(t))
    /\ Refuse(t)
    /\ UNCHANGED <<rev, ws, lease, tokens, head>>

\* The process is gone; what was committed stays.
Crash(t) ==
    /\ task[t].pc # "idle"
    /\ Refuse(t)
    /\ UNCHANGED <<rev, ws, lease, tokens, head>>

-----------------------------------------------------------------------------
Observed == {seen \in [Refs -> 0..MaxMoves] : \A r \in Refs : seen[r] <= head[r]}

GovernanceNext ==
    \/ PublishCatalog
    \/ \E t \in Targets, verified \in {RangeIds(In(offer)) : offer \in Offers} :
         \E oid \in 0..head[RefOf[t]] : ApproveManifest(t, oid, verified)
    \/ \E chosen \in SUBSET DOMAIN ws.manifests, ranges \in Offers, observed \in Observed :
         PublishPolicy(chosen, ranges, observed)
    \/ \E i \in DOMAIN ws.ledger, status \in {"ABANDONED", "DEPRECATED"} : Transition(i, status)
    \/ \E m \in Models, name \in Names : EditModel(m, name)

CoordinatorNext ==
    \/ \E k \in Keys : Grant(k)
    \/ Expire
    \/ \E r \in Refs : Move(r)

AskNext(t) ==
    \E k \in Keys, m \in Models, name \in Names, policy \in DOMAIN ws.policies :
    \E revision \in 0..ws.model[m].revision :
        Ask(t, [key |-> k, model |-> m, revision |-> revision, name |-> name, policy |-> policy])

TaskNext(t) ==
    AskNext(t) \/ Reload(t) \/ Again(t) \/ Commit(t) \/ CommitRefused(t) \/ Crash(t)

Next ==
    \/ GovernanceNext
    \/ CoordinatorNext
    \/ \E t \in Tasks : TaskNext(t)

Spec == Init /\ [][Next]_vars

-----------------------------------------------------------------------------
(* Properties.                                                               *)

Statuses == {"RESERVED", "ABANDONED", "DEPRECATED"}
Command == [key: Keys, model: Models, revision: Nat, name: Names, policy: Nat]
Entry == [model: Models, name: Names, number: Nat, range: RangeIds(Ranges), token: Nat,
          status: Statuses]
Manifest == [catalog: Nat, target: Targets, oid: Nat, verified: SUBSET RangeIds(Ranges)]
PolicyVersion == [catalog: Nat, manifests: SUBSET Nat, ranges: Offers]
Workspace ==
    [catalog: Nat,
     manifests: Seq(Manifest),
     policies: Seq(PolicyVersion),
     cursor: [RangeIds(Ranges) -> Nat \cup {None}],
     ledger: Seq(Entry),
     done: [Keys -> [cmd: Command, number: Nat] \cup {None}],
     model: [Models -> [revision: Nat, name: Names, bundled: BOOLEAN]]]
Lease == [token: Nat, key: Keys, catalog: Nat, manifests: SUBSET Nat, heads: [Refs -> Nat],
          live: BOOLEAN]
Task == [pc: {"idle", "load", "commit"}, cmd: Command \cup {None}, attempt: Nat,
         observed: [Refs -> Nat] \cup {None}, checkpoint: Lease \cup {None}, base: Nat,
         loaded: Workspace \cup {None}]

TypeOK ==
    /\ rev \in Nat
    /\ ws \in Workspace
    /\ lease \in Lease \cup {None}
    /\ tokens \in Nat
    /\ head \in [Refs -> Nat]
    /\ task \in [Tasks -> Task]
    /\ \A t \in Tasks : task[t].pc # "idle" => task[t].cmd \in Command
    /\ answers \in SUBSET [key: Keys, model: Models, number: Nat]

\* Every model has at most one number, every name of a part one model, and no
\* identifier of one number is an identifier of another, whatever is published,
\* abandoned, deprecated or renamed in between, and whoever reserves at once.
LedgerIsOneToOne ==
    \A i, j \in DOMAIN ws.ledger :
        LET a == ws.ledger[i]
            b == ws.ledger[j]
        IN i # j =>
             /\ a.model # b.model
             /\ PartOf[a.model] = PartOf[b.model] => a.name # b.name
             /\ Ids(a.number) \cap Ids(b.number) = {}

\* A caller that was told a number can rely on it: the ledger has it, for that
\* model, from then on, also after conflicts, repeated requests and crashes.
AnswersAreRecorded ==
    \A a \in answers :
        \E i \in DOMAIN ws.ledger : ws.ledger[i].model = a.model /\ ws.ledger[i].number = a.number

\* assertFrozenConfigIdentityTransition, demanded of every step: a reserved
\* model keeps its number and its name, a ledger entry its place and identity.
FrozenKept(old, new) ==
    /\ \A m \in Models : old.model[m].bundled =>
         new.model[m].bundled /\ new.model[m].name = old.model[m].name
    /\ \A i \in DOMAIN old.ledger :
         /\ i \in DOMAIN new.ledger
         /\ [new.ledger[i] EXCEPT !.status = old.ledger[i].status] = old.ledger[i]

\* No step, in particular no reservation that was begun on an older workspace,
\* takes back, renames or hands on what an earlier step has reserved.
IdentityFrozen == [][FrozenKept(ws, ws')]_vars

\* A number enters the ledger only under the lease that is live at that moment
\* and with its token, while the repositories are at the commits the policy's
\* scans were approved for; and tokens never fall along the ledger.
AllocatedUnderLease ==
    [][LET grown == ws'.ledger[Len(ws'.ledger)] IN
       Len(ws'.ledger) > Len(ws.ledger) =>
         /\ Live /\ grown.token = lease.token
         /\ \A m \in ManifestsOf(ws, Policy(ws)) : head[RefOf[m.target]] = m.oid
         /\ \A e \in In(ws.ledger) : e.token <= grown.token]_vars

=============================================================================
