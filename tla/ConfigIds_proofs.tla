-------------------------- MODULE ConfigIds_proofs --------------------------
(***************************************************************************)
(* Numbers and names are never shared or taken back, answers are in the    *)
(* ledger, and nothing is allocated without the live lease: for any number *)
(* of models, keys, requests, ranges, targets, attempts, revisions, leases *)
(* and commits.                                                            *)
(***************************************************************************)
EXTENDS ConfigIds, SequenceTheorems, TLAPS

-----------------------------------------------------------------------------
(* The invariant.                                                            *)

\* A reservation that will find its revision current was prepared on the
\* workspace as it is.
LoadedIsCurrent ==
    \A t \in Tasks : task[t].pc = "commit" =>
        task[t].base <= rev /\ (task[t].base = rev => task[t].loaded = ws)

\* A model is bundled exactly if the ledger has an entry of it.
BundledIsRecorded ==
    /\ \A i \in DOMAIN ws.ledger : ws.model[ws.ledger[i].model].bundled
    /\ \A m \in Models : ws.model[m].bundled =>
         \E i \in DOMAIN ws.ledger : ws.ledger[i].model = m

Recorded(model, number) ==
    \E i \in DOMAIN ws.ledger : ws.ledger[i].model = model /\ ws.ledger[i].number = number

\* What a repeated key is answered with is in the ledger.
DoneIsRecorded ==
    \A k \in Keys : ws.done[k] # None => Recorded(ws.done[k].cmd.model, ws.done[k].number)

\* The last lease has the highest token, and while it is live the refs are
\* where they were when it was granted.
LeaseIsLatest ==
    /\ \A i \in DOMAIN ws.ledger : ws.ledger[i].token <= tokens
    /\ lease # None => lease.token = tokens
    /\ Live => lease.heads = head

Sound ==
    /\ LoadedIsCurrent
    /\ BundledIsRecorded
    /\ DoneIsRecorded
    /\ LeaseIsLatest
    /\ LedgerIsOneToOne
    /\ AnswersAreRecorded

Inv == TypeOK /\ Sound

-----------------------------------------------------------------------------
(* Types.                                                                    *)

LEMMA RangesTyped ==
    ASSUME NEW r \in Ranges, NEW n \in r.low..r.high
    PROVE  n \in Nat /\ r.id \in RangeIds(Ranges)
BY ConfigIdsAssumption DEF RangeIds

\* What Save does to the revision.
LEMMA Saved ==
    ASSUME TypeOK, NEW new \in Workspace, Save(new)
    PROVE  rev' \in Nat /\ rev' = rev + 1 /\ ws' = new
BY DEF Save, TypeOK

LEMMA ReservedTyped ==
    ASSUME NEW w \in Workspace, NEW c \in Command, NEW p \in Lease,
           NEW r \in Ranges, NEW n \in Nat, r.id \in RangeIds(Ranges)
    PROVE  LET new == Reserved(w, c, p, r, n)
               entry == [model |-> c.model, name |-> c.name, number |-> n, range |-> r.id,
                         token |-> p.token, status |-> "RESERVED"]
           IN
           /\ entry \in Entry
           /\ new \in Workspace
           /\ new.ledger = Append(w.ledger, entry)
           /\ new.done = [w.done EXCEPT ![c.key] = [cmd |-> c, number |-> n]]
           /\ new.model = [w.model EXCEPT ![c.model] =
                             [revision |-> w.model[c.model].revision + 1,
                              name |-> w.model[c.model].name, bundled |-> TRUE]]
<1> DEFINE entry == [model |-> c.model, name |-> c.name, number |-> n, range |-> r.id,
                     token |-> p.token, status |-> "RESERVED"]
           new == Reserved(w, c, p, r, n)
<1>1. entry \in Entry
  BY DEF Entry, Command, Lease, Statuses
<1>2. /\ new.catalog = w.catalog /\ new.manifests = w.manifests /\ new.policies = w.policies
      /\ new.cursor = [w.cursor EXCEPT ![r.id] = n]
      /\ new.ledger = Append(w.ledger, entry)
      /\ new.done = [w.done EXCEPT ![c.key] = [cmd |-> c, number |-> n]]
  BY DEF Reserved, Workspace
<1>3. new.model = [w.model EXCEPT ![c.model] =
                     [revision |-> w.model[c.model].revision + 1,
                      name |-> w.model[c.model].name, bundled |-> TRUE]]
  BY DEF Reserved, Workspace
<1>4. ASSUME new.cursor \in [RangeIds(Ranges) -> Nat \cup {None}],
             new.ledger \in Seq(Entry),
             new.done \in [Keys -> [cmd: Command, number: Nat] \cup {None}],
             new.model \in [Models -> [revision: Nat, name: Names, bundled: BOOLEAN]]
      PROVE  new \in Workspace
  BY <1>2, <1>4 DEF Reserved, Workspace
<1>5. new.cursor \in [RangeIds(Ranges) -> Nat \cup {None}]
  BY <1>2 DEF Workspace
<1>6. new.ledger \in Seq(Entry)
  BY <1>1, <1>2 DEF Workspace
<1>7. new.done \in [Keys -> [cmd: Command, number: Nat] \cup {None}]
  BY <1>2 DEF Workspace, Command
<1>8. new.model \in [Models -> [revision: Nat, name: Names, bundled: BOOLEAN]]
  BY <1>3 DEF Workspace, Command
<1>9. new \in Workspace
  BY <1>4, <1>5, <1>6, <1>7, <1>8
<1> QED
  BY <1>1, <1>2, <1>3, <1>9

-----------------------------------------------------------------------------
(* What the steps do.                                                        *)

\* The workspace has changed, and no identity in it.
SameIdentity ==
    /\ ws' \in Workspace
    /\ ws'.done = ws.done
    /\ DOMAIN ws'.ledger = DOMAIN ws.ledger
    /\ \A i \in DOMAIN ws.ledger :
         \E status \in Statuses : ws'.ledger[i] = [ws.ledger[i] EXCEPT !.status = status]
    /\ \A m \in Models :
         /\ ws'.model[m].bundled = ws.model[m].bundled
         /\ ws.model[m].bundled => ws'.model[m].name = ws.model[m].name

\* An entry is itself with its own status.
LEMMA EntryUpdated ==
    ASSUME NEW ledger \in Seq(Entry), NEW i \in DOMAIN ledger
    PROVE  \E status \in Statuses : ledger[i] = [ledger[i] EXCEPT !.status = status]
<1>1. ledger[i] \in Entry
  OBVIOUS
<1>2. ledger[i] = [ledger[i] EXCEPT !.status = ledger[i].status]
  BY <1>1 DEF Entry
<1>3. ledger[i].status \in Statuses
  BY <1>1 DEF Entry
<1> QED
  BY <1>2, <1>3

\* A workspace that differs in its papers only.
LEMMA PapersKeep ==
    ASSUME TypeOK, NEW new \in Workspace, Publish(new),
           new.ledger = ws.ledger, new.done = ws.done, new.model = ws.model
    PROVE  SameIdentity /\ rev' = rev + 1 /\ UNCHANGED <<lease, tokens, head, task, answers>>
<1>1. ws' = new /\ rev' = rev + 1 /\ UNCHANGED <<lease, tokens, head, task, answers>>
  BY DEF Publish, Save
<1>2. ws.ledger \in Seq(Entry)
  BY DEF TypeOK, Workspace
<1> QED
  BY <1>1, <1>2, EntryUpdated DEF SameIdentity

LEMMA GovernanceKeeps ==
    ASSUME TypeOK, GovernanceNext
    PROVE  SameIdentity /\ rev' = rev + 1 /\ UNCHANGED <<lease, tokens, head, task, answers>>
<1>1. CASE PublishCatalog
  <2> DEFINE next == ws.catalog + 1
             new == [ws EXCEPT !.catalog = next]
  <2>a. ws \in Workspace /\ next \in Nat
    BY DEF TypeOK, Workspace
  <2> HIDE DEF next
  <2>1. new \in Workspace
    BY <2>a DEF Workspace
  <2>2. new.ledger = ws.ledger /\ new.done = ws.done /\ new.model = ws.model
    BY DEF TypeOK, Workspace
  <2>3. Publish(new)
    BY <1>1 DEF PublishCatalog, next
  <2> QED
    BY <2>1, <2>2, <2>3, PapersKeep
<1>2. ASSUME NEW t \in Targets, NEW verified \in {RangeIds(In(offer)) : offer \in Offers},
             NEW oid \in 0..head[RefOf[t]], ApproveManifest(t, oid, verified)
      PROVE  SameIdentity /\ rev' = rev + 1 /\ UNCHANGED <<lease, tokens, head, task, answers>>
  <2> DEFINE paper == [catalog |-> ws.catalog, target |-> t, oid |-> oid, verified |-> verified]
             new == [ws EXCEPT !.manifests = Append(@, paper)]
  <2>1. paper \in Manifest
    <3>1. oid \in Nat
      <4>1. RefOf[t] \in Refs
        BY DEF Refs
      <4> QED
        BY <4>1 DEF TypeOK
    <3>2. verified \subseteq RangeIds(Ranges)
      BY DEF RangeIds, Ranges, In
    <3>3. ws.catalog \in Nat
      BY DEF TypeOK, Workspace
    <3> QED
      BY <3>1, <3>2, <3>3 DEF Manifest
  <2>2. Append(ws.manifests, paper) \in Seq(Manifest)
    BY <2>1 DEF TypeOK, Workspace
  <2>a. new \in Workspace
    BY <2>2 DEF TypeOK, Workspace
  <2>3. new.ledger = ws.ledger /\ new.done = ws.done /\ new.model = ws.model
    BY DEF TypeOK, Workspace
  <2> QED
    BY <1>2, <2>a, <2>3, PapersKeep DEF ApproveManifest
<1>3. ASSUME NEW chosen \in SUBSET DOMAIN ws.manifests, NEW ranges \in Offers,
             NEW observed, PublishPolicy(chosen, ranges, observed)
      PROVE  SameIdentity /\ rev' = rev + 1 /\ UNCHANGED <<lease, tokens, head, task, answers>>
  <2> DEFINE policy == [catalog |-> ws.catalog, manifests |-> chosen, ranges |-> ranges]
             new == [ws EXCEPT !.policies = Append(@, policy)]
  <2>1. policy \in PolicyVersion
    BY DEF TypeOK, Workspace, PolicyVersion
  <2>2. Append(ws.policies, policy) \in Seq(PolicyVersion)
    BY <2>1 DEF TypeOK, Workspace
  <2>a. new \in Workspace
    BY <2>2 DEF TypeOK, Workspace
  <2>3. new.ledger = ws.ledger /\ new.done = ws.done /\ new.model = ws.model
    BY DEF TypeOK, Workspace
  <2> QED
    BY <1>3, <2>a, <2>3, PapersKeep DEF PublishPolicy
<1>4. ASSUME NEW i \in DOMAIN ws.ledger, NEW status \in {"ABANDONED", "DEPRECATED"},
             Transition(i, status)
      PROVE  SameIdentity /\ rev' = rev + 1 /\ UNCHANGED <<lease, tokens, head, task, answers>>
  <2> DEFINE new == [ws EXCEPT !.ledger[i].status = status]
  <2>1. ws.ledger \in Seq(Entry) /\ ws \in Workspace /\ status \in Statuses
    BY DEF TypeOK, Workspace, Statuses
  <2>2. new.ledger = [ws.ledger EXCEPT ![i] = [ws.ledger[i] EXCEPT !.status = status]]
    BY <2>1 DEF Workspace
  <2>3. \A j \in DOMAIN ws.ledger : ws.ledger[j] \in Entry
    BY <2>1
  <2>4. [ws.ledger[i] EXCEPT !.status = status] \in Entry
    BY <2>1, <2>3 DEF Entry
  <2>5. new.ledger \in Seq(Entry)
    BY <2>1, <2>2, <2>4, ExceptSeq
  <2>6. new \in Workspace /\ new.done = ws.done /\ new.model = ws.model
    BY <2>1, <2>5 DEF Workspace
  <2>7. ASSUME NEW j \in DOMAIN ws.ledger
        PROVE  \E s \in Statuses : new.ledger[j] = [ws.ledger[j] EXCEPT !.status = s]
    <3>1. CASE j = i
      BY <2>1, <2>2, <3>1
    <3>2. CASE j # i
      BY <2>1, <2>2, <3>2, EntryUpdated
    <3> QED
      BY <3>1, <3>2
  <2>8. ws' = new /\ rev' = rev + 1 /\ UNCHANGED <<lease, tokens, head, task, answers>>
    BY <1>4 DEF Transition, Save
  <2>9. DOMAIN new.ledger = DOMAIN ws.ledger
    BY <2>2
  <2> HIDE DEF new
  <2> QED
    BY <2>6, <2>7, <2>8, <2>9 DEF SameIdentity
<1>5. ASSUME NEW m \in Models, NEW name \in Names, EditModel(m, name)
      PROVE  SameIdentity /\ rev' = rev + 1 /\ UNCHANGED <<lease, tokens, head, task, answers>>
  <2> DEFINE edited == [revision |-> ws.model[m].revision + 1, name |-> name,
                        bundled |-> ws.model[m].bundled]
             new == [ws EXCEPT !.model[m] = edited]
  <2>1. /\ ws \in Workspace /\ ws.ledger \in Seq(Entry)
        /\ ws.model \in [Models -> [revision: Nat, name: Names, bundled: BOOLEAN]]
    BY DEF TypeOK, Workspace
  <2>2. edited \in [revision: Nat, name: Names, bundled: BOOLEAN]
    BY <2>1
  <2>3. new.model = [ws.model EXCEPT ![m] = edited]
    BY <2>1 DEF Workspace
  <2>4. new.ledger = ws.ledger /\ new.done = ws.done
    BY <2>1 DEF Workspace
  <2>5. [ws.model EXCEPT ![m] = edited]
          \in [Models -> [revision: Nat, name: Names, bundled: BOOLEAN]]
    BY <2>1, <2>2
  <2>6. new \in Workspace
    BY <2>1, <2>5 DEF Workspace
  <2>7. ws' = new /\ rev' = rev + 1 /\ UNCHANGED <<lease, tokens, head, task, answers>>
    BY <1>5 DEF EditModel, Save
  <2>8. ASSUME NEW n \in Models
        PROVE  /\ new.model[n].bundled = ws.model[n].bundled
               /\ ws.model[n].bundled => new.model[n].name = ws.model[n].name
    BY <1>5, <2>1, <2>3 DEF EditModel
  <2>9. \A i \in DOMAIN ws.ledger :
          \E status \in Statuses : ws.ledger[i] = [ws.ledger[i] EXCEPT !.status = status]
    BY <2>1, EntryUpdated
  <2> HIDE DEF new
  <2> QED
    BY <2>4, <2>6, <2>7, <2>8, <2>9, ZenonT(40) DEF SameIdentity
<1> QED
  BY <1>1, <1>2, <1>3, <1>4, <1>5 DEF GovernanceNext

StoreSame == UNCHANGED <<rev, ws, lease, tokens, head>>

\* A task has started an attempt, gone on with one, or ended.
TaskMoved(t) ==
    /\ task' \in [Tasks -> Task]
    /\ \A u \in Tasks \ {t} : task'[u] = task[u]
    /\ task'[t].pc # "idle" => task'[t].cmd \in Command
    /\ task'[t].pc = "commit" => task'[t].base = rev /\ task'[t].loaded = ws

\* Nobody is told anything but what the ledger has.
AnswersBacked ==
    \/ answers' = answers
    \/ \E c \in Command, n \in Nat :
         /\ Recorded(c.model, n)
         /\ answers' = answers \cup {[key |-> c.key, model |-> c.model, number |-> n]}

LEMMA Ended ==
    ASSUME TypeOK, NEW t \in Tasks, task' = [task EXCEPT ![t] = Idle]
    PROVE  TaskMoved(t)
BY DEF TypeOK, TaskMoved, Task, Idle

LEMMA PreviewMoves ==
    ASSUME Inv, NEW t \in Tasks, NEW c \in Command, NEW attempt \in Nat,
           NEW observed \in [Refs -> Nat] \cup {None}, NEW checkpoint \in Lease \cup {None},
           Preview(t, c, attempt, observed, checkpoint)
    PROVE  TaskMoved(t) /\ AnswersBacked
<1>1. CASE Replays(ws, c) /\ Answer(t, c, ws.done[c.key].number)
  <2>1. ws.done[c.key] \in [cmd: Command, number: Nat] /\ ws.done[c.key].cmd = c
    BY <1>1 DEF Inv, TypeOK, Workspace, Command, Replays
  <2>2. Recorded(c.model, ws.done[c.key].number)
    <3>1. c.key \in Keys /\ ws.done[c.key] # None
      BY <1>1 DEF Command, Replays
    <3>2. Recorded(ws.done[c.key].cmd.model, ws.done[c.key].number)
      BY <3>1 DEF Inv, Sound, DoneIsRecorded
    <3> QED
      BY <2>1, <3>2
  <2> QED
    BY <1>1, <2>1, <2>2, Ended DEF Inv, Answer, AnswersBacked
<1>2. CASE Existing(ws, c) /\ Answer(t, c, ws.ledger[EntryOf(ws, c.model)].number)
  <2> DEFINE i == EntryOf(ws, c.model)
  <2>1. i \in DOMAIN ws.ledger /\ ws.ledger[i].model = c.model
    <3>1. c.model \in Models
      BY DEF Command
    <3>2. \E j \in DOMAIN ws.ledger : ws.ledger[j].model = c.model
      BY <1>2, <3>1 DEF Inv, Sound, BundledIsRecorded, Existing
    <3> QED
      BY <3>2 DEF EntryOf
  <2>2. ws.ledger[i].number \in Nat
    <3>1. ws.ledger \in Seq(Entry)
      BY DEF Inv, TypeOK, Workspace
    <3> HIDE DEF i
    <3>2. ws.ledger[i] \in Entry
      BY <2>1, <3>1
    <3> QED
      BY <3>2 DEF Entry
  <2>3. Recorded(c.model, ws.ledger[i].number)
    BY <2>1 DEF Recorded
  <2> QED
    BY <1>2, <2>2, <2>3, Ended DEF Inv, Answer, AnswersBacked
<1>3. CASE /\ task' = [task EXCEPT ![t] =
                [pc |-> "commit", cmd |-> c, attempt |-> attempt, observed |-> observed,
                 checkpoint |-> checkpoint, base |-> rev, loaded |-> ws]]
           /\ UNCHANGED answers
  <2> DEFINE now == [pc |-> "commit", cmd |-> c, attempt |-> attempt, observed |-> observed,
                     checkpoint |-> checkpoint, base |-> rev, loaded |-> ws]
  <2>1. now \in Task
    BY DEF Inv, TypeOK, Task
  <2>2. task' = [task EXCEPT ![t] = now] /\ task \in [Tasks -> Task]
    BY <1>3 DEF Inv, TypeOK
  <2>3. task' \in [Tasks -> Task] /\ task'[t] = now /\ \A u \in Tasks \ {t} : task'[u] = task[u]
    BY <2>1, <2>2
  <2> QED
    BY <1>3, <2>3 DEF TaskMoved, AnswersBacked
<1> QED
  BY <1>1, <1>2, <1>3 DEF Preview

LEMMA TaskMoves ==
    ASSUME Inv, NEW t \in Tasks,
           AskNext(t) \/ Reload(t) \/ Again(t) \/ CommitRefused(t) \/ Crash(t)
    PROVE  StoreSame /\ TaskMoved(t) /\ AnswersBacked
<1>0. TypeOK /\ task \in [Tasks -> Task]
  BY DEF Inv, TypeOK
<1>1. CASE AskNext(t)
  <2>1. PICK k \in Keys, m \in Models, name \in Names, policy \in DOMAIN ws.policies :
             \E revision \in 0..ws.model[m].revision :
               Ask(t, [key |-> k, model |-> m, revision |-> revision, name |-> name,
                       policy |-> policy])
    BY <1>1 DEF AskNext
  <2>2. PICK revision \in 0..ws.model[m].revision :
             Ask(t, [key |-> k, model |-> m, revision |-> revision, name |-> name,
                     policy |-> policy])
    BY <2>1
  <2> DEFINE c == [key |-> k, model |-> m, revision |-> revision, name |-> name,
                   policy |-> policy]
  <2>3. c \in Command
    <3>1. policy \in Nat
      BY <1>0 DEF TypeOK, Workspace
    <3>2. revision \in Nat
      BY <1>0, <2>2
    <3> QED
      BY <3>1, <3>2 DEF Command
  <2>4. Ask(t, c)
    BY <2>2
  <2> HIDE DEF c
  <2>5. Preview(t, c, 1, head, lease) /\ StoreSame
    BY <2>4 DEF Ask, StoreSame
  <2>6. head \in [Refs -> Nat] \cup {None} /\ lease \in Lease \cup {None}
    BY <1>0 DEF TypeOK
  <2> QED
    BY <2>3, <2>5, <2>6, PreviewMoves
<1>2. CASE Reload(t)
  <2> DEFINE c == task[t].cmd
             another == task[t].attempt + 1
  <2>1. /\ c \in Command /\ another \in Nat
        /\ task[t].observed \in [Refs -> Nat] \cup {None}
        /\ task[t].checkpoint \in Lease \cup {None}
    BY <1>0, <1>2 DEF TypeOK, Task, Reload
  <2>2. StoreSame
    BY <1>2 DEF Reload, StoreSame
  <2>3. CASE Preview(t, c, another, task[t].observed, task[t].checkpoint)
    BY <2>1, <2>2, <2>3, PreviewMoves
  <2>4. CASE Refuse(t)
    BY <1>0, <2>2, <2>4, Ended DEF Refuse, AnswersBacked
  <2> QED
    BY <1>2, <2>3, <2>4 DEF Reload
<1>3. CASE Again(t)
  <2>1. StoreSame /\ AnswersBacked
    BY <1>3 DEF Again, StoreSame, AnswersBacked
  <2>2. CASE task' = [task EXCEPT ![t].pc = "load", ![t].base = 0, ![t].loaded = None]
    <3> DEFINE new == [task[t] EXCEPT !.pc = "load", !.base = 0, !.loaded = None]
    <3>1. task' = [task EXCEPT ![t] = new]
      BY <1>0, <2>2
    <3>2. new \in Task /\ new.pc = "load" /\ new.cmd = task[t].cmd
      BY <1>0 DEF Task
    <3>3. task[t].cmd \in Command
      BY <1>0, <1>3 DEF TypeOK, Again
    <3>4. task' \in [Tasks -> Task] /\ task'[t] = new /\ \A u \in Tasks \ {t} : task'[u] = task[u]
      BY <1>0, <3>1, <3>2
    <3> HIDE DEF new
    <3> QED
      BY <2>1, <3>2, <3>3, <3>4 DEF TaskMoved
  <2>3. CASE task' = [task EXCEPT ![t] = Idle]
    BY <1>0, <2>1, <2>3, Ended
  <2> QED
    BY <1>3, <2>2, <2>3 DEF Again
<1>4. CASE CommitRefused(t) \/ Crash(t)
  BY <1>0, <1>4, Ended DEF CommitRefused, Crash, Refuse, StoreSame, AnswersBacked
<1> QED
  BY <1>1, <1>2, <1>3, <1>4

\* What a reservation puts into the ledger.
Granted(c, r, n) ==
    [model |-> c.model, name |-> c.name, number |-> n, range |-> r.id,
     token |-> lease.token, status |-> "RESERVED"]

LEMMA CommitReserves ==
    ASSUME Inv, NEW t \in Tasks, Commit(t)
    PROVE  \E r \in Ranges, n \in Nat :
             LET c == task[t].cmd IN
             /\ c \in Command
             /\ Live
             /\ \A m \in ManifestsOf(ws, Policy(ws)) : lease.heads[RefOf[m.target]] = m.oid
             /\ ~ws.model[c.model].bundled
             /\ c.name = ws.model[c.model].name
             /\ NameFree(ws, c)
             /\ Ids(n) \cap Occupied(ws) = {}
             /\ Granted(c, r, n) \in Entry
             /\ rev' = rev + 1
             /\ ws' = Reserved(ws, c, lease, r, n)
             /\ ws' \in Workspace
             /\ ws'.ledger = Append(ws.ledger, Granted(c, r, n))
             /\ ws'.done = [ws.done EXCEPT ![c.key] = [cmd |-> c, number |-> n]]
             /\ ws'.model = [ws.model EXCEPT ![c.model] =
                               [revision |-> ws.model[c.model].revision + 1,
                                name |-> ws.model[c.model].name, bundled |-> TRUE]]
             /\ task' = [task EXCEPT ![t] = Idle]
             /\ answers' = answers \cup {[key |-> c.key, model |-> c.model, number |-> n]}
             /\ UNCHANGED <<lease, tokens, head>>
<1> DEFINE c == task[t].cmd
<1>1. task[t].pc = "commit" /\ task[t].loaded = ws /\ c \in Command /\ ws \in Workspace
  BY DEF Commit, Conflict, Inv, TypeOK, Sound, LoadedIsCurrent
<1>a. PICK r \in Ranges : \E n \in r.low..r.high :
        /\ Reservable(ws, c, task[t].observed, Verified(t), r, n)
        /\ Save(Reserved(ws, c, Verified(t), r, n))
        /\ Answer(t, c, n)
  BY <1>1 DEF Commit
<1>2. PICK n \in r.low..r.high :
        /\ Reservable(ws, c, task[t].observed, Verified(t), r, n)
        /\ Save(Reserved(ws, c, Verified(t), r, n))
        /\ Answer(t, c, n)
  BY <1>a
<1>3. n \in Nat /\ r.id \in RangeIds(Ranges)
  BY RangesTyped
<1>4. Serialized(ws, c, Verified(t))
  BY <1>2 DEF Reservable
<1>5. Verified(t) = lease /\ Live /\ lease \in Lease
  BY <1>4 DEF Serialized, Verified, Live, Inv, TypeOK
<1>6. \A m \in ManifestsOf(ws, Policy(ws)) : lease.heads[RefOf[m.target]] = m.oid
  BY <1>4, <1>5 DEF Serialized
<1>7. Ids(n) \cap Occupied(ws) = {}
  BY <1>2 DEF Reservable, FirstFree, Free
<1>8. ~ws.model[c.model].bundled /\ c.name = ws.model[c.model].name /\ NameFree(ws, c)
  BY <1>2 DEF Reservable, Current
<1>9. rev' = rev + 1 /\ ws' = Reserved(ws, c, lease, r, n)
  BY <1>2, <1>5 DEF Save
<1>10. /\ Granted(c, r, n) \in Entry
       /\ ws' \in Workspace
       /\ ws'.ledger = Append(ws.ledger, Granted(c, r, n))
       /\ ws'.done = [ws.done EXCEPT ![c.key] = [cmd |-> c, number |-> n]]
       /\ ws'.model = [ws.model EXCEPT ![c.model] =
                         [revision |-> ws.model[c.model].revision + 1,
                          name |-> ws.model[c.model].name, bundled |-> TRUE]]
  BY <1>1, <1>3, <1>5, <1>9, ReservedTyped DEF Granted
<1>11. UNCHANGED <<lease, tokens, head>>
  BY DEF Commit
<1> QED
  BY <1>1, <1>2, <1>3, <1>5, <1>6, <1>7, <1>8, <1>9, <1>10, <1>11 DEF Answer

-----------------------------------------------------------------------------
(* The invariant is kept.                                                    *)

LEMMA SaveKeeps ==
    ASSUME Inv, SameIdentity, rev' = rev + 1,
           UNCHANGED <<lease, tokens, head, task, answers>>
    PROVE  Inv'
<1>1. TypeOK'
  BY DEF Inv, TypeOK, SameIdentity
<1>2. DOMAIN ws'.ledger = DOMAIN ws.ledger /\ ws.ledger \in Seq(Entry)
  BY DEF SameIdentity, Inv, TypeOK, Workspace
<1>3. ASSUME NEW i \in DOMAIN ws.ledger
      PROVE  /\ ws'.ledger[i].model = ws.ledger[i].model /\ ws.ledger[i].model \in Models
             /\ ws'.ledger[i].name = ws.ledger[i].name
             /\ ws'.ledger[i].number = ws.ledger[i].number
             /\ ws'.ledger[i].token = ws.ledger[i].token
  <2>1. ws.ledger[i] \in Entry
    BY <1>2
  <2>2. PICK status \in Statuses : ws'.ledger[i] = [ws.ledger[i] EXCEPT !.status = status]
    BY DEF SameIdentity
  <2> QED
    BY <2>1, <2>2 DEF Entry
<1>4. LoadedIsCurrent'
  <2>1. ASSUME NEW t \in Tasks, task[t].pc = "commit"
        PROVE  task[t].base <= rev /\ task[t].base \in Nat /\ rev \in Nat
    BY <2>1 DEF Inv, TypeOK, Task, Sound, LoadedIsCurrent
  <2> QED
    BY <2>1 DEF LoadedIsCurrent
<1>5. BundledIsRecorded'
  BY <1>2, <1>3 DEF Inv, Sound, BundledIsRecorded, SameIdentity
<1>6. ASSUME NEW m, NEW n, Recorded(m, n)
      PROVE  Recorded(m, n)'
  BY <1>2, <1>3, <1>6 DEF Recorded
<1>7. DoneIsRecorded'
  BY <1>6 DEF Inv, Sound, DoneIsRecorded, SameIdentity
<1>8. LeaseIsLatest'
  BY <1>2, <1>3 DEF Inv, Sound, LeaseIsLatest, Live
<1>9. LedgerIsOneToOne'
  <2>1. ASSUME NEW i \in DOMAIN ws.ledger, NEW j \in DOMAIN ws.ledger, i # j
        PROVE  /\ ws'.ledger[i].model # ws'.ledger[j].model
               /\ PartOf[ws'.ledger[i].model] = PartOf[ws'.ledger[j].model] =>
                     ws'.ledger[i].name # ws'.ledger[j].name
               /\ Ids(ws'.ledger[i].number) \cap Ids(ws'.ledger[j].number) = {}
    <3>1. /\ ws.ledger[i].model # ws.ledger[j].model
          /\ PartOf[ws.ledger[i].model] = PartOf[ws.ledger[j].model] =>
                ws.ledger[i].name # ws.ledger[j].name
          /\ Ids(ws.ledger[i].number) \cap Ids(ws.ledger[j].number) = {}
      BY <2>1 DEF Inv, Sound, LedgerIsOneToOne
    <3> QED
      BY <1>3, <3>1
  <2> QED
    BY <1>2, <2>1 DEF LedgerIsOneToOne
<1>10. AnswersAreRecorded'
  BY <1>6 DEF Inv, Sound, AnswersAreRecorded, Recorded
<1> QED
  BY <1>1, <1>4, <1>5, <1>7, <1>8, <1>9, <1>10 DEF Inv, Sound

LEMMA CoordinatorKeeps ==
    ASSUME Inv, CoordinatorNext
    PROVE  Inv'
<1>1. UNCHANGED <<rev, ws, task, answers>>
  BY DEF CoordinatorNext, Grant, Expire, Move
<1>2. TypeOK' /\ LeaseIsLatest'
  <2>1. ASSUME NEW k \in Keys, Grant(k)
        PROVE  TypeOK' /\ LeaseIsLatest'
    <3>1. /\ tokens' = tokens + 1 /\ tokens \in Nat /\ head' = head
          /\ lease' = [token |-> tokens + 1, key |-> k, catalog |-> Policy(ws).catalog,
                       manifests |-> Policy(ws).manifests, heads |-> head, live |-> TRUE]
      BY <2>1 DEF Grant, Inv, TypeOK
    <3>2. Policy(ws) \in PolicyVersion
      BY <2>1 DEF Grant, Policy, Inv, TypeOK, Workspace
    <3>3. lease' \in Lease
      BY <3>1, <3>2 DEF Lease, PolicyVersion, Inv, TypeOK
    <3>4. TypeOK'
      BY <1>1, <3>1, <3>3 DEF Inv, TypeOK
    <3>5. \A i \in DOMAIN ws.ledger : ws.ledger[i].token \in Nat
      <4>1. ws.ledger \in Seq(Entry)
        BY DEF Inv, TypeOK, Workspace
      <4>2. \A i \in DOMAIN ws.ledger : ws.ledger[i] \in Entry
        BY <4>1
      <4> QED
        BY <4>2 DEF Entry
    <3>6. LeaseIsLatest'
      BY <1>1, <3>1, <3>5 DEF Inv, Sound, LeaseIsLatest, Live
    <3> QED
      BY <3>4, <3>6
  <2>2. CASE Expire
    <3>1. lease' = [lease EXCEPT !.live = FALSE] /\ lease \in Lease /\ UNCHANGED <<tokens, head>>
      BY <2>2 DEF Expire, Live, Inv, TypeOK
    <3>2. lease' \in Lease /\ lease'.token = lease.token /\ ~lease'.live
      BY <3>1 DEF Lease
    <3> QED
      BY <1>1, <2>2, <3>1, <3>2 DEF Inv, TypeOK, Sound, LeaseIsLatest, Live, Expire
  <2>3. ASSUME NEW r \in Refs, Move(r)
        PROVE  TypeOK' /\ LeaseIsLatest'
    <3>1. head' \in [Refs -> Nat]
      BY <2>3 DEF Move, Inv, TypeOK
    <3> QED
      BY <1>1, <2>3, <3>1 DEF Inv, TypeOK, Sound, LeaseIsLatest, Live, Move
  <2> QED
    BY <2>1, <2>2, <2>3 DEF CoordinatorNext
<1>3. LoadedIsCurrent'
  BY <1>1 DEF Inv, Sound, LoadedIsCurrent
<1>4. BundledIsRecorded'
  BY <1>1 DEF Inv, Sound, BundledIsRecorded
<1>5. DoneIsRecorded'
  BY <1>1 DEF Inv, Sound, DoneIsRecorded, Recorded
<1>6. LedgerIsOneToOne'
  BY <1>1 DEF Inv, Sound, LedgerIsOneToOne
<1>7. AnswersAreRecorded'
  BY <1>1 DEF Inv, Sound, AnswersAreRecorded
<1> QED
  BY <1>2, <1>3, <1>4, <1>5, <1>6, <1>7 DEF Inv, Sound

LEMMA MoveKeeps ==
    ASSUME Inv, NEW t \in Tasks, StoreSame, TaskMoved(t), AnswersBacked
    PROVE  Inv'
<1>1. /\ BundledIsRecorded' /\ DoneIsRecorded' /\ LeaseIsLatest' /\ LedgerIsOneToOne'
  BY DEF StoreSame, Inv, Sound, BundledIsRecorded, DoneIsRecorded, Recorded, LeaseIsLatest,
     Live, LedgerIsOneToOne
<1>2. TypeOK'
  <2>1. answers' \in SUBSET [key: Keys, model: Models, number: Nat]
    BY DEF AnswersBacked, Inv, TypeOK, Command
  <2>2. \A u \in Tasks : task'[u].pc # "idle" => task'[u].cmd \in Command
    BY DEF TaskMoved, Inv, TypeOK
  <2> QED
    BY <2>1, <2>2 DEF StoreSame, TaskMoved, Inv, TypeOK
<1>3. LoadedIsCurrent'
  BY DEF StoreSame, TaskMoved, Inv, TypeOK, Sound, LoadedIsCurrent
<1>4. AnswersAreRecorded'
  BY DEF StoreSame, AnswersBacked, Inv, Sound, AnswersAreRecorded, Recorded
<1> QED
  BY <1>1, <1>2, <1>3, <1>4 DEF Inv, Sound

LEMMA CommitKeeps ==
    ASSUME Inv, NEW t \in Tasks, Commit(t)
    PROVE  Inv'
<1> DEFINE c == task[t].cmd
<1> PICK r \in Ranges, n \in Nat :
       /\ c \in Command
       /\ Live
       /\ ~ws.model[c.model].bundled
       /\ c.name = ws.model[c.model].name
       /\ NameFree(ws, c)
       /\ Ids(n) \cap Occupied(ws) = {}
       /\ Granted(c, r, n) \in Entry
       /\ rev' = rev + 1
       /\ ws' \in Workspace
       /\ ws'.ledger = Append(ws.ledger, Granted(c, r, n))
       /\ ws'.done = [ws.done EXCEPT ![c.key] = [cmd |-> c, number |-> n]]
       /\ ws'.model = [ws.model EXCEPT ![c.model] =
                         [revision |-> ws.model[c.model].revision + 1,
                          name |-> ws.model[c.model].name, bundled |-> TRUE]]
       /\ task' = [task EXCEPT ![t] = Idle]
       /\ answers' = answers \cup {[key |-> c.key, model |-> c.model, number |-> n]}
       /\ UNCHANGED <<lease, tokens, head>>
  BY CommitReserves
<1> HIDE DEF c
<1> DEFINE entry == Granted(c, r, n)
           old == DOMAIN ws.ledger
           last == Len(ws.ledger) + 1
<1>1. c.key \in Keys /\ c.model \in Models /\ c.name \in Names
  BY DEF Command
<1>2. /\ ws.ledger \in Seq(Entry) /\ old = 1..Len(ws.ledger) /\ Len(ws.ledger) \in Nat
      /\ DOMAIN ws'.ledger = old \cup {last} /\ last \notin old
      /\ \A i \in old : ws'.ledger[i] = ws.ledger[i] /\ ws.ledger[i] \in Entry
      /\ ws'.ledger[last] = entry
  BY DEF Inv, TypeOK, Workspace
<1>3. entry.model = c.model /\ entry.name = c.name /\ entry.number = n /\ entry.token = lease.token
  BY DEF Granted
<1> HIDE DEF entry, old, last
<1>4. \A i \in old : ws.ledger[i].model \in Models /\ ws.model[ws.ledger[i].model].bundled
  BY <1>2 DEF Inv, Sound, BundledIsRecorded, Entry, old
<1>5. \A i \in old : ws.ledger[i].model # c.model
  BY <1>4
<1>6. ws.model \in [Models -> [revision: Nat, name: Names, bundled: BOOLEAN]]
  BY DEF Inv, TypeOK, Workspace
<1>7. /\ ws'.model[c.model].bundled = TRUE
      /\ \A m \in Models \ {c.model} : ws'.model[m] = ws.model[m]
  BY <1>1, <1>6
<1>8. TypeOK'
  <2>1. rev' \in Nat /\ answers' \in SUBSET [key: Keys, model: Models, number: Nat]
    BY <1>1 DEF Inv, TypeOK
  <2>2. task' \in [Tasks -> Task] /\ \A u \in Tasks : task'[u].pc # "idle" => task'[u].cmd \in Command
    BY Ended DEF TaskMoved, Inv, TypeOK
  <2> QED
    BY <2>1, <2>2 DEF Inv, TypeOK
<1>9. LoadedIsCurrent'
  <2>1. ASSUME NEW u \in Tasks, task'[u].pc = "commit"
        PROVE  u # t /\ task'[u] = task[u] /\ task[u].base <= rev /\ task[u].base \in Nat /\ rev \in Nat
    BY <2>1 DEF Inv, TypeOK, Task, Sound, LoadedIsCurrent, Idle
  <2> QED
    BY <2>1 DEF LoadedIsCurrent
<1>10. BundledIsRecorded'
  <2>1. ASSUME NEW i \in DOMAIN ws'.ledger
        PROVE  ws'.model[ws'.ledger[i].model].bundled
    BY <1>2, <1>3, <1>4, <1>5, <1>7
  <2>2. ASSUME NEW m \in Models, ws'.model[m].bundled
        PROVE  \E i \in DOMAIN ws'.ledger : ws'.ledger[i].model = m
    <3>1. CASE m = c.model
      BY <1>2, <1>3, <3>1
    <3>2. CASE m # c.model
      BY <1>2, <1>7, <2>2, <3>2 DEF Inv, Sound, BundledIsRecorded, old
    <3> QED
      BY <3>1, <3>2
  <2> QED
    BY <2>1, <2>2 DEF BundledIsRecorded
<1>11. \E i \in DOMAIN ws'.ledger : ws'.ledger[i].model = c.model /\ ws'.ledger[i].number = n
  BY <1>2, <1>3
<1>12. ws.done \in [Keys -> [cmd: Command, number: Nat] \cup {None}]
  BY DEF Inv, TypeOK, Workspace
<1>13. DoneIsRecorded'
  <2>1. ASSUME NEW k \in Keys, ws'.done[k] # None
        PROVE  \E i \in DOMAIN ws'.ledger : /\ ws'.ledger[i].model = ws'.done[k].cmd.model
                                            /\ ws'.ledger[i].number = ws'.done[k].number
    <3>1. CASE k = c.key
      <4>1. ws'.done[k] = [cmd |-> c, number |-> n]
        BY <1>1, <1>12, <3>1
      <4> QED
        BY <1>11, <4>1
    <3>2. CASE k # c.key
      <4>1. ws'.done[k] = ws.done[k]
        BY <1>1, <1>12, <3>2
      <4>2. Recorded(ws.done[k].cmd.model, ws.done[k].number)
        BY <2>1, <4>1 DEF Inv, Sound, DoneIsRecorded
      <4>3. \E i \in DOMAIN ws'.ledger : /\ ws'.ledger[i].model = ws.done[k].cmd.model
                                         /\ ws'.ledger[i].number = ws.done[k].number
        BY <4>2, <1>2 DEF Recorded, old
      <4> QED
        BY <4>1, <4>3
    <3> QED
      BY <3>1, <3>2
  <2> QED
    BY <2>1 DEF DoneIsRecorded, Recorded
<1>14. LeaseIsLatest'
  <2>1. lease.token = tokens /\ tokens \in Nat
    BY DEF Inv, TypeOK, Sound, LeaseIsLatest, Live
  <2>2. \A i \in DOMAIN ws'.ledger : ws'.ledger[i].token <= tokens
    BY <1>2, <1>3, <2>1 DEF Inv, Sound, LeaseIsLatest, old
  <2> QED
    BY <2>2 DEF Inv, Sound, LeaseIsLatest, Live
<1>15. LedgerIsOneToOne'
  <2> DEFINE Apart(a, b) ==
               /\ a.model # b.model
               /\ PartOf[a.model] = PartOf[b.model] => a.name # b.name
               /\ Ids(a.number) \cap Ids(b.number) = {}
  <2>1. \A i \in old : Apart(ws.ledger[i], entry)
    <3>1. TAKE i \in old
    <3>2. ws.ledger[i].model # c.model
      BY <1>5
    <3>3. PartOf[ws.ledger[i].model] = PartOf[c.model] => ws.ledger[i].name # c.name
      BY <3>2 DEF NameFree, In, old
    <3>4. Ids(ws.ledger[i].number) \subseteq Occupied(ws)
      BY DEF Occupied, In, old
    <3> QED
      BY <1>3, <3>2, <3>3, <3>4
  <2>2. \A i, j \in old : i # j => Apart(ws.ledger[i], ws.ledger[j])
    BY DEF Inv, Sound, LedgerIsOneToOne, old
  <2>3. \A a, b : Apart(a, b) => Apart(b, a)
    OBVIOUS
  <2> HIDE DEF Apart
  <2>4. \A i, j \in DOMAIN ws'.ledger : i # j => Apart(ws'.ledger[i], ws'.ledger[j])
    BY <1>2, <2>1, <2>2, <2>3
  <2> QED
    BY <2>4 DEF Apart, LedgerIsOneToOne
<1>16. AnswersAreRecorded'
  <2>1. ASSUME NEW a \in answers'
        PROVE  \E i \in DOMAIN ws'.ledger :
                 ws'.ledger[i].model = a.model /\ ws'.ledger[i].number = a.number
    <3>1. CASE a \in answers
      BY <1>2, <3>1 DEF Inv, Sound, AnswersAreRecorded, old
    <3>2. CASE a \notin answers
      <4>1. a.model = c.model /\ a.number = n
        BY <3>2
      <4> QED
        BY <1>2, <1>3, <4>1
    <3> QED
      BY <3>1, <3>2
  <2> QED
    BY <2>1 DEF AnswersAreRecorded
<1> QED
  BY <1>8, <1>9, <1>10, <1>13, <1>14, <1>15, <1>16 DEF Inv, Sound

LEMMA Started == Init => Inv
<1> SUFFICES ASSUME Init PROVE Inv
  OBVIOUS
<1>1. PICK name \in [Models -> Names] :
         ws = [catalog |-> 0, manifests |-> << >>, policies |-> << >>,
               cursor |-> [r \in RangeIds(Ranges) |-> None],
               ledger |-> << >>,
               done |-> [k \in Keys |-> None],
               model |-> [m \in Models |->
                           [revision |-> 0, name |-> name[m], bundled |-> FALSE]]]
  BY DEF Init
<1>2. ws.model \in [Models -> [revision: Nat, name: Names, bundled: BOOLEAN]]
  BY <1>1
<1>3. ws \in Workspace
  BY <1>1, <1>2 DEF Workspace
<1>4. TypeOK
  BY <1>3 DEF Init, TypeOK, Task, Idle
<1>5. ws.ledger = << >> /\ DOMAIN ws.ledger = {} /\ (\A m \in Models : ~ws.model[m].bundled)
      /\ (\A k \in Keys : ws.done[k] = None)
  BY <1>1
<1>6. LoadedIsCurrent
  BY DEF Init, LoadedIsCurrent, Idle
<1>7. lease = None /\ answers = {}
  BY DEF Init
<1> QED
  BY <1>4, <1>5, <1>6, <1>7 DEF Inv, Sound, BundledIsRecorded, DoneIsRecorded, LeaseIsLatest, Live,
     LedgerIsOneToOne, AnswersAreRecorded

LEMMA Stepped == Inv /\ [Next]_vars => Inv'
<1> SUFFICES ASSUME Inv, [Next]_vars PROVE Inv'
  OBVIOUS
<1>1. CASE GovernanceNext
  BY <1>1, GovernanceKeeps, SaveKeeps DEF Inv
<1>2. CASE CoordinatorNext
  BY <1>2, CoordinatorKeeps
<1>3. ASSUME NEW t \in Tasks, TaskNext(t)
      PROVE  Inv'
  <2>1. CASE Commit(t)
    BY <2>1, CommitKeeps
  <2>2. CASE AskNext(t) \/ Reload(t) \/ Again(t) \/ CommitRefused(t) \/ Crash(t)
    BY <2>2, TaskMoves, MoveKeeps
  <2> QED
    BY <1>3, <2>1, <2>2 DEF TaskNext
<1>4. CASE UNCHANGED vars
  <2>1. UNCHANGED <<rev, ws, lease, tokens, head, task, answers>>
    BY <1>4 DEF vars
  <2>2. TypeOK'
    BY <2>1 DEF Inv, TypeOK
  <2>3. LoadedIsCurrent' /\ BundledIsRecorded'
    BY <2>1 DEF Inv, Sound, LoadedIsCurrent, BundledIsRecorded
  <2>4. DoneIsRecorded'
    BY <2>1 DEF Inv, Sound, DoneIsRecorded, Recorded
  <2>5. LeaseIsLatest'
    BY <2>1 DEF Inv, Sound, LeaseIsLatest, Live
  <2>6. LedgerIsOneToOne' /\ AnswersAreRecorded'
    BY <2>1 DEF Inv, Sound, LedgerIsOneToOne, AnswersAreRecorded
  <2> QED
    BY <2>2, <2>3, <2>4, <2>5, <2>6 DEF Inv, Sound
<1> QED
  BY <1>1, <1>2, <1>3, <1>4 DEF Next

LEMMA Invariant == Spec => []Inv
<1>1. Init => Inv
  BY Started
<1>2. Inv /\ [Next]_vars => Inv'
  BY Stepped
<1> QED
  BY <1>1, <1>2, PTL DEF Spec

-----------------------------------------------------------------------------
(* Theorems.                                                                 *)

\* The workspace, the lease and every request under way are well formed.
THEOREM Typing == Spec => []TypeOK
<1>1. Inv => TypeOK
  BY DEF Inv
<1> QED
  BY <1>1, Invariant, PTL

\* Models, names and numbers of the ledger are one to one.
THEOREM OneToOne == Spec => []LedgerIsOneToOne
<1>1. Inv => LedgerIsOneToOne
  BY DEF Inv, Sound
<1> QED
  BY <1>1, Invariant, PTL

\* Whoever was told a number finds it in the ledger.
THEOREM AnswersKept == Spec => []AnswersAreRecorded
<1>1. Inv => AnswersAreRecorded
  BY DEF Inv, Sound
<1> QED
  BY <1>1, Invariant, PTL

\* What a commit does to earlier entries and models: nothing.
LEMMA CommitFreezes ==
    ASSUME Inv, NEW t \in Tasks, Commit(t)
    PROVE  FrozenKept(ws, ws')
<1> DEFINE c == task[t].cmd
<1> PICK r \in Ranges, n \in Nat :
       /\ c \in Command
       /\ ~ws.model[c.model].bundled
       /\ ws'.ledger = Append(ws.ledger, Granted(c, r, n))
       /\ ws'.model = [ws.model EXCEPT ![c.model] =
                         [revision |-> ws.model[c.model].revision + 1,
                          name |-> ws.model[c.model].name, bundled |-> TRUE]]
  BY CommitReserves
<1> HIDE DEF c
<1>1. ws.model \in [Models -> [revision: Nat, name: Names, bundled: BOOLEAN]]
  BY DEF Inv, TypeOK, Workspace
<1>a. \A m \in Models \ {c.model} : ws'.model[m] = ws.model[m]
  BY <1>1
<1>2. \A m \in Models : ws.model[m].bundled => ws'.model[m] = ws.model[m]
  BY <1>a
<1>3. ws.ledger \in Seq(Entry)
  BY DEF Inv, TypeOK, Workspace
<1>4. ASSUME NEW i \in DOMAIN ws.ledger
      PROVE  i \in DOMAIN ws'.ledger /\ ws'.ledger[i] = ws.ledger[i] /\ ws.ledger[i] \in Entry
  BY <1>3
<1>5. \A i \in DOMAIN ws.ledger :
        [ws'.ledger[i] EXCEPT !.status = ws.ledger[i].status] = ws.ledger[i]
  BY <1>4 DEF Entry
<1> QED
  BY <1>2, <1>4, <1>5 DEF FrozenKept

LEMMA SameFreezes ==
    ASSUME Inv, SameIdentity
    PROVE  FrozenKept(ws, ws')
<1>1. ws.ledger \in Seq(Entry)
  BY DEF Inv, TypeOK, Workspace
<1>2. ASSUME NEW i \in DOMAIN ws.ledger
      PROVE  [ws'.ledger[i] EXCEPT !.status = ws.ledger[i].status] = ws.ledger[i]
  <2>1. ws.ledger[i] \in Entry
    BY <1>1
  <2>2. PICK status \in Statuses : ws'.ledger[i] = [ws.ledger[i] EXCEPT !.status = status]
    BY DEF SameIdentity
  <2> QED
    BY <2>1, <2>2 DEF Entry
<1> QED
  BY <1>2 DEF SameIdentity, FrozenKept

\* No step takes back, renames or hands on what an earlier one reserved.
THEOREM Frozen == Spec => IdentityFrozen
<1>1. Inv /\ [Next]_vars => [FrozenKept(ws, ws')]_vars
  <2> SUFFICES ASSUME Inv, Next PROVE FrozenKept(ws, ws')
    OBVIOUS
  <2>1. CASE GovernanceNext
    BY <2>1, GovernanceKeeps, SameFreezes DEF Inv
  <2>2. ASSUME UNCHANGED ws
        PROVE  FrozenKept(ws, ws')
    <3>1. ws.ledger \in Seq(Entry)
      BY DEF Inv, TypeOK, Workspace
    <3>2. \A i \in DOMAIN ws.ledger : ws.ledger[i] \in Entry
      BY <3>1
    <3>3. \A i \in DOMAIN ws.ledger :
            [ws.ledger[i] EXCEPT !.status = ws.ledger[i].status] = ws.ledger[i]
      BY <3>2 DEF Entry
    <3> QED
      BY <2>2, <3>3 DEF FrozenKept
  <2>3. CASE CoordinatorNext
    BY <2>2, <2>3 DEF CoordinatorNext, Grant, Expire, Move
  <2>4. ASSUME NEW t \in Tasks, TaskNext(t)
        PROVE  FrozenKept(ws, ws')
    <3>1. CASE Commit(t)
      BY <3>1, CommitFreezes
    <3>2. CASE AskNext(t) \/ Reload(t) \/ Again(t) \/ CommitRefused(t) \/ Crash(t)
      BY <2>2, <3>2, TaskMoves DEF StoreSame
    <3> QED
      BY <2>4, <3>1, <3>2 DEF TaskNext
  <2> QED
    BY <2>1, <2>3, <2>4 DEF Next
<1> QED
  BY <1>1, Invariant, PTL DEF Spec, IdentityFrozen

\* A number enters the ledger only under the live lease.
THEOREM LeasedOnly == Spec => AllocatedUnderLease
<1> DEFINE Grown == ws'.ledger[Len(ws'.ledger)]
           Leased ==
             Len(ws'.ledger) > Len(ws.ledger) =>
               /\ Live /\ Grown.token = lease.token
               /\ \A m \in ManifestsOf(ws, Policy(ws)) : head[RefOf[m.target]] = m.oid
               /\ \A e \in In(ws.ledger) : e.token <= Grown.token
<1>1. Inv /\ [Next]_vars => [Leased]_vars
  <2> SUFFICES ASSUME Inv, Next PROVE Leased
    OBVIOUS
  <2>0. ws.ledger \in Seq(Entry) /\ Len(ws.ledger) \in Nat
    BY DEF Inv, TypeOK, Workspace
  <2>1. CASE GovernanceNext
    <3>1. SameIdentity
      BY <2>1, GovernanceKeeps DEF Inv
    <3>2. ws'.ledger \in Seq(Entry) /\ DOMAIN ws'.ledger = DOMAIN ws.ledger
      BY <3>1 DEF SameIdentity, Workspace
    <3>3. Len(ws'.ledger) = Len(ws.ledger)
      BY <2>0, <3>2
    <3> QED
      BY <2>0, <3>3
  <2>2. CASE UNCHANGED ws
    BY <2>0, <2>2
  <2>3. CASE CoordinatorNext
    BY <2>2, <2>3 DEF CoordinatorNext, Grant, Expire, Move
  <2>4. ASSUME NEW t \in Tasks, Commit(t)
        PROVE  Leased
    <3> DEFINE c == task[t].cmd
    <3>1. PICK r \in Ranges, n \in Nat :
            /\ Live
            /\ \A m \in ManifestsOf(ws, Policy(ws)) : lease.heads[RefOf[m.target]] = m.oid
            /\ ws'.ledger = Append(ws.ledger, Granted(c, r, n))
      BY <2>4, CommitReserves
    <3>2. Grown = Granted(c, r, n)
      BY <2>0, <3>1
    <3>3. Grown.token = lease.token
      BY <3>2 DEF Granted
    <3>4. lease.token = tokens /\ lease.heads = head
      BY <3>1 DEF Inv, Sound, LeaseIsLatest, Live
    <3>5. \A e \in In(ws.ledger) : e.token <= tokens
      BY DEF Inv, Sound, LeaseIsLatest, In
    <3> HIDE DEF Grown, c
    <3> QED
      BY <3>1, <3>3, <3>4, <3>5
  <2>5. ASSUME NEW t \in Tasks, TaskNext(t)
        PROVE  Leased
    <3>1. CASE AskNext(t) \/ Reload(t) \/ Again(t) \/ CommitRefused(t) \/ Crash(t)
      <4>1. UNCHANGED ws
        BY <3>1, TaskMoves DEF StoreSame
      <4> QED
        BY <2>2, <4>1
    <3> QED
      BY <2>4, <2>5, <3>1 DEF TaskNext
  <2> QED
    BY <2>1, <2>3, <2>5 DEF Next
<1> QED
  BY <1>1, Invariant, PTL DEF Spec, AllocatedUnderLease
=============================================================================
