---------------------------- MODULE AiRetention ----------------------------
(***************************************************************************)
(* Deleting AI assessments: the retention store keeps one JSON file per    *)
(* assessment, an index of deletion tombstones in a directory no backup    *)
(* includes, an append-only audit log, and daily backups of the rest.      *)
(* Requests of several server processes and an hourly sweep change these   *)
(* under one lock file per document (StoreLock); any of them may die.      *)
(*                                                                         *)
(*   record[a]   assessments/<a>.json: what is left of its content, whether*)
(*               it carries a tombstone (and is HIDDEN), primaryPurgedAt,  *)
(*               whether an artifact was accepted, runtimeAuditOutbox      *)
(*   tomb[a]     tombstones/<a>.json: backupPurgeState, cleanupAuditEvents *)
(*   lock        holder of each lock file: a task, Dead, or Blank: created *)
(*               but never written, and so attributable to nobody          *)
(*   log[a]      the audit lines of a, by event identifier                 *)
(*   backup[a]   the backup of record[a] in the backups                    *)
(*   age[a]      0 at deletion, 1 from 24 hours, 2 from 30 days on         *)
(*   task[t]     a request, the sweep, or nothing                          *)
(* History: emitted[a] lists the kinds of the events committed, an event   *)
(* identifier is an index into it; restored are the assessments brought    *)
(* back from a backup.                                                     *)
(***************************************************************************)
EXTENDS Integers, Sequences, FiniteSets

CONSTANTS
    Count,        \* number of assessments, numbered in the order of their ids
    Users,        \* requests at work at the same time
    Sweep,        \* the task that is the hourly sweep
    Parts,        \* raw content, semantic content
    Faults,       \* which of "blank", "adapter", "restore" happen
    MaxFaults,    \* bound: crashes and faults
    MaxBackups,   \* bound: distinct backup of a record kept
    MaxRequests,  \* bound: requests that change something
    None, Dead, Blank

VARIABLES record, tomb, lock, log, backup, age, task,
          emitted, restored, faults, requests

files == <<record, tomb, log>>
history == <<emitted, restored>>
bounds == <<faults, requests>>
vars == <<files, backup, age, history, lock, task, bounds>>

Assessments == 1..Count
Tasks == Users \cup {Sweep}

Kinds == {"hidden", "accepted", "purged", "expired", "due", "failed", "backupPurged"}

Record == [content: SUBSET Parts, own: BOOLEAN, purged: BOOLEAN,
           accepted: BOOLEAN, outbox: SUBSET Nat]

Tombstone == [state: {"none", "failed", "purged"}, cleanup: SUBSET Nat]

\* The two documents of an assessment have a lock file each.
Locks == {"record", "tombstone"} \X Assessments

Ops == {"none", "save", "delete", "accept", "view", "sweep"}

PCs == {"idle", "lock", "read", "append", "ack", "operate", "tombstone", "write",
        "purge", "unlock", "index", "shown"}

Task == [pc: PCs, op: Ops, at: 0..Count, half: {"record", "tombstone"},
         rec: Record \cup {None}, had: BOOLEAN, todo: SUBSET Nat,
         then: PCs, kinds: Seq(Kinds), state: {"none", "failed", "purged"},
         late: BOOLEAN, now: [Assessments -> 0..2]]

Idle == [pc |-> "idle", op |-> "none", at |-> 0, half |-> "record", rec |-> None,
         had |-> FALSE, todo |-> {}, then |-> "idle", kinds |-> << >>,
         state |-> "none", late |-> FALSE,
         now |-> [a \in Assessments |-> 0]]

ASSUME RetentionAssumption ==
    /\ Count \in Nat \ {0}
    /\ Sweep \notin Users
    /\ {None, Dead, Blank} \cap Tasks = {}
    /\ None \notin Record \cup Tombstone
    /\ None # Dead /\ None # Blank /\ Dead # Blank
    /\ Faults \subseteq {"blank", "adapter", "restore"}
    /\ MaxFaults \in Nat /\ MaxBackups \in Nat /\ MaxRequests \in Nat

\* What saveAssessment stores.
New == [content |-> Parts, own |-> FALSE, purged |-> FALSE, accepted |-> FALSE,
        outbox |-> {}]

\* Some assessments are there already.
Init ==
    /\ record \in [Assessments -> {None, New}]
    /\ tomb = [a \in Assessments |-> None]
    /\ lock = [l \in Locks |-> None]
    /\ log = [a \in Assessments |-> << >>]
    /\ backup = [a \in Assessments |-> {}]
    /\ age = [a \in Assessments |-> 0]
    /\ task = [t \in Tasks |-> Idle]
    /\ emitted = [a \in Assessments |-> << >>]
    /\ restored = {}
    /\ faults = 0
    /\ requests = 0

At(t, pc) == task[t].pc = pc
Doc(t) == <<task[t].half, task[t].at>>
Fresh == [state |-> "none", cleanup |-> {}]
Set(t, new) == task' = [task EXCEPT ![t] = new]
Goto(t, pc) == Set(t, [task[t] EXCEPT !.pc = pc])

-----------------------------------------------------------------------------
(* Requests and the sweep begin.                                             *)

\* saveAssessment looks for a tombstone before it takes the lock.
Start(t, op, a) ==
    /\ At(t, "idle")
    /\ t \in Users
    /\ op \in {"save", "delete", "accept"}
    /\ op = "save" => tomb[a] = None
    /\ requests < MaxRequests
    /\ requests' = requests + 1
    /\ Set(t, [Idle EXCEPT !.pc = "lock", !.op = op, !.at = a])
    /\ UNCHANGED <<files, backup, age, history, lock, faults>>

\* One time of day serves the whole sweep.
StartSweep ==
    /\ At(Sweep, "idle")
    /\ \E a \in Assessments : record[a] # None \/ tomb[a] # None
    /\ Set(Sweep, [Idle EXCEPT !.pc = "lock", !.op = "sweep", !.at = 1, !.now = age])
    /\ UNCHANGED <<files, backup, age, history, lock, bounds>>

\* acquireLock, as LockPromise promises it.
Lock(t) ==
    /\ At(t, "lock")
    /\ lock[Doc(t)] = None
    /\ lock' = [lock EXCEPT ![Doc(t)] = t]
    /\ Goto(t, "read")
    /\ UNCHANGED <<files, backup, age, history, bounds>>

\* After a hundred tries acquireLock throws; a sweep ends there, too.
LockBusy(t) ==
    /\ At(t, "lock")
    /\ lock[Doc(t)] # None
    /\ Set(t, Idle)
    /\ UNCHANGED <<files, backup, age, history, lock, bounds>>

Recover(l) ==
    /\ lock[l] = Dead
    /\ lock' = [lock EXCEPT ![l] = None]
    /\ UNCHANGED <<files, backup, age, history, task, bounds>>

\* release; the sweep goes on to the tombstone of the
\* assessment and from there to the next assessment.
Unlock(t) ==
    /\ At(t, "unlock")
    /\ lock' = [lock EXCEPT ![Doc(t)] = None]
    /\ LET op == task[t].op
           a == task[t].at
           next == [Idle EXCEPT !.pc = "lock", !.op = "sweep", !.now = task[t].now]
       IN Set(t, CASE op = "sweep" /\ task[t].half = "record" ->
                          [next EXCEPT !.at = a, !.half = "tombstone"]
                   [] op = "sweep" /\ task[t].half = "tombstone" /\ a < Count ->
                          [next EXCEPT !.at = a + 1]
                   [] OTHER -> Idle)
    /\ UNCHANGED <<files, backup, age, history, bounds>>

-----------------------------------------------------------------------------
(* mutateAssessmentWithAudit: the lock is held, the file is read.            *)

\* Mutant: the file decides.
IndexedByFile(a, r) == r

\* applyIndexedTombstone: the index decides, whatever the file says; a
\* tombstone only the file knows is put into the index.
Indexed(a, r) ==
    IF r # None /\ tomb[a] # None THEN [r EXCEPT !.own = TRUE] ELSE r

BackfilledTomb(a, r) ==
    IF r # None /\ r.own /\ tomb[a] = None THEN [tomb EXCEPT ![a] = Fresh] ELSE tomb

\* Mutant: the outbox is emptied without being appended.
FlushAcknowledges(t, r, then) ==
    [task[t] EXCEPT !.rec = r, !.todo = r.outbox, !.then = then,
                    !.pc = IF r.outbox = {} THEN then ELSE "ack"]

Flush(t, r, then) ==
    [task[t] EXCEPT !.rec = r, !.todo = r.outbox, !.then = then,
                    !.pc = IF r.outbox = {} THEN then ELSE "append"]

\* hadStoredDeletionTombstone looks at the object applyIndexedTombstone has
\* already changed.
Read(t) ==
    /\ At(t, "read")
    /\ task[t].half = "record"
    /\ LET a == task[t].at
           r == Indexed(a, record[a])
           had == r # None /\ r.own
       IN /\ tomb' = BackfilledTomb(a, record[a])
          /\ Set(t, CASE task[t].op = "save" -> [task[t] EXCEPT !.rec = r, !.pc = "operate"]
                      [] task[t].op # "save" /\ r = None -> [task[t] EXCEPT !.pc = "unlock"]
                      [] OTHER -> [Flush(t, r, "operate") EXCEPT !.had = had])
    /\ UNCHANGED <<record, log, backup, age, history, lock, bounds>>

Logged(a) == {log[a][i] : i \in DOMAIN log[a]}

\* Mutant: the log is not searched for the event.
AppendEventAgain(t) ==
    /\ At(t, "append")
    /\ \E e \in task[t].todo :
          LET rest == task[t].todo \ {e}
              acknowledge == IF task[t].half = "record" THEN "ack" ELSE task[t].then
          IN /\ \A n \in rest : e < n
             /\ log' = [log EXCEPT ![task[t].at] = Append(@, e)]
             /\ Set(t, [task[t] EXCEPT !.todo = rest,
                            !.pc = IF rest = {} THEN acknowledge ELSE "append"])
    /\ UNCHANGED <<record, tomb, backup, age, history, lock, bounds>>

\* appendRetentionAuditEventsOnce, event by event in their order.
AppendEvent(t) ==
    /\ At(t, "append")
    /\ \E e \in task[t].todo :
          LET a == task[t].at
              rest == task[t].todo \ {e}
              acknowledge == IF task[t].half = "record" THEN "ack" ELSE task[t].then
          IN /\ \A n \in rest : e < n
             /\ log' = IF e \in Logged(a) THEN log
                       ELSE [log EXCEPT ![a] = Append(@, e)]
             /\ Set(t, [task[t] EXCEPT !.todo = rest,
                            !.pc = IF rest = {} THEN acknowledge ELSE "append"])
    /\ UNCHANGED <<record, tomb, backup, age, history, lock, bounds>>

\* The outbox is emptied and the record written without it.
Acknowledge(t) ==
    /\ At(t, "ack")
    /\ LET r == [task[t].rec EXCEPT !.outbox = {}]
       IN /\ record' = [record EXCEPT ![task[t].at] = r]
          /\ Set(t, [task[t] EXCEPT !.rec = r, !.pc = task[t].then])
    /\ UNCHANGED <<tomb, log, backup, age, history, lock, bounds>>

Operation(t, op) == At(t, "operate") /\ task[t].op = op

\* The operation hands a record and events to the write that follows.
Commit(t, r, kinds, pc) ==
    /\ Set(t, [task[t] EXCEPT !.rec = r, !.kinds = kinds, !.pc = pc])
    /\ UNCHANGED <<files, backup, age, history, lock, bounds>>

Refuse(t) ==
    /\ Goto(t, "unlock")
    /\ UNCHANGED <<files, backup, age, history, lock, bounds>>

Save(t) ==
    /\ Operation(t, "save")
    /\ IF task[t].rec # None THEN Refuse(t)
       ELSE Commit(t, New, << >>, "write")

\* requestAssessmentDeletion.  A record that is already hidden reports the
\* event again only if it was read without a tombstone.
Delete(t) ==
    /\ Operation(t, "delete")
    /\ LET r == task[t].rec
       IN IF r.own
          THEN Commit(t, r, IF task[t].had THEN << >> ELSE <<"hidden">>, "write")
          ELSE Commit(t, [r EXCEPT !.own = TRUE], <<"hidden">>, "tombstone")

\* acceptAssessmentArtifact, and in the same way dismissing a recommendation.
Accept(t) ==
    /\ Operation(t, "accept")
    /\ LET r == task[t].rec
       IN IF r.own THEN Refuse(t)
          ELSE Commit(t, [r EXCEPT !.accepted = TRUE],
                      IF r.accepted THEN << >> ELSE <<"accepted">>, "write")

\* sweepAIAssessmentRetention: a deleted record loses its content after a
\* day, any record what is past its own term (180 days, one year).
SweepRecord(t, past) ==
    /\ Operation(t, "sweep")
    /\ LET r == task[t].rec
           due == r.own /\ task[t].now[task[t].at] >= 1 /\ ~r.purged
           kept == IF due THEN {} ELSE r.content
       IN Commit(t, [r EXCEPT !.content = kept \ past, !.purged = @ \/ due],
                 (IF due THEN <<"purged">> ELSE << >>) \o
                 (IF kept \cap past # {} THEN <<"expired">> ELSE << >>), "write")

\* writeDeletionTombstone, before the record is written; the first one stays.
WriteTombstone(t) ==
    /\ At(t, "tombstone")
    /\ tomb' = IF tomb[task[t].at] = None
               THEN [tomb EXCEPT ![task[t].at] = Fresh] ELSE tomb
    /\ Goto(t, "write")
    /\ UNCHANGED <<record, log, backup, age, history, lock, bounds>>

NewEvents(t) ==
    {Len(emitted[task[t].at]) + i : i \in 1..Len(task[t].kinds)}

Emit(t) ==
    emitted' = [emitted EXCEPT ![task[t].at] = @ \o task[t].kinds]

\* The record and its outbox reach the disk together, by a rename.
WriteRecord(t) ==
    /\ At(t, "write")
    /\ task[t].half = "record"
    /\ LET r == [task[t].rec EXCEPT !.outbox = @ \cup NewEvents(t)]
       IN /\ record' = [record EXCEPT ![task[t].at] = r]
          /\ Set(t, [Flush(t, r, "unlock") EXCEPT !.kinds = << >>])
    /\ Emit(t)
    /\ UNCHANGED <<tomb, log, backup, age, restored, lock, bounds>>

-----------------------------------------------------------------------------
(* mutateDeletionTombstoneWithAudit: the sweep purges the backups.           *)

ReadTombstone(t) ==
    /\ At(t, "read")
    /\ task[t].half = "tombstone"
    /\ LET doc == tomb[task[t].at]
           cleanup == IF doc = None THEN {} ELSE doc.cleanup
           then == IF doc = None THEN "unlock" ELSE "purge"
       IN Set(t, [task[t] EXCEPT !.todo = cleanup, !.then = then,
                      !.pc = IF cleanup = {} THEN then ELSE "append"])
    /\ UNCHANGED <<files, backup, age, history, lock, bounds>>

\* Mutant: a purge that failed is not tried again.
NothingToPurgeAgain(t) ==
    /\ At(t, "purge")
    /\ task[t].now[task[t].at] < 2 \/ tomb[task[t].at].state # "none"
    /\ Goto(t, "unlock")
    /\ UNCHANGED <<files, backup, age, history, lock, bounds>>

NothingToPurge(t) ==
    /\ At(t, "purge")
    /\ task[t].now[task[t].at] < 2 \/ tomb[task[t].at].state = "purged"
    /\ Goto(t, "unlock")
    /\ UNCHANGED <<files, backup, age, history, lock, bounds>>

\* Mutant: what the adapter left is not noticed.
PurgeBackupsUnverified(t, left) ==
    /\ At(t, "purge")
    /\ task[t].now[task[t].at] >= 2
    /\ tomb[task[t].at].state # "purged"
    /\ left \subseteq backup[task[t].at]
    /\ left # {} => "adapter" \in Faults /\ faults < MaxFaults
    /\ backup' = [backup EXCEPT ![task[t].at] = left]
    /\ faults' = IF left # {} THEN faults + 1 ELSE faults
    /\ Set(t, [task[t] EXCEPT !.pc = "write", !.state = "purged",
                              !.kinds = <<"backupPurged">>])
    /\ UNCHANGED <<files, age, history, lock, requests>>

\* Verify, remove, verify again: all backup are gone, or the adapter failed
\* and some are left.
PurgeBackups(t, left) ==
    /\ At(t, "purge")
    /\ LET a == task[t].at
           due == IF tomb[a].state = "none" THEN <<"due">> ELSE << >>
           failed == left # {}
       IN /\ task[t].now[a] >= 2
          /\ tomb[a].state # "purged"
          /\ left \subseteq backup[a]
          /\ failed => "adapter" \in Faults /\ faults < MaxFaults
          /\ backup' = [backup EXCEPT ![a] = left]
          /\ faults' = IF failed THEN faults + 1 ELSE faults
          /\ Set(t, [task[t] EXCEPT !.pc = "write",
                         !.state = IF failed THEN "failed" ELSE "purged",
                         !.kinds = due \o (IF failed THEN <<"failed">>
                                           ELSE <<"backupPurged">>)])
    /\ UNCHANGED <<files, age, history, lock, requests>>

WriteCleanup(t) ==
    /\ At(t, "write")
    /\ task[t].half = "tombstone"
    /\ LET a == task[t].at
           cleanup == tomb[a].cleanup \cup NewEvents(t)
       IN /\ tomb' = [tomb EXCEPT ![a] = [state |-> task[t].state, cleanup |-> cleanup]]
          /\ Set(t, [task[t] EXCEPT !.pc = "append", !.then = "unlock",
                         !.todo = cleanup, !.kinds = << >>])
    /\ Emit(t)
    /\ UNCHANGED <<record, log, backup, age, restored, lock, bounds>>

-----------------------------------------------------------------------------
(* Reading, without a lock: first the file, then the index.                  *)

View(t, a) ==
    /\ At(t, "idle")
    /\ t \in Users
    /\ record[a] # None
    /\ Set(t, [Idle EXCEPT !.pc = "index", !.op = "view", !.at = a,
                           !.rec = record[a], !.late = tomb[a] # None])
    /\ UNCHANGED <<files, backup, age, history, lock, bounds>>

ViewIndex(t) ==
    /\ At(t, "index")
    /\ LET a == task[t].at
       IN /\ tomb' = BackfilledTomb(a, task[t].rec)
          /\ IF Indexed(a, task[t].rec).own THEN Set(t, Idle) ELSE Goto(t, "shown")
    /\ UNCHANGED <<record, log, backup, age, history, lock, bounds>>

Viewed(t) ==
    /\ At(t, "shown")
    /\ Set(t, Idle)
    /\ UNCHANGED <<files, backup, age, history, lock, bounds>>

-----------------------------------------------------------------------------
(* Crashes, backups, time.                                                   *)

Holds(t) == task[t].pc \notin {"idle", "lock", "index", "shown"}

\* The process of a task dies; a lock file just created stays blank.
Crash(t) ==
    /\ ~At(t, "idle")
    /\ faults < MaxFaults
    /\ faults' = faults + 1
    /\ \/ lock' = IF Holds(t) THEN [lock EXCEPT ![Doc(t)] = Dead] ELSE lock
       \/ /\ "blank" \in Faults
          /\ At(t, "lock") /\ lock[Doc(t)] = None
          /\ lock' = [lock EXCEPT ![Doc(t)] = Blank]
    /\ Set(t, Idle)
    /\ UNCHANGED <<files, backup, age, history, requests>>

Backup(a) ==
    /\ record[a] # None
    /\ Cardinality(backup[a]) < MaxBackups
    /\ backup' = [backup EXCEPT ![a] = @ \cup {record[a]}]
    /\ UNCHANGED <<files, age, history, lock, task, bounds>>

\* With the service stopped, a file is copied back from a backup.
Restore(a) ==
    /\ "restore" \in Faults
    /\ faults < MaxFaults
    /\ \A t \in Tasks : At(t, "idle")
    /\ \E copy \in backup[a] : record' = [record EXCEPT ![a] = copy]
    /\ restored' = restored \cup {a}
    /\ faults' = faults + 1
    /\ UNCHANGED <<tomb, log, backup, age, emitted, lock, task, requests>>

Pass(a) ==
    /\ tomb[a] # None
    /\ age[a] < 2
    /\ age' = [age EXCEPT ![a] = @ + 1]
    /\ UNCHANGED <<files, backup, history, lock, task, bounds>>

-----------------------------------------------------------------------------

TaskStep(t) ==
    \/ Lock(t) \/ LockBusy(t) \/ Unlock(t)
    \/ Read(t) \/ AppendEvent(t) \/ Acknowledge(t)
    \/ Save(t) \/ Delete(t) \/ Accept(t) \/ \E past \in SUBSET Parts : SweepRecord(t, past)
    \/ WriteTombstone(t) \/ WriteRecord(t)
    \/ ReadTombstone(t) \/ NothingToPurge(t) \/ PurgeBackups(t, {}) \/ WriteCleanup(t)
    \/ ViewIndex(t) \/ Viewed(t)

Next ==
    \/ \E t \in Tasks, a \in Assessments :
          View(t, a) \/ \E op \in Ops : Start(t, op, a)
    \/ StartSweep
    \/ \E t \in Tasks : TaskStep(t) \/ Crash(t)
    \/ \E t \in Tasks : \E left \in SUBSET UNION {backup[a] : a \in Assessments} :
          left # {} /\ PurgeBackups(t, left)
    \/ \E l \in Locks : Recover(l)
    \/ \E a \in Assessments :
          Backup(a) \/ Restore(a) \/ Pass(a)

Spec == Init /\ [][Next]_vars

\* Requests come to an end, the timer starts a sweep every hour, dead owners'
\* locks are removed, time passes.
FairSpec ==
    /\ Spec
    /\ \A t \in Tasks : WF_vars(TaskStep(t))
    /\ WF_vars(StartSweep)
    /\ \A l \in Locks : WF_vars(Recover(l))
    /\ \A a \in Assessments : WF_vars(Pass(a))

-----------------------------------------------------------------------------

TypeOK ==
    /\ record \in [Assessments -> Record \cup {None}]
    /\ tomb \in [Assessments -> Tombstone \cup {None}]
    /\ lock \in [Locks -> Tasks \cup {None, Dead, Blank}]
    /\ log \in [Assessments -> Seq(Nat)]
    /\ backup \in [Assessments -> SUBSET Record]
    /\ age \in [Assessments -> 0..2]
    /\ task \in [Tasks -> Task]
    /\ emitted \in [Assessments -> Seq(Kinds)]
    /\ restored \subseteq Assessments
    /\ faults \in 0..MaxFaults
    /\ requests \in 0..MaxRequests

\* A read that begins once the tombstone is written shows nothing, whichever
\* request died half way and whatever was restored from a backup since
\* ("the independent tombstone keeps intercepting reads").
DeletedStaysHidden == \A t \in Tasks : ~(At(t, "shown") /\ task[t].late)

\* Once the backups count as purged, no content is left in them nor in the
\* record, and none comes back.
PurgeIsComplete ==
    \A a \in Assessments : tomb[a] # None /\ tomb[a].state = "purged" =>
        /\ record[a] # None => record[a].content = {}
        /\ \A copy \in backup[a] : copy.content = {}

\* No audit event is written twice, however often a crash makes the store
\* repeat its outbox.
AuditedOnce ==
    \A a \in Assessments : \A i, j \in DOMAIN log[a] :
        log[a][i] = log[a][j] => i = j

\* An event that was committed with a change is in the log or still waits in
\* a document that will be replayed.
NoEventLost ==
    \A a \in Assessments \ restored : \A e \in DOMAIN emitted[a] :
        \/ e \in Logged(a)
        \/ record[a] # None /\ e \in record[a].outbox
        \/ tomb[a] # None /\ e \in tomb[a].cleanup

\* An assessment that has a tombstone is not accepted any more.
NothingAcceptedAfterDeletion ==
    [][\A a \in Assessments :
          Len(emitted'[a]) > Len(emitted[a]) /\ emitted'[a][Len(emitted'[a])] = "accepted"
              => tomb[a] = None]_vars

\* Every deletion ends with the content gone from the record and the backups,
\* also when requests, sweeps and adapters fail, unless a process died between
\* creating a lock file and writing its name into it: nobody removes that one,
\* and every later sweep ends there.
PurgedEventually ==
    \A a \in Assessments :
        tomb[a] # None ~>
            \/ tomb[a] # None /\ tomb[a].state = "purged"
            \/ \E l \in Locks : lock[l] = Blank
=============================================================================
