------------------------ MODULE AiRetention_proofs ------------------------
(***************************************************************************)
(* Deletion, audit and purge, for any number of assessments, requests,     *)
(* crashes and faults.                                                     *)
(*                                                                         *)
(* Layers, each invariant given the ones before: Typed; Locked, who works  *)
(* on a document holds its lock; Deletions, the index knows every          *)
(* deletion.  On these rest Carried, no event is dropped on its way from   *)
(* an outbox to the log, and Purging, a sweep turns to the backups with    *)
(* the record empty.                                                       *)
(***************************************************************************)
EXTENDS AiRetention, TLAPS

-----------------------------------------------------------------------------
(* Types.                                                                    *)

\* Where a task may be, and what it has by then: the record it works on, the
\* assessment, and the tombstone whose backups it purges.
ShapeOf(t) ==
    /\ task[t].pc # "idle" => task[t].at \in Assessments
    /\ task[t].half = "tombstone" =>
          task[t].op = "sweep" /\ task[t].pc \in {"lock", "read", "append", "purge", "write", "unlock"}
    /\ task[t].pc \in {"ack", "tombstone", "index", "operate"} => task[t].half = "record"
    /\ task[t].pc \in {"ack", "tombstone", "index"} => task[t].rec # None
    /\ task[t].half = "record" /\ task[t].pc \in {"append", "write"} => task[t].rec # None
    /\ task[t].pc = "operate" /\ task[t].op # "save" => task[t].rec # None
    /\ task[t].pc = "purge" => task[t].half = "tombstone"
    /\ task[t].pc \in {"append", "ack"} =>
          \/ task[t].then = "unlock"
          \/ task[t].then = "operate" /\ task[t].half = "record" /\ task[t].op # "save"
          \/ task[t].then = "purge" /\ task[t].half = "tombstone"
    /\ task[t].pc = "purge" \/ (task[t].half = "tombstone" /\ task[t].pc = "write")
       \/ (task[t].pc = "append" /\ task[t].then = "purge")
          => tomb[task[t].at] # None

Shape == \A t \in Tasks : ShapeOf(t)

Typed == TypeOK /\ Shape

\* Only its own task moves in a step of a task, and no tombstone is removed.
LEMMA Moved ==
    ASSUME TypeOK, NEW t \in Tasks, NEW new \in Task, Set(t, new)
    PROVE  /\ task' \in [Tasks -> Task]
           /\ task'[t] = new
           /\ \A u \in Tasks \ {t} : task'[u] = task[u]
BY DEF Set, TypeOK

LEMMA ShapeKept ==
    ASSUME Shape, NEW u \in Tasks, task'[u] = task[u],
           \A a \in Assessments : tomb[a] # None => tomb'[a] # None,
           task[u] \in Task
    PROVE  ShapeOf(u)'
<1>1. ShapeOf(u)
  BY DEF Shape
<1>2. task[u].pc = "purge" \/ (task[u].half = "tombstone" /\ task[u].pc = "write")
       \/ (task[u].pc = "append" /\ task[u].then = "purge")
          => task[u].at \in Assessments
  BY <1>1 DEF ShapeOf
<1> QED
  BY <1>1, <1>2 DEF ShapeOf

LEMMA Numbered == \A a \in Assessments : a \in 0..Count
BY RetentionAssumption DEF Assessments

LEMMA IdleTyped ==
    /\ Idle \in Task
    /\ Idle.pc = "idle" /\ Idle.op = "none" /\ Idle.half = "record" /\ Idle.rec = None
    /\ Idle.kinds = << >> /\ ~Idle.late
    /\ Idle.now = [a \in Assessments |-> 0]
BY RetentionAssumption DEF Idle, Task, PCs, Ops

\* A step of task t to new, the rest of whose effect is typed.
LEMMA TypedStep ==
    ASSUME Typed, NEW t \in Tasks, NEW new \in Task, Set(t, new),
           \A a \in Assessments : tomb[a] # None => tomb'[a] # None,
           ShapeOf(t)',
           record' \in [Assessments -> Record \cup {None}],
           tomb' \in [Assessments -> Tombstone \cup {None}],
           lock' \in [Locks -> Tasks \cup {None, Dead, Blank}],
           log' \in [Assessments -> Seq(Nat)],
           backup' \in [Assessments -> SUBSET Record],
           age' \in [Assessments -> 0..2],
           emitted' \in [Assessments -> Seq(Kinds)],
           restored' \subseteq Assessments,
           faults' \in 0..MaxFaults,
           requests' \in 0..MaxRequests
    PROVE  Typed'
<1>1. /\ task' \in [Tasks -> Task]
      /\ \A u \in Tasks \ {t} : task'[u] = task[u]
  BY Moved DEF Typed
<1>2. TypeOK'
  BY <1>1 DEF TypeOK
<1>3. \A u \in Tasks : task[u] \in Task
  BY DEF Typed, TypeOK
<1>4. ASSUME NEW u \in Tasks PROVE ShapeOf(u)'
  <2>1. CASE u = t
    BY <2>1
  <2>2. CASE u # t
    BY <1>1, <1>3, <2>2, ShapeKept DEF Typed
  <2> QED
    BY <2>1, <2>2
<1> QED
  BY <1>2, <1>4 DEF Typed, Shape

\* The step ends at a place that asks nothing of it.
LEMMA RestShape ==
    ASSUME NEW t \in Tasks, NEW new \in Task, task'[t] = new,
           new.pc \in {"idle", "lock", "read", "unlock", "shown"},
           new.pc # "idle" => new.at \in Assessments,
           new.half = "tombstone" => new.op = "sweep" /\ new.pc \in {"lock", "read", "unlock"}
    PROVE  ShapeOf(t)'
BY DEF ShapeOf

\* A step that changes nothing but the task, and leads to such a place.
LEMMA RestStep ==
    ASSUME Typed, NEW t \in Tasks, NEW new \in Task, Set(t, new),
           new.pc \in {"idle", "lock", "read", "unlock", "shown"},
           new.pc # "idle" => new.at \in Assessments,
           new.half = "tombstone" => new.op = "sweep" /\ new.pc \in {"lock", "read", "unlock"},
           lock' \in [Locks -> Tasks \cup {None, Dead, Blank}],
           requests' \in 0..MaxRequests, faults' \in 0..MaxFaults,
           backup' \in [Assessments -> SUBSET Record],
           UNCHANGED <<files, age, history>>
    PROVE  Typed'
<1>1. task'[t] = new
  BY Moved DEF Typed
<1>2. ShapeOf(t)'
  BY <1>1, RestShape
<1>3. TypeOK
  BY DEF Typed
<1> QED
  BY <1>2, <1>3, TypedStep DEF TypeOK, files, history

\* What is known of a task at work.
LEMMA TaskTyped ==
    ASSUME Typed, NEW t \in Tasks
    PROVE  /\ task[t] \in Task /\ ShapeOf(t)
           /\ task[t].pc # "idle" => task[t].at \in Assessments
           /\ task[t].pc # "idle" => Doc(t) \in Locks
<1>1. task[t] \in Task /\ ShapeOf(t)
  BY DEF Typed, TypeOK, Shape
<1>2. task[t].pc # "idle" => task[t].at \in Assessments
  BY <1>1 DEF ShapeOf
<1>3. task[t].half \in {"record", "tombstone"}
  BY <1>1 DEF Task
<1> QED
  BY <1>1, <1>2, <1>3 DEF Doc, Locks

LEMMA TypedStart ==
    ASSUME Typed, NEW t \in Tasks, NEW a \in Assessments, NEW op \in Ops, Start(t, op, a)
    PROVE  Typed'
<1> DEFINE new == [Idle EXCEPT !.pc = "lock", !.op = op, !.at = a]
<1>1. Set(t, new) /\ UNCHANGED <<files, backup, age, history, lock, faults>>
      /\ requests < MaxRequests /\ requests' = requests + 1
  BY DEF Start
<1>2. /\ new \in Task /\ new.pc = "lock" /\ new.at = a /\ new.half = "record"
  BY IdleTyped, Numbered DEF Task, PCs
<1>3. requests' \in 0..MaxRequests
  BY <1>1, RetentionAssumption DEF Typed, TypeOK
<1>4. /\ lock' \in [Locks -> Tasks \cup {None, Dead, Blank}]
      /\ faults' \in 0..MaxFaults /\ backup' \in [Assessments -> SUBSET Record]
  BY <1>1 DEF Typed, TypeOK
<1> HIDE DEF new
<1> QED
  BY <1>1, <1>2, <1>3, <1>4, RestStep

LEMMA TypedStartSweep ==
    ASSUME Typed, StartSweep
    PROVE  Typed'
<1> DEFINE new == [Idle EXCEPT !.pc = "lock", !.op = "sweep", !.at = 1, !.now = age]
<1>1. Set(Sweep, new) /\ UNCHANGED <<files, backup, age, history, lock, bounds>>
  BY DEF StartSweep
<1>2. age \in [Assessments -> 0..2] /\ 1 \in Assessments /\ Sweep \in Tasks
  BY RetentionAssumption DEF Typed, TypeOK, Assessments, Tasks
<1>3. new \in Task /\ new.pc = "lock" /\ new.at = 1 /\ new.half = "record"
  BY <1>2, IdleTyped, Numbered DEF Task, PCs, Ops
<1>4. /\ lock' \in [Locks -> Tasks \cup {None, Dead, Blank}]
      /\ faults' \in 0..MaxFaults /\ requests' \in 0..MaxRequests
      /\ backup' \in [Assessments -> SUBSET Record]
  BY <1>1 DEF Typed, TypeOK, bounds
<1> HIDE DEF new
<1> QED
  BY <1>1, <1>2, <1>3, <1>4, RestStep

LEMMA TypedLock ==
    ASSUME Typed, NEW t \in Tasks, Lock(t)
    PROVE  Typed'
<1> DEFINE new == [task[t] EXCEPT !.pc = "read"]
<1>1. /\ Set(t, new) /\ UNCHANGED <<files, backup, age, history, bounds>>
      /\ lock' = [lock EXCEPT ![Doc(t)] = t] /\ task[t].pc = "lock"
  BY DEF Lock, Goto, At
<1>2. /\ new \in Task /\ new.pc = "read" /\ new.at \in Assessments
      /\ new.half = "tombstone" => new.op = "sweep"
  BY <1>1, TaskTyped DEF Task, PCs, ShapeOf
<1>3. /\ lock' \in [Locks -> Tasks \cup {None, Dead, Blank}]
      /\ faults' \in 0..MaxFaults /\ requests' \in 0..MaxRequests
      /\ backup' \in [Assessments -> SUBSET Record]
  BY <1>1 DEF Typed, TypeOK, bounds
<1> HIDE DEF new
<1> QED
  BY <1>1, <1>2, <1>3, RestStep

\* A task that gives up or ends.
LEMMA TypedIdle ==
    ASSUME Typed, NEW t \in Tasks, Set(t, Idle),
           lock' \in [Locks -> Tasks \cup {None, Dead, Blank}],
           faults' \in 0..MaxFaults, UNCHANGED <<files, backup, age, history, requests>>
    PROVE  Typed'
<1>1. Idle \in Task /\ Idle.pc = "idle" /\ Idle.half = "record"
  BY IdleTyped DEF Idle
<1>2. requests' \in 0..MaxRequests /\ backup' \in [Assessments -> SUBSET Record]
  BY DEF Typed, TypeOK
<1> QED
  BY <1>1, <1>2, RestStep

LEMMA TypedLockBusy ==
    ASSUME Typed, NEW t \in Tasks, LockBusy(t) \/ Viewed(t)
    PROVE  Typed'
<1>1. Set(t, Idle) /\ UNCHANGED <<files, backup, age, history, lock, bounds>>
  BY DEF LockBusy, Viewed
<1> QED
  BY <1>1, TypedIdle DEF Typed, TypeOK, bounds

LEMMA TypedCrash ==
    ASSUME Typed, NEW t \in Tasks, Crash(t)
    PROVE  Typed'
<1>1. /\ task[t].pc # "idle" /\ faults < MaxFaults /\ faults' = faults + 1
      /\ Set(t, Idle) /\ UNCHANGED <<files, backup, age, history, requests>>
  BY DEF Crash, At
<1>2. lock' \in [Locks -> Tasks \cup {None, Dead, Blank}]
  BY TaskTyped DEF Crash, Typed, TypeOK
<1>3. faults' \in 0..MaxFaults
  BY <1>1, RetentionAssumption DEF Typed, TypeOK
<1> QED
  BY <1>1, <1>2, <1>3, TypedIdle

LEMMA TypedUnlock ==
    ASSUME Typed, NEW t \in Tasks, Unlock(t)
    PROVE  Typed'
<1> DEFINE op == task[t].op
           a == task[t].at
           next == [Idle EXCEPT !.pc = "lock", !.op = "sweep", !.now = task[t].now]
           outcomes == {[next EXCEPT !.at = a, !.half = "tombstone"],
                        [next EXCEPT !.at = a + 1], Idle}
<1>1. /\ task[t].pc = "unlock" /\ lock' = [lock EXCEPT ![Doc(t)] = None]
      /\ UNCHANGED <<files, backup, age, history, bounds>>
  BY DEF Unlock, At
<1>2. task[t] \in Task /\ a \in Assessments /\ task[t].now \in [Assessments -> 0..2]
  BY <1>1, TaskTyped DEF Task
<1>3. /\ next \in Task /\ next.pc = "lock" /\ next.op = "sweep" /\ next.half = "record"
      /\ next.now = task[t].now
  BY <1>2, IdleTyped, ZenonT(40) DEF Task, PCs, Ops
<1>4. /\ lock' \in [Locks -> Tasks \cup {None, Dead, Blank}]
      /\ faults' \in 0..MaxFaults /\ requests' \in 0..MaxRequests
      /\ backup' \in [Assessments -> SUBSET Record]
  BY <1>1 DEF Typed, TypeOK, bounds
<1> HIDE DEF next
<1>5. CASE op = "sweep" /\ task[t].half = "record"
  <2> DEFINE new == [next EXCEPT !.at = a, !.half = "tombstone"]
  <2>1. Set(t, new)
    BY <1>5 DEF Unlock, next
  <2>2. new \in Task /\ new.pc = "lock" /\ new.at \in Assessments /\ new.op = "sweep"
    BY <1>2, <1>3 DEF Task, Assessments
  <2> HIDE DEF new
  <2> QED
    BY <1>1, <1>4, <2>1, <2>2, RestStep
<1>6. CASE op = "sweep" /\ task[t].half = "tombstone" /\ a < Count
  <2> DEFINE new == [next EXCEPT !.at = a + 1]
  <2>1. Set(t, new)
    BY <1>6 DEF Unlock, next
  <2>2. a + 1 \in Assessments
    BY <1>2, <1>6, RetentionAssumption DEF Assessments
  <2>3. new \in Task /\ new.pc = "lock" /\ new.at \in Assessments /\ new.op = "sweep"
    BY <1>3, <2>2 DEF Task, Assessments
  <2> HIDE DEF new
  <2> QED
    BY <1>1, <1>4, <2>1, <2>3, RestStep
<1>7. CASE ~(op = "sweep" /\ task[t].half = "record")
           /\ ~(op = "sweep" /\ task[t].half = "tombstone" /\ a < Count)
  <2>1. Set(t, Idle)
    BY <1>7 DEF Unlock
  <2> QED
    BY <1>1, <1>4, <2>1, TypedIdle DEF bounds
<1> QED
  BY <1>5, <1>6, <1>7

LEMMA FreshTyped == Fresh \in Tombstone /\ Fresh # None /\ Fresh.state = "none" /\ Fresh.cleanup = {}
BY RetentionAssumption DEF Fresh, Tombstone

LEMMA IndexedTyped ==
    ASSUME TypeOK, NEW a \in Assessments, NEW r \in Record \cup {None}
    PROVE  /\ Indexed(a, r) \in Record \cup {None}
           /\ Indexed(a, r) = None <=> r = None
           /\ r # None =>
                 /\ Indexed(a, r) \in Record
                 /\ Indexed(a, r).content = r.content /\ Indexed(a, r).outbox = r.outbox
                 /\ Indexed(a, r).purged = r.purged /\ Indexed(a, r).accepted = r.accepted
                 /\ Indexed(a, r).own <=> r.own \/ tomb[a] # None
<1>1. CASE r = None
  BY <1>1 DEF Indexed
<1>2. CASE r # None /\ tomb[a] # None
  <2>1. r \in Record /\ Indexed(a, r) = [r EXCEPT !.own = TRUE] /\ None \notin Record
    BY <1>2, RetentionAssumption DEF Indexed
  <2> QED
    BY <1>2, <2>1 DEF Record
<1>3. CASE r # None /\ tomb[a] = None
  BY <1>3 DEF Indexed, Record
<1> QED
  BY <1>1, <1>2, <1>3

LEMMA BackfilledTyped ==
    ASSUME TypeOK, NEW a \in Assessments, NEW r, tomb' = BackfilledTomb(a, r)
    PROVE  /\ tomb' \in [Assessments -> Tombstone \cup {None}]
           /\ \A b \in Assessments : tomb[b] # None => tomb'[b] = tomb[b]
BY FreshTyped DEF BackfilledTomb, TypeOK

LEMMA NoneIsNoDocument == None \notin Record /\ None \notin Tombstone
BY RetentionAssumption

LEMMA TypedRead ==
    ASSUME Typed, NEW t \in Tasks, Read(t)
    PROVE  Typed'
<1> DEFINE a == task[t].at
           r == Indexed(a, record[a])
           had == r # None /\ r.own
<1>1. /\ task[t].pc = "read" /\ task[t].half = "record" /\ tomb' = BackfilledTomb(a, record[a])
      /\ UNCHANGED <<record, log, backup, age, history, lock, bounds>>
  BY DEF Read, At
<1>2. task[t] \in Task /\ a \in Assessments /\ record[a] \in Record \cup {None}
  BY <1>1, TaskTyped DEF Typed, TypeOK
<1>3. /\ tomb' \in [Assessments -> Tombstone \cup {None}]
      /\ \A b \in Assessments : tomb[b] # None => tomb'[b] # None
  BY <1>1, <1>2, BackfilledTyped DEF Typed
<1>4. r \in Record \cup {None} /\ had \in BOOLEAN
  BY <1>2, IndexedTyped DEF Typed
<1>5. ASSUME NEW new \in Task, Set(t, new), ShapeOf(t)'
      PROVE  Typed'
  BY <1>1, <1>3, <1>5, TypedStep DEF Typed, TypeOK, history, bounds
<1> HIDE DEF r, had
<1>6. CASE task[t].op = "save"
  <2> DEFINE new == [task[t] EXCEPT !.rec = r, !.pc = "operate"]
  <2>1. Set(t, new)
    BY <1>6 DEF Read, r, had
  <2>2. /\ new \in Task /\ new.pc = "operate" /\ new.half = "record" /\ new.op = "save"
        /\ new.at = a
    BY <1>1, <1>2, <1>4, <1>6 DEF Task, PCs
  <2> HIDE DEF new
  <2>3. task'[t] = new
    BY <2>1, <2>2, Moved DEF Typed
  <2>4. ShapeOf(t)'
    BY <1>2, <2>2, <2>3 DEF ShapeOf
  <2> QED
    BY <1>5, <2>1, <2>2, <2>4
<1>7. CASE task[t].op # "save" /\ r = None
  <2> DEFINE new == [task[t] EXCEPT !.pc = "unlock"]
  <2>1. Set(t, new)
    BY <1>7 DEF Read, r, had
  <2>2. new \in Task /\ new.pc = "unlock" /\ new.half = "record" /\ new.at = a
    BY <1>1, <1>2, <1>4, <1>7 DEF Task, PCs
  <2> HIDE DEF new
  <2>3. task'[t] = new
    BY <2>1, <2>2, Moved DEF Typed
  <2>4. ShapeOf(t)'
    BY <1>2, <2>2, <2>3 DEF ShapeOf
  <2> QED
    BY <1>5, <2>1, <2>2, <2>4
<1>8. CASE task[t].op # "save" /\ r # None
  <2> DEFINE new == [Flush(t, r, "operate") EXCEPT !.had = had]
  <2>1. Set(t, new)
    BY <1>8 DEF Read, r, had
  <2>2. r \in Record
    BY <1>4, <1>8
  <2>3. /\ new \in Task /\ new.half = "record" /\ new.at = a /\ new.rec = r
        /\ new.op = task[t].op /\ new.then = "operate"
        /\ new.pc = IF r.outbox = {} THEN "operate" ELSE "append"
    BY <1>1, <1>2, <1>4, <2>2 DEF Task, PCs, Flush, Record
  <2> HIDE DEF new
  <2>4. task'[t] = new
    BY <2>1, <2>3, Moved DEF Typed
  <2>5. ShapeOf(t)'
    BY <1>2, <1>8, <2>3, <2>4 DEF ShapeOf
  <2> QED
    BY <1>5, <2>1, <2>3, <2>5
<1> QED
  BY <1>6, <1>7, <1>8

LEMMA TypedAppend ==
    ASSUME Typed, NEW t \in Tasks, AppendEvent(t)
    PROVE  Typed'
<1> PICK e \in task[t].todo :
          LET a == task[t].at
              rest == task[t].todo \ {e}
              acknowledge == IF task[t].half = "record" THEN "ack" ELSE task[t].then
          IN /\ log' = IF e \in Logged(a) THEN log
                       ELSE [log EXCEPT ![a] = Append(@, e)]
             /\ Set(t, [task[t] EXCEPT !.todo = rest,
                            !.pc = IF rest = {} THEN acknowledge ELSE "append"])
  BY DEF AppendEvent
<1> DEFINE a == task[t].at
           rest == task[t].todo \ {e}
           acknowledge == IF task[t].half = "record" THEN "ack" ELSE task[t].then
           pc == IF rest = {} THEN acknowledge ELSE "append"
           new == [task[t] EXCEPT !.todo = rest, !.pc = pc]
<1>1. /\ task[t].pc = "append" /\ Set(t, new)
      /\ log' = IF e \in Logged(a) THEN log ELSE [log EXCEPT ![a] = Append(@, e)]
      /\ UNCHANGED <<record, tomb, backup, age, history, lock, bounds>>
  BY DEF AppendEvent, At
<1>2. task[t] \in Task /\ ShapeOf(t) /\ a \in Assessments
  BY <1>1, TaskTyped
<1>3. task[t].todo \in SUBSET Nat
  BY <1>2 DEF Task
<1>4. e \in Nat
  BY <1>3
<1>5. log' \in [Assessments -> Seq(Nat)]
  BY <1>1, <1>2, <1>4 DEF Typed, TypeOK
<1>6. pc \in {"append", "ack", "unlock", "purge"} /\ pc \in PCs
  BY <1>1, <1>2 DEF ShapeOf, PCs
<1>7. /\ new \in Task /\ new.at = a /\ new.half = task[t].half /\ new.op = task[t].op
      /\ new.rec = task[t].rec /\ new.then = task[t].then /\ new.pc = pc
  BY <1>2, <1>3, <1>6 DEF Task
<1>8. task[t].half \in {"record", "tombstone"}
  BY <1>2 DEF Task
<1> HIDE DEF new
<1>9. task'[t] = new
  BY <1>1, <1>7, Moved DEF Typed
<1>10. ShapeOf(t)'
  <2>1. CASE pc = "append"
    BY <1>1, <1>2, <1>7, <1>8, <1>9, <2>1 DEF ShapeOf
  <2>2. CASE pc # "append" /\ task[t].half = "record"
    <3>1. pc = "ack" /\ task[t].rec # None
      BY <1>1, <1>2, <2>2 DEF ShapeOf
    <3> QED
      BY <1>1, <1>2, <1>7, <1>9, <2>2, <3>1 DEF ShapeOf
  <2>3. CASE pc # "append" /\ task[t].half = "tombstone"
    <3>1. pc = task[t].then /\ task[t].then \in {"unlock", "purge"}
      BY <1>1, <1>2, <2>3 DEF ShapeOf
    <3> QED
      BY <1>1, <1>2, <1>7, <1>9, <2>3, <3>1 DEF ShapeOf
  <2> QED
    BY <1>8, <2>1, <2>2, <2>3
<1> QED
  BY <1>1, <1>5, <1>7, <1>10, TypedStep DEF Typed, TypeOK, history, bounds

LEMMA TypedAcknowledge ==
    ASSUME Typed, NEW t \in Tasks, Acknowledge(t)
    PROVE  Typed'
<1> DEFINE a == task[t].at
           r == [task[t].rec EXCEPT !.outbox = {}]
           new == [task[t] EXCEPT !.rec = r, !.pc = task[t].then]
<1>1. /\ task[t].pc = "ack" /\ record' = [record EXCEPT ![a] = r] /\ Set(t, new)
      /\ UNCHANGED <<tomb, log, backup, age, history, lock, bounds>>
  BY DEF Acknowledge, At
<1>2. task[t] \in Task /\ ShapeOf(t) /\ a \in Assessments
  BY <1>1, TaskTyped
<1>3. task[t].half = "record" /\ task[t].rec # None /\ task[t].then \in {"unlock", "operate"}
      /\ (task[t].then = "operate" => task[t].op # "save")
  BY <1>1, <1>2 DEF ShapeOf
<1>4. r \in Record
  BY <1>2, <1>3 DEF Task, Record
<1>5. r # None
  BY <1>4, NoneIsNoDocument
<1> HIDE DEF r
<1>6. /\ new \in Task /\ new.at = a /\ new.half = "record" /\ new.op = task[t].op
      /\ new.rec = r /\ new.pc = task[t].then
  BY <1>2, <1>3, <1>4 DEF Task, PCs
<1> HIDE DEF new
<1>7. task'[t] = new
  BY <1>1, <1>6, Moved DEF Typed
<1>8. ShapeOf(t)'
  BY <1>2, <1>3, <1>5, <1>6, <1>7 DEF ShapeOf
<1>9. record' \in [Assessments -> Record \cup {None}]
  BY <1>1, <1>4 DEF Typed, TypeOK
<1> QED
  BY <1>1, <1>6, <1>8, <1>9, TypedStep DEF Typed, TypeOK, history, bounds

\* Operations hand over a record, events and the place to go on.
LEMMA TypedCommit ==
    ASSUME Typed, NEW t \in Tasks, task[t].pc = "operate", NEW r \in Record,
           NEW kinds \in Seq(Kinds), NEW pc \in {"write", "tombstone"},
           Commit(t, r, kinds, pc)
    PROVE  Typed'
<1> DEFINE new == [task[t] EXCEPT !.rec = r, !.kinds = kinds, !.pc = pc]
<1>1. Set(t, new) /\ UNCHANGED <<files, backup, age, history, lock, bounds>>
  BY DEF Commit
<1>2. task[t] \in Task /\ ShapeOf(t) /\ task[t].at \in Assessments /\ task[t].half = "record"
  BY TaskTyped DEF ShapeOf
<1>3. new \in Task /\ new.at = task[t].at /\ new.half = "record" /\ new.rec = r /\ new.pc = pc
  BY <1>2 DEF Task, PCs
<1> HIDE DEF new
<1>4. task'[t] = new
  BY <1>1, <1>3, Moved DEF Typed
<1>5. ShapeOf(t)'
  BY <1>2, <1>3, <1>4, NoneIsNoDocument DEF ShapeOf
<1> QED
  BY <1>1, <1>3, <1>5, TypedStep DEF Typed, TypeOK, files, history, bounds

LEMMA TypedGoto ==
    ASSUME Typed, NEW t \in Tasks, task[t].pc # "idle", NEW pc \in {"unlock", "shown"},
           pc = "shown" => task[t].half = "record",
           Goto(t, pc), UNCHANGED <<record, log, backup, age, history, lock, bounds>>,
           tomb' \in [Assessments -> Tombstone \cup {None}],
           \A a \in Assessments : tomb[a] # None => tomb'[a] # None
    PROVE  Typed'
<1> DEFINE new == [task[t] EXCEPT !.pc = pc]
<1>1. Set(t, new)
  BY DEF Goto
<1>2. task[t] \in Task /\ ShapeOf(t) /\ task[t].at \in Assessments
  BY TaskTyped
<1>3. /\ new \in Task /\ new.at = task[t].at /\ new.half = task[t].half /\ new.op = task[t].op
      /\ new.pc = pc
  BY <1>2 DEF Task, PCs
<1> HIDE DEF new
<1>4. task'[t] = new
  BY <1>1, <1>3, Moved DEF Typed
<1>5. ShapeOf(t)'
  BY <1>2, <1>3, <1>4 DEF ShapeOf
<1> QED
  BY <1>1, <1>3, <1>5, TypedStep DEF Typed, TypeOK, history, bounds

LEMMA TypedRefuse ==
    ASSUME Typed, NEW t \in Tasks, task[t].pc # "idle", Refuse(t)
    PROVE  Typed'
<1>1. Goto(t, "unlock") /\ UNCHANGED <<record, tomb, log, backup, age, history, lock, bounds>>
  BY DEF Refuse, files
<1> QED
  BY <1>1, TypedGoto DEF Typed, TypeOK

LEMMA NewTyped == New \in Record
BY DEF New, Record

LEMMA TypedOperations ==
    ASSUME Typed, NEW t \in Tasks,
           Save(t) \/ Delete(t) \/ Accept(t) \/ \E past \in SUBSET Parts : SweepRecord(t, past)
    PROVE  Typed'
<1> DEFINE r == task[t].rec
<1>1. task[t].pc = "operate" /\ task[t] \in Task /\ ShapeOf(t)
  BY TaskTyped DEF Save, Delete, Accept, SweepRecord, Operation, At
<1>2. /\ task[t].op # "save" => r \in Record
      /\ task[t].at \in Assessments
  BY <1>1 DEF ShapeOf, Task
<1>3. \A k, l \in Kinds : << >> \in Seq(Kinds) /\ <<k>> \in Seq(Kinds) /\ <<k, l>> \in Seq(Kinds)
  OBVIOUS
<1>4. {"hidden", "accepted", "purged", "expired"} \subseteq Kinds
  BY DEF Kinds
<1>5. CASE Save(t)
  <2>1. CASE r # None
    BY <1>1, <1>5, <2>1, TypedRefuse DEF Save
  <2>2. CASE r = None
    <3>1. Commit(t, New, << >>, "write")
      BY <1>5, <2>2 DEF Save
    <3>2. New \in Record /\ << >> \in Seq(Kinds)
      BY NewTyped
    <3> QED
      BY <1>1, <3>1, <3>2, TypedCommit
  <2> QED
    BY <2>1, <2>2
<1>6. CASE Delete(t)
  <2>1. r \in Record
    BY <1>2, <1>6 DEF Delete, Operation
  <2>2. CASE r.own
    <3> DEFINE kinds == IF task[t].had THEN << >> ELSE <<"hidden">>
    <3>1. Commit(t, r, kinds, "write")
      BY <1>6, <2>2 DEF Delete
    <3>2. kinds \in Seq(Kinds)
      BY <1>3, <1>4
    <3> QED
      BY <1>1, <2>1, <3>1, <3>2, TypedCommit
  <2>3. CASE ~r.own
    <3> DEFINE q == [r EXCEPT !.own = TRUE]
    <3>1. Commit(t, q, <<"hidden">>, "tombstone")
      BY <1>6, <2>3 DEF Delete
    <3>2. q \in Record /\ <<"hidden">> \in Seq(Kinds)
      BY <1>3, <1>4, <2>1 DEF Record
    <3> QED
      BY <1>1, <3>1, <3>2, TypedCommit
  <2> QED
    BY <2>2, <2>3
<1>7. CASE Accept(t)
  <2>1. r \in Record
    BY <1>2, <1>7 DEF Accept, Operation
  <2>2. CASE r.own
    BY <1>1, <1>7, <2>2, TypedRefuse DEF Accept
  <2>3. CASE ~r.own
    <3> DEFINE q == [r EXCEPT !.accepted = TRUE]
               kinds == IF r.accepted THEN << >> ELSE <<"accepted">>
    <3>1. Commit(t, q, kinds, "write")
      BY <1>7, <2>3 DEF Accept
    <3>2. q \in Record /\ kinds \in Seq(Kinds)
      BY <1>3, <1>4, <2>1 DEF Record
    <3> QED
      BY <1>1, <3>1, <3>2, TypedCommit
  <2> QED
    BY <2>2, <2>3
<1>8. CASE \E past \in SUBSET Parts : SweepRecord(t, past)
  <2>1. PICK past \in SUBSET Parts : SweepRecord(t, past)
    BY <1>8
  <2> DEFINE due == r.own /\ task[t].now[task[t].at] >= 1 /\ ~r.purged
             kept == IF due THEN {} ELSE r.content
             q == [r EXCEPT !.content = kept \ past, !.purged = @ \/ due]
             k1 == IF due THEN <<"purged">> ELSE << >>
             k2 == IF kept \cap past # {} THEN <<"expired">> ELSE << >>
  <2>2. Commit(t, q, k1 \o k2, "write") /\ task[t].op = "sweep"
    BY <2>1 DEF SweepRecord, Operation
  <2>3. r \in Record
    BY <1>2, <2>2
  <2>4. kept \subseteq Parts /\ due \in BOOLEAN /\ r.purged \in BOOLEAN
    <3>1. r.own \in BOOLEAN /\ r.purged \in BOOLEAN /\ r.content \subseteq Parts
      BY <2>3 DEF Record
    <3> QED
      BY <3>1
  <2>5. k1 \in Seq(Kinds) /\ k2 \in Seq(Kinds)
    BY <1>3, <1>4
  <2> HIDE DEF due, kept, k1, k2
  <2>6. q \in Record
    BY <2>3, <2>4 DEF Record
  <2>7. k1 \o k2 \in Seq(Kinds)
    BY <2>5
  <2> HIDE DEF q
  <2> QED
    BY <1>1, <2>2, <2>6, <2>7, TypedCommit
<1> QED
  BY <1>5, <1>6, <1>7, <1>8

LEMMA TypedWriteTombstone ==
    ASSUME Typed, NEW t \in Tasks, WriteTombstone(t)
    PROVE  Typed'
<1> DEFINE a == task[t].at
           new == [task[t] EXCEPT !.pc = "write"]
<1>1. /\ task[t].pc = "tombstone" /\ Set(t, new)
      /\ tomb' = IF tomb[a] = None THEN [tomb EXCEPT ![a] = Fresh] ELSE tomb
      /\ UNCHANGED <<record, log, backup, age, history, lock, bounds>>
  BY DEF WriteTombstone, At, Goto
<1>2. task[t] \in Task /\ ShapeOf(t) /\ a \in Assessments
  BY <1>1, TaskTyped
<1>3. task[t].half = "record" /\ task[t].rec # None
  BY <1>1, <1>2 DEF ShapeOf
<1>4. /\ new \in Task /\ new.at = a /\ new.half = "record" /\ new.rec = task[t].rec
      /\ new.pc = "write"
  BY <1>2, <1>3 DEF Task, PCs
<1> HIDE DEF new
<1>5. task'[t] = new
  BY <1>1, <1>4, Moved DEF Typed
<1>6. ShapeOf(t)'
  BY <1>2, <1>3, <1>4, <1>5 DEF ShapeOf
<1>7. /\ tomb' \in [Assessments -> Tombstone \cup {None}]
      /\ \A b \in Assessments : tomb[b] # None => tomb'[b] # None
  BY <1>1, <1>2, FreshTyped DEF Typed, TypeOK
<1> QED
  BY <1>1, <1>4, <1>6, <1>7, TypedStep DEF Typed, TypeOK, history, bounds

LEMMA EmittedTyped ==
    ASSUME Typed, NEW t \in Tasks, task[t].pc # "idle", Emit(t)
    PROVE  /\ emitted' \in [Assessments -> Seq(Kinds)]
           /\ NewEvents(t) \subseteq Nat
<1> DEFINE a == task[t].at
<1>1. a \in Assessments /\ task[t].kinds \in Seq(Kinds) /\ emitted[a] \in Seq(Kinds)
  BY TaskTyped DEF Task, Typed, TypeOK
<1>2. emitted[a] \o task[t].kinds \in Seq(Kinds) /\ Len(emitted[a]) \in Nat
  BY <1>1
<1>3. emitted' \in [Assessments -> Seq(Kinds)]
  BY <1>1, <1>2 DEF Emit, Typed, TypeOK
<1>4. NewEvents(t) \subseteq Nat
  BY <1>1, <1>2 DEF NewEvents
<1> QED
  BY <1>3, <1>4

LEMMA TypedWriteRecord ==
    ASSUME Typed, NEW t \in Tasks, WriteRecord(t)
    PROVE  Typed'
<1> DEFINE a == task[t].at
           r == [task[t].rec EXCEPT !.outbox = @ \cup NewEvents(t)]
           new == [Flush(t, r, "unlock") EXCEPT !.kinds = << >>]
<1>1. /\ task[t].pc = "write" /\ task[t].half = "record" /\ Set(t, new) /\ Emit(t)
      /\ record' = [record EXCEPT ![a] = r]
      /\ UNCHANGED <<tomb, log, backup, age, restored, lock, bounds>>
  BY DEF WriteRecord, At
<1>2. task[t] \in Task /\ ShapeOf(t) /\ a \in Assessments
  BY <1>1, TaskTyped
<1>3. /\ emitted' \in [Assessments -> Seq(Kinds)] /\ NewEvents(t) \subseteq Nat
  BY <1>1, EmittedTyped
<1>4. task[t].rec \in Record
  BY <1>1, <1>2 DEF ShapeOf, Task
<1>5. r \in Record
  BY <1>3, <1>4 DEF Record
<1>6. r # None
  BY <1>5, NoneIsNoDocument
<1> HIDE DEF r
<1>7. << >> \in Seq(Kinds)
  OBVIOUS
<1>8. /\ new \in Task /\ new.at = a /\ new.half = "record" /\ new.rec = r /\ new.then = "unlock"
      /\ new.pc = IF r.outbox = {} THEN "unlock" ELSE "append"
  BY <1>1, <1>2, <1>5, <1>7 DEF Task, PCs, Flush, Record
<1> HIDE DEF new
<1>9. task'[t] = new
  BY <1>1, <1>8, Moved DEF Typed
<1>10. ShapeOf(t)'
  BY <1>2, <1>6, <1>8, <1>9 DEF ShapeOf
<1>11. record' \in [Assessments -> Record \cup {None}]
  BY <1>1, <1>5 DEF Typed, TypeOK
<1> QED
  BY <1>1, <1>3, <1>8, <1>10, <1>11, TypedStep DEF Typed, TypeOK, bounds

LEMMA TypedReadTombstone ==
    ASSUME Typed, NEW t \in Tasks, ReadTombstone(t)
    PROVE  Typed'
<1> DEFINE a == task[t].at
           doc == tomb[a]
           cleanup == IF doc = None THEN {} ELSE doc.cleanup
           then == IF doc = None THEN "unlock" ELSE "purge"
           new == [task[t] EXCEPT !.todo = cleanup, !.then = then,
                                  !.pc = IF cleanup = {} THEN then ELSE "append"]
<1>1. /\ task[t].pc = "read" /\ task[t].half = "tombstone" /\ Set(t, new)
      /\ UNCHANGED <<files, backup, age, history, lock, bounds>>
  BY DEF ReadTombstone, At
<1>2. task[t] \in Task /\ ShapeOf(t) /\ a \in Assessments
  BY <1>1, TaskTyped
<1>3. cleanup \in SUBSET Nat
  BY <1>2 DEF Typed, TypeOK, Tombstone
<1>4. then \in {"unlock", "purge"} /\ (then = "purge" => tomb[a] # None)
  OBVIOUS
<1> HIDE DEF cleanup, then
<1>5. /\ new \in Task /\ new.at = a /\ new.half = "tombstone" /\ new.op = task[t].op
      /\ new.then = then /\ new.pc = IF cleanup = {} THEN then ELSE "append"
  BY <1>1, <1>2, <1>3, <1>4 DEF Task, PCs
<1> HIDE DEF new
<1>6. task'[t] = new
  BY <1>1, <1>5, Moved DEF Typed
<1>7. ShapeOf(t)'
  BY <1>1, <1>2, <1>4, <1>5, <1>6 DEF ShapeOf, files
<1> QED
  BY <1>1, <1>5, <1>7, TypedStep DEF Typed, TypeOK, files, history, bounds

LEMMA TypedNothingToPurge ==
    ASSUME Typed, NEW t \in Tasks, NothingToPurge(t)
    PROVE  Typed'
<1>1. /\ task[t].pc = "purge" /\ Goto(t, "unlock")
      /\ UNCHANGED <<record, tomb, log, backup, age, history, lock, bounds>>
  BY DEF NothingToPurge, At, files
<1> QED
  BY <1>1, TypedGoto DEF Typed, TypeOK

LEMMA TypedPurgeBackups ==
    ASSUME Typed, NEW t \in Tasks, NEW left, PurgeBackups(t, left)
    PROVE  Typed'
<1> DEFINE a == task[t].at
           due == IF tomb[a].state = "none" THEN <<"due">> ELSE << >>
           failed == left # {}
           state == IF failed THEN "failed" ELSE "purged"
           kinds == due \o (IF failed THEN <<"failed">> ELSE <<"backupPurged">>)
           new == [task[t] EXCEPT !.pc = "write", !.state = state, !.kinds = kinds]
<1>1. /\ task[t].pc = "purge" /\ Set(t, new) /\ left \subseteq backup[a]
      /\ failed => faults < MaxFaults
      /\ backup' = [backup EXCEPT ![a] = left]
      /\ faults' = IF failed THEN faults + 1 ELSE faults
      /\ UNCHANGED <<files, age, history, lock, requests>>
  BY DEF PurgeBackups, At
<1>2. task[t] \in Task /\ ShapeOf(t) /\ a \in Assessments
  BY <1>1, TaskTyped
<1>3. task[t].half = "tombstone" /\ tomb[a] # None
  BY <1>1, <1>2 DEF ShapeOf
<1>4. kinds \in Seq(Kinds)
  <2>1. "due" \in Kinds /\ "failed" \in Kinds /\ "backupPurged" \in Kinds
    BY DEF Kinds
  <2>2. \A k, l \in Kinds : << >> \o <<k>> \in Seq(Kinds) /\ <<l>> \o <<k>> \in Seq(Kinds)
    OBVIOUS
  <2> QED
    BY <2>1, <2>2
<1>5. state \in {"none", "failed", "purged"}
  OBVIOUS
<1> HIDE DEF kinds, state
<1>6. new \in Task /\ new.at = a /\ new.half = "tombstone" /\ new.op = task[t].op /\ new.pc = "write"
  BY <1>2, <1>3, <1>4, <1>5 DEF Task, PCs
<1> HIDE DEF new
<1>7. task'[t] = new
  BY <1>1, <1>6, Moved DEF Typed
<1>8. ShapeOf(t)'
  BY <1>1, <1>2, <1>3, <1>6, <1>7 DEF ShapeOf, files
<1>9. backup' \in [Assessments -> SUBSET Record] /\ faults' \in 0..MaxFaults
  BY <1>1, <1>2, RetentionAssumption DEF Typed, TypeOK
<1> QED
  BY <1>1, <1>6, <1>8, <1>9, TypedStep DEF Typed, TypeOK, files, history

LEMMA TypedWriteCleanup ==
    ASSUME Typed, NEW t \in Tasks, WriteCleanup(t)
    PROVE  Typed'
<1> DEFINE a == task[t].at
           cleanup == tomb[a].cleanup \cup NewEvents(t)
           doc == [state |-> task[t].state, cleanup |-> cleanup]
           new == [task[t] EXCEPT !.pc = "append", !.then = "unlock",
                                  !.todo = cleanup, !.kinds = << >>]
<1>1. /\ task[t].pc = "write" /\ task[t].half = "tombstone" /\ Set(t, new) /\ Emit(t)
      /\ tomb' = [tomb EXCEPT ![a] = doc]
      /\ UNCHANGED <<record, log, backup, age, restored, lock, bounds>>
  BY DEF WriteCleanup, At
<1>2. task[t] \in Task /\ ShapeOf(t) /\ a \in Assessments
  BY <1>1, TaskTyped
<1>3. emitted' \in [Assessments -> Seq(Kinds)] /\ NewEvents(t) \subseteq Nat
  BY <1>1, EmittedTyped
<1>4. tomb[a] \in Tombstone /\ task[t].state \in {"none", "failed", "purged"}
  BY <1>1, <1>2 DEF ShapeOf, Typed, TypeOK, Task
<1>5. cleanup \in SUBSET Nat
  BY <1>3, <1>4 DEF Tombstone
<1> HIDE DEF cleanup
<1>6. doc \in Tombstone
  BY <1>4, <1>5 DEF Tombstone
<1>7. doc # None
  BY <1>6, NoneIsNoDocument
<1> HIDE DEF doc
<1>8. << >> \in Seq(Kinds)
  OBVIOUS
<1>9. /\ new \in Task /\ new.at = a /\ new.half = "tombstone" /\ new.op = task[t].op
      /\ new.then = "unlock" /\ new.pc = "append"
  BY <1>1, <1>2, <1>5, <1>8 DEF Task, PCs
<1> HIDE DEF new
<1>10. task'[t] = new
  BY <1>1, <1>9, Moved DEF Typed
<1>11. ShapeOf(t)'
  BY <1>1, <1>2, <1>9, <1>10 DEF ShapeOf
<1>12. /\ tomb' \in [Assessments -> Tombstone \cup {None}]
       /\ \A b \in Assessments : tomb[b] # None => tomb'[b] # None
  BY <1>1, <1>2, <1>6, <1>7 DEF Typed, TypeOK
<1> QED
  BY <1>1, <1>3, <1>9, <1>11, <1>12, TypedStep DEF Typed, TypeOK, bounds

LEMMA TypedView ==
    ASSUME Typed, NEW t \in Tasks, NEW a \in Assessments, View(t, a)
    PROVE  Typed'
<1> DEFINE new == [Idle EXCEPT !.pc = "index", !.op = "view", !.at = a,
                               !.rec = record[a], !.late = tomb[a] # None]
<1>1. record[a] # None /\ Set(t, new) /\ UNCHANGED <<files, backup, age, history, lock, bounds>>
  BY DEF View
<1>2. record[a] \in Record \cup {None}
  BY DEF Typed, TypeOK
<1>3. /\ new \in Task /\ new.pc = "index" /\ new.at = a /\ new.half = "record"
      /\ new.rec = record[a]
  BY <1>2, IdleTyped, Numbered DEF Task, PCs, Ops
<1> HIDE DEF new
<1>4. task'[t] = new
  BY <1>1, <1>3, Moved DEF Typed
<1>5. ShapeOf(t)'
  BY <1>1, <1>3, <1>4 DEF ShapeOf
<1> QED
  BY <1>1, <1>3, <1>5, TypedStep DEF Typed, TypeOK, files, history, bounds

LEMMA TypedViewIndex ==
    ASSUME Typed, NEW t \in Tasks, ViewIndex(t)
    PROVE  Typed'
<1> DEFINE a == task[t].at
<1>1. /\ task[t].pc = "index" /\ tomb' = BackfilledTomb(a, task[t].rec)
      /\ Set(t, Idle) \/ Goto(t, "shown")
      /\ UNCHANGED <<record, log, backup, age, history, lock, bounds>>
  BY DEF ViewIndex, At
<1>2. task[t] \in Task /\ ShapeOf(t) /\ a \in Assessments /\ task[t].half = "record"
  BY <1>1, TaskTyped DEF ShapeOf
<1>3. /\ tomb' \in [Assessments -> Tombstone \cup {None}]
      /\ \A b \in Assessments : tomb[b] # None => tomb'[b] # None
  BY <1>1, <1>2, BackfilledTyped DEF Typed
<1>4. CASE Set(t, Idle)
  <2>1. task'[t] = Idle
    BY <1>4, IdleTyped, Moved DEF Typed
  <2>2. ShapeOf(t)'
    BY <2>1, IdleTyped, RestShape
  <2> QED
    BY <1>1, <1>3, <1>4, <2>2, IdleTyped, TypedStep DEF Typed, TypeOK, history, bounds
<1>5. CASE Goto(t, "shown")
  BY <1>1, <1>2, <1>3, <1>5, TypedGoto
<1> QED
  BY <1>1, <1>4, <1>5

\* What happens outside tasks.
LEMMA TypedOutside ==
    ASSUME Typed,
           \/ \E l \in Locks : Recover(l)
           \/ \E a \in Assessments : Backup(a) \/ Restore(a) \/ Pass(a)
           \/ UNCHANGED vars
    PROVE  Typed'
<1>1. UNCHANGED <<task, tomb>>
  BY DEF Recover, Backup, Restore, Pass, files, vars
<1>2. Shape'
  BY <1>1 DEF Typed, Shape, ShapeOf
<1>3. CASE \E l \in Locks : Recover(l)
  BY <1>2, <1>3 DEF Recover, Typed, TypeOK, files, history, bounds
<1>4. ASSUME NEW a \in Assessments, Backup(a) PROVE TypeOK'
  <2>1. record[a] \in Record
    BY <1>4 DEF Backup, Typed, TypeOK
  <2>2. backup' \in [Assessments -> SUBSET Record]
    BY <1>4, <2>1 DEF Backup, Typed, TypeOK
  <2> QED
    BY <1>4, <2>2 DEF Backup, Typed, TypeOK, files, history, bounds
<1>5. ASSUME NEW a \in Assessments, Restore(a) PROVE TypeOK'
  <2>1. record' \in [Assessments -> Record \cup {None}]
    BY <1>5 DEF Restore, Typed, TypeOK
  <2>2. faults' \in 0..MaxFaults /\ restored' \subseteq Assessments
    BY <1>5, RetentionAssumption DEF Restore, Typed, TypeOK
  <2> QED
    BY <1>5, <2>1, <2>2 DEF Restore, Typed, TypeOK
<1>6. ASSUME NEW a \in Assessments, Pass(a) PROVE TypeOK'
  <2>1. age' \in [Assessments -> 0..2]
    <3>1. age[a] \in 0..2 /\ age[a] < 2 /\ age' = [age EXCEPT ![a] = age[a] + 1]
      BY <1>6 DEF Pass, Typed, TypeOK
    <3>2. age[a] + 1 \in 0..2
      BY <3>1
    <3> QED
      BY <3>1, <3>2 DEF Typed, TypeOK
  <2> QED
    BY <1>6, <2>1 DEF Pass, Typed, TypeOK, files, history, bounds
<1>7. CASE UNCHANGED vars
  BY <1>2, <1>7 DEF vars, Typed, TypeOK, files, history, bounds
<1> QED
  BY <1>2, <1>3, <1>4, <1>5, <1>6, <1>7 DEF Typed

LEMMA TypedNext == Typed /\ [Next]_vars => Typed'
<1> SUFFICES ASSUME Typed, [Next]_vars PROVE Typed'
  OBVIOUS
<1>1. ASSUME NEW t \in Tasks, TaskStep(t) PROVE Typed'
  BY <1>1, TypedLock, TypedLockBusy, TypedUnlock, TypedRead, TypedAppend, TypedAcknowledge,
     TypedOperations, TypedWriteTombstone, TypedWriteRecord, TypedReadTombstone,
     TypedNothingToPurge, TypedPurgeBackups, TypedWriteCleanup, TypedViewIndex DEF TaskStep
<1>2. ASSUME NEW t \in Tasks, NEW a \in Assessments, View(t, a) \/ \E op \in Ops : Start(t, op, a)
      PROVE  Typed'
  BY <1>2, TypedView, TypedStart
<1> QED
  BY <1>1, <1>2, TypedStartSweep, TypedCrash, TypedPurgeBackups, TypedOutside DEF Next

LEMMA TypedInit == Init => Typed
<1> SUFFICES ASSUME Init PROVE Typed
  OBVIOUS
<1>1. record \in [Assessments -> Record \cup {None}]
  BY NewTyped DEF Init
<1>2. << >> \in Seq(Nat) /\ << >> \in Seq(Kinds)
  OBVIOUS
<1>3. TypeOK
  BY <1>1, <1>2, IdleTyped, RetentionAssumption DEF Init, TypeOK
<1>4. \A t \in Tasks : task[t] = Idle
  BY DEF Init
<1>5. Shape
  BY <1>4, IdleTyped DEF Shape, ShapeOf
<1> QED
  BY <1>3, <1>5 DEF Typed

\* Every reachable state is well-typed, and every task has what its place in
\* the code takes for granted.
THEOREM Typing == Spec => []TypeOK
<1>1. Typed => TypeOK
  BY DEF Typed
<1>2. Spec => []Typed
  BY TypedInit, TypedNext, PTL DEF Spec
<1> QED
  BY <1>1, <1>2, PTL

-----------------------------------------------------------------------------
(* What the steps do to the task that takes them.                            *)

Others(t) == \A u \in Tasks \ {t} : task'[u] = task[u]

Kept(t) ==
    /\ task'[t].at = task[t].at /\ task'[t].half = task[t].half
    /\ task'[t].op = task[t].op /\ task'[t].now = task[t].now
    /\ task'[t].late = task[t].late

Same(t) ==
    /\ task'[t].rec = task[t].rec /\ task'[t].then = task[t].then
    /\ task'[t].todo = task[t].todo /\ task'[t].kinds = task[t].kinds
    /\ task'[t].state = task[t].state

Goes(t, pc) == Others(t) /\ Kept(t) /\ Same(t) /\ task'[t].pc = pc

LEMMA GotoEffect ==
    ASSUME Typed, NEW t \in Tasks, NEW pc \in PCs, Goto(t, pc)
    PROVE  Goes(t, pc)
<1> DEFINE new == [task[t] EXCEPT !.pc = pc]
<1>1. task[t] \in Task
  BY TaskTyped
<1>2. /\ new \in Task /\ new.pc = pc
      /\ new.at = task[t].at /\ new.half = task[t].half /\ new.op = task[t].op
      /\ new.now = task[t].now /\ new.late = task[t].late /\ new.rec = task[t].rec
      /\ new.then = task[t].then /\ new.todo = task[t].todo /\ new.kinds = task[t].kinds
      /\ new.state = task[t].state
  BY <1>1 DEF Task
<1>3. Set(t, new)
  BY DEF Goto
<1> HIDE DEF new
<1> QED
  BY <1>2, <1>3, Moved DEF Typed, Goes, Others, Kept, Same

LEMMA IdleEffect ==
    ASSUME Typed, NEW t \in Tasks, Set(t, Idle)
    PROVE  Others(t) /\ task'[t] = Idle
BY IdleTyped, Moved DEF Typed, Others

LEMMA CommitEffect ==
    ASSUME Typed, NEW t \in Tasks, NEW r \in Record, NEW kinds \in Seq(Kinds),
           NEW pc \in {"write", "tombstone"}, Commit(t, r, kinds, pc)
    PROVE  /\ Others(t) /\ Kept(t) /\ task'[t].pc = pc /\ task'[t].rec = r
           /\ task'[t].kinds = kinds /\ task'[t].then = task[t].then
           /\ UNCHANGED <<record, tomb, log, backup, age, emitted, restored, lock>>
<1> DEFINE new == [task[t] EXCEPT !.rec = r, !.kinds = kinds, !.pc = pc]
<1>1. task[t] \in Task
  BY TaskTyped
<1>2. /\ new \in Task /\ new.pc = pc /\ new.rec = r /\ new.kinds = kinds
      /\ new.at = task[t].at /\ new.half = task[t].half /\ new.op = task[t].op
      /\ new.now = task[t].now /\ new.late = task[t].late /\ new.then = task[t].then
  BY <1>1 DEF Task, PCs
<1>3. Set(t, new) /\ UNCHANGED <<record, tomb, log, backup, age, emitted, restored, lock>>
  BY DEF Commit, files, history
<1> HIDE DEF new
<1> QED
  BY <1>2, <1>3, Moved DEF Typed, Others, Kept

\* What the operations commit.
LEMMA SaveEffect ==
    ASSUME Typed, NEW t \in Tasks, Save(t)
    PROVE  \/ Refuse(t)
           \/ task[t].rec = None /\ Commit(t, New, << >>, "write")
BY DEF Save

LEMMA DeleteEffect ==
    ASSUME Typed, NEW t \in Tasks, Delete(t)
    PROVE  \E r \in Record, kinds \in Seq(Kinds), pc \in {"write", "tombstone"} :
              /\ Commit(t, r, kinds, pc)
              /\ task[t].rec \in Record
              /\ r.content = task[t].rec.content /\ r.purged = task[t].rec.purged
              /\ r.outbox = task[t].rec.outbox
              /\ r.own /\ (pc = "write" => task[t].rec.own)
              /\ \A i \in DOMAIN kinds : kinds[i] # "accepted"
<1> DEFINE r == task[t].rec
           kinds == IF task[t].had THEN << >> ELSE <<"hidden">>
           q == [r EXCEPT !.own = TRUE]
<1>1. r \in Record
  BY TaskTyped DEF Delete, Operation, At, ShapeOf, Task
<1>2. << >> \in Seq(Kinds) /\ <<"hidden">> \in Seq(Kinds)
  BY DEF Kinds
<1>3. CASE r.own
  <2>1. Commit(t, r, kinds, "write")
    BY <1>3 DEF Delete
  <2>2. kinds \in Seq(Kinds) /\ \A i \in DOMAIN kinds : kinds[i] # "accepted"
    BY <1>2
  <2> HIDE DEF r, kinds
  <2> QED
    BY <1>1, <1>3, <2>1, <2>2 DEF r
<1>4. CASE ~r.own
  <2>1. Commit(t, q, <<"hidden">>, "tombstone")
    BY <1>4 DEF Delete
  <2>2. /\ q \in Record /\ q.content = r.content /\ q.purged = r.purged
        /\ q.outbox = r.outbox /\ q.own
    BY <1>1 DEF Record
  <2>3. \A i \in DOMAIN <<"hidden">> : <<"hidden">>[i] # "accepted"
    OBVIOUS
  <2> HIDE DEF q, kinds
  <2> QED
    BY <1>1, <1>2, <1>4, <2>1, <2>2, <2>3 DEF r
<1> QED
  BY <1>3, <1>4

LEMMA AcceptEffect ==
    ASSUME Typed, NEW t \in Tasks, Accept(t)
    PROVE  \/ Refuse(t)
           \/ \E r \in Record, kinds \in Seq(Kinds) :
                 /\ Commit(t, r, kinds, "write")
                 /\ task[t].rec \in Record
                 /\ r.content = task[t].rec.content /\ r.purged = task[t].rec.purged
                 /\ r.outbox = task[t].rec.outbox
                 /\ ~r.own /\ ~task[t].rec.own
<1> DEFINE r == task[t].rec
           q == [r EXCEPT !.accepted = TRUE]
           kinds == IF r.accepted THEN << >> ELSE <<"accepted">>
<1>1. r \in Record
  BY TaskTyped DEF Accept, Operation, At, ShapeOf, Task
<1>2. kinds \in Seq(Kinds)
  <2>1. << >> \in Seq(Kinds) /\ <<"accepted">> \in Seq(Kinds)
    BY DEF Kinds
  <2> QED
    BY <2>1
<1>3. CASE r.own
  BY <1>3 DEF Accept
<1>4. CASE ~r.own
  <2>1. Commit(t, q, kinds, "write")
    BY <1>4 DEF Accept
  <2>2. /\ q \in Record /\ q.content = r.content /\ q.purged = r.purged
        /\ q.outbox = r.outbox /\ ~q.own
    BY <1>1, <1>4 DEF Record
  <2> HIDE DEF q, kinds
  <2> QED
    BY <1>1, <1>2, <1>4, <2>1, <2>2 DEF r
<1> QED
  BY <1>3, <1>4

LEMMA SweepEffect ==
    ASSUME Typed, NEW t \in Tasks, NEW past \in SUBSET Parts, SweepRecord(t, past)
    PROVE  \E r \in Record, kinds \in Seq(Kinds) :
              /\ Commit(t, r, kinds, "write")
              /\ task[t].rec \in Record
              /\ r.content \subseteq task[t].rec.content
              /\ r.purged => task[t].rec.purged \/ r.content = {}
              /\ r.own = task[t].rec.own /\ r.outbox = task[t].rec.outbox
              /\ r.own /\ task[t].now[task[t].at] >= 1 =>
                    r.content = {} \/ (task[t].rec.purged /\ r.purged)
              /\ \A i \in DOMAIN kinds : kinds[i] # "accepted"
<1> DEFINE r == task[t].rec
           due == r.own /\ task[t].now[task[t].at] >= 1 /\ ~r.purged
           kept == IF due THEN {} ELSE r.content
           q == [r EXCEPT !.content = kept \ past, !.purged = @ \/ due]
           k1 == IF due THEN <<"purged">> ELSE << >>
           k2 == IF kept \cap past # {} THEN <<"expired">> ELSE << >>
<1>1. Commit(t, q, k1 \o k2, "write")
  BY DEF SweepRecord
<1>2. r \in Record
  BY TaskTyped DEF SweepRecord, Operation, At, ShapeOf, Task
<1>3. r.own \in BOOLEAN /\ r.purged \in BOOLEAN /\ r.content \subseteq Parts /\ due \in BOOLEAN
  BY <1>2 DEF Record
<1>4. kept \subseteq r.content /\ (due => kept = {})
  OBVIOUS
<1>5. /\ k1 \o k2 \in Seq(Kinds)
      /\ \A i \in DOMAIN (k1 \o k2) : (k1 \o k2)[i] # "accepted"
  <2>1. "purged" \in Kinds /\ "expired" \in Kinds
    BY DEF Kinds
  <2>2. k1 \in {<< >>, <<"purged">>} /\ k2 \in {<< >>, <<"expired">>}
    OBVIOUS
  <2> HIDE DEF k1, k2
  <2>3. CASE k1 = << >> /\ k2 = << >>
    BY <2>3
  <2>4. CASE k1 = << >> /\ k2 = <<"expired">>
    BY <2>1, <2>4
  <2>5. CASE k1 = <<"purged">> /\ k2 = << >>
    BY <2>1, <2>5
  <2>6. CASE k1 = <<"purged">> /\ k2 = <<"expired">>
    BY <2>1, <2>6
  <2> QED
    BY <2>2, <2>3, <2>4, <2>5, <2>6
<1> HIDE DEF kept, k1, k2
<1>6. /\ q \in Record /\ q.content = kept \ past /\ q.purged = (r.purged \/ due) /\ q.own = r.own
      /\ q.outbox = r.outbox
  BY <1>2, <1>3, <1>4 DEF Record
<1> HIDE DEF q
<1>7. q.content \subseteq r.content /\ (due => q.content = {})
  BY <1>4, <1>6
<1>8. q.own /\ task[t].now[task[t].at] >= 1 => due \/ r.purged
  BY <1>6
<1> HIDE DEF due
<1> DEFINE kinds == k1 \o k2
<1>9. kinds \in Seq(Kinds) /\ (\A i \in DOMAIN kinds : kinds[i] # "accepted")
      /\ Commit(t, q, kinds, "write")
  BY <1>1, <1>5
<1> HIDE DEF kinds
<1>10. /\ q.purged => r.purged \/ q.content = {}
       /\ q.own /\ task[t].now[task[t].at] >= 1 => q.content = {} \/ (r.purged /\ q.purged)
  BY <1>3, <1>6, <1>7, <1>8
<1> QED
  BY <1>2, <1>6, <1>7, <1>9, <1>10 DEF r

LEMMA ReadEffect ==
    ASSUME Typed, NEW t \in Tasks, Read(t)
    PROVE  LET a == task[t].at
               r == Indexed(a, record[a])
           IN /\ Others(t) /\ Kept(t) /\ task[t].pc = "read" /\ task[t].half = "record"
              /\ tomb' = BackfilledTomb(a, record[a])
              /\ UNCHANGED <<record, log, backup, age, emitted, restored, lock>>
              /\ \/ task[t].op = "save" /\ task'[t].pc = "operate" /\ task'[t].rec = r
                 \/ task[t].op # "save" /\ task'[t].pc = "unlock" /\ r = None
                    /\ task'[t].rec = task[t].rec
                 \/ /\ task[t].op # "save" /\ r # None /\ task'[t].rec = r
                    /\ task'[t].todo = r.outbox /\ task'[t].then = "operate"
                    /\ task'[t].pc = IF r.outbox = {} THEN "operate" ELSE "append"
<1> DEFINE a == task[t].at
           r == Indexed(a, record[a])
           had == r # None /\ r.own
<1>1. /\ task[t].pc = "read" /\ task[t].half = "record" /\ tomb' = BackfilledTomb(a, record[a])
      /\ UNCHANGED <<record, log, backup, age, emitted, restored, lock>>
  BY DEF Read, At, history
<1>2. task[t] \in Task /\ a \in Assessments /\ record[a] \in Record \cup {None}
  BY <1>1, TaskTyped DEF Typed, TypeOK
<1>3. r \in Record \cup {None} /\ had \in BOOLEAN
  BY <1>2, IndexedTyped DEF Typed
<1> HIDE DEF r, had
<1>4. CASE task[t].op = "save"
  <2> DEFINE new == [task[t] EXCEPT !.rec = r, !.pc = "operate"]
  <2>1. Set(t, new)
    BY <1>4 DEF Read, r, had
  <2>2. /\ new \in Task /\ new.pc = "operate" /\ new.rec = r
        /\ new.at = task[t].at /\ new.half = task[t].half /\ new.op = task[t].op
        /\ new.now = task[t].now /\ new.late = task[t].late
    BY <1>1, <1>2, <1>3, <1>4 DEF Task, PCs
  <2> HIDE DEF new
  <2>3. task'[t] = new /\ Others(t)
    BY <2>1, <2>2, Moved DEF Typed, Others
  <2> QED
    BY <1>1, <1>4, <2>2, <2>3 DEF Kept, r
<1>5. CASE task[t].op # "save" /\ r = None
  <2> DEFINE new == [task[t] EXCEPT !.pc = "unlock"]
  <2>1. Set(t, new)
    BY <1>5 DEF Read, r, had
  <2>2. /\ new \in Task /\ new.pc = "unlock" /\ new.rec = task[t].rec
        /\ new.at = task[t].at /\ new.half = task[t].half /\ new.op = task[t].op
        /\ new.now = task[t].now /\ new.late = task[t].late
    BY <1>1, <1>2, <1>3, <1>5 DEF Task, PCs
  <2> HIDE DEF new
  <2>3. task'[t] = new /\ Others(t)
    BY <2>1, <2>2, Moved DEF Typed, Others
  <2> QED
    BY <1>1, <1>5, <2>2, <2>3 DEF Kept, r
<1>6. CASE task[t].op # "save" /\ r # None
  <2> DEFINE new == [Flush(t, r, "operate") EXCEPT !.had = had]
  <2>1. Set(t, new)
    BY <1>6 DEF Read, r, had
  <2>2. r \in Record
    BY <1>3, <1>6
  <2>3. /\ new \in Task /\ new.rec = r /\ new.todo = r.outbox /\ new.then = "operate"
        /\ new.pc = IF r.outbox = {} THEN "operate" ELSE "append"
        /\ new.at = task[t].at /\ new.half = task[t].half /\ new.op = task[t].op
        /\ new.now = task[t].now /\ new.late = task[t].late
    BY <1>1, <1>2, <1>3, <2>2 DEF Task, PCs, Flush, Record
  <2> HIDE DEF new
  <2>4. task'[t] = new /\ Others(t)
    BY <2>1, <2>3, Moved DEF Typed, Others
  <2> QED
    BY <1>1, <1>6, <2>3, <2>4 DEF Kept, r
<1> QED
  BY <1>4, <1>5, <1>6

LEMMA AppendEffect ==
    ASSUME Typed, NEW t \in Tasks, AppendEvent(t)
    PROVE  \E e \in task[t].todo :
              /\ Others(t) /\ Kept(t) /\ task[t].pc = "append" /\ task[t].at \in Assessments
              /\ task'[t].rec = task[t].rec /\ task'[t].then = task[t].then
              /\ task'[t].kinds = task[t].kinds /\ task'[t].state = task[t].state
              /\ task'[t].todo = task[t].todo \ {e}
              /\ \/ task'[t].pc = "append"
                 \/ task'[t].todo = {} /\ task[t].half = "record" /\ task'[t].pc = "ack"
                 \/ task'[t].todo = {} /\ task[t].half = "tombstone"
                    /\ task'[t].pc = task[t].then /\ task[t].then \in {"unlock", "purge"}
              /\ log' = IF e \in Logged(task[t].at) THEN log
                        ELSE [log EXCEPT ![task[t].at] = Append(@, e)]
              /\ UNCHANGED <<record, tomb, backup, age, emitted, restored, lock>>
<1> PICK e \in task[t].todo :
          LET a == task[t].at
              rest == task[t].todo \ {e}
              acknowledge == IF task[t].half = "record" THEN "ack" ELSE task[t].then
          IN /\ log' = IF e \in Logged(a) THEN log
                       ELSE [log EXCEPT ![a] = Append(@, e)]
             /\ Set(t, [task[t] EXCEPT !.todo = rest,
                            !.pc = IF rest = {} THEN acknowledge ELSE "append"])
  BY DEF AppendEvent
<1> DEFINE rest == task[t].todo \ {e}
           acknowledge == IF task[t].half = "record" THEN "ack" ELSE task[t].then
           pc == IF rest = {} THEN acknowledge ELSE "append"
           new == [task[t] EXCEPT !.todo = rest, !.pc = pc]
<1>1. /\ task[t].pc = "append" /\ Set(t, new)
      /\ log' = IF e \in Logged(task[t].at) THEN log
                ELSE [log EXCEPT ![task[t].at] = Append(@, e)]
      /\ UNCHANGED <<record, tomb, backup, age, emitted, restored, lock>>
  BY DEF AppendEvent, At, history
<1>2. task[t] \in Task /\ ShapeOf(t) /\ task[t].at \in Assessments
  BY <1>1, TaskTyped
<1>3. task[t].half \in {"record", "tombstone"} /\ task[t].todo \in SUBSET Nat
  BY <1>2 DEF Task
<1>4. /\ pc \in PCs
      /\ \/ pc = "append"
         \/ rest = {} /\ task[t].half = "record" /\ pc = "ack"
         \/ rest = {} /\ task[t].half = "tombstone"
            /\ pc = task[t].then /\ task[t].then \in {"unlock", "purge"}
  BY <1>1, <1>2, <1>3 DEF ShapeOf, PCs
<1> HIDE DEF pc
<1>5. /\ new \in Task /\ new.pc = pc /\ new.todo = rest
      /\ new.at = task[t].at /\ new.half = task[t].half /\ new.op = task[t].op
      /\ new.now = task[t].now /\ new.late = task[t].late /\ new.rec = task[t].rec
      /\ new.then = task[t].then /\ new.kinds = task[t].kinds /\ new.state = task[t].state
  BY <1>2, <1>3, <1>4 DEF Task
<1> HIDE DEF new
<1>6. task'[t] = new /\ Others(t)
  BY <1>1, <1>5, Moved DEF Typed, Others
<1> QED
  BY <1>1, <1>2, <1>4, <1>5, <1>6 DEF Kept

LEMMA AcknowledgeEffect ==
    ASSUME Typed, NEW t \in Tasks, Acknowledge(t)
    PROVE  \E r \in Record :
              /\ Others(t) /\ Kept(t) /\ task[t].pc = "ack" /\ task[t].half = "record"
              /\ task[t].at \in Assessments /\ task[t].rec \in Record
              /\ task[t].then \in {"unlock", "operate"}
              /\ r.outbox = {} /\ r.content = task[t].rec.content
              /\ r.purged = task[t].rec.purged /\ r.own = task[t].rec.own
              /\ task'[t].rec = r /\ task'[t].pc = task[t].then
              /\ task'[t].kinds = task[t].kinds
              /\ record' = [record EXCEPT ![task[t].at] = r]
              /\ UNCHANGED <<tomb, log, backup, age, emitted, restored, lock>>
<1> DEFINE r == [task[t].rec EXCEPT !.outbox = {}]
           new == [task[t] EXCEPT !.rec = r, !.pc = task[t].then]
<1>1. /\ task[t].pc = "ack" /\ record' = [record EXCEPT ![task[t].at] = r] /\ Set(t, new)
      /\ UNCHANGED <<tomb, log, backup, age, emitted, restored, lock>>
  BY DEF Acknowledge, At, history
<1>2. task[t] \in Task /\ ShapeOf(t) /\ task[t].at \in Assessments
  BY <1>1, TaskTyped
<1>3. task[t].half = "record" /\ task[t].rec # None /\ task[t].then \in {"unlock", "operate"}
  BY <1>1, <1>2 DEF ShapeOf
<1>4. task[t].rec \in Record
  BY <1>2, <1>3 DEF Task
<1>5. /\ r \in Record /\ r.outbox = {} /\ r.content = task[t].rec.content
      /\ r.purged = task[t].rec.purged /\ r.own = task[t].rec.own
  BY <1>4 DEF Record
<1> HIDE DEF r
<1>6. /\ new \in Task /\ new.pc = task[t].then /\ new.rec = r
      /\ new.at = task[t].at /\ new.half = task[t].half /\ new.op = task[t].op
      /\ new.now = task[t].now /\ new.late = task[t].late /\ new.kinds = task[t].kinds
  BY <1>2, <1>3, <1>5 DEF Task, PCs
<1> HIDE DEF new
<1>7. task'[t] = new /\ Others(t)
  BY <1>1, <1>6, Moved DEF Typed, Others
<1> QED
  BY <1>1, <1>2, <1>3, <1>4, <1>5, <1>6, <1>7 DEF Kept

LEMMA WriteTombstoneEffect ==
    ASSUME Typed, NEW t \in Tasks, WriteTombstone(t)
    PROVE  /\ Goes(t, "write") /\ task[t].pc = "tombstone" /\ task[t].half = "record"
           /\ task[t].at \in Assessments /\ task[t].rec \in Record
           /\ tomb' = IF tomb[task[t].at] = None
                      THEN [tomb EXCEPT ![task[t].at] = Fresh] ELSE tomb
           /\ UNCHANGED <<record, log, backup, age, emitted, restored, lock>>
<1>1. /\ task[t].pc = "tombstone" /\ Goto(t, "write")
      /\ tomb' = IF tomb[task[t].at] = None
                 THEN [tomb EXCEPT ![task[t].at] = Fresh] ELSE tomb
      /\ UNCHANGED <<record, log, backup, age, emitted, restored, lock>>
  BY DEF WriteTombstone, At, history
<1>2. task[t] \in Task /\ ShapeOf(t) /\ task[t].at \in Assessments
  BY <1>1, TaskTyped
<1>3. task[t].half = "record" /\ task[t].rec # None
  BY <1>1, <1>2 DEF ShapeOf
<1>4. Goes(t, "write")
  BY <1>1, GotoEffect DEF PCs
<1> QED
  BY <1>1, <1>2, <1>3, <1>4 DEF Task

LEMMA WriteRecordEffect ==
    ASSUME Typed, NEW t \in Tasks, WriteRecord(t)
    PROVE  \E r \in Record :
              /\ Others(t) /\ Kept(t) /\ task[t].pc = "write" /\ task[t].half = "record"
              /\ task[t].at \in Assessments /\ task[t].rec \in Record
              /\ NewEvents(t) \subseteq Nat
              /\ r.outbox = task[t].rec.outbox \cup NewEvents(t)
              /\ r.content = task[t].rec.content
              /\ r.purged = task[t].rec.purged /\ r.own = task[t].rec.own
              /\ task'[t].rec = r /\ task'[t].then = "unlock" /\ task'[t].todo = r.outbox
              /\ task'[t].pc = IF r.outbox = {} THEN "unlock" ELSE "append"
              /\ task'[t].kinds = << >>
              /\ record' = [record EXCEPT ![task[t].at] = r]
              /\ Emit(t)
              /\ UNCHANGED <<tomb, log, backup, age, restored, lock>>
<1> DEFINE r == [task[t].rec EXCEPT !.outbox = @ \cup NewEvents(t)]
           new == [Flush(t, r, "unlock") EXCEPT !.kinds = << >>]
<1>1. /\ task[t].pc = "write" /\ task[t].half = "record" /\ Set(t, new) /\ Emit(t)
      /\ record' = [record EXCEPT ![task[t].at] = r]
      /\ UNCHANGED <<tomb, log, backup, age, restored, lock>>
  BY DEF WriteRecord, At
<1>2. task[t] \in Task /\ ShapeOf(t) /\ task[t].at \in Assessments
  BY <1>1, TaskTyped
<1>3. NewEvents(t) \subseteq Nat
  BY <1>1, EmittedTyped
<1>4. task[t].rec \in Record
  BY <1>1, <1>2 DEF ShapeOf, Task
<1>5. /\ r \in Record /\ r.outbox = task[t].rec.outbox \cup NewEvents(t)
      /\ r.content = task[t].rec.content
      /\ r.purged = task[t].rec.purged /\ r.own = task[t].rec.own
  BY <1>3, <1>4 DEF Record
<1> HIDE DEF r
<1>6. << >> \in Seq(Kinds)
  OBVIOUS
<1>7. /\ new \in Task /\ new.rec = r /\ new.then = "unlock" /\ new.todo = r.outbox
      /\ new.pc = IF r.outbox = {} THEN "unlock" ELSE "append"
      /\ new.at = task[t].at /\ new.half = task[t].half /\ new.op = task[t].op
      /\ new.now = task[t].now /\ new.late = task[t].late /\ new.kinds = << >>
  BY <1>1, <1>2, <1>5, <1>6 DEF Task, PCs, Flush, Record
<1> HIDE DEF new
<1>8. task'[t] = new /\ Others(t)
  BY <1>1, <1>7, Moved DEF Typed, Others
<1> QED
  BY <1>1, <1>2, <1>3, <1>4, <1>5, <1>7, <1>8 DEF Kept

LEMMA ReadTombstoneEffect ==
    ASSUME Typed, NEW t \in Tasks, ReadTombstone(t)
    PROVE  /\ Others(t) /\ Kept(t) /\ task[t].pc = "read" /\ task[t].half = "tombstone"
           /\ task'[t].rec = task[t].rec /\ task'[t].then \in {"unlock", "purge"}
           /\ task'[t].pc \in {"unlock", "purge", "append"}
           /\ UNCHANGED <<record, tomb, log, backup, age, emitted, restored, lock>>
<1> DEFINE a == task[t].at
           doc == tomb[a]
           cleanup == IF doc = None THEN {} ELSE doc.cleanup
           then == IF doc = None THEN "unlock" ELSE "purge"
           new == [task[t] EXCEPT !.todo = cleanup, !.then = then,
                                  !.pc = IF cleanup = {} THEN then ELSE "append"]
<1>1. /\ task[t].pc = "read" /\ task[t].half = "tombstone" /\ Set(t, new)
      /\ UNCHANGED <<record, tomb, log, backup, age, emitted, restored, lock>>
  BY DEF ReadTombstone, At, files, history
<1>2. task[t] \in Task /\ a \in Assessments
  BY <1>1, TaskTyped
<1>3. cleanup \in SUBSET Nat
  BY <1>2 DEF Typed, TypeOK, Tombstone
<1>4. then \in {"unlock", "purge"}
  OBVIOUS
<1> HIDE DEF cleanup, then
<1>5. /\ new \in Task /\ new.rec = task[t].rec /\ new.then = then
      /\ new.pc \in {"unlock", "purge", "append"}
      /\ new.at = task[t].at /\ new.half = task[t].half /\ new.op = task[t].op
      /\ new.now = task[t].now /\ new.late = task[t].late
  BY <1>1, <1>2, <1>3, <1>4 DEF Task, PCs
<1> HIDE DEF new
<1>6. task'[t] = new /\ Others(t)
  BY <1>1, <1>5, Moved DEF Typed, Others
<1> QED
  BY <1>1, <1>4, <1>5, <1>6 DEF Kept

LEMMA PurgeEffect ==
    ASSUME Typed, NEW t \in Tasks, NEW left, PurgeBackups(t, left)
    PROVE  /\ Others(t) /\ Kept(t) /\ task[t].pc = "purge" /\ task[t].half = "tombstone"
           /\ task[t].at \in Assessments /\ task[t].now[task[t].at] >= 2
           /\ left \subseteq backup[task[t].at]
           /\ task'[t].rec = task[t].rec /\ task'[t].pc = "write"
           /\ task'[t].state = "purged" => left = {}
           /\ \A i \in DOMAIN task'[t].kinds : task'[t].kinds[i] # "accepted"
           /\ backup' = [backup EXCEPT ![task[t].at] = left]
           /\ UNCHANGED <<record, tomb, log, age, emitted, restored, lock>>
<1> DEFINE a == task[t].at
           due == IF tomb[a].state = "none" THEN <<"due">> ELSE << >>
           end == IF left # {} THEN <<"failed">> ELSE <<"backupPurged">>
           state == IF left # {} THEN "failed" ELSE "purged"
           kinds == due \o end
           new == [task[t] EXCEPT !.pc = "write", !.state = state, !.kinds = kinds]
<1>1. /\ task[t].pc = "purge" /\ Set(t, new) /\ left \subseteq backup[a]
      /\ task[t].now[a] >= 2
      /\ backup' = [backup EXCEPT ![a] = left]
      /\ UNCHANGED <<record, tomb, log, age, emitted, restored, lock>>
  BY DEF PurgeBackups, At, files, history
<1>2. task[t] \in Task /\ ShapeOf(t) /\ a \in Assessments
  BY <1>1, TaskTyped
<1>3. task[t].half = "tombstone"
  BY <1>1, <1>2 DEF ShapeOf
<1>4. kinds \in Seq(Kinds) /\ \A i \in DOMAIN kinds : kinds[i] # "accepted"
  <2>1. "due" \in Kinds /\ "failed" \in Kinds /\ "backupPurged" \in Kinds
    BY DEF Kinds
  <2>2. due \in {<< >>, <<"due">>} /\ end \in {<<"failed">>, <<"backupPurged">>}
    OBVIOUS
  <2> HIDE DEF due, end
  <2>3. CASE due = << >> /\ end = <<"failed">>
    BY <2>1, <2>3
  <2>4. CASE due = << >> /\ end = <<"backupPurged">>
    BY <2>1, <2>4
  <2>5. CASE due = <<"due">> /\ end = <<"failed">>
    BY <2>1, <2>5
  <2>6. CASE due = <<"due">> /\ end = <<"backupPurged">>
    BY <2>1, <2>6
  <2> QED
    BY <2>2, <2>3, <2>4, <2>5, <2>6
<1>5. state \in {"none", "failed", "purged"} /\ (state = "purged" => left = {})
  OBVIOUS
<1> HIDE DEF kinds, state
<1>6. /\ new \in Task /\ new.pc = "write" /\ new.state = state /\ new.kinds = kinds
      /\ new.at = task[t].at /\ new.half = task[t].half /\ new.op = task[t].op
      /\ new.now = task[t].now /\ new.late = task[t].late /\ new.rec = task[t].rec
  BY <1>2, <1>3, <1>4, <1>5, ZenonT(40) DEF Task, PCs
<1> HIDE DEF new
<1>7. task'[t] = new /\ Others(t)
  BY <1>1, <1>6, Moved DEF Typed, Others
<1> QED
  BY <1>1, <1>2, <1>3, <1>4, <1>5, <1>6, <1>7 DEF Kept

LEMMA WriteCleanupEffect ==
    ASSUME Typed, NEW t \in Tasks, WriteCleanup(t)
    PROVE  \E doc \in Tombstone :
              /\ Others(t) /\ Kept(t) /\ task[t].pc = "write" /\ task[t].half = "tombstone"
              /\ task[t].at \in Assessments /\ tomb[task[t].at] \in Tombstone
              /\ NewEvents(t) \subseteq Nat
              /\ doc.state = task[t].state
              /\ doc.cleanup = tomb[task[t].at].cleanup \cup NewEvents(t)
              /\ task'[t].rec = task[t].rec /\ task'[t].then = "unlock"
              /\ task'[t].pc = "append" /\ task'[t].kinds = << >>
              /\ tomb' = [tomb EXCEPT ![task[t].at] = doc]
              /\ Emit(t)
              /\ UNCHANGED <<record, log, backup, age, restored, lock>>
<1> DEFINE a == task[t].at
           cleanup == tomb[a].cleanup \cup NewEvents(t)
           doc == [state |-> task[t].state, cleanup |-> cleanup]
           new == [task[t] EXCEPT !.pc = "append", !.then = "unlock",
                                  !.todo = cleanup, !.kinds = << >>]
<1>1. /\ task[t].pc = "write" /\ task[t].half = "tombstone" /\ Set(t, new) /\ Emit(t)
      /\ tomb' = [tomb EXCEPT ![a] = doc]
      /\ UNCHANGED <<record, log, backup, age, restored, lock>>
  BY DEF WriteCleanup, At
<1>2. task[t] \in Task /\ ShapeOf(t) /\ a \in Assessments
  BY <1>1, TaskTyped
<1>3. NewEvents(t) \subseteq Nat
  BY <1>1, EmittedTyped
<1>4. tomb[a] \in Tombstone /\ task[t].state \in {"none", "failed", "purged"}
  BY <1>1, <1>2 DEF ShapeOf, Typed, TypeOK, Task
<1>5. cleanup \in SUBSET Nat
  BY <1>3, <1>4 DEF Tombstone
<1>6. doc \in Tombstone /\ doc.state = task[t].state /\ doc.cleanup = cleanup
  BY <1>4, <1>5 DEF Tombstone
<1>7. << >> \in Seq(Kinds)
  OBVIOUS
<1> HIDE DEF doc
<1>8. /\ new \in Task /\ new.then = "unlock" /\ new.pc = "append" /\ new.kinds = << >>
      /\ new.at = task[t].at /\ new.half = task[t].half /\ new.op = task[t].op
      /\ new.now = task[t].now /\ new.late = task[t].late /\ new.rec = task[t].rec
  BY <1>1, <1>2, <1>5, <1>7 DEF Task, PCs
<1> HIDE DEF new
<1>9. task'[t] = new /\ Others(t)
  BY <1>1, <1>8, Moved DEF Typed, Others
<1> QED
  BY <1>1, <1>2, <1>3, <1>4, <1>6, <1>8, <1>9 DEF Kept

\* A task that begins, on an assessment or on the next one.
Begins(t) ==
    /\ Others(t) /\ task'[t].pc = "lock" /\ task'[t].rec = None /\ task'[t].kinds = << >>
    /\ ~task'[t].late

LEMMA StartEffect ==
    ASSUME Typed, NEW t \in Tasks, NEW a \in Assessments, NEW op \in Ops, Start(t, op, a)
    PROVE  /\ Begins(t) /\ task'[t].half = "record" /\ task'[t].op = op /\ op # "sweep"
           /\ task'[t].now = [b \in Assessments |-> 0]
           /\ UNCHANGED <<record, tomb, log, backup, age, emitted, restored, lock>>
<1> DEFINE new == [Idle EXCEPT !.pc = "lock", !.op = op, !.at = a]
<1>1. Set(t, new) /\ UNCHANGED <<record, tomb, log, backup, age, emitted, restored, lock>>
      /\ op # "sweep"
  BY DEF Start, files, history
<1>2. /\ new \in Task /\ new.pc = "lock" /\ new.at = a /\ new.half = "record" /\ new.rec = None
      /\ new.kinds = << >> /\ ~new.late /\ new.op = op
      /\ new.now = [b \in Assessments |-> 0]
  BY IdleTyped, Numbered DEF Task, PCs
<1> HIDE DEF new
<1> QED
  BY <1>1, <1>2, Moved DEF Typed, Others, Begins

LEMMA StartSweepEffect ==
    ASSUME Typed, StartSweep
    PROVE  /\ Begins(Sweep) /\ task'[Sweep].half = "record" /\ task'[Sweep].now = age
           /\ task'[Sweep].op = "sweep"
           /\ UNCHANGED <<record, tomb, log, backup, age, emitted, restored, lock>>
<1> DEFINE new == [Idle EXCEPT !.pc = "lock", !.op = "sweep", !.at = 1, !.now = age]
<1>1. Set(Sweep, new) /\ UNCHANGED <<record, tomb, log, backup, age, emitted, restored, lock>>
  BY DEF StartSweep, files, history
<1>2. age \in [Assessments -> 0..2] /\ 1 \in Assessments /\ Sweep \in Tasks
  BY RetentionAssumption DEF Typed, TypeOK, Assessments, Tasks
<1>3. /\ new \in Task /\ new.pc = "lock" /\ new.half = "record" /\ new.rec = None
      /\ new.kinds = << >> /\ ~new.late /\ new.now = age
      /\ new.op = "sweep"
  BY <1>2, IdleTyped, Numbered DEF Task, PCs, Ops
<1> HIDE DEF new
<1> QED
  BY <1>1, <1>2, <1>3, Moved DEF Typed, Others, Begins

LEMMA UnlockEffect ==
    ASSUME Typed, NEW t \in Tasks, Unlock(t)
    PROVE  /\ Others(t) /\ task[t].pc = "unlock" /\ task[t].at \in Assessments
           /\ lock' = [lock EXCEPT ![Doc(t)] = None]
           /\ UNCHANGED <<record, tomb, log, backup, age, emitted, restored>>
           /\ \/ task'[t] = Idle
              \/ /\ Begins(t) /\ task'[t].op = "sweep" /\ task[t].op = "sweep"
                 /\ task'[t].now = task[t].now /\ task'[t].half = "record"
              \/ /\ Begins(t) /\ task'[t].op = "sweep" /\ task[t].op = "sweep"
                 /\ task'[t].now = task[t].now /\ task'[t].half = "tombstone"
                 /\ task'[t].at = task[t].at /\ task[t].half = "record"
<1> DEFINE op == task[t].op
           a == task[t].at
           next == [Idle EXCEPT !.pc = "lock", !.op = "sweep", !.now = task[t].now]
<1>1. /\ task[t].pc = "unlock" /\ lock' = [lock EXCEPT ![Doc(t)] = None]
      /\ UNCHANGED <<record, tomb, log, backup, age, emitted, restored>>
  BY DEF Unlock, At, files, history
<1>2. task[t] \in Task /\ a \in Assessments /\ task[t].now \in [Assessments -> 0..2]
  BY <1>1, TaskTyped DEF Task
<1>3. /\ next \in Task /\ next.pc = "lock" /\ next.op = "sweep" /\ next.half = "record"
      /\ next.now = task[t].now /\ next.rec = None /\ next.kinds = << >> /\ ~next.late
  BY <1>2, IdleTyped, ZenonT(40) DEF Task, PCs, Ops
<1> HIDE DEF next
<1>4. CASE op = "sweep" /\ task[t].half = "record"
  <2> DEFINE new == [next EXCEPT !.at = a, !.half = "tombstone"]
  <2>1. Set(t, new)
    BY <1>4 DEF Unlock, next
  <2>2. /\ new \in Task /\ new.pc = "lock" /\ new.op = "sweep" /\ new.half = "tombstone"
        /\ new.now = task[t].now /\ new.rec = None /\ new.kinds = << >> /\ ~new.late
        /\ new.at = a
    BY <1>2, <1>3, Numbered DEF Task
  <2> HIDE DEF new
  <2>3. task'[t] = new /\ Others(t)
    BY <2>1, <2>2, Moved DEF Typed, Others
  <2> QED
    BY <1>1, <1>2, <1>4, <2>2, <2>3 DEF Begins
<1>5. CASE op = "sweep" /\ task[t].half = "tombstone" /\ a < Count
  <2> DEFINE new == [next EXCEPT !.at = a + 1]
  <2>1. Set(t, new)
    BY <1>5 DEF Unlock, next
  <2>2. a + 1 \in 0..Count
    BY <1>2, <1>5, RetentionAssumption DEF Assessments
  <2>3. /\ new \in Task /\ new.pc = "lock" /\ new.op = "sweep" /\ new.half = "record"
        /\ new.now = task[t].now /\ new.rec = None /\ new.kinds = << >> /\ ~new.late
    BY <1>3, <2>2 DEF Task
  <2> HIDE DEF new
  <2>4. task'[t] = new /\ Others(t)
    BY <2>1, <2>3, Moved DEF Typed, Others
  <2> QED
    BY <1>1, <1>2, <1>5, <2>3, <2>4 DEF Begins
<1>6. CASE ~(op = "sweep" /\ task[t].half = "record")
           /\ ~(op = "sweep" /\ task[t].half = "tombstone" /\ a < Count)
  <2>1. Set(t, Idle)
    BY <1>6 DEF Unlock
  <2> QED
    BY <1>1, <1>2, <2>1, IdleEffect
<1> QED
  BY <1>4, <1>5, <1>6

LEMMA ViewEffect ==
    ASSUME Typed, NEW t \in Tasks, NEW a \in Assessments, View(t, a)
    PROVE  /\ Others(t) /\ task'[t].pc = "index" /\ task'[t].at = a
           /\ task'[t].half = "record" /\ task'[t].op = "view" /\ task'[t].kinds = << >>
           /\ task'[t].rec = record[a] /\ record[a] \in Record
           /\ task'[t].late = (tomb[a] # None)
           /\ task'[t].now = [b \in Assessments |-> 0]
           /\ UNCHANGED <<record, tomb, log, backup, age, emitted, restored, lock>>
<1> DEFINE new == [Idle EXCEPT !.pc = "index", !.op = "view", !.at = a,
                               !.rec = record[a], !.late = tomb[a] # None]
<1>1. record[a] # None /\ Set(t, new)
      /\ UNCHANGED <<record, tomb, log, backup, age, emitted, restored, lock>>
  BY DEF View, files, history
<1>2. record[a] \in Record \cup {None}
  BY DEF Typed, TypeOK
<1>3. /\ new \in Task /\ new.pc = "index" /\ new.at = a /\ new.half = "record"
      /\ new.op = "view" /\ new.kinds = << >> /\ new.rec = record[a]
      /\ new.late = (tomb[a] # None) /\ new.now = [b \in Assessments |-> 0]
  BY <1>2, IdleTyped, Numbered DEF Task, PCs, Ops
<1> HIDE DEF new
<1> QED
  BY <1>1, <1>2, <1>3, Moved DEF Typed, Others

LEMMA ViewIndexEffect ==
    ASSUME Typed, NEW t \in Tasks, ViewIndex(t)
    PROVE  /\ Others(t) /\ task[t].pc = "index" /\ task[t].at \in Assessments
           /\ task[t].rec \in Record
           /\ tomb' = BackfilledTomb(task[t].at, task[t].rec)
           /\ \/ task'[t] = Idle
              \/ Goes(t, "shown") /\ ~Indexed(task[t].at, task[t].rec).own
           /\ UNCHANGED <<record, log, backup, age, emitted, restored, lock>>
<1>1. /\ task[t].pc = "index" /\ tomb' = BackfilledTomb(task[t].at, task[t].rec)
      /\ Set(t, Idle) \/ (Goto(t, "shown") /\ ~Indexed(task[t].at, task[t].rec).own)
      /\ UNCHANGED <<record, log, backup, age, emitted, restored, lock>>
  BY DEF ViewIndex, At, history
<1>2. task[t] \in Task /\ ShapeOf(t) /\ task[t].at \in Assessments
  BY <1>1, TaskTyped
<1>3. task[t].rec \in Record
  BY <1>1, <1>2 DEF ShapeOf, Task
<1>4. CASE Set(t, Idle)
  BY <1>1, <1>2, <1>3, <1>4, IdleEffect
<1>5. CASE Goto(t, "shown") /\ ~Indexed(task[t].at, task[t].rec).own
  <2>1. Goes(t, "shown")
    BY <1>5, GotoEffect DEF PCs
  <2> QED
    BY <1>1, <1>2, <1>3, <1>5, <2>1 DEF Goes
<1> QED
  BY <1>1, <1>4, <1>5

-----------------------------------------------------------------------------
(* The lock.                                                                 *)

\* Who is at work on a document holds its lock.
Locked == \A t \in Tasks : Holds(t) => lock[Doc(t)] = t

LEMMA Alone ==
    ASSUME Locked, NEW t \in Tasks, NEW u \in Tasks \ {t}, Holds(t), Holds(u)
    PROVE  Doc(t) # Doc(u)
BY DEF Locked

LEMMA WorkKeepsLock ==
    ASSUME Locked, NEW t \in Tasks, Others(t), Kept(t), Holds(t), UNCHANGED lock
    PROVE  Locked'
BY DEF Locked, Others, Kept, Holds, Doc

LEMMA AwayKeepsLock ==
    ASSUME Locked, NEW t \in Tasks, Others(t), ~(Holds(t)'), UNCHANGED lock
    PROVE  Locked'
BY DEF Locked, Others, Holds, Doc

\* What the task that holds a lock does with the files.
Work(t) ==
    \/ Read(t) \/ AppendEvent(t) \/ Acknowledge(t)
    \/ Save(t) \/ Delete(t) \/ Accept(t) \/ \E past \in SUBSET Parts : SweepRecord(t, past)
    \/ WriteTombstone(t) \/ WriteRecord(t)
    \/ ReadTombstone(t) \/ NothingToPurge(t) \/ (\E left : PurgeBackups(t, left)) \/ WriteCleanup(t)

LEMMA RefuseEffect ==
    ASSUME Typed, NEW t \in Tasks, Refuse(t)
    PROVE  /\ Goes(t, "unlock")
           /\ UNCHANGED <<record, tomb, log, backup, age, emitted, restored, lock>>
<1>1. Goto(t, "unlock") /\ UNCHANGED <<record, tomb, log, backup, age, emitted, restored, lock>>
  BY DEF Refuse, files, history
<1> QED
  BY <1>1, GotoEffect DEF PCs

LEMMA NothingToPurgeEffect ==
    ASSUME Typed, NEW t \in Tasks, NothingToPurge(t)
    PROVE  /\ Goes(t, "unlock") /\ task[t].pc = "purge"
           /\ UNCHANGED <<record, tomb, log, backup, age, emitted, restored, lock>>
<1>1. /\ Goto(t, "unlock") /\ task[t].pc = "purge"
      /\ UNCHANGED <<record, tomb, log, backup, age, emitted, restored, lock>>
  BY DEF NothingToPurge, At, files, history
<1> QED
  BY <1>1, GotoEffect DEF PCs

LEMMA WorkHolds ==
    ASSUME Typed, NEW t \in Tasks, Work(t)
    PROVE  Others(t) /\ Kept(t) /\ Holds(t) /\ UNCHANGED lock
<1>1. CASE Read(t)
  BY <1>1, ReadEffect DEF Holds
<1>2. CASE AppendEvent(t)
  BY <1>2, AppendEffect DEF Holds
<1>3. CASE Acknowledge(t)
  BY <1>3, AcknowledgeEffect DEF Holds
<1>4. CASE Save(t) \/ Delete(t) \/ Accept(t) \/ \E past \in SUBSET Parts : SweepRecord(t, past)
  <2>1. Holds(t)
    BY <1>4 DEF Save, Delete, Accept, SweepRecord, Operation, At, Holds
  <2>2. Refuse(t) \/ \E r \in Record, kinds \in Seq(Kinds), pc \in {"write", "tombstone"} :
                        Commit(t, r, kinds, pc)
    <3>1. New \in Record /\ << >> \in Seq(Kinds)
      BY NewTyped
    <3>2. CASE Save(t)
      BY <3>1, <3>2, SaveEffect
    <3>3. CASE Delete(t)
      BY <3>3, DeleteEffect
    <3>4. CASE Accept(t)
      BY <3>4, AcceptEffect
    <3>5. CASE \E past \in SUBSET Parts : SweepRecord(t, past)
      BY <3>5, SweepEffect
    <3> QED
      BY <1>4, <3>2, <3>3, <3>4, <3>5
  <2>3. Others(t) /\ Kept(t) /\ UNCHANGED lock
    <3>1. CASE Refuse(t)
      BY <3>1, RefuseEffect DEF Goes
    <3>2. ASSUME NEW r \in Record, NEW kinds \in Seq(Kinds), NEW pc \in {"write", "tombstone"},
                 Commit(t, r, kinds, pc)
          PROVE  Others(t) /\ Kept(t) /\ UNCHANGED lock
      BY <3>2, CommitEffect
    <3> QED
      BY <2>2, <3>1, <3>2
  <2> QED
    BY <2>1, <2>3
<1>5. CASE WriteTombstone(t)
  BY <1>5, WriteTombstoneEffect DEF Holds, Goes
<1>6. CASE WriteRecord(t)
  BY <1>6, WriteRecordEffect DEF Holds
<1>7. CASE ReadTombstone(t)
  BY <1>7, ReadTombstoneEffect DEF Holds
<1>8. CASE NothingToPurge(t)
  BY <1>8, NothingToPurgeEffect DEF Holds, Goes
<1>9. CASE \E left : PurgeBackups(t, left)
  BY <1>9, PurgeEffect DEF Holds
<1>10. CASE WriteCleanup(t)
  BY <1>10, WriteCleanupEffect DEF Holds
<1> QED
  BY <1>1, <1>2, <1>3, <1>4, <1>5, <1>6, <1>7, <1>8, <1>9, <1>10 DEF Work

\* What a task does without a lock, or to get and give one back.
Walk(t) ==
    \/ Lock(t) \/ LockBusy(t) \/ Unlock(t) \/ ViewIndex(t) \/ Viewed(t) \/ Crash(t)
    \/ \E a \in Assessments : View(t, a) \/ \E op \in Ops : Start(t, op, a)
    \/ t = Sweep /\ StartSweep

Outside ==
    \/ \E l \in Locks : Recover(l)
    \/ \E a \in Assessments : Backup(a) \/ Restore(a) \/ Pass(a)
    \/ UNCHANGED vars

LEMMA Steps ==
    ASSUME [Next]_vars
    PROVE  (\E t \in Tasks : Work(t) \/ Walk(t)) \/ Outside
<1>1. Sweep \in Tasks
  BY DEF Tasks
<1> QED
  BY <1>1 DEF Next, TaskStep, Work, Walk, Outside

LEMMA LockEffect ==
    ASSUME Typed, NEW t \in Tasks, Lock(t)
    PROVE  /\ Goes(t, "read") /\ task[t].pc = "lock" /\ lock[Doc(t)] = None
           /\ lock' = [lock EXCEPT ![Doc(t)] = t]
           /\ UNCHANGED <<record, tomb, log, backup, age, emitted, restored>>
<1>1. /\ Goto(t, "read") /\ task[t].pc = "lock" /\ lock[Doc(t)] = None
      /\ lock' = [lock EXCEPT ![Doc(t)] = t]
      /\ UNCHANGED <<record, tomb, log, backup, age, emitted, restored>>
  BY DEF Lock, At, files, history
<1> QED
  BY <1>1, GotoEffect DEF PCs

LEMMA EndEffect ==
    ASSUME Typed, NEW t \in Tasks, LockBusy(t) \/ Viewed(t)
    PROVE  /\ Others(t) /\ task'[t] = Idle
           /\ UNCHANGED <<record, tomb, log, backup, age, emitted, restored, lock>>
<1>1. Set(t, Idle) /\ UNCHANGED <<record, tomb, log, backup, age, emitted, restored, lock>>
  BY DEF LockBusy, Viewed, files, history
<1> QED
  BY <1>1, IdleEffect

LEMMA CrashEffect ==
    ASSUME Typed, NEW t \in Tasks, Crash(t)
    PROVE  /\ Others(t) /\ task'[t] = Idle /\ task[t].pc # "idle"
           /\ UNCHANGED <<record, tomb, log, backup, age, emitted, restored>>
           /\ \/ lock' = IF Holds(t) THEN [lock EXCEPT ![Doc(t)] = Dead] ELSE lock
              \/ lock[Doc(t)] = None /\ lock' = [lock EXCEPT ![Doc(t)] = Blank]
<1>1. /\ Set(t, Idle) /\ task[t].pc # "idle"
      /\ UNCHANGED <<record, tomb, log, backup, age, emitted, restored>>
  BY DEF Crash, At, files, history
<1>2. \/ lock' = IF Holds(t) THEN [lock EXCEPT ![Doc(t)] = Dead] ELSE lock
      \/ lock[Doc(t)] = None /\ lock' = [lock EXCEPT ![Doc(t)] = Blank]
  BY DEF Crash
<1>3. Others(t) /\ task'[t] = Idle
  BY <1>1, IdleEffect
<1> QED
  BY <1>1, <1>2, <1>3

\* The lock of a document changes hands only if it is free, or by its holder.
LEMMA LockMoves ==
    ASSUME Typed, Locked, NEW t \in Tasks, Others(t), NEW x, task[t].pc # "idle",
           lock' = [lock EXCEPT ![Doc(t)] = x],
           lock[Doc(t)] = None \/ Holds(t),
           Holds(t)' => x = t /\ Doc(t)' = Doc(t)
    PROVE  Locked'
<1>1. Doc(t) \in Locks /\ lock \in [Locks -> Tasks \cup {None, Dead, Blank}]
  BY TaskTyped DEF Typed, TypeOK
<1> SUFFICES ASSUME NEW u \in Tasks, Holds(u)' PROVE lock'[Doc(u)'] = u
  BY DEF Locked
<1>2. CASE u = t
  BY <1>1, <1>2
<1>3. CASE u # t
  <2>1. Doc(u)' = Doc(u) /\ Holds(u)
    BY <1>3 DEF Others, Doc, Holds
  <2>2. lock[Doc(u)] = u
    BY <2>1 DEF Locked
  <2>3. u # None
    BY RetentionAssumption
  <2>4. Doc(u) # Doc(t)
    BY <1>3, <2>1, <2>2, <2>3, Alone
  <2>5. Doc(u) \in Locks
    BY <2>1, TaskTyped DEF Holds
  <2> QED
    BY <1>1, <2>1, <2>2, <2>4, <2>5
<1> QED
  BY <1>2, <1>3

LEMMA LockedNext == Typed /\ Locked /\ [Next]_vars => Locked'
<1> SUFFICES ASSUME Typed, Locked, [Next]_vars PROVE Locked'
  OBVIOUS
<1>i. ~(\E t \in Tasks : task'[t] = Idle /\ Holds(t)')
  BY IdleTyped DEF Holds
<1>1. ASSUME NEW t \in Tasks, Work(t) PROVE Locked'
  BY <1>1, WorkHolds, WorkKeepsLock
<1>2. ASSUME NEW t \in Tasks, Lock(t) PROVE Locked'
  <2>1. /\ Others(t) /\ Kept(t) /\ task[t].pc = "lock" /\ lock[Doc(t)] = None
        /\ lock' = [lock EXCEPT ![Doc(t)] = t]
    BY <1>2, LockEffect DEF Goes
  <2>2. Doc(t)' = Doc(t)
    BY <2>1 DEF Kept, Doc
  <2> QED
    BY <2>1, <2>2, LockMoves
<1>3. ASSUME NEW t \in Tasks, LockBusy(t) \/ Viewed(t) PROVE Locked'
  BY <1>3, <1>i, EndEffect, AwayKeepsLock
<1>4. ASSUME NEW t \in Tasks, Unlock(t) PROVE Locked'
  <2>1. /\ Others(t) /\ task[t].pc = "unlock" /\ lock' = [lock EXCEPT ![Doc(t)] = None]
        /\ task'[t] = Idle \/ task'[t].pc = "lock"
    BY <1>4, UnlockEffect DEF Begins
  <2>2. ~(Holds(t)')
    BY <2>1, IdleTyped DEF Holds
  <2>3. Holds(t)
    BY <2>1 DEF Holds
  <2> QED
    BY <2>1, <2>2, <2>3, LockMoves
<1>5. ASSUME NEW t \in Tasks, ViewIndex(t) PROVE Locked'
  <2>1. Others(t) /\ UNCHANGED lock /\ (task'[t] = Idle \/ task'[t].pc = "shown")
    BY <1>5, ViewIndexEffect DEF Goes
  <2>2. ~(Holds(t)')
    BY <2>1, IdleTyped DEF Holds
  <2> QED
    BY <2>1, <2>2, AwayKeepsLock
<1>6. ASSUME NEW t \in Tasks, Crash(t) PROVE Locked'
  <2>1. Others(t) /\ task'[t] = Idle /\ task[t].pc # "idle"
    BY <1>6, CrashEffect
  <2>2. ~(Holds(t)')
    BY <2>1, IdleTyped DEF Holds
  <2>3. CASE UNCHANGED lock
    BY <2>1, <2>2, <2>3, AwayKeepsLock
  <2>4. CASE Holds(t) /\ lock' = [lock EXCEPT ![Doc(t)] = Dead]
    BY <2>1, <2>2, <2>4, LockMoves
  <2>5. CASE lock[Doc(t)] = None /\ lock' = [lock EXCEPT ![Doc(t)] = Blank]
    BY <2>1, <2>2, <2>5, LockMoves
  <2> QED
    BY <1>6, <2>3, <2>4, <2>5, CrashEffect
<1>7. ASSUME NEW t \in Tasks, NEW a \in Assessments, View(t, a) \/ \E op \in Ops : Start(t, op, a)
      PROVE  Locked'
  <2>1. Others(t) /\ UNCHANGED lock /\ task'[t].pc \in {"index", "lock"}
    BY <1>7, ViewEffect, StartEffect DEF Begins
  <2>2. ~(Holds(t)')
    BY <2>1 DEF Holds
  <2> QED
    BY <2>1, <2>2, AwayKeepsLock
<1>8. CASE StartSweep
  <2>1. Others(Sweep) /\ UNCHANGED lock /\ task'[Sweep].pc = "lock" /\ Sweep \in Tasks
    BY <1>8, StartSweepEffect DEF Begins, Tasks
  <2>2. ~(Holds(Sweep)')
    BY <2>1 DEF Holds
  <2> QED
    BY <2>1, <2>2, AwayKeepsLock
<1>9. CASE Outside
  <2>1. UNCHANGED task
    BY <1>9 DEF Outside, Recover, Backup, Restore, Pass, vars
  <2>2. CASE \E l \in Locks : Recover(l)
    <3>1. PICK l \in Locks : lock[l] = Dead /\ lock' = [lock EXCEPT ![l] = None]
      BY <2>2 DEF Recover
    <3>2. ASSUME NEW u \in Tasks, Holds(u) PROVE lock'[Doc(u)] = u
      <4>1. lock[Doc(u)] = u /\ Doc(u) \in Locks /\ u # Dead
        BY <3>2, TaskTyped, RetentionAssumption DEF Locked, Holds
      <4> QED
        BY <3>1, <4>1 DEF Typed, TypeOK
    <3> QED
      BY <2>1, <3>2 DEF Locked, Holds, Doc
  <2>3. CASE UNCHANGED lock
    BY <2>1, <2>3 DEF Locked, Holds, Doc
  <2> QED
    BY <1>9, <2>2, <2>3 DEF Outside, Backup, Restore, Pass, vars
<1> QED
  BY <1>1, <1>2, <1>3, <1>4, <1>5, <1>6, <1>7, <1>8, <1>9, Steps DEF Walk

-----------------------------------------------------------------------------
(* Deletions.                                                                *)

\* Whoever knows of a deletion, the index knows of it.
OwnIsIndexed ==
    /\ \A a \in Assessments : record[a] # None /\ record[a].own => tomb[a] # None
    /\ \A a \in Assessments : \A copy \in backup[a] : copy.own => tomb[a] # None
    /\ \A t \in Tasks :
          task[t].rec # None /\ task[t].rec.own /\ task[t].pc \notin {"tombstone", "idle"}
              => tomb[task[t].at] # None

\* Until it operates, a task that sees no deletion is right, and so is one
\* that is about to write an acceptance.
Heading(t) ==
    task[t].pc = "operate" \/ (task[t].pc \in {"append", "ack"} /\ task[t].then = "operate")

Accepting(t) ==
    /\ task[t].pc \in {"write", "tombstone"}
    /\ \E i \in DOMAIN task[t].kinds : task[t].kinds[i] = "accepted"

CleanOf(t) ==
    /\ Heading(t) /\ task[t].rec # None /\ ~task[t].rec.own => tomb[task[t].at] = None
    /\ Accepting(t) => /\ task[t].pc = "write" /\ task[t].half = "record"
                       /\ tomb[task[t].at] = None

Clean == \A t \in Tasks : CleanOf(t)

SeenOf(t) == task[t].late => task[t].pc = "index" /\ tomb[task[t].at] # None

Seen == \A t \in Tasks : SeenOf(t)

Deletions == OwnIsIndexed /\ Clean /\ Seen

\* Nothing but a request that holds the lock of the record makes a tombstone.
TombsStay == \A a \in Assessments : tomb[a] # None => tomb'[a] # None

LEMMA NoBackfill ==
    ASSUME NEW a \in Assessments, NEW r, r # None /\ r.own => tomb[a] # None
    PROVE  BackfilledTomb(a, r) = tomb
BY DEF BackfilledTomb

LEMMA TombSteps ==
    ASSUME Typed, OwnIsIndexed, [Next]_vars
    PROVE  \/ UNCHANGED tomb
           \/ \E t \in Tasks : WriteTombstone(t)
           \/ \E t \in Tasks : WriteCleanup(t)
<1>1. ASSUME NEW t \in Tasks, Work(t), ~WriteTombstone(t), ~WriteCleanup(t) PROVE UNCHANGED tomb
  <2>1. CASE Read(t)
    <3> DEFINE a == task[t].at
    <3>1. tomb' = BackfilledTomb(a, record[a]) /\ task[t].pc = "read"
      BY <2>1, ReadEffect
    <3>2. a \in Assessments
      BY <3>1, TaskTyped
    <3>3. record[a] # None /\ record[a].own => tomb[a] # None
      BY <3>2 DEF OwnIsIndexed
    <3> QED
      BY <3>1, <3>2, <3>3, NoBackfill
  <2>2. CASE AppendEvent(t) \/ Acknowledge(t)
    BY <2>2 DEF AppendEvent, Acknowledge
  <2>3. CASE Save(t) \/ Delete(t) \/ Accept(t) \/ \E past \in SUBSET Parts : SweepRecord(t, past)
    BY <2>3 DEF Save, Delete, Accept, SweepRecord, Refuse, Commit, files
  <2>4. CASE WriteRecord(t)
    BY <2>4 DEF WriteRecord
  <2>5. CASE ReadTombstone(t) \/ NothingToPurge(t) \/ \E left : PurgeBackups(t, left)
    BY <2>5 DEF ReadTombstone, NothingToPurge, PurgeBackups, files
  <2> QED
    BY <1>1, <2>1, <2>2, <2>3, <2>4, <2>5 DEF Work
<1>2. ASSUME NEW t \in Tasks, Walk(t) PROVE UNCHANGED tomb
  <2>1. CASE ViewIndex(t)
    <3> DEFINE a == task[t].at
    <3>1. /\ tomb' = BackfilledTomb(a, task[t].rec) /\ task[t].pc = "index" /\ a \in Assessments
      BY <2>1, ViewIndexEffect
    <3>2. task[t].rec # None /\ task[t].rec.own => tomb[a] # None
      BY <3>1 DEF OwnIsIndexed
    <3> QED
      BY <3>1, <3>2, NoBackfill
  <2>2. CASE ~ViewIndex(t)
    BY <1>2, <2>2 DEF Walk, Lock, LockBusy, Unlock, Viewed, Crash, View, Start, StartSweep, files
  <2> QED
    BY <2>1, <2>2
<1>3. CASE Outside
  BY <1>3 DEF Outside, Recover, Backup, Restore, Pass, vars, files
<1>4. CASE \E t \in Tasks : Work(t) \/ Walk(t)
  BY <1>1, <1>2, <1>4
<1> QED
  BY <1>3, <1>4, Steps

LEMMA TombsRemain ==
    ASSUME Typed, OwnIsIndexed, [Next]_vars
    PROVE  /\ TombsStay
           /\ \A a \in Assessments : tomb[a] = None /\ tomb'[a] # None =>
                 \E t \in Tasks : WriteTombstone(t) /\ task[t].at = a
<1>1. CASE UNCHANGED tomb
  BY <1>1 DEF TombsStay
<1>2. ASSUME NEW t \in Tasks, WriteTombstone(t)
      PROVE  /\ TombsStay
             /\ \A a \in Assessments : tomb[a] = None /\ tomb'[a] # None => task[t].at = a
  <2>1. /\ task[t].at \in Assessments
        /\ tomb' = IF tomb[task[t].at] = None
                   THEN [tomb EXCEPT ![task[t].at] = Fresh] ELSE tomb
    BY <1>2, WriteTombstoneEffect
  <2> QED
    BY <2>1, FreshTyped DEF TombsStay, Typed, TypeOK
<1>3. ASSUME NEW t \in Tasks, WriteCleanup(t)
      PROVE  TombsStay /\ \A a \in Assessments : tomb[a] # None \/ tomb'[a] = None
  <2>1. PICK doc \in Tombstone :
           /\ task[t].at \in Assessments /\ tomb[task[t].at] \in Tombstone
           /\ tomb' = [tomb EXCEPT ![task[t].at] = doc]
    BY <1>3, WriteCleanupEffect
  <2> QED
    BY <2>1, NoneIsNoDocument DEF TombsStay, Typed, TypeOK
<1> QED
  BY <1>1, <1>2, <1>3, TombSteps

\* What the other tasks know stays true of them.
LEMMA OthersOwn ==
    ASSUME Typed, OwnIsIndexed, TombsStay, NEW t \in Tasks, Others(t), NEW u \in Tasks \ {t},
           task'[u].rec # None, task'[u].rec.own, task'[u].pc \notin {"tombstone", "idle"}
    PROVE  tomb'[task'[u].at] # None
<1>1. task'[u] = task[u]
  BY DEF Others
<1>2. task[u].at \in Assessments
  BY <1>1, TaskTyped
<1> QED
  BY <1>1, <1>2 DEF OwnIsIndexed, TombsStay

LEMMA OthersClean ==
    ASSUME Typed, Locked, OwnIsIndexed, Clean, [Next]_vars,
           NEW t \in Tasks, Others(t), NEW u \in Tasks \ {t},
           \A v \in Tasks : WriteTombstone(v) => v = t
    PROVE  CleanOf(u)'
<1>1. task'[u] = task[u] /\ CleanOf(u)
  BY DEF Others, Clean
<1>2. ShapeOf(u) /\ (task[u].pc # "idle" => task[u].at \in Assessments)
  BY TaskTyped
<1>3. ASSUME task[u].half = "record", Holds(u), tomb[task[u].at] = None
      PROVE  tomb'[task[u].at] = None
  <2> SUFFICES ASSUME tomb'[task[u].at] # None PROVE FALSE
    OBVIOUS
  <2>1. task[u].at \in Assessments
    BY <1>2, <1>3 DEF Holds
  <2>2. WriteTombstone(t) /\ task[t].at = task[u].at
    BY <1>3, <2>1, TombsRemain
  <2>3. task[t].pc = "tombstone" /\ task[t].half = "record"
    BY <2>2, WriteTombstoneEffect
  <2>4. Holds(t) /\ Doc(t) = Doc(u)
    BY <1>3, <2>2, <2>3 DEF Holds, Doc
  <2> QED
    BY <1>3, <2>4, Alone
<1>4. Heading(u) => task[u].half = "record" /\ Holds(u)
  BY <1>2 DEF Heading, ShapeOf, Holds
<1>5. Accepting(u) => Holds(u)
  BY DEF Accepting, Holds
<1>6. (Heading(u)' <=> Heading(u)) /\ (Accepting(u)' <=> Accepting(u))
  BY <1>1 DEF Heading, Accepting
<1> QED
  BY <1>1, <1>3, <1>4, <1>5, <1>6 DEF CleanOf

LEMMA OthersSeen ==
    ASSUME Typed, Seen, TombsStay, NEW t \in Tasks, Others(t), NEW u \in Tasks \ {t}
    PROVE  SeenOf(u)'
<1>1. task'[u] = task[u] /\ SeenOf(u)
  BY DEF Others, Seen
<1>2. task[u].pc # "idle" => task[u].at \in Assessments
  BY TaskTyped
<1> QED
  BY <1>1, <1>2 DEF SeenOf, TombsStay

\* A step of task t: what remains to be shown about t and the files.
LEMMA DeletionsStep ==
    ASSUME Typed, Locked, Deletions, [Next]_vars, NEW t \in Tasks, Others(t),
           \A v \in Tasks : WriteTombstone(v) => v = t,
           \A a \in Assessments : record'[a] # None /\ record'[a].own => tomb'[a] # None,
           \A a \in Assessments : \A copy \in backup'[a] : copy.own => tomb'[a] # None,
           task'[t].rec # None /\ task'[t].rec.own /\ task'[t].pc \notin {"tombstone", "idle"}
              => tomb'[task'[t].at] # None,
           CleanOf(t)', SeenOf(t)'
    PROVE  Deletions'
<1>1. TombsStay
  BY TombsRemain DEF Deletions
<1>2. ASSUME NEW u \in Tasks
      PROVE  task'[u].rec # None /\ task'[u].rec.own /\ task'[u].pc \notin {"tombstone", "idle"}
                => tomb'[task'[u].at] # None
  <2>1. CASE u = t
    BY <2>1
  <2>2. CASE u # t
    BY <1>1, <2>2, OthersOwn DEF Deletions
  <2> QED
    BY <2>1, <2>2
<1>3. OwnIsIndexed'
  BY <1>2 DEF OwnIsIndexed
<1>4. Clean'
  BY OthersClean DEF Deletions, Clean
<1>5. Seen'
  BY <1>1, OthersSeen DEF Deletions, Seen
<1> QED
  BY <1>3, <1>4, <1>5 DEF Deletions

\* A record is only ever replaced under its lock.
LEMMA FilesKept ==
    ASSUME Typed, OwnIsIndexed, [Next]_vars, UNCHANGED <<record, backup>>
    PROVE  /\ \A a \in Assessments : record'[a] # None /\ record'[a].own => tomb'[a] # None
           /\ \A a \in Assessments : \A copy \in backup'[a] : copy.own => tomb'[a] # None
BY TombsRemain DEF OwnIsIndexed, TombsStay

\* A task that has begun anew, or has ended.
LEMMA AwayClean ==
    ASSUME NEW t \in Tasks, task'[t] = Idle \/ task'[t].pc \in {"lock", "read", "unlock", "shown"}
    PROVE  CleanOf(t)'
BY IdleTyped DEF CleanOf, Heading, Accepting

\* A task that writes a tombstone writes nothing else.
LEMMA OnlyWriter ==
    ASSUME Typed, NEW t \in Tasks, Others(t), task'[t] # task[t],
           NEW v \in Tasks, WriteTombstone(v)
    PROVE  v = t
<1>1. task'[v].pc = "write" /\ task[v].pc = "tombstone"
  BY WriteTombstoneEffect DEF Goes
<1>2. Others(v)
  BY WriteTombstoneEffect DEF Goes
<1> QED
  BY <1>2 DEF Others

LEMMA DeletionsWork ==
    ASSUME Typed, Locked, Deletions, [Next]_vars, NEW t \in Tasks, Work(t)
    PROVE  Deletions'
<1> DEFINE a == task[t].at
<1>1. Others(t) /\ Kept(t) /\ Holds(t) /\ task[t].pc # "idle" /\ task[t].pc # "index"
  BY WorkHolds DEF Holds
<1>2. a \in Assessments /\ task[t] \in Task /\ ShapeOf(t) /\ CleanOf(t) /\ SeenOf(t)
  BY <1>1, TaskTyped DEF Deletions, Clean, Seen
<1>3. OwnIsIndexed /\ TombsStay
  BY TombsRemain DEF Deletions
<1>4. SeenOf(t)'
  BY <1>1, <1>2 DEF Kept, SeenOf
<1>5. task[t].rec # None /\ task[t].rec.own /\ task[t].pc # "tombstone" => tomb[a] # None
  BY <1>1, <1>3 DEF OwnIsIndexed
<1>6. tomb[a] # None => tomb'[a] # None
  BY <1>2, <1>3 DEF TombsStay
<1>7. \A b \in Assessments : record[b] # None /\ record[b].own => tomb'[b] # None
  BY <1>3 DEF OwnIsIndexed, TombsStay
<1>8. \A b \in Assessments : \A copy \in backup[b] : copy.own => tomb'[b] # None
  BY <1>3 DEF OwnIsIndexed, TombsStay
<1>9. task'[t].at = a
  BY <1>1 DEF Kept
<1>10. ASSUME UNCHANGED record, UNCHANGED backup, task'[t].pc # task[t].pc,
              task'[t].rec # None /\ task'[t].rec.own /\ task'[t].pc \notin {"tombstone", "idle"}
                 => tomb'[a] # None,
              CleanOf(t)'
       PROVE  Deletions'
  <2>1. \A v \in Tasks : WriteTombstone(v) => v = t
    BY <1>1, <1>10, OnlyWriter
  <2> QED
    BY <1>1, <1>4, <1>7, <1>8, <1>9, <1>10, <2>1, DeletionsStep
<1>11. CASE Read(t)
  <2> DEFINE r == Indexed(a, record[a])
  <2>1. /\ task[t].pc = "read" /\ task[t].half = "record"
        /\ UNCHANGED record /\ UNCHANGED backup /\ tomb' = BackfilledTomb(a, record[a])
        /\ \/ task'[t].pc = "operate" /\ task'[t].rec = r
           \/ task'[t].pc = "unlock" /\ task'[t].rec = task[t].rec
           \/ task'[t].pc \in {"operate", "append"} /\ task'[t].rec = r
    BY <1>11, ReadEffect
  <2>2. record[a] \in Record \cup {None}
    BY <1>2 DEF Typed, TypeOK
  <2>3. r # None => record[a] # None /\ (r.own <=> record[a].own \/ tomb[a] # None)
    BY <1>2, <2>2, IndexedTyped DEF Typed
  <2>4. UNCHANGED tomb
    BY <1>2, <1>3, <2>1, NoBackfill DEF OwnIsIndexed
  <2>5. r # None => (r.own <=> tomb[a] # None)
    BY <1>2, <1>3, <2>3 DEF OwnIsIndexed
  <2> HIDE DEF r
  <2>6. CleanOf(t)'
    BY <1>9, <2>1, <2>4, <2>5, AwayClean DEF CleanOf, Heading, Accepting
  <2>7. task'[t].rec # None /\ task'[t].rec.own => tomb'[a] # None
    BY <1>5, <1>6, <2>1, <2>4, <2>5
  <2> QED
    BY <1>10, <2>1, <2>6, <2>7
<1>12. CASE AppendEvent(t)
  <2>1. /\ task[t].pc = "append" /\ task'[t].rec = task[t].rec /\ task'[t].then = task[t].then
        /\ task'[t].kinds = task[t].kinds /\ UNCHANGED record /\ UNCHANGED backup /\ UNCHANGED tomb
        /\ task'[t].pc \in {"append", "ack", "unlock", "purge"}
        /\ \E e \in task[t].todo : task'[t].todo = task[t].todo \ {e}
    BY <1>12, AppendEffect
  <2>2. CleanOf(t)'
    BY <1>2, <1>9, <2>1 DEF CleanOf, Heading, Accepting
  <2>3. \A v \in Tasks : WriteTombstone(v) => v = t
    BY <1>1, <2>1, OnlyWriter
  <2> QED
    BY <1>1, <1>4, <1>5, <1>7, <1>8, <1>9, <2>1, <2>2, <2>3, DeletionsStep
<1>13. CASE Acknowledge(t)
  <2>1. PICK r \in Record :
           /\ task[t].pc = "ack" /\ r.own = task[t].rec.own /\ task[t].rec \in Record
           /\ task'[t].rec = r /\ task'[t].pc = task[t].then /\ task[t].then \in {"unlock", "operate"}
           /\ record' = [record EXCEPT ![a] = r] /\ UNCHANGED backup /\ UNCHANGED tomb
    BY <1>13, AcknowledgeEffect
  <2>2. r # None /\ task[t].rec # None
    BY <2>1, NoneIsNoDocument
  <2>3. CleanOf(t)'
    BY <1>2, <1>9, <2>1, <2>2 DEF CleanOf, Heading, Accepting
  <2>4. r.own => tomb'[a] # None
    BY <1>5, <1>6, <2>1, <2>2
  <2>5. \A b \in Assessments : record'[b] # None /\ record'[b].own => tomb'[b] # None
    BY <1>2, <1>7, <2>1, <2>4 DEF Typed, TypeOK
  <2>6. \A v \in Tasks : WriteTombstone(v) => v = t
    BY <1>1, <2>1, OnlyWriter
  <2> QED
    BY <1>1, <1>4, <1>8, <1>9, <2>1, <2>3, <2>4, <2>5, <2>6, DeletionsStep
<1>14. ASSUME NEW r \in Record, NEW kinds \in Seq(Kinds), NEW pc \in {"write", "tombstone"},
              task[t].pc = "operate", Commit(t, r, kinds, pc),
              r.own /\ pc = "write" => tomb[a] # None,
              (\E i \in DOMAIN kinds : kinds[i] = "accepted")
                 => pc = "write" /\ task[t].half = "record" /\ tomb[a] = None
       PROVE  Deletions'
  <2>1. /\ task'[t].pc = pc /\ task'[t].rec = r /\ task'[t].kinds = kinds
        /\ UNCHANGED record /\ UNCHANGED backup /\ UNCHANGED tomb
    BY <1>14, CommitEffect
  <2>2. task'[t].half = task[t].half
    BY <1>1 DEF Kept
  <2>3. CleanOf(t)'
    BY <1>9, <1>14, <2>1, <2>2 DEF CleanOf, Heading, Accepting
  <2> QED
    BY <1>10, <1>14, <2>1, <2>3
<1>15. ASSUME Refuse(t), task[t].pc = "operate"
       PROVE  Deletions'
  <2>1. /\ task'[t].pc = "unlock" /\ task'[t].rec = task[t].rec
        /\ UNCHANGED record /\ UNCHANGED backup /\ UNCHANGED tomb
    BY <1>15, RefuseEffect DEF Goes, Same
  <2>2. CleanOf(t)'
    BY <2>1, AwayClean
  <2> QED
    BY <1>5, <1>10, <1>15, <2>1, <2>2
<1>16. CASE Save(t)
  <2>1. task[t].pc = "operate"
    BY <1>16 DEF Save, Operation, At
  <2>2. New \in Record /\ ~New.own /\ << >> \in Seq(Kinds) /\ DOMAIN << >> = {}
    BY NewTyped DEF New
  <2> QED
    BY <1>14, <1>15, <1>16, <2>1, <2>2, SaveEffect
<1>17. CASE Delete(t)
  <2>1. task[t].pc = "operate"
    BY <1>17 DEF Delete, Operation, At
  <2>2. PICK r \in Record, kinds \in Seq(Kinds), pc \in {"write", "tombstone"} :
           /\ Commit(t, r, kinds, pc) /\ task[t].rec \in Record
           /\ (pc = "write" => task[t].rec.own)
           /\ \A i \in DOMAIN kinds : kinds[i] # "accepted"
    BY <1>17, DeleteEffect
  <2>3. pc = "write" => tomb[a] # None
    BY <1>5, <2>1, <2>2, NoneIsNoDocument
  <2> QED
    BY <1>14, <2>1, <2>2, <2>3
<1>18. CASE Accept(t)
  <2>1. task[t].pc = "operate" /\ task[t].half = "record"
    BY <1>2, <1>18 DEF Accept, Operation, At, ShapeOf
  <2>2. CASE Refuse(t)
    BY <1>15, <2>1, <2>2
  <2>3. CASE ~Refuse(t)
    <3>1. PICK r \in Record, kinds \in Seq(Kinds) :
             /\ Commit(t, r, kinds, "write") /\ task[t].rec \in Record
             /\ ~r.own /\ ~task[t].rec.own
      BY <1>18, <2>3, AcceptEffect
    <3>2. tomb[a] = None
      BY <1>2, <2>1, <3>1, NoneIsNoDocument DEF CleanOf, Heading
    <3> QED
      BY <1>14, <2>1, <3>1, <3>2
  <2> QED
    BY <2>2, <2>3
<1>19. CASE \E past \in SUBSET Parts : SweepRecord(t, past)
  <2>1. task[t].pc = "operate"
    BY <1>19 DEF SweepRecord, Operation, At
  <2>2. PICK r \in Record, kinds \in Seq(Kinds) :
           /\ Commit(t, r, kinds, "write") /\ task[t].rec \in Record
           /\ r.own = task[t].rec.own
           /\ \A i \in DOMAIN kinds : kinds[i] # "accepted"
    BY <1>19, SweepEffect
  <2>3. r.own => tomb[a] # None
    BY <1>5, <2>1, <2>2, NoneIsNoDocument
  <2> QED
    BY <1>14, <2>1, <2>2, <2>3
<1>20. CASE WriteTombstone(t)
  <2>1. /\ task[t].pc = "tombstone" /\ task'[t].pc = "write" /\ task'[t].kinds = task[t].kinds
        /\ UNCHANGED record /\ UNCHANGED backup
        /\ tomb' = IF tomb[a] = None THEN [tomb EXCEPT ![a] = Fresh] ELSE tomb
    BY <1>20, WriteTombstoneEffect DEF Goes, Same
  <2>2. tomb'[a] # None
    BY <1>2, <2>1, FreshTyped DEF Typed, TypeOK
  <2>3. CleanOf(t)'
    BY <1>2, <2>1 DEF CleanOf, Heading, Accepting
  <2> QED
    BY <1>10, <2>1, <2>2, <2>3
<1>21. CASE WriteRecord(t)
  <2>1. PICK r \in Record :
           /\ task[t].pc = "write" /\ r.own = task[t].rec.own /\ task[t].rec \in Record
           /\ task'[t].rec = r /\ task'[t].then = "unlock" /\ task'[t].pc \in {"unlock", "append"}
           /\ record' = [record EXCEPT ![a] = r] /\ UNCHANGED backup /\ UNCHANGED tomb
    BY <1>21, WriteRecordEffect
  <2>2. r # None /\ task[t].rec # None
    BY <2>1, NoneIsNoDocument
  <2>3. CleanOf(t)'
    BY <2>1 DEF CleanOf, Heading, Accepting
  <2>4. r.own => tomb'[a] # None
    BY <1>5, <1>6, <2>1, <2>2
  <2>5. \A b \in Assessments : record'[b] # None /\ record'[b].own => tomb'[b] # None
    BY <1>2, <1>7, <2>1, <2>4 DEF Typed, TypeOK
  <2>6. \A v \in Tasks : WriteTombstone(v) => v = t
    BY <1>1, <2>1, OnlyWriter
  <2> QED
    BY <1>1, <1>4, <1>8, <1>9, <2>1, <2>3, <2>4, <2>5, <2>6, DeletionsStep
<1>22. CASE ReadTombstone(t)
  <2>1. /\ task[t].pc = "read" /\ task'[t].rec = task[t].rec /\ task'[t].then \in {"unlock", "purge"}
        /\ task'[t].pc \in {"unlock", "purge", "append"}
        /\ UNCHANGED record /\ UNCHANGED backup /\ UNCHANGED tomb
    BY <1>22, ReadTombstoneEffect
  <2>2. CleanOf(t)'
    BY <2>1 DEF CleanOf, Heading, Accepting
  <2> QED
    BY <1>5, <1>10, <2>1, <2>2
<1>23. CASE NothingToPurge(t)
  <2>1. /\ task[t].pc = "purge" /\ task'[t].pc = "unlock" /\ task'[t].rec = task[t].rec
        /\ UNCHANGED record /\ UNCHANGED backup /\ UNCHANGED tomb
    BY <1>23, NothingToPurgeEffect DEF Goes, Same
  <2>2. CleanOf(t)'
    BY <2>1, AwayClean
  <2> QED
    BY <1>5, <1>10, <2>1, <2>2
<1>24. CASE \E left : PurgeBackups(t, left)
  <2>1. PICK left :
           /\ task[t].pc = "purge" /\ task'[t].pc = "write" /\ task'[t].rec = task[t].rec
           /\ left \subseteq backup[a] /\ backup' = [backup EXCEPT ![a] = left]
           /\ \A i \in DOMAIN task'[t].kinds : task'[t].kinds[i] # "accepted"
           /\ UNCHANGED record /\ UNCHANGED tomb
    BY <1>24, PurgeEffect
  <2>2. CleanOf(t)'
    BY <2>1 DEF CleanOf, Heading, Accepting
  <2>3. \A b \in Assessments : \A copy \in backup'[b] : copy.own => tomb'[b] # None
    BY <1>2, <1>8, <2>1 DEF Typed, TypeOK
  <2>4. \A v \in Tasks : WriteTombstone(v) => v = t
    BY <1>1, <2>1, OnlyWriter
  <2> QED
    BY <1>1, <1>4, <1>5, <1>7, <1>9, <2>1, <2>2, <2>3, <2>4, DeletionsStep
<1>25. CASE WriteCleanup(t)
  <2>1. /\ task[t].pc = "write" /\ task'[t].rec = task[t].rec /\ task'[t].then = "unlock"
        /\ task'[t].pc = "append" /\ UNCHANGED record /\ UNCHANGED backup
    BY <1>25, WriteCleanupEffect
  <2>2. CleanOf(t)'
    BY <2>1 DEF CleanOf, Heading, Accepting
  <2> QED
    BY <1>5, <1>6, <1>10, <2>1, <2>2
<1> QED
  BY <1>11, <1>12, <1>13, <1>16, <1>17, <1>18, <1>19, <1>20, <1>21, <1>22, <1>23, <1>24, <1>25
     DEF Work

LEMMA DeletionsWalk ==
    ASSUME Typed, Locked, Deletions, [Next]_vars, NEW t \in Tasks, Walk(t)
    PROVE  Deletions'
<1>1. OwnIsIndexed /\ TombsStay /\ SeenOf(t)
  BY TombsRemain DEF Deletions, Seen
<1>2. ASSUME Others(t), task'[t].rec = None, task'[t] = Idle \/ task'[t].pc = "lock",
             ~task'[t].late, UNCHANGED record, UNCHANGED backup, task'[t] # task[t]
      PROVE  Deletions'
  <2>1. CleanOf(t)' /\ SeenOf(t)'
    BY <1>2, AwayClean DEF SeenOf
  <2> QED
    BY <1>1, <1>2, <2>1, FilesKept, OnlyWriter, DeletionsStep
<1>3. CASE Lock(t)
  <2>1. /\ Others(t) /\ Kept(t) /\ task[t].pc = "lock" /\ task'[t].pc = "read"
        /\ task'[t].rec = task[t].rec /\ UNCHANGED record /\ UNCHANGED backup /\ UNCHANGED tomb
    BY <1>3, LockEffect DEF Goes, Same
  <2>2. CleanOf(t)' /\ SeenOf(t)'
    BY <1>1, <2>1, AwayClean DEF SeenOf, Kept
  <2>3. task'[t].rec # None /\ task'[t].rec.own => tomb'[task'[t].at] # None
    BY <1>1, <2>1 DEF Kept, OwnIsIndexed
  <2> QED
    BY <1>1, <2>1, <2>2, <2>3, FilesKept, OnlyWriter, DeletionsStep
<1>4. CASE LockBusy(t) \/ Viewed(t)
  <2>1. Others(t) /\ task'[t] = Idle /\ UNCHANGED record /\ UNCHANGED backup
    BY <1>4, EndEffect
  <2>2. task[t].pc # "idle"
    BY <1>4 DEF LockBusy, Viewed, At
  <2> QED
    BY <1>2, <2>1, <2>2, IdleTyped
<1>5. CASE Unlock(t)
  <2>1. /\ Others(t) /\ task[t].pc = "unlock" /\ UNCHANGED record /\ UNCHANGED backup
        /\ task'[t] = Idle \/ Begins(t)
    BY <1>5, UnlockEffect
  <2> QED
    BY <1>2, <2>1, IdleTyped DEF Begins
<1>6. CASE Crash(t)
  <2>1. Others(t) /\ task'[t] = Idle /\ task[t].pc # "idle" /\ UNCHANGED record /\ UNCHANGED backup
    BY <1>6, CrashEffect
  <2> QED
    BY <1>2, <2>1, IdleTyped
<1>7. CASE \E a \in Assessments : \E op \in Ops : Start(t, op, a)
  <2>1. Begins(t) /\ UNCHANGED record /\ UNCHANGED backup
    BY <1>7, StartEffect
  <2>2. task[t].pc = "idle"
    BY <1>7 DEF Start, At
  <2> QED
    BY <1>2, <2>1, <2>2 DEF Begins
<1>8. CASE t = Sweep /\ StartSweep
  <2>1. Begins(t) /\ UNCHANGED record /\ UNCHANGED backup
    BY <1>8, StartSweepEffect
  <2>2. task[t].pc = "idle"
    BY <1>8 DEF StartSweep, At
  <2> QED
    BY <1>2, <2>1, <2>2 DEF Begins
<1>9. ASSUME NEW a \in Assessments, View(t, a) PROVE Deletions'
  <2>1. /\ Others(t) /\ task'[t].pc = "index" /\ task'[t].at = a /\ task'[t].rec = record[a]
        /\ record[a] \in Record /\ task'[t].late = (tomb[a] # None)
        /\ UNCHANGED record /\ UNCHANGED backup /\ UNCHANGED tomb
    BY <1>9, ViewEffect
  <2>2. CleanOf(t)' /\ SeenOf(t)'
    BY <2>1 DEF CleanOf, Heading, Accepting, SeenOf
  <2>3. task'[t].rec.own => tomb'[a] # None
    BY <1>1, <2>1, NoneIsNoDocument DEF OwnIsIndexed
  <2>4. task[t].pc = "idle"
    BY <1>9 DEF View, At
  <2> QED
    BY <1>1, <2>1, <2>2, <2>3, <2>4, FilesKept, OnlyWriter, DeletionsStep
<1>10. CASE ViewIndex(t)
  <2> DEFINE a == task[t].at
  <2>1. /\ Others(t) /\ task[t].pc = "index" /\ a \in Assessments /\ task[t].rec \in Record
        /\ UNCHANGED record /\ UNCHANGED backup
        /\ \/ task'[t] = Idle
           \/ Goes(t, "shown") /\ ~Indexed(a, task[t].rec).own
    BY <1>10, ViewIndexEffect
  <2>2. CASE task'[t] = Idle
    BY <1>2, <2>1, <2>2, IdleTyped
  <2>3. CASE Goes(t, "shown") /\ ~Indexed(a, task[t].rec).own
    <3>1. tomb[a] = None /\ ~task[t].rec.own
      BY <2>1, <2>3, IndexedTyped, NoneIsNoDocument DEF Typed
    <3>2. ~task[t].late
      BY <1>1, <3>1 DEF SeenOf
    <3>3. task'[t].pc = "shown" /\ ~task'[t].late /\ task'[t].rec = task[t].rec
      BY <2>3, <3>2 DEF Goes, Kept, Same
    <3>4. CleanOf(t)' /\ SeenOf(t)'
      BY <3>3, AwayClean DEF SeenOf
    <3> QED
      BY <1>1, <2>1, <3>1, <3>3, <3>4, FilesKept, OnlyWriter, DeletionsStep
  <2> QED
    BY <2>1, <2>2, <2>3
<1> QED
  BY <1>3, <1>4, <1>5, <1>6, <1>7, <1>8, <1>9, <1>10 DEF Walk

LEMMA DeletionsOutside ==
    ASSUME Typed, Deletions, Outside
    PROVE  Deletions'
<1>1. UNCHANGED <<task, tomb>>
  BY DEF Outside, Recover, Backup, Restore, Pass, vars, files
<1>2. Clean' /\ Seen'
  BY <1>1 DEF Deletions, Clean, CleanOf, Heading, Accepting, Seen, SeenOf
<1>3. \A a \in Assessments : record'[a] # None /\ record'[a].own => tomb'[a] # None
  <2>1. CASE UNCHANGED record
    BY <1>1, <2>1 DEF Deletions, OwnIsIndexed
  <2>2. ASSUME NEW a \in Assessments, Restore(a)
        PROVE  \A b \in Assessments : record'[b] # None /\ record'[b].own => tomb'[b] # None
    BY <1>1, <2>2 DEF Restore, Deletions, OwnIsIndexed, Typed, TypeOK
  <2> QED
    BY <2>1, <2>2 DEF Outside, Recover, Backup, Pass, vars, files
<1>4. \A a \in Assessments : \A copy \in backup'[a] : copy.own => tomb'[a] # None
  <2>1. CASE UNCHANGED backup
    BY <1>1, <2>1 DEF Deletions, OwnIsIndexed
  <2>2. ASSUME NEW a \in Assessments, Backup(a)
        PROVE  \A b \in Assessments : \A copy \in backup'[b] : copy.own => tomb'[b] # None
    BY <1>1, <2>2 DEF Backup, Deletions, OwnIsIndexed, Typed, TypeOK
  <2> QED
    BY <2>1, <2>2 DEF Outside, Recover, Restore, Pass, vars, files
<1>5. OwnIsIndexed'
  BY <1>1, <1>3, <1>4 DEF Deletions, OwnIsIndexed
<1> QED
  BY <1>2, <1>5 DEF Deletions

LEMMA DeletionsNext == Typed /\ Locked /\ Deletions /\ [Next]_vars => Deletions'
BY Steps, DeletionsWork, DeletionsWalk, DeletionsOutside

LEMMA DeletionsInit == Init => Locked /\ Deletions
<1> SUFFICES ASSUME Init PROVE Locked /\ Deletions
  OBVIOUS
<1>1. \A t \in Tasks : task[t] = Idle
  BY DEF Init
<1>2. Locked
  BY <1>1, IdleTyped DEF Locked, Holds
<1>3. \A a \in Assessments : backup[a] = {} /\ (record[a] # None => ~record[a].own)
  BY DEF Init, New
<1>4. OwnIsIndexed
  BY <1>1, <1>3, IdleTyped DEF OwnIsIndexed
<1>5. Clean /\ Seen
  BY <1>1, IdleTyped DEF Clean, CleanOf, Heading, Accepting, Seen, SeenOf
<1> QED
  BY <1>2, <1>4, <1>5 DEF Deletions

LEMMA Indexing == Spec => [](Typed /\ Locked /\ Deletions)
<1>1. Init => Typed /\ Locked /\ Deletions
  BY TypedInit, DeletionsInit
<1>2. (Typed /\ Locked /\ Deletions) /\ [Next]_vars => (Typed /\ Locked /\ Deletions)'
  BY TypedNext, LockedNext, DeletionsNext
<1> QED
  BY <1>1, <1>2, PTL DEF Spec

\* A read that begins once the tombstone is written shows nothing: the index
\* decides, and nobody takes a tombstone out of it (applyIndexedTombstone).
THEOREM Hiding == Spec => []DeletedStaysHidden
<1>1. Typed /\ Locked /\ Deletions => DeletedStaysHidden
  BY DEF Deletions, Seen, SeenOf, DeletedStaysHidden, At
<1> QED
  BY <1>1, Indexing, PTL

\* An assessment is accepted under the lock of its record only, and only
\* before its tombstone is written (acceptAssessmentArtifact).
THEOREM Refusing == Spec => NothingAcceptedAfterDeletion
<1> DEFINE Refused ==
        \A a \in Assessments :
           Len(emitted'[a]) > Len(emitted[a]) /\ emitted'[a][Len(emitted'[a])] = "accepted"
              => tomb[a] = None
<1>1. ASSUME Typed, Deletions, NEW t \in Tasks, task[t].pc = "write", Emit(t),
             NEW a \in Assessments, Len(emitted'[a]) > Len(emitted[a]),
             emitted'[a][Len(emitted'[a])] = "accepted"
      PROVE  tomb[a] = None
  <2> DEFINE kinds == task[t].kinds
  <2>1. kinds \in Seq(Kinds) /\ task[t].at \in Assessments
    BY <1>1, TaskTyped DEF Task
  <2>2. emitted \in [Assessments -> Seq(Kinds)] /\ emitted[a] \in Seq(Kinds)
    BY <1>1 DEF Typed, TypeOK
  <2>3. a = task[t].at /\ emitted'[a] = emitted[a] \o kinds
    <3>1. emitted' = [emitted EXCEPT ![task[t].at] = emitted[task[t].at] \o kinds]
      BY <1>1 DEF Emit
    <3>2. CASE a = task[t].at
      BY <2>1, <2>2, <3>1, <3>2
    <3>3. CASE a # task[t].at
      <4>1. emitted'[a] = emitted[a] /\ Len(emitted[a]) \in Nat
        BY <2>1, <2>2, <3>1, <3>3
      <4> QED
        BY <1>1, <4>1
    <3> QED
      BY <3>2, <3>3
  <2> HIDE DEF kinds
  <2>4. /\ Len(emitted[a]) \in Nat /\ Len(kinds) \in Nat
        /\ Len(emitted'[a]) = Len(emitted[a]) + Len(kinds)
    BY <2>1, <2>2, <2>3
  <2>5. Len(kinds) >= 1
    BY <1>1, <2>4
  <2>6. emitted'[a][Len(emitted'[a])] = kinds[Len(kinds)] /\ Len(kinds) \in DOMAIN kinds
    BY <2>1, <2>2, <2>3, <2>4, <2>5
  <2>7. Accepting(t)
    BY <1>1, <2>6 DEF Accepting, kinds
  <2> QED
    BY <1>1, <2>3, <2>7 DEF Deletions, Clean, CleanOf
<1>2. ASSUME Typed, UNCHANGED emitted PROVE Refused
  <2>1. \A a \in Assessments : Len(emitted[a]) \in Nat
    BY <1>2 DEF Typed, TypeOK
  <2> QED
    BY <1>2, <2>1
<1>3. Typed /\ Locked /\ Deletions /\ [Next]_vars => Refused \/ UNCHANGED vars
  <2> SUFFICES ASSUME Typed, Deletions, [Next]_vars PROVE Refused
    OBVIOUS
  <2>1. CASE \E t \in Tasks : WriteRecord(t) \/ WriteCleanup(t)
    BY <1>1, <2>1 DEF WriteRecord, WriteCleanup, At
  <2>2. CASE UNCHANGED emitted
    BY <1>2, <2>2
  <2>3. UNCHANGED emitted \/ \E t \in Tasks : WriteRecord(t) \/ WriteCleanup(t)
    BY ZenonT(40) DEF Next, TaskStep, Lock, LockBusy, Unlock, Read, AppendEvent, Acknowledge, Save, Delete,
       Accept, SweepRecord, Commit, Refuse, WriteTombstone, ReadTombstone, NothingToPurge,
       PurgeBackups, ViewIndex, Viewed, View, Start, StartSweep, Crash, Recover, Backup, Restore,
       Pass, vars, files, history
  <2> QED
    BY <2>1, <2>2, <2>3
<1>4. Typed /\ Locked /\ Deletions /\ [Next]_vars => [Refused]_vars
  BY <1>3
<1> HIDE DEF Refused
<1>5. Spec => [][Refused]_vars
  BY <1>4, Indexing, PTL DEF Spec
<1> QED
  BY <1>5 DEF NothingAcceptedAfterDeletion, Refused


\* The audit log is searched before a line is appended
\* (appendRetentionAuditEventsOnce): no event stands in it twice, however
\* often a crash repeats an outbox.
THEOREM Auditing == Spec => []AuditedOnce
<1>1. Init => AuditedOnce
  <2> SUFFICES ASSUME Init, NEW a \in Assessments PROVE DOMAIN log[a] = {}
    BY DEF AuditedOnce
  <2>1. log[a] = << >>
    BY DEF Init
  <2> QED
    BY <2>1
<1>2. ASSUME Typed, AuditedOnce, NEW t \in Tasks, AppendEvent(t)
      PROVE  AuditedOnce'
  <2>1. PICK e \in task[t].todo :
           /\ task[t].at \in Assessments
           /\ log' = IF e \in Logged(task[t].at) THEN log
                     ELSE [log EXCEPT ![task[t].at] = Append(log[task[t].at], e)]
    BY <1>2, AppendEffect
  <2>2. log \in [Assessments -> Seq(Nat)] /\ e \in Nat
    BY <1>2, TaskTyped DEF Typed, TypeOK, Task
  <2>3. CASE log' = log
    BY <1>2, <2>3 DEF AuditedOnce
  <2>4. CASE e \notin Logged(task[t].at)
    <3> DEFINE a == task[t].at
               s == log[a]
    <3>1. log' = [log EXCEPT ![a] = Append(s, e)]
      BY <2>1, <2>4
    <3>2. s \in Seq(Nat) /\ log'[a] = Append(s, e)
      BY <2>1, <2>2, <3>1
    <3>3. \A i \in DOMAIN s : s[i] # e
      BY <2>4 DEF Logged
    <3>4. \A i, j \in DOMAIN s : s[i] = s[j] => i = j
      BY <1>2, <2>1 DEF AuditedOnce
    <3>5. \A b \in Assessments \ {a} : log'[b] = log[b]
      BY <2>2, <3>1
    <3> HIDE DEF s
    <3>6. \A i, j \in DOMAIN Append(s, e) : Append(s, e)[i] = Append(s, e)[j] => i = j
      <4>1. Len(s) \in Nat /\ DOMAIN s = 1..Len(s) /\ DOMAIN Append(s, e) = 1..(Len(s) + 1)
        BY <2>2, <3>2
      <4>2. \A i \in 1..Len(s) : Append(s, e)[i] = s[i]
        BY <2>2, <3>2
      <4>3. Append(s, e)[Len(s) + 1] = e
        BY <2>2, <3>2
      <4> QED
        BY <3>3, <3>4, <4>1, <4>2, <4>3
    <3> QED
      BY <1>2, <3>2, <3>5, <3>6 DEF AuditedOnce
  <2> QED
    BY <2>1, <2>3, <2>4
<1>3. Typed /\ AuditedOnce /\ [Next]_vars => AuditedOnce'
  <2> SUFFICES ASSUME Typed, AuditedOnce, [Next]_vars PROVE AuditedOnce'
    OBVIOUS
  <2>1. CASE \E t \in Tasks : AppendEvent(t)
    BY <1>2, <2>1
  <2>2. CASE UNCHANGED log
    BY <2>2 DEF AuditedOnce
  <2>3. UNCHANGED log \/ \E t \in Tasks : AppendEvent(t)
    BY ZenonT(40) DEF Next, TaskStep, Lock, LockBusy, Unlock, Read, Acknowledge, Save, Delete,
       Accept, SweepRecord, Commit, Refuse, WriteTombstone, WriteRecord, ReadTombstone,
       NothingToPurge, PurgeBackups, WriteCleanup, ViewIndex, Viewed, View, Start, StartSweep,
       Crash, Recover, Backup, Restore, Pass, vars, files
  <2> QED
    BY <2>1, <2>2, <2>3
<1>4. Spec => [](Typed /\ AuditedOnce)
  BY <1>1, <1>3, TypedInit, TypedNext, PTL DEF Spec
<1> QED
  BY <1>4, PTL

-----------------------------------------------------------------------------
(* Events.                                                                   *)

\* What waits in the file of a record, and in the copy a task works on.
Waiting(a) == IF record[a] = None THEN {} ELSE record[a].outbox
Carrying(t) == IF task[t].rec = None THEN {} ELSE task[t].rec.outbox

\* A task that holds the lock of a record drops no event that waits there: it
\* has it in its copy, or has yet to append it, or it is in the log.
CarryOf(t) ==
    task[t].half = "record" =>
        /\ task[t].pc = "append" =>
              Waiting(task[t].at) \subseteq task[t].todo \cup Logged(task[t].at)
        /\ task[t].pc = "ack" => Waiting(task[t].at) \subseteq Logged(task[t].at)
        /\ task[t].pc \in {"operate", "tombstone", "write"} =>
              Waiting(task[t].at) \subseteq Carrying(t)

Carried == \A t \in Tasks : CarryOf(t)

\* Who changes the records.
LEMMA RecordSteps ==
    ASSUME Typed, [Next]_vars
    PROVE  \/ UNCHANGED record
           \/ \E t \in Tasks : Acknowledge(t) \/ WriteRecord(t)
           \/ \E a \in Assessments : Restore(a)
BY ZenonT(60) DEF Next, TaskStep, Lock, LockBusy, Unlock, Read, AppendEvent, Save, Delete,
   Accept, SweepRecord, Commit, Refuse, WriteTombstone, ReadTombstone, NothingToPurge,
   PurgeBackups, WriteCleanup, ViewIndex, Viewed, View, Start, StartSweep, Crash, Recover,
   Backup, Pass, vars, files, history

\* Who changes the log, and how.
LEMMA LogSteps ==
    ASSUME Typed, [Next]_vars
    PROVE  UNCHANGED log \/ \E t \in Tasks : AppendEvent(t)
BY ZenonT(60) DEF Next, TaskStep, Lock, LockBusy, Unlock, Read, Acknowledge, Save, Delete,
   Accept, SweepRecord, Commit, Refuse, WriteTombstone, WriteRecord, ReadTombstone,
   NothingToPurge, PurgeBackups, WriteCleanup, ViewIndex, Viewed, View, Start, StartSweep,
   Crash, Recover, Backup, Restore, Pass, vars, files

\* Who commits events.
LEMMA EmitSteps ==
    ASSUME Typed, [Next]_vars
    PROVE  UNCHANGED emitted \/ \E t \in Tasks : WriteRecord(t) \/ WriteCleanup(t)
BY ZenonT(60) DEF Next, TaskStep, Lock, LockBusy, Unlock, Read, AppendEvent, Acknowledge, Save,
   Delete, Accept, SweepRecord, Commit, Refuse, WriteTombstone, ReadTombstone, NothingToPurge,
   PurgeBackups, ViewIndex, Viewed, View, Start, StartSweep, Crash, Recover, Backup, Restore,
   Pass, vars, files, history

LEMMA Appended ==
    ASSUME Typed, NEW t \in Tasks, AppendEvent(t), NEW a \in Assessments
    PROVE  /\ Logged(a) \subseteq Logged(a)'
           /\ a = task[t].at => task[t].todo \ task'[t].todo \subseteq Logged(a)'
<1>1. PICK e \in task[t].todo :
         /\ task[t].at \in Assessments /\ task'[t].todo = task[t].todo \ {e}
         /\ log' = IF e \in Logged(task[t].at) THEN log
                   ELSE [log EXCEPT ![task[t].at] = Append(log[task[t].at], e)]
  BY AppendEffect
<1>2. log \in [Assessments -> Seq(Nat)] /\ e \in Nat
  BY <1>1, TaskTyped DEF Typed, TypeOK, Task
<1>3. CASE e \in Logged(task[t].at)
  <2>1. log' = log
    BY <1>1, <1>3
  <2>2. Logged(a)' = Logged(a)
    BY <2>1 DEF Logged
  <2> QED
    BY <1>1, <1>3, <2>2
<1>4. CASE e \notin Logged(task[t].at)
  <2> DEFINE b == task[t].at
             s == log[b]
  <2>1. log' = [log EXCEPT ![b] = Append(s, e)]
    BY <1>1, <1>4
  <2>2. CASE a = b
    <3>1. s \in Seq(Nat) /\ log'[a] = Append(s, e)
      BY <1>1, <1>2, <2>1, <2>2
    <3>2. /\ Len(s) \in Nat /\ DOMAIN s = 1..Len(s)
          /\ DOMAIN Append(s, e) = 1..(Len(s) + 1)
          /\ \A i \in 1..Len(s) : Append(s, e)[i] = s[i]
          /\ Append(s, e)[Len(s) + 1] = e
      BY <1>2, <3>1
    <3>3. Logged(a) = {s[i] : i \in 1..Len(s)}
      BY <2>2, <3>2 DEF Logged
    <3> DEFINE new == Append(s, e)
    <3>4. Logged(a)' = {new[i] : i \in DOMAIN new}
      BY <3>1 DEF Logged
    <3>5. /\ DOMAIN new = 1..(Len(s) + 1) /\ new[Len(s) + 1] = e
          /\ \A i \in 1..Len(s) : new[i] = s[i]
      BY <3>2
    <3> HIDE DEF s, new
    <3>6. e \in Logged(a)'
      BY <3>2, <3>4, <3>5
    <3>7. Logged(a) \subseteq Logged(a)'
      BY <3>2, <3>3, <3>4, <3>5
    <3> QED
      BY <1>1, <3>6, <3>7
  <2>3. CASE a # b
    <3>1. log'[a] = log[a]
      BY <1>2, <2>1, <2>3
    <3> QED
      BY <2>3, <3>1 DEF Logged
  <2> QED
    BY <2>2, <2>3
<1> QED
  BY <1>3, <1>4

LEMMA LogGrows ==
    ASSUME Typed, [Next]_vars, NEW a \in Assessments
    PROVE  Logged(a) \subseteq Logged(a)'
<1>1. CASE UNCHANGED log
  BY <1>1 DEF Logged
<1> QED
  BY <1>1, LogSteps, Appended

\* Tasks change records in two places.
LEMMA ActorRecord ==
    ASSUME NEW t \in Tasks, Work(t) \/ Walk(t)
    PROVE  UNCHANGED record \/ Acknowledge(t) \/ WriteRecord(t)
BY ZenonT(60) DEF Work, Walk, Lock, LockBusy, Unlock, Read, AppendEvent, Save, Delete, Accept,
   SweepRecord, Commit, Refuse, WriteTombstone, ReadTombstone, NothingToPurge, PurgeBackups,
   WriteCleanup, ViewIndex, Viewed, View, Start, StartSweep, Crash, files

\* A record whose lock another task holds does not change.
LEMMA OthersRecord ==
    ASSUME Typed, Locked, [Next]_vars, NEW t \in Tasks, Work(t) \/ Walk(t),
           NEW u \in Tasks, u # t, task[u].half = "record", Holds(u)
    PROVE  record'[task[u].at] = record[task[u].at]
<1>1. CASE Acknowledge(t) \/ WriteRecord(t)
  <2>1. PICK r \in Record :
           /\ task[t].half = "record" /\ task[t].pc \in {"ack", "write"}
           /\ record' = [record EXCEPT ![task[t].at] = r]
    BY <1>1, AcknowledgeEffect, WriteRecordEffect
  <2>2. Holds(t)
    BY <2>1 DEF Holds
  <2>3. Doc(t) # Doc(u)
    BY <2>2, Alone
  <2>4. task[t].at # task[u].at
    BY <2>1, <2>3 DEF Doc
  <2>5. task[u].at \in Assessments
    BY TaskTyped DEF Holds
  <2> QED
    BY <2>1, <2>4, <2>5 DEF Typed, TypeOK
<1> QED
  BY <1>1, ActorRecord

LEMMA CarryOthers ==
    ASSUME Typed, Locked, Carried, [Next]_vars, NEW t \in Tasks, Work(t) \/ Walk(t),
           NEW u \in Tasks, task'[u] = task[u], u # t
    PROVE  CarryOf(u)'
<1>1. CarryOf(u) /\ (task[u].pc # "idle" => task[u].at \in Assessments)
  BY TaskTyped DEF Carried
<1> SUFFICES ASSUME task[u].half = "record",
                    task[u].pc \in {"append", "ack", "operate", "tombstone", "write"}
             PROVE  CarryOf(u)'
  BY DEF CarryOf
<1>2. Holds(u)
  BY DEF Holds
<1>3. Waiting(task[u].at)' = Waiting(task[u].at) /\ Carrying(u)' = Carrying(u)
  BY <1>2, OthersRecord DEF Waiting, Carrying
<1>4. Logged(task[u].at) \subseteq Logged(task[u].at)'
  BY <1>1, LogGrows
<1> QED
  BY <1>1, <1>3, <1>4 DEF CarryOf, Waiting, Logged, Carrying

LEMMA CarryWork ==
    ASSUME Typed, Locked, Carried, [Next]_vars, NEW t \in Tasks, Work(t)
    PROVE  CarryOf(t)'
<1> DEFINE a == task[t].at
<1>1. /\ Kept(t) /\ task[t].pc # "idle" /\ CarryOf(t) /\ ShapeOf(t)
      /\ a \in Assessments /\ task'[t].at = a /\ task'[t].half = task[t].half
      /\ task[t] \in Task
  BY WorkHolds, TaskTyped DEF Holds, Carried, Kept
<1>2. Logged(a) \subseteq Logged(a)'
  BY <1>1, LogGrows
<1>3. record \in [Assessments -> Record \cup {None}]
  BY DEF Typed, TypeOK
<1>4. CASE Read(t)
  <2> DEFINE r == Indexed(a, record[a])
  <2>1. /\ record' = record /\ log' = log
        /\ \/ task'[t].pc = "operate" /\ task'[t].rec = r
           \/ task'[t].pc = "unlock"
           \/ /\ r # None /\ task'[t].rec = r /\ task'[t].todo = r.outbox
              /\ task'[t].pc = IF r.outbox = {} THEN "operate" ELSE "append"
    BY <1>4, ReadEffect
  <2>2. /\ r = None <=> record[a] = None
        /\ record[a] # None => r.outbox = record[a].outbox
    BY <1>1, <1>3, IndexedTyped DEF Typed
  <2> HIDE DEF r
  <2> QED
    BY <1>1, <2>1, <2>2 DEF CarryOf, Waiting, Carrying, Logged
<1>5. CASE AppendEvent(t)
  <2>1. /\ record' = record /\ task[t].pc = "append" /\ task'[t].rec = task[t].rec
        /\ task'[t].pc \in {"append", "ack", "unlock", "purge"}
        /\ task'[t].pc = "ack" => task'[t].todo = {}
    BY <1>5, AppendEffect
  <2>2. task[t].todo \ task'[t].todo \subseteq Logged(a)'
    BY <1>1, <1>5, Appended
  <2> QED
    BY <1>1, <1>2, <2>1, <2>2 DEF CarryOf, Waiting, Logged
<1>6. CASE Acknowledge(t)
  <2>1. PICK r \in Record :
           /\ r.outbox = {} /\ task'[t].pc \in {"unlock", "operate"}
           /\ record' = [record EXCEPT ![a] = r]
    BY <1>6, AcknowledgeEffect
  <2>2. record'[a].outbox = {}
    BY <1>1, <1>3, <2>1
  <2> QED
    BY <1>1, <2>1, <2>2 DEF CarryOf, Waiting
<1>7. ASSUME NEW r \in Record, NEW kinds \in Seq(Kinds), NEW pc \in {"write", "tombstone"},
             Commit(t, r, kinds, pc), task[t].pc = "operate", Carrying(t) \subseteq r.outbox
      PROVE  CarryOf(t)'
  <2>1. record' = record /\ task'[t].rec = r /\ task'[t].pc = pc
    BY <1>7, CommitEffect
  <2> QED
    BY <1>1, <1>7, <2>1, NoneIsNoDocument DEF CarryOf, Waiting, Carrying
<1>8. CASE Refuse(t)
  <2>1. task'[t].pc = "unlock"
    BY <1>8, RefuseEffect DEF Goes
  <2> QED
    BY <2>1 DEF CarryOf
<1>9. CASE Save(t)
  <2>1. task[t].pc = "operate"
    BY <1>9 DEF Save, Operation, At
  <2>2. New \in Record /\ << >> \in Seq(Kinds)
    BY NewTyped
  <2> QED
    BY <1>7, <1>8, <1>9, <2>1, <2>2, SaveEffect DEF Carrying
<1>10. CASE Delete(t) \/ Accept(t) \/ \E past \in SUBSET Parts : SweepRecord(t, past)
  <2>1. task[t].pc = "operate"
    BY <1>10 DEF Delete, Accept, SweepRecord, Operation, At
  <2>2. \/ Refuse(t)
        \/ \E r \in Record, kinds \in Seq(Kinds), pc \in {"write", "tombstone"} :
              /\ Commit(t, r, kinds, pc) /\ task[t].rec \in Record
              /\ r.outbox = task[t].rec.outbox
    <3>1. CASE Delete(t)
      BY <3>1, DeleteEffect
    <3>2. CASE Accept(t)
      BY <3>2, AcceptEffect
    <3>3. CASE \E past \in SUBSET Parts : SweepRecord(t, past)
      BY <3>3, SweepEffect
    <3> QED
      BY <1>10, <3>1, <3>2, <3>3
  <2> QED
    BY <1>7, <1>8, <2>1, <2>2, NoneIsNoDocument DEF Carrying
<1>11. CASE WriteTombstone(t)
  <2>1. /\ record' = record /\ task[t].pc = "tombstone" /\ task'[t].pc = "write"
        /\ task'[t].rec = task[t].rec
    BY <1>11, WriteTombstoneEffect DEF Goes, Same
  <2> QED
    BY <1>1, <2>1 DEF CarryOf, Waiting, Carrying
<1>12. CASE WriteRecord(t)
  <2>1. PICK r \in Record :
           /\ task'[t].todo = r.outbox /\ task'[t].pc \in {"unlock", "append"}
           /\ record' = [record EXCEPT ![a] = r]
    BY <1>12, WriteRecordEffect
  <2>2. record'[a] = r
    BY <1>1, <1>3, <2>1
  <2> QED
    BY <1>1, <2>1, <2>2, NoneIsNoDocument DEF CarryOf, Waiting
<1>13. CASE \/ ReadTombstone(t) \/ NothingToPurge(t) \/ WriteCleanup(t)
            \/ \E left : PurgeBackups(t, left)
  <2>1. task[t].half = "tombstone"
    <3>1. CASE NothingToPurge(t)
      BY <1>1, <3>1, NothingToPurgeEffect DEF ShapeOf
    <3> QED
      BY <1>13, <3>1, ReadTombstoneEffect, WriteCleanupEffect, PurgeEffect
  <2> QED
    BY <1>1, <2>1 DEF CarryOf
<1> QED
  BY <1>4, <1>5, <1>6, <1>9, <1>10, <1>11, <1>12, <1>13 DEF Work

LEMMA WalkMoves ==
    ASSUME Typed, NEW t \in Tasks, Walk(t)
    PROVE  /\ Others(t)
           /\ task'[t] = Idle \/ task'[t].pc \in {"lock", "read", "index", "shown"}
<1>1. CASE Lock(t)
  BY <1>1, LockEffect DEF Goes
<1>2. CASE LockBusy(t) \/ Viewed(t)
  BY <1>2, EndEffect
<1>3. CASE Unlock(t)
  BY <1>3, UnlockEffect DEF Begins
<1>4. CASE ViewIndex(t)
  BY <1>4, ViewIndexEffect DEF Goes
<1>5. CASE Crash(t)
  BY <1>5, CrashEffect
<1>6. CASE \E a \in Assessments : View(t, a) \/ \E op \in Ops : Start(t, op, a)
  BY <1>6, ViewEffect, StartEffect DEF Begins
<1>7. CASE t = Sweep /\ StartSweep
  BY <1>7, StartSweepEffect DEF Begins
<1> QED
  BY <1>1, <1>2, <1>3, <1>4, <1>5, <1>6, <1>7 DEF Walk

LEMMA CarriedNext == Typed /\ Locked /\ Carried /\ [Next]_vars => Carried'
<1> SUFFICES ASSUME Typed, Locked, Carried, [Next]_vars PROVE Carried'
  OBVIOUS
<1>1. ASSUME NEW t \in Tasks, Work(t) \/ Walk(t) PROVE Carried'
  <2>1. Others(t)
    BY <1>1, WorkHolds, WalkMoves
  <2>2. CarryOf(t)'
    <3>1. CASE Work(t)
      BY <3>1, CarryWork
    <3>2. CASE Walk(t)
      BY <3>2, WalkMoves, IdleTyped DEF CarryOf
    <3> QED
      BY <1>1, <3>1, <3>2
  <2> QED
    BY <1>1, <2>1, <2>2, CarryOthers DEF Carried, Others
<1>2. CASE Outside
  <2>1. task' = task /\ log' = log
    BY <1>2 DEF Outside, Recover, Backup, Restore, Pass, vars, files
  <2>2. CASE \E a \in Assessments : Restore(a)
    <3>1. \A t \in Tasks : task[t].pc = "idle"
      BY <2>2 DEF Restore, At
    <3> QED
      BY <2>1, <3>1 DEF Carried, CarryOf
  <2>3. CASE record' = record
    BY <2>1, <2>3 DEF Carried, CarryOf, Waiting, Carrying, Logged
  <2> QED
    BY <1>2, <2>2, <2>3 DEF Outside, Recover, Backup, Pass, vars, files
<1> QED
  BY <1>1, <1>2, Steps

LEMMA EmitDomain ==
    ASSUME Typed, NEW t \in Tasks, task[t].pc # "idle", Emit(t), NEW a \in Assessments
    PROVE  DOMAIN emitted'[a] = DOMAIN emitted[a] \cup
              (IF a = task[t].at THEN NewEvents(t) ELSE {})
<1> DEFINE kinds == task[t].kinds
           s == emitted[task[t].at]
<1>1. /\ task[t].at \in Assessments /\ kinds \in Seq(Kinds)
      /\ emitted \in [Assessments -> Seq(Kinds)]
  BY TaskTyped DEF Task, Typed, TypeOK
<1>2. emitted' = [emitted EXCEPT ![task[t].at] = s \o kinds]
  BY DEF Emit
<1>3. CASE a # task[t].at
  BY <1>1, <1>2, <1>3
<1>4. CASE a = task[t].at
  <2>1. emitted'[a] = s \o kinds /\ emitted[a] = s /\ s \in Seq(Kinds)
    BY <1>1, <1>2, <1>4
  <2>2. NewEvents(t) = {Len(s) + i : i \in 1..Len(kinds)}
    BY DEF NewEvents
  <2> HIDE DEF kinds, s
  <2>3. /\ Len(s) \in Nat /\ Len(kinds) \in Nat /\ DOMAIN s = 1..Len(s)
        /\ DOMAIN (s \o kinds) = 1..(Len(s) + Len(kinds))
    BY <1>1, <2>1
  <2>4. 1..(Len(s) + Len(kinds)) = 1..Len(s) \cup {Len(s) + i : i \in 1..Len(kinds)}
    <3>1. ASSUME NEW x \in 1..(Len(s) + Len(kinds)), x \notin 1..Len(s)
          PROVE  x \in {Len(s) + i : i \in 1..Len(kinds)}
      <4>1. x - Len(s) \in 1..Len(kinds) /\ x = Len(s) + (x - Len(s))
        BY <2>3, <3>1
      <4> QED
        BY <4>1
    <3>2. ASSUME NEW i \in 1..Len(kinds) PROVE Len(s) + i \in 1..(Len(s) + Len(kinds))
      BY <2>3, <3>2
    <3>3. 1..Len(s) \subseteq 1..(Len(s) + Len(kinds))
      BY <2>3
    <3> QED
      BY <3>1, <3>2, <3>3
  <2> QED
    BY <1>4, <2>1, <2>2, <2>3, <2>4
<1> QED
  BY <1>3, <1>4

\* Where an event is.
Cleanup(a) == IF tomb[a] = None THEN {} ELSE tomb[a].cleanup
Written(a) == Logged(a) \cup Waiting(a) \cup Cleanup(a)

LEMMA WrittenGrows ==
    ASSUME Typed, Locked, Deletions, Carried, [Next]_vars,
           NEW a \in Assessments, a \notin restored'
    PROVE  /\ Written(a) \subseteq Written(a)'
           /\ DOMAIN emitted'[a] \subseteq DOMAIN emitted[a] \cup Written(a)'
<1>1. Logged(a) \subseteq Logged(a)'
  BY LogGrows
<1>2. Cleanup(a) \subseteq Cleanup(a)'
  <2>1. CASE UNCHANGED tomb
    BY <2>1 DEF Cleanup
  <2>2. ASSUME NEW t \in Tasks, WriteTombstone(t) PROVE Cleanup(a) \subseteq Cleanup(a)'
    <3>1. /\ task[t].at \in Assessments
          /\ tomb' = IF tomb[task[t].at] = None
                     THEN [tomb EXCEPT ![task[t].at] = Fresh] ELSE tomb
      BY <2>2, WriteTombstoneEffect
    <3> QED
      BY <3>1 DEF Cleanup, Typed, TypeOK
  <2>3. ASSUME NEW t \in Tasks, WriteCleanup(t) PROVE Cleanup(a) \subseteq Cleanup(a)'
    <3>1. PICK doc \in Tombstone :
             /\ task[t].at \in Assessments
             /\ doc.cleanup = tomb[task[t].at].cleanup \cup NewEvents(t)
             /\ tomb' = [tomb EXCEPT ![task[t].at] = doc]
      BY <2>3, WriteCleanupEffect
    <3> QED
      BY <3>1, NoneIsNoDocument DEF Cleanup, Typed, TypeOK
  <2> QED
    BY <2>1, <2>2, <2>3, TombSteps DEF Deletions
<1>3. Waiting(a) \subseteq Written(a)'
  <2>1. CASE record'[a] = record[a]
    BY <2>1 DEF Waiting, Written
  <2>2. ASSUME NEW t \in Tasks, Acknowledge(t) PROVE Waiting(a) \subseteq Written(a)'
    <3>1. PICK r \in Record :
             /\ task[t].pc = "ack" /\ task[t].half = "record" /\ task[t].at \in Assessments
             /\ record' = [record EXCEPT ![task[t].at] = r]
      BY <2>2, AcknowledgeEffect
    <3>2. CASE a = task[t].at
      BY <1>1, <3>1, <3>2 DEF Carried, CarryOf, Written
    <3>3. CASE a # task[t].at
      BY <2>1, <3>1, <3>3 DEF Typed, TypeOK
    <3> QED
      BY <3>2, <3>3
  <2>3. ASSUME NEW t \in Tasks, WriteRecord(t) PROVE Waiting(a) \subseteq Written(a)'
    <3>1. PICK r \in Record :
             /\ task[t].pc = "write" /\ task[t].half = "record" /\ task[t].at \in Assessments
             /\ task[t].rec \in Record /\ r.outbox = task[t].rec.outbox \cup NewEvents(t)
             /\ record' = [record EXCEPT ![task[t].at] = r]
      BY <2>3, WriteRecordEffect
    <3>2. CASE a = task[t].at
      <4>1. record'[a] = r /\ r # None /\ task[t].rec # None
        BY <3>1, <3>2, NoneIsNoDocument DEF Typed, TypeOK
      <4>2. Waiting(a) \subseteq task[t].rec.outbox
        BY <3>1, <3>2, <4>1 DEF Carried, CarryOf, Carrying
      <4> QED
        BY <3>1, <4>1, <4>2 DEF Written, Waiting
    <3>3. CASE a # task[t].at
      BY <2>1, <3>1, <3>3 DEF Typed, TypeOK
    <3> QED
      BY <3>2, <3>3
  <2>4. ASSUME NEW b \in Assessments, Restore(b) PROVE record'[a] = record[a]
    <3>1. a # b
      BY <2>4 DEF Restore
    <3> QED
      BY <2>4, <3>1 DEF Restore, Typed, TypeOK
  <2> QED
    BY <2>1, <2>2, <2>3, <2>4, RecordSteps
<1>4. DOMAIN emitted'[a] \subseteq DOMAIN emitted[a] \cup Written(a)'
  <2>1. CASE UNCHANGED emitted
    BY <2>1
  <2>2. ASSUME NEW t \in Tasks, WriteRecord(t)
        PROVE  DOMAIN emitted'[a] \subseteq DOMAIN emitted[a] \cup Written(a)'
    <3>1. PICK r \in Record :
             /\ task[t].pc = "write" /\ task[t].at \in Assessments
             /\ r.outbox = task[t].rec.outbox \cup NewEvents(t)
             /\ record' = [record EXCEPT ![task[t].at] = r] /\ Emit(t)
      BY <2>2, WriteRecordEffect
    <3>2. a = task[t].at => NewEvents(t) \subseteq Waiting(a)'
      BY <3>1, NoneIsNoDocument DEF Waiting, Typed, TypeOK
    <3> QED
      BY <3>1, <3>2, EmitDomain DEF Written
  <2>3. ASSUME NEW t \in Tasks, WriteCleanup(t)
        PROVE  DOMAIN emitted'[a] \subseteq DOMAIN emitted[a] \cup Written(a)'
    <3>1. PICK doc \in Tombstone :
             /\ task[t].pc = "write" /\ task[t].at \in Assessments
             /\ doc.cleanup = tomb[task[t].at].cleanup \cup NewEvents(t)
             /\ tomb' = [tomb EXCEPT ![task[t].at] = doc] /\ Emit(t)
      BY <2>3, WriteCleanupEffect
    <3>2. a = task[t].at => NewEvents(t) \subseteq Cleanup(a)'
      BY <3>1, NoneIsNoDocument DEF Cleanup, Typed, TypeOK
    <3> QED
      BY <3>1, <3>2, EmitDomain DEF Written
  <2> QED
    BY <2>1, <2>2, <2>3, EmitSteps
<1> QED
  BY <1>1, <1>2, <1>3, <1>4 DEF Written

\* Events reach the disk with the change they report and leave the outbox only
\* when they stand in the log, whatever crashes in between
\* (mutateAssessmentWithAudit).
THEOREM EventsKept == Spec => []NoEventLost
<1> DEFINE EventsWritten == \A a \in Assessments \ restored : DOMAIN emitted[a] \subseteq Written(a)
<1>1. EventsWritten <=> NoEventLost
  BY DEF NoEventLost, Written, Waiting, Cleanup
<1>2. Init => Carried /\ EventsWritten
  <2> SUFFICES ASSUME Init PROVE Carried /\ EventsWritten
    OBVIOUS
  <2>1. \A t \in Tasks : task[t] = Idle
    BY DEF Init
  <2>2. \A a \in Assessments : DOMAIN emitted[a] = {}
    <3>1. \A a \in Assessments : emitted[a] = << >>
      BY DEF Init
    <3> QED
      BY <3>1
  <2> QED
    BY <2>1, <2>2, IdleTyped DEF Carried, CarryOf
<1>3. Typed /\ Locked /\ Deletions /\ Carried /\ EventsWritten /\ [Next]_vars => EventsWritten'
  <2> SUFFICES ASSUME Typed, Locked, Deletions, Carried, EventsWritten, [Next]_vars,
                      NEW a \in Assessments, a \notin restored'
               PROVE  DOMAIN emitted'[a] \subseteq Written(a)'
    OBVIOUS
  <2>1. a \notin restored
    <3>1. restored \subseteq restored'
      BY ZenonT(60) DEF Next, TaskStep, Lock, LockBusy, Unlock, Read, AppendEvent, Acknowledge,
         Save, Delete, Accept, SweepRecord, Commit, Refuse, WriteTombstone, WriteRecord,
         ReadTombstone, NothingToPurge, PurgeBackups, WriteCleanup, ViewIndex, Viewed, View,
         Start, StartSweep, Crash, Recover, Backup, Restore, Pass, vars, files, history
    <3> QED
      BY <3>1
  <2> QED
    BY <2>1, WrittenGrows
<1> HIDE DEF EventsWritten
<1>4. Spec => [](Carried /\ EventsWritten)
  BY <1>2, <1>3, CarriedNext, Indexing, PTL DEF Spec
<1> QED
  BY <1>1, <1>4, PTL

-----------------------------------------------------------------------------
(* Purging.                                                                  *)

\* What is marked as purged is empty.
FlagOf(t) == task[t].rec # None /\ task[t].rec.purged => task[t].rec.content = {}

FlagsTrue ==
    /\ \A a \in Assessments : record[a] # None /\ record[a].purged => record[a].content = {}
    /\ \A a \in Assessments : \A copy \in backup[a] : copy.purged => copy.content = {}
    /\ \A t \in Tasks : FlagOf(t)

\* Time passes for deleted assessments only, whose records exist, and only a
\* sweep takes notice of it.
Aging ==
    /\ \A a \in Assessments : tomb[a] # None => record[a] # None
    /\ \A a \in Assessments : age[a] >= 1 => tomb[a] # None
    /\ \A t \in Tasks, a \in Assessments :
          task[t].now[a] >= 1 => tomb[a] # None /\ task[t].op = "sweep"

\* A task that holds the lock of a record has not more content in its copy
\* than there is on the disk; only a save writes a record where there is none.
CopyOf(t) ==
    task[t].half = "record" /\ task[t].pc \in {"append", "ack", "operate", "tombstone", "write"} =>
        /\ record[task[t].at] # None /\ task[t].rec # None =>
              task[t].rec.content \subseteq record[task[t].at].content
        /\ task[t].pc = "operate" /\ task[t].rec = None => record[task[t].at] = None
        /\ task[t].pc \in {"append", "ack", "tombstone"} => record[task[t].at] # None
        /\ task[t].pc = "operate" /\ task[t].rec # None => record[task[t].at] # None

Empty(a) == record[a] # None => record[a].content = {}
EmptyBackups(a) == \A copy \in backup[a] : copy.content = {}

\* Once a day has passed, a sweep turns to the backups of an assessment only
\* with its record empty.
SweepOf(t) ==
    task[t].pc # "idle" /\ task[t].now[task[t].at] >= 1 =>
        /\ task[t].pc # "tombstone"
        /\ task[t].half = "tombstone" => Empty(task[t].at)
        /\ task[t].half = "record" /\ task[t].pc = "write" => task[t].rec.content = {}
        /\ task[t].half = "record" /\ task[t].pc \in {"append", "ack"}
           /\ task[t].then = "unlock" => task[t].rec.content = {} /\ Empty(task[t].at)
        /\ task[t].half = "record" /\ task[t].pc = "unlock" => Empty(task[t].at)

PurgeOf(t) ==
    task[t].half = "tombstone" /\ task[t].pc = "write" =>
        /\ task[t].now[task[t].at] >= 2
        /\ task[t].state = "purged" => EmptyBackups(task[t].at)

Copies == \A t \in Tasks : CopyOf(t)
Sweeps == \A t \in Tasks : SweepOf(t)
Purges == \A t \in Tasks : PurgeOf(t)

Purging == FlagsTrue /\ Aging /\ Copies /\ Sweeps /\ Purges /\ PurgeIsComplete

\* Tasks leave the backups alone but for the purge, and the time altogether.
LEMMA ActorBackup ==
    ASSUME NEW t \in Tasks, Work(t) \/ Walk(t)
    PROVE  UNCHANGED backup \/ \E left : PurgeBackups(t, left)
BY ZenonT(60) DEF Work, Walk, Lock, LockBusy, Unlock, Read, AppendEvent, Acknowledge, Save,
   Delete, Accept, SweepRecord, Commit, Refuse, WriteTombstone, WriteRecord, ReadTombstone,
   NothingToPurge, WriteCleanup, ViewIndex, Viewed, View, Start, StartSweep, Crash

LEMMA ActorAge ==
    ASSUME NEW t \in Tasks, Work(t) \/ Walk(t)
    PROVE  UNCHANGED age
BY ZenonT(60) DEF Work, Walk, Lock, LockBusy, Unlock, Read, AppendEvent, Acknowledge, Save,
   Delete, Accept, SweepRecord, Commit, Refuse, WriteTombstone, WriteRecord, ReadTombstone,
   NothingToPurge, PurgeBackups, WriteCleanup, ViewIndex, Viewed, View, Start, StartSweep, Crash

\* Tasks remove no record, and take content away only; so they do with backups.
LEMMA ActorShrinks ==
    ASSUME Typed, FlagsTrue, Copies, NEW t \in Tasks, Work(t) \/ Walk(t), NEW a \in Assessments
    PROVE  /\ record[a] # None =>
                 record'[a] # None /\ record'[a].content \subseteq record[a].content
           /\ record'[a] # None /\ record'[a].purged => record'[a].content = {}
           /\ backup'[a] \subseteq backup[a]
<1>1. backup'[a] \subseteq backup[a]
  <2>1. ASSUME NEW left, PurgeBackups(t, left) PROVE backup'[a] \subseteq backup[a]
    <3>1. /\ task[t].at \in Assessments /\ left \subseteq backup[task[t].at]
          /\ backup' = [backup EXCEPT ![task[t].at] = left]
      BY <2>1, PurgeEffect
    <3> QED
      BY <3>1 DEF Typed, TypeOK
  <2> QED
    BY <2>1, ActorBackup
<1>2. CASE record'[a] = record[a]
  BY <1>1, <1>2 DEF FlagsTrue
<1>3. CASE Acknowledge(t) \/ WriteRecord(t)
  <2>1. PICK r \in Record :
           /\ task[t].pc \in {"ack", "write"} /\ task[t].half = "record"
           /\ task[t].at \in Assessments /\ task[t].rec \in Record
           /\ r.content = task[t].rec.content /\ r.purged = task[t].rec.purged
           /\ record' = [record EXCEPT ![task[t].at] = r]
    BY <1>3, AcknowledgeEffect, WriteRecordEffect
  <2>2. CASE a = task[t].at
    <3>1. record'[a] = r /\ r # None /\ task[t].rec # None
      BY <2>1, <2>2, NoneIsNoDocument DEF Typed, TypeOK
    <3>2. r.purged => r.content = {}
      BY <2>1, <3>1 DEF FlagsTrue, FlagOf
    <3>3. record[a] # None => r.content \subseteq record[a].content
      BY <2>1, <2>2, <3>1 DEF Copies, CopyOf
    <3> QED
      BY <1>1, <3>1, <3>2, <3>3
  <2>3. CASE a # task[t].at
    BY <1>2, <2>1, <2>3 DEF Typed, TypeOK
  <2> QED
    BY <2>2, <2>3
<1> QED
  BY <1>2, <1>3, ActorRecord

LEMMA EmptyStays ==
    ASSUME Typed, FlagsTrue, Copies, Aging, NEW t \in Tasks, Work(t) \/ Walk(t),
           NEW a \in Assessments, tomb[a] # None, Empty(a)
    PROVE  Empty(a)'
<1>1. record[a] # None
  BY DEF Aging
<1>2. record'[a].content \subseteq record[a].content /\ record[a].content = {}
  BY <1>1, ActorShrinks DEF Empty
<1> QED
  BY <1>2 DEF Empty

\* What the other tasks rely on.
LEMMA PurgingOthers ==
    ASSUME Typed, Locked, Purging, [Next]_vars, NEW t \in Tasks, Work(t) \/ Walk(t),
           NEW u \in Tasks, task'[u] = task[u], u # t
    PROVE  CopyOf(u)' /\ SweepOf(u)' /\ PurgeOf(u)'
<1> DEFINE a == task[u].at
<1>1. /\ CopyOf(u) /\ SweepOf(u) /\ PurgeOf(u)
      /\ task[u].pc # "idle" => a \in Assessments
      /\ task[u].half \in {"record", "tombstone"}
      /\ FlagsTrue /\ Copies /\ Aging
  BY TaskTyped DEF Purging, Copies, Sweeps, Purges, Task
<1>2. task[u].half = "record" /\ Holds(u) => record'[a] = record[a]
  BY OthersRecord
<1>3. CopyOf(u)'
  <2>1. task[u].pc \in {"append", "ack", "operate", "tombstone", "write"} => Holds(u)
    BY DEF Holds
  <2> QED
    BY <1>1, <1>2, <2>1 DEF CopyOf
<1>4. SweepOf(u)'
  <2> SUFFICES ASSUME task[u].pc # "idle", task[u].now[a] >= 1 PROVE SweepOf(u)'
    BY DEF SweepOf
  <2>1. a \in Assessments /\ tomb[a] # None
    BY <1>1 DEF Aging
  <2>2. Empty(a) => Empty(a)'
    BY <1>1, <2>1, EmptyStays
  <2> QED
    BY <1>1, <2>2 DEF SweepOf, Empty
<1>5. PurgeOf(u)'
  <2> SUFFICES ASSUME task[u].half = "tombstone", task[u].pc = "write" PROVE PurgeOf(u)'
    BY DEF PurgeOf
  <2>1. backup'[a] \subseteq backup[a]
    BY <1>1, ActorShrinks
  <2> QED
    BY <1>1, <2>1 DEF PurgeOf, EmptyBackups
<1> QED
  BY <1>3, <1>4, <1>5

LEMMA PurgingWork ==
    ASSUME Typed, Deletions, Purging, NEW t \in Tasks, Work(t)
    PROVE  FlagOf(t)' /\ CopyOf(t)' /\ SweepOf(t)' /\ PurgeOf(t)'
<1> DEFINE a == task[t].at
           late == task[t].now[a] >= 1
<1>1. /\ task'[t].at = a /\ task'[t].half = task[t].half /\ task'[t].op = task[t].op
      /\ task'[t].now = task[t].now
  BY WorkHolds DEF Kept
<1>2. task[t] \in Task /\ ShapeOf(t) /\ a \in Assessments /\ task[t].pc # "idle"
  BY WorkHolds, TaskTyped DEF Holds
<1>3. /\ FlagOf(t) /\ CopyOf(t) /\ SweepOf(t) /\ PurgeOf(t) /\ CleanOf(t)
      /\ late => tomb[a] # None /\ record[a] # None /\ task[t].op = "sweep"
  BY <1>2 DEF Purging, FlagsTrue, Copies, Sweeps, Purges, Aging, Deletions, Clean
<1>4. record \in [Assessments -> Record \cup {None}]
  BY DEF Typed, TypeOK
<1>5. CASE Read(t)
  <2> DEFINE r == Indexed(a, record[a])
  <2>1. /\ record' = record /\ task[t].half = "record"
        /\ \/ task'[t].pc = "operate" /\ task'[t].rec = r
           \/ task'[t].pc = "unlock" /\ r = None /\ task'[t].rec = task[t].rec
           \/ /\ r # None /\ task'[t].rec = r /\ task'[t].then = "operate"
              /\ task'[t].pc \in {"operate", "append"}
    BY <1>5, ReadEffect
  <2>2. /\ r = None <=> record[a] = None
        /\ record[a] # None => r.content = record[a].content /\ r.purged = record[a].purged
    BY <1>2, <1>4, IndexedTyped DEF Typed
  <2>3. record[a] # None /\ record[a].purged => record[a].content = {}
    BY <1>2 DEF Purging, FlagsTrue
  <2> HIDE DEF r
  <2>4. FlagOf(t)'
    BY <1>3, <2>1, <2>2, <2>3 DEF FlagOf
  <2>5. CopyOf(t)'
    BY <1>1, <2>1, <2>2 DEF CopyOf
  <2>6. SweepOf(t)' /\ PurgeOf(t)'
    BY <1>1, <2>1, <2>2 DEF SweepOf, PurgeOf, Empty
  <2> QED
    BY <2>4, <2>5, <2>6
<1>6. CASE AppendEvent(t)
  <2>1. /\ record' = record /\ task[t].pc = "append" /\ task'[t].rec = task[t].rec
        /\ task'[t].then = task[t].then
        /\ \/ task'[t].pc = "append"
           \/ task[t].half = "record" /\ task'[t].pc = "ack"
           \/ task[t].half = "tombstone" /\ task'[t].pc \in {"unlock", "purge"}
    BY <1>6, AppendEffect
  <2> QED
    BY <1>1, <1>3, <2>1 DEF FlagOf, CopyOf, SweepOf, PurgeOf, Empty
<1>7. CASE Acknowledge(t)
  <2>1. PICK r \in Record :
           /\ task[t].pc = "ack" /\ task[t].half = "record" /\ task[t].rec \in Record
           /\ task[t].then \in {"unlock", "operate"} /\ task'[t].pc = task[t].then
           /\ r.content = task[t].rec.content /\ r.purged = task[t].rec.purged
           /\ task'[t].rec = r /\ record' = [record EXCEPT ![a] = r]
    BY <1>7, AcknowledgeEffect
  <2>2. record'[a] = r /\ r # None /\ task[t].rec # None
    BY <1>2, <1>4, <2>1, NoneIsNoDocument
  <2>3. FlagOf(t)' /\ CopyOf(t)' /\ PurgeOf(t)'
    BY <1>1, <1>3, <2>1, <2>2 DEF FlagOf, CopyOf, PurgeOf
  <2>4. SweepOf(t)'
    BY <1>1, <1>2, <1>3, <2>1, <2>2 DEF SweepOf, Empty
  <2> QED
    BY <2>3, <2>4
<1>8. ASSUME Refuse(t), task[t].op # "sweep", task[t].pc = "operate"
      PROVE  FlagOf(t)' /\ CopyOf(t)' /\ SweepOf(t)' /\ PurgeOf(t)'
  <2>1. task'[t].pc = "unlock" /\ task'[t].rec = task[t].rec
    BY <1>8, RefuseEffect DEF Goes, Same
  <2> QED
    BY <1>1, <1>3, <1>8, <2>1 DEF FlagOf, CopyOf, SweepOf, PurgeOf
<1>9. ASSUME NEW r \in Record, NEW kinds \in Seq(Kinds), NEW pc \in {"write", "tombstone"},
             Commit(t, r, kinds, pc), task[t].pc = "operate",
             r.purged => r.content = {},
             record[a] # None => r.content \subseteq record[a].content,
             pc = "tombstone" => record[a] # None,
             late => pc = "write" /\ r.content = {}
      PROVE  FlagOf(t)' /\ CopyOf(t)' /\ SweepOf(t)' /\ PurgeOf(t)'
  <2>1. record' = record /\ task'[t].rec = r /\ task'[t].pc = pc
    BY <1>9, CommitEffect
  <2>2. task[t].half = "record"
    BY <1>2, <1>9 DEF ShapeOf
  <2>3. FlagOf(t)' /\ CopyOf(t)'
    BY <1>1, <1>9, <2>1 DEF FlagOf, CopyOf
  <2>4. SweepOf(t)' /\ PurgeOf(t)'
    BY <1>1, <1>9, <2>1, <2>2 DEF SweepOf, PurgeOf
  <2> QED
    BY <2>3, <2>4
<1>10. CASE Save(t)
  <2>1. task[t].pc = "operate" /\ task[t].op = "save" /\ task[t].half = "record"
    BY <1>2, <1>10 DEF Save, Operation, At, ShapeOf
  <2>2. New \in Record /\ << >> \in Seq(Kinds) /\ ~New.purged
    BY NewTyped DEF New
  <2>3. task[t].rec = None => record[a] = None
    BY <1>3, <2>1 DEF CopyOf
  <2>4. ~late
    BY <1>3, <2>1
  <2>5. CASE Refuse(t)
    BY <1>8, <2>1, <2>5
  <2>6. CASE task[t].rec = None /\ Commit(t, New, << >>, "write")
    BY <1>9, <2>1, <2>2, <2>3, <2>4, <2>6
  <2> QED
    BY <1>10, <2>5, <2>6, SaveEffect
<1>11. CASE Delete(t) \/ Accept(t)
  <2>1. task[t].pc = "operate" /\ task[t].op \in {"delete", "accept"} /\ task[t].half = "record"
    BY <1>2, <1>11 DEF Delete, Accept, Operation, At, ShapeOf
  <2>2. \/ Refuse(t)
        \/ \E r \in Record, kinds \in Seq(Kinds), pc \in {"write", "tombstone"} :
              /\ Commit(t, r, kinds, pc) /\ task[t].rec \in Record
              /\ r.content = task[t].rec.content /\ r.purged = task[t].rec.purged
    <3>1. CASE Delete(t)
      BY <3>1, DeleteEffect
    <3>2. CASE Accept(t)
      BY <3>2, AcceptEffect
    <3> QED
      BY <1>11, <3>1, <3>2
  <2>3. ~late
    BY <1>3, <2>1
  <2>4. CASE Refuse(t)
    BY <1>8, <2>1, <2>4
  <2>5. ASSUME NEW r \in Record, NEW kinds \in Seq(Kinds), NEW pc \in {"write", "tombstone"},
               Commit(t, r, kinds, pc), task[t].rec \in Record,
               r.content = task[t].rec.content, r.purged = task[t].rec.purged
        PROVE  FlagOf(t)' /\ CopyOf(t)' /\ SweepOf(t)' /\ PurgeOf(t)'
    <3>1. task[t].rec # None
      BY <2>5, NoneIsNoDocument
    <3>2. record[a] # None /\ r.content \subseteq record[a].content
      BY <1>3, <2>1, <2>5, <3>1 DEF CopyOf
    <3>3. r.purged => r.content = {}
      BY <1>3, <2>5, <3>1 DEF FlagOf
    <3> QED
      BY <1>9, <2>1, <2>3, <2>5, <3>2, <3>3
  <2> QED
    BY <2>2, <2>4, <2>5
<1>12. ASSUME NEW past \in SUBSET Parts, SweepRecord(t, past)
       PROVE  FlagOf(t)' /\ CopyOf(t)' /\ SweepOf(t)' /\ PurgeOf(t)'
  <2>1. task[t].pc = "operate" /\ task[t].half = "record"
    BY <1>2, <1>12 DEF SweepRecord, Operation, At, ShapeOf
  <2>2. PICK r \in Record, kinds \in Seq(Kinds) :
              /\ Commit(t, r, kinds, "write")
              /\ task[t].rec \in Record
              /\ r.content \subseteq task[t].rec.content
              /\ r.purged => task[t].rec.purged \/ r.content = {}
              /\ r.own = task[t].rec.own
              /\ r.own /\ late => r.content = {} \/ (task[t].rec.purged /\ r.purged)
    BY <1>12, SweepEffect
  <2>3. task[t].rec # None
    BY <2>2, NoneIsNoDocument
  <2>4. task[t].rec.purged => r.content = {}
    BY <1>3, <2>2, <2>3 DEF FlagOf
  <2>5. record[a] # None /\ r.content \subseteq record[a].content
    BY <1>3, <2>1, <2>2, <2>3 DEF CopyOf
  <2>6. late => r.own
    BY <1>3, <2>1, <2>2, <2>3 DEF CleanOf, Heading
  <2>7. late => r.content = {}
    BY <2>2, <2>4, <2>6
  <2>8. r.purged => r.content = {}
    BY <2>2, <2>4
  <2> QED
    BY <1>9, <2>1, <2>2, <2>5, <2>7, <2>8
<1>13. CASE WriteTombstone(t)
  <2>1. /\ record' = record /\ task[t].pc = "tombstone" /\ task'[t].pc = "write"
        /\ task'[t].rec = task[t].rec /\ task[t].half = "record"
    BY <1>13, WriteTombstoneEffect DEF Goes, Same
  <2> QED
    BY <1>1, <1>3, <2>1 DEF FlagOf, CopyOf, SweepOf, PurgeOf
<1>14. CASE WriteRecord(t)
  <2>1. PICK r \in Record :
           /\ task[t].pc = "write" /\ task[t].half = "record" /\ task[t].rec \in Record
           /\ r.content = task[t].rec.content /\ r.purged = task[t].rec.purged
           /\ task'[t].rec = r /\ task'[t].pc \in {"unlock", "append"}
           /\ record' = [record EXCEPT ![a] = r]
    BY <1>14, WriteRecordEffect
  <2>2. record'[a] = r /\ r # None /\ task[t].rec # None
    BY <1>2, <1>4, <2>1, NoneIsNoDocument
  <2>3. FlagOf(t)' /\ CopyOf(t)' /\ PurgeOf(t)'
    BY <1>1, <1>3, <2>1, <2>2 DEF FlagOf, CopyOf, PurgeOf
  <2>4. SweepOf(t)'
    BY <1>1, <1>2, <1>3, <2>1, <2>2 DEF SweepOf, Empty
  <2> QED
    BY <2>3, <2>4
<1>15. CASE ReadTombstone(t) \/ NothingToPurge(t) \/ WriteCleanup(t)
  <2>1. /\ record' = record /\ task[t].half = "tombstone" /\ task'[t].rec = task[t].rec
        /\ task'[t].pc \notin {"write", "tombstone"}
    <3>1. CASE ReadTombstone(t)
      BY <3>1, ReadTombstoneEffect
    <3>2. CASE NothingToPurge(t)
      BY <1>2, <3>2, NothingToPurgeEffect DEF Goes, Same, ShapeOf
    <3>3. CASE WriteCleanup(t)
      BY <3>3, WriteCleanupEffect
    <3> QED
      BY <1>15, <3>1, <3>2, <3>3
  <2> QED
    BY <1>1, <1>2, <1>3, <2>1 DEF FlagOf, CopyOf, SweepOf, PurgeOf, Empty
<1>16. ASSUME NEW left, PurgeBackups(t, left)
       PROVE  FlagOf(t)' /\ CopyOf(t)' /\ SweepOf(t)' /\ PurgeOf(t)'
  <2>1. /\ record' = record /\ task[t].half = "tombstone" /\ task'[t].rec = task[t].rec
        /\ task'[t].pc = "write" /\ task[t].now[a] >= 2
        /\ task'[t].state = "purged" => left = {}
        /\ backup' = [backup EXCEPT ![a] = left]
    BY <1>16, PurgeEffect
  <2>2. backup'[a] = left
    BY <1>2, <2>1 DEF Typed, TypeOK
  <2>3. PurgeOf(t)'
    BY <1>1, <2>1, <2>2 DEF PurgeOf, EmptyBackups
  <2> QED
    BY <1>1, <1>2, <1>3, <2>1, <2>3 DEF FlagOf, CopyOf, SweepOf, Empty
<1> QED
  BY <1>5, <1>6, <1>7, <1>10, <1>11, <1>12, <1>13, <1>14, <1>15, <1>16 DEF Work

\* A task that begins, ends, or goes from the record to the tombstone.
LEMMA PurgingWalk ==
    ASSUME Typed, Purging, NEW t \in Tasks, Walk(t)
    PROVE  /\ FlagOf(t)' /\ CopyOf(t)' /\ SweepOf(t)' /\ PurgeOf(t)'
           /\ \A b \in Assessments : task'[t].now[b] >= 1 =>
                 tomb[b] # None /\ task'[t].op = "sweep"
<1> DEFINE Looks == \A b \in Assessments : task'[t].now[b] >= 1 =>
                       tomb[b] # None /\ task'[t].op = "sweep"
<1>1. /\ FlagOf(t) /\ SweepOf(t) /\ task[t] \in Task
      /\ \A b \in Assessments : task[t].now[b] >= 1 => tomb[b] # None /\ task[t].op = "sweep"
      /\ \A b \in Assessments : age[b] >= 1 => tomb[b] # None
  BY TaskTyped DEF Purging, FlagsTrue, Sweeps, Aging
<1>2. /\ task'[t] = Idle \/ task'[t].pc \in {"lock", "read", "index", "shown"}
      /\ CopyOf(t)' /\ PurgeOf(t)'
  BY WalkMoves, IdleTyped DEF CopyOf, PurgeOf
<1>3. ASSUME task'[t] = Idle PROVE FlagOf(t)' /\ SweepOf(t)' /\ Looks
  BY <1>3, IdleTyped DEF FlagOf, SweepOf
<1>4. ASSUME task'[t].half = "record" PROVE SweepOf(t)'
  BY <1>2, <1>3, <1>4 DEF SweepOf
<1>5. CASE Lock(t)
  <2>1. /\ Kept(t) /\ Same(t) /\ task[t].pc = "lock" /\ task'[t].pc = "read" /\ record' = record
    BY <1>5, LockEffect DEF Goes
  <2> QED
    BY <1>1, <1>2, <2>1 DEF Kept, Same, FlagOf, SweepOf, Empty
<1>6. CASE LockBusy(t) \/ Viewed(t)
  BY <1>2, <1>3, <1>6, EndEffect
<1>7. CASE Unlock(t)
  <2>1. /\ task[t].pc = "unlock" /\ record' = record
        /\ \/ task'[t] = Idle
           \/ /\ Begins(t) /\ task'[t].op = "sweep" /\ task[t].op = "sweep"
              /\ task'[t].now = task[t].now
              /\ \/ task'[t].half = "record"
                 \/ task'[t].at = task[t].at /\ task[t].half = "record"
    BY <1>7, UnlockEffect
  <2>2. CASE Begins(t) /\ task'[t].op = "sweep" /\ task'[t].now = task[t].now
    <3>1. FlagOf(t)' /\ Looks /\ task'[t].pc = "lock"
      BY <1>1, <2>2 DEF FlagOf, Begins
    <3>2. SweepOf(t)'
      BY <1>1, <1>4, <2>1, <2>2, <3>1, IdleTyped DEF SweepOf, Empty
    <3> QED
      BY <1>2, <3>1, <3>2
  <2> QED
    BY <1>2, <1>3, <2>1, <2>2
<1>8. CASE ViewIndex(t)
  <2>1. task'[t] = Idle \/ Goes(t, "shown")
    BY <1>8, ViewIndexEffect
  <2>2. task[t].pc = "index" /\ task[t].half = "record"
    BY <1>8, TaskTyped, ViewIndexEffect DEF ShapeOf
  <2>3. CASE Goes(t, "shown")
    BY <1>1, <1>2, <1>4, <2>2, <2>3 DEF Goes, Kept, Same, FlagOf
  <2> QED
    BY <1>2, <1>3, <2>1, <2>3
<1>9. CASE Crash(t)
  BY <1>2, <1>3, <1>9, CrashEffect
<1>10. ASSUME NEW a \in Assessments, View(t, a)
       PROVE  FlagOf(t)' /\ SweepOf(t)' /\ Looks
  <2>1. /\ task'[t].half = "record" /\ task'[t].rec = record[a]
        /\ task'[t].now = [b \in Assessments |-> 0]
    BY <1>10, ViewEffect
  <2>2. FlagOf(t)'
    BY <2>1 DEF FlagOf, Purging, FlagsTrue
  <2> QED
    BY <1>4, <2>1, <2>2
<1>11. CASE \E a \in Assessments : \E op \in Ops : Start(t, op, a)
  <2>1. /\ task'[t].half = "record" /\ task'[t].rec = None
        /\ task'[t].now = [b \in Assessments |-> 0]
    BY <1>11, StartEffect DEF Begins
  <2> QED
    BY <1>2, <1>4, <2>1 DEF FlagOf
<1>12. CASE t = Sweep /\ StartSweep
  <2>1. /\ task'[t].half = "record" /\ task'[t].rec = None /\ task'[t].now = age
        /\ task'[t].op = "sweep"
    BY <1>12, StartSweepEffect DEF Begins
  <2> QED
    BY <1>1, <1>2, <1>4, <2>1 DEF FlagOf
<1> QED
  BY <1>2, <1>5, <1>6, <1>7, <1>8, <1>9, <1>10, <1>11, <1>12 DEF Walk

\* Only the last write of a sweep marks the backups as purged.
LEMMA PurgedMoves ==
    ASSUME Typed, Deletions, [Next]_vars, NEW a \in Assessments,
           tomb'[a] # None, tomb'[a].state = "purged"
    PROVE  \/ tomb[a] # None /\ tomb[a].state = "purged"
           \/ \E t \in Tasks : WriteCleanup(t) /\ task[t].at = a /\ task[t].state = "purged"
<1>1. ASSUME NEW t \in Tasks, WriteTombstone(t)
      PROVE  tomb[a] # None /\ tomb[a].state = "purged"
  <2>1. /\ task[t].at \in Assessments
        /\ tomb' = IF tomb[task[t].at] = None
                   THEN [tomb EXCEPT ![task[t].at] = Fresh] ELSE tomb
    BY <1>1, WriteTombstoneEffect
  <2> QED
    BY <2>1, FreshTyped DEF Typed, TypeOK
<1>2. ASSUME NEW t \in Tasks, WriteCleanup(t)
      PROVE  \/ tomb[a] # None /\ tomb[a].state = "purged"
             \/ task[t].at = a /\ task[t].state = "purged"
  <2>1. PICK doc \in Tombstone :
           /\ task[t].at \in Assessments /\ doc.state = task[t].state
           /\ tomb' = [tomb EXCEPT ![task[t].at] = doc]
    BY <1>2, WriteCleanupEffect
  <2> QED
    BY <2>1 DEF Typed, TypeOK
<1> QED
  BY <1>1, <1>2, TombSteps DEF Deletions

LEMMA PurgingActor ==
    ASSUME Typed, Locked, Deletions, Purging, [Next]_vars, NEW t \in Tasks, Work(t) \/ Walk(t)
    PROVE  Purging'
<1>1. FlagsTrue /\ Aging /\ Copies /\ Sweeps /\ Purges /\ PurgeIsComplete
  BY DEF Purging
<1>2. /\ Others(t) /\ TombsStay /\ age' = age
      /\ FlagOf(t)' /\ CopyOf(t)' /\ SweepOf(t)' /\ PurgeOf(t)'
  BY WorkHolds, WalkMoves, TombsRemain, PurgingWork, PurgingWalk, ActorAge DEF Deletions
<1>3. \A b \in Assessments : task'[t].now[b] >= 1 => tomb[b] # None /\ task'[t].op = "sweep"
  <2>1. CASE Work(t)
    BY <1>1, <2>1, WorkHolds DEF Aging, Kept
  <2> QED
    BY <2>1, PurgingWalk
<1>4. FlagsTrue'
  <2>1. \A a \in Assessments : \A copy \in backup'[a] : copy.purged => copy.content = {}
    BY <1>1, ActorShrinks DEF FlagsTrue
  <2>2. \A a \in Assessments : record'[a] # None /\ record'[a].purged => record'[a].content = {}
    BY <1>1, ActorShrinks
  <2>3. \A u \in Tasks : FlagOf(u)'
    BY <1>1, <1>2 DEF FlagsTrue, Others, FlagOf
  <2> QED
    BY <2>1, <2>2, <2>3 DEF FlagsTrue
<1>5. Aging'
  <2>1. ASSUME NEW a \in Assessments, tomb'[a] # None PROVE record'[a] # None
    <3>1. record[a] # None
      <4>1. CASE tomb[a] # None
        BY <1>1, <4>1 DEF Aging
      <4>2. ASSUME NEW v \in Tasks, WriteTombstone(v), task[v].at = a PROVE record[a] # None
        <5>1. task[v].pc = "tombstone" /\ task[v].half = "record"
          BY <4>2, WriteTombstoneEffect
        <5> QED
          BY <1>1, <4>2, <5>1 DEF Copies, CopyOf
      <4> QED
        BY <2>1, <4>1, <4>2, TombsRemain DEF Deletions
    <3> QED
      BY <1>1, <3>1, ActorShrinks
  <2>2. \A a \in Assessments : age'[a] >= 1 => tomb'[a] # None
    BY <1>1, <1>2 DEF Aging, TombsStay
  <2>3. \A u \in Tasks, a \in Assessments :
           task'[u].now[a] >= 1 => tomb'[a] # None /\ task'[u].op = "sweep"
    BY <1>1, <1>2, <1>3 DEF Aging, TombsStay, Others
  <2> QED
    BY <2>1, <2>2, <2>3 DEF Aging
<1>6. Copies' /\ Sweeps' /\ Purges'
  BY <1>2, PurgingOthers DEF Copies, Sweeps, Purges, Others
<1>7. ASSUME NEW a \in Assessments, tomb'[a] # None, tomb'[a].state = "purged"
      PROVE  Empty(a)' /\ EmptyBackups(a)'
  <2>1. tomb[a] # None /\ Empty(a) /\ EmptyBackups(a)
    <3>1. CASE tomb[a] # None /\ tomb[a].state = "purged"
      BY <1>1, <3>1 DEF PurgeIsComplete, Empty, EmptyBackups
    <3>2. ASSUME NEW v \in Tasks, WriteCleanup(v), task[v].at = a, task[v].state = "purged"
          PROVE  tomb[a] # None /\ Empty(a) /\ EmptyBackups(a)
      <4>1. task[v].pc = "write" /\ task[v].half = "tombstone" /\ tomb[a] \in Tombstone
        BY <3>2, WriteCleanupEffect
      <4>2. task[v].now[a] >= 2 /\ EmptyBackups(a)
        BY <1>1, <3>2, <4>1 DEF Purges, PurgeOf
      <4>3. task[v].now[a] \in 0..2
        BY TaskTyped DEF Task
      <4>4. Empty(a)
        BY <1>1, <3>2, <4>1, <4>2, <4>3 DEF Sweeps, SweepOf
      <4> QED
        BY <4>1, <4>2, <4>4, NoneIsNoDocument
    <3> QED
      BY <1>7, <3>1, <3>2, PurgedMoves
  <2>2. backup'[a] \subseteq backup[a]
    BY <1>1, ActorShrinks
  <2> QED
    BY <1>1, <2>1, <2>2, EmptyStays DEF EmptyBackups
<1>8. PurgeIsComplete'
  BY <1>7 DEF PurgeIsComplete, Empty, EmptyBackups
<1> QED
  BY <1>4, <1>5, <1>6, <1>8 DEF Purging

\* A backup of an empty record is empty, and so is the restored copy of an
\* empty backup; nobody is at work when one is restored.
LEMMA PurgingOutside ==
    ASSUME Typed, Purging, Outside
    PROVE  Purging'
<1>1. FlagsTrue /\ Aging /\ Copies /\ Sweeps /\ Purges /\ PurgeIsComplete
  BY DEF Purging
<1>2. UNCHANGED <<task, tomb>>
  BY DEF Outside, Recover, Backup, Restore, Pass, vars, files
<1>3. CASE UNCHANGED <<record, backup>>
  <2>1. \A a \in Assessments : age'[a] >= 1 => tomb[a] # None
    <3>1. ASSUME NEW b \in Assessments, Pass(b)
          PROVE  \A a \in Assessments : age'[a] >= 1 => tomb[a] # None
      BY <1>1, <3>1 DEF Pass, Aging, Typed, TypeOK
    <3>2. CASE UNCHANGED age
      BY <1>1, <3>2 DEF Aging
    <3> QED
      BY <3>1, <3>2 DEF Outside, Recover, Backup, Restore, vars
  <2>2. Aging'
    BY <1>1, <1>2, <1>3, <2>1 DEF Aging
  <2>3. FlagsTrue' /\ PurgeIsComplete'
    BY <1>1, <1>2, <1>3 DEF FlagsTrue, FlagOf, PurgeIsComplete
  <2>4. Copies' /\ Sweeps' /\ Purges'
    BY <1>1, <1>2, <1>3
    DEF Copies, CopyOf, Sweeps, SweepOf, Purges, PurgeOf, Empty, EmptyBackups
  <2> QED
    BY <2>2, <2>3, <2>4 DEF Purging
<1>4. ASSUME NEW b \in Assessments, Backup(b)
      PROVE  Purging'
  <2>1. /\ record' = record /\ age' = age /\ record[b] # None
        /\ backup' = [backup EXCEPT ![b] = backup[b] \cup {record[b]}]
    BY <1>4 DEF Backup, files
  <2>2. \A a \in Assessments : \A copy \in backup'[a] :
           copy \in backup[a] \/ (a = b /\ copy = record[b])
    BY <2>1 DEF Typed, TypeOK
  <2>3. FlagsTrue'
    BY <1>1, <1>2, <2>1, <2>2 DEF FlagsTrue, FlagOf
  <2>4. Aging' /\ Copies' /\ Sweeps'
    BY <1>1, <1>2, <2>1 DEF Aging, Copies, CopyOf, Sweeps, SweepOf, Empty
  <2>5. ASSUME NEW a \in Assessments, Empty(a), EmptyBackups(a)
        PROVE  \A copy \in backup'[a] : copy.content = {}
    BY <2>1, <2>2, <2>5 DEF Empty, EmptyBackups
  <2>6. Purges'
    <3> SUFFICES ASSUME NEW u \in Tasks, task[u].half = "tombstone", task[u].pc = "write",
                        task[u].state = "purged"
                 PROVE  \A copy \in backup'[task[u].at] : copy.content = {}
      BY <1>1, <1>2 DEF Purges, PurgeOf, EmptyBackups
    <3>1. task[u].at \in Assessments /\ task[u] \in Task
      BY TaskTyped
    <3>2. task[u].now[task[u].at] >= 2 /\ EmptyBackups(task[u].at)
      BY <1>1 DEF Purges, PurgeOf
    <3>3. task[u].now[task[u].at] \in 0..2
      BY <3>1 DEF Task
    <3>4. Empty(task[u].at)
      BY <1>1, <3>2, <3>3 DEF Sweeps, SweepOf
    <3> QED
      BY <2>5, <3>1, <3>2, <3>4
  <2>7. PurgeIsComplete'
    <3> SUFFICES ASSUME NEW a \in Assessments, tomb[a] # None, tomb[a].state = "purged"
                 PROVE  Empty(a)' /\ EmptyBackups(a)'
      BY <1>2 DEF PurgeIsComplete, Empty, EmptyBackups
    <3>1. Empty(a) /\ EmptyBackups(a)
      BY <1>1 DEF PurgeIsComplete, Empty, EmptyBackups
    <3> QED
      BY <2>1, <2>5, <3>1 DEF Empty, EmptyBackups
  <2> QED
    BY <2>3, <2>4, <2>6, <2>7 DEF Purging
<1>5. ASSUME NEW b \in Assessments, Restore(b)
      PROVE  Purging'
  <2>1. PICK copy \in backup[b] : record' = [record EXCEPT ![b] = copy]
    BY <1>5 DEF Restore
  <2>2. /\ backup' = backup /\ age' = age /\ \A u \in Tasks : task[u].pc = "idle"
    BY <1>5 DEF Restore, At
  <2>3. copy \in Record /\ copy # None
    BY <2>1, NoneIsNoDocument DEF Typed, TypeOK
  <2>4. \A a \in Assessments : record'[a] = IF a = b THEN copy ELSE record[a]
    BY <2>1 DEF Typed, TypeOK
  <2>5. FlagsTrue'
    BY <1>1, <1>2, <2>1, <2>2, <2>4 DEF FlagsTrue, FlagOf
  <2>6. Aging'
    BY <1>1, <1>2, <2>2, <2>3, <2>4 DEF Aging
  <2>7. Copies' /\ Sweeps' /\ Purges'
    BY <1>2, <2>2 DEF Copies, CopyOf, Sweeps, SweepOf, Purges, PurgeOf
  <2>8. PurgeIsComplete'
    BY <1>1, <1>2, <2>1, <2>2, <2>4 DEF PurgeIsComplete
  <2> QED
    BY <2>5, <2>6, <2>7, <2>8 DEF Purging
<1> QED
  BY <1>3, <1>4, <1>5 DEF Outside, Recover, Pass, vars, files

LEMMA PurgingInit == Init => Purging
<1> SUFFICES ASSUME Init PROVE Purging
  OBVIOUS
<1>1. \A t \in Tasks : task[t] = Idle
  BY DEF Init
<1>2. \A a \in Assessments : /\ backup[a] = {} /\ tomb[a] = None /\ age[a] = 0
                             /\ record[a] # None => ~record[a].purged
  BY DEF Init, New
<1>3. FlagsTrue /\ PurgeIsComplete
  BY <1>1, <1>2, IdleTyped DEF FlagsTrue, FlagOf, PurgeIsComplete
<1>4. Aging
  BY <1>1, <1>2, IdleTyped DEF Aging
<1>5. Copies /\ Sweeps /\ Purges
  BY <1>1, IdleTyped DEF Copies, CopyOf, Sweeps, SweepOf, Purges, PurgeOf
<1> QED
  BY <1>3, <1>4, <1>5 DEF Purging

\* Once the backups count as purged nothing is left of the content, and
\* nothing comes back: not by a restore, and not by a backup taken between the
\* purge and its record (sweepAIAssessmentRetention).
THEOREM PurgingIsFinal == Spec => []PurgeIsComplete
<1>1. Typed /\ Locked /\ Deletions /\ Purging /\ [Next]_vars => Purging'
  BY Steps, PurgingActor, PurgingOutside
<1>2. Purging => PurgeIsComplete
  BY DEF Purging
<1> QED
  BY <1>1, <1>2, PurgingInit, Indexing, PTL DEF Spec
===========================================================================
