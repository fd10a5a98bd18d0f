-------------------------- MODULE StoreLock_proofs --------------------------
(***************************************************************************)
(* The lock file of the AI runtime store excludes, for any number of       *)
(* tasks, processes, deaths and recoveries at once, up to the first time   *)
(* that two tasks stand between comparing and removing one dead owner's    *)
(* file.                                                                   *)
(***************************************************************************)
EXTENDS StoreLock, TLAPS

\* The types hold in every reachable state of the lock protocol.
THEOREM Typing == Spec => []TypeOK
<1>1. Init => TypeOK
  <2>1. Init => raced \in BOOLEAN
    BY DEF Init
  <2> QED
    BY <2>1, LockAssumption DEF Init, TypeOK, Task, PCs, Holding
<1>2. TypeOK /\ [Next]_vars => TypeOK'
  <2> SUFFICES ASSUME TypeOK, [Next]_vars PROVE TypeOK'
    OBVIOUS
  <2> USE LockAssumption DEF TypeOK, Task, PCs, Holding, Lock
  <2>1. ASSUME NEW t \in Tasks, Create(t) PROVE TypeOK'
    <3>1. made + 1 \in 1..MaxLocks /\ made + 1 \in 0..MaxLocks
      BY <2>1 DEF Create
    <3>2. [task[t] EXCEPT !.pc = "created", !.own = made + 1] \in Task
      BY <3>1
    <3>3. task' \in [Tasks -> Task]
      BY <2>1, <3>2 DEF Create
    <3> QED
      BY <2>1, <3>1, <3>3 DEF Create
  <2>2. ASSUME NEW t \in Tasks, Write(t) PROVE TypeOK'
    BY <2>2 DEF Write, Step, IsOwn
  <2>3. ASSUME NEW t \in Tasks, WriteFails(t) PROVE TypeOK'
    BY <2>3 DEF WriteFails, Step
  <2>4. ASSUME NEW t \in Tasks, ReleaseCompares(t) PROVE TypeOK'
    BY <2>4 DEF ReleaseCompares, Step
  <2>5. ASSUME NEW t \in Tasks, ReleaseUnlinks(t) PROVE TypeOK'
    BY <2>5 DEF ReleaseUnlinks, Step
  <2>6. ASSUME NEW t \in Tasks, Examine(t) PROVE TypeOK'
    <3>1. lock.id \in 0..MaxLocks
      BY <2>6 DEF Examine, DeadOwner
    <3>2. [task[t] EXCEPT !.pc = "examined", !.seen = lock.id] \in Task
      BY <3>1
    <3>3. task' \in [Tasks -> Task]
      BY <2>6, <3>2 DEF Examine
    <3> QED
      BY <2>6, <3>3 DEF Examine
  <2>7. ASSUME NEW t \in Tasks, Confirm(t) PROVE TypeOK'
    BY <2>7 DEF Confirm, Step
  <2>8. ASSUME NEW t \in Tasks, Unlink(t) PROVE TypeOK'
    BY <2>8 DEF Unlink, Step
  <2>9. ASSUME NEW p \in Procs, Die(p) PROVE TypeOK'
    BY <2>9 DEF Die
  <2>10. CASE UNCHANGED vars
    BY <2>10 DEF vars
  <2> QED
    BY <2>1, <2>2, <2>3, <2>4, <2>5, <2>6, <2>7, <2>8, <2>9, <2>10
       DEF Next, Recovery
<1> QED
  BY <1>1, <1>2, PTL DEF Spec

-----------------------------------------------------------------------------
(* The inductive invariant.                                                  *)

\* A task that holds or releases is alive, and the file is its own.
HoldersOwnTheFile ==
    ~raced => \A t \in Tasks : task[t].pc \in Holding =>
        lock # None /\ lock.by = t /\ lock.id = task[t].own

\* A task whose process died takes no step.
TheDeadAreStill ==
    \A t \in Tasks : task[t].pc # "dead" <=> Process[t] \in alive

\* While a task has examined a lock, a file of that creation on the path
\* belongs to a dead process ...
SeenOwnerIsDead ==
    \A t \in Tasks : task[t].pc \in {"examined", "confirmed"} =>
        /\ task[t].seen <= made
        /\ lock # None /\ lock.id = task[t].seen => Process[lock.by] \notin alive

\* ... and once it has confirmed, nobody else has removed it, for only who has
\* confirmed the same file could have.
ConfirmedIsThere ==
    ~raced => \A t \in Tasks : task[t].pc = "confirmed" =>
        lock # None /\ lock.id = task[t].seen

ConfirmedAlone ==
    ~raced => \A t, u \in Tasks :
                  /\ task[t].pc = "confirmed" /\ task[u].pc = "confirmed"
                  /\ task[t].seen = task[u].seen
                  => t = u

CreatedInOrder == lock # None => lock.id <= made

ProtocolInv ==
    /\ HoldersOwnTheFile
    /\ TheDeadAreStill
    /\ SeenOwnerIsDead
    /\ ConfirmedIsThere
    /\ ConfirmedAlone
    /\ CreatedInOrder

LEMMA ProtocolStep ==
    ASSUME TypeOK, TypeOK', ProtocolInv, [Next]_vars
    PROVE  ProtocolInv'
<1> USE LockAssumption DEF TypeOK, ProtocolInv, HoldersOwnTheFile, TheDeadAreStill,
        SeenOwnerIsDead, ConfirmedIsThere, ConfirmedAlone, CreatedInOrder, Task, PCs, Holding,
        Lock
<1>s. ASSUME NEW t \in Tasks, NEW from, NEW to, Step(t, from, to)
      PROVE  /\ task[t].pc = from /\ task'[t].pc = to
             /\ task'[t].own = task[t].own /\ task'[t].seen = task[t].seen
             /\ \A u \in Tasks : u # t => task'[u] = task[u]
  BY <1>s DEF Step
<1>1. ASSUME NEW t \in Tasks, Create(t) PROVE ProtocolInv'
  <2>1. /\ lock' # None /\ lock'.by = t /\ lock'.id = made + 1
        /\ made' = made + 1
        /\ made + 1 \in 1..MaxLocks
    <3>1. made + 1 \in 1..MaxLocks
      BY <1>1 DEF Create
    <3>2. [by |-> t, id |-> made + 1, named |-> FALSE] \in Lock
      BY <3>1
    <3> QED
      BY <1>1, <3>1, <3>2 DEF Create
  <2>2. /\ task'[t].pc = "created" /\ task'[t].own = made + 1
        /\ \A u \in Tasks : u # t => task'[u] = task[u]
    BY <1>1 DEF Create
  <2>3. HoldersOwnTheFile'
    BY <1>1, <2>1, <2>2 DEF Create
  <2>4. TheDeadAreStill'
    BY <1>1, <2>2 DEF Create
  <2>5. SeenOwnerIsDead' /\ ConfirmedIsThere' /\ ConfirmedAlone'
    BY <1>1, <2>1, <2>2 DEF Create
  <2> QED
    BY <2>1, <2>3, <2>4, <2>5
<1>2. ASSUME NEW t \in Tasks, Write(t) PROVE ProtocolInv'
  <2>1. /\ task[t].pc = "created" /\ task'[t].pc = "holding"
        /\ task'[t].own = task[t].own /\ task'[t].seen = task[t].seen
        /\ \A u \in Tasks : u # t => task'[u] = task[u]
    BY <1>2 DEF Write, Step
  <2>2. /\ UNCHANGED <<made, alive, raced>>
        /\ lock # None <=> lock' # None
        /\ lock # None => lock'.by = lock.by /\ lock'.id = lock.id
    <3>1. CASE lock = None
      BY <1>2, <3>1 DEF Write, IsOwn
    <3>2. CASE lock # None
      <4>1. /\ [lock EXCEPT !.named = TRUE] \in Lock
            /\ [lock EXCEPT !.named = TRUE].by = lock.by
            /\ [lock EXCEPT !.named = TRUE].id = lock.id
        BY <3>2
      <4>2. lock' \in {lock, [lock EXCEPT !.named = TRUE]}
        BY <1>2 DEF Write
      <4> QED
        BY <1>2, <3>2, <4>1, <4>2 DEF Write
    <3> QED
      BY <3>1, <3>2
  <2>3. HoldersOwnTheFile' /\ TheDeadAreStill'
    BY <2>1, <2>2
  <2>4. SeenOwnerIsDead' /\ CreatedInOrder'
    BY <2>1, <2>2
  <2>5. ConfirmedIsThere' /\ ConfirmedAlone'
    BY <2>1, <2>2
  <2> QED
    BY <2>3, <2>4, <2>5
<1>3. ASSUME NEW t \in Tasks, WriteFails(t) PROVE ProtocolInv'
  <2>1. Step(t, "created", "idle") /\ UNCHANGED <<lock, made, alive, raced>>
    BY <1>3 DEF WriteFails
  <2>2. /\ task[t].pc = "created" /\ task'[t].pc = "idle"
        /\ task'[t].own = task[t].own /\ task'[t].seen = task[t].seen
        /\ \A u \in Tasks : u # t => task'[u] = task[u]
    BY <2>1, <1>s
  <2> QED
    BY <2>1, <2>2, SMTT(30)
<1>4. ASSUME NEW t \in Tasks, ReleaseCompares(t) PROVE ProtocolInv'
  <2>1. Step(t, "holding", IF IsOwn(t) THEN "releasing" ELSE "idle") /\ UNCHANGED <<lock, made, alive, raced>>
    BY <1>4 DEF ReleaseCompares
  <2>2. /\ task[t].pc = "holding" /\ task'[t].pc = IF IsOwn(t) THEN "releasing" ELSE "idle"
        /\ task'[t].own = task[t].own /\ task'[t].seen = task[t].seen
        /\ \A u \in Tasks : u # t => task'[u] = task[u]
    BY <2>1, <1>s
  <2> QED
    BY <2>1, <2>2
<1>5. ASSUME NEW t \in Tasks, ReleaseUnlinks(t) PROVE ProtocolInv'
  <2>1. Step(t, "releasing", "idle") /\ UNCHANGED <<made, alive, raced>> /\ lock' = None
    BY <1>5 DEF ReleaseUnlinks
  <2>2. /\ task[t].pc = "releasing" /\ task'[t].pc = "idle"
        /\ task'[t].own = task[t].own /\ task'[t].seen = task[t].seen
        /\ \A u \in Tasks : u # t => task'[u] = task[u]
    BY <2>1, <1>s
  <2> QED
    BY <2>1, <2>2
<1>6. ASSUME NEW t \in Tasks, Examine(t) PROVE ProtocolInv'
  BY <1>6 DEF Examine, DeadOwner
<1>7. ASSUME NEW t \in Tasks, Confirm(t) PROVE ProtocolInv'
  <2>1. /\ task[t].pc = "examined"
        /\ task'[t].pc = IF lock # None /\ lock.id = task[t].seen
                         THEN "confirmed" ELSE "idle"
        /\ task'[t].own = task[t].own /\ task'[t].seen = task[t].seen
        /\ \A u \in Tasks : u # t => task'[u] = task[u]
        /\ UNCHANGED <<lock, made, alive>>
    BY <1>7 DEF Confirm, Step
  <2>2. ~raced' => /\ ~raced
                   /\ \A u \in Tasks \ {t} :
                         task[u].pc = "confirmed" => task[u].seen # task[t].seen
    BY <1>7 DEF Confirm, ConfirmedBefore
  <2>3. HoldersOwnTheFile' /\ ConfirmedIsThere'
    BY <2>1, <2>2
  <2>4. TheDeadAreStill' /\ SeenOwnerIsDead' /\ CreatedInOrder'
    BY <2>1
  <2>5. ConfirmedAlone'
    BY <2>1, <2>2
  <2> QED
    BY <2>3, <2>4, <2>5
<1>8. ASSUME NEW t \in Tasks, Unlink(t) PROVE ProtocolInv'
  BY <1>8 DEF Unlink, Step
<1>9. ASSUME NEW p \in Procs, Die(p) PROVE ProtocolInv'
  BY <1>9 DEF Die
<1>10. CASE UNCHANGED vars
  BY <1>10 DEF vars
<1> QED
  BY <1>1, <1>2, <1>3, <1>4, <1>5, <1>6, <1>7, <1>8, <1>9, <1>10
     DEF Next, Recovery

LEMMA ProtocolInvariant == Spec => []ProtocolInv
<1>1. Init => ProtocolInv
  BY LockAssumption DEF Init, ProtocolInv, HoldersOwnTheFile, TheDeadAreStill,
     SeenOwnerIsDead, ConfirmedIsThere, ConfirmedAlone, CreatedInOrder, Holding
<1> QED
  BY <1>1, ProtocolStep, Typing, PTL DEF Spec

\* At most one task changes a file of the store at a time, whatever dies when
\* and however many recover, unless two recoveries have raced.
THEOREM Exclusion == Spec => []MutualExclusion
<1>1. ProtocolInv => MutualExclusion
  BY DEF ProtocolInv, HoldersOwnTheFile, MutualExclusion
<1> QED
  BY <1>1, ProtocolInvariant, PTL

LEMMA LawfulStep ==
    ASSUME ProtocolInv, TypeOK, [Next]_vars, ~raced
    PROVE  Lawful
<1> SUFFICES ASSUME lock # None, lock' = None
             PROVE  \/ Process[lock.by] \notin alive
                    \/ /\ task[lock.by].pc = "releasing"
                       /\ task'[lock.by].pc = "idle"
  BY DEF Lawful
<1> USE LockAssumption
<1>1. ASSUME NEW u \in Tasks, Create(u) PROVE FALSE
  <2>1. made + 1 \in 1..MaxLocks
    BY <1>1 DEF Create, TypeOK
  <2>2. [by |-> u, id |-> made + 1, named |-> FALSE] \in Lock
    BY <2>1 DEF Lock
  <2> QED
    BY <1>1, <2>2 DEF Create
<1>2. ASSUME NEW u \in Tasks, Write(u) PROVE FALSE
  <2>1. lock \in Lock => [lock EXCEPT !.named = TRUE] \in Lock
    BY DEF Lock
  <2> QED
    BY <1>2, <2>1 DEF Write, TypeOK
<1>3. ASSUME NEW u \in Tasks, ReleaseUnlinks(u)
      PROVE  task[lock.by].pc = "releasing" /\ task'[lock.by].pc = "idle"
  BY <1>3 DEF ReleaseUnlinks, Step, TypeOK, ProtocolInv, HoldersOwnTheFile, Holding
<1>4. ASSUME NEW u \in Tasks, Unlink(u) PROVE Process[lock.by] \notin alive
  BY <1>4 DEF Unlink, Step, ProtocolInv, SeenOwnerIsDead, ConfirmedIsThere
<1> QED
  BY <1>1, <1>2, <1>3, <1>4
     DEF Next, Recovery, WriteFails, ReleaseCompares, Examine, Confirm, Die, vars

\* No living owner loses its lock file before two recoveries have raced.
THEOREM LivingOwnersKeep == Spec => NoLivingOwnerRobbed
<1>1. ProtocolInv /\ TypeOK /\ [Next]_vars => [Lawful \/ raced]_vars
  BY LawfulStep
<1>2. Spec => [][Lawful \/ raced]_vars
  BY <1>1, ProtocolInvariant, Typing, PTL DEF Spec
<1> QED
  BY <1>2 DEF NoLivingOwnerRobbed

-----------------------------------------------------------------------------
(* Refinement: the lock file implements LockPromise.                         *)

\* Whoever uses the lock file may reason as if it were LockPromise: a step of
\* the protocol acquires, releases, recovers, kills, or changes nothing there,
\* up to the first race between two recoveries.
THEOREM Refinement == Spec => KeepsPromise
<1>1. Init => Promise!Init
  BY DEF Init, Promise!Init, Holding
<1>2. ASSUME ProtocolInv, TypeOK, TypeOK', [Next]_vars, ~raced
      PROVE  [Promise!Next]_(Promise!vars)
  <2> USE <1>2, LockAssumption
  <2> DEFINE inside == {t \in Tasks : task[t].pc \in Holding}
  <2>t. task \in [Tasks -> Task] /\ \A t \in Tasks : task[t] \in Task
    BY DEF TypeOK
  <2>1. ASSUME NEW t \in Tasks, Create(t) PROVE Promise!Acquire(t)
    <3>1. made + 1 \in 1..MaxLocks
      BY <2>1 DEF Create, TypeOK
    <3>2. [by |-> t, id |-> made + 1, named |-> FALSE] \in Lock
      BY <3>1 DEF Lock
    <3>3. Process[t] \in alive
      BY <2>1 DEF Create, ProtocolInv, TheDeadAreStill
    <3>4. task'[t].pc = "created" /\ \A u \in Tasks \ {t} : task'[u] = task[u]
      BY <2>1, <2>t DEF Create, Task
    <3>5. inside' = inside \cup {t}
      BY <3>4 DEF Holding
    <3> QED
      BY <2>1, <3>2, <3>3, <3>5 DEF Create, Promise!Acquire
  <2>2. ASSUME NEW t \in Tasks, Write(t) PROVE UNCHANGED Promise!vars
    <3>1. lock \in Lock => /\ [lock EXCEPT !.named = TRUE] \in Lock
                           /\ [lock EXCEPT !.named = TRUE].by = lock.by
      BY DEF Lock
    <3>2. /\ task[t].pc = "created" /\ task'[t].pc = "holding"
          /\ \A u \in Tasks \ {t} : task'[u].pc = task[u].pc
      BY <2>2, <2>t DEF Write, Step, Task
    <3>3. inside' = inside
      BY <3>2 DEF Holding
    <3> QED
      BY <2>2, <3>1, <3>3 DEF Write, IsOwn, TypeOK, Promise!vars
  <2>3. ASSUME NEW t \in Tasks, ReleaseUnlinks(t) PROVE Promise!Release(t)
    <3>1. /\ task[t].pc = "releasing" /\ task'[t].pc = "idle"
          /\ \A u \in Tasks \ {t} : task'[u].pc = task[u].pc
      BY <2>3, <2>t DEF ReleaseUnlinks, Step, Task
    <3>2. inside' = inside \ {t} /\ t \in inside
      BY <3>1 DEF Holding
    <3> QED
      BY <2>3, <3>1, <3>2 DEF ReleaseUnlinks, ProtocolInv, HoldersOwnTheFile, Holding,
                              Promise!Release
  <2>4. ASSUME NEW t \in Tasks, Unlink(t) PROVE Promise!Recover
    <3>1. lock # None /\ Process[lock.by] \notin alive /\ lock.by # None
      BY <2>4 DEF Unlink, Step, ProtocolInv, SeenOwnerIsDead, ConfirmedIsThere,
                  TypeOK, Lock
    <3>2. /\ task[t].pc = "confirmed" /\ task'[t].pc = "idle"
          /\ \A u \in Tasks \ {t} : task'[u].pc = task[u].pc
      BY <2>4, <2>t DEF Unlink, Step, Task
    <3>3. inside' = inside
      BY <3>2 DEF Holding
    <3> QED
      BY <2>4, <3>1, <3>3 DEF Unlink, Promise!Recover
  <2>5. ASSUME NEW p \in Procs, Die(p) PROVE Promise!Die(p)
    <3>1. \A u \in Tasks : task'[u].pc = IF Process[u] = p THEN "dead" ELSE task[u].pc
      BY <2>5, <2>t DEF Die, Task
    <3>2. inside' = {t \in inside : Process[t] # p}
      BY <3>1 DEF Holding
    <3> QED
      BY <2>5, <3>2 DEF Die, Promise!Die
  <2>6. ASSUME NEW t \in Tasks, WriteFails(t) PROVE Promise!Abandon(t)
    <3>1. /\ task[t].pc = "created" /\ task'[t].pc = "idle"
          /\ \A u \in Tasks \ {t} : task'[u].pc = task[u].pc
      BY <2>6, <2>t DEF WriteFails, Step, Task
    <3>2. inside' = inside \ {t} /\ t \in inside
      BY <3>1 DEF Holding
    <3> QED
      BY <2>6, <3>2 DEF WriteFails, Promise!Abandon
  <2>7. ASSUME NEW t \in Tasks, ReleaseCompares(t) PROVE UNCHANGED Promise!vars
    <3>1. IsOwn(t)
      BY <2>7 DEF ReleaseCompares, Step, ProtocolInv, HoldersOwnTheFile, Holding, IsOwn
    <3>2. /\ task[t].pc = "holding" /\ task'[t].pc = "releasing"
          /\ \A u \in Tasks \ {t} : task'[u].pc = task[u].pc
      BY <2>7, <2>t, <3>1 DEF ReleaseCompares, Step, Task
    <3>3. inside' = inside
      BY <3>2 DEF Holding
    <3> QED
      BY <2>7, <3>3 DEF ReleaseCompares, Promise!vars
  <2>8. ASSUME NEW t \in Tasks, Examine(t) \/ Confirm(t) PROVE UNCHANGED Promise!vars
    <3>1. task[t].pc \in {"idle", "examined"} /\ lock' = lock /\ alive' = alive
      BY <2>8 DEF Examine, Confirm, Step
    <3>2. task'[t].pc \in {"idle", "examined", "confirmed"}
      <4>1. CASE Examine(t)
        BY <4>1, <2>t DEF Examine, Task
      <4>2. CASE Confirm(t)
        BY <4>2, <2>t DEF Confirm, Step, Task
      <4> QED
        BY <4>1, <4>2, <2>8
    <3>3. \A u \in Tasks \ {t} : task'[u].pc = task[u].pc
      BY <2>8, <2>t DEF Examine, Confirm, Step, Task
    <3>4. inside' = inside
      BY <3>1, <3>2, <3>3 DEF Holding
    <3> QED
      BY <3>1, <3>4 DEF Promise!vars
  <2> QED
    BY <2>1, <2>2, <2>3, <2>4, <2>5, <2>6, <2>7, <2>8
       DEF Next, Recovery, vars, Promise!Next, Promise!vars
<1>3. ProtocolInv /\ TypeOK /\ TypeOK' /\ [Next]_vars
        => [Promise!Next \/ raced]_(Promise!vars)
  BY <1>2
<1> QED
  BY <1>1, <1>3, ProtocolInvariant, Typing, PTL DEF Spec, KeepsPromise
=============================================================================
