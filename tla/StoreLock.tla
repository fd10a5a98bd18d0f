----------------------------- MODULE StoreLock -----------------------------
(***************************************************************************)
(* The lock file `<file>.lock` by which the AI runtime store serialises    *)
(* the changes of one JSON file between tasks of several processes.        *)
(*                                                                         *)
(*   lock     the file: None, or who created it, which creation it is      *)
(*            (its ownerId and inode) and whether its content is written   *)
(*   made     number of lock files created so far                          *)
(*   alive    the processes that are running                               *)
(*   task[t]  a caller of acquireLock and of the release it returns:       *)
(*            where it is, the creation it owns, the creation it has seen  *)
(*   raced    history: two tasks have stood between comparing and removing *)
(*            the same file of a dead owner                                *)
(*                                                                         *)
(* A lock may look stale (LOCK_STALE_MS) at any time, also while its owner *)
(* lives, because a heartbeat can be late; staleness is therefore no state *)
(* here.  Giving up after LOCK_RETRIES changes nothing either: the task is *)
(* idle again, as it is between two tries.  A process that died is never   *)
(* mistaken for a later one: a process started later has a new pid.        *)
(***************************************************************************)
EXTENDS Integers, FiniteSets

CONSTANTS
    Tasks,        \* callers
    Procs,        \* processes: server and hourly sweep
    Process,      \* the process of each task
    Returning,    \* tasks that ask again and again: the hourly sweep's
    MaxLocks,     \* bound: lock files created
    None

VARIABLES lock, made, alive, task, raced

vars == <<lock, made, alive, task, raced>>

Lock == [by: Tasks, id: 1..MaxLocks, named: BOOLEAN]

Holding == {"created", "holding", "releasing"}

PCs == {"idle", "examined", "confirmed", "dead"} \cup Holding

Task == [pc: PCs, own: 0..MaxLocks, seen: 0..MaxLocks]

ASSUME LockAssumption ==
    /\ Process \in [Tasks -> Procs]
    /\ Returning \subseteq Tasks
    /\ MaxLocks \in Nat
    /\ None \notin Tasks
    /\ None \notin Lock

Init ==
    /\ lock = None
    /\ made = 0
    /\ alive = Procs
    /\ task = [t \in Tasks |-> [pc |-> "idle", own |-> 0, seen |-> 0]]
    /\ raced = FALSE

Step(t, from, to) ==
    /\ task[t].pc = from
    /\ task' = [task EXCEPT ![t].pc = to]

IsOwn(t) == lock # None /\ lock.id = task[t].own

-----------------------------------------------------------------------------
(* Acquiring and releasing.                                                  *)

\* open(lockPath, "wx"): an empty file.
Create(t) ==
    /\ lock = None
    /\ made < MaxLocks
    /\ task[t].pc = "idle"
    /\ lock' = [by |-> t, id |-> made + 1, named |-> FALSE]
    /\ made' = made + 1
    /\ task' = [task EXCEPT ![t] = [@ EXCEPT !.pc = "created", !.own = made + 1]]
    /\ UNCHANGED <<alive, raced>>

\* The owner and its pid are written through the handle: into the inode
\* that was created, whatever the path names by now.
Write(t) ==
    /\ Step(t, "created", "holding")
    /\ lock' = IF IsOwn(t) THEN [lock EXCEPT !.named = TRUE] ELSE lock
    /\ UNCHANGED <<made, alive, raced>>

\* The write fails: acquireLock throws, the empty file stays.
WriteFails(t) ==
    /\ Step(t, "created", "idle")
    /\ UNCHANGED <<lock, made, alive, raced>>

\* release compares the file with its own document and inode ...
ReleaseCompares(t) ==
    /\ Step(t, "holding", IF IsOwn(t) THEN "releasing" ELSE "idle")
    /\ UNCHANGED <<lock, made, alive, raced>>

\* ... and then unlinks the path.
ReleaseUnlinks(t) ==
    /\ Step(t, "releasing", "idle")
    /\ lock' = None
    /\ UNCHANGED <<made, alive, raced>>

-----------------------------------------------------------------------------
(* Recovering the lock of a dead owner.                                      *)

\* Mutant: an owner that looks stale counts as dead.
StaleOwner == lock # None /\ lock.named

DeadOwner == lock # None /\ lock.named /\ Process[lock.by] \notin alive

\* stat, read, kill(pid, 0).
Examine(t) ==
    /\ DeadOwner
    /\ task[t].pc = "idle"
    /\ task' = [task EXCEPT ![t] = [@ EXCEPT !.pc = "examined", !.seen = lock.id]]
    /\ UNCHANGED <<lock, made, alive, raced>>

\* Somebody else has just confirmed the file t has examined.
ConfirmedBefore(t) ==
    \E u \in Tasks \ {t} : task[u].pc = "confirmed" /\ task[u].seen = task[t].seen

\* Mutant: the lock must have been written anew.
ConfirmOther(t) ==
    /\ Step(t, "examined",
            IF lock # None /\ lock.id # task[t].seen THEN "confirmed" ELSE "idle")
    /\ UNCHANGED <<lock, made, alive, raced>>

\* The file is read once more and must be the one that was examined.
Confirm(t) ==
    /\ Step(t, "examined",
            IF lock # None /\ lock.id = task[t].seen THEN "confirmed" ELSE "idle")
    /\ raced' = (raced \/ ConfirmedBefore(t))
    /\ UNCHANGED <<lock, made, alive>>

Unlink(t) ==
    /\ Step(t, "confirmed", "idle")
    /\ lock' = None
    /\ UNCHANGED <<made, alive, raced>>

-----------------------------------------------------------------------------

Die(p) ==
    /\ p \in alive
    /\ alive' = alive \ {p}
    /\ task' = [t \in Tasks |->
                   IF Process[t] = p THEN [task[t] EXCEPT !.pc = "dead"] ELSE task[t]]
    /\ UNCHANGED <<lock, made, raced>>

Recovery(t) == Examine(t) \/ Confirm(t) \/ Unlink(t)

Next ==
    \/ \E t \in Tasks :
          \/ Create(t) \/ Write(t) \/ WriteFails(t)
          \/ ReleaseCompares(t) \/ ReleaseUnlinks(t) \/ Recovery(t)
    \/ \E p \in Procs : Die(p)

Spec == Init /\ [][Next]_vars

Use(t) == Write(t) \/ WriteFails(t) \/ ReleaseCompares(t) \/ ReleaseUnlinks(t)

\* The sweep comes back every hour, finishes what it does under a lock, and
\* examines a lock it finds taken.
FairSpec ==
    Spec /\ \A t \in Returning : WF_vars(Use(t)) /\ WF_vars(Recovery(t))

-----------------------------------------------------------------------------

TypeOK ==
    /\ lock \in Lock \cup {None}
    /\ made \in 0..MaxLocks
    /\ alive \subseteq Procs
    /\ task \in [Tasks -> Task]
    /\ raced \in BOOLEAN

\* Two tasks are never between acquireLock and the end of their release, as
\* long as no two recoveries have raced: everything the store changes, it
\* changes under this protection.
MutualExclusion ==
    ~raced => \A t, u \in Tasks :
                  task[t].pc \in Holding /\ task[u].pc \in Holding => t = u

\* A lock file disappears because its own owner released it or because its
\* owner is dead, never under a living owner.
Lawful ==
    lock # None /\ lock' = None =>
        \/ Process[lock.by] \notin alive
        \/ task[lock.by].pc = "releasing" /\ task'[lock.by].pc = "idle"

\* The comment of acquireLock: "Only a stale, attributable dead owner can be
\* recovered", whoever else recovers at the same time.
OnlyDeadOwnersRecovered == [][Lawful]_vars

\* What the code keeps of it: nobody loses a lock file while alive, unless two
\* tasks have raced to recover an earlier one.
NoLivingOwnerRobbed == [][Lawful \/ raced]_vars

\* The lock of a dead owner that got as far as writing its pid does not stay,
\* as long as somebody lives who asks for it again and again.
DeadOwnersLockGoes ==
    \A t \in Returning :
        (DeadOwner /\ Process[t] \in alive) ~> (~DeadOwner \/ Process[t] \notin alive)

Promise == INSTANCE LockPromise WITH
               holder <- IF lock = None THEN None ELSE lock.by,
               inside <- {t \in Tasks : task[t].pc \in Holding}

\* The lock file keeps the promise of LockPromise, whoever dies and whoever
\* recovers, until two recoveries of one file race.
KeepsPromise == Promise!Init /\ [][Promise!Next \/ raced]_(Promise!vars)
=============================================================================
