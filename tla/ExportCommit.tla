---------------------------- MODULE ExportCommit ----------------------------
(***************************************************************************)
(* Delivery of a configuration package into the workbooks of one target    *)
(* profile by the local companion.  A PREVIEW reads the workbooks, merges  *)
(* the package into them and stages the result; a COMMIT takes the lock    *)
(* file of the profile, checks that the workbooks are still what the       *)
(* preview read, backs them up, replaces them one by one, validates what   *)
(* it wrote, records the result under the idempotency key of the package   *)
(* and, if anything fails on the way, puts the backups back.               *)
(*                                                                         *)
(* On disk:                                                                *)
(*   target   the workbooks.  A workbook is the set of changes it contains *)
(*            (packages and outsiders' edits), Missing while it is renamed *)
(*   staged   staging/<package>/<profile>, overwritten by every preview    *)
(*   backup   backups/<package>/<profile>, overwritten by every commit     *)
(*   record   commits/<sha256 of the key>.json: None, Torn (not parsable), *)
(*            or the preview it was committed for (its formal context)     *)
(*   lock     locks/<profile>.lock: None, the commit that created it, or   *)
(*            Leaked if no running commit will remove it                   *)
(* In the companion's memory:                                              *)
(*   previews the previews that may still be confirmed                     *)
(*   reader   the preview request at work                                  *)
(*   call[c]  a commit request                                             *)
(* Outside (history):                                                      *)
(*   edited   the workbook an edit was made in, 0 if it was not made       *)
(*   racing   the edits made while a commit was at work                    *)
(*   halved   the packages of which a commit has ended, killed or by a     *)
(*            failing rollback, with some workbooks replaced               *)
(*   again    those of them whose backups have been taken anew             *)
(*                                                                         *)
(* A hash of a workbook is the workbook.                                   *)
(***************************************************************************)
EXTENDS Integers, FiniteSets

CONSTANTS
    Calls,        \* commit requests at work at the same time
    Packages,     \* packages to deliver
    Edits,        \* changes made by others (Excel, git), each made once
    Workbooks,    \* number of workbooks; operations are in file name order
    MaxPreviews,  \* bound: confirmable previews kept at a time
    Faults,       \* the file operations that may fail
    Crashes,      \* TRUE: the companion may be killed
    None, Missing, Torn, Leaked

VARIABLES target, staged, backup, record, lock, previews, reader, call,
          edited, racing, halved, again

disk == <<target, staged, backup, record, lock>>
outsiders == <<edited, racing>>
past == <<outsiders, halved, again>>
vars == <<target, staged, backup, record, lock, previews, reader, call,
          edited, racing, halved, again>>

Files == 1..Workbooks

Content == SUBSET (Packages \cup Edits)

Preview == [package: Packages, base: [Files -> Content]]

\* stageWorkbookRows merges the package into what the preview has read.
Merged(v, f) == v.base[f] \cup {v.package}

FaultKinds == {"lock", "backup", "displace", "install", "undo", "cleanup",
               "reread", "validate", "record", "unlock", "restore"}

Idle == [pc |-> "idle", of |-> None, at |-> 0, pending |-> {}, old |-> {},
         conflict |-> FALSE, status |-> "none", lost |-> {}]

Locked == {"recheck", "check", "backup", "displace", "install", "finish",
           "validate", "create", "record", "release"}

States == {"idle", "lookup", "lock", "answer"} \cup Locked

Statuses == {"none", "undoing", "committed", "conflict", "failed", "error"}

Call == [pc: States, of: Preview \cup {None}, at: 0..Workbooks + 1,
         pending: Content, old: Content, conflict: BOOLEAN, status: Statuses,
         lost: SUBSET Files]

ASSUME ExportAssumption ==
    /\ Workbooks \in Nat \ {0}
    /\ MaxPreviews \in Nat
    /\ Faults \subseteq FaultKinds
    /\ Crashes \in BOOLEAN
    /\ None \notin Preview \cup Calls
    /\ Torn \notin Preview \cup {None}
    /\ \A content \in Content : content # Missing
    /\ Leaked \notin Calls \cup {None}
    /\ Packages \cap Edits = {}

\* Workbooks no package has been delivered to; an empty control directory.
Init ==
    /\ target = [f \in Files |-> {}]
    /\ staged = [q \in Packages |-> [f \in Files |-> Missing]]
    /\ backup = [q \in Packages |-> [f \in Files |-> Missing]]
    /\ record = [q \in Packages |-> None]
    /\ lock = None
    /\ previews = {}
    /\ reader = None
    /\ call = [c \in Calls |-> Idle]
    /\ edited = [e \in Edits |-> 0]
    /\ racing = {}
    /\ halved = {}
    /\ again = {}

-----------------------------------------------------------------------------
(* Previewing: no lock is taken, the workbooks are read one after another.   *)

StartPreview(q) ==
    /\ reader = None
    /\ Cardinality(previews) < MaxPreviews
    /\ reader' = [package |-> q, base |-> << >>]
    /\ UNCHANGED <<disk, previews, call, past>>

NextToRead == Cardinality(DOMAIN reader.base) + 1

ReadWorkbook ==
    /\ reader # None
    /\ NextToRead \in Files
    /\ target[NextToRead] # Missing
    /\ reader' = [package |-> reader.package,
                  base |-> [f \in 1..NextToRead |->
                      IF f = NextToRead THEN target[f] ELSE reader.base[f]]]
    /\ UNCHANGED <<disk, previews, call, past>>

\* A workbook is missing, or the rows or their relations do not validate.
PreviewBlocked ==
    /\ reader # None
    /\ reader' = None
    /\ UNCHANGED <<disk, previews, call, past>>

StagePreview ==
    /\ reader # None
    /\ DOMAIN reader.base = Files
    /\ previews' = previews \cup {reader}
    /\ staged' = [staged EXCEPT ![reader.package] =
                     [f \in Files |-> Merged(reader, f)]]
    /\ reader' = None
    /\ UNCHANGED <<target, backup, record, lock, call, past>>

\* Thirty minutes later.
ForgetPreview(v) ==
    /\ previews' = previews \ {v}
    /\ UNCHANGED <<disk, reader, call, past>>

-----------------------------------------------------------------------------
(* Committing, up to the first replacement.                                  *)

StartCommit(c, v) ==
    /\ call[c].pc = "idle"
    /\ call' = [call EXCEPT ![c] = [Idle EXCEPT !.pc = "lookup", !.of = v]]
    /\ UNCHANGED <<disk, previews, reader, past>>

Key(c) == call[c].of.package

\* c goes on at pc with file at.
Go(c, pc, at) == [call EXCEPT ![c].pc = pc, ![c].at = at]

\* c ends with an exception.
Throws(c) == [call EXCEPT ![c] = Idle]

\* c is at pc with nothing but its preview and how it has come out.
Outcome(c, pc, status) ==
    [Idle EXCEPT !.pc = pc, !.of = call[c].of, !.status = status]

\* c ends with status; "release" is the finally block that removes the lock.
End(c, pc, status) == [call EXCEPT ![c] = Outcome(c, pc, status)]

\* Mutant: the recorded result is returned for whatever preview is confirmed.
ReplayableForAnyPreview(c) == record[Key(c)] \notin {None, Torn}

\* recoverVerifiedFormalConfigExportEvidence: only for the same context.
Replayable(c) == record[Key(c)] = call[c].of

Lookup(c) ==
    /\ call[c].pc = "lookup"
    /\ call' = IF record[Key(c)] = None THEN Go(c, "lock", 0)
               ELSE IF Replayable(c) THEN End(c, "answer", "committed")
               ELSE Throws(c)
    /\ UNCHANGED <<disk, previews, reader, past>>

\* The governance evidence does not verify, or is not that of the recorded
\* result; before or under the lock.
Denied(c) ==
    /\ \/ /\ call[c].pc \in {"lookup", "lock"}
          /\ call' = Throws(c)
       \/ /\ call[c].pc = "recheck"
          /\ call' = End(c, "release", "error")
    /\ UNCHANGED <<disk, previews, reader, past>>

\* Mutant: the lock file is opened whether or not it exists.
TakeLockAlways(c) ==
    /\ call[c].pc = "lock"
    /\ lock' = c
    /\ call' = Go(c, "recheck", 0)
    /\ UNCHANGED <<target, staged, backup, record, previews, reader, past>>

\* open(lockPath, "wx").
TakeLock(c) ==
    /\ call[c].pc = "lock"
    /\ lock = None
    /\ lock' = c
    /\ call' = Go(c, "recheck", 0)
    /\ UNCHANGED <<target, staged, backup, record, previews, reader, past>>

\* Mutant: the commit waits until the lock is free.
LockTakenWaits(c) == FALSE

LockTaken(c) ==
    /\ call[c].pc = "lock"
    /\ lock # None
    /\ call' = Throws(c)
    /\ UNCHANGED <<disk, previews, reader, past>>

\* The lock file is created, but writing into it fails outside the try block.
LockLeaks(c) ==
    /\ "lock" \in Faults
    /\ call[c].pc = "lock"
    /\ lock = None
    /\ lock' = Leaked
    /\ call' = Throws(c)
    /\ UNCHANGED <<target, staged, backup, record, previews, reader, past>>

\* Mutant: the record is not looked up again under the lock.
RecheckSkipped(c) ==
    /\ call[c].pc = "recheck"
    /\ call' = Go(c, "check", 1)
    /\ UNCHANGED <<disk, previews, reader, past>>

\* findCommittedResult under the lock; here a torn record counts as none.
Recheck(c) ==
    /\ call[c].pc = "recheck"
    /\ call' = IF record[Key(c)] \in {None, Torn} THEN Go(c, "check", 1)
               ELSE IF Replayable(c) THEN End(c, "release", "committed")
               ELSE End(c, "release", "error")
    /\ UNCHANGED <<disk, previews, reader, past>>

\* Mutant: the baseline is not compared.
UnchangedAlways(c) == TRUE

Unchanged(c) == target[call[c].at] = call[c].of.base[call[c].at]

\* The hash of every workbook is compared before any of them is touched.
CheckBaseline(c) ==
    LET conflict == call[c].conflict \/ ~Unchanged(c)
        last == call[c].at = Workbooks
    IN /\ call[c].pc = "check"
       /\ target[call[c].at] # Missing
       /\ call' = IF last /\ conflict THEN End(c, "release", "conflict")
                  ELSE [call EXCEPT
                      ![c].pc = IF last THEN "backup" ELSE "check",
                      ![c].at = IF last THEN 1 ELSE @ + 1,
                      ![c].conflict = conflict]
       /\ UNCHANGED <<disk, previews, reader, past>>

\* Mutant: the staged file is copied instead of the workbook.
BackUpStaged(c) ==
    LET f == call[c].at
    IN /\ call[c].pc = "backup"
       /\ target[f] # Missing
       /\ backup' = [backup EXCEPT ![Key(c)][f] = staged[Key(c)][f]]
       /\ call' = IF f = Workbooks THEN Go(c, "displace", 1)
                  ELSE Go(c, "backup", f + 1)
       /\ again' = again \cup (halved \cap {Key(c)})
       /\ UNCHANGED <<target, staged, record, lock, previews, reader, outsiders,
                      halved>>

BackUp(c) ==
    LET f == call[c].at
    IN /\ call[c].pc = "backup"
       /\ target[f] # Missing
       /\ backup' = [backup EXCEPT ![Key(c)][f] = target[f]]
       /\ call' = IF f = Workbooks THEN Go(c, "displace", 1)
                  ELSE Go(c, "backup", f + 1)
       /\ again' = again \cup (halved \cap {Key(c)})
       /\ UNCHANGED <<target, staged, record, lock, previews, reader, outsiders,
                      halved>>

\* Nothing is replaced yet: the exception leaves through the finally block.
GivesUp(c) ==
    /\ call[c].pc \in {"check", "backup"}
    /\ target[call[c].at] = Missing \/ "backup" \in Faults
    /\ call' = End(c, "release", "error")
    /\ UNCHANGED <<disk, previews, reader, past>>

-----------------------------------------------------------------------------
(* atomicReplace, used to write a staged workbook and to put a backup back.  *)

Undoing(c) == call[c].status = "undoing"

\* "restore" stands for every operation of the rollback.
MayFail(c, kind) == kind \in Faults /\ (Undoing(c) => "restore" \in Faults)

Source(c) == IF Undoing(c) THEN backup[Key(c)][call[c].at]
             ELSE staged[Key(c)][call[c].at]

\* Mutant: whatever is staged by now is copied.
VerifiedAlways(c) == Source(c) # Missing

\* The copy is compared with stagedHash; a backup is not compared.
Verified(c) ==
    /\ Source(c) # Missing
    /\ Undoing(c) \/ Source(c) = Merged(call[c].of, call[c].at)

\* Mutant: the workbook replaced last is not rolled back.
NextUndoSkipsLast(c) == call[c].at - 2

\* The rollback runs over the replaced workbooks in reverse order.
NextUndo(c) == call[c].at - 1

\* What an exception does at this point: start rolling back, or go on with
\* the next backup to put back.  Workbook at itself does not count as
\* replaced, whatever the exception has left of it; lost names those the
\* exception leaves other than they were.
Loses(c, lost) ==
    LET next == NextUndo(c)
        undo == IF next < 1 THEN Outcome(c, "release", "failed")
                ELSE [Outcome(c, "displace", "undoing") EXCEPT !.at = next]
    IN [call EXCEPT ![c] = [undo EXCEPT !.lost = call[c].lost \cup lost]]

This(c) == {call[c].at}

\* The exception leaves the workbook as it is; while rolling back this means
\* that its backup is not put back (EXPORT_ROLLBACK_FAILED).
RollsBack(c) == Loses(c, IF Undoing(c) THEN This(c) ELSE {})

\* copyFile, compare, rename(target, displaced).
Displace(c) ==
    LET f == call[c].at
    IN /\ call[c].pc = "displace"
       /\ target[f] # Missing
       /\ Verified(c)
       /\ target' = [target EXCEPT ![f] = Missing]
       /\ call' = [call EXCEPT ![c].pc = "install", ![c].old = target[f],
                               ![c].pending = Source(c)]
       /\ UNCHANGED <<staged, backup, record, lock, previews, reader, past>>

DisplaceFails(c) ==
    /\ call[c].pc = "displace"
    /\ \/ MayFail(c, "displace")
       \/ target[call[c].at] = Missing
       \/ ~Verified(c)
    /\ call' = RollsBack(c)
    /\ UNCHANGED <<disk, previews, reader, past>>

\* rename(pending, target).
Install(c) ==
    /\ call[c].pc = "install"
    /\ target' = [target EXCEPT ![call[c].at] = call[c].pending]
    /\ call' = Go(c, "finish", call[c].at)
    /\ UNCHANGED <<staged, backup, record, lock, previews, reader, past>>

\* The catch block renames the displaced file back and ignores a failure.
PutsBack(c, instead) ==
    /\ \/ /\ target' = [target EXCEPT ![call[c].at] = call[c].old]
          /\ call' = RollsBack(c)
       \/ /\ "undo" \in Faults
          /\ target' = [target EXCEPT ![call[c].at] = instead]
          /\ call' = Loses(c, This(c))
    /\ UNCHANGED <<staged, backup, record, lock, previews, reader, past>>

\* Mutant: the catch block does not throw again.
InstallFailsQuietly(c) ==
    /\ call[c].pc = "install"
    /\ MayFail(c, "install")
    /\ target' = [target EXCEPT ![call[c].at] = call[c].old]
    /\ call' = Go(c, "finish", call[c].at)
    /\ UNCHANGED <<staged, backup, record, lock, previews, reader, past>>

InstallFails(c) ==
    /\ call[c].pc = "install"
    /\ MayFail(c, "install")
    /\ PutsBack(c, Missing)

\* rm(displaced) fails: the old file is renamed over the new one.
CleanupFails(c) ==
    /\ call[c].pc = "finish"
    /\ MayFail(c, "cleanup")
    /\ PutsBack(c, target[call[c].at])

\* The displaced file is removed and a replaced workbook is read back.
Finish(c) ==
    LET f == call[c].at
        next == IF f = Workbooks THEN "validate" ELSE "displace"
    IN /\ call[c].pc = "finish"
       /\ call' =
             IF Undoing(c) THEN Loses(c, {})
             ELSE [call EXCEPT ![c] = [Outcome(c, next, "none") EXCEPT !.at = f + 1]]
       /\ UNCHANGED <<disk, previews, reader, past>>

\* hashFile(target) fails after the replacement, which nobody undoes.
RereadFails(c) ==
    /\ call[c].pc = "finish"
    /\ ~Undoing(c)
    /\ "reread" \in Faults
    /\ call' = Loses(c, This(c))
    /\ UNCHANGED <<disk, previews, reader, past>>

-----------------------------------------------------------------------------
(* Recording the result.                                                     *)

Validate(c) ==
    /\ call[c].pc = "validate"
    /\ \/ call' = Go(c, "create", call[c].at)
       \/ "validate" \in Faults /\ call' = RollsBack(c)
    /\ UNCHANGED <<disk, previews, reader, past>>

\* writeFile(recordPath, ..., "wx") creates the file, then fills it.
CreateRecord(c) ==
    /\ call[c].pc = "create"
    /\ record[Key(c)] = None
    /\ record' = [record EXCEPT ![Key(c)] = Torn]
    /\ call' = Go(c, "record", call[c].at)
    /\ UNCHANGED <<target, staged, backup, lock, previews, reader, past>>

WriteRecord(c) ==
    /\ call[c].pc = "record"
    /\ record' = [record EXCEPT ![Key(c)] = call[c].of]
    /\ call' = End(c, "release", "committed")
    /\ UNCHANGED <<target, staged, backup, lock, previews, reader, past>>

RecordFails(c) ==
    /\ \/ call[c].pc = "create" /\ record[Key(c)] # None
       \/ call[c].pc \in {"create", "record"} /\ "record" \in Faults
    /\ call' = RollsBack(c)
    /\ UNCHANGED <<disk, previews, reader, past>>

\* If c stopped here, some workbooks would be replaced or lost.
Halfway(c) ==
    \/ call[c].lost # {}
    \/ call[c].pc \in {"install", "finish", "validate", "create", "record"}
    \/ call[c].pc = "displace" /\ (call[c].at > 1 \/ Undoing(c))

Ends(ending) == halved' = halved \cup {Key(c) : c \in {d \in ending : Halfway(d)}}

Release(c) ==
    /\ call[c].pc = "release"
    /\ lock' = None
    /\ call' = IF call[c].status = "error" THEN Throws(c)
               ELSE End(c, "answer", call[c].status)
    /\ Ends({c})
    /\ UNCHANGED <<target, staged, backup, record, previews, reader, outsiders,
                   again>>

\* close or rm fails: the lock stays, the caller sees an exception.
ReleaseFails(c) ==
    /\ call[c].pc = "release"
    /\ "unlock" \in Faults
    /\ lock' = Leaked
    /\ call' = Throws(c)
    /\ Ends({c})
    /\ UNCHANGED <<target, staged, backup, record, previews, reader, outsiders,
                   again>>

Answered(c) ==
    /\ call[c].pc = "answer"
    /\ call' = [call EXCEPT ![c] = Idle]
    /\ UNCHANGED <<disk, previews, reader, past>>

-----------------------------------------------------------------------------
(* The world around.                                                         *)

\* Somebody saves a workbook.
OutsiderEdits(e, f) ==
    /\ edited[e] = 0
    /\ target[f] # Missing
    /\ target' = [target EXCEPT ![f] = @ \cup {e}]
    /\ edited' = [edited EXCEPT ![e] = f]
    /\ racing' = IF \E c \in Calls : call[c].pc \in Locked
                 THEN racing \cup {e} ELSE racing
    /\ UNCHANGED <<staged, backup, record, lock, previews, reader, call, halved,
                   again>>

\* The administrator removes a lock file nobody is going to remove.
AdminUnlocks ==
    /\ lock = Leaked
    /\ lock' = None
    /\ UNCHANGED <<target, staged, backup, record, previews, reader, call, past>>

\* The companion is killed and started again: previews are forgotten, the
\* disk stays as it is.
Crash ==
    /\ Crashes
    /\ previews' = {}
    /\ reader' = None
    /\ call' = [c \in Calls |-> Idle]
    /\ lock' = IF lock = None THEN None ELSE Leaked
    /\ Ends(Calls)
    /\ UNCHANGED <<target, staged, backup, record, outsiders, again>>

-----------------------------------------------------------------------------

CommitStep(c) ==
    \/ Lookup(c) \/ TakeLock(c) \/ LockTaken(c) \/ LockLeaks(c)
    \/ Recheck(c) \/ CheckBaseline(c) \/ BackUp(c) \/ GivesUp(c)
    \/ Displace(c) \/ DisplaceFails(c) \/ Install(c) \/ InstallFails(c)
    \/ CleanupFails(c) \/ Finish(c) \/ RereadFails(c)
    \/ Validate(c) \/ CreateRecord(c) \/ WriteRecord(c) \/ RecordFails(c)
    \/ Release(c) \/ ReleaseFails(c) \/ Answered(c)

Next ==
    \/ \E q \in Packages : StartPreview(q)
    \/ ReadWorkbook \/ PreviewBlocked \/ StagePreview
    \/ \E v \in previews : ForgetPreview(v) \/ \E c \in Calls : StartCommit(c, v)
    \/ \E c \in Calls : CommitStep(c) \/ Denied(c)
    \/ \E e \in Edits, f \in Files : OutsiderEdits(e, f)
    \/ AdminUnlocks
    \/ Crash

Spec == Init /\ [][Next]_vars

-----------------------------------------------------------------------------
(* Properties.                                                               *)

\* Contents, records and requests stay within what is listed above.
TypeOK ==
    /\ target \in [Files -> Content \cup {Missing}]
    /\ staged \in [Packages -> [Files -> Content \cup {Missing}]]
    /\ backup \in [Packages -> [Files -> Content \cup {Missing}]]
    /\ record \in [Packages -> Preview \cup {None, Torn}]
    /\ lock \in Calls \cup {None, Leaked}
    /\ previews \subseteq Preview
    /\ \/ reader = None
       \/ \E n \in 0..Workbooks :
             reader \in [package: Packages, base: [1..n -> Content]]
    /\ call \in [Calls -> Call]
    /\ edited \in [Edits -> Files \cup {0}]
    /\ racing \subseteq Edits
    /\ halved \subseteq Packages
    /\ again \subseteq Packages

\* Two commits never work on the workbooks of one profile at the same time,
\* also when locks leak, are removed by hand or their holders die.
OneCommitAtATime ==
    \A c, d \in Calls :
        call[c].pc \in Locked /\ call[d].pc \in Locked => c = d

Installs(f) == target'[f] \notin {Missing, target[f]}

\* A workbook only ever receives what the confirmed preview showed, what the
\* backup held, the file it had just displaced, or an outsider's edit, however
\* previews of the package race with the commit.
OnlyConfirmedContent ==
    [][\A f \in Files : Installs(f) /\ edited' = edited =>
          \E c \in Calls :
             /\ call[c].pc \in {"install", "finish"}
             /\ call[c].at = f
             /\ target'[f] \in {Merged(call[c].of, f), backup[Key(c)][f],
                                call[c].old}]_vars

Complete(v) ==
    \A f \in Files : target[f] # Missing /\ Merged(v, f) \subseteq target[f]

\* The moment a package is recorded as committed, every one of its workbooks
\* is in place and contains what was confirmed, whichever operations failed.
RecordedMeansDelivered ==
    [][\A q \in Packages :
          record'[q] \notin {None, Torn} /\ record'[q] # record[q]
          => Complete(record'[q])]_vars

\* A package that is recorded as committed is not delivered again: no commit
\* that touches workbooks works for it.
DeliveredOnce ==
    \A c \in Calls :
        call[c].pc \in {"displace", "install", "finish"}
        => record[Key(c)] \in {None, Torn}

\* A commit that tells its caller "committed" has its very context recorded,
\* whether it did the work or found it done.
CommittedIsRecorded ==
    \A c \in Calls :
        call[c].pc = "answer" /\ call[c].status = "committed"
        => record[Key(c)] = call[c].of

\* A commit that has failed and rolled back leaves every workbook in place
\* and none of its changes in any of them, but for those that are lost: an
\* operation failed that would have put them back, or to read them back.
FailedLeavesNothing ==
    \A c \in Calls, f \in Files :
        call[c].pc = "release" /\ call[c].status = "failed" /\ f \notin call[c].lost =>
            /\ target[f] # Missing
            /\ Key(c) \in target[f] => Key(c) \in call[c].of.base[f]

\* Until a package is committed, the workbooks as they were without it exist:
\* in place, or as the backup, also after crashes and failed rollbacks, until
\* the package is tried again on what these have left.
OriginalRecoverable ==
    \A q \in Packages \ again, f \in Files :
        /\ record[q] \in {None, Torn}
        /\ target[f] # Missing
        /\ q \in target[f]
        => backup[q][f] # Missing /\ q \notin backup[q][f]

Survives(e) ==
    \A f \in Files :
        edited[e] = f /\ target[f] # Missing => e \in target[f]

\* What others have written into a workbook before a commit gets to work is
\* not overwritten, however old its preview is.
EarlierEditsSurvive == \A e \in Edits \ racing : Survives(e)

\* How many steps a commit has ahead of it at most.
Remaining(c) ==
    LET at == call[c].at
        step == [displace |-> 3, install |-> 2, finish |-> 1][call[c].pc]
        undoAll == 2 + 3 * Workbooks
        replaceAll == undoAll + 3 + 3 * Workbooks
    IN CASE call[c].pc = "idle" -> 0
         [] call[c].pc = "answer" -> 1
         [] call[c].pc = "release" -> 2
         [] Undoing(c) -> 2 + 3 * (at - 1) + step
         [] call[c].pc = "record" -> undoAll + 1
         [] call[c].pc = "create" -> undoAll + 2
         [] call[c].pc = "validate" -> undoAll + 3
         [] call[c].pc \in {"displace", "install", "finish"} ->
               replaceAll - 3 * at + step
         [] call[c].pc = "backup" -> replaceAll + Workbooks + 1 - at
         [] call[c].pc = "check" -> replaceAll + 2 * Workbooks + 1 - at
         [] call[c].pc = "recheck" -> replaceAll + 2 * Workbooks + 1
         [] call[c].pc = "lock" -> replaceAll + 2 * Workbooks + 2
         [] call[c].pc = "lookup" -> replaceAll + 2 * Workbooks + 3

\* Every commit request is answered, whatever fails: until it is, it has a
\* step to take by itself, and each of its steps brings it nearer to the end.
CommitEnds ==
    /\ [](\A c \in Calls : call[c].pc # "idle" => ENABLED CommitStep(c))
    /\ [][\A c \in Calls :
             call[c].pc # "idle" /\ call'[c] # call[c]
             => Remaining(c)' < Remaining(c)]_vars
=============================================================================
