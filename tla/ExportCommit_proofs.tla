------------------------ MODULE ExportCommit_proofs ------------------------
(***************************************************************************)
(* Proofs about ExportCommit, for every set of requests, packages and      *)
(* edits, any number of workbooks, and whatever operations fail.           *)
(*                                                                         *)
(* The invariant Inv says of every commit what its control state promises: *)
(* Holder (it owns the lock file while it works), NotYetRecorded and       *)
(* Recorded (what is known of its record), InPlace (the workbooks it has   *)
(* passed are delivered).  Holder makes the rest stable: whoever changes   *)
(* the disk is the only one at work.  Reversible follows the rollback: but *)
(* for what is lost, the workbooks a commit has not touched yet, its       *)
(* backups and what it has restored are as they were found.  Preserved     *)
(* follows the edits of others through previews and backups, and Original  *)
(* the packages that are not committed, through failed rollbacks and       *)
(* crashes.                                                                *)
(***************************************************************************)
EXTENDS ExportCommit, FiniteSetTheorems, TLAPS

\* What the control states say about the fields of a request.
ControlOK ==
    \A c \in Calls :
        /\ call[c].pc # "idle" => call[c].of \in Preview
        /\ call[c].pc = "idle" => call[c].lost = {}
        /\ call[c].pc \in {"check", "backup", "displace", "install", "finish"}
              => call[c].at \in Files
        /\ call[c].pc \in {"validate", "create", "record"}
              => call[c].at = Workbooks + 1
        /\ Undoing(c) => call[c].pc \in {"displace", "install", "finish"}

Typed == TypeOK /\ ControlOK

Holder(c) == call[c].pc \in Locked => lock = c

Working == {"check", "backup", "displace", "install", "finish", "validate",
            "create", "record"}

NotYetRecorded(c) ==
    call[c].pc \in Working => record[Key(c)] \in {None, Torn}

Recorded(c) ==
    call[c].pc \in {"release", "answer"} /\ call[c].status = "committed"
    => record[Key(c)] = call[c].of

Delivered(v, f) == target[f] # Missing /\ Merged(v, f) \subseteq target[f]

\* Until it rolls back, a commit leaves delivered workbooks behind.
InPlace(c) ==
    ~Undoing(c) =>
        /\ call[c].pc \in {"displace", "install", "finish", "validate",
                           "create", "record"}
           => \A f \in Files : f < call[c].at => Delivered(call[c].of, f)
        /\ call[c].pc = "install"
           => call[c].pending = Merged(call[c].of, call[c].at)
        /\ call[c].pc = "finish" => Delivered(call[c].of, call[c].at)

\* In its rollback a commit is about to install the backup.
FromBackup(c) ==
    Undoing(c) /\ call[c].pc = "install"
    => call[c].pending = backup[Key(c)][call[c].at]

Ordered(c) ==
    /\ Holder(c)
    /\ NotYetRecorded(c)
    /\ Recorded(c)
    /\ InPlace(c)
    /\ FromBackup(c)

Inv == Typed /\ \A c \in Calls : Ordered(c)

\* The package of c is in a content only if it was there before.
Clean(c, f, content) ==
    content # Missing /\ (Key(c) \in content => Key(c) \in call[c].of.base[f])

Replacing == {"displace", "install", "finish", "validate", "create", "record"}

\* Compared workbooks are clean until they are replaced, backups stay clean,
\* and the rollback leaves clean workbooks behind, but for those it loses.
Reversible(c) ==
    LET at == call[c].at
        lost == call[c].lost
    IN /\ lost # {} => Undoing(c) \/ call[c].pc = "release"
       /\ call[c].pc = "check" /\ ~call[c].conflict =>
             \A f \in Files : f < at => Clean(c, f, target[f])
       /\ call[c].pc = "backup" =>
             \A f \in Files : /\ Clean(c, f, target[f])
                              /\ f < at => Clean(c, f, backup[Key(c)][f])
       /\ call[c].pc \in Replacing =>
             \A f \in Files : /\ Clean(c, f, backup[Key(c)][f])
                              /\ f > at /\ f \notin lost => Clean(c, f, target[f])
                              /\ f < at => target[f] # Missing
       /\ call[c].pc = "displace" =>
             IF Undoing(c) THEN target[at] # Missing
             ELSE Clean(c, at, target[at])
       /\ call[c].pc \in {"install", "finish"} =>
             Undoing(c) \/ Clean(c, at, call[c].old)
       /\ call[c].pc = "finish" /\ Undoing(c) => Clean(c, at, target[at])
       /\ call[c].pc = "release" /\ call[c].status = "failed" =>
             \A f \in Files \ lost : Clean(c, f, target[f])

-----------------------------------------------------------------------------
(* Types.                                                                    *)

\* The control states and statuses by name, so that the steps below need not
\* expand the sets.
LEMMA Names ==
  /\ "idle" \in States /\ "lookup" \in States /\ "lock" \in States
  /\ "answer" \in States /\ "recheck" \in States /\ "check" \in States
  /\ "backup" \in States /\ "displace" \in States /\ "install" \in States
  /\ "finish" \in States /\ "validate" \in States /\ "create" \in States
  /\ "record" \in States /\ "release" \in States
  /\ "none" \in Statuses /\ "undoing" \in Statuses /\ "committed" \in Statuses
  /\ "conflict" \in Statuses /\ "failed" \in Statuses /\ "error" \in Statuses
  BY DEF States, Locked, Statuses

LEMMA TypedInit == Init => Typed
  BY ExportAssumption, Names
  DEF Init, Typed, TypeOK, ControlOK, Undoing, Idle, Call, Preview, Content, Files

CallTyped == call \in [Calls -> Call] /\ ControlOK

Others == <<target, staged, backup, record, lock, previews, reader, edited,
            racing, halved, again>>

\* A commit that goes on with a file its next state is about stays typed.
LEMMA TypedGo ==
  ASSUME CallTyped, NEW c \in Calls, call[c].pc # "idle",
         NEW pc \in States \ {"idle"}, NEW at \in 0..Workbooks + 1,
         Undoing(c) => pc \in {"displace", "install", "finish"},
         pc \in {"check", "backup", "displace", "install", "finish"}
            => at \in Files,
         pc \in {"validate", "create", "record"} => at = Workbooks + 1,
         call' = Go(c, pc, at)
  PROVE  CallTyped'
<1>1. call' \in [Calls -> Call]
  BY DEF Go, Call, CallTyped
<1>2. ControlOK'
  BY DEF Go, Call, CallTyped, ControlOK, Undoing
<1> QED
  BY <1>1, <1>2 DEF CallTyped

LEMMA IdleTyped ==
  Idle \in Call /\ Idle.status = "none" /\ Idle.pc = "idle" /\ Idle.lost = {}
  BY ExportAssumption, Names DEF Idle, Call, Content

LEMMA OutcomeTyped ==
  ASSUME NEW c \in Calls, call[c].of \in Preview,
         NEW pc \in States, NEW status \in Statuses
  PROVE  /\ Outcome(c, pc, status) \in Call
         /\ Outcome(c, pc, status).pc = pc
         /\ Outcome(c, pc, status).of = call[c].of
         /\ Outcome(c, pc, status).status = status
         /\ Outcome(c, pc, status).lost = {}
  BY IdleTyped DEF Outcome, Call, Idle

\* A request that has one of these records instead stays typed.
LEMMA TypedBecomes ==
  ASSUME CallTyped, NEW c \in Calls, NEW new \in Call, call' = [call EXCEPT ![c] = new],
         new.pc # "idle" => new.of \in Preview, new.pc = "idle" => new.lost = {},
         new.pc \in {"check", "backup", "displace", "install", "finish"}
            => new.at \in Files,
         new.pc \in {"validate", "create", "record"} => new.at = Workbooks + 1,
         new.status = "undoing" => new.pc \in {"displace", "install", "finish"}
  PROVE  CallTyped'
<1>1. call' \in [Calls -> Call]
  BY DEF CallTyped
<1>2. /\ call'[c] = new
      /\ \A d \in Calls \ {c} : call'[d] = call[d]
  BY DEF CallTyped
<1>3. ControlOK'
  BY <1>2 DEF CallTyped, ControlOK, Undoing
<1> QED
  BY <1>1, <1>3 DEF CallTyped

\* So does a commit that ends.
LEMMA TypedEnd ==
  ASSUME CallTyped, NEW c \in Calls, call[c].pc # "idle",
         NEW pc \in {"answer", "release"}, NEW status \in Statuses,
         status # "undoing", call' = End(c, pc, status)
  PROVE  CallTyped'
<1> DEFINE new == Outcome(c, pc, status)
<1>1. pc \in States /\ call[c].of \in Preview
  BY Names DEF CallTyped, ControlOK
<1>2. new \in Call /\ new.pc = pc /\ new.of = call[c].of /\ new.status = status
  BY <1>1, OutcomeTyped
<1>3. call' = [call EXCEPT ![c] = new]
  BY DEF End
<1> HIDE DEF new
<1> QED
  BY <1>1, <1>2, <1>3, TypedBecomes

LEMMA TypedThrows ==
  ASSUME CallTyped, NEW c \in Calls, call' = Throws(c)
  PROVE  CallTyped'
  BY IdleTyped, TypedBecomes DEF Throws

\* What an exception makes of a commit that was working on a workbook or had
\* passed them all.
LEMMA TypedLoses ==
  ASSUME CallTyped, NEW c \in Calls, NEW lost \in SUBSET Files,
         call[c].pc \in {"displace", "install", "finish", "validate",
                         "create", "record"},
         call' = Loses(c, lost)
  PROVE  CallTyped'
<1> USE ExportAssumption, Names
<1>1. /\ call[c] \in Call /\ call[c].at \in 1..Workbooks + 1
      /\ call[c].of \in Preview /\ call[c].lost \cup lost \in SUBSET Files
  <2>1. call[c] \in Call /\ call[c].lost \in SUBSET Files
    BY DEF CallTyped, Call
  <2>2. call[c].at \in 1..Workbooks + 1 /\ call[c].of \in Preview
    BY DEF CallTyped, ControlOK, Files
  <2> QED
    BY <2>1, <2>2
<1>2. CASE NextUndo(c) < 1
  <2> DEFINE end == Outcome(c, "release", "failed")
             new == [end EXCEPT !.lost = call[c].lost \cup lost]
  <2>1. end \in Call /\ end.pc = "release" /\ end.of = call[c].of /\ end.status = "failed"
    BY <1>1, OutcomeTyped
  <2>2. call' = [call EXCEPT ![c] = new]
    BY <1>2 DEF Loses
  <2> HIDE DEF end
  <2>3. new \in Call /\ new.pc = "release" /\ new.of = call[c].of /\ new.status = "failed"
    BY <1>1, <2>1 DEF Call
  <2> HIDE DEF new
  <2> QED
    BY <1>1, <2>2, <2>3, TypedBecomes
<1>3. CASE ~(NextUndo(c) < 1)
  <2>1. NextUndo(c) \in Files /\ NextUndo(c) \in 0..Workbooks + 1
    BY <1>1, <1>3 DEF NextUndo, Files
  <2> DEFINE undo == Outcome(c, "displace", "undoing")
             new == [undo EXCEPT !.at = NextUndo(c), !.lost = call[c].lost \cup lost]
  <2>2. undo \in Call /\ undo.pc = "displace" /\ undo.of = call[c].of
        /\ undo.status = "undoing"
    BY <1>1, OutcomeTyped
  <2>3. call' = [call EXCEPT ![c] = new]
    BY <1>3 DEF Loses
  <2> HIDE DEF undo
  <2>4. /\ new \in Call /\ new.pc = "displace" /\ new.of = call[c].of
        /\ new.status = "undoing" /\ new.at = NextUndo(c)
    BY <1>1, <2>1, <2>2 DEF Call
  <2> HIDE DEF new
  <2> QED
    BY <1>1, <2>1, <2>3, <2>4, TypedBecomes
<1> QED
  BY <1>2, <1>3

LEMMA TypedRollsBack ==
  ASSUME CallTyped, NEW c \in Calls,
         call[c].pc \in {"displace", "install", "finish", "validate",
                         "create", "record"},
         Undoing(c) => call[c].at \in Files,
         call' = RollsBack(c)
  PROVE  CallTyped'
  BY TypedLoses DEF RollsBack, This

\* A step that changes requests only.
LEMMA TypedByCall ==
  ASSUME Typed, CallTyped', UNCHANGED Others
  PROVE  Typed'
  BY DEF Typed, TypeOK, CallTyped, Others

\* Looking up, locking, comparing and backing up keep the types.
LEMMA TypedPreparing ==
  ASSUME Typed, NEW c \in Calls,
         Lookup(c) \/ Denied(c) \/ TakeLock(c) \/ LockTaken(c) \/ LockLeaks(c)
         \/ Recheck(c) \/ CheckBaseline(c) \/ BackUp(c) \/ GivesUp(c)
  PROVE  Typed'
<1> USE ExportAssumption, Names
<1>0. /\ CallTyped
      /\ 0 \in 0..Workbooks + 1 /\ 1 \in 0..Workbooks + 1 /\ 1 \in Files
  BY DEF Typed, TypeOK, CallTyped, Files
<1>1. CASE Lookup(c)
  <2>1. UNCHANGED Others
    BY <1>1 DEF Lookup, Others, disk, past, outsiders
  <2>2. CallTyped'
    BY <1>0, <1>1, TypedGo, TypedEnd, TypedThrows DEF Lookup, CallTyped, ControlOK
  <2> QED
    BY <2>1, <2>2, TypedByCall
<1>2. CASE Denied(c)
  <2>1. UNCHANGED Others
    BY <1>2 DEF Denied, Others, disk, past, outsiders
  <2>2. CallTyped'
    BY <1>0, <1>2, TypedEnd, TypedThrows DEF Denied
  <2> QED
    BY <2>1, <2>2, TypedByCall
<1>3. CASE TakeLock(c)
  <2>1. CallTyped'
    BY <1>0, <1>3, TypedGo DEF TakeLock, CallTyped, ControlOK
  <2> QED
    BY <1>3, <2>1 DEF TakeLock, Typed, TypeOK, CallTyped, past, outsiders
<1>4. CASE LockTaken(c)
  <2>1. UNCHANGED Others
    BY <1>4 DEF LockTaken, Others, disk, past, outsiders
  <2>2. CallTyped'
    BY <1>0, <1>4, TypedEnd, TypedThrows DEF LockTaken
  <2> QED
    BY <2>1, <2>2, TypedByCall
<1>5. CASE LockLeaks(c)
  <2>1. CallTyped'
    BY <1>0, <1>5, TypedEnd, TypedThrows DEF LockLeaks
  <2> QED
    BY <1>5, <2>1 DEF LockLeaks, Typed, TypeOK, CallTyped, past, outsiders
<1>6. CASE Recheck(c)
  <2>1. UNCHANGED Others
    BY <1>6 DEF Recheck, Others, disk, past, outsiders
  <2>2. CallTyped'
    BY <1>0, <1>6, TypedGo, TypedEnd, TypedThrows DEF Recheck, CallTyped, ControlOK
  <2> QED
    BY <2>1, <2>2, TypedByCall
<1>7. CASE CheckBaseline(c)
  <2>1. UNCHANGED Others
    BY <1>7 DEF CheckBaseline, Others, disk, past, outsiders
  <2> DEFINE conflict == call[c].conflict \/ ~Unchanged(c)
             last == call[c].at = Workbooks
  <2>2. CASE last /\ conflict
    BY <1>0, <1>7, <2>1, <2>2, TypedEnd, TypedThrows, TypedByCall DEF CheckBaseline
  <2>3. CASE ~(last /\ conflict)
    <3>1. /\ call[c].pc = "check" /\ call[c].at \in Files
          /\ conflict \in BOOLEAN
          /\ call' = [call EXCEPT
                         ![c].pc = IF last THEN "backup" ELSE "check",
                         ![c].at = IF last THEN 1 ELSE @ + 1,
                         ![c].conflict = conflict]
      BY <1>0, <1>7, <2>3 DEF CheckBaseline, CallTyped, ControlOK, Call
    <3> DEFINE pc == IF last THEN "backup" ELSE "check"
               at == IF last THEN 1 ELSE call[c].at + 1
               r == [call[c] EXCEPT !.pc = pc, !.at = at,
                                    !.conflict = conflict]
    <3>2. /\ call' = [call EXCEPT ![c] = r] /\ call[c] \in Call
          /\ pc \in {"check", "backup"} /\ pc \in States
          /\ at \in Files /\ at \in 0..Workbooks + 1
      <4>1. call' = [call EXCEPT ![c] = r]
        BY <1>0, <3>1 DEF CallTyped
      <4>2. pc \in {"check", "backup"} /\ pc \in States
        OBVIOUS
      <4>3. at \in Files /\ at \in 0..Workbooks + 1
        BY <3>1 DEF Files
      <4> QED
        BY <1>0, <4>1, <4>2, <4>3 DEF CallTyped
    <3> HIDE DEF pc, at, conflict, last
    <3>3. /\ r \in Call /\ r.pc = pc /\ r.at = at
          /\ r.of = call[c].of /\ r.status = call[c].status
      BY <3>1, <3>2 DEF Call
    <3> HIDE DEF r
    <3>4. ControlOK'
      BY <1>0, <3>1, <3>2, <3>3 DEF CallTyped, ControlOK, Undoing
    <3> QED
      BY <1>0, <2>1, <3>2, <3>3, <3>4, TypedByCall DEF CallTyped
  <2> QED
    BY <2>2, <2>3
<1>8. CASE BackUp(c)
  <2>1. /\ call[c].at \in Files /\ call[c].of \in Preview /\ ~Undoing(c)
        /\ call[c].pc = "backup"
    BY <1>0, <1>8 DEF BackUp, CallTyped, ControlOK
  <2>2. CallTyped'
    <3>1. call[c].at + 1 \in 0..Workbooks + 1
          /\ (call[c].at # Workbooks => call[c].at + 1 \in Files)
      BY <2>1 DEF Files
    <3> QED
      BY <1>0, <1>8, <2>1, <3>1, TypedGo DEF BackUp
  <2>3. backup' \in [Packages -> [Files -> Content \cup {Missing}]]
    BY <1>8, <2>1 DEF BackUp, Typed, TypeOK, Key, Preview
  <2>4. halved' = halved /\ again' \subseteq Packages
    BY <1>8 DEF BackUp, Typed, TypeOK
  <2> QED
    BY <1>8, <2>2, <2>3, <2>4 DEF BackUp, Typed, TypeOK, CallTyped, past, outsiders
<1>9. CASE GivesUp(c)
  <2>1. UNCHANGED Others
    BY <1>9 DEF GivesUp, Others, disk, past, outsiders
  <2>2. CallTyped'
    BY <1>0, <1>9, TypedEnd, TypedThrows DEF GivesUp
  <2> QED
    BY <2>1, <2>2, TypedByCall
<1> QED
  BY <1>1, <1>2, <1>3, <1>4, <1>5, <1>6, <1>7, <1>8, <1>9

\* Replacing workbooks and putting backups back keep the types.
LEMMA TypedReplacing ==
  ASSUME Typed, NEW c \in Calls,
         Displace(c) \/ DisplaceFails(c) \/ Install(c) \/ InstallFails(c)
         \/ CleanupFails(c) \/ Finish(c) \/ RereadFails(c)
  PROVE  Typed'
<1> USE ExportAssumption, Names
<1>0. /\ CallTyped
      /\ call[c].at \in Files /\ call[c].of \in Preview /\ call[c] \in Call
  BY DEF Typed, TypeOK, CallTyped, ControlOK, Displace, DisplaceFails,
     Install, InstallFails, CleanupFails, Finish, RereadFails
<1>1. CASE Displace(c)
  <2> DEFINE r == [call[c] EXCEPT !.pc = "install",
                       !.old = target[call[c].at], !.pending = Source(c)]
  <2>1. Key(c) \in Packages
    BY <1>0 DEF Key, Preview
  <2>2. Source(c) \in Content /\ target[call[c].at] \in Content
    BY <1>0, <1>1, <2>1 DEF Displace, Verified, Source, Typed, TypeOK
  <2>3. target' \in [Files -> Content \cup {Missing}]
    BY <1>0, <1>1 DEF Displace, Typed, TypeOK
  <2>4. call' = [call EXCEPT ![c] = r]
    BY <1>0, <1>1 DEF Displace, CallTyped
  <2>5. /\ r \in Call /\ r.pc = "install" /\ r.at = call[c].at
        /\ r.of = call[c].of /\ r.status = call[c].status
    BY <1>0, <2>2 DEF Call
  <2> HIDE DEF r
  <2>6. CallTyped'
    BY <1>0, <2>4, <2>5 DEF CallTyped, ControlOK, Undoing
  <2> QED
    BY <1>1, <2>3, <2>6 DEF Displace, Typed, TypeOK, CallTyped, past, outsiders
<1>2. CASE DisplaceFails(c)
  <2>1. UNCHANGED Others
    BY <1>2 DEF DisplaceFails, Others, disk, past, outsiders
  <2> QED
    BY <1>0, <1>2, <2>1, TypedRollsBack, TypedByCall DEF DisplaceFails
<1>3. CASE Install(c)
  <2>1. target' \in [Files -> Content \cup {Missing}]
    BY <1>0, <1>3 DEF Install, Typed, TypeOK, Call
  <2>2. CallTyped'
    BY <1>0, <1>3, TypedGo DEF Install, Files
  <2> QED
    BY <1>3, <2>1, <2>2 DEF Install, Typed, TypeOK, CallTyped, past, outsiders
<1>4. CASE \E instead \in {Missing, target[call[c].at]} :
              call[c].pc \in {"install", "finish"} /\ PutsBack(c, instead)
  <2>1. target' \in [Files -> Content \cup {Missing}]
    BY <1>0, <1>4 DEF PutsBack, Typed, TypeOK, Call
  <2>2. CallTyped'
    BY <1>0, <1>4, TypedRollsBack, TypedLoses DEF PutsBack, This
  <2> QED
    BY <1>4, <2>1, <2>2 DEF PutsBack, Typed, TypeOK, CallTyped, past, outsiders
<1>5. CASE Finish(c)
  <2>1. UNCHANGED Others
    BY <1>5 DEF Finish, Others, disk, past, outsiders
  <2>2. CASE Undoing(c)
    BY <1>0, <1>5, <2>1, <2>2, TypedLoses, TypedByCall DEF Finish
  <2>3. CASE ~Undoing(c)
    <3>1. /\ call[c].at + 1 \in 0..Workbooks + 1
          /\ call[c].at # Workbooks => call[c].at + 1 \in Files
      BY <1>0 DEF Files
    <3> DEFINE pc == IF call[c].at = Workbooks THEN "validate" ELSE "displace"
               passed == Outcome(c, pc, "none")
               new == [passed EXCEPT !.at = call[c].at + 1]
    <3>2. /\ pc \in States
          /\ pc = "validate" => call[c].at + 1 = Workbooks + 1
          /\ pc = "displace" => call[c].at + 1 \in Files
          /\ pc \in {"validate", "displace"}
      BY <3>1
    <3>3. call' = [call EXCEPT ![c] = new]
      BY <1>5, <2>3 DEF Finish
    <3> HIDE DEF pc
    <3>4. /\ passed \in Call /\ passed.pc = pc /\ passed.of = call[c].of
          /\ passed.status = "none"
      BY <1>0, <3>2, OutcomeTyped
    <3> HIDE DEF passed
    <3>5. /\ new \in Call /\ new.pc = pc /\ new.of = call[c].of
          /\ new.status = "none" /\ new.at = call[c].at + 1
      BY <3>1, <3>4 DEF Call
    <3> HIDE DEF new
    <3> QED
      BY <1>0, <2>1, <3>2, <3>3, <3>5, TypedBecomes, TypedByCall
  <2> QED
    BY <2>2, <2>3
<1>6. CASE RereadFails(c)
  <2>1. UNCHANGED Others
    BY <1>6 DEF RereadFails, Others, disk, past, outsiders
  <2> QED
    BY <1>0, <1>6, <2>1, TypedLoses, TypedByCall DEF RereadFails, This
<1> QED
  BY <1>1, <1>2, <1>3, <1>4, <1>5, <1>6 DEF InstallFails, CleanupFails

\* Validating, recording, unlocking and answering keep the types.
LEMMA TypedRecording ==
  ASSUME Typed, NEW c \in Calls,
         Validate(c) \/ CreateRecord(c) \/ WriteRecord(c) \/ RecordFails(c)
         \/ Release(c) \/ ReleaseFails(c) \/ Answered(c)
  PROVE  Typed'
<1> USE ExportAssumption, Names
<1>0. CallTyped
  BY DEF Typed, TypeOK, CallTyped
<1>1. CASE Validate(c)
  <2>1. UNCHANGED Others
    BY <1>1 DEF Validate, Others, disk, past, outsiders
  <2>2. CASE call' = Go(c, "create", call[c].at)
    <3>1. call[c].at \in 0..Workbooks + 1 /\ call[c].at = Workbooks + 1
          /\ ~Undoing(c)
      BY <1>0, <1>1 DEF Validate, CallTyped, ControlOK
    <3> QED
      BY <1>0, <1>1, <2>1, <2>2, <3>1, TypedGo, TypedByCall DEF Validate
  <2>3. CASE call' = RollsBack(c)
    BY <1>0, <1>1, <2>1, <2>3, TypedRollsBack, TypedByCall
    DEF Validate, CallTyped, ControlOK
  <2> QED
    BY <1>1, <2>2, <2>3 DEF Validate
<1>2. CASE CreateRecord(c)
  <2>1. call[c].at \in 0..Workbooks + 1 /\ call[c].at = Workbooks + 1
        /\ ~Undoing(c) /\ call[c].of \in Preview
    BY <1>0, <1>2 DEF CreateRecord, CallTyped, ControlOK
  <2>2. CallTyped'
    BY <1>0, <1>2, <2>1, TypedGo DEF CreateRecord
  <2> QED
    BY <1>2, <2>1, <2>2
    DEF CreateRecord, Typed, TypeOK, CallTyped, past, outsiders
<1>3. CASE WriteRecord(c)
  <2>1. CallTyped' /\ call[c].of \in Preview
    BY <1>0, <1>3, TypedEnd, TypedThrows DEF WriteRecord, CallTyped, ControlOK
  <2> QED
    BY <1>3, <2>1 DEF WriteRecord, Typed, TypeOK, CallTyped, past, outsiders
<1>4. CASE RecordFails(c)
  <2>1. UNCHANGED Others
    BY <1>4 DEF RecordFails, Others, disk, past, outsiders
  <2> QED
    BY <1>0, <1>4, <2>1, TypedRollsBack, TypedByCall
    DEF RecordFails, CallTyped, ControlOK
<1>5. CASE Release(c) \/ ReleaseFails(c)
  <2>1. /\ call[c].pc = "release" /\ call[c].status \in Statuses
        /\ call[c].status # "undoing" /\ Key(c) \in Packages
    BY <1>0, <1>5
    DEF Release, ReleaseFails, CallTyped, ControlOK, Undoing, Call, Key, Preview
  <2>2. CallTyped'
    BY <1>0, <1>5, <2>1, TypedEnd, TypedThrows DEF Release, ReleaseFails
  <2>3. halved' \subseteq Packages /\ again' \subseteq Packages
    BY <1>5, <2>1 DEF Release, ReleaseFails, Ends, Typed, TypeOK
  <2> QED
    BY <1>5, <2>2, <2>3
    DEF Release, ReleaseFails, Typed, TypeOK, CallTyped, past, outsiders
<1>6. CASE Answered(c)
  <2>1. UNCHANGED Others
    BY <1>6 DEF Answered, Others, disk, past, outsiders
  <2>2. Idle \in Call
    BY IdleTyped
  <2>3. CallTyped'
    BY <1>0, <1>6, <2>2 DEF Answered, CallTyped, ControlOK, Undoing, Idle
  <2> QED
    BY <2>1, <2>3, TypedByCall
<1> QED
  BY <1>1, <1>2, <1>3, <1>4, <1>5, <1>6

\* Previews, outsiders, the administrator and crashes keep the types.
LEMMA TypedAround ==
  ASSUME Typed,
         \/ \E q \in Packages : StartPreview(q)
         \/ ReadWorkbook \/ PreviewBlocked \/ StagePreview
         \/ \E v \in previews :
               ForgetPreview(v) \/ \E c \in Calls : StartCommit(c, v)
         \/ \E e \in Edits, f \in Files : OutsiderEdits(e, f)
         \/ AdminUnlocks \/ Crash
  PROVE  Typed'
<1> USE ExportAssumption
<1>1. CASE \E q \in Packages : StartPreview(q)
  <2>1. PICK q \in Packages : StartPreview(q)
    BY <1>1
  <2>2. /\ reader' = [package |-> q, base |-> << >>] /\ 0 \in 0..Workbooks
        /\ << >> \in [1..0 -> Content]
    BY <2>1 DEF StartPreview
  <2>3. reader' \in [package: Packages, base: [1..0 -> Content]]
    BY <2>2
  <2> QED
    BY <2>1, <2>2, <2>3
    DEF StartPreview, Typed, TypeOK, ControlOK, Undoing, disk, past, outsiders
<1>2. CASE ReadWorkbook
  <2>1. PICK n \in 0..Workbooks :
              reader \in [package: Packages, base: [1..n -> Content]]
    BY <1>2 DEF ReadWorkbook, Typed, TypeOK
  <2>2. NextToRead = n + 1
    BY <2>1, FS_Interval DEF NextToRead
  <2>3. n + 1 \in Files /\ n + 1 \in 0..Workbooks
    BY <1>2, <2>1, <2>2 DEF ReadWorkbook, Files
  <2>4. target[n + 1] \in Content
    BY <1>2, <2>2, <2>3 DEF ReadWorkbook, Typed, TypeOK
  <2> DEFINE base == [f \in 1..n + 1 |->
                         IF f = n + 1 THEN target[f] ELSE reader.base[f]]
  <2>5. base \in [1..n + 1 -> Content]
    BY <2>1, <2>4
  <2>6. reader' = [package |-> reader.package, base |-> base]
    BY <1>2, <2>2 DEF ReadWorkbook
  <2> HIDE DEF base
  <2>7. reader' \in [package: Packages, base: [1..n + 1 -> Content]]
    BY <2>1, <2>5, <2>6
  <2> QED
    BY <1>2, <2>3, <2>7
    DEF ReadWorkbook, Typed, TypeOK, ControlOK, Undoing, disk, past, outsiders
<1>3. CASE PreviewBlocked
  BY <1>3 DEF PreviewBlocked, Typed, TypeOK, ControlOK, Undoing, disk, past, outsiders
<1>4. CASE StagePreview
  <2>1. reader \in Preview
    BY <1>4 DEF StagePreview, Typed, TypeOK, Preview
  <2>2. \A f \in Files : Merged(reader, f) \in Content
    BY <2>1 DEF Merged, Preview, Content
  <2>3. staged' \in [Packages -> [Files -> Content \cup {Missing}]]
    BY <1>4, <2>1, <2>2 DEF StagePreview, Typed, TypeOK, Preview
  <2> QED
    BY <1>4, <2>1, <2>3
    DEF StagePreview, Typed, TypeOK, ControlOK, Undoing, past, outsiders
<1>5. CASE \E v \in previews : ForgetPreview(v)
  BY <1>5 DEF ForgetPreview, Typed, TypeOK, ControlOK, Undoing, disk, past, outsiders
<1>6. CASE \E v \in previews, c \in Calls : StartCommit(c, v)
  <2>1. PICK v \in previews, c \in Calls : StartCommit(c, v)
    BY <1>6
  <2> DEFINE r == [Idle EXCEPT !.pc = "lookup", !.of = v]
  <2>2. v \in Preview /\ UNCHANGED Others /\ call' = [call EXCEPT ![c] = r]
    BY <2>1 DEF StartCommit, Typed, TypeOK, Others, disk, past, outsiders
  <2>3. r \in Call /\ r.pc = "lookup" /\ r.of = v /\ r.status = "none"
    <3>1. Idle \in Call /\ Idle.status = "none"
      BY IdleTyped
    <3> QED
      BY <2>2, <3>1, Names DEF Call
  <2> HIDE DEF r
  <2>4. CallTyped'
    BY <2>2, <2>3 DEF Typed, TypeOK, CallTyped, ControlOK, Undoing
  <2> QED
    BY <2>2, <2>4, TypedByCall
<1>7. CASE \E e \in Edits, f \in Files : OutsiderEdits(e, f)
  <2>1. PICK e \in Edits, f \in Files : OutsiderEdits(e, f)
    BY <1>7
  <2>2. target[f] \cup {e} \in Content
    BY <2>1 DEF OutsiderEdits, Typed, TypeOK, Content
  <2>3. /\ target' \in [Files -> Content \cup {Missing}]
        /\ edited' \in [Edits -> Files \cup {0}]
        /\ racing' \subseteq Edits
    BY <2>1, <2>2 DEF OutsiderEdits, Typed, TypeOK
  <2> QED
    BY <2>1, <2>3 DEF OutsiderEdits, Typed, TypeOK, ControlOK, Undoing
<1>8. CASE AdminUnlocks
  BY <1>8 DEF AdminUnlocks, Typed, TypeOK, ControlOK, Undoing, past, outsiders
<1>9. CASE Crash
  <2>1. Idle \in Call
    BY IdleTyped
  <2>2. CallTyped'
    BY <1>9, <2>1 DEF Crash, CallTyped, ControlOK, Undoing, Idle
  <2>3. halved' \subseteq Packages
    <3>1. ASSUME NEW c \in Calls, Halfway(c) PROVE Key(c) \in Packages
      <4>1. call[c].pc # "idle"
        BY <3>1 DEF Halfway, Typed, ControlOK, Undoing
      <4> QED
        BY <4>1 DEF Typed, ControlOK, Key, Preview
    <3> QED
      BY <1>9, <3>1 DEF Crash, Ends, Typed, TypeOK
  <2> QED
    BY <1>9, <2>2, <2>3 DEF Crash, Typed, TypeOK, CallTyped, past, outsiders
<1> QED
  BY <1>1, <1>2, <1>3, <1>4, <1>5, <1>6, <1>7, <1>8, <1>9

\* Every step keeps the types.
LEMMA TypedStep == Typed /\ [Next]_vars => Typed'
<1> SUFFICES ASSUME Typed, [Next]_vars PROVE Typed'
  OBVIOUS
<1>1. CASE UNCHANGED vars
  BY <1>1 DEF vars, Typed, TypeOK, ControlOK, Undoing
<1>2. CASE \E c \in Calls : CommitStep(c) \/ Denied(c)
  BY <1>2, TypedPreparing, TypedReplacing, TypedRecording DEF CommitStep
<1> QED
  BY <1>1, <1>2, TypedAround DEF Next

\* Every reachable state of an export is well-typed: a workbook read back, a
\* backup or a record is never something the code did not write there.
THEOREM TypeCorrect == Spec => []TypeOK
<1>1. Init => Typed
  BY TypedInit
<1>2. Typed /\ [Next]_vars => Typed'
  BY TypedStep
<1>3. Typed => TypeOK
  BY DEF Typed
<1> QED
  BY <1>1, <1>2, <1>3, PTL DEF Spec

-----------------------------------------------------------------------------
(* Order.                                                                    *)

\* What the helpers that move a commit on do to it.
LEMMA GoFields ==
  ASSUME call \in [Calls -> Call], NEW c \in Calls, NEW pc, NEW at,
         call' = Go(c, pc, at)
  PROVE  /\ call'[c].pc = pc /\ call'[c].at = at
         /\ call'[c].of = call[c].of /\ call'[c].status = call[c].status
         /\ call'[c].pending = call[c].pending /\ call'[c].old = call[c].old
         /\ call'[c].conflict = call[c].conflict /\ call'[c].lost = call[c].lost
         /\ \A d \in Calls \ {c} : call'[d] = call[d]
  BY DEF Go, Call

LEMMA EndFields ==
  ASSUME call \in [Calls -> Call], NEW c \in Calls, NEW pc, NEW status,
         call' = End(c, pc, status)
  PROVE  /\ call'[c].pc = pc /\ call'[c].status = status
         /\ call'[c].of = call[c].of /\ call'[c].lost = {}
         /\ \A d \in Calls \ {c} : call'[d] = call[d]
  BY DEF End, Outcome, Idle

LEMMA ThrowsFields ==
  ASSUME call \in [Calls -> Call], NEW c \in Calls, call' = Throws(c)
  PROVE  /\ call'[c] = Idle /\ call'[c].pc = "idle" /\ call'[c].status = "none"
         /\ \A d \in Calls \ {c} : call'[d] = call[d]
  BY DEF Throws, Idle

LEMMA LosesFields ==
  ASSUME call \in [Calls -> Call], NEW c \in Calls, NEW lost, call' = Loses(c, lost)
  PROVE  /\ call'[c].of = call[c].of /\ call'[c].lost = call[c].lost \cup lost
         /\ \/ /\ call'[c].pc = "release" /\ call'[c].status = "failed"
               /\ call[c].at - 1 < 1
            \/ /\ call'[c].pc = "displace" /\ call'[c].status = "undoing"
               /\ call'[c].at = call[c].at - 1 /\ ~(call[c].at - 1 < 1)
         /\ \A d \in Calls \ {c} : call'[d] = call[d]
<1>1. CASE NextUndo(c) < 1
  BY <1>1 DEF Loses, NextUndo, Outcome, Idle
<1>2. CASE ~(NextUndo(c) < 1)
  BY <1>2 DEF Loses, NextUndo, Outcome, Idle
<1> QED
  BY <1>1, <1>2

\* A workbook that is passed is one further on, and nothing has failed.
LEMMA PassesFields ==
  ASSUME call \in [Calls -> Call], NEW c \in Calls, Finish(c), ~Undoing(c)
  PROVE  /\ call'[c].pc = IF call[c].at = Workbooks THEN "validate" ELSE "displace"
         /\ call'[c].at = call[c].at + 1 /\ call'[c].status = "none"
         /\ call'[c].of = call[c].of /\ call'[c].lost = {}
         /\ \A d \in Calls \ {c} : call'[d] = call[d]
  BY DEF Finish, Outcome, Idle

\* A step of a commit leaves the other commits alone.
LEMMA StepFrame ==
  ASSUME call \in [Calls -> Call], NEW c \in Calls,
         CommitStep(c) \/ Denied(c), NEW d \in Calls \ {c}
  PROVE  call'[d] = call[d]
<1>1. CASE \/ Lookup(c) \/ Denied(c) \/ TakeLock(c) \/ LockTaken(c)
           \/ LockLeaks(c) \/ Recheck(c) \/ GivesUp(c)
  BY <1>1 DEF Lookup, Denied, TakeLock, LockTaken, LockLeaks, Recheck,
              GivesUp, Go, End, Throws
<1>2. CASE CheckBaseline(c) \/ BackUp(c) \/ Displace(c) \/ Install(c)
  BY <1>2 DEF CheckBaseline, BackUp, Displace, Install, Go, End
<1>3. CASE \/ DisplaceFails(c) \/ InstallFails(c) \/ CleanupFails(c)
           \/ Finish(c) \/ RereadFails(c) \/ Validate(c) \/ RecordFails(c)
  BY <1>3, LosesFields, PassesFields
  DEF RollsBack, DisplaceFails, InstallFails, CleanupFails, PutsBack, Finish,
      RereadFails, Validate, RecordFails, Go
<1>4. CASE \/ CreateRecord(c) \/ WriteRecord(c) \/ Release(c)
           \/ ReleaseFails(c) \/ Answered(c)
  BY <1>4 DEF CreateRecord, WriteRecord, Release, ReleaseFails, Answered, Go,
              End, Throws
<1> QED
  BY <1>1, <1>2, <1>3, <1>4 DEF CommitStep

\* A commit that does not hold the lock does not touch the disk, except that
\* it may take a lock that is free.
LEMMA Unlocked ==
  ASSUME NEW c \in Calls, CommitStep(c) \/ Denied(c), call[c].pc \notin Locked
  PROVE  /\ UNCHANGED <<target, staged, backup, record>>
         /\ lock' = lock \/ lock = None
<1>1. Lookup(c) \/ Denied(c) \/ TakeLock(c) \/ LockTaken(c) \/ LockLeaks(c)
      \/ Answered(c)
  BY DEF CommitStep, Locked, Recheck, CheckBaseline, BackUp, GivesUp,
         Displace, DisplaceFails, Install, InstallFails, CleanupFails,
         Finish, RereadFails, Validate, CreateRecord, WriteRecord,
         RecordFails, Release, ReleaseFails
<1> QED
  BY <1>1 DEF Lookup, Denied, TakeLock, LockTaken, LockLeaks, Answered, disk

\* Nor does it change what is remembered of the packages.
LEMMA UnlockedPast ==
  ASSUME NEW c \in Calls, CommitStep(c) \/ Denied(c), call[c].pc \notin Locked
  PROVE  UNCHANGED <<halved, again>>
<1>1. Lookup(c) \/ Denied(c) \/ TakeLock(c) \/ LockTaken(c) \/ LockLeaks(c)
      \/ Answered(c)
  BY DEF CommitStep, Locked, Recheck, CheckBaseline, BackUp, GivesUp,
         Displace, DisplaceFails, Install, InstallFails, CleanupFails,
         Finish, RereadFails, Validate, CreateRecord, WriteRecord,
         RecordFails, Release, ReleaseFails
<1> QED
  BY <1>1 DEF Lookup, Denied, TakeLock, LockTaken, LockLeaks, Answered, past

\* Only the creation and the writing of a record change it.
LEMMA RecordFrame ==
  ASSUME NEW c \in Calls, CommitStep(c) \/ Denied(c)
  PROVE  CreateRecord(c) \/ WriteRecord(c) \/ UNCHANGED record
<1>1. CASE \/ Lookup(c) \/ Denied(c) \/ TakeLock(c) \/ LockTaken(c)
           \/ LockLeaks(c) \/ Recheck(c) \/ GivesUp(c) \/ CheckBaseline(c)
           \/ BackUp(c)
  BY <1>1 DEF Lookup, Denied, TakeLock, LockTaken, LockLeaks, Recheck,
              GivesUp, CheckBaseline, BackUp, disk
<1>2. CASE \/ Displace(c) \/ DisplaceFails(c) \/ Install(c) \/ InstallFails(c)
           \/ CleanupFails(c) \/ Finish(c) \/ RereadFails(c) \/ Validate(c)
           \/ RecordFails(c) \/ Release(c) \/ ReleaseFails(c) \/ Answered(c)
  BY <1>2 DEF Displace, DisplaceFails, Install, InstallFails, CleanupFails,
              PutsBack, Finish, RereadFails, Validate, RecordFails, Release,
              ReleaseFails, Answered, disk
<1> QED
  BY <1>1, <1>2 DEF CommitStep

\* While one commit takes a step, the promises of the others stay kept.
LEMMA OrderedOther ==
  ASSUME Inv, NEW c \in Calls, CommitStep(c) \/ Denied(c),
         NEW d \in Calls \ {c}
  PROVE  Ordered(d)'
<1> USE ExportAssumption
<1>1. call'[d] = call[d]
  BY StepFrame DEF Inv, Typed, TypeOK
<1>2. CASE call[d].pc \in Locked
  <2>1. lock = d /\ call[c].pc \notin Locked
    BY <1>2 DEF Inv, Ordered, Holder
  <2>2. UNCHANGED <<target, backup, record, lock>>
    BY <2>1, Unlocked
  <2> QED
    BY <1>1, <2>2 DEF Inv, Ordered, Holder, NotYetRecorded, Recorded,
       InPlace, FromBackup, Undoing, Key, Delivered, Merged
<1>3. CASE call[d].pc \notin Locked
  <2>1. Holder(d)' /\ NotYetRecorded(d)' /\ InPlace(d)' /\ FromBackup(d)'
    BY <1>1, <1>3 DEF Locked, Holder, NotYetRecorded, Working, InPlace,
                      FromBackup
  <2>2. Recorded(d)'
    <3> SUFFICES ASSUME call[d].pc = "answer", call[d].status = "committed"
                 PROVE  record'[Key(d)] = call[d].of
      BY <1>1, <1>3 DEF Recorded, Key, Locked
    <3>1. /\ record[Key(d)] = call[d].of /\ call[d].of \in Preview
          /\ Key(d) \in Packages
      BY DEF Inv, Ordered, Recorded, Typed, ControlOK, Key, Preview
    <3>2. CASE CreateRecord(c)
      BY <3>1, <3>2 DEF CreateRecord, Inv, Typed, TypeOK
    <3>3. CASE WriteRecord(c)
      <4>1. record[Key(c)] \in {None, Torn}
        BY <3>3 DEF WriteRecord, Inv, Ordered, NotYetRecorded, Working
      <4> QED
        BY <3>1, <3>3, <4>1 DEF WriteRecord, Inv, Typed, TypeOK
    <3> QED
      BY <3>1, <3>2, <3>3, RecordFrame
  <2> QED
    BY <2>1, <2>2 DEF Ordered
<1> QED
  BY <1>2, <1>3

\* A commit that looks up, takes the lock, compares and backs up keeps its
\* promises.
LEMMA OrderedPreparing ==
  ASSUME Inv, NEW c \in Calls,
         Lookup(c) \/ Denied(c) \/ TakeLock(c) \/ LockTaken(c) \/ LockLeaks(c)
         \/ Recheck(c) \/ CheckBaseline(c) \/ BackUp(c) \/ GivesUp(c)
  PROVE  Ordered(c)'
<1> USE ExportAssumption DEF Ordered, Holder, NotYetRecorded, Recorded,
        Working, InPlace, FromBackup, Key
<1>0. /\ call \in [Calls -> Call] /\ Ordered(c)
      /\ call[c].of \in Preview /\ ~Undoing(c)
  BY DEF Inv, Typed, TypeOK, ControlOK, Lookup, Denied, TakeLock, LockTaken,
         LockLeaks, Recheck, CheckBaseline, BackUp, GivesUp
<1>1. CASE Lookup(c)
  <2>1. call[c].pc = "lookup" /\ UNCHANGED <<record, lock>>
    BY <1>1 DEF Lookup, disk
  <2>2. CASE call' = Go(c, "lock", 0)
    <3>1. /\ call'[c].pc = "lock" /\ call'[c].of = call[c].of
          /\ call'[c].status = call[c].status
      BY <1>0, <2>2, GoFields
    <3> QED
      BY <1>0, <2>1, <3>1 DEF Undoing, Locked
  <2>3. CASE call' = End(c, "answer", "committed") /\ record[Key(c)] = call[c].of
    <3>1. /\ call'[c].pc = "answer" /\ call'[c].of = call[c].of
          /\ call'[c].status = "committed"
      BY <1>0, <2>3, EndFields
    <3> QED
      BY <2>1, <2>3, <3>1 DEF Undoing, Locked
  <2>4. CASE call' = Throws(c)
    BY <1>0, <2>4, ThrowsFields DEF Undoing, Locked
  <2> QED
    BY <1>1, <2>2, <2>3, <2>4 DEF Lookup, Replayable
<1>2. CASE Denied(c)
  BY <1>0, <1>2, EndFields, ThrowsFields DEF Denied, Locked, Undoing, disk
<1>3. CASE TakeLock(c)
  BY <1>0, <1>3, GoFields DEF TakeLock
<1>4. CASE LockTaken(c)
  BY <1>0, <1>4, ThrowsFields DEF LockTaken, Locked, Undoing, disk
<1>5. CASE LockLeaks(c)
  BY <1>0, <1>5, ThrowsFields DEF LockLeaks, Locked, Undoing
<1>6. CASE Recheck(c)
  <2>1. /\ call[c].pc = "recheck" /\ lock = c
        /\ UNCHANGED <<record, lock>>
    BY <1>0, <1>6 DEF Recheck, Locked, disk
  <2>2. CASE call' = Go(c, "check", 1) /\ record[Key(c)] \in {None, Torn}
    <3>1. /\ call'[c].pc = "check" /\ call'[c].of = call[c].of
          /\ call'[c].status = call[c].status
      BY <1>0, <2>2, GoFields
    <3> QED
      BY <1>0, <2>1, <2>2, <3>1 DEF Undoing
  <2>3. CASE \E status \in {"committed", "error"} :
                /\ call' = End(c, "release", status)
                /\ status = "committed" => record[Key(c)] = call[c].of
    <3>1. PICK status \in {"committed", "error"} :
             /\ call' = End(c, "release", status)
             /\ status = "committed" => record[Key(c)] = call[c].of
      BY <2>3
    <3>2. /\ call'[c].pc = "release" /\ call'[c].of = call[c].of
          /\ call'[c].status = status
      BY <1>0, <3>1, EndFields
    <3> QED
      BY <2>1, <3>1, <3>2 DEF Undoing
  <2> QED
    BY <1>6, <2>2, <2>3 DEF Recheck, Replayable
<1>7. CASE CheckBaseline(c)
  <2>1. /\ call'[c].pc \in {"check", "backup", "release"}
        /\ call'[c].of = call[c].of
        /\ call'[c].status \in {call[c].status, "conflict"}
        /\ call'[c].pc = "release" => call'[c].status = "conflict"
    BY <1>0, <1>7, EndFields DEF CheckBaseline, Call
  <2> QED
    BY <1>0, <1>7, <2>1 DEF CheckBaseline, Locked, Undoing, disk
<1>8. CASE BackUp(c)
  <2>1. /\ call[c].pc = "backup" /\ lock = c /\ record[Key(c)] \in {None, Torn}
        /\ UNCHANGED <<record, lock>>
    BY <1>0, <1>8 DEF BackUp, Locked
  <2>2. \/ call' = Go(c, "displace", 1)
        \/ call' = Go(c, "backup", call[c].at + 1)
    BY <1>8 DEF BackUp
  <2>3. /\ call'[c].pc \in {"displace", "backup"}
        /\ call'[c].pc = "displace" => call'[c].at = 1
        /\ call'[c].of = call[c].of /\ call'[c].status = call[c].status
    BY <1>0, <2>2, GoFields
  <2>4. \A f \in Files : ~(f < 1)
    BY DEF Files
  <2> QED
    BY <1>0, <2>1, <2>3, <2>4 DEF Undoing
<1>9. CASE GivesUp(c)
  BY <1>0, <1>9, EndFields DEF GivesUp, Locked, Undoing, disk
<1> QED
  BY <1>1, <1>2, <1>3, <1>4, <1>5, <1>6, <1>7, <1>8, <1>9

\* So does a commit that an exception sends into the rollback or out of it.
LEMMA OrderedLoses ==
  ASSUME Inv, NEW c \in Calls, call[c].pc \in Working \ {"check", "backup"},
         NEW lost, call' = Loses(c, lost), UNCHANGED <<record, lock>>
  PROVE  Ordered(c)'
<1>1. call \in [Calls -> Call] /\ Ordered(c)
  BY DEF Inv, Typed, TypeOK
<1>2. call'[c].of = call[c].of
  BY <1>1, LosesFields
<1>3. \/ call'[c].pc = "release" /\ call'[c].status = "failed"
      \/ call'[c].pc = "displace" /\ call'[c].status = "undoing"
  BY <1>1, LosesFields
<1> QED
  BY <1>1, <1>2, <1>3
  DEF Ordered, Holder, NotYetRecorded, Recorded, Working, InPlace, FromBackup,
      Key, Undoing, Locked

\* So does a commit that replaces workbooks or puts backups back.
LEMMA OrderedReplacing ==
  ASSUME Inv, NEW c \in Calls,
         Displace(c) \/ DisplaceFails(c) \/ Install(c) \/ InstallFails(c)
         \/ CleanupFails(c) \/ Finish(c) \/ RereadFails(c)
  PROVE  Ordered(c)'
<1> USE ExportAssumption
<1>0. /\ call \in [Calls -> Call] /\ Ordered(c) /\ call[c] \in Call
      /\ call[c].of \in Preview /\ call[c].at \in Files
      /\ call[c].pc \in {"displace", "install", "finish"}
      /\ target \in [Files -> Content \cup {Missing}]
  BY DEF Inv, Typed, TypeOK, ControlOK, Displace, DisplaceFails, Install,
         InstallFails, CleanupFails, Finish, RereadFails
<1>1. CASE Displace(c)
  <2>1. /\ call'[c].pc = "install" /\ call'[c].pending = Source(c)
        /\ call'[c].of = call[c].of /\ call'[c].status = call[c].status
        /\ call'[c].at = call[c].at
    BY <1>0, <1>1 DEF Displace, Call
  <2>2. Holder(c)' /\ NotYetRecorded(c)' /\ Recorded(c)' /\ FromBackup(c)'
    BY <1>0, <1>1, <2>1
    DEF Displace, Ordered, Holder, NotYetRecorded, Recorded, FromBackup,
        Working, Locked, Key, Undoing, Source
  <2>3. InPlace(c)'
    <3> SUFFICES ASSUME ~Undoing(c)
                 PROVE  /\ Source(c) = Merged(call[c].of, call[c].at)
                        /\ \A f \in Files :
                              f < call[c].at => Delivered(call[c].of, f)'
      BY <2>1 DEF InPlace, Undoing, Delivered, Merged
    <3>1. Source(c) = Merged(call[c].of, call[c].at)
      BY <1>1 DEF Displace, Verified
    <3>2. ASSUME NEW f \in Files, f < call[c].at
          PROVE  Delivered(call[c].of, f)'
      BY <1>0, <1>1, <3>2, <2>1
      DEF Displace, Ordered, InPlace, Delivered, Merged, Files
    <3> QED
      BY <3>1, <3>2
  <2> QED
    BY <2>2, <2>3 DEF Ordered
<1>2. CASE DisplaceFails(c)
  BY <1>0, <1>2, OrderedLoses DEF DisplaceFails, RollsBack, Working, disk
<1>3. CASE Install(c)
  <2>1. /\ call'[c].pc = "finish" /\ call'[c].at = call[c].at
        /\ call'[c].of = call[c].of /\ call'[c].status = call[c].status
    BY <1>0, <1>3, GoFields DEF Install
  <2>2. Holder(c)' /\ NotYetRecorded(c)' /\ Recorded(c)' /\ FromBackup(c)'
    BY <1>0, <1>3, <2>1
    DEF Install, Ordered, Holder, NotYetRecorded, Recorded, FromBackup,
        Working, Locked, Key
  <2>3. InPlace(c)'
    <3> SUFFICES ASSUME ~Undoing(c), NEW f \in Files, f <= call[c].at
                 PROVE  Delivered(call[c].of, f)'
      BY <1>0, <2>1 DEF InPlace, Undoing, Delivered, Merged, Files
    <3>1. CASE f = call[c].at
      <4>1. /\ call[c].pending = Merged(call[c].of, f)
            /\ call[c].pending # Missing
        BY <1>0, <1>3, <3>1 DEF Install, Ordered, InPlace, Call
      <4>2. target'[f] = call[c].pending
        BY <1>0, <1>3, <3>1 DEF Install
      <4> QED
        BY <2>1, <4>1, <4>2 DEF Delivered, Merged
    <3>2. CASE f # call[c].at
      <4>1. target'[f] = target[f] /\ f < call[c].at
        BY <1>0, <1>3, <3>2 DEF Install, Files
      <4> QED
        BY <1>0, <1>3, <2>1, <4>1
        DEF Install, Ordered, InPlace, Delivered, Merged
    <3> QED
      BY <3>1, <3>2
  <2> QED
    BY <2>2, <2>3 DEF Ordered
<1>4. CASE InstallFails(c) \/ CleanupFails(c)
  BY <1>0, <1>4, OrderedLoses
  DEF RollsBack, InstallFails, CleanupFails, PutsBack, Working
<1>5. CASE Finish(c)
  <2>1. CASE Undoing(c)
    BY <1>0, <1>5, <2>1, OrderedLoses DEF Finish, Working, disk
  <2>2. CASE ~Undoing(c)
    <3>1. /\ call'[c].pc \in {"validate", "displace"}
          /\ call'[c].at = call[c].at + 1 /\ ~Undoing(c)'
          /\ call'[c].of = call[c].of /\ call'[c].status = "none"
      BY <1>0, <1>5, <2>2, PassesFields DEF Undoing
    <3>2. \A f \in Files : f < call[c].at + 1 => Delivered(call[c].of, f)
      BY <1>0, <1>5, <2>2 DEF Finish, Ordered, InPlace, Files
    <3> QED
      BY <1>0, <1>5, <3>1, <3>2
      DEF Finish, Ordered, Holder, NotYetRecorded, Recorded, InPlace,
          FromBackup, Working, Locked, Key, Delivered, Merged, disk
  <2> QED
    BY <2>1, <2>2
<1>6. CASE RereadFails(c)
  BY <1>0, <1>6, OrderedLoses DEF RereadFails, Working, disk
<1> QED
  BY <1>1, <1>2, <1>3, <1>4, <1>5, <1>6

\* So does a commit that validates, records, unlocks and answers.
LEMMA OrderedRecording ==
  ASSUME Inv, NEW c \in Calls,
         Validate(c) \/ CreateRecord(c) \/ WriteRecord(c) \/ RecordFails(c)
         \/ Release(c) \/ ReleaseFails(c) \/ Answered(c)
  PROVE  Ordered(c)'
<1> USE ExportAssumption
<1>0. /\ call \in [Calls -> Call] /\ Ordered(c)
      /\ call[c].of \in Preview /\ ~Undoing(c) /\ Key(c) \in Packages
      /\ record \in [Packages -> Preview \cup {None, Torn}]
  BY DEF Inv, Typed, TypeOK, ControlOK, Validate, CreateRecord, WriteRecord,
         RecordFails, Release, ReleaseFails, Answered, Key, Preview
<1>1. CASE Validate(c)
  <2>1. CASE call' = Go(c, "create", call[c].at)
    <3>1. /\ call[c].pc = "validate" /\ UNCHANGED <<target, record, lock>>
      BY <1>1 DEF Validate, disk
    <3>2. /\ call'[c].pc = "create" /\ call'[c].at = call[c].at
          /\ call'[c].of = call[c].of /\ call'[c].status = call[c].status
      BY <1>0, <2>1, GoFields
    <3>3. /\ lock = c /\ record[Key(c)] \in {None, Torn}
          /\ \A f \in Files : f < call[c].at => Delivered(call[c].of, f)
      BY <1>0, <3>1 DEF Ordered, Holder, NotYetRecorded, InPlace, Working, Locked
    <3>4. \A f \in Files : f < call[c].at => Delivered(call[c].of, f)'
      BY <3>1, <3>2, <3>3 DEF Delivered, Merged
    <3> QED
      BY <1>0, <3>1, <3>2, <3>3, <3>4
      DEF Ordered, Holder, NotYetRecorded, Recorded, InPlace, FromBackup, Key, Undoing,
          Delivered, Merged
  <2> QED
    BY <1>0, <1>1, <2>1, OrderedLoses DEF Validate, RollsBack, Working, disk
<1>2. CASE CreateRecord(c)
  <2>1. /\ call[c].pc = "create" /\ UNCHANGED <<target, lock>>
        /\ call' = Go(c, "record", call[c].at) /\ record'[Key(c)] = Torn
    BY <1>0, <1>2 DEF CreateRecord
  <2>2. /\ call'[c].pc = "record" /\ call'[c].at = call[c].at
        /\ call'[c].of = call[c].of /\ call'[c].status = call[c].status
    BY <1>0, <2>1, GoFields
  <2>3. /\ lock = c /\ \A f \in Files : f < call[c].at => Delivered(call[c].of, f)
    BY <1>0, <2>1 DEF Ordered, Holder, InPlace, Locked
  <2>4. \A f \in Files : f < call[c].at => Delivered(call[c].of, f)'
    BY <2>1, <2>2, <2>3 DEF Delivered, Merged
  <2> QED
    BY <1>0, <2>1, <2>2, <2>3, <2>4
    DEF Ordered, Holder, NotYetRecorded, Recorded, InPlace, FromBackup, Key, Undoing,
        Delivered, Merged
<1>3. CASE WriteRecord(c)
  BY <1>0, <1>3, EndFields
  DEF WriteRecord, Ordered, Holder, NotYetRecorded, Recorded, InPlace,
      FromBackup, Working, Locked, Key, Undoing
<1>4. CASE RecordFails(c)
  BY <1>0, <1>4, OrderedLoses DEF RecordFails, RollsBack, Working, disk
<1>5. CASE Release(c) /\ call[c].status # "error"
  <2>1. /\ call'[c].pc = "answer" /\ call'[c].of = call[c].of
        /\ call'[c].status = call[c].status
    BY <1>0, <1>5, EndFields DEF Release
  <2> QED
    BY <1>0, <1>5, <2>1
    DEF Release, Ordered, Holder, NotYetRecorded, Recorded, InPlace,
        FromBackup, Working, Locked, Key, Undoing
<1>6. CASE ReleaseFails(c) \/ (Release(c) /\ call[c].status = "error")
  BY <1>0, <1>6, ThrowsFields
  DEF Release, ReleaseFails, Ordered, Holder, NotYetRecorded, Recorded, InPlace,
      FromBackup, Working, Locked, Key, Undoing
<1>7. CASE Answered(c)
  <2>1. call'[c] = Idle
    BY <1>0, <1>7 DEF Answered
  <2> QED
    BY <2>1
    DEF Ordered, Holder, NotYetRecorded, Recorded, InPlace, FromBackup,
        Working, Locked, Undoing, Idle
<1> QED
  BY <1>1, <1>2, <1>3, <1>4, <1>5, <1>6, <1>7

\* Previews, outsiders, the administrator and crashes break no promise.
LEMMA OrderedAround ==
  ASSUME Inv, NEW d \in Calls,
         \/ \E q \in Packages : StartPreview(q)
         \/ ReadWorkbook \/ PreviewBlocked \/ StagePreview
         \/ \E v \in previews :
               ForgetPreview(v) \/ \E c \in Calls : StartCommit(c, v)
         \/ \E e \in Edits, f \in Files : OutsiderEdits(e, f)
         \/ AdminUnlocks \/ Crash
  PROVE  Ordered(d)'
<1> USE ExportAssumption
<1>0. /\ call \in [Calls -> Call] /\ Ordered(d)
      /\ target \in [Files -> Content \cup {Missing}]
  BY DEF Inv, Typed, TypeOK
<1>1. CASE UNCHANGED <<target, backup, record, lock, call>>
  BY <1>0, <1>1
  DEF Ordered, Holder, NotYetRecorded, Recorded, InPlace, FromBackup, Key,
      Undoing, Delivered, Merged
<1>2. CASE \E v \in previews, c \in Calls : StartCommit(c, v)
  <2>1. PICK v \in previews, c \in Calls : StartCommit(c, v)
    BY <1>2
  <2>2. CASE d = c
    BY <1>0, <2>1, <2>2
    DEF StartCommit, Ordered, Holder, NotYetRecorded, Recorded, InPlace,
        FromBackup, Working, Locked, Undoing, Idle
  <2>3. CASE d # c
    BY <1>0, <2>1, <2>3
    DEF StartCommit, Ordered, Holder, NotYetRecorded, Recorded, InPlace,
        FromBackup, Key, Undoing, Delivered, Merged, disk
  <2> QED
    BY <2>2, <2>3
<1>3. CASE \E e \in Edits, f \in Files : OutsiderEdits(e, f)
  <2>1. PICK e \in Edits, f \in Files : OutsiderEdits(e, f)
    BY <1>3
  <2>2. UNCHANGED <<backup, record, lock, call>>
    BY <2>1 DEF OutsiderEdits
  <2>3. ASSUME NEW g \in Files, Delivered(call[d].of, g)
        PROVE  Delivered(call[d].of, g)'
    <3>1. target[f] \cup {e} # Missing
      BY <1>0, <2>1 DEF OutsiderEdits, Content
    <3> QED
      BY <1>0, <2>1, <2>2, <2>3, <3>1 DEF OutsiderEdits, Delivered, Merged
  <2>4. call[d].pc = "finish" => call[d].at \in Files
    BY DEF Inv, Typed, ControlOK
  <2>5. InPlace(d)'
    BY <1>0, <2>2, <2>3, <2>4 DEF Ordered, InPlace, Undoing, Merged
  <2> QED
    BY <1>0, <2>2, <2>5
    DEF Ordered, Holder, NotYetRecorded, Recorded, FromBackup, Key, Undoing
<1>4. CASE AdminUnlocks
  <2>1. call[d].pc \notin Locked /\ UNCHANGED <<target, backup, record, call>>
    BY <1>0, <1>4 DEF AdminUnlocks, Ordered, Holder, past, outsiders
  <2> QED
    BY <1>0, <2>1
    DEF Ordered, Holder, NotYetRecorded, Recorded, InPlace, FromBackup, Key,
        Undoing, Delivered, Merged
<1>5. CASE Crash
  BY <1>5
  DEF Crash, Ordered, Holder, NotYetRecorded, Recorded, InPlace, FromBackup,
      Working, Locked, Undoing, Idle
<1>6. CASE \/ \E q \in Packages : StartPreview(q)
           \/ ReadWorkbook \/ PreviewBlocked \/ StagePreview
           \/ \E v \in previews : ForgetPreview(v)
  BY <1>1, <1>6
  DEF StartPreview, ReadWorkbook, PreviewBlocked, StagePreview, ForgetPreview,
      disk
<1> QED
  BY <1>2, <1>3, <1>4, <1>5, <1>6

\* The invariant holds of the empty control directory and of every step.
LEMMA InvHolds == Spec => []Inv
<1>1. Init => Inv
  <2>1. Init => \A c \in Calls : Ordered(c)
    BY DEF Init, Idle, Ordered, Holder, NotYetRecorded, Recorded, InPlace,
           FromBackup, Working, Locked, Undoing
  <2> QED
    BY <2>1, TypedInit DEF Inv
<1>2. Inv /\ [Next]_vars => Inv'
  <2> SUFFICES ASSUME Inv, [Next]_vars PROVE Inv'
    OBVIOUS
  <2>1. Typed'
    BY TypedStep DEF Inv
  <2>2. ASSUME NEW d \in Calls PROVE Ordered(d)'
    <3>1. CASE UNCHANGED vars
      BY <3>1
      DEF vars, Inv, Ordered, Holder, NotYetRecorded, Recorded, InPlace,
          FromBackup, Key, Undoing, Delivered, Merged
    <3>2. CASE \E c \in Calls : CommitStep(c) \/ Denied(c)
      <4>1. PICK c \in Calls : CommitStep(c) \/ Denied(c)
        BY <3>2
      <4>2. CASE d = c
        BY <4>1, <4>2, OrderedPreparing, OrderedReplacing, OrderedRecording
        DEF CommitStep
      <4>3. CASE d # c
        BY <4>1, <4>3, OrderedOther
      <4> QED
        BY <4>2, <4>3
    <3> QED
      BY <3>1, <3>2, OrderedAround DEF Next
  <2> QED
    BY <2>1, <2>2 DEF Inv
<1> QED
  BY <1>1, <1>2, PTL DEF Spec

-----------------------------------------------------------------------------
(* What the invariant shows.                                                 *)

\* Two commits never work on the workbooks of a profile at the same time, also
\* when locks leak, are removed by hand or their holders die.
THEOREM Exclusive == Spec => []OneCommitAtATime
<1>1. Inv => OneCommitAtATime
  BY DEF Inv, Ordered, Holder, OneCommitAtATime
<1> QED
  BY <1>1, InvHolds, PTL

\* A package that is recorded as committed is not delivered again.
THEOREM NoSecondDelivery == Spec => []DeliveredOnce
<1>1. Inv => DeliveredOnce
  BY DEF Inv, Ordered, NotYetRecorded, Working, DeliveredOnce
<1> QED
  BY <1>1, InvHolds, PTL

\* Who is told "committed" finds the very context of the request recorded.
THEOREM AnswersRecorded == Spec => []CommittedIsRecorded
<1>1. Inv => CommittedIsRecorded
  BY DEF Inv, Ordered, Recorded, CommittedIsRecorded
<1> QED
  BY <1>1, InvHolds, PTL

\* The frame of a step that is not a step of a commit.
LEMMA AroundFrame ==
  ASSUME \/ \E q \in Packages : StartPreview(q)
         \/ ReadWorkbook \/ PreviewBlocked \/ StagePreview
         \/ \E v \in previews :
               ForgetPreview(v) \/ \E c \in Calls : StartCommit(c, v)
         \/ \E e \in Edits, f \in Files : OutsiderEdits(e, f)
         \/ AdminUnlocks \/ Crash
  PROVE  /\ UNCHANGED record
         /\ \/ UNCHANGED target
            \/ \E e \in Edits, f \in Files : OutsiderEdits(e, f)
  BY DEF StartPreview, ReadWorkbook, PreviewBlocked, StagePreview,
         ForgetPreview, StartCommit, OutsiderEdits, AdminUnlocks, Crash, disk,
         past, outsiders

\* When a package is recorded as committed, all its workbooks are in place and
\* contain what was confirmed, whichever operations have failed before.
THEOREM RecordsDelivered == Spec => RecordedMeansDelivered
<1> DEFINE Step == \A q \in Packages :
                      record'[q] \notin {None, Torn} /\ record'[q] # record[q]
                      => Complete(record'[q])
<1>1. Inv /\ [Next]_vars => Step
  <2> SUFFICES ASSUME Inv, [Next]_vars, NEW q \in Packages,
                      record'[q] \notin {None, Torn}, record'[q] # record[q]
               PROVE  Complete(record'[q])
    OBVIOUS
  <2>1. PICK c \in Calls : CreateRecord(c) \/ WriteRecord(c)
    BY AroundFrame, RecordFrame DEF Next, vars
  <2>2. record \in [Packages -> Preview \cup {None, Torn}]
    BY DEF Inv, Typed, TypeOK
  <2>3. WriteRecord(c)
    BY <2>1, <2>2 DEF CreateRecord
  <2>4. record'[q] = call[c].of
    BY <2>2, <2>3 DEF WriteRecord
  <2>5. call[c].at = Workbooks + 1 /\ ~Undoing(c)
    BY <2>3 DEF Inv, Typed, ControlOK, WriteRecord
  <2>6. \A f \in Files : Delivered(call[c].of, f)
    BY <2>3, <2>5, ExportAssumption
    DEF WriteRecord, Inv, Ordered, InPlace, Files
  <2> QED
    BY <2>4, <2>6 DEF Complete, Delivered
<1> HIDE DEF Step
<1>2. Spec => [][Step]_vars
  BY <1>1, InvHolds, PTL DEF Spec
<1> QED
  BY <1>2, PTL DEF RecordedMeansDelivered, Step

\* A workbook only ever receives what was confirmed, its backup, the file just
\* displaced, or an outsider's edit.
THEOREM ConfirmedOnly == Spec => OnlyConfirmedContent
<1> DEFINE Step ==
      \A f \in Files : Installs(f) /\ edited' = edited =>
          \E c \in Calls :
             /\ call[c].pc \in {"install", "finish"}
             /\ call[c].at = f
             /\ target'[f] \in {Merged(call[c].of, f), backup[Key(c)][f],
                                call[c].old}
<1>1. Inv /\ [Next]_vars => Step
  <2> SUFFICES ASSUME Inv, [Next]_vars, NEW f \in Files, Installs(f),
                      edited' = edited
               PROVE  \E c \in Calls :
                         /\ call[c].pc \in {"install", "finish"}
                         /\ call[c].at = f
                         /\ target'[f] \in {Merged(call[c].of, f),
                                            backup[Key(c)][f], call[c].old}
    OBVIOUS
  <2>0. target \in [Files -> Content \cup {Missing}]
    BY DEF Inv, Typed, TypeOK
  <2>1. ~UNCHANGED target
    BY DEF Installs
  <2>2. ~(\E e \in Edits, g \in Files : OutsiderEdits(e, g))
    <3> SUFFICES ASSUME NEW e \in Edits, NEW g \in Files, OutsiderEdits(e, g)
                 PROVE  FALSE
      OBVIOUS
    <3> QED
      BY DEF OutsiderEdits, Inv, Typed, TypeOK, Files
  <2>3. PICK c \in Calls : CommitStep(c) \/ Denied(c)
    BY <2>1, <2>2, AroundFrame DEF Next, vars
  <2>4. Displace(c) \/ Install(c) \/ InstallFails(c) \/ CleanupFails(c)
    BY <2>1, <2>3
    DEF CommitStep, Lookup, Denied, TakeLock, LockTaken, LockLeaks, Recheck,
        GivesUp, CheckBaseline, BackUp, DisplaceFails, Finish, RereadFails,
        Validate, CreateRecord, WriteRecord, RecordFails, Release,
        ReleaseFails, Answered, disk
  <2>5. CASE Displace(c)
    BY <2>0, <2>5 DEF Displace, Installs
  <2>6. CASE Install(c)
    <3>1. call[c].at = f /\ target'[f] = call[c].pending
      BY <2>0, <2>6 DEF Install, Installs
    <3>2. call[c].pending \in {Merged(call[c].of, f), backup[Key(c)][f]}
      BY <2>6, <3>1 DEF Install, Inv, Ordered, InPlace, FromBackup
    <3> QED
      BY <2>6, <3>1, <3>2 DEF Install
  <2>7. CASE InstallFails(c) \/ CleanupFails(c)
    <3>1. call[c].pc \in {"install", "finish"}
      BY <2>7 DEF InstallFails, CleanupFails
    <3>2. call[c].at = f /\ target'[f] = call[c].old
      BY <2>0, <2>7 DEF InstallFails, CleanupFails, PutsBack, Installs
    <3> QED
      BY <3>1, <3>2
  <2> QED
    BY <2>4, <2>5, <2>6, <2>7
<1> HIDE DEF Step
<1>2. Spec => [][Step]_vars
  BY <1>1, InvHolds, PTL DEF Spec
<1> QED
  BY <1>2, PTL DEF OnlyConfirmedContent, Step


-----------------------------------------------------------------------------
(* The rollback.                                                             *)

\* The next backup to put back, or the end: what an exception meets has been
\* restored from its own workbook on.
LEMMA ReversibleLoses ==
  ASSUME Typed, NEW c \in Calls, NEW lost, call' = Loses(c, lost), UNCHANGED backup,
         call[c].at \in 1..Workbooks + 1,
         \A f \in Files : /\ Clean(c, f, backup[Key(c)][f])
                          /\ f >= call[c].at /\ f \notin call[c].lost \cup lost
                                => Clean(c, f, target'[f])
                          /\ f < call[c].at => target'[f] # Missing
  PROVE  Reversible(c)'
<1> USE ExportAssumption
<1>1. /\ call \in [Calls -> Call]
      /\ call'[c].of = call[c].of /\ call'[c].lost = call[c].lost \cup lost
  BY LosesFields DEF Typed, TypeOK
<1>2. CASE call'[c].pc = "release" /\ call[c].at - 1 < 1
  BY <1>1, <1>2 DEF Reversible, Clean, Key, Replacing, Files
<1>3. CASE /\ call'[c].pc = "displace" /\ call'[c].status = "undoing"
           /\ call'[c].at = call[c].at - 1 /\ ~(call[c].at - 1 < 1)
  <2>1. \A f \in Files : f > call[c].at - 1 => f >= call[c].at
    BY DEF Files
  <2>2. \A f \in Files : f < call[c].at - 1 => f < call[c].at
    BY DEF Files
  <2>3. call[c].at - 1 \in Files /\ call[c].at - 1 < call[c].at
    BY <1>3 DEF Files
  <2> QED
    BY <1>1, <1>3, <2>1, <2>2, <2>3
    DEF Reversible, Clean, Key, Replacing, Undoing
<1> QED
  BY <1>1, <1>2, <1>3, LosesFields DEF Typed, TypeOK

\* While one commit takes a step, what the others need for their rollback
\* stays.
LEMMA ReversibleOther ==
  ASSUME Inv, NEW c \in Calls, CommitStep(c) \/ Denied(c),
         NEW d \in Calls \ {c}, Reversible(d)
  PROVE  Reversible(d)'
<1>1. call'[d] = call[d]
  BY StepFrame DEF Inv, Typed, TypeOK
<1>2. CASE call[d].pc \in Locked
  <2>1. lock = d /\ call[c].pc \notin Locked
    BY <1>2, ExportAssumption DEF Inv, Ordered, Holder
  <2>2. UNCHANGED <<target, backup>>
    BY <2>1, Unlocked
  <2> QED
    BY <1>1, <2>2 DEF Reversible, Clean, Key, Undoing
<1>3. CASE call[d].pc \notin Locked
  BY <1>1, <1>3 DEF Reversible, Locked, Replacing, Undoing
<1> QED
  BY <1>2, <1>3

\* Comparing and backing up prepare the rollback.
LEMMA ReversiblePreparing ==
  ASSUME Inv, NEW c \in Calls, Reversible(c),
         Lookup(c) \/ Denied(c) \/ TakeLock(c) \/ LockTaken(c) \/ LockLeaks(c)
         \/ Recheck(c) \/ CheckBaseline(c) \/ BackUp(c) \/ GivesUp(c)
  PROVE  Reversible(c)'
<1> USE ExportAssumption
<1>0. /\ call \in [Calls -> Call] /\ call[c] \in Call
      /\ call[c].of \in Preview /\ ~Undoing(c) /\ Key(c) \in Packages
  BY DEF Inv, Typed, TypeOK, ControlOK, Lookup, Denied, TakeLock, LockTaken,
         LockLeaks, Recheck, CheckBaseline, BackUp, GivesUp, Key, Preview
<1>l. call[c].lost = {}
  BY <1>0 DEF Reversible, Lookup, Denied, TakeLock, LockTaken, LockLeaks, Recheck,
              CheckBaseline, BackUp, GivesUp
<1>1. CASE \/ Lookup(c) \/ Denied(c) \/ TakeLock(c) \/ LockTaken(c)
           \/ LockLeaks(c) \/ GivesUp(c)
  <2>1. /\ \/ call'[c].pc \in {"idle", "lock", "answer", "recheck"}
           \/ call'[c].pc = "release" /\ call'[c].status = "error"
        /\ call'[c].lost = {}
    BY <1>0, <1>1, <1>l, IdleTyped, GoFields, EndFields, ThrowsFields
    DEF Lookup, Denied, TakeLock, LockTaken, LockLeaks, GivesUp
  <2> QED
    BY <2>1 DEF Reversible, Replacing
<1>2. CASE Recheck(c)
  <2>1. /\ \/ call'[c].pc = "check" /\ call'[c].at = 1
           \/ call'[c].pc = "release" /\ call'[c].status \in {"error", "committed"}
        /\ call'[c].lost = {}
    BY <1>0, <1>2, <1>l, GoFields, EndFields DEF Recheck
  <2> QED
    BY <2>1 DEF Reversible, Replacing, Files
<1>3. CASE CheckBaseline(c)
  <2>0. /\ call[c].at \in Files /\ UNCHANGED <<target, backup>>
        /\ target[call[c].at] # Missing
    BY <1>3 DEF CheckBaseline, Inv, Typed, ControlOK, disk
  <2>1. /\ \/ call'[c].pc = "release" /\ call'[c].status = "conflict"
           \/ /\ call'[c].of = call[c].of
              /\ call'[c].conflict = (call[c].conflict \/ ~Unchanged(c))
              /\ \/ /\ call'[c].pc = "check" /\ call'[c].at = call[c].at + 1
                 \/ /\ call'[c].pc = "backup" /\ call'[c].at = 1
                    /\ call[c].at = Workbooks /\ ~call'[c].conflict
        /\ call'[c].lost = {}
    <3> DEFINE last == call[c].at = Workbooks
               conflict == call[c].conflict \/ ~Unchanged(c)
    <3>1. CASE last /\ conflict
      BY <1>0, <1>3, <3>1, EndFields DEF CheckBaseline
    <3>2. CASE ~(last /\ conflict)
      BY <1>0, <1>3, <1>l, <3>2 DEF CheckBaseline, Call
    <3> QED
      BY <3>1, <3>2
  <2>2. CASE call'[c].pc = "release"
    BY <2>1, <2>2 DEF Reversible, Replacing
  <2>3. ASSUME call'[c].pc # "release", ~call'[c].conflict,
               NEW f \in Files, f <= call[c].at
        PROVE  Clean(c, f, target[f])
    <3>1. CASE f = call[c].at
      BY <2>0, <2>1, <2>3, <3>1 DEF Unchanged, Clean
    <3>2. CASE f < call[c].at
      BY <1>3, <2>1, <2>3, <3>2 DEF CheckBaseline, Reversible
    <3> QED
      BY <2>0, <2>3, <3>1, <3>2 DEF Files
  <2>4. CASE call'[c].pc = "check"
    BY <2>0, <2>1, <2>3, <2>4 DEF Reversible, Replacing, Clean, Key, Files
  <2>5. CASE call'[c].pc = "backup"
    BY <2>0, <2>1, <2>3, <2>5 DEF Reversible, Replacing, Clean, Key, Files
  <2> QED
    BY <2>1, <2>2, <2>4, <2>5
<1>4. CASE BackUp(c)
  <2>1. /\ call[c].at \in Files /\ call[c].pc = "backup" /\ UNCHANGED target
        /\ \A f \in Files : backup'[Key(c)][f] =
              IF f = call[c].at THEN target[f] ELSE backup[Key(c)][f]
    BY <1>0, <1>4 DEF BackUp, Inv, Typed, TypeOK, ControlOK
  <2>2. \A f \in Files : /\ Clean(c, f, target[f])
                         /\ f <= call[c].at => Clean(c, f, backup'[Key(c)][f])
    BY <2>1 DEF Reversible, Files
  <2>3. /\ call'[c].of = call[c].of /\ call'[c].status = call[c].status
        /\ call'[c].lost = {}
        /\ \/ /\ call'[c].pc = "backup" /\ call'[c].at = call[c].at + 1
           \/ /\ call'[c].pc = "displace" /\ call'[c].at = 1
              /\ call[c].at = Workbooks
    BY <1>0, <1>4, <1>l, GoFields DEF BackUp
  <2>4. CASE call'[c].pc = "backup"
    BY <2>1, <2>2, <2>3, <2>4 DEF Reversible, Replacing, Clean, Key, Files
  <2>5. CASE call'[c].pc = "displace"
    BY <1>0, <2>1, <2>2, <2>3, <2>5
    DEF Reversible, Replacing, Clean, Key, Files, Undoing
  <2> QED
    BY <2>3, <2>4, <2>5
<1> QED
  BY <1>1, <1>2, <1>3, <1>4

\* Replacing keeps the rollback possible, and the rollback cleans up.
LEMMA ReversibleReplacing ==
  ASSUME Inv, NEW c \in Calls, Reversible(c),
         Displace(c) \/ DisplaceFails(c) \/ Install(c) \/ InstallFails(c)
         \/ CleanupFails(c) \/ Finish(c) \/ RereadFails(c)
  PROVE  Reversible(c)'
<1> USE ExportAssumption
<1> DEFINE at == call[c].at
<1>0. /\ call \in [Calls -> Call] /\ call[c] \in Call /\ Typed
      /\ at \in Files /\ at \in 1..Workbooks + 1
      /\ call[c].pc \in {"displace", "install", "finish"}
      /\ target \in [Files -> Content \cup {Missing}]
  BY DEF Inv, Typed, TypeOK, ControlOK, Displace, DisplaceFails, Install,
         InstallFails, CleanupFails, Finish, RereadFails, Files
<1>r. /\ \A f \in Files : /\ Clean(c, f, backup[Key(c)][f])
                          /\ f > at /\ f \notin call[c].lost => Clean(c, f, target[f])
                          /\ f < at => target[f] # Missing
      /\ call[c].lost # {} => Undoing(c)
  BY <1>0 DEF Reversible, Replacing
\* An exception that leaves the other workbooks as they were.
<1>x. ASSUME NEW lost, call' = Loses(c, lost), UNCHANGED backup,
             \A f \in Files \ {at} : target'[f] = target[f],
             at \in lost \/ Clean(c, at, target'[at])
      PROVE  Reversible(c)'
  <2>1. \A f \in Files : /\ f >= at /\ f \notin call[c].lost \cup lost
                               => Clean(c, f, target'[f])
                         /\ f < at => target'[f] # Missing
    BY <1>0, <1>r, <1>x DEF Files
  <2> QED
    BY <1>0, <1>r, <1>x, <2>1, ReversibleLoses
<1>1. CASE Displace(c)
  <2>1. /\ call'[c].pc = "install" /\ call'[c].old = target[at]
        /\ call'[c].of = call[c].of /\ call'[c].status = call[c].status
        /\ call'[c].at = at /\ call'[c].lost = call[c].lost /\ UNCHANGED backup
    BY <1>0, <1>1 DEF Displace, Call
  <2>2. \A f \in Files : f # at => target'[f] = target[f]
    BY <1>0, <1>1 DEF Displace
  <2>3. Undoing(c) \/ Clean(c, at, target[at])
    BY <1>1 DEF Displace, Reversible
  <2>4. \A f \in Files : (f > at => f # at) /\ (f < at => f # at)
    BY <1>0 DEF Files
  <2> QED
    BY <1>r, <2>1, <2>2, <2>3, <2>4
    DEF Reversible, Replacing, Clean, Key, Undoing
<1>2. CASE DisplaceFails(c)
  <2>1. call' = RollsBack(c) /\ UNCHANGED <<target, backup>>
    BY <1>2 DEF DisplaceFails, disk
  <2>2. CASE Undoing(c)
    BY <1>x, <2>1, <2>2 DEF RollsBack, This
  <2>3. CASE ~Undoing(c)
    <3>1. Clean(c, at, target[at])
      BY <1>2, <2>3 DEF DisplaceFails, Reversible
    <3> QED
      BY <1>x, <2>1, <2>3, <3>1 DEF RollsBack
  <2> QED
    BY <2>2, <2>3
<1>3. CASE Install(c)
  <2>1. /\ call'[c].pc = "finish" /\ call'[c].at = at
        /\ call'[c].of = call[c].of /\ call'[c].status = call[c].status
        /\ call'[c].old = call[c].old /\ call'[c].lost = call[c].lost
        /\ UNCHANGED backup
    BY <1>0, <1>3, GoFields DEF Install
  <2>2. /\ target'[at] = call[c].pending
        /\ \A f \in Files : f # at => target'[f] = target[f]
    BY <1>0, <1>3 DEF Install
  <2>3. Undoing(c) => Clean(c, at, target'[at])
    BY <1>0, <1>3, <1>r, <2>2 DEF Install, Inv, Ordered, FromBackup
  <2>4. Undoing(c) \/ Clean(c, at, call[c].old)
    BY <1>3 DEF Install, Reversible
  <2>5. \A f \in Files : (f > at => f # at) /\ (f < at => f # at)
    BY <1>0 DEF Files
  <2> QED
    BY <1>r, <2>1, <2>2, <2>3, <2>4, <2>5
    DEF Reversible, Replacing, Clean, Key, Undoing
<1>4. CASE InstallFails(c) \/ CleanupFails(c)
  <2>1. UNCHANGED backup /\ \A f \in Files \ {at} : target'[f] = target[f]
    BY <1>0, <1>4 DEF InstallFails, CleanupFails, PutsBack
  <2>2. \/ call' = Loses(c, This(c))
        \/ call' = RollsBack(c) /\ target'[at] = call[c].old
    BY <1>0, <1>4 DEF InstallFails, CleanupFails, PutsBack
  <2>3. CASE call' = Loses(c, This(c))
    BY <1>x, <2>1, <2>3 DEF This
  <2>4. CASE call' = RollsBack(c) /\ target'[at] = call[c].old
    <3>1. Undoing(c) \/ Clean(c, at, call[c].old)
      BY <1>4 DEF InstallFails, CleanupFails, Reversible
    <3> QED
      BY <1>x, <2>1, <2>4, <3>1 DEF RollsBack, This
  <2> QED
    BY <2>2, <2>3, <2>4
<1>5. CASE Finish(c)
  <2>1. UNCHANGED <<target, backup>>
    BY <1>5 DEF Finish, disk
  <2>2. CASE Undoing(c)
    <3>1. Clean(c, at, target[at])
      BY <1>5, <2>2 DEF Finish, Reversible
    <3> QED
      BY <1>5, <1>x, <2>1, <2>2, <3>1 DEF Finish
  <2>3. CASE ~Undoing(c)
    <3>1. /\ call'[c].pc \in {"validate", "displace"}
          /\ call'[c].pc = "displace" => at + 1 \in Files
          /\ call'[c].at = at + 1 /\ ~Undoing(c)' /\ call'[c].lost = {}
          /\ call'[c].of = call[c].of
      BY <1>0, <1>5, <2>3, PassesFields DEF Undoing, Files
    <3>2. \A f \in Files : f < at + 1 => target[f] # Missing
      BY <1>0, <1>5, <1>r, <2>3
      DEF Finish, Inv, Ordered, InPlace, Delivered, Files
    <3>3. \A f \in Files : f > at + 1 \/ f = at + 1 => f > at
      BY <1>0 DEF Files
    <3> QED
      BY <1>r, <2>1, <2>3, <3>1, <3>2, <3>3
      DEF Reversible, Replacing, Clean, Key
  <2> QED
    BY <2>2, <2>3
<1>6. CASE RereadFails(c)
  BY <1>6, <1>x DEF RereadFails, This, disk
<1> QED
  BY <1>1, <1>2, <1>3, <1>4, <1>5, <1>6

\* A failure of the validation or of the record starts the rollback at the
\* last workbook.
LEMMA ReversibleRecording ==
  ASSUME Inv, NEW c \in Calls, Reversible(c),
         Validate(c) \/ CreateRecord(c) \/ WriteRecord(c) \/ RecordFails(c)
         \/ Release(c) \/ ReleaseFails(c) \/ Answered(c)
  PROVE  Reversible(c)'
<1> USE ExportAssumption
<1>0. call \in [Calls -> Call] /\ Typed
  BY DEF Inv, Typed, TypeOK
<1>1. CASE Validate(c) \/ RecordFails(c)
  <2>1. /\ UNCHANGED <<target, backup>>
        /\ call[c].pc \in {"validate", "create", "record"}
        /\ call[c].at = Workbooks + 1 /\ ~Undoing(c) /\ call[c].lost = {}
    BY <1>0, <1>1 DEF Validate, RecordFails, disk, Typed, ControlOK, Reversible
  <2>2. \A f \in Files : /\ Clean(c, f, backup[Key(c)][f])
                         /\ f < call[c].at /\ target[f] # Missing
    BY <2>1 DEF Reversible, Replacing, Files
  <2>3. CASE call' = RollsBack(c)
    <3>1. call[c].at \in 1..Workbooks + 1
      BY <2>1
    <3>2. \A f \in Files : ~(f >= call[c].at)
      BY <2>1 DEF Files
    <3> QED
      BY <1>0, <2>1, <2>2, <2>3, <3>1, <3>2, ReversibleLoses DEF RollsBack
  <2>4. CASE call' = Go(c, "create", call[c].at)
    <3>1. /\ call'[c].pc = "create" /\ call'[c].at = call[c].at
          /\ call'[c].of = call[c].of /\ call'[c].lost = {}
      BY <1>0, <2>1, <2>4, GoFields
    <3>2. \A f \in Files : ~(f > call[c].at)
      BY <2>1 DEF Files
    <3> QED
      BY <2>1, <2>2, <3>1, <3>2 DEF Reversible, Replacing, Clean, Key
  <2> QED
    BY <1>1, <2>3, <2>4 DEF Validate, RecordFails
<1>2. CASE CreateRecord(c)
  <2>1. /\ UNCHANGED <<target, backup>> /\ call[c].pc = "create"
        /\ call'[c].pc = "record" /\ call'[c].at = call[c].at
        /\ call'[c].of = call[c].of /\ call'[c].lost = call[c].lost
        /\ ~Undoing(c)
    BY <1>0, <1>2, GoFields DEF CreateRecord, Typed, ControlOK
  <2> QED
    BY <2>1 DEF Reversible, Replacing, Clean, Key
<1>3. CASE WriteRecord(c)
  <2>1. /\ call'[c].pc = "release" /\ call'[c].status = "committed"
        /\ call'[c].lost = {}
    BY <1>0, <1>3, EndFields DEF WriteRecord
  <2> QED
    BY <2>1 DEF Reversible, Replacing
<1>4. CASE Release(c) \/ ReleaseFails(c) \/ Answered(c)
  <2>1. call'[c].pc \in {"answer", "idle"} /\ call'[c].lost = {}
    BY <1>0, <1>4, IdleTyped, EndFields, ThrowsFields DEF Release, ReleaseFails, Answered
  <2> QED
    BY <2>1 DEF Reversible, Replacing
<1> QED
  BY <1>1, <1>2, <1>3, <1>4

\* Others' edits do not bring a package back, and nobody else disturbs a
\* rollback.
LEMMA ReversibleAround ==
  ASSUME Inv, NEW d \in Calls, Reversible(d),
         \/ \E q \in Packages : StartPreview(q)
         \/ ReadWorkbook \/ PreviewBlocked \/ StagePreview
         \/ \E v \in previews :
               ForgetPreview(v) \/ \E c \in Calls : StartCommit(c, v)
         \/ \E e \in Edits, f \in Files : OutsiderEdits(e, f)
         \/ AdminUnlocks \/ Crash
  PROVE  Reversible(d)'
<1> USE ExportAssumption
<1>0. /\ call \in [Calls -> Call]
      /\ target \in [Files -> Content \cup {Missing}]
  BY DEF Inv, Typed, TypeOK
<1>1. CASE UNCHANGED <<target, backup, call>>
  BY <1>1 DEF Reversible, Clean, Key, Undoing
<1>2. CASE \E v \in previews, c \in Calls : StartCommit(c, v)
  <2>1. PICK v \in previews, c \in Calls : StartCommit(c, v)
    BY <1>2
  <2>2. CASE d = c
    BY <1>0, <2>1, <2>2 DEF StartCommit, Reversible, Replacing, Idle, Undoing
  <2>3. CASE d # c
    BY <1>0, <2>1, <2>3 DEF StartCommit, Reversible, Clean, Key, Undoing, disk
  <2> QED
    BY <2>2, <2>3
<1>3. CASE \E e \in Edits, f \in Files : OutsiderEdits(e, f)
  <2>1. PICK e \in Edits, f \in Files : OutsiderEdits(e, f)
    BY <1>3
  <2>2. UNCHANGED <<backup, call>>
    BY <2>1 DEF OutsiderEdits
  <2>3. CASE call[d].pc = "idle"
    BY <2>2, <2>3 DEF Reversible, Replacing, Undoing
  <2>4. CASE call[d].pc # "idle"
    <3>1. Key(d) \in Packages /\ e # Key(d)
      BY <2>1, <2>4 DEF Inv, Typed, ControlOK, Key, Preview
    <3>2. target[f] # Missing /\ target[f] \cup {e} # Missing
      BY <1>0, <2>1 DEF OutsiderEdits, Content
    <3>3. \A g \in Files :
             /\ target[g] # Missing => target'[g] # Missing
             /\ Clean(d, g, target[g]) => Clean(d, g, target'[g])
      BY <1>0, <2>1, <3>1, <3>2 DEF OutsiderEdits, Clean
    <3>4. call[d].pc \in {"displace", "finish"} => call[d].at \in Files
      BY DEF Inv, Typed, ControlOK
    <3> QED
      BY <2>2, <3>3, <3>4 DEF Reversible, Replacing, Clean, Key, Undoing
  <2> QED
    BY <2>3, <2>4
<1>4. CASE Crash
  BY <1>4 DEF Crash, Reversible, Replacing, Idle
<1>5. CASE \/ \E q \in Packages : StartPreview(q)
           \/ ReadWorkbook \/ PreviewBlocked \/ StagePreview \/ AdminUnlocks
           \/ \E v \in previews : ForgetPreview(v)
  BY <1>1, <1>5
  DEF StartPreview, ReadWorkbook, PreviewBlocked, StagePreview, AdminUnlocks,
      ForgetPreview, disk, past, outsiders
<1> QED
  BY <1>2, <1>3, <1>4, <1>5

\* Every step keeps the rollback of every commit possible.
LEMMA ReversibleHolds == Spec => [](\A c \in Calls : Reversible(c))
<1>1. Init => \A c \in Calls : Reversible(c)
  BY DEF Init, Idle, Reversible, Replacing
<1>2. /\ Inv /\ \A c \in Calls : Reversible(c)
      /\ [Next]_vars
      => (\A c \in Calls : Reversible(c))'
  <2> SUFFICES ASSUME Inv, \A c \in Calls : Reversible(c), [Next]_vars,
                      NEW d \in Calls
               PROVE  Reversible(d)'
    OBVIOUS
  <2>1. CASE UNCHANGED vars
    BY <2>1 DEF vars, Reversible, Clean, Key, Undoing
  <2>2. CASE \E c \in Calls : CommitStep(c) \/ Denied(c)
    <3>1. PICK c \in Calls : CommitStep(c) \/ Denied(c)
      BY <2>2
    <3>2. CASE d = c
      BY <3>1, <3>2, ReversiblePreparing, ReversibleReplacing, ReversibleRecording
      DEF CommitStep
    <3>3. CASE d # c
      BY <3>1, <3>3, ReversibleOther
    <3> QED
      BY <3>2, <3>3
  <2> QED
    BY <2>1, <2>2, ReversibleAround DEF Next
<1> QED
  BY <1>1, <1>2, InvHolds, PTL DEF Spec

\* A commit that fails leaves every workbook in place and none of its changes
\* in any of them, but for the workbooks an operation has lost: one that would
\* have put the workbook back, or read it back.
THEOREM RollbackRestores == Spec => []FailedLeavesNothing
<1>1. (\A c \in Calls : Reversible(c)) => FailedLeavesNothing
  BY DEF Reversible, Clean, FailedLeavesNothing
<1> QED
  BY <1>1, ReversibleHolds, PTL

-----------------------------------------------------------------------------
(* Edits made before a commit got to work.                                   *)

\* Unless the workbook is displaced, its content has the edits made in it.
Keeps(f, content) ==
    content # Missing => \A e \in Edits \ racing : edited[e] = f => e \in content

\* The preview of a commit that has compared the workbooks has those edits,
\* and so does everything the commit may install.
Preserving(c) ==
    LET at == call[c].at
    IN /\ call[c].pc = "check" /\ ~call[c].conflict =>
             \A f \in Files : f < at => Keeps(f, call[c].of.base[f])
       /\ call[c].pc = "backup" =>
             \A f \in Files : /\ Keeps(f, call[c].of.base[f])
                              /\ f < at => Keeps(f, backup[Key(c)][f])
       /\ call[c].pc \in Replacing =>
             \A f \in Files : /\ Keeps(f, call[c].of.base[f])
                              /\ Keeps(f, backup[Key(c)][f])
       /\ call[c].pc = "install" => Keeps(at, call[c].pending)
       /\ call[c].pc \in {"install", "finish"} => Keeps(at, call[c].old)

Preserved ==
    /\ \A f \in Files : Keeps(f, target[f])
    /\ \A c \in Calls : Preserving(c)

\* A commit that goes on with its rollback, or ends it, has what it had.
LEMMA PreservingLoses ==
  ASSUME Typed, NEW c \in Calls, call[c].pc \in Replacing, Preserving(c),
         NEW lost, call' = Loses(c, lost), UNCHANGED <<backup, edited, racing>>
  PROVE  Preserving(c)'
<1>1. /\ call \in [Calls -> Call]
      /\ call'[c].of = call[c].of
      /\ call'[c].pc \in {"release", "displace"}
  BY LosesFields DEF Typed, TypeOK
<1> QED
  BY <1>1 DEF Preserving, Replacing, Keeps, Key

\* Comparing makes the preview hold the edits, backing up the backup.
LEMMA PreservingPreparing ==
  ASSUME Inv, NEW c \in Calls, Preserved,
         Lookup(c) \/ Denied(c) \/ TakeLock(c) \/ LockTaken(c) \/ LockLeaks(c)
         \/ Recheck(c) \/ CheckBaseline(c) \/ BackUp(c) \/ GivesUp(c)
  PROVE  Preserving(c)' /\ UNCHANGED <<target, edited, racing>>
<1> USE ExportAssumption
<1>0. /\ call \in [Calls -> Call] /\ call[c] \in Call /\ Key(c) \in Packages
      /\ Preserving(c)
  BY DEF Inv, Typed, TypeOK, ControlOK, Lookup, Denied, TakeLock, LockTaken,
         LockLeaks, Recheck, CheckBaseline, BackUp, GivesUp, Key, Preview,
         Preserved
<1>e. UNCHANGED <<target, edited, racing>>
  BY DEF Lookup, Denied, TakeLock, LockTaken, LockLeaks, Recheck,
         CheckBaseline, BackUp, GivesUp, disk, past, outsiders
<1>1. CASE \/ Lookup(c) \/ Denied(c) \/ TakeLock(c) \/ LockTaken(c)
           \/ LockLeaks(c) \/ GivesUp(c)
  <2>1. call'[c].pc \in {"idle", "lock", "answer", "recheck", "release"}
    BY <1>0, <1>1, GoFields, EndFields, ThrowsFields
    DEF Lookup, Denied, TakeLock, LockTaken, LockLeaks, GivesUp
  <2> QED
    BY <1>e, <2>1 DEF Preserving, Replacing
<1>2. CASE Recheck(c)
  <2>1. \/ call'[c].pc = "check" /\ call'[c].at = 1
        \/ call'[c].pc = "release"
    BY <1>0, <1>2, GoFields, EndFields DEF Recheck
  <2> QED
    BY <1>e, <2>1 DEF Preserving, Replacing, Files
<1>3. CASE CheckBaseline(c)
  <2>0. /\ call[c].at \in Files /\ UNCHANGED backup /\ call[c].pc = "check"
    BY <1>3 DEF CheckBaseline, Inv, Typed, ControlOK, disk
  <2>1. \/ call'[c].pc = "release"
        \/ /\ call'[c].of = call[c].of
           /\ call'[c].conflict = (call[c].conflict \/ ~Unchanged(c))
           /\ \/ /\ call'[c].pc = "check" /\ call'[c].at = call[c].at + 1
              \/ /\ call'[c].pc = "backup" /\ call'[c].at = 1
                 /\ call[c].at = Workbooks /\ ~call'[c].conflict
    <3> DEFINE last == call[c].at = Workbooks
               conflict == call[c].conflict \/ ~Unchanged(c)
    <3>1. CASE last /\ conflict
      BY <1>0, <1>3, <3>1, EndFields DEF CheckBaseline
    <3>2. CASE ~(last /\ conflict)
      BY <1>0, <1>3, <3>2 DEF CheckBaseline, Call
    <3> QED
      BY <3>1, <3>2
  <2>2. CASE call'[c].pc = "release"
    BY <1>e, <2>1, <2>2 DEF Preserving, Replacing
  <2>3. ASSUME call'[c].pc # "release", ~call'[c].conflict,
               NEW f \in Files, f <= call[c].at
        PROVE  Keeps(f, call[c].of.base[f])
    <3>1. CASE f = call[c].at
      BY <2>0, <2>1, <2>3, <3>1 DEF Unchanged, Preserved
    <3>2. CASE f < call[c].at
      BY <1>0, <2>0, <2>1, <2>3, <3>2 DEF Preserving
    <3> QED
      BY <2>0, <2>3, <3>1, <3>2 DEF Files
  <2>4. CASE call'[c].pc = "check"
    BY <1>e, <2>0, <2>1, <2>3, <2>4 DEF Preserving, Replacing, Keeps, Files
  <2>5. CASE call'[c].pc = "backup"
    BY <1>e, <2>0, <2>1, <2>3, <2>5 DEF Preserving, Replacing, Keeps, Files
  <2> QED
    BY <1>e, <2>1, <2>2, <2>4, <2>5
<1>4. CASE BackUp(c)
  <2>1. /\ call[c].at \in Files /\ call[c].pc = "backup"
        /\ \A f \in Files : backup'[Key(c)][f] =
              IF f = call[c].at THEN target[f] ELSE backup[Key(c)][f]
    BY <1>0, <1>4 DEF BackUp, Inv, Typed, TypeOK, ControlOK
  <2>2. \A f \in Files : /\ Keeps(f, call[c].of.base[f])
                         /\ f <= call[c].at => Keeps(f, backup'[Key(c)][f])
    BY <1>0, <2>1 DEF Preserved, Preserving, Files
  <2>3. /\ call'[c].of = call[c].of
        /\ \/ /\ call'[c].pc = "backup" /\ call'[c].at = call[c].at + 1
           \/ /\ call'[c].pc = "displace" /\ call[c].at = Workbooks
    BY <1>0, <1>4, GoFields DEF BackUp
  <2>4. CASE call'[c].pc = "backup"
    BY <1>e, <2>1, <2>2, <2>3, <2>4 DEF Preserving, Replacing, Keeps, Key, Files
  <2>5. CASE call'[c].pc = "displace"
    BY <1>e, <2>1, <2>2, <2>3, <2>5 DEF Preserving, Replacing, Keeps, Key, Files
  <2> QED
    BY <1>e, <2>3, <2>4, <2>5
<1> QED
  BY <1>e, <1>1, <1>2, <1>3, <1>4

\* Whatever replacing and putting back leave in a workbook has the edits.
LEMMA PreservingReplacing ==
  ASSUME Inv, NEW c \in Calls, Preserved,
         Displace(c) \/ DisplaceFails(c) \/ Install(c) \/ InstallFails(c)
         \/ CleanupFails(c) \/ Finish(c) \/ RereadFails(c)
  PROVE  /\ Preserving(c)' /\ UNCHANGED <<edited, racing>>
         /\ \A f \in Files : Keeps(f, target'[f])
<1> USE ExportAssumption
<1> DEFINE at == call[c].at
<1>0. /\ call \in [Calls -> Call] /\ call[c] \in Call /\ Typed
      /\ at \in Files /\ call[c].of \in Preview
      /\ call[c].pc \in {"displace", "install", "finish"}
      /\ call[c].pc \in Replacing
      /\ target \in [Files -> Content \cup {Missing}]
  BY DEF Inv, Typed, TypeOK, ControlOK, Displace, DisplaceFails, Install,
         InstallFails, CleanupFails, Finish, RereadFails, Replacing
<1>e. UNCHANGED <<backup, edited, racing>>
  BY DEF Displace, DisplaceFails, Install, InstallFails, CleanupFails,
         PutsBack, Finish, RereadFails, disk, past, outsiders
<1>p. /\ Preserving(c) /\ Keeps(at, target[at]) /\ Keeps(at, Missing)
      /\ \A f \in Files : /\ Keeps(f, target[f])
                          /\ Keeps(f, call[c].of.base[f])
                          /\ Keeps(f, backup[Key(c)][f])
  BY <1>0 DEF Preserved, Preserving, Keeps
<1>1. CASE Displace(c)
  <2>1. /\ call'[c].pc = "install" /\ call'[c].old = target[at]
        /\ call'[c].of = call[c].of /\ call'[c].at = at
        /\ call'[c].pending = Source(c)
    BY <1>0, <1>1 DEF Displace, Call
  <2>2. \A f \in Files : target'[f] = IF f = at THEN Missing ELSE target[f]
    BY <1>0, <1>1 DEF Displace
  <2>3. Keeps(at, Source(c))
    <3>1. CASE Undoing(c)
      BY <1>0, <1>p, <3>1 DEF Source
    <3>2. CASE ~Undoing(c)
      <4>1. Source(c) = Merged(call[c].of, at)
        BY <1>1, <3>2 DEF Displace, Verified
      <4>2. call[c].of.base[at] # Missing
        BY <1>0 DEF Preview
      <4> QED
        BY <1>0, <1>p, <4>1, <4>2 DEF Keeps, Merged
    <3> QED
      BY <3>1, <3>2
  <2>4. \A f \in Files : Keeps(f, target'[f])
    BY <1>p, <2>2
  <2>5. Preserving(c)'
    BY <1>e, <1>p, <2>1, <2>3 DEF Preserving, Replacing, Keeps, Key
  <2> QED
    BY <1>e, <2>4, <2>5
<1>2. CASE Install(c)
  <2>1. /\ call'[c].pc = "finish" /\ call'[c].at = at
        /\ call'[c].of = call[c].of /\ call'[c].old = call[c].old
    BY <1>0, <1>2, GoFields DEF Install
  <2>2. \A f \in Files :
           target'[f] = IF f = at THEN call[c].pending ELSE target[f]
    BY <1>0, <1>2 DEF Install
  <2>3. Keeps(at, call[c].pending) /\ Keeps(at, call[c].old)
    BY <1>2, <1>p DEF Install, Preserving
  <2>4. \A f \in Files : Keeps(f, target'[f])
    BY <1>p, <2>2, <2>3
  <2>5. Preserving(c)'
    BY <1>e, <1>p, <2>1, <2>3 DEF Preserving, Replacing, Keeps, Key
  <2> QED
    BY <1>e, <2>4, <2>5
<1>3. CASE InstallFails(c) \/ CleanupFails(c)
  <2>1. /\ \E lost \in SUBSET Files : call' = Loses(c, lost)
        /\ \E content \in {call[c].old, Missing, target[at]} :
              target' = [target EXCEPT ![at] = content]
    BY <1>0, <1>3 DEF InstallFails, CleanupFails, PutsBack, RollsBack, This
  <2>2. Keeps(at, call[c].old)
    BY <1>3, <1>p DEF InstallFails, CleanupFails, Preserving
  <2>3. \A f \in Files : Keeps(f, target'[f])
    BY <1>0, <1>p, <2>1, <2>2
  <2> QED
    BY <1>0, <1>e, <1>p, <2>1, <2>3, PreservingLoses
<1>4. CASE DisplaceFails(c) \/ RereadFails(c)
  <2>1. (\E lost \in SUBSET Files : call' = Loses(c, lost)) /\ UNCHANGED target
    BY <1>0, <1>4 DEF DisplaceFails, RereadFails, RollsBack, This, disk
  <2> QED
    BY <1>0, <1>e, <1>p, <2>1, PreservingLoses
<1>5. CASE Finish(c)
  <2>1. UNCHANGED target
    BY <1>5 DEF Finish, disk
  <2>2. CASE Undoing(c)
    BY <1>0, <1>5, <1>e, <1>p, <2>1, <2>2, PreservingLoses DEF Finish
  <2>3. CASE ~Undoing(c)
    <3>1. /\ call'[c].pc \in {"validate", "displace"}
          /\ call'[c].of = call[c].of
      BY <1>0, <1>5, <2>3, PassesFields
    <3>2. Preserving(c)'
      BY <1>e, <1>p, <3>1 DEF Preserving, Replacing, Keeps, Key
    <3> QED
      BY <1>e, <1>p, <2>1, <3>2
  <2> QED
    BY <2>2, <2>3
<1> QED
  BY <1>1, <1>2, <1>3, <1>4, <1>5

\* Validating, recording, unlocking and answering change no workbook.
LEMMA PreservingRecording ==
  ASSUME Inv, NEW c \in Calls, Preserved,
         Validate(c) \/ CreateRecord(c) \/ WriteRecord(c) \/ RecordFails(c)
         \/ Release(c) \/ ReleaseFails(c) \/ Answered(c)
  PROVE  Preserving(c)' /\ UNCHANGED <<target, edited, racing>>
<1>0. call \in [Calls -> Call] /\ Typed /\ Preserving(c)
  BY DEF Inv, Typed, TypeOK, Preserved
<1>e. UNCHANGED <<target, backup, edited, racing>>
  BY DEF Validate, CreateRecord, WriteRecord, RecordFails, Release,
         ReleaseFails, Answered, disk, past, outsiders
<1>1. CASE Validate(c) \/ RecordFails(c) \/ CreateRecord(c)
  <2>1. call[c].pc \in Replacing
    BY <1>1 DEF Validate, RecordFails, CreateRecord, Replacing
  <2>2. CASE call' = RollsBack(c)
    BY <1>0, <1>e, <2>1, <2>2, PreservingLoses DEF RollsBack
  <2>3. CASE \E pc \in {"create", "record"} : call' = Go(c, pc, call[c].at)
    <3>1. call'[c].pc \in {"create", "record"} /\ call'[c].of = call[c].of
      BY <1>0, <2>3, GoFields
    <3> QED
      BY <1>0, <1>e, <2>1, <3>1 DEF Preserving, Replacing, Keeps, Key
  <2> QED
    BY <1>1, <2>2, <2>3 DEF Validate, RecordFails, CreateRecord
<1>2. CASE WriteRecord(c) \/ ReleaseFails(c) \/ Release(c) \/ Answered(c)
  <2>1. call'[c].pc \in {"release", "answer", "idle"}
    BY <1>0, <1>2, EndFields, ThrowsFields
    DEF WriteRecord, ReleaseFails, Release, Answered, Idle
  <2> QED
    BY <1>e, <2>1 DEF Preserving, Replacing
<1> QED
  BY <1>e, <1>1, <1>2

\* Whoever holds no lock makes no promise about edits.
LEMMA PreservingIdle ==
  ASSUME NEW c, call[c].pc \notin Locked
  PROVE  Preserving(c)
  BY DEF Preserving, Replacing, Locked

\* The step of a commit leaves alone what another one is about to install.
LEMMA PreservingOther ==
  ASSUME Inv, NEW c \in Calls, CommitStep(c) \/ Denied(c), Preserved,
         UNCHANGED <<edited, racing>>, NEW d \in Calls \ {c}
  PROVE  Preserving(d)'
<1>0. call'[d] = call[d] /\ Preserving(d)
  BY StepFrame DEF Inv, Typed, TypeOK, Preserved
<1>1. CASE call[d].pc \in Locked
  <2>1. lock = d /\ call[c].pc \notin Locked
    BY <1>1, ExportAssumption DEF Inv, Ordered, Holder
  <2>2. UNCHANGED backup
    BY <2>1, Unlocked
  <2> QED
    BY <1>0, <2>2 DEF Preserving, Keeps, Key
<1>2. CASE call[d].pc \notin Locked
  BY <1>0, <1>2 DEF Preserving, Replacing, Locked
<1> QED
  BY <1>1, <1>2

\* An edit made while a commit is at work is racing; one made before that
\* finds no commit that holds anything older.
LEMMA PreservedAround ==
  ASSUME Inv, Preserved,
         \/ \E q \in Packages : StartPreview(q)
         \/ ReadWorkbook \/ PreviewBlocked \/ StagePreview
         \/ \E v \in previews :
               ForgetPreview(v) \/ \E c \in Calls : StartCommit(c, v)
         \/ \E e \in Edits, f \in Files : OutsiderEdits(e, f)
         \/ AdminUnlocks \/ Crash
  PROVE  Preserved'
<1> USE ExportAssumption
<1>0. /\ call \in [Calls -> Call]
      /\ target \in [Files -> Content \cup {Missing}]
      /\ edited \in [Edits -> Files \cup {0}]
  BY DEF Inv, Typed, TypeOK
<1>1. CASE UNCHANGED <<target, backup, call, edited, racing>>
  BY <1>1 DEF Preserved, Preserving, Keeps, Key
<1>2. CASE \E v \in previews, c \in Calls : StartCommit(c, v)
  <2>1. PICK v \in previews, c \in Calls : StartCommit(c, v)
    BY <1>2
  <2>2. UNCHANGED <<target, backup, edited, racing>>
    BY <2>1 DEF StartCommit, disk, past, outsiders
  <2>3. \A d \in Calls : call'[d] = call[d] \/ call'[d].pc = "lookup"
    BY <1>0, <2>1 DEF StartCommit, Idle
  <2>4. ASSUME NEW d \in Calls PROVE Preserving(d)'
    <3>1. CASE call'[d] = call[d]
      BY <2>2, <3>1 DEF Preserved, Preserving, Keeps, Key
    <3>2. CASE call'[d].pc = "lookup"
      BY <3>2 DEF Preserving, Replacing
    <3> QED
      BY <2>3, <3>1, <3>2
  <2> QED
    BY <2>2, <2>4 DEF Preserved, Keeps
<1>3. CASE \E e \in Edits, f \in Files : OutsiderEdits(e, f)
  <2>1. PICK e \in Edits, f \in Files : OutsiderEdits(e, f)
    BY <1>3
  <2>2. /\ UNCHANGED <<backup, call>> /\ target[f] # Missing
        /\ \A g \in Files : target'[g] = IF g = f THEN target[f] \cup {e}
                                         ELSE target[g]
        /\ \A x \in Edits : edited'[x] = IF x = e THEN f ELSE edited[x]
    BY <1>0, <2>1 DEF OutsiderEdits
  <2>3. \A g \in Files : Keeps(g, target[g])
    BY DEF Preserved
  <2>4. racing \subseteq racing'
    BY <2>1 DEF OutsiderEdits
  <2>5. \A g \in Files : Keeps(g, target[g])'
    BY <2>2, <2>3, <2>4 DEF Keeps
  <2>6. ASSUME NEW d \in Calls PROVE Preserving(d)'
    <3>1. CASE call[d].pc \in Locked
      <4>1. racing' = racing \cup {e}
        BY <2>1, <3>1 DEF OutsiderEdits
      <4>2. \A x \in Edits \ racing' : x \in Edits \ racing /\ edited'[x] = edited[x]
        BY <2>2, <4>1
      <4>3. Preserving(d)
        BY DEF Preserved
      <4> QED
        BY <2>2, <4>2, <4>3 DEF Preserving, Keeps, Key
    <3>2. CASE call[d].pc \notin Locked
      BY <2>2, <3>2 DEF Preserving, Replacing, Locked
    <3> QED
      BY <3>1, <3>2
  <2> QED
    BY <2>5, <2>6 DEF Preserved
<1>4. CASE Crash
  <2>1. /\ UNCHANGED <<target, edited, racing>>
        /\ \A d \in Calls : call'[d] = Idle
    BY <1>4 DEF Crash, past, outsiders
  <2> QED
    BY <2>1 DEF Preserved, Preserving, Replacing, Keeps, Idle
<1>5. CASE \/ \E q \in Packages : StartPreview(q)
           \/ ReadWorkbook \/ PreviewBlocked \/ StagePreview \/ AdminUnlocks
           \/ \E v \in previews : ForgetPreview(v)
  BY <1>1, <1>5
  DEF StartPreview, ReadWorkbook, PreviewBlocked, StagePreview, AdminUnlocks,
      ForgetPreview, disk, past, outsiders
<1> QED
  BY <1>2, <1>3, <1>4, <1>5

\* What others have written before a commit gets to work is not overwritten,
\* however old its preview is, also when operations fail and commits die.
THEOREM EditsSurvive == Spec => []EarlierEditsSurvive
<1>1. Init => Preserved
  <2> SUFFICES ASSUME Init PROVE Preserved
    OBVIOUS
  <2>1. \A f \in Files, e \in Edits : edited[e] # f
    BY DEF Init, Files
  <2>2. \A f \in Files : Keeps(f, target[f])
    BY <2>1 DEF Keeps
  <2> QED
    BY <2>2 DEF Init, Idle, Preserved, Preserving, Replacing
<1>2. Inv /\ Preserved /\ [Next]_vars => Preserved'
  <2> SUFFICES ASSUME Inv, Preserved, [Next]_vars PROVE Preserved'
    OBVIOUS
  <2>1. CASE UNCHANGED vars
    BY <2>1 DEF vars, Preserved, Preserving, Keeps, Key
  <2>2. CASE \E c \in Calls : CommitStep(c) \/ Denied(c)
    <3>1. PICK c \in Calls : CommitStep(c) \/ Denied(c)
      BY <2>2
    <3>2. /\ Preserving(c)' /\ UNCHANGED <<edited, racing>>
          /\ \A f \in Files : Keeps(f, target'[f])
      BY <3>1, PreservingPreparing, PreservingReplacing, PreservingRecording
      DEF CommitStep, Preserved
    <3>3. \A d \in Calls : Preserving(d)'
      BY <3>1, <3>2, PreservingOther
    <3> QED
      BY <3>2, <3>3 DEF Preserved, Keeps
  <2> QED
    BY <2>1, <2>2, PreservedAround DEF Next
<1>3. Preserved => EarlierEditsSurvive
  BY DEF Preserved, Keeps, EarlierEditsSurvive, Survives
<1> QED
  BY <1>1, <1>2, <1>3, InvHolds, PTL DEF Spec

-----------------------------------------------------------------------------
(* The original.                                                             *)

Unrecorded == {q \in Packages \ again : record[q] \in {None, Torn}}

Safe(q, f) == backup[q][f] # Missing /\ q \notin backup[q][f]

\* Of the packages that are not recorded as committed, workbook f with this
\* content has only those that were left halfway and are safe, or besides them
\* the one c delivers.
Bare(f, content) ==
    content # Missing =>
        \A q \in Unrecorded : q \in content => q \in halved /\ Safe(q, f)

BareBut(c, f, content) ==
    content # Missing =>
        \A q \in Unrecorded :
            q # Key(c) /\ q \in content => q \in halved /\ Safe(q, f)

\* The backup c has made; its package has not been left halfway before.
BackedUp(c, f) ==
    /\ backup[Key(c)][f] # Missing
    /\ Bare(f, backup[Key(c)][f])
    /\ Key(c) \in Unrecorded => Key(c) \notin halved

\* The package of c may be in some workbooks.
Unsettled(c) ==
    call[c].pc \in Replacing \/ (call[c].pc = "release" /\ call[c].lost # {})

\* What a commit has compared and backed up is bare, and so is every workbook
\* it has not yet replaced or has already restored, but for those it has lost.
Original(c) ==
    LET at == call[c].at
        old == call[c].old
    IN /\ call[c].pc = "check" /\ ~call[c].conflict =>
             \A f \in Files : f < at => Bare(f, call[c].of.base[f])
       /\ call[c].pc = "backup" =>
             \A f \in Files : /\ Bare(f, call[c].of.base[f])
                              /\ f < at => BackedUp(c, f)
       /\ Unsettled(c) =>
             \A f \in Files : BackedUp(c, f) /\ BareBut(c, f, target[f])
       /\ call[c].pc \in Replacing =>
             \A f \in Files : /\ Bare(f, call[c].of.base[f])
                              /\ f > at /\ f \notin call[c].lost
                                    => Bare(f, target[f])
       /\ call[c].pc = "displace" => Undoing(c) \/ Bare(at, target[at])
       /\ call[c].pc \in {"install", "finish"} =>
             IF Undoing(c) THEN BareBut(c, at, old) ELSE Bare(at, old)
       /\ call[c].pc = "finish" /\ Undoing(c) => Bare(at, target[at])

\* Between commits all workbooks are bare.
Settled == (\A c \in Calls : ~Unsettled(c)) => \A f \in Files : Bare(f, target[f])

Past == <<record, halved, again>>

\* What a commit has backed up is safe should the commit end halfway.
LEMMA BackedUpIsSafe ==
  ASSUME NEW c \in Calls, NEW f \in Files, BackedUp(c, f), Key(c) \in Unrecorded
  PROVE  Safe(Key(c), f)
  BY DEF BackedUp, Bare, Safe

\* A workbook that is bare lacks the package of a commit or has it safely.
LEMMA BareIsBareBut ==
  ASSUME NEW c, NEW f, NEW content, Bare(f, content)
  PROVE  BareBut(c, f, content)
  BY DEF Bare, BareBut

\* Only one commit can have work to undo.
LEMMA OneUnsettled ==
  ASSUME Inv, NEW c \in Calls, call[c].pc \in Locked, NEW d \in Calls, d # c
  PROVE  ~Unsettled(d)
  BY DEF Inv, Ordered, Holder, Unsettled, Replacing, Locked

\* After an exception the commit rolls back or has restored everything but
\* what it has lost.
LEMMA OriginalLoses ==
  ASSUME Inv, NEW c \in Calls, call[c].pc \in Replacing,
         NEW lost, call' = Loses(c, lost), UNCHANGED <<backup, Past>>,
         call[c].at \in 1..Workbooks + 1,
         \A f \in Files : /\ Bare(f, call[c].of.base[f])
                          /\ BackedUp(c, f)
                          /\ f >= call[c].at /\ f \notin call[c].lost \cup lost
                                => Bare(f, target'[f])
                          /\ BareBut(c, f, target'[f])
  PROVE  Original(c)' /\ Settled'
<1> USE ExportAssumption
<1>0. /\ call \in [Calls -> Call] /\ call'[c].of = call[c].of
      /\ call'[c].lost = call[c].lost \cup lost
      /\ Unrecorded' = Unrecorded /\ UNCHANGED <<backup, halved>>
  BY LosesFields DEF Inv, Typed, TypeOK, Unrecorded, Past
<1>1. CASE call'[c].pc = "release" /\ call[c].at - 1 < 1
  <2>1. \A f \in Files : f >= call[c].at
    BY <1>1 DEF Files
  <2>2. Settled'
    <3>1. CASE call'[c].lost = {}
      BY <1>0, <2>1, <3>1 DEF Settled, Bare, Safe
    <3>2. CASE call'[c].lost # {}
      BY <1>1, <3>2 DEF Settled, Unsettled
    <3> QED
      BY <3>1, <3>2
  <2> QED
    BY <1>0, <1>1, <2>2
    DEF Original, Replacing, Unsettled, BackedUp, Bare, BareBut, Safe, Key
<1>2. CASE /\ call'[c].pc = "displace" /\ call'[c].status = "undoing"
           /\ call'[c].at = call[c].at - 1
  <2>1. \A f \in Files : f > call[c].at - 1 => f >= call[c].at
    BY DEF Files
  <2>2. Settled'
    BY <1>2 DEF Settled, Unsettled, Replacing
  <2> QED
    BY <1>0, <1>2, <2>1, <2>2
    DEF Original, Unsettled, Replacing, BackedUp, Bare, BareBut, Safe, Key, Undoing
<1> QED
  BY <1>0, <1>1, <1>2, LosesFields

\* Nobody replaces while a commit compares and backs up, so what it finds is
\* bare; and a package left halfway before is from its first backup on tried
\* again.
LEMMA OriginalPreparing ==
  ASSUME Inv, NEW c \in Calls, Original(c), Settled, Reversible(c),
         Lookup(c) \/ Denied(c) \/ TakeLock(c) \/ LockTaken(c) \/ LockLeaks(c)
         \/ Recheck(c) \/ CheckBaseline(c) \/ BackUp(c) \/ GivesUp(c)
  PROVE  Original(c)' /\ Settled'
<1> USE ExportAssumption
<1>0. /\ call \in [Calls -> Call] /\ call[c] \in Call
      /\ ~Undoing(c) /\ Key(c) \in Packages /\ call[c].lost = {}
      /\ call[c].pc \in {"lookup", "lock", "recheck", "check", "backup"}
  BY DEF Inv, Typed, TypeOK, ControlOK, Lookup, Denied, TakeLock, LockTaken,
         LockLeaks, Recheck, CheckBaseline, BackUp, GivesUp, Key, Preview,
         Reversible
<1>e. UNCHANGED <<target, record, halved>> /\ (BackUp(c) \/ UNCHANGED <<backup, again>>)
  BY DEF Lookup, Denied, TakeLock, LockTaken, LockLeaks, Recheck,
         CheckBaseline, BackUp, GivesUp, disk, past, outsiders
<1>o. \A d \in Calls \ {c} : call'[d] = call[d]
  BY <1>0, StepFrame DEF CommitStep
<1>u. ~Unsettled(c)
  BY <1>0 DEF Unsettled, Replacing
<1>w. call[c].pc \in {"check", "backup"} => \A f \in Files : Bare(f, target[f])
  BY <1>u, OneUnsettled DEF Settled, Locked
<1>s. ASSUME UNCHANGED <<backup, again>>, ~Unsettled(c)' PROVE Settled'
  <2>1. Unrecorded' = Unrecorded
    BY <1>e, <1>s DEF Unrecorded
  <2>2. \A d \in Calls \ {c} : Unsettled(d)' = Unsettled(d)
    BY <1>o DEF Unsettled
  <2> QED
    BY <1>e, <1>s, <1>u, <2>1, <2>2 DEF Settled, Bare, Safe
<1>1. CASE \/ Lookup(c) \/ Denied(c) \/ TakeLock(c) \/ LockTaken(c)
           \/ LockLeaks(c) \/ GivesUp(c)
  <2>1. call'[c].pc \in {"idle", "lock", "answer", "recheck", "release"}
        /\ call'[c].lost = {} /\ UNCHANGED <<backup, again>>
    BY <1>0, <1>1, GoFields, EndFields, ThrowsFields, IdleTyped
    DEF Lookup, Denied, TakeLock, LockTaken, LockLeaks, GivesUp, disk, past
  <2> QED
    BY <1>s, <2>1 DEF Original, Unsettled, Replacing
<1>2. CASE Recheck(c)
  <2>1. /\ \/ call'[c].pc = "check" /\ call'[c].at = 1
           \/ call'[c].pc = "release"
        /\ call'[c].lost = {} /\ UNCHANGED <<backup, again>>
    BY <1>0, <1>2, GoFields, EndFields DEF Recheck, disk, past
  <2> QED
    BY <1>s, <2>1 DEF Original, Unsettled, Replacing, Files
<1>3. CASE CheckBaseline(c)
  <2>0. /\ call[c].at \in Files /\ UNCHANGED <<backup, again>> /\ call[c].pc = "check"
    BY <1>3 DEF CheckBaseline, Inv, Typed, ControlOK, disk, past
  <2>1. /\ \/ call'[c].pc = "release"
           \/ /\ call'[c].of = call[c].of
              /\ call'[c].conflict = (call[c].conflict \/ ~Unchanged(c))
              /\ \/ /\ call'[c].pc = "check" /\ call'[c].at = call[c].at + 1
                 \/ /\ call'[c].pc = "backup" /\ call'[c].at = 1
                    /\ call[c].at = Workbooks /\ ~call'[c].conflict
        /\ call'[c].lost = {}
    <3> DEFINE last == call[c].at = Workbooks
               conflict == call[c].conflict \/ ~Unchanged(c)
    <3>1. CASE last /\ conflict
      BY <1>0, <1>3, <3>1, EndFields DEF CheckBaseline
    <3>2. CASE ~(last /\ conflict)
      BY <1>0, <1>3, <3>2 DEF CheckBaseline, Call
    <3> QED
      BY <3>1, <3>2
  <2>2. Settled' /\ Unrecorded' = Unrecorded
    BY <1>e, <1>s, <2>0, <2>1 DEF Unsettled, Replacing, Unrecorded
  <2>3. CASE call'[c].pc = "release"
    BY <2>1, <2>2, <2>3 DEF Original, Unsettled, Replacing
  <2>4. ASSUME call'[c].pc # "release", ~call'[c].conflict,
               NEW f \in Files, f <= call[c].at
        PROVE  Bare(f, call[c].of.base[f])
    <3>1. CASE f = call[c].at
      BY <1>w, <2>0, <2>1, <2>4, <3>1 DEF Unchanged
    <3>2. CASE f < call[c].at
      BY <2>0, <2>1, <2>4, <3>2 DEF Original
    <3> QED
      BY <2>0, <2>4, <3>1, <3>2 DEF Files
  <2>5. CASE call'[c].pc = "check"
    BY <1>e, <2>0, <2>1, <2>2, <2>4, <2>5
    DEF Original, Unsettled, Replacing, Bare, Safe, Files
  <2>6. CASE call'[c].pc = "backup"
    BY <1>e, <2>0, <2>1, <2>2, <2>4, <2>6
    DEF Original, Unsettled, Replacing, Bare, Safe, Files
  <2> QED
    BY <2>1, <2>3, <2>5, <2>6
<1>4. CASE BackUp(c)
  <2>0. PICK k \in Packages : k = Key(c)
    BY <1>0
  <2>1. /\ call[c].at \in Files /\ call[c].pc = "backup" /\ target[call[c].at] # Missing
        /\ \A q \in Packages, f \in Files :
              backup'[q][f] = IF q = k /\ f = call[c].at THEN target[f] ELSE backup[q][f]
    BY <1>0, <1>4, <2>0 DEF BackUp, Inv, Typed, TypeOK, ControlOK
  <2>2. /\ call'[c].of = call[c].of /\ call'[c].status = call[c].status
        /\ call'[c].lost = {}
        /\ \/ /\ call'[c].pc = "backup" /\ call'[c].at = call[c].at + 1
           \/ /\ call'[c].pc = "displace" /\ call'[c].at = 1
              /\ call[c].at = Workbooks
    BY <1>0, <1>4, GoFields DEF BackUp
  <2>3. Unrecorded' \subseteq Unrecorded /\ (k \in Unrecorded' => k \notin halved)
    BY <1>e, <1>4, <2>0 DEF BackUp, Unrecorded
  <2>4. ASSUME NEW f \in Files, NEW content, Bare(f, content) PROVE Bare(f, content)'
    <3> SUFFICES ASSUME content # Missing, NEW q \in Unrecorded', q \in content
                 PROVE  q \in halved' /\ Safe(q, f)'
      BY DEF Bare
    <3>1. q \in Unrecorded /\ q \in halved /\ Safe(q, f)
      BY <2>3, <2>4 DEF Bare
    <3>2. q # k /\ q \in Packages
      BY <2>3, <3>1 DEF Unrecorded
    <3> QED
      BY <1>e, <2>1, <3>1, <3>2 DEF Safe
  <2>5. ASSUME NEW f \in Files
        PROVE  /\ Bare(f, call[c].of.base[f])' /\ Bare(f, target[f])'
               /\ f <= call[c].at => BackedUp(c, f)'
    <3>1. Bare(f, call[c].of.base[f]) /\ Bare(f, target[f])
      BY <1>w, <2>1 DEF Original
    <3>2. Bare(f, call[c].of.base[f])'
      BY <2>2, <2>4, <3>1 DEF Bare
    <3>3. Bare(f, target[f])'
      BY <1>e, <2>4, <3>1 DEF Bare
    <3>4. Key(c)' = k
      BY <2>0, <2>2 DEF Key
    <3>5. (Key(c) \in Unrecorded => Key(c) \notin halved)'
      BY <1>e, <2>3, <3>4
    <3>6. CASE f = call[c].at
      <4>1. backup'[k][f] = target'[f] /\ target'[f] # Missing
        BY <1>e, <2>1, <3>6
      <4>2. Bare(f, backup[Key(c)][f])'
        BY <3>3, <3>4, <4>1 DEF Bare
      <4>3. (backup[Key(c)][f] # Missing)'
        BY <3>4, <4>1
      <4> QED
        BY <3>2, <3>3, <3>5, <4>2, <4>3 DEF BackedUp
    <3>7. CASE f < call[c].at
      <4>1. backup[k][f] # Missing /\ Bare(f, backup[k][f])
        BY <2>0, <2>1, <3>7 DEF Original, BackedUp
      <4>2. backup'[k][f] = backup[k][f]
        BY <2>1, <3>7 DEF Files
      <4>3. Bare(f, backup[k][f])'
        BY <2>4, <4>1, <4>2 DEF Bare
      <4>4. Bare(f, backup[Key(c)][f])'
        BY <3>4, <4>3 DEF Bare
      <4>5. (backup[Key(c)][f] # Missing)'
        BY <3>4, <4>1, <4>2
      <4> QED
        BY <3>2, <3>3, <3>5, <4>4, <4>5 DEF BackedUp
    <3> QED
      BY <2>1, <3>2, <3>3, <3>6, <3>7 DEF Files
  <2>6. CASE call'[c].pc = "backup"
    <3>1. Original(c)'
      BY <2>1, <2>2, <2>5, <2>6 DEF Original, Unsettled, Replacing, Files
    <3>2. Settled'
      BY <2>5 DEF Settled
    <3> QED
      BY <3>1, <3>2
  <2>7. CASE call'[c].pc = "displace"
    <3>1. ~Undoing(c)'
      BY <1>0, <2>2 DEF Undoing
    <3>2. \A f \in Files : /\ BackedUp(c, f)' /\ Bare(f, target[f])'
                           /\ Bare(f, call[c].of.base[f])'
      BY <2>2, <2>5, <2>7 DEF Files
    <3>3. \A f \in Files : BareBut(c, f, target[f])'
      BY <3>2 DEF Bare, BareBut
    <3>4. call'[c].at \in Files
      BY <2>2, <2>7, ExportAssumption DEF Files
    <3>5. Original(c)'
      BY <2>7, <3>1, <3>2, <3>3, <3>4 DEF Original
    <3>6. Settled'
      BY <3>2 DEF Settled
    <3> QED
      BY <3>5, <3>6
  <2> QED
    BY <2>2, <2>6, <2>7
<1> QED
  BY <1>1, <1>2, <1>3, <1>4

\* Replacing adds the package that is delivered, the rollback takes it out.
LEMMA OriginalReplacing ==
  ASSUME Inv, NEW c \in Calls, Reversible(c), Original(c),
         Displace(c) \/ DisplaceFails(c) \/ Install(c) \/ InstallFails(c)
         \/ CleanupFails(c) \/ Finish(c) \/ RereadFails(c)
  PROVE  Original(c)' /\ Settled'
<1> USE ExportAssumption
<1> DEFINE at == call[c].at
<1>0. /\ call \in [Calls -> Call] /\ call[c] \in Call /\ Typed
      /\ at \in Files /\ at \in 1..Workbooks + 1 /\ call[c].of \in Preview
      /\ call[c].pc \in {"displace", "install", "finish"}
      /\ call[c].pc \in Replacing /\ Unsettled(c)
      /\ target \in [Files -> Content \cup {Missing}]
  BY DEF Inv, Typed, TypeOK, ControlOK, Displace, DisplaceFails, Install,
         InstallFails, CleanupFails, Finish, RereadFails, Files, Replacing,
         Unsettled
<1>e. UNCHANGED <<backup, Past>> /\ Unrecorded' = Unrecorded
  BY DEF Displace, DisplaceFails, Install, InstallFails, CleanupFails,
         PutsBack, Finish, RereadFails, disk, past, Past, Unrecorded
<1>l. call[c].lost # {} => Undoing(c)
  BY <1>0 DEF Reversible
<1>p. \A f \in Files : /\ Bare(f, call[c].of.base[f])
                       /\ BackedUp(c, f)
                       /\ f > at /\ f \notin call[c].lost => Bare(f, target[f])
                       /\ BareBut(c, f, target[f])
  BY <1>0 DEF Original
\* An exception that leaves the other workbooks as they were.
<1>x. ASSUME NEW lost, call' = Loses(c, lost),
             \A f \in Files \ {at} : target'[f] = target[f],
             at \in lost \/ Bare(at, target'[at]), BareBut(c, at, target'[at])
      PROVE  Original(c)' /\ Settled'
  <2>1. \A f \in Files : /\ f >= at /\ f \notin call[c].lost \cup lost
                               => Bare(f, target'[f])
                         /\ BareBut(c, f, target'[f])
    BY <1>0, <1>p, <1>x DEF Files
  <2> QED
    BY <1>0, <1>e, <1>p, <1>x, <2>1, OriginalLoses
<1>1. CASE Displace(c)
  <2>1. /\ call'[c].pc = "install" /\ call'[c].old = target[at]
        /\ call'[c].of = call[c].of /\ call'[c].at = at
        /\ call'[c].status = call[c].status /\ call'[c].lost = call[c].lost
    BY <1>0, <1>1 DEF Displace, Call
  <2>2. \A f \in Files : target'[f] = IF f = at THEN Missing ELSE target[f]
    BY <1>0, <1>1 DEF Displace
  <2>3. /\ IF Undoing(c) THEN BareBut(c, at, target[at]) ELSE Bare(at, target[at])
        /\ \A f \in Files : BareBut(c, f, target'[f])
    BY <1>0, <1>1, <1>p, <2>2 DEF Displace, Original, BareBut
  <2>4. Settled'
    BY <2>1 DEF Settled, Unsettled, Replacing
  <2> QED
    BY <1>0, <1>e, <1>p, <2>1, <2>2, <2>3, <2>4
    DEF Original, Unsettled, Replacing, BackedUp, Bare, BareBut, Safe, Key,
        Undoing, Past
<1>2. CASE DisplaceFails(c)
  <2>1. call' = RollsBack(c) /\ UNCHANGED target
    BY <1>2 DEF DisplaceFails, disk
  <2>2. Undoing(c) \/ Bare(at, target[at])
    BY <1>2 DEF DisplaceFails, Original
  <2> QED
    BY <1>0, <1>p, <1>x, <2>1, <2>2 DEF RollsBack, This
<1>3. CASE Install(c)
  <2>1. /\ call'[c].pc = "finish" /\ call'[c].at = at
        /\ call'[c].of = call[c].of /\ call'[c].old = call[c].old
        /\ call'[c].status = call[c].status /\ call'[c].lost = call[c].lost
    BY <1>0, <1>3, GoFields DEF Install
  <2>2. \A f \in Files :
           target'[f] = IF f = at THEN call[c].pending ELSE target[f]
    BY <1>0, <1>3 DEF Install
  <2>3. IF Undoing(c) THEN BareBut(c, at, call[c].old) ELSE Bare(at, call[c].old)
    BY <1>3 DEF Install, Original
  <2>4. Undoing(c) => Bare(at, call[c].pending)
    BY <1>0, <1>3, <1>p DEF Install, Inv, Ordered, FromBackup, BackedUp
  <2>5. BareBut(c, at, call[c].pending)
    <3>1. CASE Undoing(c)
      BY <2>4, <3>1, BareIsBareBut
    <3>2. CASE ~Undoing(c)
      <4>1. call[c].pending = Merged(call[c].of, at)
        BY <1>3, <3>2 DEF Install, Inv, Ordered, InPlace
      <4>2. call[c].of.base[at] # Missing
        BY <1>0 DEF Preview
      <4>3. Bare(at, call[c].of.base[at])
        BY <1>0, <1>p
      <4> QED
        BY <4>1, <4>2, <4>3 DEF Merged, Key, Bare, BareBut
    <3> QED
      BY <3>1, <3>2
  <2>6. Settled'
    BY <2>1 DEF Settled, Unsettled, Replacing
  <2>7. \A f \in Files : /\ f > at => f # at
                         /\ BareBut(c, f, target'[f])
    BY <1>0, <1>p, <2>2, <2>5 DEF Files
  <2> QED
    BY <1>0, <1>e, <1>p, <2>1, <2>2, <2>3, <2>4, <2>6, <2>7
    DEF Original, Unsettled, Replacing, BackedUp, Bare, BareBut, Safe, Key,
        Undoing, Past
<1>4. CASE InstallFails(c) \/ CleanupFails(c)
  <2>1. /\ \A f \in Files \ {at} : target'[f] = target[f]
        /\ \/ call' = RollsBack(c) /\ target'[at] = call[c].old
           \/ call' = Loses(c, This(c)) /\ target'[at] \in {Missing, target[at]}
    BY <1>0, <1>4 DEF InstallFails, CleanupFails, PutsBack
  <2>2. /\ Undoing(c) \/ Bare(at, call[c].old)
        /\ BareBut(c, at, call[c].old)
    BY <1>4, BareIsBareBut DEF InstallFails, CleanupFails, Original
  <2>3. BareBut(c, at, target[at]) /\ BareBut(c, at, Missing)
    BY <1>0, <1>p DEF BareBut
  <2>4. CASE call' = RollsBack(c) /\ target'[at] = call[c].old
    BY <1>x, <2>1, <2>2, <2>4 DEF RollsBack, This
  <2>5. CASE call' = Loses(c, This(c)) /\ target'[at] \in {Missing, target[at]}
    BY <1>x, <2>1, <2>3, <2>5 DEF This
  <2> QED
    BY <2>1, <2>4, <2>5
<1>5. CASE Finish(c)
  <2>1. UNCHANGED target
    BY <1>5 DEF Finish, disk
  <2>2. CASE Undoing(c)
    <3>1. Bare(at, target[at])
      BY <1>5, <2>2 DEF Finish, Original
    <3> QED
      BY <1>0, <1>5, <1>p, <1>x, <2>1, <2>2, <3>1 DEF Finish
  <2>3. CASE ~Undoing(c)
    <3>1. /\ call'[c].pc \in {"validate", "displace"}
          /\ call'[c].pc = "displace" => at + 1 \in Files
          /\ call'[c].at = at + 1 /\ ~Undoing(c)' /\ call'[c].lost = {}
          /\ call'[c].of = call[c].of
      BY <1>0, <1>5, <2>3, PassesFields DEF Undoing, Files
    <3>2. \A f \in Files : f > at + 1 \/ f = at + 1 => f > at
      BY <1>0 DEF Files
    <3>3. Settled'
      BY <3>1 DEF Settled, Unsettled, Replacing
    <3> QED
      BY <1>e, <1>l, <1>p, <2>1, <2>3, <3>1, <3>2, <3>3
      DEF Original, Unsettled, Replacing, BackedUp, Bare, BareBut, Safe, Key, Past
  <2> QED
    BY <2>2, <2>3
<1>6. CASE RereadFails(c)
  BY <1>0, <1>6, <1>p, <1>x DEF RereadFails, This, disk
<1> QED
  BY <1>1, <1>2, <1>3, <1>4, <1>5, <1>6

\* When c stops, whatever it leaves of its package is safe.
LEMMA OriginalEnds ==
  ASSUME Inv, NEW c \in Calls, Original(c), Settled, call[c].pc \in Locked, Reversible(c),
         UNCHANGED <<target, backup, record, again>>,
         halved \subseteq halved', Halfway(c) => Key(c) \in halved'
  PROVE  \A f \in Files : Bare(f, target[f])'
<1> USE ExportAssumption
<1>1. Unrecorded' = Unrecorded
  BY DEF Unrecorded
<1> SUFFICES ASSUME NEW f \in Files, target[f] # Missing,
                    NEW q \in Unrecorded, q \in target[f]
             PROVE  q \in halved' /\ Safe(q, f)
  BY <1>1 DEF Bare, Safe
<1>2. CASE Bare(f, target[f])
  BY <1>2 DEF Bare
<1>3. CASE ~Bare(f, target[f])
  <2>1. Unsettled(c)
    BY <1>3, OneUnsettled DEF Settled
  <2>2. BackedUp(c, f) /\ BareBut(c, f, target[f])
    BY <2>1 DEF Original
  <2>3. CASE q # Key(c)
    BY <2>2, <2>3 DEF BareBut
  <2>4. CASE q = Key(c)
    <3>1. Halfway(c)
      <4> SUFFICES ASSUME ~Halfway(c) PROVE FALSE
        OBVIOUS
      <4>1. call[c].pc = "displace" /\ ~Undoing(c) /\ ~(call[c].at > 1)
            /\ call[c].lost = {} /\ call[c].pc \in Replacing /\ call[c].at = 1
        BY <2>1 DEF Halfway, Unsettled, Replacing, Inv, Typed, ControlOK, Files
      <4>2. f = call[c].at \/ f > call[c].at
        BY <4>1 DEF Files
      <4> QED
        BY <1>3, <4>1, <4>2 DEF Original
    <3> QED
      BY <2>2, <2>4, <3>1, BackedUpIsSafe
  <2> QED
    BY <2>3, <2>4
<1> QED
  BY <1>2, <1>3

\* Once the record is written, its package is no longer one of those that
\* may not be there.
LEMMA OriginalRecording ==
  ASSUME Inv, NEW c \in Calls, Original(c), Settled, Reversible(c),
         Validate(c) \/ CreateRecord(c) \/ WriteRecord(c) \/ RecordFails(c)
         \/ Release(c) \/ ReleaseFails(c) \/ Answered(c)
  PROVE  Original(c)' /\ Settled'
<1> USE ExportAssumption
<1>0. /\ call \in [Calls -> Call] /\ Typed
      /\ record \in [Packages -> Preview \cup {None, Torn}]
  BY DEF Inv, Typed, TypeOK
<1>o. \A d \in Calls \ {c} : call'[d] = call[d]
  BY <1>0, StepFrame DEF CommitStep
<1>e. UNCHANGED <<target, backup, again>>
  BY DEF Validate, CreateRecord, WriteRecord, RecordFails, Release,
         ReleaseFails, Answered, disk, past
<1>1. CASE Validate(c) \/ RecordFails(c) \/ CreateRecord(c)
  <2>0. /\ call[c].pc \in {"validate", "create", "record"}
        /\ call[c].pc \in Replacing /\ Unsettled(c) /\ ~Undoing(c)
        /\ call[c].at = Workbooks + 1 /\ call[c].at \in 1..Workbooks + 1
        /\ UNCHANGED halved
    BY <1>0, <1>1
    DEF Validate, RecordFails, CreateRecord, Typed, ControlOK, Replacing,
        Unsettled, past
  <2>1. \A f \in Files : /\ Bare(f, call[c].of.base[f])
                         /\ BackedUp(c, f)
                         /\ BareBut(c, f, target[f])
    BY <2>0 DEF Original
  <2>2. CASE call' = RollsBack(c) /\ UNCHANGED record
    <3>1. \A f \in Files : ~(f >= call[c].at)
      BY <2>0 DEF Files
    <3> QED
      BY <1>e, <2>0, <2>1, <2>2, <3>1, OriginalLoses DEF RollsBack, Past
  <2>3. CASE \E pc \in {"create", "record"} : call' = Go(c, pc, call[c].at)
    <3>1. /\ call'[c].pc \in {"create", "record"} /\ call'[c].of = call[c].of
          /\ call'[c].at = call[c].at
      BY <1>0, <2>3, GoFields
    <3>2. Unrecorded' = Unrecorded
      <4>1. UNCHANGED record \/ CreateRecord(c)
        BY <1>1 DEF Validate, RecordFails, disk
      <4>2. CASE CreateRecord(c)
        BY <1>0, <1>e, <4>2 DEF CreateRecord, Unrecorded
      <4> QED
        BY <1>e, <4>1, <4>2 DEF Unrecorded
    <3>3. \A f \in Files : ~(f > call[c].at)
      BY <2>0 DEF Files
    <3>4. Settled'
      BY <3>1 DEF Settled, Unsettled, Replacing
    <3> QED
      BY <1>e, <2>0, <2>1, <3>1, <3>2, <3>3, <3>4
      DEF Original, Unsettled, Replacing, BackedUp, Bare, BareBut, Safe, Key
  <2> QED
    BY <1>1, <2>2, <2>3 DEF Validate, RecordFails, CreateRecord, disk
<1>2. CASE WriteRecord(c)
  <2>1. /\ call'[c].pc = "release" /\ call'[c].lost = {} /\ call[c].pc \in Replacing
        /\ Unsettled(c) /\ call[c].of \in Preview /\ Key(c) \in Packages
        /\ UNCHANGED halved
    BY <1>0, <1>2, EndFields
    DEF WriteRecord, Replacing, Unsettled, Typed, ControlOK, Key, Preview, past
  <2>2. record' = [record EXCEPT ![Key(c)] = call[c].of]
    BY <1>2 DEF WriteRecord
  <2>3. Unrecorded' \subseteq Unrecorded \ {Key(c)}
    BY <1>0, <1>e, <2>1, <2>2 DEF Unrecorded
  <2>4. \A f \in Files : BareBut(c, f, target[f])
    BY <2>1 DEF Original
  <2>5. \A f \in Files : Bare(f, target[f])'
    BY <1>e, <2>1, <2>3, <2>4 DEF Bare, BareBut, Safe
  <2> QED
    BY <2>1, <2>5 DEF Original, Settled, Unsettled, Replacing
<1>3. CASE ReleaseFails(c) \/ Release(c)
  <2>1. /\ call'[c].pc \in {"answer", "idle"} /\ call'[c].lost = {}
        /\ call[c].pc \in Locked /\ UNCHANGED record
        /\ halved' = halved \cup {Key(d) : d \in {x \in {c} : Halfway(x)}}
    BY <1>0, <1>3, EndFields, ThrowsFields, IdleTyped
    DEF ReleaseFails, Release, Ends, Locked
  <2>2. \A f \in Files : Bare(f, target[f])'
    BY <1>e, <2>1, OriginalEnds
  <2> QED
    BY <2>1, <2>2 DEF Original, Settled, Unsettled, Replacing
<1>4. CASE Answered(c)
  <2>1. /\ call'[c].pc = "idle" /\ call'[c].lost = {} /\ ~Unsettled(c)
        /\ UNCHANGED <<record, halved>> /\ Unrecorded' = Unrecorded
    BY <1>0, <1>4, IdleTyped DEF Answered, Unsettled, Replacing, Unrecorded, disk, past
  <2> QED
    BY <1>e, <1>o, <2>1 DEF Original, Settled, Unsettled, Replacing, Bare, Safe
<1> QED
  BY <1>1, <1>2, <1>3, <1>4

\* The step of a commit leaves the workbooks another one works on alone.
LEMMA OriginalOther ==
  ASSUME Inv, NEW c \in Calls, CommitStep(c) \/ Denied(c),
         NEW d \in Calls \ {c}, Original(d)
  PROVE  Original(d)'
<1>0. call'[d] = call[d]
  BY StepFrame DEF Inv, Typed, TypeOK
<1>1. CASE call[d].pc \in Locked
  <2>1. lock = d /\ call[c].pc \notin Locked
    BY <1>1, ExportAssumption DEF Inv, Ordered, Holder
  <2>2. UNCHANGED <<target, backup, record, halved, again>>
    BY <2>1, Unlocked, UnlockedPast
  <2> QED
    BY <1>0, <2>2
    DEF Original, Unsettled, BackedUp, Bare, BareBut, Safe, Unrecorded, Key, Undoing
<1>2. CASE call[d].pc \notin Locked
  BY <1>0, <1>2 DEF Original, Unsettled, Replacing, Locked
<1> QED
  BY <1>1, <1>2

\* Others' edits are not packages; a crash may leave the package of the commit
\* it kills behind, whose backups it leaves behind as well.
LEMMA OriginalAround ==
  ASSUME Inv, Settled, \A d \in Calls : Original(d), \A d \in Calls : Reversible(d),
         \/ \E q \in Packages : StartPreview(q)
         \/ ReadWorkbook \/ PreviewBlocked \/ StagePreview
         \/ \E v \in previews :
               ForgetPreview(v) \/ \E c \in Calls : StartCommit(c, v)
         \/ \E e \in Edits, f \in Files : OutsiderEdits(e, f)
         \/ AdminUnlocks \/ Crash
  PROVE  Settled' /\ \A d \in Calls : Original(d)'
<1> USE ExportAssumption
<1>0. /\ call \in [Calls -> Call]
      /\ target \in [Files -> Content \cup {Missing}]
  BY DEF Inv, Typed, TypeOK
<1>1. CASE UNCHANGED <<target, backup, record, call, halved, again>>
  BY <1>1 DEF Settled, Original, Unsettled, BackedUp, Bare, BareBut, Safe,
              Unrecorded, Key, Undoing
<1>2. CASE \E v \in previews, c \in Calls : StartCommit(c, v)
  <2>1. PICK v \in previews, c \in Calls : StartCommit(c, v)
    BY <1>2
  <2>2. UNCHANGED <<target, backup, record, halved, again>>
    BY <2>1 DEF StartCommit, disk, past
  <2>3. \A d \in Calls :
           \/ call'[d] = call[d]
           \/ /\ call'[d].pc = "lookup" /\ call[d].pc = "idle"
              /\ call'[d].lost = {}
    BY <1>0, <2>1 DEF StartCommit, Idle
  <2>4. ASSUME NEW d \in Calls PROVE Original(d)'
    <3>1. CASE call'[d] = call[d]
      BY <2>2, <3>1 DEF Original, Unsettled, BackedUp, Bare, BareBut, Safe,
                        Unrecorded, Key, Undoing
    <3>2. CASE call'[d].pc = "lookup"
      BY <3>2 DEF Original, Unsettled, Replacing
    <3> QED
      BY <2>3, <3>1, <3>2
  <2>5. Settled'
    <3>1. \A d \in Calls : Unsettled(d) => Unsettled(d)'
      BY <2>3 DEF Unsettled, Replacing
    <3> QED
      BY <2>2, <3>1 DEF Settled, Bare, Safe, Unrecorded
  <2> QED
    BY <2>4, <2>5
<1>3. CASE \E e \in Edits, f \in Files : OutsiderEdits(e, f)
  <2>1. PICK e \in Edits, f \in Files : OutsiderEdits(e, f)
    BY <1>3
  <2>2. /\ UNCHANGED <<backup, record, call, halved, again>> /\ target[f] # Missing
        /\ \A g \in Files : target'[g] = IF g = f THEN target[f] \cup {e}
                                         ELSE target[g]
        /\ Unrecorded' = Unrecorded /\ e \notin Unrecorded
    BY <1>0, <2>1 DEF OutsiderEdits, Unrecorded
  <2>3. \A g \in Files :
           /\ Bare(g, target[g]) => Bare(g, target[g])'
           /\ \A c \in Calls : BareBut(c, g, target[g]) => BareBut(c, g, target[g])'
    BY <2>2 DEF Bare, BareBut, Safe, Key
  <2>4. ASSUME NEW d \in Calls PROVE Original(d)'
    <3>1. call[d].pc \in {"displace", "finish"} => call[d].at \in Files
      BY DEF Inv, Typed, ControlOK
    <3> DEFINE same == UNCHANGED <<backup, call, halved>> /\ Unrecorded' = Unrecorded
    <3>2. same
      BY <2>2
    <3> QED
      BY <2>2, <2>3, <3>1
      DEF Original, Unsettled, BackedUp, Bare, BareBut, Safe, Key, Undoing, Replacing
  <2>5. Settled'
    BY <2>2, <2>3 DEF Settled, Unsettled
  <2> QED
    BY <2>4, <2>5
<1>4. CASE Crash
  <2>1. /\ \A d \in Calls : call'[d] = Idle
        /\ UNCHANGED <<target, backup, record, again>>
        /\ halved' = halved \cup {Key(d) : d \in {x \in Calls : Halfway(x)}}
    BY <1>4 DEF Crash, Ends
  <2>2. \A d \in Calls : ~Unsettled(d)' /\ Original(d)'
    BY <2>1 DEF Idle, Original, Unsettled, Replacing
  <2>3. \A f \in Files : Bare(f, target[f])'
    <3>1. CASE \E c \in Calls : call[c].pc \in Locked
      BY <2>1, <3>1, OriginalEnds
    <3>2. CASE \A c \in Calls : call[c].pc \notin Locked
      <4>1. \A f \in Files : Bare(f, target[f])
        BY <3>2 DEF Settled, Unsettled, Replacing, Locked
      <4> QED
        BY <2>1, <4>1 DEF Bare, Safe, Unrecorded
    <3> QED
      BY <3>1, <3>2
  <2> QED
    BY <2>2, <2>3 DEF Settled
<1>5. CASE \/ \E q \in Packages : StartPreview(q)
           \/ ReadWorkbook \/ PreviewBlocked \/ StagePreview \/ AdminUnlocks
           \/ \E v \in previews : ForgetPreview(v)
  BY <1>1, <1>5
  DEF StartPreview, ReadWorkbook, PreviewBlocked, StagePreview, AdminUnlocks,
      ForgetPreview, disk, past, outsiders
<1> QED
  BY <1>2, <1>3, <1>4, <1>5

\* As long as a package is not committed, every workbook exists without it, in
\* place or as the backup, through failing rollbacks and crashes, until a
\* commit that finds the package left halfway backs the workbooks up again.
THEOREM OriginalKept == Spec => []OriginalRecoverable
<1> DEFINE R == \A c \in Calls : Reversible(c)
           O == Settled /\ \A c \in Calls : Original(c)
<1>1. Init => O
  BY DEF Init, Idle, Original, Settled, Unsettled, Replacing, Bare
<1>2. Inv /\ R /\ O /\ [Next]_vars => O'
  <2> SUFFICES ASSUME Inv, R, O, [Next]_vars PROVE O'
    OBVIOUS
  <2>1. CASE UNCHANGED vars
    BY <2>1
    DEF vars, Settled, Original, Unsettled, BackedUp, Bare, BareBut, Safe,
        Unrecorded, Key, Undoing
  <2>2. CASE \E c \in Calls : CommitStep(c) \/ Denied(c)
    <3>1. PICK c \in Calls : CommitStep(c) \/ Denied(c)
      BY <2>2
    <3>2. Original(c)' /\ Settled'
      BY <3>1, OriginalPreparing, OriginalReplacing, OriginalRecording
      DEF CommitStep
    <3>3. \A d \in Calls \ {c} : Original(d)'
      BY <3>1, OriginalOther
    <3> QED
      BY <3>2, <3>3
  <2> QED
    BY <2>1, <2>2, OriginalAround DEF Next
<1>3. O /\ Inv => OriginalRecoverable
  <2> SUFFICES ASSUME O, Inv, NEW q \in Packages \ again, NEW f \in Files,
                      record[q] \in {None, Torn}, target[f] # Missing,
                      q \in target[f]
               PROVE  Safe(q, f)
    BY DEF OriginalRecoverable, Safe
  <2>1. q \in Unrecorded
    BY DEF Unrecorded
  <2>2. CASE \A c \in Calls : ~Unsettled(c)
    BY <2>1, <2>2 DEF Settled, Bare
  <2>3. CASE \E c \in Calls : Unsettled(c)
    <3>1. PICK c \in Calls : Unsettled(c)
      BY <2>3
    <3>2. BackedUp(c, f) /\ BareBut(c, f, target[f])
      BY <3>1 DEF Original
    <3> QED
      BY <2>1, <3>2, BackedUpIsSafe DEF BareBut
  <2> QED
    BY <2>2, <2>3
<1> HIDE DEF R, O
<1> QED
  BY <1>1, <1>2, <1>3, ReversibleHolds, InvHolds, PTL DEF Spec, R
=============================================================================
