------------------------------ MODULE FancyHub ------------------------------
(***************************************************************************)
(* Asking Fancy Hub for an assessment: the connector admits a request      *)
(* through a file shared by all server processes, discovers the models,    *)
(* tries them in order with one retry each, audits and releases; the route *)
(* then saves the assessment and answers.                                  *)
(*                                                                         *)
(*   now        the clock                                                  *)
(*   leases[a]  when the lease of assessment a expires, or None            *)
(*   times      the requests that count for the rate limit, with the time  *)
(*              they carry                                                 *)
(*   cached     the concurrency limit discovered last, or None             *)
(*   task[a]    where assess and the route are                             *)
(*   log[a]     the audit events of the connector                          *)
(*   record[a]  the assessment as saved                                    *)
(* History: sent are all requests ever admitted; overtaken says that one   *)
(* was admitted with an earlier time than one admitted before it.          *)
(*                                                                         *)
(* leases, times and cached are one file, changed under its lock           *)
(* (mutateAdmission), so that each change is one step; waiting for the     *)
(* lock takes time.  There is one workspace; the rate limit and the sizes  *)
(* the provider reports are those of the deployment.                       *)
(***************************************************************************)
EXTENDS Integers, Sequences, FiniteSets

CONSTANTS
    Assessments,
    Limit,       \* concurrency the deployment allows
    Reported,    \* what the provider may report as its concurrency limit
    Rate,        \* requests per window
    Window,
    Timeout,     \* from the start of an assessment to its deadline
    Models,      \* number of configured models
    Tries,       \* 1 + AI_TEMPORARY_ERROR_RETRY_COUNT
    Budget,      \* calls the batch limits pay for
    MaxNow,      \* bound of the clock
    MaxFaults,   \* bound: crashes and failing writes
    None

VARIABLES now, leases, times, cached, task, log, record, sent, overtaken, faults

admission == <<leases, times, cached>>
history == <<sent, overtaken>>
vars == <<now, admission, task, log, record, history, faults>>

Request == [by: Assessments, no: Nat, at: Nat]

Phases == {"discovery", "assessment"}

PCs == {"new", "begun", "limited", "held", "ready", "stamped", "admitted", "calling",
        "discovered", "audit", "release", "auditFailure", "save", "saveFailure",
        "done", "dead"}

Answers == {"none", "success", "error", "unrecorded"}

Task == [pc: PCs, phase: Phases, deadline: Nat, limit: Nat, before: Nat, stamp: Nat,
         requests: Nat, tries: Nat, calls: Nat, raw: Nat,
         ok: BOOLEAN, answer: Answers]

ASSUME HubAssumption ==
    /\ IsFiniteSet(Assessments)
    /\ Limit \in Nat \ {0} /\ Reported \subseteq Nat \ {0}
    /\ Rate \in Nat \ {0} /\ Window \in Nat \ {0}
    /\ Timeout \in Nat \ {0}
    /\ Models \in Nat /\ Tries \in Nat \ {0} /\ Budget \in Nat
    /\ MaxNow \in Nat /\ MaxFaults \in Nat
    /\ None \notin Nat

Least(m, n) == IF m <= n THEN m ELSE n

Init ==
    /\ now = 0
    /\ leases = [a \in Assessments |-> None]
    /\ times = {}
    /\ cached \in Reported \cup {None}
    /\ task = [a \in Assessments |->
                  [pc |-> "new", phase |-> "discovery", deadline |-> 0, limit |-> 0,
                   before |-> 0, stamp |-> 0, requests |-> 0, tries |-> 0,
                   calls |-> 0, raw |-> 0, ok |-> FALSE, answer |-> "none"]]
    /\ log = [a \in Assessments |-> << >>]
    /\ record = [a \in Assessments |-> "none"]
    /\ sent = {}
    /\ overtaken = FALSE
    /\ faults = 0

At(a, pc) == task[a].pc = pc
Set(a, new) == task' = [task EXCEPT ![a] = new]
Goto(a, pc) == Set(a, [task[a] EXCEPT !.pc = pc])
Late(a) == now >= task[a].deadline

\* An attempt leaves its raw record, whether it was answered or failed.
Attempted(a) ==
    [task[a] EXCEPT !.raw = @ + (IF task[a].phase = "assessment" THEN 1 ELSE 0)]

-----------------------------------------------------------------------------
(* Admission.                                                                *)

Begin(a) ==
    /\ At(a, "new")
    /\ now + Timeout <= MaxNow
    /\ Set(a, [task[a] EXCEPT !.pc = "begun", !.deadline = now + Timeout])
    /\ UNCHANGED <<now, admission, log, record, history, faults>>

ReadLimits(a) ==
    /\ At(a, "begun")
    /\ Set(a, [task[a] EXCEPT !.pc = "limited",
                   !.limit = IF cached = None THEN Limit ELSE Least(cached, Limit)])
    /\ UNCHANGED <<now, admission, log, record, history, faults>>

Live == {a \in Assessments : leases[a] # None /\ leases[a] > now}

Acquire(a) ==
    /\ At(a, "limited")
    /\ IF Cardinality(Live) >= task[a].limit
       THEN Goto(a, "auditFailure") /\ UNCHANGED leases
       ELSE /\ Set(a, [task[a] EXCEPT !.pc = "held", !.before = Cardinality(Live)])
            /\ leases' = [b \in Assessments |->
                             IF b = a THEN task[a].deadline
                             ELSE IF b \in Live THEN leases[b] ELSE None]
    /\ UNCHANGED <<now, times, cached, log, record, history, faults>>

\* The clock is read before the lock of the file is asked for ...
Stamp(a) ==
    /\ At(a, "held") \/ At(a, "ready")
    /\ IF Late(a) THEN Goto(a, "release")
       ELSE Set(a, [task[a] EXCEPT !.pc = "stamped", !.stamp = now])
    /\ UNCHANGED <<now, admission, log, record, history, faults>>

\* Mutant: the window is one too short.
CountedShort(stamp) == {r \in times : r.at > stamp - Window + 1 /\ r.at <= stamp}

Counted(stamp) == {r \in times : r.at > stamp - Window /\ r.at <= stamp}

\* ... and used when it is held: consumeAssessmentRequest.
Consume(a) ==
    /\ At(a, "stamped")
    /\ LET stamp == task[a].stamp
           request == [by |-> a, no |-> task[a].requests, at |-> stamp]
       IN IF leases[a] = None \/ Cardinality(Counted(stamp)) >= Rate
          THEN /\ Set(a, [Attempted(a) EXCEPT !.pc = "release"])
               /\ UNCHANGED <<times, history>>
          ELSE /\ times' = Counted(stamp) \cup {request}
               /\ sent' = sent \cup {request}
               /\ overtaken' = (overtaken \/ \E r \in sent : r.at > stamp)
               /\ Set(a, [task[a] EXCEPT !.pc = "admitted", !.stamp = 0,
                                         !.requests = @ + 1])
    /\ UNCHANGED <<now, leases, cached, log, record, faults>>

Call(a) ==
    /\ At(a, "admitted")
    /\ IF Late(a) THEN Set(a, [Attempted(a) EXCEPT !.pc = "release"])
       ELSE Set(a, [task[a] EXCEPT !.pc = "calling",
                        !.calls = @ + (IF task[a].phase = "assessment" THEN 1 ELSE 0)])
    /\ UNCHANGED <<now, admission, log, record, history, faults>>

-----------------------------------------------------------------------------
(* What the provider answers.                                                *)

Calling(a, phase) == At(a, "calling") /\ task[a].phase = phase

\* The model list, with the provider's limit and n of the configured models.
Discover(a, limit, n) ==
    /\ Calling(a, "discovery")
    /\ Set(a, [task[a] EXCEPT !.pc = "discovered", !.limit = limit, !.tries = Tries * n])
    /\ UNCHANGED <<now, admission, log, record, history, faults>>

\* A model list that does not come, in time or in shape, is not asked for again.
DiscoveryFails(a) ==
    /\ Calling(a, "discovery")
    /\ Goto(a, "release")
    /\ UNCHANGED <<now, admission, log, record, history, faults>>

\* Mutant: the admission is not held against the limit just learnt.
LearnForTheNext(a) ==
    /\ At(a, "discovered")
    /\ cached' = task[a].limit
    /\ LET tries == task[a].tries
           refused == tries = 0 \/ tries > Budget \/ Late(a)
       IN Set(a, [task[a] EXCEPT !.limit = Least(@, Limit), !.phase = "assessment",
                                 !.pc = IF refused THEN "release" ELSE "ready"])
    /\ UNCHANGED <<now, leases, times, log, record, history, faults>>

\* The limit is written for the next ones; the counts of the admission are
\* held against it, and the worst case of all tries against the batch limits.
Learn(a) ==
    /\ At(a, "discovered")
    /\ cached' = task[a].limit
    /\ LET limit == Least(task[a].limit, Limit)
           tries == task[a].tries
           refused == \/ task[a].before >= limit
                      \/ tries = 0
                      \/ tries > Budget
                      \/ Late(a)
       IN Set(a, [task[a] EXCEPT !.limit = limit, !.phase = "assessment",
                                 !.pc = IF refused THEN "release" ELSE "ready"])
    /\ UNCHANGED <<now, leases, times, log, record, history, faults>>

Succeed(a) ==
    /\ Calling(a, "assessment")
    /\ Set(a, [Attempted(a) EXCEPT !.pc = "audit"])
    /\ UNCHANGED <<now, admission, log, record, history, faults>>

\* The retry of a model and the change to the next one are one list of tries.
FailTemporarily(a) ==
    /\ Calling(a, "assessment")
    /\ Set(a, [Attempted(a) EXCEPT !.tries = @ - 1,
                   !.pc = IF task[a].tries > 1 THEN "ready" ELSE "release"])
    /\ UNCHANGED <<now, admission, log, record, history, faults>>

\* The answer does not pass the checks.
FailForGood(a) ==
    /\ Calling(a, "assessment")
    /\ Set(a, [Attempted(a) EXCEPT !.pc = "release"])
    /\ UNCHANGED <<now, admission, log, record, history, faults>>

\* Mutant: the call of a model has no timeout.
TimesOutInDiscovery(a) == Late(a) /\ DiscoveryFails(a)

\* At the latest when the time of the assessment is up: a shorter timeout
\* of the single call is one more way to fail.
TimesOut(a) ==
    /\ Late(a)
    /\ DiscoveryFails(a) \/ FailTemporarily(a)

-----------------------------------------------------------------------------
(* The end: audit, release, save, answer.                                    *)

Fault(happens) ==
    IF happens THEN faults < MaxFaults /\ faults' = faults + 1 ELSE UNCHANGED faults

Audit(a, fails) ==
    /\ At(a, "audit")
    /\ Fault(fails)
    /\ log' = IF fails THEN log ELSE [log EXCEPT ![a] = Append(@, "SUCCESS")]
    /\ Set(a, [task[a] EXCEPT !.pc = "release", !.ok = ~fails])
    /\ UNCHANGED <<now, admission, record, history>>

\* Mutant: a release that fails goes unnoticed.
ReleaseQuietly(a, fails) ==
    /\ At(a, "release")
    /\ Fault(fails)
    /\ leases' = IF fails THEN leases ELSE [leases EXCEPT ![a] = None]
    /\ Goto(a, IF task[a].ok THEN "save" ELSE "auditFailure")
    /\ UNCHANGED <<now, times, cached, log, record, history>>

\* finally: a release that fails makes the assessment fail.
Release(a, fails) ==
    /\ At(a, "release")
    /\ Fault(fails)
    /\ leases' = IF fails THEN leases ELSE [leases EXCEPT ![a] = None]
    /\ Goto(a, IF task[a].ok /\ ~fails THEN "save" ELSE "auditFailure")
    /\ UNCHANGED <<now, times, cached, log, record, history>>

EndUnsuccessfully(a) ==
    IF task[a].raw > 0 THEN [task[a] EXCEPT !.pc = "saveFailure"]
    ELSE [task[a] EXCEPT !.pc = "done", !.answer = "error"]

AuditFailure(a, fails) ==
    /\ At(a, "auditFailure")
    /\ Fault(fails)
    /\ log' = IF fails THEN log ELSE [log EXCEPT ![a] = Append(@, "FAILURE")]
    /\ Set(a, EndUnsuccessfully(a))
    /\ UNCHANGED <<now, admission, record, history>>

Save(a, fails) ==
    /\ At(a, "save")
    /\ Fault(fails)
    /\ IF fails THEN Set(a, EndUnsuccessfully(a)) /\ UNCHANGED record
       ELSE /\ record' = [record EXCEPT ![a] = "success"]
            /\ Set(a, [task[a] EXCEPT !.pc = "done", !.answer = "success"])
    /\ UNCHANGED <<now, admission, log, history>>

SaveFailure(a, fails) ==
    /\ At(a, "saveFailure")
    /\ Fault(fails)
    /\ record' = IF fails THEN record ELSE [record EXCEPT ![a] = "failed"]
    /\ Set(a, [task[a] EXCEPT !.pc = "done",
                   !.answer = IF fails THEN "unrecorded" ELSE "error"])
    /\ UNCHANGED <<now, admission, log, history>>

-----------------------------------------------------------------------------

Crash(a) ==
    /\ task[a].pc \notin {"new", "done", "dead"}
    /\ Fault(TRUE)
    /\ Goto(a, "dead")
    /\ UNCHANGED <<now, admission, log, record, history>>

Tick ==
    /\ now < MaxNow
    /\ now' = now + 1
    /\ UNCHANGED <<admission, task, log, record, history, faults>>

TaskStep(a) ==
    \/ ReadLimits(a) \/ Acquire(a) \/ Stamp(a) \/ Consume(a) \/ Call(a) \/ Learn(a)
    \/ TimesOut(a)
    \/ \E fails \in BOOLEAN :
          \/ Audit(a, fails) \/ Release(a, fails) \/ AuditFailure(a, fails)
          \/ Save(a, fails) \/ SaveFailure(a, fails)

ProviderStep(a) ==
    \/ \E limit \in Reported, n \in 0..Models : Discover(a, limit, n)
    \/ DiscoveryFails(a) \/ Succeed(a) \/ FailTemporarily(a) \/ FailForGood(a)

Next ==
    \/ \E a \in Assessments : Begin(a) \/ TaskStep(a) \/ ProviderStep(a) \/ Crash(a)
    \/ Tick

Spec == Init /\ [][Next]_vars

\* The server runs and the clock goes on; the provider need not answer.
FairSpec ==
    /\ Spec
    /\ \A a \in Assessments : WF_vars(TaskStep(a))
    /\ WF_vars(Tick)

-----------------------------------------------------------------------------

TypeOK ==
    /\ now \in 0..MaxNow
    /\ leases \in [Assessments -> Nat \cup {None}]
    /\ times \subseteq sent
    /\ sent \subseteq Request
    /\ cached \in Nat \cup {None}
    /\ task \in [Assessments -> Task]
    /\ log \in [Assessments -> Seq({"SUCCESS", "FAILURE"})]
    /\ record \in [Assessments -> {"none", "success", "failed"}]
    /\ overtaken \in BOOLEAN
    /\ faults \in 0..MaxFaults

\* The assessments being made that have time left (the others are aborted).
InFlight == {a \in Assessments : Calling(a, "assessment") /\ ~Late(a)}

\* Never are more assessments in flight than the limit discovered by one of
\* them: also when the limit known at admission was a larger one, when leases
\* expire, and when processes die with a lease.
CallsWithinLimit ==
    InFlight # {} => \E a \in InFlight : Cardinality(InFlight) <= task[a].limit

InWindow(from) == {r \in sent : r.at >= from /\ r.at < from + Window}

\* No more requests than Rate are sent in any window: the hard limit on the
\* rate, which no user may go beyond.
RateWithinLimit == \A t \in 0..MaxNow : Cardinality(InWindow(t)) <= Rate

\* It holds as long as requests are admitted in the order of their times.
RateWithinLimitInOrder == ~overtaken => RateWithinLimit

\* What an assessment spends on retries and fallbacks was admitted.
SpentWithinBudget == \A a \in Assessments : task[a].calls <= Budget

\* A result that is shown is saved and audited, and no longer counts as a
\* request in flight.
AnswerIsBacked ==
    \A a \in Assessments : task[a].answer = "success" =>
        record[a] = "success" /\ log[a] = <<"SUCCESS">> /\ leases[a] = None

\* What was sent to the provider is on record when the user is told that the
\* assessment failed, unless the answer says that the store failed.
NothingSentUnrecorded ==
    \A a \in Assessments : task[a].answer = "error" /\ task[a].calls > 0 =>
        record[a] # "none"

\* An assessment ends, whatever the provider does.
EveryAssessmentEnds ==
    \A a \in Assessments : At(a, "begun") ~> At(a, "done") \/ At(a, "dead")
=============================================================================
