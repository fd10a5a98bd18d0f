--------------------------- MODULE ActionCommands ---------------------------
(***************************************************************************)
(* The durable command store of Tackle Forger and the workspace revision   *)
(* it guards.  Every state change made through the routed API routes is    *)
(* first ISSUED (a payload is stored under an idempotency key, bound to a  *)
(* fresh workspace lease) and then EXECUTED (the business save and its     *)
(* recorded result are one SQLite transaction).                            *)
(*                                                                         *)
(* State on disk (one SQLite file shared by all server processes):         *)
(*   watermark  row of workspace_fencing_high_watermarks                   *)
(*   lease      row of workspace_action_leases, None if absent             *)
(*   claims     action_command_issuance_claims                             *)
(*   payloads   action_command_payloads                                    *)
(*   executed   action_command_executions                                  *)
(*   revision   workspace_state.revision                                   *)
(*   history    workspace_revisions: history[r] is who wrote revision r    *)
(*                                                                         *)
(* State in memory of a server process p:                                  *)
(*   issuer[p]   the one issuance the process lets run (serializeIssuance) *)
(*   executor[p] a request executing an issued payload                     *)
(*   saver[p]    a route that saves the workspace without a command: the   *)
(*               revision it loaded, 0 when there is none                  *)
(*   txn         the process whose executor holds BEGIN IMMEDIATE          *)
(*                                                                         *)
(* A command key stands for the triple (actor, action, idempotency key).   *)
(* Nothing in the store mentions the payload again once its hash is        *)
(* computed, so commandHash is represented by the stored record itself.    *)
(***************************************************************************)
EXTENDS CommandStore, Integers, Sequences

CONSTANTS
    Keys,         \* (actor, action, idempotency key) triples
    Bodies,       \* business payloads a caller may submit under a key
    MaxRevision,  \* bound: no direct save starts from this revision on
    IssueAt,      \* bound: the processes that receive issue requests,
    ExecuteAt,    \*        requests to execute a command,
    SaveAt,       \*        and requests that save without a command
    Direct        \* author of a revision written without a command

VARIABLES
    lease, claims, payloads, expired, uuids,
    revision, history, executed,
    issuer, executor, saver, txn

leaseVars == <<watermark, lease, uuids>>
issueVars == <<watermark, lease, uuids, claims, payloads>>
workVars  == <<revision, history, executed>>
vars == <<watermark, lease, claims, payloads, expired, uuids, revision,
          history, executed, issuer, executor, saver, txn>>

-----------------------------------------------------------------------------
(* Values *)

Lease == [id: Nat, token: Nat]

Claim == [id: Nat, token: Nat, stale: BOOLEAN]

\* rev is expectedRevisionId (subjectRef.revisionId and inputHash follow it).
Payload == [body: Bodies, rev: Nat, id: Nat, token: Nat]

RecordedKinds == {"saved", "conflict", "refused"}

\* A result kept in action_command_executions; rev is 0 unless it saved.
Result == [kind: RecordedKinds, rev: Nat]

\* What the caller of an execution sees: a recorded result, or an error that
\* left no trace in the database.
Outcome == [kind: RecordedKinds \cup {"stale", "error"}, rev: Nat]

Stale  == [kind |-> "stale", rev |-> 0]
Failed == [kind |-> "error", rev |-> 0]

LeaseOf(r) == [id |-> r.id, token |-> r.token]

IdleIssuer == [pc |-> "idle", key |-> None, body |-> None, rev |-> 0,
               claim |-> None, then |-> "none"]

IdleExecutor == [pc |-> "idle", key |-> None, cur |-> 0, outcome |-> None]

Issuer == [pc: {"idle", "claim", "save", "recover", "release", "answer"},
           key: Keys \cup {None}, body: Bodies \cup {None}, rev: Nat,
           claim: Lease \cup {None},
           then: {"none", "retry", "issued", "failed"}]

Executor == [pc: {"idle", "ready", "business", "commit", "answer"},
             key: Keys \cup {None}, cur: Nat,
             outcome: Outcome \cup {None}]

ASSUME ConstantsAssumption ==
    /\ MaxToken \in Nat \ {0}
    /\ MaxRevision \in Nat
    /\ IssueAt \cup ExecuteAt \cup SaveAt \subseteq Procs
    /\ None \notin Procs \cup Keys \cup Bodies
    /\ Direct \notin Keys

ASSUME NoneAssumption ==
    /\ None \notin Lease
    /\ None \notin Claim
    /\ None \notin Payload
    /\ None \notin Outcome

-----------------------------------------------------------------------------
(* Initial states: a seeded workspace and empty command tables, as           *)
(* ensureTables leaves them (LeaseMigration covers files of the v2 schema).  *)

Init ==
    /\ watermark = 0
    /\ lease = None
    /\ uuids = 0
    /\ claims = [k \in Keys |-> None]
    /\ payloads = [k \in Keys |-> None]
    /\ expired = {}
    /\ revision = 1
    /\ history = <<Direct>>
    /\ executed = [k \in Keys |-> None]
    /\ issuer = [p \in Procs |-> IdleIssuer]
    /\ executor = [p \in Procs |-> IdleExecutor]
    /\ saver = [p \in Procs |-> 0]
    /\ txn = None

-----------------------------------------------------------------------------
(* SQLite: one writer at a time, readers see committed rows.  Inside one     *)
(* process transactionTails queues transactions and reads behind them; across *)
(* processes BEGIN IMMEDIATE waits busy_timeout and then fails.              *)

CanWrite == txn = None

CanRead(p) == txn # p

Busy(p) == txn # None /\ txn # p

-----------------------------------------------------------------------------
(* Leases: every grant burns the next token for good.                        *)

NextLease == [id |-> uuids + 1, token |-> watermark + 1]

TokensLeft == watermark + 1 <= MaxToken

BurnToken ==
    /\ watermark' = NextLease.token
    /\ lease' = NextLease
    /\ uuids' = NextLease.id

\* acquireWorkspaceLease, the grant that belongs to no issuance.
GrantLease ==
    /\ CanWrite
    /\ TokensLeft
    /\ BurnToken
    /\ UNCHANGED <<claims, payloads, workVars, expired, issuer,
                   executor, saver, txn>>

-----------------------------------------------------------------------------
(* Issuing: POST /api/action-commands.                                       *)

\* The route reads the revision before it enters serializeIssuance.
StartIssue(p, k, b) ==
    /\ p \in IssueAt
    /\ issuer[p].pc = "idle"
    /\ CanRead(p)
    /\ issuer' = [issuer EXCEPT ![p] =
          [pc |-> "claim", key |-> k, body |-> b, rev |-> revision,
           claim |-> None, then |-> "none"]]
    /\ UNCHANGED <<issueVars, workVars, expired, executor, saver, txn>>

\* The issuance of p goes on at pc, under the claim it holds, towards then.
Issuing(p, pc, claim, then) ==
    [issuer EXCEPT ![p] =
        [pc |-> pc, key |-> issuer[p].key, body |-> issuer[p].body,
         rev |-> issuer[p].rev, claim |-> claim, then |-> then]]

\* Mutant: the stored commandHash is not compared.
WinnerAnswersAnyBody(k, b) == {"issued"}

\* issueActionCommandPayload on an already stored record: the same reference
\* for the same payload, IDEMPOTENCY_KEY_REUSED for another, and an error if
\* the record is expired or the actor lost the capability.
WinnerAnswers(k, b) ==
    IF payloads[k].body = b THEN {"issued", "failed"} ELSE {"failed"}

\* Mutant: a claim left behind is never taken over.
MayClaimUnclaimed(k) == claims[k] = None

MayClaim(k) == claims[k] # None => claims[k].stale

ClaimFindsWinner(p) ==
    LET k == issuer[p].key
    IN /\ issuer[p].pc = "claim"
       /\ CanWrite
       /\ payloads[k] # None
       /\ \E answer \in WinnerAnswers(k, issuer[p].body) :
             issuer' = Issuing(p, "answer", issuer[p].claim, answer)
       /\ UNCHANGED <<issueVars, workVars, expired, executor, saver,
                      txn>>

\* Mutant: a stale claim is taken over together with its lease.
ClaimReusesStaleLease(p) ==
    LET k == issuer[p].key
    IN /\ issuer[p].pc = "claim"
       /\ CanWrite
       /\ payloads[k] = None
       /\ MayClaim(k)
       /\ TokensLeft
       /\ IF claims[k] = None THEN BurnToken ELSE UNCHANGED leaseVars
       /\ LET mine == IF claims[k] = None THEN NextLease ELSE LeaseOf(claims[k])
          IN /\ claims' = [claims EXCEPT ![k] =
                   [id |-> mine.id, token |-> mine.token, stale |-> FALSE]]
             /\ issuer' = Issuing(p, "save", mine, "none")
       /\ UNCHANGED <<payloads, workVars, expired, executor, saver, txn>>

\* No claim, or one older than ISSUANCE_CLAIM_STALE_AFTER_MS: take it over
\* with a new claim id and a new lease.  A fresh claim of somebody else makes
\* the loop sleep and come back, which changes nothing.
ClaimBecomesOwner(p) ==
    LET k == issuer[p].key
    IN /\ issuer[p].pc = "claim"
       /\ CanWrite
       /\ payloads[k] = None
       /\ MayClaim(k)
       /\ TokensLeft
       /\ BurnToken
       /\ claims' = [claims EXCEPT ![k] =
             [id |-> NextLease.id, token |-> NextLease.token, stale |-> FALSE]]
       /\ issuer' = Issuing(p, "save", NextLease, "none")
       /\ UNCHANGED <<payloads, workVars, expired, executor, saver,
                      txn>>

\* The transaction throws, so the deletion of a stale claim is undone too.
ClaimExhausted(p) ==
    LET k == issuer[p].key
    IN /\ issuer[p].pc = "claim"
       /\ CanWrite
       /\ payloads[k] = None
       /\ MayClaim(k)
       /\ ~TokensLeft
       /\ issuer' = Issuing(p, "answer", None, "failed")
       /\ UNCHANGED <<issueVars, workVars, expired, executor, saver,
                      txn>>

HoldsLease(p) == lease = issuer[p].claim

\* Second transaction of the owner: re-read the winner, compare the lease,
\* store the payload (saveIssuedInDatabase joins this transaction).
SaveIssued(p) ==
    LET k == issuer[p].key
    IN /\ issuer[p].pc = "save"
       /\ CanWrite
       /\ payloads[k] = None
       /\ HoldsLease(p)
       /\ payloads' = [payloads EXCEPT ![k] =
             [body |-> issuer[p].body, rev |-> issuer[p].rev,
              id |-> issuer[p].claim.id, token |-> issuer[p].claim.token]]
       /\ issuer' = Issuing(p, "release", issuer[p].claim, "issued")
       /\ UNCHANGED <<leaseVars, claims, workVars, expired, executor,
                      saver, txn>>

SaveFindsWinner(p) ==
    LET k == issuer[p].key
    IN /\ issuer[p].pc = "save"
       /\ CanWrite
       /\ payloads[k] # None
       /\ \E answer \in WinnerAnswers(k, issuer[p].body) :
             issuer' = Issuing(p, "release", issuer[p].claim, answer)
       /\ UNCHANGED <<issueVars, workVars, expired, executor, saver,
                      txn>>

\* STALE_FENCING_TOKEN: somebody was granted a newer lease in between.
SaveStale(p) ==
    /\ issuer[p].pc = "save"
    /\ CanWrite
    /\ payloads[issuer[p].key] = None
    /\ ~HoldsLease(p)
    /\ issuer' = Issuing(p, "recover", issuer[p].claim, "retry")
    /\ UNCHANGED <<issueVars, workVars, expired, executor, saver, txn>>

\* The payload fails validation, the insert fails, or the transaction cannot
\* start in time: rolled back, and the lease granted for it stays granted.
SaveRejected(p) ==
    /\ issuer[p].pc = "save"
    /\ \/ /\ CanWrite
          /\ payloads[issuer[p].key] = None
          /\ HoldsLease(p)
       \/ Busy(p)
    /\ issuer' = Issuing(p, "recover", issuer[p].claim, "failed")
    /\ UNCHANGED <<issueVars, workVars, expired, executor, saver, txn>>

\* The catch block looks the key up once more, outside the transaction.
Recover(p) ==
    LET k == issuer[p].key
    IN /\ issuer[p].pc = "recover"
       /\ CanRead(p)
       /\ \E answer \in IF payloads[k] = None THEN {issuer[p].then}
                        ELSE WinnerAnswers(k, issuer[p].body) :
             issuer' = Issuing(p, "release", issuer[p].claim, answer)
       /\ UNCHANGED <<issueVars, workVars, expired, executor, saver,
                      txn>>

\* releaseIssuanceClaim deletes only the claim of this very claim id.
OwnsClaim(p) ==
    LET claim == claims[issuer[p].key]
    IN claim # None /\ claim.id = issuer[p].claim.id

ReleaseClaim(p) ==
    /\ issuer[p].pc = "release"
    /\ CanWrite
    /\ claims' = IF OwnsClaim(p)
                 THEN [claims EXCEPT ![issuer[p].key] = None] ELSE claims
    /\ issuer' = IF issuer[p].then = "retry"
                 THEN Issuing(p, "claim", None, "none")
                 ELSE Issuing(p, "answer", None, issuer[p].then)
    /\ UNCHANGED <<leaseVars, payloads, workVars, expired, executor,
                   saver, txn>>

\* Another process kept the write lock beyond busy_timeout: the request ends
\* with an error, and a claim it held stays behind.
IssueTimesOut(p) ==
    /\ issuer[p].pc \in {"claim", "release"}
    /\ Busy(p)
    /\ issuer' = [issuer EXCEPT ![p] = IdleIssuer]
    /\ UNCHANGED <<issueVars, workVars, expired, executor, saver, txn>>

AnswerIssue(p) ==
    /\ issuer[p].pc = "answer"
    /\ issuer' = [issuer EXCEPT ![p] = IdleIssuer]
    /\ UNCHANGED <<issueVars, workVars, expired, executor, saver, txn>>

-----------------------------------------------------------------------------
(* Executing: the routed write routes, through executeOnce.                  *)

\* The route loads the workspace, then the record; both before the
\* transaction, so cur may be stale when the transaction starts.
StartExecute(p, k) ==
    /\ p \in ExecuteAt
    /\ executor[p].pc = "idle"
    /\ CanRead(p)
    /\ payloads[k] # None
    /\ executor' = [executor EXCEPT ![p] =
          [pc |-> "ready", key |-> k, cur |-> revision, outcome |-> None]]
    /\ UNCHANGED <<issueVars, workVars, expired, issuer, saver, txn>>

\* The execution of p goes on at pc.
Executing(p, pc, outcome) ==
    [executor EXCEPT ![p] =
        [pc |-> pc, key |-> executor[p].key, cur |-> executor[p].cur,
         outcome |-> outcome]]

Answer(p, outcome) == Executing(p, "answer", outcome)

ExecuteReplays(p) ==
    LET k == executor[p].key
    IN /\ executor[p].pc = "ready"
       /\ CanWrite
       /\ executed[k] # None
       /\ executor' = Answer(p, executed[k])
       /\ UNCHANGED <<issueVars, workVars, expired, issuer, saver, txn>>

LeaseIsCurrent(k) == lease = LeaseOf(payloads[k])

\* Mutant: the lease is compared before the recorded result is looked up.
ExecuteStaleFirst(p) ==
    /\ executor[p].pc = "ready"
    /\ CanWrite
    /\ ~LeaseIsCurrent(executor[p].key)
    /\ executor' = Answer(p, Stale)
    /\ UNCHANGED <<issueVars, workVars, expired, issuer, saver, txn>>

ExecuteStale(p) ==
    LET k == executor[p].key
    IN /\ executor[p].pc = "ready"
       /\ CanWrite
       /\ executed[k] = None
       /\ ~LeaseIsCurrent(k)
       /\ executor' = Answer(p, Stale)
       /\ UNCHANGED <<issueVars, workVars, expired, issuer, saver, txn>>

RevisionMatches(p) == payloads[executor[p].key].rev = executor[p].cur

\* Expired, capability withdrawn, wrong entry point, the loaded revision is
\* not the one the payload was issued for, or the lock is not to be had in
\* time: thrown, nothing is recorded.
ExecuteRejected(p) ==
    LET k == executor[p].key
    IN /\ executor[p].pc = "ready"
       /\ \/ /\ CanWrite
             /\ executed[k] = None
             /\ LeaseIsCurrent(k)
          \/ Busy(p)
       /\ executor' = Answer(p, Failed)
       /\ UNCHANGED <<issueVars, workVars, expired, issuer, saver, txn>>

\* Mutant: the lease is not compared again before the business write.
BeginBusinessUnfenced(p) ==
    LET k == executor[p].key
    IN /\ executor[p].pc = "ready"
       /\ CanWrite
       /\ executed[k] = None
       /\ k \notin expired
       /\ RevisionMatches(p)
       /\ executor' = Executing(p, "business", None)
       /\ txn' = p
       /\ UNCHANGED <<issueVars, workVars, expired, issuer, saver>>

\* Mutant: the recorded result is not looked up, and the insert replaces it.
BeginBusinessAgain(p) ==
    LET k == executor[p].key
    IN /\ executor[p].pc = "ready"
       /\ CanWrite
       /\ LeaseIsCurrent(k)
       /\ k \notin expired
       /\ RevisionMatches(p)
       /\ executor' = Executing(p, "business", None)
       /\ txn' = p
       /\ UNCHANGED <<issueVars, workVars, expired, issuer, saver>>

BeginBusiness(p) ==
    LET k == executor[p].key
    IN /\ executor[p].pc = "ready"
       /\ CanWrite
       /\ executed[k] = None
       /\ LeaseIsCurrent(k)
       /\ k \notin expired
       /\ RevisionMatches(p)
       /\ executor' = Executing(p, "business", None)
       /\ txn' = p
       /\ UNCHANGED <<issueVars, workVars, expired, issuer, saver>>

Conflict == [kind |-> "conflict", rev |-> 0]
Refused  == [kind |-> "refused", rev |-> 0]
SavedAs(r) == [kind |-> "saved", rev |-> r]

\* saveSqliteWorkspace inside the command's transaction: the base is the
\* revision the route had loaded.
SaveResult(base) ==
    IF revision = base THEN SavedAs(base + 1) ELSE Conflict

\* The business callback ends with a status below 500: a domain refusal, or
\* the result of its save.
Business(p) ==
    /\ executor[p].pc = "business"
    /\ \E result \in {Refused, SaveResult(executor[p].cur)} :
          executor' = Executing(p, "commit", result)
    /\ UNCHANGED <<issueVars, workVars, expired, issuer, saver, txn>>

\* Mutant: only a success is recorded.
CommitRecordsSuccessOnly(p) ==
    LET result == executor[p].outcome
        saved == result.kind = "saved"
    IN /\ executor[p].pc = "commit"
       /\ executed' = IF saved
                      THEN [executed EXCEPT ![executor[p].key] = result]
                      ELSE executed
       /\ revision' = IF saved THEN result.rev ELSE revision
       /\ history' = IF saved THEN Append(history, executor[p].key)
                     ELSE history
       /\ executor' = Answer(p, result)
       /\ txn' = None
       /\ UNCHANGED <<issueVars, expired, issuer, saver>>

\* COMMIT: the saved revision, its history row and the recorded result.
CommitExecution(p) ==
    LET result == executor[p].outcome
        saved == result.kind = "saved"
    IN /\ executor[p].pc = "commit"
       /\ executed' = [executed EXCEPT ![executor[p].key] = result]
       /\ revision' = IF saved THEN result.rev ELSE revision
       /\ history' = IF saved THEN Append(history, executor[p].key)
                     ELSE history
       /\ executor' = Answer(p, result)
       /\ txn' = None
       /\ UNCHANGED <<issueVars, expired, issuer, saver>>

\* Mutant: the save is committed on its own before a late 5xx.
AbortKeepsTheSave(p) ==
    LET saved == executor[p].outcome \in {SavedAs(revision + 1)}
    IN /\ executor[p].pc \in {"business", "commit"}
       /\ revision' = IF saved THEN revision + 1 ELSE revision
       /\ history' = IF saved THEN Append(history, executor[p].key)
                     ELSE history
       /\ executor' = Answer(p, Failed)
       /\ txn' = None
       /\ UNCHANGED <<executed, issueVars, expired, issuer, saver>>

\* Mutant: the transaction is left open.
AbortLeavesTransaction(p) ==
    /\ executor[p].pc \in {"business", "commit"}
    /\ executor' = Answer(p, Failed)
    /\ UNCHANGED <<issueVars, workVars, expired, issuer, saver, txn>>

\* WorkspaceCommandTransientHttpError (status 500 and above), or any other
\* exception of the callback: ROLLBACK.
AbortExecution(p) ==
    /\ executor[p].pc \in {"business", "commit"}
    /\ executor' = Answer(p, Failed)
    /\ txn' = None
    /\ UNCHANGED <<issueVars, workVars, expired, issuer, saver>>

AnswerExecute(p) ==
    /\ executor[p].pc = "answer"
    /\ executor' = [executor EXCEPT ![p] = IdleExecutor]
    /\ UNCHANGED <<issueVars, workVars, expired, issuer, saver, txn>>

-----------------------------------------------------------------------------
(* Saving without a command: the AI draft routes load, then save on the      *)
(* loaded revision; they hold no lease.                                      *)

LoadDirect(p) ==
    /\ p \in SaveAt
    /\ saver[p] = 0
    /\ CanRead(p)
    /\ revision < MaxRevision
    /\ saver' = [saver EXCEPT ![p] = revision]
    /\ UNCHANGED <<issueVars, workVars, expired, issuer, executor, txn>>

SaveDirect(p) ==
    LET result == SaveResult(saver[p])
        saved == result.kind = "saved"
    IN /\ saver[p] # 0
       /\ CanWrite
       /\ saver' = [saver EXCEPT ![p] = 0]
       /\ revision' = IF saved THEN result.rev ELSE revision
       /\ history' = IF saved THEN Append(history, Direct) ELSE history
       /\ UNCHANGED <<issueVars, executed, expired, issuer, executor,
                      txn>>

-----------------------------------------------------------------------------
(* Time and failures.                                                        *)

\* More than ISSUANCE_CLAIM_STALE_AFTER_MS since claimed_at; the owner may
\* still be at work.
AgeClaim(k) ==
    /\ claims[k] # None
    /\ ~claims[k].stale
    /\ claims' = [claims EXCEPT ![k] =
          [id |-> claims[k].id, token |-> claims[k].token, stale |-> TRUE]]
    /\ UNCHANGED <<leaseVars, payloads, workVars, expired, issuer,
                   executor, saver, txn>>

\* The five minutes of expiresAt are over.
Expire(k) ==
    /\ payloads[k] # None
    /\ k \notin expired
    /\ expired' = expired \cup {k}
    /\ UNCHANGED <<issueVars, workVars, issuer, executor, saver, txn>>

\* The process dies; SQLite rolls its open transaction back.
Crash(p) ==
    /\ issuer' = [issuer EXCEPT ![p] = IdleIssuer]
    /\ executor' = [executor EXCEPT ![p] = IdleExecutor]
    /\ saver' = [saver EXCEPT ![p] = 0]
    /\ txn' = IF txn = p THEN None ELSE txn
    /\ UNCHANGED <<issueVars, workVars, expired>>

-----------------------------------------------------------------------------
(* Specification.                                                            *)

IssueStep(p) ==
    \/ ClaimFindsWinner(p) \/ ClaimBecomesOwner(p) \/ ClaimExhausted(p)
    \/ SaveIssued(p) \/ SaveFindsWinner(p) \/ SaveStale(p) \/ SaveRejected(p)
    \/ Recover(p) \/ ReleaseClaim(p) \/ IssueTimesOut(p) \/ AnswerIssue(p)

ExecuteStep(p) ==
    \/ ExecuteReplays(p) \/ ExecuteStale(p) \/ ExecuteRejected(p)
    \/ BeginBusiness(p) \/ Business(p) \/ CommitExecution(p)
    \/ AbortExecution(p) \/ AnswerExecute(p)

Next ==
    \/ GrantLease
    \/ \E p \in Procs :
          \/ IssueStep(p) \/ ExecuteStep(p)
          \/ \E k \in Keys, b \in Bodies : StartIssue(p, k, b)
          \/ \E k \in Keys : StartExecute(p, k)
          \/ LoadDirect(p) \/ SaveDirect(p) \/ Crash(p)
    \/ \E k \in Keys : AgeClaim(k) \/ Expire(k)

Spec == Init /\ [][Next]_vars

\* transactionTails and issuanceTails are first-in first-out, so a request
\* that can again and again take its step takes it; time passes.  Nothing is
\* fair about new requests, direct saves, expiry or crashes.
Fairness ==
    /\ \A p \in Procs :
          /\ SF_vars(IssueStep(p))
          /\ SF_vars(ExecuteStep(p))
    /\ \A k \in Keys : WF_vars(AgeClaim(k))

LiveSpec == Spec /\ Fairness

-----------------------------------------------------------------------------
(* Properties.                                                               *)

\* Every variable stays within the rows and the request states listed above.
TypeOK ==
    /\ watermark \in Nat
    /\ lease \in Lease \cup {None}
    /\ uuids \in Nat
    /\ claims \in [Keys -> Claim \cup {None}]
    /\ payloads \in [Keys -> Payload \cup {None}]
    /\ expired \subseteq Keys
    /\ revision \in Nat
    /\ history \in Seq(Keys \cup {Direct})
    /\ executed \in [Keys -> Result \cup {None}]
    /\ issuer \in [Procs -> Issuer]
    /\ executor \in [Procs -> Executor]
    /\ saver \in [Procs -> Nat]
    /\ txn \in Procs \cup {None}

\* A fencing token belongs to one grant: two issuances at work, an issuance
\* and a stored payload, or two stored payloads never hold the same token,
\* whatever claims were abandoned, recovered or rejected in between.
TokensNeverShared ==
    /\ \A p, q \in Procs :
          /\ p # q /\ issuer[p].claim # None /\ issuer[q].claim # None
          => issuer[p].claim.token # issuer[q].claim.token
    /\ \A p \in Procs, k \in Keys :
          /\ issuer[p].pc = "save" /\ payloads[k] # None
          => issuer[p].claim.token # payloads[k].token
    /\ \A j, k \in Keys :
          /\ j # k /\ payloads[j] # None /\ payloads[k] # None
          => payloads[j].token # payloads[k].token

\* Result and effect are one commit: a command has a revision in the history
\* exactly when its recorded result says so, and only that one, through
\* crashes, 5xx rollbacks, replays and racing direct saves.
EffectMatchesResult ==
    /\ Len(history) = revision
    /\ \A k \in Keys, r \in DOMAIN history :
          history[r] = k <=> /\ executed[k] # None
                             /\ executed[k] = SavedAs(r)
    /\ \A k \in Keys :
          /\ executed[k] # None
          /\ executed[k].kind = "saved"
          => executed[k].rev \in DOMAIN history

\* A success shown to a caller is durable: an outcome that claims to be
\* recorded is the row of action_command_executions.
AnsweredOutcomeIsRecorded ==
    \A p \in Procs :
        /\ executor[p].pc = "answer"
        /\ executor[p].outcome.kind \in RecordedKinds
        => executed[executor[p].key] = executor[p].outcome

\* Whoever gets a payload reference gets one for the business payload he
\* submitted, even when requests with one key and different payloads race.
IssuedReferenceMatchesBody ==
    \A p \in Procs :
        issuer[p].pc = "answer" /\ issuer[p].then = "issued"
        => /\ payloads[issuer[p].key] # None
           /\ payloads[issuer[p].key].body = issuer[p].body

\* A grant moves the watermark up, and the lease with it.
GrantsUpwards ==
    /\ watermark' >= watermark
    /\ lease' # lease => /\ lease'.token > watermark
                         /\ lease # None => lease'.token > lease.token

\* A token is never granted twice and the high watermark never falls back,
\* also not when an issuance fails or its process dies.
WatermarkNeverFallsBack == [][GrantsUpwards]_vars

\* The command that executes now has a higher token than those before it.
ExecutesInOrder ==
    \A j, k \in Keys :
        /\ j # k /\ executed[j] # None
        /\ executed[k] = None /\ executed'[k] # None
        => payloads[j].token < payloads[k].token

\* Executions happen in the order of their tokens: once a command has been
\* executed, no command that was issued under an older lease is.
ExecutionsFollowTokens == [][ExecutesInOrder]_vars

\* The answer p computes to a request for k.
NewAnswer(p, k) ==
    /\ executor[p].pc # "answer"
    /\ executor'[p].pc = "answer"
    /\ executor'[p].key = k

ReplaysOnly ==
    \A k \in Keys : executed[k] # None =>
        /\ executed'[k] = executed[k]
        /\ \A p \in Procs : NewAnswer(p, k) /\ ~Busy(p)
              => executor'[p].outcome = executed[k]

\* A lost answer can be asked for again: from the moment a command's result
\* is recorded, it stays, and every answer computed is that result or (when
\* the database is locked) an error without effect.
RetryGetsTheRecordedResult == [][ReplaysOnly]_vars

StoresOnce ==
    \A k \in Keys :
        IF payloads[k] # None THEN payloads'[k] = payloads[k]
        ELSE payloads'[k] # None => payloads'[k].token = watermark'

\* A payload reference stays good: the stored record is never replaced, and
\* a new record holds the newest lease at the moment it is stored.
PayloadsAreFinal == [][StoresOnce]_vars

Fenced(k) == payloads[k] # None /\ executed[k] = None /\ ~LeaseIsCurrent(k)

\* A command whose lease was rotated away before it ran is dead for good.
FencedStaysFenced == [][\A k \in Keys : Fenced(k) => Fenced(k)']_vars

\* No issuance waits for ever, neither on the claim of a crashed process nor
\* on the rotation of its lease by others.
IssuanceEnds == \A p \in Procs : issuer[p].pc # "idle" ~> issuer[p].pc = "idle"

\* The write lock is always given back: no path out of a command leaves its
\* transaction open, which would stop every other write of the workspace.
WriteLockIsReturned == txn # None ~> txn = None

\* The abstract ledger this module implements.
Ledger == INSTANCE CommandLedger WITH
    Commands <- Keys, Unrecorded <- None, Outsider <- Direct,
    results <- executed

\* Seen from outside, the tables, claims, leases and processes are a ledger
\* that records every command once, together with its effect.
ImplementsLedger == Ledger!Spec

=============================================================================
