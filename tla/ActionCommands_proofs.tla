----------------------- MODULE ActionCommands_proofs -----------------------
(***************************************************************************)
(* Proofs about ActionCommands, for every set of processes, keys and       *)
(* bodies and for every bound.                                             *)
(*                                                                         *)
(* None of the safety properties is inductive.  The invariant Inv adds what *)
(* they rest on: RequestOK (what the control state of a request says about *)
(* its fields), LeaseOrder (the watermark bounds every token, and is the   *)
(* token of the current lease), and InTransaction (what a command inside   *)
(* its write transaction has checked stays true until it ends).            *)
(*                                                                         *)
(* The last part is about LeaseMigration: how a process opens the store    *)
(* those requests are made to.                                             *)
(***************************************************************************)
EXTENDS ActionCommands, LeaseMigration, TLAPS

\* What the control states say about the fields of a request.
RequestOK ==
    \A p \in Procs :
        /\ issuer[p].pc # "idle" => /\ issuer[p].key \in Keys
                                    /\ issuer[p].body \in Bodies
        /\ issuer[p].pc \in {"save", "recover", "release"}
              => issuer[p].claim \in Lease
        /\ executor[p].pc # "idle" => executor[p].key \in Keys
        /\ executor[p].pc = "commit" => executor[p].outcome \in Result
        /\ executor[p].pc = "answer" => executor[p].outcome \in Outcome

Typed == TypeOK /\ RequestOK

\* The current lease is the newest grant, and the watermark bounds them all.
LeaseOrder ==
    /\ lease # None => lease.token = watermark
    /\ \A p \in Procs :
          issuer[p].claim # None => issuer[p].claim.token <= watermark
    /\ \A k \in Keys : payloads[k] # None => payloads[k].token <= watermark

\* A command that is executing or executed has a stored payload; one inside
\* its transaction holds the lock, has no result yet and owns the lease; the
\* result it is about to commit fits the revision it found.
InTransaction ==
    /\ \A k \in Keys : executed[k] # None => payloads[k] # None
    /\ \A p \in Procs :
          /\ executor[p].pc # "idle" => payloads[executor[p].key] # None
          /\ executor[p].pc \in {"business", "commit"} =>
                /\ txn = p
                /\ executed[executor[p].key] = None
                /\ LeaseIsCurrent(executor[p].key)
          /\ executor[p].pc = "commit" =>
                executor[p].outcome \in {Conflict, Refused,
                                         SavedAs(revision + 1)}

\* An issuance that is about to answer "issued" has its payload stored.
IssuedIsStored ==
    \A p \in Procs :
        issuer[p].then = "issued"
        => /\ issuer[p].pc \in {"release", "answer"}
           /\ payloads[issuer[p].key] # None
           /\ payloads[issuer[p].key].body = issuer[p].body

Inv ==
    /\ Typed
    /\ LeaseOrder
    /\ TokensNeverShared
    /\ InTransaction
    /\ EffectMatchesResult
    /\ AnsweredOutcomeIsRecorded
    /\ IssuedIsStored

-----------------------------------------------------------------------------
(* Types.                                                                    *)

\* A freshly seeded store is well-typed.
LEMMA TypedInit == Init => Typed
  BY ConstantsAssumption, NoneAssumption
  DEF Init, Typed, TypeOK, RequestOK, IdleIssuer, IdleExecutor, Issuer,
      Executor, Lease, Claim, Payload, Result, Outcome, RecordedKinds

\* The steps of an issuance keep the types, and the claim and the request of
\* every issuance in place.
LEMMA TypedIssueStep ==
  ASSUME Typed, NEW p \in Procs, IssueStep(p)
  PROVE  Typed'
<1> USE ConstantsAssumption, NoneAssumption DEF Typed, TypeOK, RequestOK,
        Issuer, Issuing, Lease, issueVars, workVars, leaseVars
<1>1. CASE ClaimFindsWinner(p)
  BY <1>1 DEF ClaimFindsWinner, WinnerAnswers
<1>2. CASE ClaimBecomesOwner(p)
  BY <1>2 DEF ClaimBecomesOwner, BurnToken, NextLease, Claim
<1>3. CASE ClaimExhausted(p)
  BY <1>3 DEF ClaimExhausted
<1>4. CASE SaveIssued(p)
  BY <1>4 DEF SaveIssued, Payload
<1>5. CASE SaveFindsWinner(p)
  BY <1>5 DEF SaveFindsWinner, WinnerAnswers
<1>6. CASE SaveStale(p)
  BY <1>6 DEF SaveStale
<1>7. CASE SaveRejected(p)
  BY <1>7 DEF SaveRejected
<1>8. CASE Recover(p)
  BY <1>8 DEF Recover, WinnerAnswers
<1>9. CASE ReleaseClaim(p)
  BY <1>9 DEF ReleaseClaim
<1>10. CASE IssueTimesOut(p)
  BY <1>10 DEF IssueTimesOut, IdleIssuer
<1>11. CASE AnswerIssue(p)
  BY <1>11 DEF AnswerIssue, IdleIssuer
<1> QED
  BY <1>1, <1>2, <1>3, <1>4, <1>5, <1>6, <1>7, <1>8, <1>9, <1>10, <1>11
  DEF IssueStep

\* The steps of an execution keep the types; what commits is a result.
LEMMA TypedExecuteStep ==
  ASSUME Typed, NEW p \in Procs, ExecuteStep(p)
  PROVE  Typed'
<1> USE ConstantsAssumption, NoneAssumption DEF Typed, TypeOK, RequestOK,
        Executor, Executing, Answer, Result, Outcome, RecordedKinds,
        issueVars, workVars
<1>1. CASE ExecuteReplays(p)
  BY <1>1 DEF ExecuteReplays
<1>2. CASE ExecuteStale(p)
  BY <1>2 DEF ExecuteStale, Stale
<1>3. CASE ExecuteRejected(p)
  BY <1>3 DEF ExecuteRejected, Failed
<1>4. CASE BeginBusiness(p)
  BY <1>4 DEF BeginBusiness
<1>5. CASE Business(p)
  BY <1>5 DEF Business, Refused, SaveResult, SavedAs, Conflict
<1>6. CASE CommitExecution(p)
  BY <1>6 DEF CommitExecution
<1>7. CASE AbortExecution(p)
  BY <1>7 DEF AbortExecution, Failed
<1>8. CASE AnswerExecute(p)
  BY <1>8 DEF AnswerExecute, IdleExecutor
<1> QED
  BY <1>1, <1>2, <1>3, <1>4, <1>5, <1>6, <1>7, <1>8 DEF ExecuteStep

\* Every step of the system keeps the types.
LEMMA TypedStep == Typed /\ [Next]_vars => Typed'
<1> SUFFICES ASSUME Typed, [Next]_vars PROVE Typed'
  OBVIOUS
<1> USE ConstantsAssumption, NoneAssumption
<1>1. CASE GrantLease
  BY <1>1 DEF GrantLease, BurnToken, NextLease, Lease, workVars, Typed,
      TypeOK, RequestOK
<1>2. ASSUME NEW p \in Procs, IssueStep(p) PROVE Typed'
  BY <1>2, TypedIssueStep
<1>3. ASSUME NEW p \in Procs, ExecuteStep(p) PROVE Typed'
  BY <1>3, TypedExecuteStep
<1>4. ASSUME NEW p \in Procs, NEW k \in Keys, NEW b \in Bodies,
             StartIssue(p, k, b)
      PROVE  Typed'
  BY <1>4 DEF StartIssue, Issuer, issueVars, workVars, Typed, TypeOK,
      RequestOK
<1>5. ASSUME NEW p \in Procs, NEW k \in Keys, StartExecute(p, k)
      PROVE  Typed'
  BY <1>5 DEF StartExecute, Executor, issueVars, workVars, Typed, TypeOK,
      RequestOK
<1>6. ASSUME NEW p \in Procs, LoadDirect(p) PROVE Typed'
  BY <1>6 DEF LoadDirect, issueVars, workVars, Typed, TypeOK, RequestOK
<1>7. ASSUME NEW p \in Procs, SaveDirect(p) PROVE Typed'
  BY <1>7 DEF SaveDirect, SaveResult, SavedAs, Conflict, issueVars, Typed,
      TypeOK, RequestOK
<1>8. ASSUME NEW p \in Procs, Crash(p) PROVE Typed'
  BY <1>8 DEF Crash, IdleIssuer, IdleExecutor, Issuer, Executor, issueVars,
      workVars, Typed, TypeOK, RequestOK
<1>9. ASSUME NEW k \in Keys, AgeClaim(k) PROVE Typed'
  BY <1>9 DEF AgeClaim, Claim, leaseVars, workVars, Typed, TypeOK, RequestOK
<1>10. ASSUME NEW k \in Keys, Expire(k) PROVE Typed'
  BY <1>10 DEF Expire, issueVars, workVars, Typed, TypeOK, RequestOK
<1>11. CASE UNCHANGED vars
  BY <1>11 DEF vars, Typed, TypeOK, RequestOK
<1> QED
  BY <1>1, <1>2, <1>3, <1>4, <1>5, <1>6, <1>7, <1>8, <1>9, <1>10, <1>11
  DEF Next

\* Every variable stays within the rows and the request states of TypeOK.
THEOREM TypeCorrect == Spec => []TypeOK
<1>1. Init => Typed
  BY TypedInit
<1>2. Typed /\ [Next]_vars => Typed'
  BY TypedStep
<1>3. Typed => TypeOK
  BY DEF Typed
<1> QED
  BY <1>1, <1>2, <1>3, PTL DEF Spec

-----------------------------------------------------------------------------
(* Tokens.                                                                   *)

tokenVars == <<watermark, lease, payloads, issuer>>

Tokens == LeaseOrder /\ TokensNeverShared

\* Executions and direct saves touch no token.
LEMMA OtherStepsKeepTokens ==
  ASSUME NEW p \in Procs,
         ExecuteStep(p) \/ LoadDirect(p) \/ SaveDirect(p)
  PROVE  UNCHANGED tokenVars
  BY DEF ExecuteStep, ExecuteReplays, ExecuteStale, ExecuteRejected,
     BeginBusiness, Business, CommitExecution, AbortExecution, AnswerExecute,
     LoadDirect, SaveDirect, issueVars, tokenVars

\* A step that grants nothing and stores nothing, and after which no issuance
\* has a claim it did not have before, keeps the tokens apart.
LEMMA FewerClaimsKeepTokens ==
  ASSUME Tokens,
         UNCHANGED <<watermark, lease, payloads>>,
         \A q \in Procs : issuer'[q].claim \in {None, issuer[q].claim},
         \A q \in Procs : issuer'[q].pc = "save" =>
             issuer[q].pc = "save" /\ issuer'[q].claim = issuer[q].claim
  PROVE  Tokens'
  BY DEF Tokens, LeaseOrder, TokensNeverShared

\* Steps of an issuance keep the tokens apart.
LEMMA TokensIssueStep ==
  ASSUME Typed, Tokens, NEW p \in Procs, IssueStep(p)
  PROVE  Tokens'
<1> USE NoneAssumption DEF Typed, TypeOK, RequestOK, Issuer, Issuing,
        issueVars, leaseVars
<1>1. CASE ClaimBecomesOwner(p)
  BY <1>1, SMTT(30) DEF ClaimBecomesOwner, BurnToken, NextLease, Lease, Payload,
      Tokens, LeaseOrder, TokensNeverShared
<1>2. CASE SaveIssued(p)
  BY <1>2 DEF SaveIssued, HoldsLease, Lease, Payload, Tokens, LeaseOrder,
      TokensNeverShared
<1>3. CASE ~ClaimBecomesOwner(p) /\ ~SaveIssued(p)
  <2>1. UNCHANGED <<watermark, lease, payloads>>
    BY <1>3 DEF IssueStep, ClaimFindsWinner, ClaimExhausted, SaveFindsWinner,
        SaveStale, SaveRejected, Recover, ReleaseClaim, IssueTimesOut,
        AnswerIssue
  <2>2. \A q \in Procs \ {p} : issuer'[q] = issuer[q]
    BY <1>3 DEF IssueStep, ClaimFindsWinner, ClaimExhausted, SaveFindsWinner,
        SaveStale, SaveRejected, Recover, ReleaseClaim, IssueTimesOut,
        AnswerIssue
  <2>3. issuer'[p].claim \in {None, issuer[p].claim} /\ issuer'[p].pc # "save"
    BY <1>3 DEF IssueStep, ClaimFindsWinner, ClaimExhausted, SaveFindsWinner,
        SaveStale, SaveRejected, Recover, ReleaseClaim, IssueTimesOut,
        AnswerIssue, IdleIssuer
  <2> QED
    BY <2>1, <2>2, <2>3, FewerClaimsKeepTokens
<1> QED
  BY <1>1, <1>2, <1>3

\* Every step keeps the tokens apart, and below the watermark.
LEMMA TokensStep == Typed /\ Tokens /\ [Next]_vars => Tokens'
<1> SUFFICES ASSUME Typed, Tokens, [Next]_vars PROVE Tokens'
  OBVIOUS
<1>1. ASSUME UNCHANGED tokenVars PROVE Tokens'
  BY <1>1 DEF tokenVars, Tokens, LeaseOrder, TokensNeverShared
<1>2. CASE GrantLease
  BY <1>2 DEF GrantLease, BurnToken, NextLease, Typed, TypeOK, Tokens,
      LeaseOrder, TokensNeverShared, Lease, Issuer, Payload
<1>3. ASSUME NEW p \in Procs, IssueStep(p) PROVE Tokens'
  BY <1>3, TokensIssueStep
<1>4. ASSUME NEW p \in Procs, NEW k \in Keys, NEW b \in Bodies,
             StartIssue(p, k, b)
      PROVE  Tokens'
  BY <1>4 DEF StartIssue, issueVars, Typed, TypeOK, Tokens, LeaseOrder,
      TokensNeverShared
<1>5. ASSUME NEW p \in Procs, Crash(p) PROVE Tokens'
  BY <1>5 DEF Crash, IdleIssuer, issueVars, Typed, TypeOK, Tokens,
      LeaseOrder, TokensNeverShared
<1>6. ASSUME NEW p \in Procs, NEW k \in Keys, StartExecute(p, k)
      PROVE  Tokens'
  BY <1>6, <1>1 DEF StartExecute, issueVars, tokenVars
<1>7. ASSUME NEW p \in Procs, ExecuteStep(p) PROVE Tokens'
  BY <1>7, <1>1, OtherStepsKeepTokens
<1>8. ASSUME NEW p \in Procs, LoadDirect(p) \/ SaveDirect(p) PROVE Tokens'
  BY <1>8, <1>1, OtherStepsKeepTokens
<1>9. ASSUME NEW k \in Keys, AgeClaim(k) \/ Expire(k) PROVE Tokens'
  BY <1>9, <1>1 DEF AgeClaim, Expire, leaseVars, issueVars, tokenVars
<1>10. CASE UNCHANGED vars
  BY <1>10, <1>1 DEF vars, tokenVars
<1> QED
  BY <1>2, <1>3, <1>4, <1>5, <1>6, <1>7, <1>8, <1>9, <1>10 DEF Next

-----------------------------------------------------------------------------
(* Stored payloads.                                                          *)

\* Only SaveIssued touches the stored payloads.
LEMMA OnlySaveIssuedStores ==
  ASSUME [Next]_vars, \A p \in Procs : ~SaveIssued(p)
  PROVE  UNCHANGED payloads
  BY DEF Next, vars, IssueStep, ExecuteStep, GrantLease, ClaimFindsWinner,
     ClaimBecomesOwner, ClaimExhausted, SaveFindsWinner, SaveStale,
     SaveRejected, Recover, ReleaseClaim, IssueTimesOut, AnswerIssue,
     StartIssue, StartExecute, ExecuteReplays, ExecuteStale, ExecuteRejected,
     BeginBusiness, Business, CommitExecution, AbortExecution, AnswerExecute,
     LoadDirect, SaveDirect, AgeClaim, Expire, Crash, issueVars

\* Only a grant moves the lease and the watermark.
LEMMA LeaseMovesByBurning ==
  ASSUME [Next]_vars
  PROVE  BurnToken \/ UNCHANGED <<watermark, lease>>
  BY ZenonT(40) DEF Next, vars, IssueStep, ExecuteStep, GrantLease, ClaimFindsWinner,
     ClaimBecomesOwner, ClaimExhausted, SaveIssued, SaveFindsWinner,
     SaveStale, SaveRejected, Recover, ReleaseClaim, IssueTimesOut,
     AnswerIssue, StartIssue, StartExecute, ExecuteReplays, ExecuteStale,
     ExecuteRejected, BeginBusiness, Business, CommitExecution,
     AbortExecution, AnswerExecute, LoadDirect, SaveDirect, AgeClaim, Expire,
     Crash, issueVars, leaseVars

\* No step replaces or removes a stored payload.
LEMMA PayloadsStay ==
  ASSUME TypeOK, [Next]_vars, NEW k \in Keys, payloads[k] # None
  PROVE  payloads'[k] = payloads[k]
<1>1. ASSUME NEW p \in Procs, SaveIssued(p) PROVE payloads'[k] = payloads[k]
  BY <1>1 DEF SaveIssued, TypeOK
<1>2. CASE \A p \in Procs : ~SaveIssued(p)
  BY <1>2, OnlySaveIssuedStores
<1> QED
  BY <1>1, <1>2

\* Steps of an issuance answer "issued" only for what is stored.
LEMMA IssuedIssueStep ==
  ASSUME Typed, IssuedIsStored, NEW p \in Procs, IssueStep(p)
  PROVE  IssuedIsStored'
<1> USE NoneAssumption DEF Typed, TypeOK, RequestOK, Issuer, Issuing,
        issueVars, leaseVars
<1>1. CASE SaveIssued(p)
  BY <1>1 DEF SaveIssued, Payload, Lease, IssuedIsStored
<1>2. CASE ClaimFindsWinner(p)
  BY <1>2 DEF ClaimFindsWinner, WinnerAnswers, IssuedIsStored
<1>3. CASE SaveFindsWinner(p)
  BY <1>3 DEF SaveFindsWinner, WinnerAnswers, IssuedIsStored
<1>4. CASE Recover(p)
  BY <1>4 DEF Recover, WinnerAnswers, IssuedIsStored
<1>5. CASE ReleaseClaim(p)
  BY <1>5 DEF ReleaseClaim, IssuedIsStored
<1>6. CASE ClaimBecomesOwner(p) \/ ClaimExhausted(p)
  BY <1>6 DEF ClaimBecomesOwner, ClaimExhausted, IssuedIsStored
<1>7. CASE SaveStale(p) \/ SaveRejected(p) \/ IssueTimesOut(p) \/ AnswerIssue(p)
  <2>1. /\ UNCHANGED payloads
        /\ \A q \in Procs \ {p} : issuer'[q] = issuer[q]
        /\ issuer'[p].then # "issued"
    BY <1>7 DEF SaveStale, SaveRejected, IssueTimesOut, AnswerIssue,
        IdleIssuer
  <2> QED
    BY <2>1 DEF IssuedIsStored
<1> QED
  BY <1>1, <1>2, <1>3, <1>4, <1>5, <1>6, <1>7 DEF IssueStep

\* Every step answers "issued" only for what is stored.
LEMMA IssuedStep == Typed /\ IssuedIsStored /\ [Next]_vars => IssuedIsStored'
<1> SUFFICES ASSUME Typed, IssuedIsStored, [Next]_vars PROVE IssuedIsStored'
  OBVIOUS
<1>1. ASSUME NEW p \in Procs, IssueStep(p) PROVE IssuedIsStored'
  BY <1>1, IssuedIssueStep
<1>2. ASSUME NEW p \in Procs, NEW k \in Keys, NEW b \in Bodies,
             StartIssue(p, k, b)
      PROVE  IssuedIsStored'
  BY <1>2 DEF StartIssue, issueVars, Typed, TypeOK, IssuedIsStored
<1>3. ASSUME NEW p \in Procs, Crash(p) PROVE IssuedIsStored'
  BY <1>3 DEF Crash, IdleIssuer, issueVars, Typed, TypeOK, IssuedIsStored
<1>4. ASSUME UNCHANGED <<issuer, payloads>> PROVE IssuedIsStored'
  BY <1>4 DEF IssuedIsStored
<1>5. ASSUME NEW p \in Procs, ExecuteStep(p) \/ LoadDirect(p) \/ SaveDirect(p)
      PROVE  IssuedIsStored'
  BY <1>5, <1>4, OtherStepsKeepTokens DEF tokenVars
<1>6. CASE GrantLease
  BY <1>6, <1>4 DEF GrantLease
<1>7. ASSUME NEW p \in Procs, NEW k \in Keys, StartExecute(p, k)
      PROVE  IssuedIsStored'
  BY <1>7, <1>4 DEF StartExecute, issueVars
<1>8. ASSUME NEW k \in Keys, AgeClaim(k) \/ Expire(k) PROVE IssuedIsStored'
  BY <1>8, <1>4 DEF AgeClaim, Expire, issueVars
<1>9. CASE UNCHANGED vars
  BY <1>9, <1>4 DEF vars
<1> QED
  BY <1>1, <1>2, <1>3, <1>5, <1>6, <1>7, <1>8, <1>9 DEF Next

-----------------------------------------------------------------------------
(* Effects and results.                                                      *)

execVars == <<lease, payloads, revision, history, executed, executor, txn>>

Effects == InTransaction /\ EffectMatchesResult /\ AnsweredOutcomeIsRecorded

\* What a step that executes nothing may do: store payloads and, while no
\* command is in its transaction, rotate the lease.
LEMMA IssuingKeepsEffects ==
  ASSUME Typed, Effects,
         UNCHANGED <<revision, history, executed, executor, txn>>,
         lease' # lease => txn = None,
         \A k \in Keys : payloads[k] # None => payloads'[k] = payloads[k]
  PROVE  Effects'
  BY ConstantsAssumption, NoneAssumption
  DEF Effects, InTransaction, EffectMatchesResult, AnsweredOutcomeIsRecorded,
      LeaseIsCurrent, Typed, TypeOK, RequestOK

\* Steps of an execution record the effect they have.
LEMMA EffectsExecuteStep ==
  ASSUME Typed, Effects, NEW p \in Procs, ExecuteStep(p)
  PROVE  Effects'
<1> USE ConstantsAssumption, NoneAssumption DEF Typed, TypeOK, RequestOK,
        Executor, Executing, Answer, issueVars, workVars, Effects,
        InTransaction, EffectMatchesResult, AnsweredOutcomeIsRecorded,
        LeaseIsCurrent
<1>1. CASE ExecuteReplays(p)
  BY <1>1 DEF ExecuteReplays
<1>2. CASE ExecuteStale(p)
  BY <1>2 DEF ExecuteStale, Stale, RecordedKinds
<1>3. CASE ExecuteRejected(p)
  BY <1>3 DEF ExecuteRejected, Failed, RecordedKinds
<1>4. CASE BeginBusiness(p)
  BY <1>4 DEF BeginBusiness, CanWrite
<1>5. CASE Business(p)
  BY <1>5 DEF Business, SaveResult
<1>6. CASE CommitExecution(p)
  <2> USE <1>6 DEF CommitExecution, Conflict, Refused, SavedAs, Result,
              RecordedKinds
  <2>1. InTransaction'
    OBVIOUS
  <2>2. EffectMatchesResult'
    <3> DEFINE key == executor[p].key
               result == executor[p].outcome
    <3>1. /\ executed[key] = None
          /\ executed' = [executed EXCEPT ![key] = result]
          /\ key \in Keys
          /\ result \in Result
      OBVIOUS
    <3>2. result # None
      BY <3>1 DEF Outcome
    <3>3. CASE result \in {Conflict, Refused}
      <4>1. UNCHANGED <<revision, history>>
        BY <3>3
      <4>2. \A r \in Nat : result # SavedAs(r)
        BY <3>3
      <4> QED
        BY <3>1, <3>2, <4>1, <4>2
    <3>4. CASE result = SavedAs(revision + 1)
      <4>1. /\ revision' = revision + 1
            /\ history' = Append(history, key)
        BY <3>4
      <4>2. /\ Len(history') = revision + 1
            /\ history'[revision + 1] = key
            /\ \A r \in 1..revision : history'[r] = history[r]
        BY <3>1, <4>1
      <4>3. \A r \in DOMAIN history' : result = SavedAs(r) <=> r = revision + 1
        BY <3>4, <4>2
      <4>4. DOMAIN history' = 1..(revision + 1)
        BY <4>1, <4>2
      <4>5. ASSUME NEW k \in Keys, NEW r \in DOMAIN history'
            PROVE  history'[r] = k <=> /\ executed'[k] # None
                                       /\ executed'[k] = SavedAs(r)
        <5>1. CASE k = key
          BY <5>1, <3>1, <3>2, <4>2, <4>3, <4>4
        <5>2. CASE k # key
          BY <5>2, <3>1, <4>2, <4>4
        <5> QED
          BY <5>1, <5>2
      <4>6. ASSUME NEW k \in Keys, executed'[k] # None,
                   executed'[k].kind = "saved"
            PROVE  executed'[k].rev \in DOMAIN history'
        BY <4>6, <3>1, <3>4, <4>2, <4>4
      <4> QED
        BY <4>1, <4>2, <4>5, <4>6
    <3> QED
      BY <3>3, <3>4
  <2>3. AnsweredOutcomeIsRecorded'
    OBVIOUS
  <2> QED
    BY <2>1, <2>2, <2>3
<1>7. CASE AbortExecution(p)
  BY <1>7 DEF AbortExecution, Failed, RecordedKinds
<1>8. CASE AnswerExecute(p)
  BY <1>8 DEF AnswerExecute, IdleExecutor
<1> QED
  BY <1>1, <1>2, <1>3, <1>4, <1>5, <1>6, <1>7, <1>8 DEF ExecuteStep

\* Every step of the system keeps results and effects together.
LEMMA EffectsStep == Typed /\ Effects /\ [Next]_vars => Effects'
<1> SUFFICES ASSUME Typed, Effects, [Next]_vars PROVE Effects'
  OBVIOUS
<1>1. \A k \in Keys : payloads[k] # None => payloads'[k] = payloads[k]
  BY PayloadsStay DEF Typed
<1>2. ASSUME UNCHANGED execVars PROVE Effects'
  BY <1>1, <1>2, IssuingKeepsEffects DEF execVars
<1>3. CASE GrantLease
  BY <1>3, <1>1, IssuingKeepsEffects DEF GrantLease, CanWrite, workVars
<1>4. ASSUME NEW p \in Procs, IssueStep(p) PROVE Effects'
  <2>1. UNCHANGED <<revision, history, executed, executor, txn>>
    BY <1>4 DEF IssueStep, ClaimFindsWinner, ClaimBecomesOwner,
        ClaimExhausted, SaveIssued, SaveFindsWinner, SaveStale, SaveRejected,
        Recover, ReleaseClaim, IssueTimesOut, AnswerIssue, workVars
  <2>2. lease' # lease => txn = None
    BY <1>4 DEF IssueStep, ClaimFindsWinner, ClaimBecomesOwner,
        ClaimExhausted, SaveIssued, SaveFindsWinner, SaveStale, SaveRejected,
        Recover, ReleaseClaim, IssueTimesOut, AnswerIssue, CanWrite,
        issueVars, leaseVars
  <2> QED
    BY <2>1, <2>2, <1>1, IssuingKeepsEffects
<1>5. ASSUME NEW p \in Procs, ExecuteStep(p) PROVE Effects'
  BY <1>5, EffectsExecuteStep
<1>6. ASSUME NEW p \in Procs, NEW k \in Keys, NEW b \in Bodies,
             StartIssue(p, k, b)
      PROVE  Effects'
  BY <1>6, <1>2 DEF StartIssue, issueVars, workVars, execVars
<1>7. ASSUME NEW p \in Procs, NEW k \in Keys, StartExecute(p, k)
      PROVE  Effects'
  BY <1>7 DEF StartExecute, issueVars, workVars, Typed, TypeOK, RequestOK,
      Effects, InTransaction, EffectMatchesResult, AnsweredOutcomeIsRecorded,
      LeaseIsCurrent
<1>8. ASSUME NEW p \in Procs, LoadDirect(p) PROVE Effects'
  BY <1>8, <1>2 DEF LoadDirect, issueVars, workVars, execVars
<1>9. ASSUME NEW p \in Procs, SaveDirect(p) PROVE Effects'
  <2>1. CASE revision = saver[p]
    <3>1. /\ revision' = revision + 1
          /\ history' = Append(history, Direct)
          /\ UNCHANGED <<lease, payloads, executed, executor>>
          /\ txn = None
          /\ txn' = None
      BY <1>9, <2>1 DEF SaveDirect, SaveResult, SavedAs, CanWrite, issueVars
    <3>2. /\ DOMAIN history' = 1..(revision + 1)
          /\ DOMAIN history = 1..revision
          /\ Len(history') = revision + 1
          /\ history'[revision + 1] = Direct
          /\ \A r \in 1..revision : history'[r] = history[r]
      BY <3>1 DEF Typed, TypeOK, Effects, EffectMatchesResult
    <3>3. InTransaction' /\ AnsweredOutcomeIsRecorded'
      BY <3>1, NoneAssumption, ConstantsAssumption DEF Effects, InTransaction,
         AnsweredOutcomeIsRecorded, LeaseIsCurrent, Typed, TypeOK
    <3>4. EffectMatchesResult'
      <4>1. ASSUME NEW k \in Keys, executed[k] # None
            PROVE  executed[k] # SavedAs(revision + 1)
        BY <4>1, <3>2 DEF Effects, EffectMatchesResult, Typed, TypeOK, SavedAs
      <4>2. ASSUME NEW k \in Keys, NEW r \in DOMAIN history'
            PROVE  history'[r] = k <=> /\ executed'[k] # None
                                       /\ executed'[k] = SavedAs(r)
        <5>1. CASE r = revision + 1
          BY <5>1, <4>1, <3>1, <3>2, ConstantsAssumption
        <5>2. CASE r \in 1..revision
          BY <5>2, <3>1, <3>2 DEF Effects, EffectMatchesResult
        <5> QED
          BY <5>1, <5>2, <3>2 DEF Typed, TypeOK
      <4>3. ASSUME NEW k \in Keys, executed'[k] # None,
                   executed'[k].kind = "saved"
            PROVE  executed'[k].rev \in DOMAIN history'
        BY <4>3, <3>1, <3>2 DEF Effects, EffectMatchesResult, Typed, TypeOK
      <4> QED
        BY <3>1, <3>2, <4>2, <4>3 DEF EffectMatchesResult
    <3> QED
      BY <3>3, <3>4 DEF Effects
  <2>2. CASE revision # saver[p]
    BY <1>9, <2>2, <1>2 DEF SaveDirect, SaveResult, Conflict, issueVars,
       execVars
  <2> QED
    BY <2>1, <2>2
<1>10. ASSUME NEW p \in Procs, Crash(p) PROVE Effects'
  BY <1>10, ConstantsAssumption, NoneAssumption
  DEF Crash, IdleExecutor, issueVars, workVars, Typed, TypeOK, RequestOK,
      Effects, InTransaction, EffectMatchesResult, AnsweredOutcomeIsRecorded,
      LeaseIsCurrent
<1>11. ASSUME NEW k \in Keys, AgeClaim(k) \/ Expire(k) PROVE Effects'
  BY <1>11, <1>2 DEF AgeClaim, Expire, leaseVars, issueVars, workVars, execVars
<1>12. CASE UNCHANGED vars
  BY <1>12, <1>2 DEF vars, execVars
<1> QED
  BY <1>3, <1>4, <1>5, <1>6, <1>7, <1>8, <1>9, <1>10, <1>11, <1>12 DEF Next

-----------------------------------------------------------------------------
(* The invariant, and the properties that follow from it.                    *)

\* The invariant holds in every reachable state.
LEMMA Invariant == Spec => []Inv
<1>1. Init => Inv
  <2> SUFFICES ASSUME Init PROVE Inv
    OBVIOUS
  <2>1. Typed
    BY TypedInit
  <2>2. LeaseOrder /\ TokensNeverShared /\ IssuedIsStored
    BY DEF Init, LeaseOrder, TokensNeverShared, IssuedIsStored, IdleIssuer
  <2>3. InTransaction /\ AnsweredOutcomeIsRecorded
    BY DEF Init, InTransaction, AnsweredOutcomeIsRecorded, IdleExecutor
  <2>4. EffectMatchesResult
    BY ConstantsAssumption DEF Init, EffectMatchesResult
  <2> QED
    BY <2>1, <2>2, <2>3, <2>4 DEF Inv
<1>2. Inv /\ [Next]_vars => Inv'
  BY TypedStep, TokensStep, IssuedStep, EffectsStep DEF Inv, Tokens, Effects
<1> QED
  BY <1>1, <1>2, PTL DEF Spec

\* No two issuances, stored payloads, or an issuance and a payload, hold one
\* fencing token: a burnt token is never given out again.
THEOREM TokensUnique == Spec => []TokensNeverShared
  BY Invariant, PTL DEF Inv

\* Revision and recorded result are one commit, for any number of commands,
\* processes and direct saves.
THEOREM AtomicEffect == Spec => []EffectMatchesResult
  BY Invariant, PTL DEF Inv

\* An answer that claims a recorded outcome is the recorded one.
THEOREM AnswersDurable == Spec => []AnsweredOutcomeIsRecorded
  BY Invariant, PTL DEF Inv

\* A payload reference is handed out only for the payload submitted.
THEOREM ReferenceMatches == Spec => []IssuedReferenceMatchesBody
<1>1. Inv => IssuedReferenceMatchesBody
  BY DEF Inv, IssuedIsStored, IssuedReferenceMatchesBody
<1> QED
  BY <1>1, Invariant, PTL

\* A stored payload is final, and is stored under the newest lease.
THEOREM PayloadsFinal == Spec => PayloadsAreFinal
<1>1. Inv /\ [Next]_vars => [StoresOnce]_vars
  <2> SUFFICES ASSUME Inv, [Next]_vars, NEW k \in Keys
               PROVE  IF payloads[k] # None THEN payloads'[k] = payloads[k]
                      ELSE payloads'[k] # None => payloads'[k].token = watermark'
    BY DEF StoresOnce
  <2>1. CASE payloads[k] # None
    BY <2>1, PayloadsStay DEF Inv, Typed
  <2>2. ASSUME NEW p \in Procs, SaveIssued(p), payloads[k] = None,
               payloads'[k] # None
        PROVE  payloads'[k].token = watermark'
    BY <2>2, NoneAssumption
    DEF SaveIssued, HoldsLease, leaseVars, Inv, LeaseOrder, Typed, TypeOK,
        RequestOK
  <2>3. CASE \A p \in Procs : ~SaveIssued(p)
    <3>1. UNCHANGED payloads
      BY <2>3, OnlySaveIssuedStores
    <3> QED
      BY <3>1, <2>1
  <2> QED
    BY <2>1, <2>2, <2>3
<1> QED
  BY <1>1, Invariant, PTL DEF Spec, PayloadsAreFinal

\* The watermark never falls, and every new lease has a higher token.
THEOREM WatermarkRises == Spec => WatermarkNeverFallsBack
<1>1. Inv /\ [Next]_vars => [GrantsUpwards]_vars
  <2> SUFFICES ASSUME Inv, [Next]_vars PROVE GrantsUpwards
    OBVIOUS
  <2>1. CASE BurnToken
    BY <2>1 DEF BurnToken, NextLease, GrantsUpwards, Inv, LeaseOrder, Typed,
       TypeOK, Lease
  <2>2. CASE UNCHANGED <<watermark, lease>>
    BY <2>2 DEF GrantsUpwards, Inv, Typed, TypeOK
  <2> QED
    BY <2>1, <2>2, LeaseMovesByBurning
<1> QED
  BY <1>1, Invariant, PTL DEF Spec, WatermarkNeverFallsBack
-----------------------------------------------------------------------------
(* Executions.                                                               *)

\* A result is recorded by a commit, by a process inside its transaction.
LEMMA OnlyCommitRecords ==
  ASSUME [Next]_vars, \A p \in Procs : ~CommitExecution(p)
  PROVE  UNCHANGED executed
  BY DEF Next, vars, IssueStep, ExecuteStep, GrantLease, ClaimFindsWinner,
     ClaimBecomesOwner, ClaimExhausted, SaveIssued, SaveFindsWinner,
     SaveStale, SaveRejected, Recover, ReleaseClaim, IssueTimesOut,
     AnswerIssue, StartIssue, StartExecute, ExecuteReplays, ExecuteStale,
     ExecuteRejected, BeginBusiness, Business, AbortExecution, AnswerExecute,
     LoadDirect, SaveDirect, AgeClaim, Expire, Crash, workVars

\* What a commit does to the recorded results: one command gets its first
\* and only result, while its lease is still current.
LEMMA CommitRecordsOne ==
  ASSUME Inv, NEW p \in Procs, CommitExecution(p)
  PROVE  LET key == executor[p].key
         IN  /\ key \in Keys
             /\ payloads[key] # None
             /\ executed[key] = None
             /\ LeaseIsCurrent(key)
             /\ executed' = [executed EXCEPT ![key] = executor[p].outcome]
             /\ UNCHANGED <<lease, payloads>>
  BY DEF CommitExecution, issueVars, Inv, InTransaction, Typed, RequestOK

\* An answer to a request is computed by a step of that request.
LEMMA OnlyExecuteStepAnswers ==
  ASSUME Typed, [Next]_vars, NEW p \in Procs, NEW k \in Keys,
         NewAnswer(p, k)
  PROVE  ExecuteStep(p) /\ executor[p].key = k
<1> USE DEF NewAnswer, Typed, TypeOK, Executor
<1>1. ASSUME NEW q \in Procs, ExecuteStep(q)
      PROVE  ExecuteStep(p) /\ executor[p].key = k
  <2>1. \A r \in Procs \ {q} : executor'[r] = executor[r]
    BY <1>1 DEF ExecuteStep, ExecuteReplays, ExecuteStale, ExecuteRejected,
       BeginBusiness, Business, CommitExecution, AbortExecution,
       AnswerExecute, Answer, Executing
  <2>2. p = q
    BY <2>1
  <2>3. executor'[q].key = executor[q].key \/ executor'[q].pc = "idle"
    BY <1>1 DEF ExecuteStep, ExecuteReplays, ExecuteStale, ExecuteRejected,
       BeginBusiness, Business, CommitExecution, AbortExecution,
       AnswerExecute, Answer, Executing, IdleExecutor
  <2> QED
    BY <1>1, <2>2, <2>3
<1>2. CASE \A q \in Procs : ~ExecuteStep(q)
  <2>1. ASSUME NEW q \in Procs, NEW j \in Keys, StartExecute(q, j)
        PROVE  FALSE
    BY <2>1 DEF StartExecute
  <2>2. ASSUME NEW q \in Procs, Crash(q) PROVE FALSE
    BY <2>2 DEF Crash, IdleExecutor
  <2>3. CASE UNCHANGED executor
    BY <2>3
  <2> QED
    BY <1>2, <2>1, <2>2, <2>3
    DEF Next, vars, IssueStep, GrantLease, ClaimFindsWinner,
       ClaimBecomesOwner, ClaimExhausted, SaveIssued, SaveFindsWinner,
       SaveStale, SaveRejected, Recover, ReleaseClaim, IssueTimesOut,
       AnswerIssue, StartIssue, LoadDirect, SaveDirect, AgeClaim, Expire
<1> QED
  BY <1>1, <1>2

\* Commands are executed in the order of their tokens.
THEOREM ExecutionOrder == Spec => ExecutionsFollowTokens
<1>1. Inv /\ [Next]_vars => [ExecutesInOrder]_vars
  <2> SUFFICES ASSUME Inv, [Next]_vars, NEW j \in Keys, NEW k \in Keys,
                      j # k, executed[j] # None,
                      executed[k] = None, executed'[k] # None
               PROVE  payloads[j].token < payloads[k].token
    BY DEF ExecutesInOrder
  <2>1. PICK p \in Procs : CommitExecution(p)
    BY OnlyCommitRecords
  <2>2. /\ payloads[k] # None
        /\ LeaseIsCurrent(k)
    BY <2>1, CommitRecordsOne DEF Inv, Typed, TypeOK
  <2>3. payloads[k].token = watermark
    BY <2>2, NoneAssumption DEF LeaseIsCurrent, LeaseOf, Lease, Inv,
       LeaseOrder, Typed, TypeOK, Payload
  <2>4. payloads[j] # None /\ payloads[j].token <= watermark
    BY DEF Inv, InTransaction, LeaseOrder
  <2>5. payloads[j].token # payloads[k].token
    BY <2>2, <2>4 DEF Inv, TokensNeverShared
  <2>6. payloads[j].token \in Nat /\ payloads[k].token \in Nat
    BY <2>2, <2>4 DEF Inv, Typed, TypeOK, Payload
  <2> QED
    BY <2>3, <2>4, <2>5, <2>6
<1> QED
  BY <1>1, Invariant, PTL DEF Spec, ExecutionsFollowTokens

\* Once a newer lease was granted, an unexecuted command never executes.
THEOREM FencedForGood == Spec => FencedStaysFenced
<1>1. Inv /\ [Next]_vars => [\A k \in Keys : Fenced(k) => Fenced(k)']_vars
  <2> SUFFICES ASSUME Inv, [Next]_vars, NEW k \in Keys, Fenced(k)
               PROVE  Fenced(k)'
    OBVIOUS
  <2>1. payloads[k] # None /\ payloads'[k] = payloads[k]
    BY PayloadsStay DEF Fenced, Inv, Typed
  <2>2. executed'[k] = None
    <3>1. ASSUME NEW p \in Procs, CommitExecution(p) PROVE executed'[k] = None
      BY <3>1, CommitRecordsOne DEF Fenced, Inv, Typed, TypeOK
    <3> QED
      BY <3>1, OnlyCommitRecords DEF Fenced
  <2>3. lease' # LeaseOf(payloads[k])
    <3>1. CASE BurnToken
      BY <3>1, <2>1 DEF BurnToken, NextLease, LeaseOf, Inv, LeaseOrder,
         Typed, TypeOK, Payload
    <3>2. CASE UNCHANGED <<watermark, lease>>
      BY <3>2 DEF Fenced, LeaseIsCurrent
    <3> QED
      BY <3>1, <3>2, LeaseMovesByBurning
  <2> QED
    BY <2>1, <2>2, <2>3 DEF Fenced, LeaseIsCurrent, LeaseOf
<1> QED
  BY <1>1, Invariant, PTL DEF Spec, FencedStaysFenced

\* A recorded result stays, and is the answer to every later request.
THEOREM RetriesReplay == Spec => RetryGetsTheRecordedResult
<1>1. Inv /\ [Next]_vars => [ReplaysOnly]_vars
  <2> SUFFICES ASSUME Inv, [Next]_vars, NEW k \in Keys, executed[k] # None
               PROVE  /\ executed'[k] = executed[k]
                      /\ \A p \in Procs : NewAnswer(p, k) /\ ~Busy(p)
                            => executor'[p].outcome = executed[k]
    BY DEF ReplaysOnly
  <2>1. executed'[k] = executed[k]
    <3>1. ASSUME NEW p \in Procs, CommitExecution(p)
          PROVE  executed'[k] = executed[k]
      BY <3>1, CommitRecordsOne DEF Inv, Typed, TypeOK
    <3> QED
      BY <3>1, OnlyCommitRecords
  <2>2. ASSUME NEW p \in Procs, NewAnswer(p, k), ~Busy(p)
        PROVE  executor'[p].outcome = executed[k]
    <3>1. ExecuteStep(p) /\ executor[p].key = k
      BY <2>2, OnlyExecuteStepAnswers DEF Inv, Typed
    <3>2. executor[p].pc \notin {"business", "commit"}
      BY <3>1 DEF Inv, InTransaction
    <3>3. CASE ExecuteReplays(p)
      BY <3>1, <3>3 DEF ExecuteReplays, Answer, Executing, Inv, Typed, TypeOK
    <3> QED
      BY <2>2, <3>1, <3>2, <3>3
      DEF ExecuteStep, ExecuteStale, ExecuteRejected, BeginBusiness, Business,
          CommitExecution, AbortExecution, AnswerExecute, NewAnswer
  <2> QED
    BY <2>1, <2>2
<1> QED
  BY <1>1, Invariant, PTL DEF Spec, RetryGetsTheRecordedResult
-----------------------------------------------------------------------------
(* Refinement.                                                               *)

\* Only commits and direct saves change what the ledger shows.
LEMMA OthersLeaveTheLedger ==
  ASSUME [Next]_vars,
         \A p \in Procs : ~CommitExecution(p) /\ ~SaveDirect(p)
  PROVE  UNCHANGED <<executed, history>>
  BY DEF Next, vars, IssueStep, ExecuteStep, GrantLease, ClaimFindsWinner,
     ClaimBecomesOwner, ClaimExhausted, SaveIssued, SaveFindsWinner,
     SaveStale, SaveRejected, Recover, ReleaseClaim, IssueTimesOut,
     AnswerIssue, StartIssue, StartExecute, ExecuteReplays, ExecuteStale,
     ExecuteRejected, BeginBusiness, Business, AbortExecution, AnswerExecute,
     LoadDirect, AgeClaim, Expire, Crash, workVars

\* The store implements the ledger: a command's effect and its result happen
\* in one step of the ledger, once, and nothing else changes either.
THEOREM StoreIsLedger == Spec => ImplementsLedger
<1>1. Init => Ledger!Init
  BY DEF Init, Ledger!Init
<1>2. Inv /\ [Next]_vars => [Ledger!Next]_<<executed, history>>
  <2> SUFFICES ASSUME Inv, [Next]_vars
               PROVE  Ledger!Next \/ UNCHANGED <<executed, history>>
    OBVIOUS
  <2>1. ASSUME NEW p \in Procs, CommitExecution(p) PROVE Ledger!Next
    <3> DEFINE key == executor[p].key
               result == executor[p].outcome
    <3>1. /\ key \in Keys
          /\ executed[key] = None
          /\ executed' = [executed EXCEPT ![key] = result]
      BY <2>1, CommitRecordsOne
    <3>2. Len(history) = revision /\ revision \in Nat
      BY DEF Inv, EffectMatchesResult, Typed, TypeOK
    <3>3. CASE result \in {Conflict, Refused}
      <4>1. history' = history
        BY <2>1, <3>3 DEF CommitExecution, Conflict, Refused
      <4>2. Ledger!RecordNoEffect(key)
        BY <3>1, <3>3, <4>1 DEF Ledger!RecordNoEffect, Conflict, Refused
      <4> QED
        BY <3>1, <4>2 DEF Ledger!Next
    <3>4. CASE result = SavedAs(revision + 1)
      <4>1. history' = Append(history, key)
        BY <2>1, <3>4 DEF CommitExecution, SavedAs
      <4>2. Ledger!RecordEffect(key)
        BY <3>1, <3>2, <3>4, <4>1 DEF Ledger!RecordEffect, SavedAs
      <4> QED
        BY <3>1, <4>2 DEF Ledger!Next
    <3> QED
      BY <2>1, <3>3, <3>4 DEF CommitExecution, Inv, InTransaction
  <2>2. ASSUME NEW p \in Procs, SaveDirect(p)
        PROVE  Ledger!Next \/ UNCHANGED <<executed, history>>
    BY <2>2 DEF SaveDirect, Ledger!Next, Ledger!OutsideSave
  <2>3. CASE UNCHANGED <<executed, history>>
    BY <2>3
  <2> QED
    BY <2>1, <2>2, <2>3, OthersLeaveTheLedger
<1> QED
  BY <1>1, <1>2, Invariant, PTL
  DEF Spec, ImplementsLedger, Ledger!Spec, Ledger!ledgerVars

-----------------------------------------------------------------------------
(***************************************************************************)
(* Opening the store (LeaseMigration), for any number of processes and any *)
(* token range.  Once the file has the v3 schema, opening it, however      *)
(* often and by however many processes at a time, cannot set the counter   *)
(* back (~Upgrading).  The upgrade of a v2 file can, by a process that      *)
(* carries over a lease replaced since it was read; until one has, nothing *)
(* is lost, however many upgrade at once.                                  *)
(***************************************************************************)

\* In a v3 file the watermark covers the lease and every grant, and what an
\* opener has read never calls for the upsert.
Covered ==
    /\ leaseToken <= watermark
    /\ \A i \in DOMAIN grants : grants[i] <= watermark
    /\ \A p \in Procs :
          /\ opener[p].pc = "lease" => opener[p].legacy <= watermark
          /\ opener[p].pc = "watermark" => opener[p].legacy <= opener[p].existing

SafeGrants == Covered /\ GrantsStrictlyIncrease

\* Every variable stays in its range, whatever schema the file had.
LEMMA OpeningTypeInit == OpeningInit => OpeningTypeOK
<1> USE MigrationAssumption DEF OpeningTypeOK
<1> SUFFICES ASSUME OpeningInit PROVE OpeningTypeOK
  OBVIOUS
<1>1. grants \in Seq(1..MaxToken)
  <2>1. CASE leaseToken = 0
    BY <2>1 DEF OpeningInit
  <2>2. CASE leaseToken # 0
    BY <2>2 DEF OpeningInit
  <2> QED
    BY <2>1, <2>2
<1>2. outdated \in BOOLEAN
  BY DEF OpeningInit
<1>3. opener \in [Procs -> [pc: {"closed", "lease", "watermark", "open", "broken"},
                           legacy: 0..MaxToken, existing: 0..MaxToken]]
  BY DEF OpeningInit, Closed, At
<1>4. watermark \in 0..MaxToken /\ leaseToken \in 0..MaxToken /\ lock = None
  BY DEF OpeningInit
<1> QED
  BY <1>1, <1>2, <1>3, <1>4

LEMMA OpeningTypeStep == OpeningTypeOK /\ [OpeningNext]_openingVars => OpeningTypeOK'
<1> USE MigrationAssumption DEF OpeningTypeOK
<1> SUFFICES ASSUME OpeningTypeOK, [OpeningNext]_openingVars PROVE OpeningTypeOK'
  OBVIOUS
<1>1. ASSUME NEW p \in Procs, ReadLease(p) PROVE OpeningTypeOK'
  BY <1>1 DEF ReadLease, At
<1>2. ASSUME NEW p \in Procs, ReadWatermark(p) PROVE OpeningTypeOK'
  BY <1>2 DEF ReadWatermark, At
<1>3. ASSUME NEW p \in Procs, WriteWatermark(p) PROVE OpeningTypeOK'
  <2>1. outdated' \in BOOLEAN
    BY <1>3 DEF WriteWatermark
  <2> QED
    BY <1>3, <2>1 DEF WriteWatermark, Migrated, At
<1>4. ASSUME NEW p \in Procs, OpenFails(p) PROVE OpeningTypeOK'
  BY <1>4 DEF OpenFails, At
<1>5. ASSUME NEW p \in Procs, Begin(p) PROVE OpeningTypeOK'
  BY <1>5 DEF Begin
<1>6. ASSUME NEW p \in Procs, Grant(p) PROVE OpeningTypeOK'
  BY <1>6 DEF Grant
<1>7. ASSUME NEW p \in Procs, End(p) PROVE OpeningTypeOK'
  BY <1>7 DEF End
<1>8. ASSUME NEW p \in Procs, OpenerCrashes(p) PROVE OpeningTypeOK'
  BY <1>8 DEF OpenerCrashes, Closed, At
<1>9. CASE UNCHANGED openingVars
  BY <1>9 DEF openingVars
<1> QED
  BY <1>1, <1>2, <1>3, <1>4, <1>5, <1>6, <1>7, <1>8, <1>9
  DEF OpeningNext, OpenStep

\* Every variable stays in its range, whatever schema the file had.
THEOREM OpeningTypeCorrect == OpeningSpec => []OpeningTypeOK
BY OpeningTypeInit, OpeningTypeStep, PTL DEF OpeningSpec

\* A step that grants nothing and sets nothing back is harmless.
LEMMA NoGrant ==
  ASSUME OpeningTypeOK, SafeGrants, UNCHANGED <<leaseToken, grants, watermark>>,
         \A p \in Procs :
            /\ opener'[p].pc = "lease" => opener'[p].legacy <= watermark
            /\ opener'[p].pc = "watermark"
                  => opener'[p].legacy <= opener'[p].existing
  PROVE  SafeGrants' /\ watermark' >= watermark
<1>1. GrantsStrictlyIncrease'
  BY DEF SafeGrants, GrantsStrictlyIncrease
<1> QED
  BY <1>1, MigrationAssumption DEF SafeGrants, Covered, OpeningTypeOK

\* A step keeps the invariant, and the watermark where it is or higher.
LEMMA GrantsStep ==
  ASSUME OpeningTypeOK, SafeGrants, [OpeningNext]_openingVars
  PROVE  SafeGrants' /\ watermark' >= watermark
<1> USE MigrationAssumption DEF OpeningTypeOK
<1>1. ASSUME NEW p \in Procs, Grant(p) PROVE SafeGrants' /\ watermark' >= watermark
  <2>1. /\ watermark' = watermark + 1
        /\ leaseToken' = watermark + 1
        /\ grants' = Append(grants, watermark + 1)
        /\ UNCHANGED opener
    BY <1>1 DEF Grant
  <2>2. /\ DOMAIN grants = 1..Len(grants)
        /\ DOMAIN grants' = 1..(Len(grants) + 1)
        /\ grants'[Len(grants) + 1] = watermark + 1
        /\ \A i \in DOMAIN grants : grants'[i] = grants[i]
    BY <2>1
  <2>3. \A i \in DOMAIN grants : grants[i] \in 1..MaxToken /\ grants[i] <= watermark
    BY DEF SafeGrants, Covered
  <2>4. GrantsStrictlyIncrease'
    BY <2>1, <2>2, <2>3 DEF SafeGrants, GrantsStrictlyIncrease
  <2>5. Covered'
    BY <2>1, <2>2, <2>3 DEF SafeGrants, Covered
  <2> QED
    BY <2>1, <2>4, <2>5 DEF SafeGrants
<1>2. ASSUME NEW p \in Procs, ReadLease(p) PROVE SafeGrants' /\ watermark' >= watermark
  BY <1>2, NoGrant DEF ReadLease, At, SafeGrants, Covered
<1>3. ASSUME NEW p \in Procs, ReadWatermark(p)
      PROVE  SafeGrants' /\ watermark' >= watermark
  BY <1>3, NoGrant DEF ReadWatermark, At, SafeGrants, Covered
<1>4. ASSUME NEW p \in Procs, WriteWatermark(p)
      PROVE  SafeGrants' /\ watermark' >= watermark
  BY <1>4, NoGrant DEF WriteWatermark, Migrated, CarriesOver, At, SafeGrants, Covered
<1>5. ASSUME NEW p \in Procs, OpenFails(p) PROVE SafeGrants' /\ watermark' >= watermark
  BY <1>5, NoGrant DEF OpenFails, At, SafeGrants, Covered
<1>6. ASSUME NEW p \in Procs, Begin(p) \/ End(p)
      PROVE  SafeGrants' /\ watermark' >= watermark
  BY <1>6, NoGrant DEF Begin, End, SafeGrants, Covered
<1>7. ASSUME NEW p \in Procs, OpenerCrashes(p)
      PROVE  SafeGrants' /\ watermark' >= watermark
  BY <1>7, NoGrant DEF OpenerCrashes, Closed, At, SafeGrants, Covered
<1>8. CASE UNCHANGED openingVars
  BY <1>8, NoGrant DEF openingVars, SafeGrants, Covered
<1> QED
  BY <1>1, <1>2, <1>3, <1>4, <1>5, <1>6, <1>7, <1>8 DEF OpeningNext, OpenStep

\* A v3 file starts covered.
LEMMA GrantsInit ==
  ASSUME ~Upgrading, OpeningInit
  PROVE  SafeGrants
<1>1. CASE leaseToken = 0
  BY <1>1, MigrationAssumption
  DEF OpeningInit, Closed, At, SafeGrants, Covered, GrantsStrictlyIncrease
<1>2. CASE leaseToken # 0
  BY <1>2, MigrationAssumption
  DEF OpeningInit, Closed, At, SafeGrants, Covered, GrantsStrictlyIncrease
<1> QED
  BY <1>1, <1>2

\* On a v3 file no token is granted twice, whoever opens the store meanwhile.
THEOREM GrantsNeverRepeat ==
  ASSUME ~Upgrading
  PROVE  OpeningSpec => []GrantsStrictlyIncrease
<1>1. OpeningInit => SafeGrants
  BY GrantsInit
<1>2. SafeGrants /\ OpeningTypeOK /\ [OpeningNext]_openingVars => SafeGrants'
  BY GrantsStep
<1>3. SafeGrants => GrantsStrictlyIncrease
  BY DEF SafeGrants
<1> QED
  BY <1>1, <1>2, <1>3, OpeningTypeCorrect, PTL DEF OpeningSpec

\* On a v3 file the watermark is never set back.
THEOREM WatermarkOnlyRises ==
  ASSUME ~Upgrading
  PROVE  OpeningSpec => WatermarkNeverSetBack
<1>1. OpeningInit => SafeGrants
  BY GrantsInit
<1>2. SafeGrants /\ OpeningTypeOK /\ [OpeningNext]_openingVars
         => SafeGrants' /\ watermark' >= watermark
  BY GrantsStep
<1> QED
  BY <1>1, <1>2, OpeningTypeCorrect, PTL DEF OpeningSpec, WatermarkNeverSetBack

-----------------------------------------------------------------------------
(* The upgrade of a v2 file, by any number of processes at once.             *)

\* Not upgraded: nobody has the store open, and who is opening it has read
\* what there is to carry over.
NotUpgraded ==
    \A p \in Procs :
       /\ opener[p].pc # "open"
       /\ opener[p].pc \in {"lease", "watermark"} => opener[p].legacy = leaseToken
       /\ opener[p].pc = "watermark" => opener[p].existing = watermark

Carried ==
    /\ lock # None => opener[lock].pc = "open"
    /\ \A i \in DOMAIN grants : grants[i] <= leaseToken
    /\ leaseToken > watermark => NotUpgraded
    /\ GrantsStrictlyIncrease

CarriedSoFar == ~outdated => Carried

LEMMA CarriedInit == OpeningInit => Carried
<1> SUFFICES ASSUME OpeningInit PROVE Carried
  OBVIOUS
<1> USE MigrationAssumption DEF OpeningInit, Closed, At, Carried, NotUpgraded,
        GrantsStrictlyIncrease
<1>1. CASE leaseToken = 0
  BY <1>1
<1>2. CASE leaseToken # 0
  BY <1>2
<1> QED
  BY <1>1, <1>2

\* A step that grants nothing and opens nothing.
LEMMA CarriedGrants ==
  ASSUME OpeningTypeOK, Carried, UNCHANGED <<leaseToken, grants>>
  PROVE  (\A i \in DOMAIN grants' : grants'[i] <= leaseToken') /\ GrantsStrictlyIncrease'
BY DEF Carried, GrantsStrictlyIncrease

LEMMA CarriedStep ==
  ASSUME OpeningTypeOK, Carried, [OpeningNext]_openingVars, ~outdated'
  PROVE  Carried'
<1> USE MigrationAssumption DEF OpeningTypeOK
<1>1. ASSUME NEW p \in Procs, Grant(p) PROVE Carried'
  <2>1. /\ watermark' = watermark + 1 /\ leaseToken' = watermark + 1
        /\ grants' = Append(grants, watermark + 1)
        /\ lock = p /\ lock' = None /\ UNCHANGED opener
    BY <1>1 DEF Grant
  <2>2. leaseToken <= watermark
    BY <2>1 DEF Carried, NotUpgraded
  <2>3. /\ DOMAIN grants = 1..Len(grants)
        /\ DOMAIN grants' = 1..(Len(grants) + 1)
        /\ grants'[Len(grants) + 1] = watermark + 1
        /\ \A i \in DOMAIN grants : grants'[i] = grants[i]
    BY <2>1
  <2>4. \A i \in DOMAIN grants : grants[i] \in 1..MaxToken /\ grants[i] <= watermark
    BY <2>2 DEF Carried
  <2>5. GrantsStrictlyIncrease'
    <3>1. /\ \A i, j \in DOMAIN grants : i < j => grants[i] < grants[j]
          /\ Len(grants) \in Nat /\ watermark \in Nat
      BY DEF Carried, GrantsStrictlyIncrease
    <3> SUFFICES ASSUME NEW i \in DOMAIN grants', NEW j \in DOMAIN grants', i < j
                 PROVE  grants'[i] < grants'[j]
      BY DEF GrantsStrictlyIncrease
    <3>2. i \in DOMAIN grants
      BY <2>3, <3>1
    <3>3. CASE j \in DOMAIN grants
      BY <2>3, <3>1, <3>2, <3>3
    <3>4. CASE j = Len(grants) + 1
      BY <2>3, <2>4, <3>1, <3>2, <3>4
    <3> QED
      BY <2>3, <3>1, <3>3, <3>4
  <2>6. \A i \in DOMAIN grants' : grants'[i] <= leaseToken'
    BY <2>1, <2>3, <2>4
  <2> QED
    BY <2>1, <2>5, <2>6 DEF Carried
<1>2. ASSUME NEW p \in Procs, ReadLease(p) PROVE Carried'
  <2>1. /\ UNCHANGED <<watermark, leaseToken, grants, lock>> /\ lock # p
        /\ opener'[p].pc = "lease" /\ opener'[p].legacy = leaseToken
        /\ \A q \in Procs \ {p} : opener'[q] = opener[q]
    BY <1>2 DEF ReadLease, At
  <2>2. leaseToken > watermark => NotUpgraded'
    BY <2>1 DEF Carried, NotUpgraded
  <2>3. lock' # None => opener'[lock'].pc = "open"
    BY <2>1 DEF Carried
  <2> QED
    BY <2>1, <2>2, <2>3, CarriedGrants DEF Carried
<1>3. ASSUME NEW p \in Procs, ReadWatermark(p) PROVE Carried'
  <2>1. /\ UNCHANGED <<watermark, leaseToken, grants, lock>> /\ opener[p].pc = "lease"
        /\ opener'[p].pc = "watermark" /\ opener'[p].legacy = opener[p].legacy
        /\ opener'[p].existing = watermark
        /\ \A q \in Procs \ {p} : opener'[q] = opener[q]
    BY <1>3 DEF ReadWatermark, At
  <2>2. leaseToken > watermark => NotUpgraded'
    BY <2>1 DEF Carried, NotUpgraded
  <2>3. lock' # None => opener'[lock'].pc = "open"
    BY <2>1 DEF Carried
  <2> QED
    BY <2>1, <2>2, <2>3, CarriedGrants DEF Carried
<1>4. ASSUME NEW p \in Procs, WriteWatermark(p) PROVE Carried'
  <2>1. /\ UNCHANGED <<leaseToken, grants, lock>> /\ lock = None
        /\ opener[p].pc = "watermark"
        /\ watermark' = IF CarriesOver(p) THEN opener[p].legacy ELSE watermark
    BY <1>4 DEF WriteWatermark, Migrated
  <2>2. CarriesOver(p) => opener[p].legacy = leaseToken
    BY <1>4 DEF WriteWatermark
  <2>3. leaseToken > watermark => CarriesOver(p)
    BY <2>1 DEF Carried, NotUpgraded, CarriesOver
  <2>4. leaseToken' <= watermark'
    BY <2>1, <2>2, <2>3
  <2> QED
    BY <2>1, <2>4, CarriedGrants DEF Carried
<1>5. ASSUME NEW p \in Procs, OpenFails(p) \/ OpenerCrashes(p) PROVE Carried'
  <2>1. /\ UNCHANGED <<watermark, leaseToken, grants>>
        /\ opener'[p].pc \in {"broken", "closed"}
        /\ \A q \in Procs \ {p} : opener'[q] = opener[q]
        /\ lock' # p /\ lock' \in {None, lock}
    BY <1>5 DEF OpenFails, OpenerCrashes, Closed, At
  <2>2. leaseToken > watermark => NotUpgraded'
    BY <2>1 DEF Carried, NotUpgraded
  <2>3. lock' # None => opener'[lock'].pc = "open"
    BY <2>1 DEF Carried
  <2> QED
    BY <2>1, <2>2, <2>3, CarriedGrants DEF Carried
<1>6. ASSUME NEW p \in Procs, Begin(p) \/ End(p) PROVE Carried'
  <2>1. /\ UNCHANGED <<watermark, leaseToken, grants, opener>>
        /\ lock' = None \/ opener[lock'].pc = "open"
    BY <1>6 DEF Begin, End
  <2> QED
    BY <2>1, CarriedGrants DEF Carried, NotUpgraded
<1>7. CASE UNCHANGED openingVars
  BY <1>7, CarriedGrants DEF openingVars, Carried, NotUpgraded
<1> QED
  BY <1>1, <1>2, <1>3, <1>4, <1>5, <1>6, <1>7 DEF OpeningNext, OpenStep

\* What was carried over too late stays on record.
LEMMA OutdatedStays ==
  ASSUME [OpeningNext]_openingVars, outdated
  PROVE  outdated'
BY DEF OpeningNext, OpenStep, openingVars, ReadLease, ReadWatermark, WriteWatermark,
       OpenFails, Begin, Grant, End, OpenerCrashes

LEMMA CarriedHolds == OpeningSpec => [](OpeningTypeOK /\ CarriedSoFar)
<1>1. OpeningInit => CarriedSoFar
  BY CarriedInit DEF CarriedSoFar
<1>2. OpeningTypeOK /\ CarriedSoFar /\ [OpeningNext]_openingVars => CarriedSoFar'
  BY CarriedStep, OutdatedStays DEF CarriedSoFar
<1> QED
  BY <1>1, <1>2, OpeningTypeInit, OpeningTypeStep, PTL DEF OpeningSpec

\* Whichever schema the file had and however many processes open it, one that
\* has it open finds the watermark at or above the current lease, until a lease
\* is carried over that has been replaced since it was read.
THEOREM OpenedIsCovered == OpeningSpec => []OpenStoreCoversLease
<1>1. OpeningTypeOK /\ CarriedSoFar => OpenStoreCoversLease
  BY DEF OpeningTypeOK, CarriedSoFar, Carried, NotUpgraded, OpenStoreCoversLease
<1> QED
  BY <1>1, CarriedHolds, PTL

\* And until then no token is granted twice, neither before nor after the
\* upgrade.
THEOREM UpgradesGrantOnce == OpeningSpec => []UpgradeGrantsOnce
<1>1. CarriedSoFar => UpgradeGrantsOnce
  BY DEF CarriedSoFar, Carried, UpgradeGrantsOnce
<1> QED
  BY <1>1, CarriedHolds, PTL
=============================================================================
