--------------------------- MODULE LeaseMigration ---------------------------
(***************************************************************************)
(* How a server process opens the command store.  ensureTables upgrades a  *)
(* file of the v2 schema, whose current lease is the only trace of the     *)
(* tokens granted so far, to the v3 schema, where a high watermark is kept. *)
(* The statements run one by one, in no transaction, in every process that *)
(* opens the file; the open itself is cached as a promise.                 *)
(*                                                                         *)
(*   leaseToken  the token of the current lease, 0 if there is no lease row *)
(*   grants      the tokens granted so far, in order (history variable)    *)
(*   lock        the process inside a write transaction                    *)
(*   opener[p]   how far p has come, and the two values it has read        *)
(*   outdated    history: a lease was carried over that had been replaced  *)
(*               since it was read                                         *)
(***************************************************************************)
EXTENDS CommandStore, Naturals, Sequences

CONSTANT Upgrading   \* TRUE: the file may still have the v2 schema

ASSUME MigrationAssumption ==
    /\ MaxToken \in Nat \ {0}
    /\ Upgrading \in BOOLEAN
    /\ None \notin Procs

VARIABLES leaseToken, grants, lock, opener, outdated

openingVars == <<watermark, leaseToken, grants, lock, opener, outdated>>

At(pc, legacy, existing) ==
    [pc |-> pc, legacy |-> legacy, existing |-> existing]

Closed == At("closed", 0, 0)

\* A v2 file holds a lease and no watermark; a v3 file has them in step.
OpeningInit ==
    /\ leaseToken \in 0..MaxToken
    /\ watermark \in {leaseToken} \cup (IF Upgrading THEN {0} ELSE {})
    /\ grants = IF leaseToken = 0 THEN << >> ELSE <<leaseToken>>
    /\ lock = None
    /\ opener = [p \in Procs |-> Closed]
    /\ outdated = FALSE

-----------------------------------------------------------------------------

ReadLease(p) ==
    /\ opener[p].pc = "closed"
    /\ lock # p
    /\ opener' = [opener EXCEPT ![p] = At("lease", leaseToken, 0)]
    /\ UNCHANGED <<watermark, leaseToken, grants, lock, outdated>>

ReadWatermark(p) ==
    /\ opener[p].pc = "lease"
    /\ opener' = [opener EXCEPT ![p] =
                      At("watermark", opener[p].legacy, watermark)]
    /\ UNCHANGED <<watermark, leaseToken, grants, lock, outdated>>

\* Mutant: the v2 lease is not carried over.
MigratedNever(p) == watermark

\* Mutant: the lease is written without comparing it with the watermark.
MigratedAlways(p) == opener[p].legacy

CarriesOver(p) == opener[p].legacy > opener[p].existing

\* The upsert is unconditional once the values read call for it.
Migrated(p) == IF CarriesOver(p) THEN opener[p].legacy ELSE watermark

WriteWatermark(p) ==
    /\ opener[p].pc = "watermark"
    /\ lock = None
    /\ watermark' = Migrated(p)
    /\ outdated' = (outdated \/ (CarriesOver(p) /\ opener[p].legacy # leaseToken))
    /\ opener' = [opener EXCEPT ![p] = At("open", 0, 0)]
    /\ UNCHANGED <<leaseToken, grants, lock>>

\* The lock was not to be had within busy_timeout; the rejected promise stays
\* cached, so this process never opens the store again.
OpenFails(p) ==
    /\ opener[p].pc \in {"closed", "lease", "watermark"}
    /\ lock \notin {None, p}
    /\ opener' = [opener EXCEPT ![p] = At("broken", 0, 0)]
    /\ UNCHANGED <<watermark, leaseToken, grants, lock, outdated>>

\* A write transaction of an open store: it ends with a grant
\* (grantWorkspaceLeasePermanently, claimIssuance) or without one.
Begin(p) ==
    /\ opener[p].pc = "open"
    /\ lock = None
    /\ lock' = p
    /\ UNCHANGED <<watermark, leaseToken, grants, opener, outdated>>

Grant(p) ==
    /\ lock = p
    /\ watermark + 1 <= MaxToken
    /\ watermark' = watermark + 1
    /\ leaseToken' = watermark + 1
    /\ grants' = Append(grants, watermark + 1)
    /\ lock' = None
    /\ UNCHANGED <<opener, outdated>>

End(p) ==
    /\ lock = p
    /\ lock' = None
    /\ UNCHANGED <<watermark, leaseToken, grants, opener, outdated>>

OpenerCrashes(p) ==
    /\ opener' = [opener EXCEPT ![p] = Closed]
    /\ lock' = IF lock = p THEN None ELSE lock
    /\ UNCHANGED <<watermark, leaseToken, grants, outdated>>

OpenStep(p) == ReadLease(p) \/ ReadWatermark(p) \/ WriteWatermark(p)
                  \/ OpenFails(p)

OpeningNext == \E p \in Procs :
    OpenStep(p) \/ Begin(p) \/ Grant(p) \/ End(p) \/ OpenerCrashes(p)

OpeningSpec == OpeningInit /\ [][OpeningNext]_openingVars

-----------------------------------------------------------------------------

OpeningTypeOK ==
    /\ watermark \in 0..MaxToken
    /\ leaseToken \in 0..MaxToken
    /\ grants \in Seq(1..MaxToken)
    /\ lock \in Procs \cup {None}
    /\ opener \in [Procs -> [pc: {"closed", "lease", "watermark", "open",
                                  "broken"},
                             legacy: 0..MaxToken, existing: 0..MaxToken]]
    /\ outdated \in BOOLEAN

\* Tokens grow from grant to grant, counting the one the v2 lease carries:
\* none is granted twice.
GrantsStrictlyIncrease ==
    \A i, j \in DOMAIN grants : i < j => grants[i] < grants[j]

\* However many processes open and upgrade the file at once, and die at it, no
\* token is granted twice unless a process carries over a lease that has been
\* replaced since it was read.
UpgradeGrantsOnce == ~outdated => GrantsStrictlyIncrease

\* The watermark a store has once opened covers every token granted so far,
\* with the same exception.
OpenStoreCoversLease ==
    ~outdated => \A p \in Procs : opener[p].pc = "open" => leaseToken <= watermark

\* The counter of the workspace is never set back.
WatermarkNeverSetBack == [][watermark' >= watermark]_openingVars
=============================================================================
