---------------------------- MODULE CommandLedger ----------------------------
(***************************************************************************)
(* What the command store promises to its callers, without leases, claims, *)
(* transactions or processes: a ledger of results and a history of          *)
(* revisions in which every command takes effect at most once, at the       *)
(* moment its result is recorded, and nothing recorded ever changes.        *)
(***************************************************************************)
EXTENDS Naturals, Sequences

CONSTANTS Commands, Unrecorded, Outsider

VARIABLES results, history

ledgerVars == <<results, history>>

Init ==
    /\ results = [c \in Commands |-> Unrecorded]
    /\ history = <<Outsider>>

\* The command ends without effect: a domain refusal or a revision conflict.
RecordNoEffect(c) ==
    /\ results[c] = Unrecorded
    /\ \E kind \in {"conflict", "refused"} :
          results' = [results EXCEPT ![c] = [kind |-> kind, rev |-> 0]]
    /\ history' = history

\* The command writes the next revision and says which one it wrote.
RecordEffect(c) ==
    /\ results[c] = Unrecorded
    /\ history' = Append(history, c)
    /\ results' = [results EXCEPT ![c] =
                      [kind |-> "saved", rev |-> Len(history) + 1]]

\* A save that belongs to no command.
OutsideSave ==
    /\ history' = Append(history, Outsider)
    /\ results' = results

Next ==
    \/ \E c \in Commands : RecordNoEffect(c) \/ RecordEffect(c)
    \/ OutsideSave

Spec == Init /\ [][Next]_ledgerVars
=============================================================================
