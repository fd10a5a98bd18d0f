----------------------------- MODULE ClientSave -----------------------------
(***************************************************************************)
(* Editing the shared workspace in several browsers: every browser keeps a *)
(* page of its own, saves it as a whole against the revision it started    *)
(* from, and after a conflict merges it with the latest one, field by      *)
(* field.  A domain command changes a governed field on the server and     *)
(* sends the whole workspace back.                                         *)
(*                                                                         *)
(*   stored      the revisions of the workspace, the last one is current   *)
(*   net         requests and answers under way; either may be lost        *)
(*   page[c]     the state the user sees and edits                         *)
(*   base[c]     baselineStateRef, with revision[c]                        *)
(*   dirty[c]    what the save button, leaving and commands go by          *)
(*   shortcut[c] the page and revision that Ctrl-S would save: the handler *)
(*               of the keyboard is made anew only when dirty changes      *)
(*   undo[c]     undoStackRef, each entry with the revision it was made at *)
(*   draft[c]    conflictDraftRef, with the revision it was taken at       *)
(*   notice[c]   saveFeedback and syncState: a save is under way, or the   *)
(*               conflict shown and the fields offered for a choice        *)
(*   typed       the number of values typed so far: every edit is a new one*)
(* History: chosen[c] has <<old, new>> when user c saw old and put new in  *)
(* its place, in one go or in several; behind says whether undo has put a  *)
(* page back that was older than the revision it is saved against, or a    *)
(* refresh has met other requests of the same browser (InTime).            *)
(***************************************************************************)
EXTENDS Integers, Sequences, FiniteSets

CONSTANTS
    Clients,
    Fields,
    Governed,   \* fields that only commands change
    Edits,      \* the most values typed, by users or commands (bound)
    MaxStored,  \* bound: revisions
    MaxUndo,    \* MAX_UNDO
    MaxNet,     \* bound: requests and answers of one client under way
    None

VARIABLES stored, net, page, base, revision, dirty, shortcut, undo, draft, notice,
          typed, chosen, behind

client == <<page, base, revision, dirty, shortcut, undo, draft, notice>>
history == <<chosen, behind>>
vars == <<stored, net, client, typed, history>>

Ordinary == Fields \ Governed
Content == [Fields -> 0..Edits]
Page == [page: Content, revision: 1..MaxStored]

Notices == [kind: {"none", "saving", "conflict", "refreshed"}, choices: SUBSET Ordinary]
NoNotice == [kind |-> "none", choices |-> {}]

\* A request outlives the page that sent it, its answer does not.
Message == [of: Clients, awaited: BOOLEAN, kind: {"save", "refresh", "command"},
            page: Content, revision: 1..MaxStored,
            answer: {"open", "saved", "conflict", "refused", "latest", "applied"}]

ASSUME ClientAssumption ==
    /\ Governed \subseteq Fields
    /\ Edits \in Nat /\ MaxStored \in Nat \ {0}
    /\ MaxUndo \in Nat \ {0} /\ MaxNet \in Nat
    /\ None \notin Page

Blank == [f \in Fields |-> 0]

Init ==
    /\ stored = <<Blank>>
    /\ net = {}
    /\ page = [c \in Clients |-> Blank]
    /\ base = [c \in Clients |-> Blank]
    /\ revision = [c \in Clients |-> 1]
    /\ dirty = [c \in Clients |-> FALSE]
    /\ shortcut = [c \in Clients |-> [page |-> Blank, revision |-> 1]]
    /\ undo = [c \in Clients |-> << >>]
    /\ draft = [c \in Clients |-> None]
    /\ notice = [c \in Clients |-> NoNotice]
    /\ typed = 0
    /\ chosen = [c \in Clients |-> {}]
    /\ behind = {}

Latest == Len(stored)
Current == stored[Latest]

-----------------------------------------------------------------------------
(* What the browser shows.                                                   *)

\* One render: the keyboard handler closes over the page and the revision of
\* the render in which dirty changed.
Render(c, newPage, newBase, newRevision, newDirty) ==
    /\ page' = [page EXCEPT ![c] = newPage]
    /\ base' = [base EXCEPT ![c] = newBase]
    /\ revision' = [revision EXCEPT ![c] = newRevision]
    /\ dirty' = [dirty EXCEPT ![c] = newDirty]
    /\ shortcut' = IF newDirty = dirty[c] THEN shortcut
                   ELSE [shortcut EXCEPT ![c] = [page |-> newPage, revision |-> newRevision]]

Change(c, newPage) == Render(c, newPage, base[c], revision[c], TRUE)

Notify(c, kind, choices) ==
    notice' = [notice EXCEPT ![c] = [kind |-> kind, choices |-> choices]]

PushUndo(c) ==
    LET stack == IF Len(undo[c]) < MaxUndo THEN undo[c] ELSE Tail(undo[c])
    IN Append(stack, [page |-> page[c], revision |-> revision[c]])

\* User c puts a page in place of the one shown, and means it for fields fs.
Choose(c, newPage, fs) ==
    LET now == {<<page[c][f], newPage[f]>> : f \in fs}
        earlier == UNION {{<<p[1], n[2]>> : p \in {q \in chosen[c] : q[2] = n[1]}} : n \in now}
    IN chosen' = [chosen EXCEPT ![c] = @ \cup now \cup earlier]

\* mutate
Edit(c, f) ==
    LET new == [page[c] EXCEPT ![f] = typed + 1] IN
    /\ f \in Ordinary
    /\ typed < Edits
    /\ typed' = typed + 1
    /\ undo' = [undo EXCEPT ![c] = PushUndo(c)]
    /\ Change(c, new)
    /\ Choose(c, new, {f})
    /\ Notify(c, "none", {})
    /\ UNCHANGED <<stored, net, draft, behind>>

\* Ctrl-Z: the page as it was, whatever happened to its revision since.
Undo(c) ==
    LET top == undo[c][Len(undo[c])]
        inOrder == top.revision = revision[c]
    IN
    /\ undo[c] # << >>
    /\ Change(c, top.page)
    /\ Choose(c, top.page, {f \in Fields : inOrder /\ top.page[f] # page[c][f]})
    /\ behind' = behind \cup {w \in {"undo"} : ~inOrder}
    /\ undo' = [undo EXCEPT ![c] = SubSeq(@, 1, Len(@) - 1)]
    /\ UNCHANGED <<stored, net, draft, notice, typed>>

-----------------------------------------------------------------------------
(* Saving.                                                                   *)

Send(c, kind, content, since) ==
    /\ Cardinality({n \in net : n.of = c}) < MaxNet
    /\ net' = net \cup {[of |-> c, awaited |-> TRUE, kind |-> kind, page |-> content,
                        revision |-> since, answer |-> "open"]}

Save(c, what) ==
    /\ Send(c, "save", what.page, what.revision)
    /\ Notify(c, "saving", {})
    /\ UNCHANGED <<stored, page, base, revision, dirty, shortcut, undo, draft, typed, history>>

\* The button is off until the answer or the next edit, the keyboard is not.
SaveButton(c) ==
    /\ dirty[c]
    /\ notice[c].kind # "saving"
    /\ Save(c, [page |-> page[c], revision |-> revision[c]])

SaveShortcut(c) == dirty[c] /\ Save(c, shortcut[c])

Reply(m, n) == net' = (net \ {m}) \cup {a \in {n} : a.awaited}

\* PUT /api/state: the base must be the current revision, and the governed
\* fields must be left alone.
ServeSave(m) ==
    /\ m.kind = "save" /\ m.answer = "open"
    /\ IF m.revision # Latest
       THEN /\ Reply(m, [m EXCEPT !.answer = "conflict"])
            /\ UNCHANGED stored
       ELSE IF \E g \in Governed : m.page[g] # Current[g]
       THEN /\ Reply(m, [m EXCEPT !.answer = "refused"])
            /\ UNCHANGED stored
       ELSE /\ Latest < MaxStored
            /\ stored' = Append(stored, m.page)
            /\ Reply(m, [m EXCEPT !.answer = "saved", !.revision = Latest + 1])
    /\ UNCHANGED <<client, typed, history>>

\* Mutant: what is shown by now becomes the base.
ReceiveSavedTakesShown(m) ==
    /\ m.answer = "saved"
    /\ net' = net \ {m}
    /\ Render(m.of, page[m.of], page[m.of], m.revision, FALSE)
    /\ Notify(m.of, "none", {})
    /\ UNCHANGED <<stored, undo, draft, typed, history>>

\* What was sent is the base now, and the page counts as saved.
ReceiveSaved(m) ==
    /\ m.answer = "saved"
    /\ net' = net \ {m}
    /\ Render(m.of, page[m.of], m.page, m.revision, FALSE)
    /\ Notify(m.of, "none", {})
    /\ UNCHANGED <<stored, undo, draft, typed, history>>

ReceiveConflict(m) ==
    /\ m.kind = "save" /\ m.answer = "conflict"
    /\ net' = net \ {m}
    /\ Notify(m.of, "conflict", {})
    /\ UNCHANGED <<stored, page, base, revision, dirty, shortcut, undo, draft, typed, history>>

\* A refusal, or an answer that never comes: an error is shown.
ReceiveError(m) ==
    /\ m.awaited
    /\ net' = net \ {m}
    /\ IF m.kind = "command" \/ (m.kind = "refresh" /\ notice[m.of].kind = "saving")
       THEN UNCHANGED notice
       ELSE Notify(m.of, "none", {})
    /\ UNCHANGED <<stored, page, base, revision, dirty, shortcut, undo, draft, typed, history>>

-----------------------------------------------------------------------------
(* After a conflict.                                                         *)

\* refreshConflictBaseline: the page is kept as the draft, the latest
\* revision fetched ...  A page that is not dirty has been saved meanwhile: the
\* conflict is that of a save another one has overtaken.
Refresh(c) ==
    /\ notice[c].kind = "conflict"
    /\ Send(c, "refresh", Blank, 1)
    /\ draft' = [draft EXCEPT ![c] = [page |-> page[c], revision |-> revision[c]]]
    /\ behind' = behind \cup {w \in {"draft"} : ~dirty[c]}
    /\ UNCHANGED <<stored, page, base, revision, dirty, shortcut, undo, notice, typed, chosen>>

ServeRefresh(m) ==
    /\ m.kind = "refresh" /\ m.answer = "open"
    /\ Reply(m, [m EXCEPT !.answer = "latest", !.page = Current, !.revision = Latest])
    /\ UNCHANGED <<stored, client, typed, history>>

\* mergeWorkspaceConflict
LocalChanges(c, latest) ==
    {f \in Ordinary : draft[c].page[f] # base[c][f] /\ draft[c].page[f] # latest[f]}
\* Mutant: a field changed on both sides goes to the local value.
ConflictsGoToDraft(c, latest) == {}

Conflicts(c, latest) == {f \in LocalChanges(c, latest) : latest[f] # base[c][f]}
Replayed(c, latest) == LocalChanges(c, latest) \ Conflicts(c, latest)
Merged(c, latest) ==
    [f \in Fields |-> IF f \in Replayed(c, latest) THEN draft[c].page[f] ELSE latest[f]]

\* The answer to a refresh finds the browser on the revision it was asked for,
\* with no other save or refresh under way.  The code asks for none of this.
InTime(m) ==
    /\ draft[m.of].revision = revision[m.of]
    /\ revision[m.of] <= m.revision
    /\ \A n \in net \ {m} : n.of = m.of /\ n.kind # "command" => ~n.awaited

\* ... and merged into the page.
ReceiveLatest(m) ==
    LET c == m.of IN
    /\ m.answer = "latest"
    /\ draft[c] # None
    /\ net' = net \ {m}
    /\ Render(c, Merged(c, m.page), m.page, m.revision, Replayed(c, m.page) # {})
    /\ Notify(c, "refreshed", Conflicts(c, m.page))
    /\ behind' = behind \cup {w \in {"draft"} : ~InTime(m)}
    /\ UNCHANGED <<stored, undo, draft, typed, chosen>>

\* applyLocalConflictField
ChooseLocal(c, f) ==
    /\ notice[c].kind = "refreshed"
    /\ f \in notice[c].choices
    /\ draft[c] # None
    /\ LET new == [page[c] EXCEPT ![f] = draft[c].page[f]]
       IN Change(c, new) /\ Choose(c, new, {f})
    /\ Notify(c, "refreshed", notice[c].choices \ {f})
    /\ UNCHANGED <<stored, net, undo, draft, typed, behind>>

-----------------------------------------------------------------------------
(* Domain commands: started on a clean page only, and applied only if the    *)
(* page has neither changed nor moved on meanwhile.                          *)

Command(c) ==
    /\ ~dirty[c]
    /\ Send(c, "command", Blank, revision[c])
    /\ UNCHANGED <<stored, client, typed, history>>

ServeCommand(m, g) ==
    /\ m.kind = "command" /\ m.answer = "open"
    /\ IF m.revision # Latest
       THEN /\ Reply(m, [m EXCEPT !.answer = "conflict"])
            /\ UNCHANGED <<stored, typed>>
       ELSE /\ Latest < MaxStored
            /\ typed < Edits
            /\ typed' = typed + 1
            /\ stored' = Append(stored, [Current EXCEPT ![g] = typed + 1])
            /\ Reply(m, [m EXCEPT !.answer = "applied", !.page = stored'[Latest + 1]])
    /\ UNCHANGED <<client, history>>

\* canApplyConfirmedWorkspace, replaceAuthoritativeWorkspace; the answer
\* still carries the revision the command started from.
ReceiveApplied(m) ==
    LET c == m.of IN
    /\ m.answer = "applied"
    /\ net' = net \ {m}
    /\ IF dirty[c] \/ revision[c] # m.revision
       THEN UNCHANGED client
       ELSE /\ Render(c, m.page, m.page, m.revision + 1, FALSE)
            /\ draft' = [draft EXCEPT ![c] = None]
            /\ Notify(c, "none", {})
            /\ UNCHANGED undo
    /\ UNCHANGED <<stored, typed, history>>

-----------------------------------------------------------------------------

\* The browser is opened again.
Reload(c) ==
    /\ page' = [page EXCEPT ![c] = Current]
    /\ base' = [base EXCEPT ![c] = Current]
    /\ revision' = [revision EXCEPT ![c] = Latest]
    /\ dirty' = [dirty EXCEPT ![c] = FALSE]
    /\ shortcut' = [shortcut EXCEPT ![c] = [page |-> Current, revision |-> Latest]]
    /\ net' = {m \in net : m.of # c} \cup
               {[m EXCEPT !.awaited = FALSE] :
                   m \in {n \in net : n.of = c /\ n.answer = "open" /\ n.kind # "refresh"}}
    /\ undo' = [undo EXCEPT ![c] = << >>]
    /\ draft' = [draft EXCEPT ![c] = None]
    /\ Notify(c, "none", {})
    /\ UNCHANGED <<stored, typed, history>>

Serve(m) == ServeSave(m) \/ ServeRefresh(m) \/ \E g \in Governed : ServeCommand(m, g)

Receive(m) ==
    \/ ReceiveSaved(m) \/ ReceiveConflict(m) \/ ReceiveLatest(m) \/ ReceiveApplied(m)

Next ==
    \/ \E c \in Clients :
          \/ \E f \in Fields : Edit(c, f) \/ ChooseLocal(c, f)
          \/ Undo(c) \/ SaveButton(c) \/ SaveShortcut(c) \/ Refresh(c)
          \/ Command(c) \/ Reload(c)
    \/ \E m \in net : Serve(m) \/ Receive(m) \/ ReceiveError(m)

Spec == Init /\ [][Next]_vars

-----------------------------------------------------------------------------

TypeOK ==
    /\ stored \in Seq(Content)
    /\ Len(stored) \in 1..MaxStored
    /\ net \subseteq Message
    /\ page \in [Clients -> Content]
    /\ base \in [Clients -> Content]
    /\ revision \in [Clients -> 1..MaxStored]
    /\ dirty \in [Clients -> BOOLEAN]
    /\ shortcut \in [Clients -> Page]
    /\ undo \in [Clients -> Seq(Page)]
    /\ \A c \in Clients : Len(undo[c]) <= MaxUndo
    /\ draft \in [Clients -> Page \cup {None}]
    /\ notice \in [Clients -> Notices]
    /\ typed \in 0..Edits
    /\ chosen \in [Clients -> SUBSET ((0..Edits) \X (0..Edits))]
    /\ behind \subseteq {"undo", "draft"}

\* The base a browser merges against is what the server stored under the
\* revision it saves against, whatever order answers come in ("a later 409
\* compares against the command result rather than a state from before").
BaseIsItsRevision ==
    \A c \in Clients : revision[c] <= Latest /\ base[c] = stored[revision[c]]

\* Whatever a save takes out of the store its author has seen, and replaced:
\* by typing, by choosing after a conflict, by undoing.  Nobody's work goes
\* because a page is out of date, and none goes unasked in a merge.
AllChosen(c) ==
    \A f \in Fields :
        LET new == stored'[Latest + 1][f]
        IN new # Current[f] => <<Current[f], new>> \in chosen[c]

SavedBy(c) == \E m \in net : m.of = c /\ m.kind = "save" /\ m \notin net'

\* A save takes nothing out of the store that its author has not replaced
\* knowingly, unless undo has put an older page behind a newer revision: a merge
\* works "without allowing a stale client to overwrite concurrent normal edits".
NothingOverwritten ==
    [][\A c \in Clients :
          Latest' > Latest /\ SavedBy(c) /\ "undo" \notin behind => AllChosen(c)]_vars

\* The same, also unless a refresh has met other requests of the same browser,
\* however many requests are under way and in whatever order they end.
NothingOverwrittenInOrder ==
    [][\A c \in Clients :
          Latest' > Latest /\ SavedBy(c) /\ behind = {} => AllChosen(c)]_vars
=============================================================================
