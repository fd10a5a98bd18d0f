------------------------- MODULE ClientSave_proofs -------------------------
(***************************************************************************)
(* What a browser merges against and saves against belong together, and    *)
(* what a save takes away its author has seen, for any number of browsers, *)
(* fields, edits and revisions.                                            *)
(***************************************************************************)
EXTENDS ClientSave, SequenceTheorems, FiniteSetTheorems, TLAPS

-----------------------------------------------------------------------------

\* An answer speaks of a revision the server has stored.
AnswersAreStored ==
    \A m \in net :
        /\ m.answer \in {"saved", "latest"} =>
              m.revision <= Latest /\ m.page = stored[m.revision]
        /\ m.answer = "applied" =>
              m.revision + 1 <= Latest /\ m.page = stored[m.revision + 1]

Inv == TypeOK /\ BaseIsItsRevision /\ AnswersAreStored

LEMMA BlankTyped == Blank \in Content
BY ClientAssumption DEF Blank, Content

\* The current revision is a page, and the revisions stored stay when
\* another one is appended.
LEMMA StoredTyped ==
    ASSUME TypeOK
    PROVE  /\ Latest \in 1..MaxStored /\ Latest \in Nat
           /\ Current \in Content
           /\ \A i \in 1..Latest : stored[i] \in Content
BY ClientAssumption DEF TypeOK, Latest, Current

LEMMA StoredAppended ==
    ASSUME TypeOK, NEW p \in Content, stored' = Append(stored, p), Latest < MaxStored
    PROVE  /\ stored' \in Seq(Content) /\ Len(stored') \in 1..MaxStored
           /\ Len(stored') = Latest + 1
           /\ \A i \in 1..Latest : stored'[i] = stored[i]
           /\ stored'[Latest + 1] = p
BY ClientAssumption, StoredTyped DEF TypeOK, Latest

\* What a render leaves behind: typed, and with the base it was given.
LEMMA Rendered ==
    ASSUME TypeOK, NEW c \in Clients, NEW p \in Content, NEW b \in Content,
           NEW r \in 1..MaxStored, NEW d \in BOOLEAN, Render(c, p, b, r, d)
    PROVE  /\ page' \in [Clients -> Content]
           /\ base' = [base EXCEPT ![c] = b]
           /\ base' \in [Clients -> Content]
           /\ revision' = [revision EXCEPT ![c] = r]
           /\ revision' \in [Clients -> 1..MaxStored]
           /\ dirty' \in [Clients -> BOOLEAN]
           /\ shortcut' \in [Clients -> Page]
<1>1. [page |-> p, revision |-> r] \in Page
  BY DEF Page
<1>2. page' \in [Clients -> Content] /\ base' \in [Clients -> Content]
  BY DEF Render, TypeOK
<1>3. revision' \in [Clients -> 1..MaxStored] /\ dirty' \in [Clients -> BOOLEAN]
  BY DEF Render, TypeOK
<1>4. shortcut' \in [Clients -> Page]
  BY <1>1 DEF Render, TypeOK
<1> QED
  BY <1>2, <1>3, <1>4 DEF Render

\* A page on the base it had.
LEMMA Changed ==
    ASSUME Inv, NEW c \in Clients, NEW p \in Content, Change(c, p)
    PROVE  /\ page' \in [Clients -> Content]
           /\ base' = base /\ revision' = revision
           /\ dirty' \in [Clients -> BOOLEAN]
           /\ shortcut' \in [Clients -> Page]
<1>1. base[c] \in Content /\ revision[c] \in 1..MaxStored
  BY DEF Inv, TypeOK
<1>2. Render(c, p, base[c], revision[c], TRUE)
  BY DEF Change
<1>3. /\ page' \in [Clients -> Content]
      /\ base' = [base EXCEPT ![c] = base[c]]
      /\ revision' = [revision EXCEPT ![c] = revision[c]]
      /\ dirty' \in [Clients -> BOOLEAN]
      /\ shortcut' \in [Clients -> Page]
  BY <1>1, <1>2, Rendered DEF Inv
<1> QED
  BY <1>3 DEF Inv, TypeOK

LEMMA Chosen ==
    ASSUME TypeOK, NEW c \in Clients, NEW p \in Content, NEW fs \in SUBSET Fields,
           Choose(c, p, fs)
    PROVE  chosen' \in [Clients -> SUBSET ((0..Edits) \X (0..Edits))]
<1> DEFINE pairs == (0..Edits) \X (0..Edits)
           now == {<<page[c][f], p[f]>> : f \in fs}
           earlier == UNION {{<<q[1], n[2]>> : q \in {r \in chosen[c] : r[2] = n[1]}} : n \in now}
<1>1. chosen' = [chosen EXCEPT ![c] = @ \cup now \cup earlier]
  BY DEF Choose
<1>2. page[c] \in Content /\ chosen[c] \subseteq pairs
  BY DEF TypeOK
<1>3. now \subseteq pairs
  BY <1>2 DEF Content
<1>4. \A q, n \in pairs : <<q[1], n[2]>> \in pairs
  OBVIOUS
<1>5. earlier \subseteq pairs
  BY <1>2, <1>3, <1>4
<1> HIDE DEF now, earlier
<1> QED
  BY <1>1, <1>2, <1>3, <1>5 DEF TypeOK

LEMMA Notified ==
    ASSUME TypeOK, NEW c \in Clients, NEW choices \in SUBSET Ordinary,
           NEW kind \in {"none", "saving", "conflict", "refreshed"},
           Notify(c, kind, choices)
    PROVE  notice' \in [Clients -> Notices]
<1>1. [kind |-> kind, choices |-> choices] \in Notices
  BY DEF Notices
<1> QED
  BY <1>1 DEF Notify, TypeOK

\* The undo stack holds pages, no more of them than it may.
LEMMA Pushed ==
    ASSUME TypeOK, NEW c \in Clients
    PROVE  PushUndo(c) \in Seq(Page) /\ Len(PushUndo(c)) <= MaxUndo
<1> DEFINE stack == IF Len(undo[c]) < MaxUndo THEN undo[c] ELSE Tail(undo[c])
           top == [page |-> page[c], revision |-> revision[c]]
<1>1. undo[c] \in Seq(Page) /\ Len(undo[c]) \in Nat /\ Len(undo[c]) <= MaxUndo
  BY DEF TypeOK
<1>2. stack \in Seq(Page) /\ Len(stack) \in Nat /\ Len(stack) < MaxUndo
  <2>1. CASE Len(undo[c]) < MaxUndo
    BY <1>1, <2>1
  <2>2. CASE ~(Len(undo[c]) < MaxUndo)
    <3>1. undo[c] # << >> /\ Len(undo[c]) = MaxUndo
      BY <1>1, <2>2, ClientAssumption
    <3>2. Tail(undo[c]) \in Seq(Page) /\ Len(Tail(undo[c])) = Len(undo[c]) - 1
      BY <1>1, <3>1
    <3> QED
      BY <2>2, <3>1, <3>2, ClientAssumption
  <2> QED
    BY <2>1, <2>2
<1>3. top \in Page
  BY DEF TypeOK, Page
<1>4. PushUndo(c) = Append(stack, top)
  BY DEF PushUndo
<1> HIDE DEF stack, top
<1>5. Append(stack, top) \in Seq(Page) /\ Len(Append(stack, top)) = Len(stack) + 1
  BY <1>2, <1>3
<1> QED
  BY <1>2, <1>4, <1>5, ClientAssumption

\* A message is added, and it speaks of what is stored.
LEMMA Sent ==
    ASSUME Inv, NEW c \in Clients, NEW kind \in {"save", "refresh", "command"},
           NEW p \in Content, NEW r \in 1..MaxStored,
           Send(c, kind, p, r), stored' = stored
    PROVE  net' \subseteq Message /\ AnswersAreStored'
<1> DEFINE m == [of |-> c, awaited |-> TRUE, kind |-> kind, page |-> p,
                 revision |-> r, answer |-> "open"]
<1>1. net' = net \cup {m}
  BY DEF Send
<1>2. m \in Message /\ m.answer = "open"
  BY DEF Message
<1> HIDE DEF m
<1>3. net' \subseteq Message
  BY <1>1, <1>2 DEF Inv, TypeOK
<1>4. AnswersAreStored'
  BY <1>1, <1>2 DEF Inv, AnswersAreStored, Latest
<1> QED
  BY <1>3, <1>4

\* A message goes, or a message that does not speak of more comes instead.
LEMMA Replied ==
    ASSUME Inv, NEW m \in net, NEW n \in Message, Reply(m, n),
           \/ stored' = stored
           \/ \E p \in Content : stored' = Append(stored, p) /\ Latest < MaxStored,
           n.answer \in {"saved", "latest"} =>
              n.revision <= Latest' /\ n.page = stored'[n.revision],
           n.answer = "applied" =>
              n.revision + 1 <= Latest' /\ n.page = stored'[n.revision + 1]
    PROVE  net' \subseteq Message /\ AnswersAreStored'
<1>1. \A o \in net' : o \in net \/ o = n
  BY DEF Reply
<1>2. net' \subseteq Message
  BY <1>1 DEF Inv, TypeOK
<1>3. Latest' >= Latest /\ \A i \in 1..Latest : stored'[i] = stored[i]
  <2>1. CASE stored' = stored
    BY <2>1, StoredTyped DEF Inv, Latest
  <2>2. CASE \E p \in Content : stored' = Append(stored, p) /\ Latest < MaxStored
    BY <2>2, StoredTyped, StoredAppended DEF Inv, Latest
  <2> QED
    BY <2>1, <2>2
<1>4. Latest' \in Nat /\ Latest \in Nat
  <2>1. CASE stored' = stored
    BY <2>1, StoredTyped DEF Inv, Latest
  <2>2. CASE \E p \in Content : stored' = Append(stored, p) /\ Latest < MaxStored
    BY <2>2, StoredTyped, StoredAppended DEF Inv, Latest
  <2> QED
    BY <2>1, <2>2
<1>5. ASSUME NEW o \in net
      PROVE  /\ o.answer \in {"saved", "latest"} =>
                  o.revision <= Latest' /\ o.page = stored'[o.revision]
             /\ o.answer = "applied" =>
                  o.revision + 1 <= Latest' /\ o.page = stored'[o.revision + 1]
  <2>1. o.revision \in 1..MaxStored
    BY DEF Inv, TypeOK, Message
  <2>2. /\ o.answer \in {"saved", "latest"} =>
              o.revision <= Latest /\ o.page = stored[o.revision]
        /\ o.answer = "applied" =>
              o.revision + 1 <= Latest /\ o.page = stored[o.revision + 1]
    BY DEF Inv, AnswersAreStored
  <2> QED
    BY <1>3, <1>4, <2>1, <2>2
<1>6. AnswersAreStored'
  BY <1>1, <1>5 DEF AnswersAreStored
<1> QED
  BY <1>2, <1>6

LEMMA Gone ==
    ASSUME Inv, NEW m \in net, net' = net \ {m}, stored' = stored
    PROVE  net' \subseteq Message /\ AnswersAreStored'
BY DEF Inv, TypeOK, AnswersAreStored, Latest

\* A base that is stored under its revision stays so when it is another
\* browser's, or another revision is stored.
LEMMA BaseKept ==
    ASSUME Inv, UNCHANGED <<stored, base, revision>>
    PROVE  BaseIsItsRevision'
BY DEF Inv, BaseIsItsRevision, Latest

LEMMA BaseSet ==
    ASSUME Inv, NEW c \in Clients, NEW b, NEW r \in 1..MaxStored, stored' = stored,
           base' = [base EXCEPT ![c] = b], revision' = [revision EXCEPT ![c] = r],
           r <= Latest, b = stored[r]
    PROVE  BaseIsItsRevision'
BY DEF Inv, TypeOK, BaseIsItsRevision, Latest

LEMMA BaseUnderAppend ==
    ASSUME Inv, NEW p \in Content, stored' = Append(stored, p), Latest < MaxStored,
           UNCHANGED <<base, revision>>
    PROVE  BaseIsItsRevision'
<1>1. /\ Latest' = Latest + 1 /\ Latest \in Nat
      /\ \A i \in 1..Latest : stored'[i] = stored[i]
  BY StoredTyped, StoredAppended DEF Inv, Latest
<1>2. \A c \in Clients : revision[c] \in 1..MaxStored
  BY DEF Inv, TypeOK
<1> SUFFICES ASSUME NEW c \in Clients
             PROVE  revision[c] <= Latest' /\ base[c] = stored'[revision[c]]
  BY DEF BaseIsItsRevision
<1>3. revision[c] \in 1..MaxStored /\ revision[c] <= Latest /\ base[c] = stored[revision[c]]
  BY <1>2 DEF Inv, BaseIsItsRevision
<1>4. revision[c] \in 1..Latest /\ revision[c] <= Latest + 1
  BY <1>1, <1>3
<1>5. stored'[revision[c]] = stored[revision[c]]
  BY <1>1, <1>4
<1> QED
  BY <1>1, <1>3, <1>4, <1>5

-----------------------------------------------------------------------------

LEMMA StepEdit ==
    ASSUME Inv, NEW c \in Clients, NEW f \in Fields, Edit(c, f)
    PROVE  Inv'
<1> DEFINE new == [page[c] EXCEPT ![f] = typed + 1]
<1>1. /\ typed < Edits /\ typed' = typed + 1 /\ Change(c, new) /\ Choose(c, new, {f})
      /\ undo' = [undo EXCEPT ![c] = PushUndo(c)] /\ Notify(c, "none", {})
      /\ UNCHANGED <<stored, net, draft, behind>>
  BY DEF Edit
<1>2. new \in Content /\ typed' \in 0..Edits
  BY <1>1, ClientAssumption DEF Inv, TypeOK, Content
<1> HIDE DEF new
<1>3. /\ page' \in [Clients -> Content] /\ base' = base /\ revision' = revision
      /\ dirty' \in [Clients -> BOOLEAN] /\ shortcut' \in [Clients -> Page]
  BY <1>1, <1>2, Changed
<1>4. undo' \in [Clients -> Seq(Page)] /\ \A d \in Clients : Len(undo'[d]) <= MaxUndo
  BY <1>1, Pushed DEF Inv, TypeOK
<1>5. notice' \in [Clients -> Notices]
  BY <1>1, Notified DEF Inv
<1>6. chosen' \in [Clients -> SUBSET ((0..Edits) \X (0..Edits))]
  BY <1>1, <1>2, Chosen DEF Inv
<1>7. TypeOK'
  BY <1>1, <1>2, <1>3, <1>4, <1>5, <1>6 DEF Inv, TypeOK
<1>8. BaseIsItsRevision' /\ AnswersAreStored'
  BY <1>1, <1>3, BaseKept DEF Inv, AnswersAreStored, Latest
<1> QED
  BY <1>7, <1>8 DEF Inv

LEMMA StepUndo ==
    ASSUME Inv, NEW c \in Clients, Undo(c)
    PROVE  Inv'
<1> DEFINE top == undo[c][Len(undo[c])]
           fs == {f \in Fields : top.revision = revision[c] /\ top.page[f] # page[c][f]}
<1>1. /\ undo[c] # << >> /\ Change(c, top.page) /\ Choose(c, top.page, fs)
      /\ undo' = [undo EXCEPT ![c] = SubSeq(@, 1, Len(@) - 1)]
      /\ behind' \subseteq behind \cup {"undo"}
      /\ UNCHANGED <<stored, net, draft, notice, typed>>
  BY DEF Undo
<1>2. undo[c] \in Seq(Page) /\ Len(undo[c]) \in Nat /\ Len(undo[c]) <= MaxUndo
  BY DEF Inv, TypeOK
<1>3. Len(undo[c]) >= 1
  BY <1>1, <1>2
<1>4. top \in Page
  BY <1>2, <1>3
<1>5. top.page \in Content /\ fs \in SUBSET Fields
  BY <1>4 DEF Page
<1> HIDE DEF top, fs
<1>6. /\ page' \in [Clients -> Content] /\ base' = base /\ revision' = revision
      /\ dirty' \in [Clients -> BOOLEAN] /\ shortcut' \in [Clients -> Page]
  BY <1>1, <1>5, Changed
<1>7. /\ SubSeq(undo[c], 1, Len(undo[c]) - 1) \in Seq(Page)
      /\ Len(SubSeq(undo[c], 1, Len(undo[c]) - 1)) <= MaxUndo
  <2> DEFINE shorter == SubSeq(undo[c], 1, Len(undo[c]) - 1)
  <2>1. Len(shorter) = Len(undo[c]) - 1
    BY <1>2, <1>3
  <2>2. \A i \in 1..Len(undo[c]) : undo[c][i] \in Page
    BY <1>2
  <2>3. shorter = [i \in 1..(Len(undo[c]) - 1) |-> undo[c][i]]
    BY <1>2, <1>3
  <2>4. shorter \in Seq(Page)
    BY <1>2, <1>3, <2>1, <2>2, <2>3
  <2> QED
    BY <1>2, <2>1, <2>4, ClientAssumption
<1>8. undo' \in [Clients -> Seq(Page)] /\ \A d \in Clients : Len(undo'[d]) <= MaxUndo
  BY <1>1, <1>7 DEF Inv, TypeOK
<1>9. chosen' \in [Clients -> SUBSET ((0..Edits) \X (0..Edits))]
  BY <1>1, <1>5, Chosen DEF Inv
<1>10. TypeOK'
  BY <1>1, <1>6, <1>8, <1>9 DEF Inv, TypeOK
<1>11. BaseIsItsRevision' /\ AnswersAreStored'
  BY <1>1, <1>6, BaseKept DEF Inv, AnswersAreStored, Latest
<1> QED
  BY <1>10, <1>11 DEF Inv

LEMMA StepSave ==
    ASSUME Inv, NEW c \in Clients, NEW what \in Page, Save(c, what)
    PROVE  Inv'
<1>1. /\ Send(c, "save", what.page, what.revision) /\ Notify(c, "saving", {})
      /\ UNCHANGED <<stored, page, base, revision, dirty, shortcut, undo, draft, typed, chosen, behind>>
  BY DEF Save, history
<1>2. net' \subseteq Message /\ AnswersAreStored'
  BY <1>1, Sent DEF Page
<1>3. notice' \in [Clients -> Notices]
  BY <1>1, Notified DEF Inv
<1>4. TypeOK'
  BY <1>1, <1>2, <1>3 DEF Inv, TypeOK
<1> QED
  BY <1>1, <1>2, <1>4, BaseKept DEF Inv

LEMMA StepServeSave ==
    ASSUME Inv, NEW m \in net, ServeSave(m)
    PROVE  Inv'
<1>1. UNCHANGED <<page, base, revision, dirty, shortcut, undo, draft, notice, typed, chosen, behind>>
  BY DEF ServeSave, client, history
<1>2. m \in Message /\ m.page \in Content
  BY DEF Inv, TypeOK, Message
<1>3. CASE \E a \in {"conflict", "refused"} : Reply(m, [m EXCEPT !.answer = a]) /\ UNCHANGED stored
  <2>1. PICK a \in {"conflict", "refused"} : Reply(m, [m EXCEPT !.answer = a])
    BY <1>3
  <2> DEFINE n == [m EXCEPT !.answer = a]
  <2>2. n \in Message /\ n.answer = a
    BY <1>2 DEF Message
  <2> HIDE DEF n
  <2>3. net' \subseteq Message /\ AnswersAreStored'
    BY <1>3, <2>1, <2>2, Replied DEF n
  <2>4. TypeOK'
    BY <1>1, <1>3, <2>3 DEF Inv, TypeOK
  <2> QED
    BY <1>1, <1>3, <2>3, <2>4, BaseKept DEF Inv
<1>4. CASE /\ Latest < MaxStored /\ stored' = Append(stored, m.page)
           /\ Reply(m, [m EXCEPT !.answer = "saved", !.revision = Latest + 1])
  <2> DEFINE n == [m EXCEPT !.answer = "saved", !.revision = Latest + 1]
  <2>1. /\ stored' \in Seq(Content) /\ Len(stored') \in 1..MaxStored
        /\ Latest' = Latest + 1 /\ stored'[Latest + 1] = m.page /\ Latest \in Nat
        /\ Latest + 1 \in 1..MaxStored
    BY <1>2, <1>4, StoredTyped, StoredAppended DEF Inv, Latest
  <2>2. n \in Message /\ n.answer = "saved" /\ n.revision = Latest + 1 /\ n.page = m.page
    BY <1>2, <2>1 DEF Message
  <2>a. Reply(m, n) /\ \E p \in Content : stored' = Append(stored, p) /\ Latest < MaxStored
    BY <1>2, <1>4
  <2>b. n.revision <= Latest' /\ n.page = stored'[n.revision]
    BY <2>1, <2>2
  <2> HIDE DEF n
  <2>3. net' \subseteq Message /\ AnswersAreStored'
    BY <2>a, <2>b, <2>2, Replied
  <2>4. TypeOK'
    BY <1>1, <2>1, <2>3 DEF Inv, TypeOK
  <2>5. BaseIsItsRevision'
    BY <1>1, <1>2, <1>4, BaseUnderAppend
  <2> QED
    BY <2>3, <2>4, <2>5 DEF Inv
<1> QED
  BY <1>3, <1>4 DEF ServeSave

LEMMA StepServeRefresh ==
    ASSUME Inv, NEW m \in net, ServeRefresh(m)
    PROVE  Inv'
<1> DEFINE n == [m EXCEPT !.answer = "latest", !.page = Current, !.revision = Latest]
<1>1. /\ Reply(m, n)
      /\ UNCHANGED <<stored, page, base, revision, dirty, shortcut, undo, draft, notice, typed, chosen, behind>>
  BY DEF ServeRefresh, client, history
<1>2. m \in Message
  BY DEF Inv, TypeOK
<1>3. Latest \in 1..MaxStored /\ Latest \in Nat /\ Current \in Content
  BY StoredTyped DEF Inv
<1>4. n \in Message /\ n.answer = "latest" /\ n.revision = Latest /\ n.page = Current
  BY <1>2, <1>3 DEF Message
<1> HIDE DEF n
<1>5. net' \subseteq Message /\ AnswersAreStored'
  BY <1>1, <1>3, <1>4, Replied DEF Current, Latest
<1>6. TypeOK'
  BY <1>1, <1>5 DEF Inv, TypeOK
<1> QED
  BY <1>1, <1>5, <1>6, BaseKept DEF Inv

LEMMA StepServeCommand ==
    ASSUME Inv, NEW m \in net, NEW g \in Governed, ServeCommand(m, g)
    PROVE  Inv'
<1>1. UNCHANGED <<page, base, revision, dirty, shortcut, undo, draft, notice, chosen, behind>>
  BY DEF ServeCommand, client, history
<1>2. m \in Message
  BY DEF Inv, TypeOK
<1>3. CASE /\ Reply(m, [m EXCEPT !.answer = "conflict"]) /\ UNCHANGED <<stored, typed>>
  <2> DEFINE n == [m EXCEPT !.answer = "conflict"]
  <2>1. n \in Message /\ n.answer = "conflict"
    BY <1>2 DEF Message
  <2> HIDE DEF n
  <2>2. net' \subseteq Message /\ AnswersAreStored'
    BY <1>3, <2>1, Replied DEF n
  <2>3. TypeOK'
    BY <1>1, <1>3, <2>2 DEF Inv, TypeOK
  <2> QED
    BY <1>1, <1>3, <2>2, <2>3, BaseKept DEF Inv
<1>4. CASE m.revision = Latest
  <2> DEFINE p == [Current EXCEPT ![g] = typed + 1]
             n == [m EXCEPT !.answer = "applied", !.page = stored'[Latest + 1]]
  <2>1. /\ Latest < MaxStored /\ typed < Edits /\ typed' = typed + 1
        /\ stored' = Append(stored, p) /\ Reply(m, n)
    BY <1>4 DEF ServeCommand
  <2>2. p \in Content /\ typed' \in 0..Edits
    <3>1. Current \in Content /\ typed \in 0..Edits
      BY StoredTyped DEF Inv, TypeOK
    <3>2. typed + 1 \in 0..Edits
      BY <2>1, <3>1, ClientAssumption
    <3>3. [Current EXCEPT ![g] = typed + 1] \in [Fields -> 0..Edits]
      BY <3>1, <3>2 DEF Content
    <3> QED
      BY <2>1, <3>2, <3>3 DEF Content
  <2> HIDE DEF p
  <2>3. /\ stored' \in Seq(Content) /\ Len(stored') \in 1..MaxStored
        /\ Latest' = Latest + 1 /\ stored'[Latest + 1] = p /\ Latest \in Nat
    BY <2>1, <2>2, StoredTyped, StoredAppended DEF Inv, Latest
  <2>4. /\ n \in Message /\ n.answer = "applied" /\ n.revision = m.revision
        /\ n.page = stored'[Latest + 1]
    BY <1>2, <2>2, <2>3 DEF Message
  <2>a. \E q \in Content : stored' = Append(stored, q) /\ Latest < MaxStored
    BY <2>1, <2>2
  <2>b. n.revision + 1 <= Latest' /\ n.page = stored'[n.revision + 1]
    BY <1>4, <2>3, <2>4
  <2> HIDE DEF n
  <2>5. net' \subseteq Message /\ AnswersAreStored'
    BY <2>a, <2>b, <2>1, <2>4, Replied
  <2>6. TypeOK'
    BY <1>1, <2>2, <2>3, <2>5 DEF Inv, TypeOK
  <2>7. BaseIsItsRevision'
    BY <1>1, <2>1, <2>2, BaseUnderAppend
  <2> QED
    BY <2>5, <2>6, <2>7 DEF Inv
<1> QED
  BY <1>3, <1>4 DEF ServeCommand

LEMMA StepReceiveSaved ==
    ASSUME Inv, NEW m \in net, ReceiveSaved(m)
    PROVE  Inv'
<1> DEFINE c == m.of
           shown == page[c]
<1>1. /\ m.answer = "saved" /\ net' = net \ {m}
      /\ Render(c, shown, m.page, m.revision, FALSE) /\ Notify(c, "none", {})
      /\ UNCHANGED <<stored, undo, draft, typed, chosen, behind>>
  BY DEF ReceiveSaved, history
<1>2. c \in Clients /\ m.page \in Content /\ m.revision \in 1..MaxStored /\ shown \in Content
  BY DEF Inv, TypeOK, Message
<1>3. m.revision <= Latest /\ m.page = stored[m.revision]
  BY <1>1 DEF Inv, AnswersAreStored
<1> HIDE DEF c, shown
<1>a. TypeOK /\ Render(c, shown, m.page, m.revision, FALSE)
  BY <1>1 DEF Inv
<1>b. /\ c \in Clients /\ shown \in Content /\ m.page \in Content
      /\ m.revision \in 1..MaxStored /\ FALSE \in BOOLEAN
  BY <1>2
<1>4. /\ page' \in [Clients -> Content]
      /\ base' = [base EXCEPT ![c] = m.page] /\ base' \in [Clients -> Content]
      /\ revision' = [revision EXCEPT ![c] = m.revision]
      /\ revision' \in [Clients -> 1..MaxStored]
      /\ dirty' \in [Clients -> BOOLEAN] /\ shortcut' \in [Clients -> Page]
  BY <1>a, <1>b, Rendered
<1>5. notice' \in [Clients -> Notices]
  BY <1>1, <1>2, Notified DEF Inv
<1>6. net' \subseteq Message /\ AnswersAreStored'
  BY <1>1, Gone
<1>7. BaseIsItsRevision'
  BY <1>1, <1>2, <1>3, <1>4, BaseSet
<1>8. TypeOK'
  BY <1>1, <1>4, <1>5, <1>6 DEF Inv, TypeOK
<1> QED
  BY <1>6, <1>7, <1>8 DEF Inv

LEMMA StepReceiveConflict ==
    ASSUME Inv, NEW m \in net, ReceiveConflict(m)
    PROVE  Inv'
<1>1. /\ net' = net \ {m} /\ Notify(m.of, "conflict", {}) /\ m.of \in Clients
      /\ UNCHANGED <<stored, page, base, revision, dirty, shortcut, undo, draft, typed, chosen, behind>>
  BY DEF ReceiveConflict, history, Inv, TypeOK, Message
<1>2. notice' \in [Clients -> Notices]
  BY <1>1, Notified DEF Inv
<1>3. net' \subseteq Message /\ AnswersAreStored'
  BY <1>1, Gone
<1>4. TypeOK'
  BY <1>1, <1>2, <1>3 DEF Inv, TypeOK
<1> QED
  BY <1>1, <1>3, <1>4, BaseKept DEF Inv

LEMMA StepReceiveError ==
    ASSUME Inv, NEW m \in net, ReceiveError(m)
    PROVE  Inv'
<1>1. /\ net' = net \ {m} /\ m.of \in Clients
      /\ UNCHANGED notice \/ Notify(m.of, "none", {})
      /\ UNCHANGED <<stored, page, base, revision, dirty, shortcut, undo, draft, typed, chosen, behind>>
  BY DEF ReceiveError, history, Inv, TypeOK, Message
<1>2. notice' \in [Clients -> Notices]
  <2>1. CASE UNCHANGED notice
    BY <2>1 DEF Inv, TypeOK
  <2>2. CASE Notify(m.of, "none", {})
    BY <1>1, <2>2, Notified DEF Inv
  <2> QED
    BY <1>1, <2>1, <2>2
<1>3. net' \subseteq Message /\ AnswersAreStored'
  BY <1>1, Gone
<1>4. TypeOK'
  BY <1>1, <1>2, <1>3 DEF Inv, TypeOK
<1> QED
  BY <1>1, <1>3, <1>4, BaseKept DEF Inv

LEMMA StepRefresh ==
    ASSUME Inv, NEW c \in Clients, Refresh(c)
    PROVE  Inv'
<1> DEFINE kept == [page |-> page[c], revision |-> revision[c]]
<1>1. /\ Send(c, "refresh", Blank, 1) /\ draft' = [draft EXCEPT ![c] = kept]
      /\ behind' \subseteq behind \cup {"draft"}
      /\ UNCHANGED <<stored, page, base, revision, dirty, shortcut, undo, notice, typed, chosen>>
  BY DEF Refresh
<1>2. kept \in Page
  BY DEF Inv, TypeOK, Page
<1> HIDE DEF kept
<1>3. 1 \in 1..MaxStored
  BY ClientAssumption
<1>4. net' \subseteq Message /\ AnswersAreStored'
  BY <1>1, <1>3, BlankTyped, Sent
<1>5. TypeOK'
  BY <1>1, <1>2, <1>4 DEF Inv, TypeOK
<1> QED
  BY <1>1, <1>4, <1>5, BaseKept DEF Inv

LEMMA StepReceiveLatest ==
    ASSUME Inv, NEW m \in net, ReceiveLatest(m)
    PROVE  Inv'
<1> DEFINE c == m.of
           merged == Merged(c, m.page)
           replayed == Replayed(c, m.page) # {}
           conflicts == Conflicts(c, m.page)
<1>1. /\ m.answer = "latest" /\ draft[c] # None /\ net' = net \ {m}
      /\ Render(c, merged, m.page, m.revision, replayed)
      /\ Notify(c, "refreshed", conflicts)
      /\ behind' \subseteq behind \cup {"draft"}
      /\ UNCHANGED <<stored, undo, draft, typed, chosen>>
  BY DEF ReceiveLatest
<1>2. c \in Clients /\ m.page \in Content /\ m.revision \in 1..MaxStored
  BY DEF Inv, TypeOK, Message
<1>3. draft[c] \in Page
  BY <1>1, <1>2 DEF Inv, TypeOK
<1>4. merged \in Content
  BY <1>2, <1>3 DEF Merged, Content, Page
<1>5. conflicts \in SUBSET Ordinary /\ replayed \in BOOLEAN
  BY DEF Conflicts, LocalChanges
<1>6. m.revision <= Latest /\ m.page = stored[m.revision]
  BY <1>1 DEF Inv, AnswersAreStored
<1> HIDE DEF c, merged, conflicts, replayed
<1>7. /\ page' \in [Clients -> Content]
      /\ base' = [base EXCEPT ![c] = m.page] /\ base' \in [Clients -> Content]
      /\ revision' = [revision EXCEPT ![c] = m.revision]
      /\ revision' \in [Clients -> 1..MaxStored]
      /\ dirty' \in [Clients -> BOOLEAN] /\ shortcut' \in [Clients -> Page]
  BY <1>1, <1>2, <1>4, <1>5, Rendered DEF Inv
<1>8. notice' \in [Clients -> Notices]
  BY <1>1, <1>2, <1>5, Notified DEF Inv
<1>9. net' \subseteq Message /\ AnswersAreStored'
  BY <1>1, Gone
<1>10. BaseIsItsRevision'
  BY <1>1, <1>2, <1>6, <1>7, BaseSet
<1>11. TypeOK'
  BY <1>1, <1>7, <1>8, <1>9 DEF Inv, TypeOK
<1> QED
  BY <1>9, <1>10, <1>11 DEF Inv

LEMMA StepChooseLocal ==
    ASSUME Inv, NEW c \in Clients, NEW f \in Fields, ChooseLocal(c, f)
    PROVE  Inv'
<1> DEFINE new == [page[c] EXCEPT ![f] = draft[c].page[f]]
           left == notice[c].choices \ {f}
<1>1. /\ draft[c] # None /\ Change(c, new) /\ Choose(c, new, {f})
      /\ Notify(c, "refreshed", left)
      /\ UNCHANGED <<stored, net, undo, draft, typed, behind>>
  BY DEF ChooseLocal
<1>2. draft[c] \in Page /\ page[c] \in Content /\ left \in SUBSET Ordinary
  BY <1>1 DEF Inv, TypeOK, Notices
<1>3. new \in Content
  BY <1>2 DEF Content, Page
<1> HIDE DEF new, left
<1>4. /\ page' \in [Clients -> Content] /\ base' = base /\ revision' = revision
      /\ dirty' \in [Clients -> BOOLEAN] /\ shortcut' \in [Clients -> Page]
  BY <1>1, <1>3, Changed
<1>5. notice' \in [Clients -> Notices]
  BY <1>1, <1>2, Notified DEF Inv
<1>6. chosen' \in [Clients -> SUBSET ((0..Edits) \X (0..Edits))]
  BY <1>1, <1>3, Chosen DEF Inv
<1>7. TypeOK'
  BY <1>1, <1>4, <1>5, <1>6 DEF Inv, TypeOK
<1>8. BaseIsItsRevision' /\ AnswersAreStored'
  BY <1>1, <1>4, BaseKept DEF Inv, AnswersAreStored, Latest
<1> QED
  BY <1>7, <1>8 DEF Inv

LEMMA StepCommand ==
    ASSUME Inv, NEW c \in Clients, Command(c)
    PROVE  Inv'
<1>1. /\ Send(c, "command", Blank, revision[c])
      /\ UNCHANGED <<stored, page, base, revision, dirty, shortcut, undo, draft, notice, typed, chosen, behind>>
  BY DEF Command, client, history
<1>2. revision[c] \in 1..MaxStored
  BY DEF Inv, TypeOK
<1>3. net' \subseteq Message /\ AnswersAreStored'
  BY <1>1, <1>2, BlankTyped, Sent
<1>4. TypeOK'
  BY <1>1, <1>3 DEF Inv, TypeOK
<1> QED
  BY <1>1, <1>3, <1>4, BaseKept DEF Inv

LEMMA StepReceiveApplied ==
    ASSUME Inv, NEW m \in net, ReceiveApplied(m)
    PROVE  Inv'
<1> DEFINE c == m.of
<1>1. m.answer = "applied" /\ net' = net \ {m} /\ UNCHANGED <<stored, typed, chosen, behind>>
  BY DEF ReceiveApplied, history
<1>2. c \in Clients /\ m.page \in Content /\ m.revision \in 1..MaxStored
  BY DEF Inv, TypeOK, Message
<1>3. net' \subseteq Message /\ AnswersAreStored'
  BY <1>1, Gone
<1>4. CASE UNCHANGED client
  <2>1. TypeOK'
    BY <1>1, <1>3, <1>4 DEF Inv, TypeOK, client
  <2> QED
    BY <1>1, <1>3, <1>4, <2>1, BaseKept DEF Inv, client
<1>5. CASE ~(dirty[c] \/ revision[c] # m.revision)
  <2>1. /\ Render(c, m.page, m.page, m.revision + 1, FALSE)
        /\ draft' = [draft EXCEPT ![c] = None] /\ Notify(c, "none", {}) /\ UNCHANGED undo
    BY <1>5 DEF ReceiveApplied
  <2>2. m.revision + 1 <= Latest /\ m.page = stored[m.revision + 1]
    BY <1>1 DEF Inv, AnswersAreStored
  <2>3. m.revision + 1 \in 1..MaxStored
    <3>1. Latest \in 1..MaxStored
      BY StoredTyped DEF Inv
    <3> QED
      BY <1>2, <2>2, <3>1, ClientAssumption
  <2> HIDE DEF c
  <2>4. /\ page' \in [Clients -> Content]
        /\ base' = [base EXCEPT ![c] = m.page] /\ base' \in [Clients -> Content]
        /\ revision' = [revision EXCEPT ![c] = m.revision + 1]
        /\ revision' \in [Clients -> 1..MaxStored]
        /\ dirty' \in [Clients -> BOOLEAN] /\ shortcut' \in [Clients -> Page]
    <3>1. TypeOK /\ FALSE \in BOOLEAN
      BY DEF Inv
    <3> DEFINE r == m.revision + 1
    <3>2. c \in Clients /\ m.page \in Content /\ r \in 1..MaxStored
      BY <1>2, <2>3
    <3>3. Render(c, m.page, m.page, r, FALSE)
      BY <2>1
    <3> HIDE DEF r
    <3>4. /\ page' \in [Clients -> Content]
          /\ base' = [base EXCEPT ![c] = m.page] /\ base' \in [Clients -> Content]
          /\ revision' = [revision EXCEPT ![c] = r]
          /\ revision' \in [Clients -> 1..MaxStored]
          /\ dirty' \in [Clients -> BOOLEAN] /\ shortcut' \in [Clients -> Page]
      BY <3>1, <3>2, <3>3, Rendered, ZenonT(40)
    <3> QED
      BY <3>4 DEF r
  <2>5. notice' \in [Clients -> Notices]
    BY <1>2, <2>1, Notified DEF Inv
  <2>6. draft' \in [Clients -> Page \cup {None}]
    BY <2>1 DEF Inv, TypeOK
  <2>7. TypeOK'
    BY <1>1, <1>3, <2>1, <2>4, <2>5, <2>6 DEF Inv, TypeOK
  <2>8. BaseIsItsRevision'
    BY <1>1, <1>2, <2>2, <2>3, <2>4, BaseSet
  <2> QED
    BY <1>3, <2>7, <2>8 DEF Inv
<1> QED
  BY <1>4, <1>5 DEF ReceiveApplied

LEMMA StepReload ==
    ASSUME Inv, NEW c \in Clients, Reload(c)
    PROVE  Inv'
<1>1. /\ page' = [page EXCEPT ![c] = Current] /\ base' = [base EXCEPT ![c] = Current]
      /\ revision' = [revision EXCEPT ![c] = Latest] /\ dirty' = [dirty EXCEPT ![c] = FALSE]
      /\ undo' = [undo EXCEPT ![c] = << >>] /\ draft' = [draft EXCEPT ![c] = None]
      /\ shortcut' = [shortcut EXCEPT ![c] = [page |-> Current, revision |-> Latest]]
      /\ Notify(c, "none", {}) /\ UNCHANGED <<stored, typed, chosen, behind>>
  BY DEF Reload, history
<1>2. Latest \in 1..MaxStored /\ Latest \in Nat /\ Current \in Content
  BY StoredTyped DEF Inv
<1>3. /\ page' \in [Clients -> Content] /\ base' \in [Clients -> Content]
      /\ revision' \in [Clients -> 1..MaxStored]
      /\ dirty' \in [Clients -> BOOLEAN] /\ shortcut' \in [Clients -> Page]
  <2>1. [page |-> Current, revision |-> Latest] \in Page
    BY <1>2 DEF Page
  <2> QED
    BY <1>1, <1>2, <2>1 DEF Inv, TypeOK
<1>4. notice' \in [Clients -> Notices]
  BY <1>1, Notified DEF Inv
<1>5. undo' \in [Clients -> Seq(Page)] /\ \A d \in Clients : Len(undo'[d]) <= MaxUndo
  <2>1. << >> \in Seq(Page) /\ Len(<< >>) <= MaxUndo
    BY ClientAssumption
  <2> QED
    BY <1>1, <2>1 DEF Inv, TypeOK
<1>6. draft' \in [Clients -> Page \cup {None}]
  BY <1>1 DEF Inv, TypeOK
<1>7. net' \subseteq Message /\ AnswersAreStored'
  <2>1. net' = {m \in net : m.of # c} \cup
               {[m EXCEPT !.awaited = FALSE] :
                   m \in {n \in net : n.of = c /\ n.answer = "open" /\ n.kind # "refresh"}}
    BY DEF Reload
  <2>2. \A m \in net : m \in Message
    BY DEF Inv, TypeOK
  <2>3. ASSUME NEW m \in net, m.answer = "open"
        PROVE  [m EXCEPT !.awaited = FALSE] \in Message
               /\ [m EXCEPT !.awaited = FALSE].answer = "open"
    BY <2>2, <2>3 DEF Message
  <2>4. \A o \in net' : o \in net \/ (o \in Message /\ o.answer = "open")
    BY <2>1, <2>3
  <2>5. net' \subseteq Message
    BY <2>2, <2>4
  <2> QED
    BY <1>1, <2>4, <2>5 DEF Inv, AnswersAreStored, Latest
<1>8. BaseIsItsRevision'
  <2>1. Latest <= Latest /\ Current = stored[Latest] /\ stored' = stored
    BY <1>1, <1>2 DEF Current
  <2> QED
    BY <1>1, <1>2, <2>1, BaseSet
<1>9. TypeOK'
  BY <1>1, <1>3, <1>4, <1>5, <1>6, <1>7 DEF Inv, TypeOK
<1> QED
  BY <1>7, <1>8, <1>9 DEF Inv

-----------------------------------------------------------------------------

LEMMA InvInitially == Init => Inv
<1> SUFFICES ASSUME Init PROVE Inv
  OBVIOUS
<1>1. Blank \in Content /\ 1 \in 1..MaxStored /\ [page |-> Blank, revision |-> 1] \in Page
  BY BlankTyped, ClientAssumption DEF Page
<1>2. stored \in Seq(Content) /\ Len(stored) = 1 /\ stored[1] = Blank
  BY <1>1 DEF Init
<1>3. undo \in [Clients -> Seq(Page)] /\ \A c \in Clients : Len(undo[c]) <= MaxUndo
  <2>1. << >> \in Seq(Page) /\ Len(<< >>) <= MaxUndo
    BY ClientAssumption
  <2> QED
    BY <2>1 DEF Init
<1>4. NoNotice \in Notices
  BY DEF NoNotice, Notices
<1>5. TypeOK
  BY <1>1, <1>2, <1>3, <1>4, ClientAssumption DEF Init, TypeOK
<1>6. BaseIsItsRevision /\ AnswersAreStored
  BY <1>2 DEF Init, BaseIsItsRevision, AnswersAreStored, Latest
<1> QED
  BY <1>5, <1>6 DEF Inv

LEMMA InvStep == Inv /\ [Next]_vars => Inv'
<1> SUFFICES ASSUME Inv, [Next]_vars PROVE Inv'
  OBVIOUS
<1>1. ASSUME NEW c \in Clients, NEW f \in Fields, Edit(c, f) \/ ChooseLocal(c, f)
      PROVE  Inv'
  BY <1>1, StepEdit, StepChooseLocal
<1>2. ASSUME NEW c \in Clients, Undo(c) \/ Refresh(c) \/ Command(c) \/ Reload(c)
      PROVE  Inv'
  BY <1>2, StepUndo, StepRefresh, StepCommand, StepReload
<1>3. ASSUME NEW c \in Clients, SaveButton(c) \/ SaveShortcut(c)
      PROVE  Inv'
  <2>1. shortcut[c] \in Page /\ [page |-> page[c], revision |-> revision[c]] \in Page
    BY DEF Inv, TypeOK, Page
  <2> QED
    BY <1>3, <2>1, StepSave DEF SaveButton, SaveShortcut
<1>4. ASSUME NEW m \in net, Serve(m)
      PROVE  Inv'
  BY <1>4, StepServeSave, StepServeRefresh, StepServeCommand DEF Serve
<1>5. ASSUME NEW m \in net, Receive(m) \/ ReceiveError(m)
      PROVE  Inv'
  BY <1>5, StepReceiveSaved, StepReceiveConflict, StepReceiveLatest, StepReceiveApplied,
     StepReceiveError DEF Receive
<1>6. CASE UNCHANGED vars
  BY <1>6 DEF vars, client, history, Inv, TypeOK, BaseIsItsRevision, AnswersAreStored, Latest
<1> QED
  BY <1>1, <1>2, <1>3, <1>4, <1>5, <1>6 DEF Next

LEMMA Invariance == Spec => []Inv
BY InvInitially, InvStep, PTL DEF Spec

-----------------------------------------------------------------------------

\* Every reachable state is well-typed: no undo stack outgrows its bound, and
\* every page, draft and message is a whole workspace (Workbench).
THEOREM Typing == Spec => []TypeOK
<1>1. Inv => TypeOK
  BY DEF Inv
<1> QED
  BY <1>1, Invariance, PTL

\* What a browser merges against is what the server stored under the revision
\* the browser saves against (save, refreshConflictBaseline and
\* replaceAuthoritativeWorkspace set both or none).
THEOREM Based == Spec => []BaseIsItsRevision
<1>1. Inv => BaseIsItsRevision
  BY DEF Inv
<1> QED
  BY <1>1, Invariance, PTL

-----------------------------------------------------------------------------
(* What a save takes away.                                                 *)

\* Page q differs from page p only where its user has replaced what p shows,
\* pairs being what the user has replaced, and by commands nowhere.
Within(pairs, p, q) ==
    \A f \in Fields : q[f] = p[f] \/ (f \in Ordinary /\ <<p[f], q[f]>> \in pairs)

\* What browser c keeps is what its user makes of the revision it was made on:
\* the page, what the keyboard would save, the draft.
Accounted(c) ==
    /\ Within(chosen[c], base[c], page[c])
    /\ Within(chosen[c], stored[shortcut[c].revision], shortcut[c].page)
    /\ shortcut[c].revision <= revision[c]
    /\ dirty[c] /\ shortcut[c].revision = revision[c] =>
          Within(chosen[c], shortcut[c].page, page[c])
    /\ draft[c] # None =>
          /\ draft[c].revision <= revision[c]
          /\ Within(chosen[c], stored[draft[c].revision], draft[c].page)
    /\ \A i \in 1..Len(undo[c]) :
          /\ undo[c][i].revision <= Latest
          /\ \A g \in Governed : undo[c][i].page[g] = stored[undo[c][i].revision][g]

\* The same of what is under way, as long as it can change something.  A save
\* that may still be stored, or has been, was sent from the revision shown, and
\* the page shown was made of the page sent.  A refresh that finds the browser
\* on the revision of its draft finds it dirty, and what the keyboard would save
\* was there before the draft.
Carries(m) ==
    /\ m.answer # "open" \/ m.kind = "refresh" => m.awaited
    /\ m.answer = "saved" => m.kind = "save" /\ revision[m.of] < m.revision
    /\ m.answer = "latest" => m.kind = "refresh"
    /\ m.kind = "save" /\ m.answer = "open" =>
          /\ m.revision <= revision[m.of]
          /\ Within(chosen[m.of], stored[m.revision], m.page)
    /\ m.kind = "save" /\ m.awaited
       /\ (m.answer = "saved" \/ (m.answer = "open" /\ m.revision = Latest)) =>
          dirty[m.of] /\ Within(chosen[m.of], m.page, page[m.of])
    /\ m.kind = "refresh" /\ draft[m.of] # None /\ draft[m.of].revision = revision[m.of] =>
          /\ dirty[m.of]
          /\ shortcut[m.of].revision = revision[m.of] =>
                Within(chosen[m.of], shortcut[m.of].page, draft[m.of].page)

\* Of the saves a browser waits for one at most has been stored.
OneSaved ==
    \A m, n \in net : m.of = n.of /\ m.answer = "saved" /\ n.answer = "saved" => m = n

Answerable ==
    /\ OneSaved
    /\ \A c \in Clients : Accounted(c)
    /\ \A m \in net : Carries(m)

\* The store only grows.
Grows ==
    /\ Latest \in Nat /\ Latest' \in Nat /\ Latest <= Latest'
    /\ \A i \in 1..Latest : stored'[i] = stored[i]

LEMMA Growing ==
    ASSUME Inv,
           \/ stored' = stored
           \/ \E p \in Content : stored' = Append(stored, p) /\ Latest < MaxStored
    PROVE  Grows
<1>1. CASE stored' = stored
  BY <1>1, StoredTyped DEF Inv, Latest, Grows
<1>2. CASE \E p \in Content : stored' = Append(stored, p) /\ Latest < MaxStored
  BY <1>2, StoredTyped, StoredAppended DEF Inv, Latest, Grows
<1> QED
  BY <1>1, <1>2

LEMMA WithinSelf == \A pairs, p : Within(pairs, p, p)
BY DEF Within

LEMMA WithinMore ==
    ASSUME NEW S, NEW T, S \subseteq T, NEW p, NEW q, Within(S, p, q)
    PROVE  Within(T, p, q)
BY DEF Within

\* Choosing adds to what was chosen by this user, and makes the page chosen
\* accountable to whatever the page shown was accountable to.
LEMMA ChoosingAdds ==
    ASSUME TypeOK, NEW c \in Clients, NEW new, NEW fs, Choose(c, new, fs)
    PROVE  \A d \in Clients : chosen[d] \subseteq chosen'[d]
<1> DEFINE now == {<<page[c][f], new[f]>> : f \in fs}
           earlier == UNION {{<<p[1], n[2]>> : p \in {q \in chosen[c] : q[2] = n[1]}} : n \in now}
<1>1. chosen' = [chosen EXCEPT ![c] = @ \cup now \cup earlier]
  BY DEF Choose
<1> HIDE DEF now, earlier
<1> QED
  BY <1>1 DEF TypeOK

LEMMA ChoosingFollows ==
    ASSUME TypeOK, NEW c \in Clients, NEW new, NEW fs \in SUBSET Ordinary,
           Choose(c, new, fs), \A f \in Fields \ fs : new[f] = page[c][f],
           NEW p, Within(chosen[c], p, page[c])
    PROVE  Within(chosen'[c], p, new)
<1> DEFINE now == {<<page[c][f], new[f]>> : f \in fs}
           before(n) == {<<q[1], n[2]>> : q \in {r \in chosen[c] : r[2] = n[1]}}
           earlier == UNION {before(n) : n \in now}
<1>1. chosen'[c] = chosen[c] \cup now \cup earlier
  <2>1. chosen' = [chosen EXCEPT ![c] = @ \cup now \cup earlier]
    BY DEF Choose
  <2> HIDE DEF now, earlier
  <2> QED
    BY <2>1 DEF TypeOK
<1> SUFFICES ASSUME NEW f \in Fields
             PROVE  new[f] = p[f] \/ (f \in Ordinary /\ <<p[f], new[f]>> \in chosen'[c])
  BY DEF Within
<1>2. page[c][f] = p[f] \/ (f \in Ordinary /\ <<p[f], page[c][f]>> \in chosen[c])
  BY DEF Within
<1>3. CASE f \notin fs
  <2>1. new[f] = page[c][f]
    BY <1>3
  <2> QED
    BY <1>1, <1>2, <2>1
<1>4. CASE f \in fs
  <2>1. f \in Ordinary /\ <<page[c][f], new[f]>> \in now
    BY <1>4
  <2>2. CASE page[c][f] = p[f]
    BY <1>1, <2>1, <2>2
  <2>3. CASE <<p[f], page[c][f]>> \in chosen[c]
    <3> DEFINE r == <<p[f], page[c][f]>>
               n == <<page[c][f], new[f]>>
    <3>1. r \in {q \in chosen[c] : q[2] = n[1]}
      BY <2>3
    <3>2. <<r[1], n[2]>> \in before(n)
      BY <3>1
    <3>3. <<r[1], n[2]>> = <<p[f], new[f]>>
      OBVIOUS
    <3> HIDE DEF before, r
    <3>4. <<p[f], new[f]>> \in earlier
      BY <2>1, <3>2, <3>3
    <3> QED
      BY <1>1, <2>1, <3>4
  <2> QED
    BY <1>2, <2>2, <2>3
<1> QED
  BY <1>3, <1>4

-----------------------------------------------------------------------------

\* A step that is not browser d's.
LeftAlone(d) ==
    /\ page'[d] = page[d] /\ base'[d] = base[d] /\ revision'[d] = revision[d]
    /\ dirty'[d] = dirty[d] /\ shortcut'[d] = shortcut[d] /\ undo'[d] = undo[d]
    /\ draft'[d] = draft[d] /\ chosen[d] \subseteq chosen'[d]

\* A browser, and a message, that a step leaves alone.

LEMMA OthersAccounted ==
    ASSUME Inv, Grows, NEW d \in Clients, Accounted(d),
           LeftAlone(d)
    PROVE  Accounted(d)'
<1>0. /\ page'[d] = page[d] /\ base'[d] = base[d] /\ revision'[d] = revision[d]
      /\ dirty'[d] = dirty[d] /\ shortcut'[d] = shortcut[d] /\ undo'[d] = undo[d]
      /\ draft'[d] = draft[d] /\ chosen[d] \subseteq chosen'[d]
  BY DEF LeftAlone
<1>1. shortcut[d] \in Page /\ revision[d] \in 1..MaxStored /\ revision[d] <= Latest
  BY DEF Inv, TypeOK, BaseIsItsRevision
<1>2. shortcut[d].revision \in 1..Latest
  BY <1>1 DEF Accounted, Page, Grows
<1>3. stored'[shortcut[d].revision] = stored[shortcut[d].revision]
  BY <1>2 DEF Grows
<1>4. draft[d] # None => draft[d].revision \in 1..Latest
  BY <1>1 DEF Inv, TypeOK, Accounted, Page, Grows
<1>5. ASSUME NEW i \in 1..Len(undo[d])
      PROVE  undo[d][i].revision \in 1..Latest
  <2>1. undo[d] \in Seq(Page)
    BY DEF Inv, TypeOK
  <2>2. undo[d][i] \in Page
    BY <2>1
  <2> QED
    BY <2>2 DEF Accounted, Page, Grows
<1>6. \A i \in 1..Len(undo[d]) :
          /\ undo[d][i].revision <= Latest'
          /\ \A g \in Governed : undo[d][i].page[g] = stored'[undo[d][i].revision][g]
  <2> SUFFICES ASSUME NEW i \in 1..Len(undo[d])
               PROVE  /\ undo[d][i].revision <= Latest'
                      /\ \A g \in Governed : undo[d][i].page[g] = stored'[undo[d][i].revision][g]
    OBVIOUS
  <2>1. undo[d][i].revision \in 1..Latest
    BY <1>5
  <2> QED
    BY <2>1 DEF Accounted, Grows
<1>7. draft[d] # None => /\ draft[d].revision <= revision[d]
                         /\ Within(chosen'[d], stored'[draft[d].revision], draft[d].page)
  <2> SUFFICES ASSUME draft[d] # None
               PROVE  /\ draft[d].revision <= revision[d]
                      /\ Within(chosen'[d], stored'[draft[d].revision], draft[d].page)
    OBVIOUS
  <2>1. stored'[draft[d].revision] = stored[draft[d].revision]
    BY <1>4 DEF Grows
  <2> QED
    BY <1>0, <2>1, WithinMore DEF Accounted
<1>8. /\ Within(chosen'[d], base[d], page[d])
      /\ Within(chosen'[d], stored'[shortcut[d].revision], shortcut[d].page)
      /\ dirty[d] /\ shortcut[d].revision = revision[d] =>
            Within(chosen'[d], shortcut[d].page, page[d])
  BY <1>0, <1>3, WithinMore DEF Accounted
<1> QED
  BY <1>0, <1>6, <1>7, <1>8 DEF Accounted

LEMMA OthersCarry ==
    ASSUME Inv, Grows, NEW m \in Message, Carries(m),
           LeftAlone(m.of)
    PROVE  Carries(m)'
<1>0. /\ page'[m.of] = page[m.of] /\ revision'[m.of] = revision[m.of]
      /\ dirty'[m.of] = dirty[m.of] /\ shortcut'[m.of] = shortcut[m.of]
      /\ draft'[m.of] = draft[m.of] /\ chosen[m.of] \subseteq chosen'[m.of]
  BY DEF LeftAlone
<1>1. m.revision \in 1..MaxStored /\ revision[m.of] \in 1..MaxStored /\ revision[m.of] <= Latest
  BY DEF Message, Inv, TypeOK, BaseIsItsRevision
<1>2. m.kind = "save" /\ m.answer = "open" =>
        /\ m.revision <= revision[m.of] /\ Within(chosen'[m.of], stored'[m.revision], m.page)
        /\ m.revision = Latest' => m.revision = Latest
  <2> SUFFICES ASSUME m.kind = "save", m.answer = "open"
               PROVE  /\ m.revision <= revision[m.of]
                      /\ Within(chosen'[m.of], stored'[m.revision], m.page)
                      /\ m.revision = Latest' => m.revision = Latest
    OBVIOUS
  <2>1. m.revision <= revision[m.of] /\ Within(chosen[m.of], stored[m.revision], m.page)
    BY DEF Carries
  <2>2. m.revision <= Latest /\ stored'[m.revision] = stored[m.revision]
    BY <1>1, <2>1 DEF Grows
  <2> QED
    BY <1>0, <1>1, <2>1, <2>2, WithinMore DEF Grows
<1>3. m.kind = "save" /\ m.awaited
      /\ (m.answer = "saved" \/ (m.answer = "open" /\ m.revision = Latest')) =>
          dirty[m.of] /\ Within(chosen'[m.of], m.page, page[m.of])
  BY <1>0, <1>2, WithinMore DEF Carries
<1>4. m.kind = "refresh" /\ draft[m.of] # None /\ draft[m.of].revision = revision[m.of] =>
          /\ dirty[m.of]
          /\ shortcut[m.of].revision = revision[m.of] =>
                Within(chosen'[m.of], shortcut[m.of].page, draft[m.of].page)
  BY <1>0, WithinMore DEF Carries
<1> QED
  BY <1>0, <1>2, <1>3, <1>4 DEF Carries

\* Browser c has another page, by its user's choice, and is dirty.
LEMMA PageChosen ==
    ASSUME Inv, Answerable, NEW c \in Clients, NEW new \in Content,
           NEW fs \in SUBSET Ordinary, Change(c, new), Choose(c, new, fs),
           \A f \in Fields \ fs : new[f] = page[c][f],
           UNCHANGED <<stored, net, draft>>,
           \A d \in Clients \ {c} : undo'[d] = undo[d] /\ notice'[d] = notice[d],
           \A i \in 1..Len(undo'[c]) :
               /\ undo'[c][i].revision <= Latest
               /\ \A g \in Governed : undo'[c][i].page[g] = stored[undo'[c][i].revision][g]
    PROVE  Answerable'
<1>1. /\ page' = [page EXCEPT ![c] = new] /\ base' = base /\ revision' = revision
      /\ dirty' = [dirty EXCEPT ![c] = TRUE]
      /\ shortcut' = IF dirty[c] THEN shortcut
                     ELSE [shortcut EXCEPT ![c] = [page |-> new, revision |-> revision[c]]]
  BY DEF Change, Render, Inv, TypeOK
<1>2. /\ page'[c] = new /\ dirty'[c] /\ base'[c] = base[c] /\ revision'[c] = revision[c]
      /\ dirty[c] => shortcut'[c] = shortcut[c]
      /\ ~dirty[c] => shortcut'[c] = [page |-> new, revision |-> revision[c]]
  BY <1>1 DEF Inv, TypeOK
<1>3. Grows
  BY Growing
<1>4. \A d \in Clients : chosen[d] \subseteq chosen'[d]
  BY ChoosingAdds DEF Inv
<1>5. \A d \in Clients \ {c} : LeftAlone(d)
  BY <1>1, <1>4 DEF LeftAlone, Inv, TypeOK
<1>6. Accounted(c)
  BY DEF Answerable
<1>7. \A p : Within(chosen[c], p, page[c]) => Within(chosen'[c], p, new)
  BY ChoosingFollows DEF Inv
<1>8. Within(chosen'[c], base[c], new)
  BY <1>6, <1>7 DEF Accounted
<1>9. revision[c] \in 1..MaxStored /\ base[c] = stored[revision[c]] /\ shortcut[c] \in Page
  BY DEF Inv, TypeOK, BaseIsItsRevision
<1>10. /\ Within(chosen'[c], stored[shortcut'[c].revision], shortcut'[c].page)
       /\ shortcut'[c].revision <= revision[c]
       /\ shortcut'[c].revision = revision[c] => Within(chosen'[c], shortcut'[c].page, new)
  <2>1. CASE dirty[c]
    BY <1>2, <1>4, <1>6, <1>7, <2>1, WithinMore DEF Accounted
  <2>2. CASE ~dirty[c]
    BY <1>2, <1>8, <1>9, <2>2, WithinSelf
  <2> QED
    BY <2>1, <2>2
<1>11. draft[c] # None => /\ draft[c].revision <= revision[c]
                          /\ Within(chosen'[c], stored[draft[c].revision], draft[c].page)
  BY <1>4, <1>6, WithinMore DEF Accounted
<1>12. Accounted(c)'
  BY <1>2, <1>8, <1>10, <1>11 DEF Accounted, Latest
<1>13. ASSUME NEW m \in net, m.of = c
       PROVE  Carries(m)'
  <2>1. Carries(m)
    BY DEF Answerable
  <2>2. m.kind = "refresh" /\ draft[c] # None /\ draft[c].revision = revision[c] =>
           /\ shortcut'[c] = shortcut[c]
           /\ shortcut[c].revision = revision[c] =>
                 Within(chosen'[c], shortcut[c].page, draft[c].page)
    BY <1>2, <1>4, <1>13, <2>1, WithinMore DEF Carries
  <2> QED
    BY <1>2, <1>4, <1>7, <1>13, <2>1, <2>2, WithinMore DEF Carries, Latest
<1>14. ASSUME NEW m \in net
       PROVE  Carries(m)'
  <2>1. m \in Message /\ m.of \in Clients /\ Carries(m)
    BY DEF Inv, TypeOK, Message, Answerable
  <2> QED
    BY <1>3, <1>5, <1>13, <2>1, OthersCarry
<1>15. ASSUME NEW d \in Clients
       PROVE  Accounted(d)'
  BY <1>3, <1>5, <1>12, OthersAccounted DEF Answerable
<1> QED
  BY <1>14, <1>15 DEF Answerable, OneSaved

LEMMA StepAnswerableEdit ==
    ASSUME Inv, Answerable, NEW c \in Clients, NEW f \in Fields, Edit(c, f)
    PROVE  Answerable'
<1> DEFINE new == [page[c] EXCEPT ![f] = typed + 1]
<1>1. /\ f \in Ordinary /\ typed < Edits /\ Change(c, new) /\ Choose(c, new, {f})
      /\ undo' = [undo EXCEPT ![c] = PushUndo(c)] /\ Notify(c, "none", {})
      /\ UNCHANGED <<stored, net, draft>>
  BY DEF Edit
<1>2. new \in Content /\ \A g \in Fields \ {f} : new[g] = page[c][g]
  BY <1>1, ClientAssumption DEF Inv, TypeOK, Content
<1> HIDE DEF new
<1>3. \A d \in Clients \ {c} : undo'[d] = undo[d] /\ notice'[d] = notice[d]
  BY <1>1 DEF Notify, Inv, TypeOK
<1>4. undo'[c] = PushUndo(c)
  BY <1>1 DEF Inv, TypeOK
<1> DEFINE top == [page |-> page[c], revision |-> revision[c]]
           stack == IF Len(undo[c]) < MaxUndo THEN undo[c] ELSE Tail(undo[c])
           InOrder(u) == /\ u.revision <= Latest
                         /\ \A g \in Governed : u.page[g] = stored[u.revision][g]
<1>5. InOrder(top)
  BY ClientAssumption DEF Answerable, Accounted, Within, Ordinary, Inv, BaseIsItsRevision
<1>6. undo[c] \in Seq(Page) /\ \A i \in 1..Len(undo[c]) : InOrder(undo[c][i])
  BY DEF Answerable, Accounted, Inv, TypeOK
<1> HIDE DEF top, InOrder
<1>7. stack \in Seq(Page) /\ \A i \in 1..Len(stack) : InOrder(stack[i])
  <2>1. CASE Len(undo[c]) < MaxUndo
    BY <1>6, <2>1
  <2>2. CASE ~(Len(undo[c]) < MaxUndo)
    <3>1. undo[c] # << >>
      BY <1>6, <2>2, ClientAssumption
    <3>2. /\ Tail(undo[c]) \in Seq(Page) /\ Len(Tail(undo[c])) = Len(undo[c]) - 1
          /\ \A i \in 1..Len(Tail(undo[c])) : Tail(undo[c])[i] = undo[c][i + 1]
      BY <1>6, <3>1
    <3>3. \A i \in 1..Len(Tail(undo[c])) : i + 1 \in 1..Len(undo[c])
      BY <1>6, <3>2
    <3> QED
      BY <1>6, <2>2, <3>2, <3>3
  <2> QED
    BY <2>1, <2>2
<1>8. PushUndo(c) = Append(stack, top)
  BY DEF PushUndo, top
<1> HIDE DEF stack
<1>9. top \in Page
  BY DEF top, Page, Inv, TypeOK
<1>10. \A i \in 1..Len(undo'[c]) : InOrder(undo'[c][i])
  <2>1. /\ Len(Append(stack, top)) = Len(stack) + 1 /\ Append(stack, top)[Len(stack) + 1] = top
        /\ \A i \in 1..Len(stack) : Append(stack, top)[i] = stack[i]
    BY <1>7, <1>9
  <2>2. \A i \in 1..(Len(stack) + 1) : i \in 1..Len(stack) \/ i = Len(stack) + 1
    BY <1>7
  <2> QED
    BY <1>4, <1>5, <1>7, <1>8, <2>1, <2>2
<1>11. {f} \in SUBSET Ordinary
  BY <1>1
<1> QED
  BY <1>1, <1>2, <1>3, <1>10, <1>11, PageChosen DEF InOrder

LEMMA StepAnswerableUndo ==
    ASSUME Inv, Answerable, NEW c \in Clients, Undo(c), behind' = {}
    PROVE  Answerable'
<1> DEFINE top == undo[c][Len(undo[c])]
           fs == {f \in Fields : top.revision = revision[c] /\ top.page[f] # page[c][f]}
           shorter == SubSeq(undo[c], 1, Len(undo[c]) - 1)
<1>1. /\ undo[c] # << >> /\ Change(c, top.page) /\ Choose(c, top.page, fs)
      /\ undo' = [undo EXCEPT ![c] = shorter]
      /\ behind' = behind \cup {w \in {"undo"} : ~(top.revision = revision[c])}
      /\ UNCHANGED <<stored, net, draft, notice>>
  BY DEF Undo
<1>2. top.revision = revision[c]
  BY <1>1
<1>3. undo[c] \in Seq(Page) /\ Len(undo[c]) \in Nat /\ Len(undo[c]) >= 1
  BY <1>1 DEF Inv, TypeOK
<1>4. top \in Page /\ Len(undo[c]) \in 1..Len(undo[c])
  BY <1>3
<1>5. \A g \in Governed : top.page[g] = page[c][g]
  <2>1. \A g \in Governed : top.page[g] = stored[revision[c]][g]
    BY <1>2, <1>4 DEF Answerable, Accounted
  <2>2. \A g \in Governed : page[c][g] = base[c][g]
    BY ClientAssumption DEF Answerable, Accounted, Within, Ordinary
  <2> QED
    BY <2>1, <2>2 DEF Inv, BaseIsItsRevision
<1>6. top.page \in Content /\ fs \in SUBSET Ordinary /\ \A f \in Fields \ fs : top.page[f] = page[c][f]
  BY <1>2, <1>4, <1>5 DEF Page, Ordinary
<1>7. /\ Len(shorter) = Len(undo[c]) - 1
      /\ \A i \in 1..Len(shorter) : shorter[i] = undo[c][i] /\ i \in 1..Len(undo[c])
  BY <1>3
<1> HIDE DEF top, fs, shorter
<1>8. undo'[c] = shorter /\ \A d \in Clients \ {c} : undo'[d] = undo[d] /\ notice'[d] = notice[d]
  BY <1>1 DEF Inv, TypeOK
<1>9. \A i \in 1..Len(undo'[c]) :
          /\ undo'[c][i].revision <= Latest
          /\ \A g \in Governed : undo'[c][i].page[g] = stored[undo'[c][i].revision][g]
  <2>1. \A i \in 1..Len(undo[c]) :
            /\ undo[c][i].revision <= Latest
            /\ \A g \in Governed : undo[c][i].page[g] = stored[undo[c][i].revision][g]
    BY DEF Answerable, Accounted
  <2> SUFFICES ASSUME NEW i \in 1..Len(shorter)
               PROVE  /\ shorter[i].revision <= Latest
                      /\ \A g \in Governed : shorter[i].page[g] = stored[shorter[i].revision][g]
    BY <1>8
  <2>2. shorter[i] = undo[c][i] /\ i \in 1..Len(undo[c])
    BY <1>7
  <2> QED
    BY <2>1, <2>2
<1> QED
  BY <1>1, <1>6, <1>8, <1>9, PageChosen

LEMMA StepAnswerableChooseLocal ==
    ASSUME Inv, Answerable, NEW c \in Clients, NEW f \in Fields, ChooseLocal(c, f)
    PROVE  Answerable'
<1> DEFINE new == [page[c] EXCEPT ![f] = draft[c].page[f]]
<1>1. /\ draft[c] # None /\ f \in notice[c].choices
      /\ Change(c, new) /\ Choose(c, new, {f})
      /\ Notify(c, "refreshed", notice[c].choices \ {f})
      /\ UNCHANGED <<stored, net, undo, draft>>
  BY DEF ChooseLocal
<1>2. {f} \in SUBSET Ordinary /\ draft[c] \in Page
  BY <1>1 DEF Inv, TypeOK, Notices
<1>3. new \in Content /\ \A g \in Fields \ {f} : new[g] = page[c][g]
  BY <1>2 DEF Inv, TypeOK, Content, Page
<1> HIDE DEF new
<1>4. \A d \in Clients \ {c} : undo'[d] = undo[d] /\ notice'[d] = notice[d]
  BY <1>1 DEF Notify, Inv, TypeOK
<1>5. \A i \in 1..Len(undo'[c]) :
          /\ undo'[c][i].revision <= Latest
          /\ \A g \in Governed : undo'[c][i].page[g] = stored[undo'[c][i].revision][g]
  BY <1>1 DEF Answerable, Accounted
<1> QED
  BY <1>1, <1>2, <1>3, <1>4, <1>5, PageChosen

-----------------------------------------------------------------------------

\* Browser c sends, and shows what it showed.
LEMMA SentAnswerable ==
    ASSUME Inv, Answerable, NEW c \in Clients, NEW kind, NEW p, NEW r,
           Send(c, kind, p, r), UNCHANGED <<stored, chosen>>,
           \A d \in Clients : LeftAlone(d),
           Carries([of |-> c, awaited |-> TRUE, kind |-> kind, page |-> p,
                    revision |-> r, answer |-> "open"])'
    PROVE  Answerable'
<1> DEFINE n == [of |-> c, awaited |-> TRUE, kind |-> kind, page |-> p,
                 revision |-> r, answer |-> "open"]
<1>1. net' = net \cup {n} /\ n.of = c /\ n.answer = "open"
  BY DEF Send
<1>2. Carries(n)'
  OBVIOUS
<1> HIDE DEF n
<1>3. Grows
  BY Growing
<1>4. OneSaved'
  BY <1>1 DEF Answerable, OneSaved
<1>5. ASSUME NEW m \in net
      PROVE  Carries(m)'
  <2>1. m \in Message /\ m.of \in Clients /\ Carries(m)
    BY DEF Inv, TypeOK, Message, Answerable
  <2> QED
    BY <1>3, <2>1, OthersCarry
<1>6. ASSUME NEW d \in Clients
      PROVE  Accounted(d)'
  BY <1>3, OthersAccounted DEF Answerable
<1>7. \A m \in net' : Carries(m)'
  BY <1>1, <1>2, <1>5
<1> QED
  BY <1>4, <1>6, <1>7 DEF Answerable

LEMMA StepAnswerableSave ==
    ASSUME Inv, Answerable, NEW c \in Clients,
           SaveButton(c) \/ SaveShortcut(c)
    PROVE  Answerable'
<1> DEFINE shown == [page |-> page[c], revision |-> revision[c]]
<1>1. PICK what \in {shown, shortcut[c]} :
          Save(c, what) /\ dirty[c]
  BY DEF SaveButton, SaveShortcut
<1>2. /\ Send(c, "save", what.page, what.revision) /\ Notify(c, "saving", {})
      /\ UNCHANGED <<stored, page, base, revision, dirty, shortcut, undo, draft, chosen, behind>>
  BY <1>1 DEF Save, history
<1>3. /\ what.revision <= revision[c] /\ revision[c] <= Latest
      /\ what.revision \in Nat /\ revision[c] \in Nat /\ Latest \in Nat
      /\ Within(chosen[c], stored[what.revision], what.page)
      /\ what.revision = revision[c] => Within(chosen[c], what.page, page[c])
  <2>1. Accounted(c) /\ Latest \in Nat
    BY StoredTyped DEF Answerable, Inv
  <2>2. /\ revision[c] \in Nat /\ revision[c] <= Latest /\ base[c] = stored[revision[c]]
        /\ shortcut[c].revision \in Nat
    BY DEF Inv, TypeOK, BaseIsItsRevision, Page
  <2>3. CASE what = shown
    <3>1. what.page = page[c] /\ what.revision = revision[c]
      BY <2>3
    <3> QED
      BY <2>1, <2>2, <3>1, WithinSelf DEF Accounted
  <2>4. CASE what = shortcut[c]
    BY <1>1, <2>1, <2>2, <2>4 DEF Accounted
  <2> QED
    BY <2>3, <2>4
<1> DEFINE n == [of |-> c, awaited |-> TRUE, kind |-> "save", page |-> what.page,
                 revision |-> what.revision, answer |-> "open"]
<1>4. Carries(n)'
  <2>1. /\ n.of = c /\ n.kind = "save" /\ n.answer = "open" /\ n.awaited
        /\ n.page = what.page /\ n.revision = what.revision
    OBVIOUS
  <2> HIDE DEF n
  <2>2. n.revision = Latest => what.revision = revision[c]
    BY <1>3, <2>1
  <2> QED
    BY <1>1, <1>2, <1>3, <2>1, <2>2 DEF Carries, Latest
<1>5. \A d \in Clients : LeftAlone(d)
  BY <1>2 DEF LeftAlone, Notify, Inv, TypeOK
<1> QED
  BY <1>2, <1>4, <1>5, SentAnswerable

\* A refresh keeps another draft: the refreshes under way go by it too.
LEMMA StepAnswerableRefresh ==
    ASSUME Inv, Answerable, NEW c \in Clients, Refresh(c), behind' = {}
    PROVE  Answerable'
<1> DEFINE kept == [page |-> page[c], revision |-> revision[c]]
           n == [of |-> c, awaited |-> TRUE, kind |-> "refresh", page |-> Blank,
                 revision |-> 1, answer |-> "open"]
<1>1. /\ Send(c, "refresh", Blank, 1)
      /\ draft' = [draft EXCEPT ![c] = kept]
      /\ behind' = behind \cup {w \in {"draft"} : ~dirty[c]}
      /\ UNCHANGED <<stored, page, base, revision, dirty, shortcut, undo, notice, chosen>>
  BY DEF Refresh
<1>2. Accounted(c) /\ dirty[c]
  BY <1>1 DEF Answerable
<1>3. draft'[c] = kept
  BY <1>1 DEF Inv, TypeOK
<1>4. revision[c] \in Nat /\ base[c] = stored[revision[c]]
  BY DEF Inv, TypeOK, BaseIsItsRevision
<1>5. Accounted(c)'
  BY <1>1, <1>2, <1>3, <1>4 DEF Accounted, Latest
<1>6. net' = net \cup {n} /\ n.of = c /\ n.kind = "refresh" /\ n.answer = "open" /\ n.awaited
  BY <1>1 DEF Send
<1> HIDE DEF n
<1>7. \A d \in Clients \ {c} : LeftAlone(d)
  BY <1>1 DEF LeftAlone, Inv, TypeOK
<1>8. Grows
  BY <1>1, Growing
<1>9. OneSaved'
  BY <1>6 DEF Answerable, OneSaved
<1>10. /\ dirty[c]
       /\ shortcut[c].revision = revision[c] => Within(chosen[c], shortcut[c].page, kept.page)
  BY <1>2 DEF Accounted
<1>11. ASSUME NEW m \in net, m.of = c
       PROVE  Carries(m)'
  <2>1. Carries(m)
    BY DEF Answerable
  <2> QED
    BY <1>1, <1>3, <1>10, <1>11, <2>1 DEF Carries, Latest
<1>12. ASSUME NEW m \in net
       PROVE  Carries(m)'
  <2>1. m \in Message /\ m.of \in Clients /\ Carries(m)
    BY DEF Inv, TypeOK, Message, Answerable
  <2> QED
    BY <1>7, <1>8, <1>11, <2>1, OthersCarry
<1>13. Carries(n)'
  BY <1>1, <1>3, <1>6, <1>10 DEF Carries
<1>14. ASSUME NEW d \in Clients
       PROVE  Accounted(d)'
  BY <1>5, <1>7, <1>8, OthersAccounted DEF Answerable
<1> QED
  BY <1>6, <1>9, <1>12, <1>13, <1>14 DEF Answerable

LEMMA StepAnswerableCommand ==
    ASSUME Inv, Answerable, NEW c \in Clients, Command(c)
    PROVE  Answerable'
<1>1. PICK r \in {revision[c]} : Send(c, "command", Blank, r)
  BY DEF Command
<1>0. UNCHANGED <<stored, page, base, revision, dirty, shortcut, undo, draft, notice, chosen, behind>>
  BY DEF Command, client, history
<1> DEFINE n == [of |-> c, awaited |-> TRUE, kind |-> "command", page |-> Blank,
                 revision |-> r, answer |-> "open"]
<1>2. Carries(n)'
  <2>1. n.of = c /\ n.kind = "command" /\ n.answer = "open" /\ n.awaited
    OBVIOUS
  <2> HIDE DEF n
  <2> QED
    BY <2>1 DEF Carries
<1>3. \A d \in Clients : LeftAlone(d)
  BY <1>0 DEF LeftAlone
<1> QED
  BY <1>0, <1>1, <1>2, <1>3, SentAnswerable

-----------------------------------------------------------------------------

\* The server answers message m by n: no browser sees it yet.
LEMMA ServedAnswerable ==
    ASSUME Inv, Answerable, Grows, NEW m \in net, NEW n, n.of = m.of, Reply(m, n),
           UNCHANGED <<page, base, revision, dirty, shortcut, undo, draft, notice, chosen>>,
           n.awaited => Carries(n)',
           n.answer = "saved" => \A o \in net : o.of = m.of => o.answer # "saved"
    PROVE  Answerable'
<1>1. net' = (net \ {m}) \cup {a \in {n} : a.awaited}
  BY DEF Reply
<1>2. OneSaved'
  BY <1>1 DEF Answerable, OneSaved
<1>3. \A d \in Clients : LeftAlone(d)
  BY DEF LeftAlone
<1>4. ASSUME NEW o \in net
      PROVE  Carries(o)'
  <2>1. o \in Message /\ o.of \in Clients /\ Carries(o)
    BY DEF Inv, TypeOK, Message, Answerable
  <2> QED
    BY <1>3, <2>1, OthersCarry
<1>5. ASSUME NEW d \in Clients
      PROVE  Accounted(d)'
  BY <1>3, OthersAccounted DEF Answerable
<1>6. \A o \in net' : Carries(o)'
  BY <1>1, <1>4
<1> QED
  BY <1>2, <1>5, <1>6 DEF Answerable

LEMMA StepAnswerableServeSave ==
    ASSUME Inv, Answerable, NEW m \in net, ServeSave(m)
    PROVE  Answerable'
<1>1. /\ m.kind = "save" /\ m.answer = "open"
      /\ UNCHANGED <<page, base, revision, dirty, shortcut, undo, draft, notice, chosen>>
  BY DEF ServeSave, client, history
<1>2. m \in Message /\ m.page \in Content /\ m.of \in Clients /\ Carries(m)
  BY DEF Inv, TypeOK, Message, Answerable
<1>3. CASE \E a \in {"conflict", "refused"} : Reply(m, [m EXCEPT !.answer = a]) /\ UNCHANGED stored
  <2>1. PICK a \in {"conflict", "refused"} : Reply(m, [m EXCEPT !.answer = a])
    BY <1>3
  <2> DEFINE n == [m EXCEPT !.answer = a]
  <2>2. n.of = m.of /\ n.kind = "save" /\ n.answer = a /\ n.awaited = m.awaited
    BY <1>1, <1>2 DEF Message
  <2> HIDE DEF n
  <2>3. n.awaited => Carries(n)'
    BY <1>1, <1>2, <2>2 DEF Carries
  <2>4. Reply(m, n) /\ Grows
    BY <1>3, <2>1, Growing DEF n
  <2> QED
    BY <1>1, <2>2, <2>3, <2>4, ServedAnswerable
<1>4. CASE /\ m.revision = Latest /\ Latest < MaxStored /\ stored' = Append(stored, m.page)
           /\ Reply(m, [m EXCEPT !.answer = "saved", !.revision = Latest + 1])
  <2>1. PICK r \in {Latest + 1} : Reply(m, [m EXCEPT !.answer = "saved", !.revision = r])
    BY <1>4
  <2> DEFINE n == [m EXCEPT !.answer = "saved", !.revision = r]
  <2>2. /\ n.of = m.of /\ n.kind = "save" /\ n.answer = "saved" /\ n.awaited = m.awaited
        /\ n.revision = r /\ n.page = m.page
    BY <1>1, <1>2 DEF Message
  <2>3. Reply(m, n)
    BY <2>1
  <2> HIDE DEF n
  <2>4. /\ revision[m.of] < r /\ m.revision = revision[m.of]
        /\ \A o \in net : o.of = m.of => o.answer # "saved"
    <3>1. /\ m.revision <= revision[m.of] /\ revision[m.of] <= Latest /\ r = Latest + 1
          /\ revision[m.of] \in Nat /\ Latest \in Nat
      BY <1>1, <1>2, StoredTyped DEF Carries, Inv, TypeOK, BaseIsItsRevision
    <3>2. ASSUME NEW o \in net, o.of = m.of, o.answer = "saved"
          PROVE  FALSE
      <4>1. revision[o.of] < o.revision
        BY <3>2 DEF Answerable, Carries
      <4>2. o.revision <= Latest /\ o.revision \in Nat
        BY <3>2 DEF Inv, AnswersAreStored, TypeOK, Message
      <4> QED
        BY <1>4, <3>1, <3>2, <4>1, <4>2
    <3> QED
      BY <1>2, <1>4, <3>1, <3>2 DEF Message
  <2>5. n.awaited => Carries(n)'
    BY <1>1, <1>2, <1>4, <2>2, <2>4 DEF Carries
  <2>6. Grows
    BY <1>2, <1>4, Growing
  <2> QED
    BY <1>1, <2>2, <2>3, <2>4, <2>5, <2>6, ServedAnswerable
<1> QED
  BY <1>3, <1>4 DEF ServeSave

LEMMA StepAnswerableServeRefresh ==
    ASSUME Inv, Answerable, NEW m \in net, ServeRefresh(m)
    PROVE  Answerable'
<1>1. PICK p \in {Current}, r \in {Latest} :
          Reply(m, [m EXCEPT !.answer = "latest", !.page = p, !.revision = r])
  BY DEF ServeRefresh
<1>2. /\ m.kind = "refresh"
      /\ UNCHANGED <<stored, page, base, revision, dirty, shortcut, undo, draft, notice, chosen>>
  BY DEF ServeRefresh, client, history
<1>3. m \in Message /\ m.of \in Clients /\ Carries(m)
  BY DEF Inv, TypeOK, Message, Answerable
<1> DEFINE n == [m EXCEPT !.answer = "latest", !.page = p, !.revision = r]
<1>4. /\ n.of = m.of /\ n.kind = "refresh" /\ n.answer = "latest" /\ n.awaited = m.awaited
      /\ n.revision = r
  BY <1>2, <1>3 DEF Message
<1>5. Reply(m, n)
  BY <1>1
<1> HIDE DEF n
<1>7. n.awaited => Carries(n)'
  BY <1>2, <1>3, <1>4 DEF Carries
<1> QED
  BY <1>2, <1>4, <1>5, <1>7, Growing, ServedAnswerable

LEMMA StepAnswerableServeCommand ==
    ASSUME Inv, Answerable, NEW m \in net, NEW g \in Governed, ServeCommand(m, g)
    PROVE  Answerable'
<1>1. /\ m.kind = "command"
      /\ UNCHANGED <<page, base, revision, dirty, shortcut, undo, draft, notice, chosen>>
  BY DEF ServeCommand, client, history
<1>2. m \in Message
  BY DEF Inv, TypeOK
<1>3. PICK a \in {"conflict", "applied"}, p \in {m.page, stored'[Latest + 1]} :
          Reply(m, [m EXCEPT !.answer = a, !.page = p])
  <2>1. CASE Reply(m, [m EXCEPT !.answer = "conflict"])
    <3>1. [m EXCEPT !.answer = "conflict"] = [m EXCEPT !.answer = "conflict", !.page = m.page]
      BY <1>2 DEF Message
    <3> QED
      BY <2>1, <3>1
  <2>2. CASE Reply(m, [m EXCEPT !.answer = "applied", !.page = stored'[Latest + 1]])
    BY <2>2
  <2> QED
    BY <2>1, <2>2 DEF ServeCommand
<1> DEFINE n == [m EXCEPT !.answer = a, !.page = p]
<1>4. n.of = m.of /\ n.kind = "command" /\ n.answer = a
  BY <1>1, <1>2 DEF Message
<1>5. Reply(m, n)
  BY <1>3
<1> HIDE DEF n
<1>6. n.awaited => Carries(n)'
  BY <1>4 DEF Carries
<1>7. Grows
  <2>1. CASE stored' = stored
    BY <2>1, Growing
  <2>2. CASE Latest < MaxStored /\ typed < Edits /\ stored' = Append(stored, [Current EXCEPT ![g] = typed + 1])
    <3>1. [Current EXCEPT ![g] = typed + 1] \in [Fields -> 0..Edits]
      BY <2>2, StoredTyped, ClientAssumption DEF Inv, TypeOK, Content
    <3> QED
      BY <2>2, <3>1, Growing DEF Content
  <2> QED
    BY <2>1, <2>2 DEF ServeCommand
<1> QED
  BY <1>1, <1>4, <1>5, <1>6, <1>7, ServedAnswerable

-----------------------------------------------------------------------------

\* A browser receives message m: what else it waits for is to be looked at.
LEMMA ReceivedAnswerable ==
    ASSUME Inv, Answerable, NEW m \in net, net' = net \ {m}, UNCHANGED <<stored, chosen>>,
           \A d \in Clients \ {m.of} : LeftAlone(d), Accounted(m.of)',
           \A o \in net \ {m} : o.of = m.of => Carries(o)'
    PROVE  Answerable'
<1>1. Grows
  BY Growing
<1>2. OneSaved'
  BY DEF Answerable, OneSaved
<1>3. ASSUME NEW o \in net', o.of # m.of
      PROVE  Carries(o)'
  <2>1. o \in Message /\ o.of \in Clients \ {m.of} /\ Carries(o)
    BY <1>3 DEF Inv, TypeOK, Message, Answerable
  <2> QED
    BY <1>1, <2>1, OthersCarry
<1>4. ASSUME NEW d \in Clients
      PROVE  Accounted(d)'
  BY <1>1, OthersAccounted DEF Answerable
<1> QED
  BY <1>2, <1>3, <1>4 DEF Answerable

\* No other save of the browser may still be stored: the one that was has
\* raised the revision.
LEMMA StepAnswerableSaved ==
    ASSUME Inv, Answerable, NEW m \in net, ReceiveSaved(m)
    PROVE  Answerable'
<1>1. PICK c \in {m.of} : TRUE
  OBVIOUS
<1>2. /\ m.answer = "saved" /\ net' = net \ {m}
      /\ Render(c, page[c], m.page, m.revision, FALSE) /\ Notify(c, "none", {})
      /\ UNCHANGED <<stored, undo, draft, chosen>>
  BY DEF ReceiveSaved, history
<1>3. m \in Message /\ c \in Clients /\ Carries(m) /\ Accounted(c)
  BY DEF Inv, TypeOK, Message, Answerable
<1>4. /\ dirty[c] /\ revision[c] < m.revision /\ Within(chosen[c], m.page, page[c])
      /\ m.page = stored[m.revision] /\ m.revision <= Latest
  BY <1>2, <1>3 DEF Carries, Inv, AnswersAreStored
<1>5. /\ page'[c] = page[c] /\ base'[c] = m.page /\ revision'[c] = m.revision /\ ~dirty'[c]
      /\ shortcut'[c] = [page |-> page[c], revision |-> m.revision]
  BY <1>2, <1>3, <1>4 DEF Render, Notify, Inv, TypeOK
<1>6. m.revision \in Nat /\ revision[c] \in Nat /\ Latest \in Nat
  BY <1>3, StoredTyped DEF Message, Inv, TypeOK
<1>7. draft[c] # None => draft[c].revision \in Nat /\ draft[c].revision < m.revision
  BY <1>3, <1>4, <1>6 DEF Accounted, Inv, TypeOK, Page
<1>8. Accounted(c)'
  BY <1>2, <1>3, <1>4, <1>5, <1>6, <1>7 DEF Accounted, Latest
<1>9. ASSUME NEW o \in net \ {m}, o.of = m.of
      PROVE  Carries(o)'
  <2>1. Carries(o) /\ o.answer # "saved" /\ o.of = c
    BY <1>2, <1>9 DEF Answerable, OneSaved
  <2>2. o.kind = "save" /\ o.answer = "open" => o.revision \in Nat /\ o.revision < m.revision
    BY <1>4, <1>6, <2>1 DEF Carries, Inv, TypeOK, Message
  <2> QED
    BY <1>2, <1>4, <1>5, <1>6, <1>7, <2>1, <2>2 DEF Carries, Latest
<1>10. \A d \in Clients \ {m.of} : LeftAlone(d)
  BY <1>2 DEF LeftAlone, Render, Notify, Inv, TypeOK
<1>11. Accounted(m.of)'
  BY <1>8
<1> QED
  BY <1>2, <1>9, <1>10, <1>11, ReceivedAnswerable

LEMMA StepAnswerableConflict ==
    ASSUME Inv, Answerable, NEW m \in net, ReceiveConflict(m) \/ ReceiveError(m)
    PROVE  Answerable'
<1>1. /\ net' = net \ {m}
      /\ UNCHANGED <<stored, page, base, revision, dirty, shortcut, undo, draft, chosen>>
  BY DEF ReceiveConflict, ReceiveError, history
<1>2. \A d \in Clients : LeftAlone(d)
  BY <1>1 DEF LeftAlone
<1>3. m.of \in Clients /\ Grows
  BY <1>1, Growing DEF Inv, TypeOK, Message
<1>4. Accounted(m.of)'
  BY <1>2, <1>3, OthersAccounted DEF Answerable
<1>5. ASSUME NEW o \in net, o.of = m.of
      PROVE  Carries(o)'
  <2>1. o \in Message /\ Carries(o)
    BY DEF Inv, TypeOK, Answerable
  <2> QED
    BY <1>2, <1>3, <1>5, <2>1, OthersCarry
<1> QED
  BY <1>1, <1>2, <1>4, <1>5, ReceivedAnswerable

\* The merge replays a draft made of the base that is merged against: what it
\* changes the user has changed.
LEMMA MergeWithin ==
    ASSUME Inv, NEW c \in Clients, NEW latest \in Content, draft[c] \in Page,
           Within(chosen[c], base[c], draft[c].page)
    PROVE  Within(chosen[c], latest, Merged(c, latest))
<1> SUFFICES ASSUME NEW f \in Fields
             PROVE  \/ Merged(c, latest)[f] = latest[f]
                    \/ f \in Ordinary /\ <<latest[f], Merged(c, latest)[f]>> \in chosen[c]
  BY DEF Within
<1>1. CASE f \in Replayed(c, latest)
  <2>1. /\ f \in Ordinary /\ draft[c].page[f] # base[c][f] /\ latest[f] = base[c][f]
        /\ Merged(c, latest)[f] = draft[c].page[f]
    BY <1>1 DEF Replayed, Conflicts, LocalChanges, Merged
  <2>2. <<base[c][f], draft[c].page[f]>> \in chosen[c]
    BY <2>1 DEF Within
  <2> QED
    BY <2>1, <2>2
<1>2. CASE f \notin Replayed(c, latest)
  BY <1>2 DEF Merged
<1> QED
  BY <1>1, <1>2

\* Nothing new on the server: the merge is the draft.
LEMMA MergeOfNothing ==
    ASSUME Inv, NEW c \in Clients, draft[c] \in Page,
           Within(chosen[c], base[c], draft[c].page)
    PROVE  \A f \in Fields : Merged(c, base[c])[f] = draft[c].page[f]
<1> SUFFICES ASSUME NEW f \in Fields
             PROVE  Merged(c, base[c])[f] = draft[c].page[f]
  OBVIOUS
<1>1. f \in Ordinary \/ draft[c].page[f] = base[c][f]
  BY DEF Within
<1> QED
  BY <1>1 DEF Merged, Replayed, Conflicts, LocalChanges

LEMMA StepAnswerableLatest ==
    ASSUME Inv, Answerable, NEW m \in net, ReceiveLatest(m), behind' = {}
    PROVE  Answerable'
<1>1. PICK c \in {m.of}, merged \in {Merged(m.of, m.page)},
           replayed \in {Replayed(m.of, m.page) # {}} : TRUE
  OBVIOUS
<1>2. /\ m.answer = "latest" /\ draft[c] # None /\ net' = net \ {m}
      /\ Render(c, merged, m.page, m.revision, replayed)
      /\ Notify(c, "refreshed", Conflicts(c, m.page))
      /\ draft[c].revision = revision[c] /\ revision[c] <= m.revision
      /\ \A o \in net \ {m} : o.of = c /\ o.kind # "command" => ~o.awaited
      /\ UNCHANGED <<stored, undo, draft, chosen>>
  BY <1>1 DEF ReceiveLatest, InTime
<1>3. /\ m \in Message /\ c \in Clients /\ Carries(m) /\ Accounted(c)
      /\ m.page \in Content /\ m.revision \in Nat
  BY DEF Inv, TypeOK, Message, Answerable
<1>4. draft[c] \in Page /\ shortcut[c] \in Page /\ revision[c] \in Nat /\ shortcut[c].revision \in Nat
  BY <1>2, <1>3 DEF Inv, TypeOK, Page
<1>5. m.kind = "refresh" /\ dirty[c] /\ m.page = stored[m.revision]
  BY <1>2, <1>3 DEF Carries, Inv, AnswersAreStored
<1>6. Within(chosen[c], base[c], draft[c].page)
  BY <1>2, <1>3 DEF Accounted, Inv, BaseIsItsRevision
<1>7. Within(chosen[c], m.page, merged)
  BY <1>1, <1>3, <1>4, <1>6, MergeWithin
<1>8. /\ page'[c] = merged /\ base'[c] = m.page /\ revision'[c] = m.revision
      /\ dirty'[c] = replayed
      /\ replayed => shortcut'[c] = shortcut[c]
      /\ ~replayed => shortcut'[c] = [page |-> merged, revision |-> m.revision]
  BY <1>2, <1>3, <1>5 DEF Render, Notify, Inv, TypeOK
<1>9. /\ Within(chosen[c], stored[shortcut'[c].revision], shortcut'[c].page)
      /\ shortcut'[c].revision <= m.revision
  <2>1. CASE replayed
    BY <1>2, <1>3, <1>4, <1>8, <2>1 DEF Accounted
  <2>2. CASE ~replayed
    BY <1>3, <1>5, <1>7, <1>8, <2>2
  <2> QED
    BY <2>1, <2>2
<1>10. ASSUME replayed, shortcut'[c].revision = m.revision
       PROVE  Within(chosen[c], shortcut'[c].page, merged)
  <2>1. shortcut[c].revision = revision[c] /\ revision[c] = m.revision
    BY <1>2, <1>3, <1>4, <1>8, <1>10 DEF Accounted
  <2>2. Within(chosen[c], shortcut[c].page, draft[c].page)
    BY <1>2, <1>3, <1>5, <2>1 DEF Carries
  <2>3. base[c] = m.page
    BY <1>3, <1>5, <2>1 DEF Inv, BaseIsItsRevision
  <2>4. \A f \in Fields : merged[f] = draft[c].page[f]
    BY <1>1, <1>3, <1>4, <1>6, <2>3, MergeOfNothing
  <2> QED
    BY <1>8, <1>10, <2>2, <2>4 DEF Within
<1>11. Accounted(c)'
  BY <1>2, <1>3, <1>4, <1>7, <1>8, <1>9, <1>10 DEF Accounted, Latest
<1>12. \A d \in Clients \ {m.of} : LeftAlone(d)
  BY <1>2 DEF LeftAlone, Render, Notify, Inv, TypeOK
<1>13. Accounted(m.of)'
  BY <1>11
<1>14. ASSUME NEW o \in net \ {m}, o.of = m.of
       PROVE  Carries(o)'
  <2>1. Carries(o) /\ o.of = c /\ (o.kind # "command" => ~o.awaited) /\ o.revision \in Nat
    BY <1>2, <1>14 DEF Answerable, Inv, TypeOK, Message
  <2> QED
    BY <1>2, <1>3, <1>4, <1>8, <2>1 DEF Carries, Latest
<1> QED
  BY <1>2, <1>12, <1>13, <1>14, ReceivedAnswerable

LEMMA StepAnswerableApplied ==
    ASSUME Inv, Answerable, NEW m \in net, ReceiveApplied(m)
    PROVE  Answerable'
<1>1. PICK c \in {m.of} : TRUE
  OBVIOUS
<1>2. /\ m.answer = "applied" /\ net' = net \ {m} /\ UNCHANGED <<stored, chosen>>
  BY DEF ReceiveApplied, history
<1>3. /\ m \in Message /\ c \in Clients /\ Accounted(c) /\ m.revision \in Nat
      /\ m.page = stored[m.revision + 1]
  BY <1>2 DEF Inv, TypeOK, Message, Answerable, AnswersAreStored
<1>4. CASE UNCHANGED client
  <2>1. \A d \in Clients : LeftAlone(d)
    BY <1>2, <1>4 DEF LeftAlone, client
  <2>2. Accounted(c)'
    BY <1>2, <1>3, <2>1, Growing, OthersAccounted
  <2>3. ASSUME NEW o \in net, o.of = m.of
        PROVE  Carries(o)'
    <3>1. o \in Message /\ o.of \in Clients /\ Carries(o)
      BY DEF Inv, TypeOK, Message, Answerable
    <3> QED
      BY <1>2, <2>1, <3>1, Growing, OthersCarry
  <2> QED
    BY <1>2, <2>1, <2>2, <2>3, ReceivedAnswerable
<1>5. CASE ~(dirty[c] \/ revision[c] # m.revision)
  <2>1. PICK r \in {m.revision + 1} : Render(c, m.page, m.page, r, FALSE)
    BY <1>5 DEF ReceiveApplied
  <2>2. draft' = [draft EXCEPT ![c] = None] /\ Notify(c, "none", {}) /\ UNCHANGED undo
    BY <1>5 DEF ReceiveApplied
  <2>3. /\ page'[c] = m.page /\ base'[c] = m.page /\ revision'[c] = r /\ ~dirty'[c]
        /\ shortcut'[c] = shortcut[c] /\ draft'[c] = None
    BY <1>3, <1>5, <2>1, <2>2 DEF Render, Notify, Inv, TypeOK
  <2>4. shortcut[c].revision <= r
    BY <1>3, <1>5 DEF Accounted, Inv, TypeOK, Page
  <2>5. Accounted(c)'
    BY <1>2, <1>3, <2>2, <2>3, <2>4, WithinSelf DEF Accounted, Latest
  <2>6. \A d \in Clients \ {m.of} : LeftAlone(d)
    BY <1>2, <2>1, <2>2 DEF LeftAlone, Render, Notify, Inv, TypeOK
  <2>7. Accounted(m.of)'
    BY <2>5
  <2>8. ASSUME NEW o \in net, o.of = m.of
        PROVE  Carries(o)'
    <3>1. Carries(o) /\ o.of = c /\ o.revision \in Nat /\ ~dirty[c] /\ r = revision[c] + 1
      BY <1>2, <1>3, <1>5, <2>1, <2>8 DEF Answerable, Inv, TypeOK, Message
    <3>2. revision[c] \in Nat
      BY <1>3 DEF Inv, TypeOK
    <3> QED
      BY <1>2, <2>3, <3>1, <3>2 DEF Carries, Latest
  <2> QED
    BY <1>2, <2>6, <2>7, <2>8, ReceivedAnswerable
<1> QED
  BY <1>4, <1>5 DEF ReceiveApplied

LEMMA StepAnswerableReload ==
    ASSUME Inv, Answerable, NEW c \in Clients, Reload(c)
    PROVE  Answerable'
<1>1. /\ page' = [page EXCEPT ![c] = Current] /\ base' = [base EXCEPT ![c] = Current]
      /\ revision' = [revision EXCEPT ![c] = Latest] /\ dirty' = [dirty EXCEPT ![c] = FALSE]
      /\ undo' = [undo EXCEPT ![c] = << >>] /\ draft' = [draft EXCEPT ![c] = None]
      /\ shortcut' = [shortcut EXCEPT ![c] = [page |-> Current, revision |-> Latest]]
      /\ Notify(c, "none", {}) /\ UNCHANGED <<stored, chosen>>
  BY DEF Reload, history
<1>2. /\ page'[c] = Current /\ base'[c] = Current /\ revision'[c] = Latest /\ ~dirty'[c]
      /\ undo'[c] = << >> /\ draft'[c] = None
      /\ shortcut'[c] = [page |-> Current, revision |-> Latest]
      /\ Current = stored[Latest] /\ Latest \in Nat
  BY <1>1, StoredTyped DEF Notify, Inv, TypeOK, Current
<1>3. Accounted(c)'
  BY <1>1, <1>2, WithinSelf DEF Accounted, Latest
<1>4. \A d \in Clients \ {c} : LeftAlone(d)
  BY <1>1 DEF LeftAlone, Notify, Inv, TypeOK
<1>5. Grows
  BY <1>1, Growing
<1> DEFINE Left(m) == [m EXCEPT !.awaited = FALSE]
<1>6. net' = {m \in net : m.of # c} \cup
             {Left(m) : m \in {n \in net : n.of = c /\ n.answer = "open" /\ n.kind # "refresh"}}
  BY DEF Reload
<1>7. \A m \in net : m \in Message /\ m.of \in Clients /\ Carries(m)
  BY DEF Inv, TypeOK, Message, Answerable
<1>8. \A m \in net : /\ Left(m).of = m.of /\ Left(m).kind = m.kind /\ Left(m).answer = m.answer
                     /\ Left(m).page = m.page /\ Left(m).revision = m.revision
                     /\ ~Left(m).awaited
  BY <1>7 DEF Message
<1> HIDE DEF Left
<1>9. \A o \in net' : \/ o \in net /\ o.of # c
                      \/ \E m \in net : /\ o = Left(m) /\ m.of = c /\ o.of = c
                                        /\ m.answer = "open" /\ m.kind # "refresh"
  BY <1>6, <1>8
<1>10. OneSaved'
  <2>1. \A o \in net' : o.answer = "saved" => o \in net
    BY <1>8, <1>9
  <2> QED
    BY <2>1 DEF Answerable, OneSaved
<1>11. ASSUME NEW o \in net'
       PROVE  Carries(o)'
  <2>1. CASE o \in net /\ o.of # c
    BY <1>4, <1>5, <1>7, <2>1, OthersCarry
  <2>2. CASE \E m \in net : /\ o = Left(m) /\ m.of = c /\ o.of = c
                            /\ m.answer = "open" /\ m.kind # "refresh"
    <3>1. PICK m \in net : o = Left(m) /\ m.of = c /\ m.answer = "open" /\ m.kind # "refresh"
      BY <2>2
    <3>2. /\ o.of = c /\ o.kind = m.kind /\ o.answer = "open" /\ o.page = m.page
          /\ o.revision = m.revision /\ ~o.awaited
      BY <1>8, <3>1
    <3>3. m.kind = "save" => m.revision <= Latest
      BY <1>7, <3>1 DEF Carries, Inv, TypeOK, Message, BaseIsItsRevision, Latest
    <3> QED
      BY <1>1, <1>2, <1>7, <3>1, <3>2, <3>3 DEF Carries
  <2> QED
    BY <1>9, <2>1, <2>2
<1>12. ASSUME NEW d \in Clients
       PROVE  Accounted(d)'
  BY <1>3, <1>4, <1>5, OthersAccounted DEF Answerable
<1> QED
  BY <1>10, <1>11, <1>12 DEF Answerable

-----------------------------------------------------------------------------

\* As long as no undo and no refresh has brought an older page back.
InOrder == behind = {} => Answerable

LEMMA InOrderInitially == Init => InOrder
<1> SUFFICES ASSUME Init PROVE Answerable
  BY DEF InOrder
<1>1. ASSUME NEW c \in Clients
      PROVE  Accounted(c)
  BY <1>1, WithinSelf DEF Init, Accounted, Latest, NoNotice
<1>2. net = {}
  BY DEF Init
<1> QED
  BY <1>1, <1>2 DEF Answerable, OneSaved

LEMMA InOrderStep == Inv /\ InOrder /\ [Next]_vars => InOrder'
<1> SUFFICES ASSUME Inv, InOrder, [Next]_vars, behind' = {} PROVE Answerable'
  BY DEF InOrder
<1>1. CASE UNCHANGED vars
  <2>1. Answerable /\ UNCHANGED <<stored, net, client, chosen>>
    BY <1>1 DEF InOrder, vars, history
  <2> QED
    BY <2>1 DEF Answerable, OneSaved, Accounted, Carries, Latest, client
<1>2. CASE Next
  <2>1. behind \subseteq behind'
    BY <1>2 DEF Next, Edit, ChooseLocal, Undo, SaveButton, SaveShortcut, Save, Refresh, Command,
       Reload, Serve, ServeSave, ServeRefresh, ServeCommand, Receive, ReceiveSaved,
       ReceiveConflict, ReceiveLatest, ReceiveApplied, ReceiveError, history
  <2>2. Answerable
    BY <2>1 DEF InOrder
  <2>3. ASSUME NEW c \in Clients, NEW f \in Fields, Edit(c, f) \/ ChooseLocal(c, f)
        PROVE  Answerable'
    BY <2>2, <2>3, StepAnswerableEdit, StepAnswerableChooseLocal
  <2>4. ASSUME NEW c \in Clients, Undo(c) \/ Refresh(c) \/ Command(c) \/ Reload(c)
        PROVE  Answerable'
    BY <2>2, <2>4, StepAnswerableUndo, StepAnswerableRefresh, StepAnswerableCommand,
       StepAnswerableReload
  <2>5. ASSUME NEW c \in Clients, SaveButton(c) \/ SaveShortcut(c)
        PROVE  Answerable'
    BY <2>2, <2>5, StepAnswerableSave
  <2>6. ASSUME NEW m \in net, Serve(m)
        PROVE  Answerable'
    BY <2>2, <2>6, StepAnswerableServeSave, StepAnswerableServeRefresh,
       StepAnswerableServeCommand DEF Serve
  <2>7. ASSUME NEW m \in net, Receive(m) \/ ReceiveError(m)
        PROVE  Answerable'
    BY <2>2, <2>7, StepAnswerableSaved, StepAnswerableConflict, StepAnswerableLatest,
       StepAnswerableApplied DEF Receive
  <2> QED
    BY <1>2, <2>3, <2>4, <2>5, <2>6, <2>7 DEF Next
<1> QED
  BY <1>1, <1>2

\* The request that is stored is one the browser's user can account for.
LEMMA StoringAccounts ==
    ASSUME Inv, Answerable, [Next]_vars, Latest' > Latest, NEW c \in Clients, SavedBy(c)
    PROVE  AllChosen(c)
<1>1. PICK s \in net : s.of = c /\ s.kind = "save" /\ s \notin net'
  BY DEF SavedBy
<1>2. stored' # stored
  BY StoredTyped DEF Inv, Latest
<1>3. PICK m \in net : ServeSave(m) \/ \E g \in Governed : ServeCommand(m, g)
  BY <1>2 DEF Next, vars, Edit, ChooseLocal, Undo, SaveButton, SaveShortcut, Save, Refresh, Command,
     Reload, Serve, ServeRefresh, Receive, ReceiveSaved, ReceiveConflict, ReceiveLatest,
     ReceiveApplied, ReceiveError
<1>4. net \ {m} \subseteq net'
  BY <1>3 DEF ServeSave, ServeCommand, Reply
<1>5. s = m
  BY <1>1, <1>4
<1>6. ServeSave(m)
  BY <1>1, <1>3, <1>5 DEF ServeCommand
<1>7. /\ m.revision = Latest /\ stored' = Append(stored, m.page)
      /\ m.kind = "save" /\ m.answer = "open"
  BY <1>2, <1>6 DEF ServeSave
<1>8. Within(chosen[c], Current, m.page)
  BY <1>1, <1>5, <1>7 DEF Answerable, Carries, Current
<1>9. stored'[Latest + 1] = m.page
  BY <1>7, StoredTyped DEF Inv, TypeOK, Latest
<1> QED
  BY <1>8, <1>9 DEF AllChosen, Within

\* A save takes nothing out of the store that its author has not replaced
\* knowingly, whoever else saves or merges meanwhile, however many requests a
\* browser has under way and whatever is lost or overtaken, until undo puts an
\* older page behind a newer revision or a refresh meets other requests of its
\* browser (save, refreshConflictBaseline, mergeWorkspaceConflict, PUT
\* /api/state).
THEOREM NothingTakenUnseen == Spec => NothingOverwrittenInOrder
<1>1. Inv /\ InOrder /\ [Next]_vars
        => [\A c \in Clients :
               Latest' > Latest /\ SavedBy(c) /\ behind = {} => AllChosen(c)]_vars
  BY StoringAccounts DEF InOrder
<1>2. Inv /\ InOrder /\ [Next]_vars => InOrder'
  BY InOrderStep
<1> QED
  BY <1>1, <1>2, InOrderInitially, Invariance, PTL DEF Spec, NothingOverwrittenInOrder
=============================================================================
