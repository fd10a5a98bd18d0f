-------------------------- MODULE RuleGraph_proofs --------------------------
(***************************************************************************)
(* Proofs about RuleGraph, for any graphs, rows and formulas.              *)
(*                                                                         *)
(* The loops of the scheduler are recursive functions: a loop stays in a   *)
(* set of batches that one turn does not leave (LoopStays).  So every      *)
(* invariant is such a set, and Closed says what one turn must not leave.  *)
(*                                                                         *)
(*   Once      for any graph, however changed: no value bears a mark       *)
(*             twice, and what a rule has done is done by a node that is   *)
(*             past its execution                                          *)
(*   OrderInv  on a graph that is left alone: what leads to a node has     *)
(*             ended when it starts; marks are in the order of the graph   *)
(*   SafeInv   with nobody in a hurry, too: the batch stands still while   *)
(*             a review waits, whose copies contain what the rows bear     *)
(***************************************************************************)
EXTENDS RuleGraph, SequenceTheorems, FiniteSetTheorems, WellFoundedInduction, TLAPS

-----------------------------------------------------------------------------
(* Induction and recursive functions.  The scheduler of a batch is a loop; *)
(* what it keeps is proved from what one turn keeps.                       *)

\* Every set of numbers that is not empty has a least element.
LEMMA Least ==
  ASSUME NEW T, T \subseteq Nat, T # {}
  PROVE  \E x \in T : \A y \in T : x <= y
<1> DEFINE R == {ss \in Nat \X Nat : ss[1] < ss[2]}
<1>1. IsWellFoundedOn(R, Nat)
  BY NatLessThanWellFounded, Zenon DEF OpToRel
<1>2. PICK x \in T : \A y \in T : ~(<<y, x>> \in R)
  <2> HIDE DEF R
  <2> QED
    BY <1>1, WFMin
<1>3. \A y \in T : ~(y < x)
  BY <1>2
<1> QED
  BY <1>3

\* A set of numbers that no step leaves holds every number.
LEMMA SetInduction ==
  ASSUME NEW T, 0 \in T, \A n \in Nat : n \in T => n + 1 \in T
  PROVE  Nat \subseteq T
<1> DEFINE U == {n \in Nat : n \notin T}
<1> SUFFICES ASSUME U # {} PROVE FALSE
  OBVIOUS
<1>1. PICK x \in U : \A y \in U : x <= y
  BY Least
<1>2. x # 0
  OBVIOUS
<1>3. x - 1 \in Nat /\ x = (x - 1) + 1
  BY <1>2
<1>4. x - 1 \notin U
  BY <1>1, <1>3
<1> QED
  BY <1>3, <1>4

\* f is what the first n steps make of init.
Chain(S, step, init, f, n) ==
    /\ f \in [0..n -> S]
    /\ f[0] = init
    /\ \A k \in 1..n : f[k] = step[k][f[k - 1]]

LEMMA ChainExtends ==
  ASSUME NEW S, NEW init \in S, NEW step \in [Nat -> [S -> S]], NEW n \in Nat,
         NEW f, Chain(S, step, init, f, n)
  PROVE  \E g : Chain(S, step, init, g, n + 1)
<1> DEFINE g == [k \in 0..(n + 1) |-> IF k = n + 1 THEN step[n + 1][f[n]] ELSE f[k]]
<1>1. \A k \in 0..n : f[k] \in S
  BY DEF Chain
<1>2. step[n + 1][f[n]] \in S
  BY <1>1
<1>3. ASSUME NEW k \in 0..(n + 1)
      PROVE  (IF k = n + 1 THEN step[n + 1][f[n]] ELSE f[k]) \in S
  <2>1. CASE k = n + 1
    BY <1>2, <2>1
  <2>2. CASE k # n + 1
    BY <1>1, <2>2
  <2> QED
    BY <2>1, <2>2
<1>4. g \in [0..(n + 1) -> S]
  BY <1>3
<1>5. g[0] = init
  BY DEF Chain
<1>6. ASSUME NEW k \in 1..(n + 1) PROVE g[k] = step[k][g[k - 1]]
  <2>1. CASE k = n + 1
    BY <2>1
  <2>2. CASE k # n + 1
    <3>1. k \in 1..n /\ k - 1 \in 0..n
      BY <2>2
    <3>2. g[k] = f[k] /\ g[k - 1] = f[k - 1]
      BY <3>1
    <3> QED
      BY <3>1, <3>2 DEF Chain
  <2> QED
    BY <2>1, <2>2
<1> HIDE DEF g
<1>7. Chain(S, step, init, g, n + 1)
  BY <1>4, <1>5, <1>6 DEF Chain
<1> QED
  BY <1>7

LEMMA ChainExists ==
  ASSUME NEW S, NEW init \in S, NEW step \in [Nat -> [S -> S]]
  PROVE  \A n \in Nat : \E f : Chain(S, step, init, f, n)
<1> DEFINE T == {n \in Nat : \E f : Chain(S, step, init, f, n)}
<1>1. 0 \in T
  <2> DEFINE f == [k \in 0..0 |-> init]
  <2>1. Chain(S, step, init, f, 0)
    BY DEF Chain
  <2> QED
    BY <2>1
<1>2. ASSUME NEW n \in Nat, n \in T PROVE n + 1 \in T
  <2>1. PICK f : Chain(S, step, init, f, n)
    BY <1>2
  <2> QED
    BY <2>1, ChainExtends
<1> HIDE DEF T
<1>3. Nat \subseteq T
  BY <1>1, <1>2, SetInduction
<1> QED
  BY <1>3 DEF T

LEMMA ChainUnique ==
  ASSUME NEW S, NEW init, NEW step, NEW f, NEW g, NEW n \in Nat, NEW m \in Nat,
         Chain(S, step, init, f, n), Chain(S, step, init, g, m)
  PROVE  \A k \in Nat : k <= n /\ k <= m => f[k] = g[k]
<1> DEFINE T == {k \in Nat : k <= n /\ k <= m => f[k] = g[k]}
<1>1. 0 \in T
  BY DEF Chain
<1>2. ASSUME NEW k \in Nat, k \in T PROVE k + 1 \in T
  <2> SUFFICES ASSUME k + 1 <= n, k + 1 <= m PROVE f[k + 1] = g[k + 1]
    OBVIOUS
  <2>1. f[k] = g[k]
    BY <1>2
  <2>2. k + 1 \in 1..n /\ k + 1 \in 1..m /\ (k + 1) - 1 = k
    OBVIOUS
  <2> QED
    BY <2>1, <2>2 DEF Chain
<1> HIDE DEF T
<1>3. Nat \subseteq T
  BY <1>1, <1>2, SetInduction
<1> QED
  BY <1>3 DEF T

\* h is what the steps make of init.
Endless(S, step, init, h) ==
    /\ h \in [Nat -> S]
    /\ h[0] = init
    /\ \A n \in Nat : h[n + 1] = step[n + 1][h[n]]

\* A recursive function over the numbers exists.
LEMMA Recursion ==
  ASSUME NEW S, NEW init \in S, NEW step \in [Nat -> [S -> S]]
  PROVE  \E h : Endless(S, step, init, h)
<1> DEFINE c(n) == CHOOSE f : Chain(S, step, init, f, n)
           F == [n \in Nat |-> c(n)[n]]
<1>1. ASSUME NEW n \in Nat PROVE Chain(S, step, init, c(n), n)
  BY ChainExists
<1> HIDE DEF c
<1>2. ASSUME NEW n \in Nat PROVE c(n)[n] \in S
  BY <1>1 DEF Chain
<1>3. F \in [Nat -> S]
  BY <1>2
<1>4. F[0] = init
  <2>1. c(0)[0] = init
    BY <1>1 DEF Chain
  <2> QED
    BY <2>1
<1>5. ASSUME NEW n \in Nat PROVE F[n + 1] = step[n + 1][F[n]]
  <2>1. c(n + 1)[n] = c(n)[n]
    BY <1>1, ChainUnique
  <2>2. c(n + 1)[n + 1] = step[n + 1][c(n + 1)[n]]
    <3>1. Chain(S, step, init, c(n + 1), n + 1)
      BY <1>1
    <3>2. n + 1 \in 1..(n + 1) /\ (n + 1) - 1 = n
      OBVIOUS
    <3> QED
      BY <3>1, <3>2 DEF Chain
  <2> QED
    BY <2>1, <2>2
<1> HIDE DEF F
<1>6. Endless(S, step, init, F)
  BY <1>3, <1>4, <1>5 DEF Endless
<1> QED
  BY <1>6

\* The same for a step that does not depend on the number.
LEMMA LoopExists ==
  ASSUME NEW S, NEW r \in S, NEW move \in [S -> S]
  PROVE  \E h \in [Nat -> S] :
            \A i \in Nat : h[i] = IF i = 0 THEN r ELSE move[h[i - 1]]
<1> DEFINE turns == [i \in Nat |-> move]
<1>1. turns \in [Nat -> [S -> S]]
  OBVIOUS
<1>2. \A n \in Nat : turns[n + 1] = move
  OBVIOUS
<1> HIDE DEF turns
<1>3. PICK h : Endless(S, turns, r, h)
  BY <1>1, Recursion
<1>4. h \in [Nat -> S] /\ h[0] = r /\ \A n \in Nat : h[n + 1] = turns[n + 1][h[n]]
  BY <1>3 DEF Endless
<1>5. ASSUME NEW i \in Nat, i # 0 PROVE h[i] = move[h[i - 1]]
  <2>1. i - 1 \in Nat /\ i = (i - 1) + 1
    BY <1>5
  <2> QED
    BY <1>2, <1>4, <2>1
<1> QED
  BY <1>4, <1>5

\* What starts in S and takes steps that stay in S is in S.
LEMMA LoopStays ==
  ASSUME NEW S, NEW f, f[0] \in S, \A n \in Nat : f[n] \in S => f[n + 1] \in S
  PROVE  \A n \in Nat : f[n] \in S
<1> DEFINE T == {n \in Nat : f[n] \in S}
<1>1. 0 \in T /\ \A n \in Nat : n \in T => n + 1 \in T
  OBVIOUS
<1> HIDE DEF T
<1>2. Nat \subseteq T
  BY <1>1, SetInduction
<1> QED
  BY <1>2 DEF T

\* What a turn of the scheduler keeps, the scheduler keeps.
LEMMA AdvanceStays ==
  ASSUME NEW g, IsFiniteSet(g.nodes), NEW S, NEW r \in S,
         \A s \in S : AdvanceOnce(g, s) \in S,
         \A s \in S : RefreshReadiness(g, s) \in S
  PROVE  Advance(g, r) \in S
<1> DEFINE step == [s \in S |-> AdvanceOnce(g, s)]
           Turns(f) == f = [i \in Nat |-> IF i = 0 THEN r ELSE AdvanceOnce(g, f[i - 1])]
           turn == CHOOSE f : Turns(f)
<1>1. step \in [S -> S]
  OBVIOUS
<1>2. \E f : Turns(f)
  <2>1. PICK h \in [Nat -> S] : \A i \in Nat : h[i] = IF i = 0 THEN r ELSE step[h[i - 1]]
    <3> HIDE DEF step
    <3> QED
      BY <1>1, LoopExists
  <2>2. ASSUME NEW i \in Nat
        PROVE  h[i] = IF i = 0 THEN r ELSE AdvanceOnce(g, h[i - 1])
    <3>1. i # 0 => h[i - 1] \in S
      OBVIOUS
    <3> QED
      BY <2>1, <3>1
  <2> QED
    BY <2>2
<1>3. Turns(turn)
  <2> HIDE DEF Turns
  <2> QED
    BY <1>2
<1> HIDE DEF turn
<1>4. turn[0] = r /\ \A n \in Nat : turn[n + 1] = AdvanceOnce(g, turn[n])
  <2>1. turn[0] = r
    BY <1>3
  <2>2. ASSUME NEW n \in Nat PROVE turn[n + 1] = AdvanceOnce(g, turn[n])
    <3>1. n + 1 \in Nat /\ n + 1 # 0 /\ (n + 1) - 1 = n
      OBVIOUS
    <3> QED
      BY <1>3, <3>1
  <2> QED
    BY <2>1, <2>2
<1>5. \A n \in Nat : turn[n] \in S
  BY <1>4, LoopStays
<1>6. 3 * Cardinality(g.nodes) \in Nat
  BY FS_CardinalityType
<1>7. Advance(g, r) = RefreshReadiness(g, turn[3 * Cardinality(g.nodes)])
  BY DEF Advance, turn
<1> QED
  BY <1>5, <1>6, <1>7

\* What a round of promotions keeps, promotion keeps.
LEMMA PromoteStays ==
  ASSUME NEW g, NEW S, NEW r \in S, IsFiniteSet(DOMAIN r.node),
         \A s \in S : PromoteOnce(g, s) \in S
  PROVE  Promote(g, r) \in S
<1> DEFINE step == [s \in S |-> PromoteOnce(g, s)]
           Rounds(f) == f = [i \in Nat |-> IF i = 0 THEN r ELSE PromoteOnce(g, f[i - 1])]
           round == CHOOSE f : Rounds(f)
<1>1. step \in [S -> S]
  OBVIOUS
<1>2. \E f : Rounds(f)
  <2>1. PICK h \in [Nat -> S] : \A i \in Nat : h[i] = IF i = 0 THEN r ELSE step[h[i - 1]]
    <3> HIDE DEF step
    <3> QED
      BY <1>1, LoopExists
  <2>2. ASSUME NEW i \in Nat
        PROVE  h[i] = IF i = 0 THEN r ELSE PromoteOnce(g, h[i - 1])
    <3>1. i # 0 => h[i - 1] \in S
      OBVIOUS
    <3> QED
      BY <2>1, <3>1
  <2> QED
    BY <2>2
<1>3. Rounds(round)
  <2> HIDE DEF Rounds
  <2> QED
    BY <1>2
<1> HIDE DEF round
<1>4. round[0] = r /\ \A n \in Nat : round[n + 1] = PromoteOnce(g, round[n])
  <2>1. round[0] = r
    BY <1>3
  <2>2. ASSUME NEW n \in Nat PROVE round[n + 1] = PromoteOnce(g, round[n])
    <3>1. n + 1 \in Nat /\ n + 1 # 0 /\ (n + 1) - 1 = n
      OBVIOUS
    <3> QED
      BY <1>3, <3>1
  <2> QED
    BY <2>1, <2>2
<1>5. \A n \in Nat : round[n] \in S
  BY <1>4, LoopStays
<1>6. Cardinality(DOMAIN r.node) \in Nat
  BY FS_CardinalityType
<1>7. Promote(g, r) = round[Cardinality(DOMAIN r.node)]
  BY DEF Promote, round
<1> QED
  BY <1>5, <1>6, <1>7

\* Kept goes through a sequence from its beginning.
KeepsUpTo(A, s, T, f) ==
    /\ f \in [0..Len(s) -> Seq(A)]
    /\ f[0] = <<>>
    /\ \A i \in 1..Len(s) :
          f[i] = IF s[i] \in T THEN Append(f[i - 1], s[i]) ELSE f[i - 1]
    /\ Kept(s, T) = f[Len(s)]

LEMMA KeptUpTo ==
  ASSUME NEW A, NEW s \in Seq(A), NEW T
  PROVE  \E f : KeepsUpTo(A, s, T, f)
<1> DEFINE S == Seq(A)
           more == [i \in Nat |-> [q \in S |->
                      IF i \in 1..Len(s) /\ s[i] \in T THEN Append(q, s[i]) ELSE q]]
           Keeps(f) == f = [i \in 0..Len(s) |->
                              IF i = 0 THEN <<>>
                              ELSE IF s[i] \in T THEN Append(f[i - 1], s[i])
                              ELSE f[i - 1]]
           upTo == CHOOSE f : Keeps(f)
<1>1. more \in [Nat -> [S -> S]]
  <2>1. ASSUME NEW i \in Nat, NEW q \in S
        PROVE  (IF i \in 1..Len(s) /\ s[i] \in T THEN Append(q, s[i]) ELSE q) \in S
    BY AppendProperties
  <2> QED
    BY <2>1
<1>2. <<>> \in S
  OBVIOUS
<1>3. PICK h : Endless(S, more, <<>>, h)
  <2> HIDE DEF S, more
  <2> QED
    BY <1>1, <1>2, Recursion
<1>4. h \in [Nat -> S] /\ h[0] = <<>> /\ \A n \in Nat : h[n + 1] = more[n + 1][h[n]]
  <2> HIDE DEF S, more
  <2> QED
    BY <1>3 DEF Endless
<1> DEFINE f == [i \in 0..Len(s) |-> h[i]]
<1>5. f \in [0..Len(s) -> S]
  BY <1>4
<1>6. ASSUME NEW i \in 1..Len(s)
      PROVE  f[i] = IF s[i] \in T THEN Append(f[i - 1], s[i]) ELSE f[i - 1]
  <2>1. i - 1 \in Nat /\ (i - 1) + 1 = i /\ i - 1 \in 0..Len(s)
    OBVIOUS
  <2>2. h[i] = more[i][h[i - 1]]
    <3> HIDE DEF more
    <3> QED
      BY <1>4, <2>1
  <2>3. h[i - 1] \in S
    BY <1>4, <2>1
  <2>4. h[i] = IF s[i] \in T THEN Append(h[i - 1], s[i]) ELSE h[i - 1]
    <3> HIDE DEF S
    <3> QED
      BY <2>1, <2>2, <2>3
  <2> QED
    BY <2>1, <2>4
<1>7. Keeps(f)
  <2>1. ASSUME NEW i \in 0..Len(s)
        PROVE  f[i] = IF i = 0 THEN <<>>
                      ELSE IF s[i] \in T THEN Append(f[i - 1], s[i])
                      ELSE f[i - 1]
    <3>1. CASE i = 0
      BY <1>4, <3>1
    <3>2. CASE i # 0
      <4> HIDE DEF f
      <4> QED
        BY <1>6, <3>2
    <3> QED
      BY <3>1, <3>2
  <2>2. f = [i \in 0..Len(s) |-> f[i]]
    OBVIOUS
  <2> HIDE DEF f
  <2> QED
    BY <2>1, <2>2
<1>8. Keeps(upTo)
  <2> HIDE DEF f, Keeps
  <2> QED
    BY <1>7
<1> HIDE DEF f, upTo
<1>9. upTo = [i \in 0..Len(s) |->
                IF i = 0 THEN <<>>
                ELSE IF s[i] \in T THEN Append(upTo[i - 1], s[i])
                ELSE upTo[i - 1]]
  BY <1>8
<1>10. upTo[0] = <<>>
  BY <1>9
<1>11. ASSUME NEW i \in 1..Len(s)
       PROVE  upTo[i] = IF s[i] \in T THEN Append(upTo[i - 1], s[i]) ELSE upTo[i - 1]
  <2>1. i \in 0..Len(s) /\ i # 0
    OBVIOUS
  <2> HIDE DEF more, Keeps
  <2> QED
    BY <1>9, <2>1
<1> DEFINE U == {i \in Nat : i <= Len(s) => upTo[i] \in Seq(A)}
<1>12. 0 \in U
  <2>1. <<>> \in Seq(A)
    OBVIOUS
  <2> QED
    BY <1>10, <2>1
<1>13. ASSUME NEW i \in Nat, i \in U PROVE i + 1 \in U
  <2> SUFFICES ASSUME i + 1 <= Len(s) PROVE upTo[i + 1] \in Seq(A)
    OBVIOUS
  <2>1. upTo[i] \in Seq(A)
    BY <1>13
  <2>2. i + 1 \in 1..Len(s) /\ (i + 1) - 1 = i
    OBVIOUS
  <2>3. s[i + 1] \in A
    BY <2>2
  <2>4. Append(upTo[i], s[i + 1]) \in Seq(A)
    BY <2>1, <2>3
  <2> QED
    BY <1>11, <2>1, <2>2, <2>4
<1>14. Nat \subseteq U
  <2> HIDE DEF U
  <2> QED
    BY <1>12, <1>13, SetInduction
<1>15. \A i \in 0..Len(s) : upTo[i] \in Seq(A)
  BY <1>14
<1>16. upTo \in [0..Len(s) -> Seq(A)]
  BY <1>9, <1>15
<1>17. Kept(s, T) = upTo[Len(s)]
  BY DEF Kept, upTo
<1>18. KeepsUpTo(A, s, T, upTo)
  BY <1>10, <1>11, <1>16, <1>17 DEF KeepsUpTo
<1> QED
  BY <1>18

LEMMA KeptType ==
  ASSUME NEW A, NEW s \in Seq(A), NEW T
  PROVE  /\ Kept(s, T) \in Seq(A)
         /\ ToSet(Kept(s, T)) \subseteq T
<1>0. PICK f : KeepsUpTo(A, s, T, f)
  BY KeptUpTo
<1>1. /\ f \in [0..Len(s) -> Seq(A)]
      /\ f[0] = <<>>
      /\ \A i \in 1..Len(s) :
            f[i] = IF s[i] \in T THEN Append(f[i - 1], s[i]) ELSE f[i - 1]
      /\ Kept(s, T) = f[Len(s)]
  BY <1>0 DEF KeepsUpTo
<1> DEFINE U == {i \in Nat : i <= Len(s) => \A k \in 1..Len(f[i]) : f[i][k] \in T}
<1>2. 0 \in U
  BY <1>1
<1>3. ASSUME NEW i \in Nat, i \in U PROVE i + 1 \in U
  <2> SUFFICES ASSUME i + 1 <= Len(s), NEW k \in 1..Len(f[i + 1]) PROVE f[i + 1][k] \in T
    OBVIOUS
  <2>1. i + 1 \in 1..Len(s) /\ (i + 1) - 1 = i /\ i \in 0..Len(s)
    OBVIOUS
  <2>2. f[i + 1] = IF s[i + 1] \in T THEN Append(f[i], s[i + 1]) ELSE f[i]
    BY <1>1, <2>1
  <2>3. f[i] \in Seq(A) /\ \A j \in 1..Len(f[i]) : f[i][j] \in T
    BY <1>1, <1>3, <2>1
  <2>4. CASE s[i + 1] \in T
    BY <2>2, <2>3, <2>4
  <2>5. CASE s[i + 1] \notin T
    BY <2>2, <2>3, <2>5
  <2> QED
    BY <2>4, <2>5
<1>4. Nat \subseteq U
  <2> HIDE DEF U
  <2> QED
    BY <1>2, <1>3, SetInduction
<1>5. Len(s) \in U /\ f[Len(s)] \in Seq(A)
  BY <1>1, <1>4
<1>6. \A k \in 1..Len(Kept(s, T)) : Kept(s, T)[k] \in T
  BY <1>1, <1>5
<1> QED
  BY <1>1, <1>5, <1>6 DEF ToSet

LEMMA KeptAll ==
  ASSUME NEW A, NEW s \in Seq(A), NEW T, ToSet(s) \subseteq T
  PROVE  Kept(s, T) = s
<1>0. PICK f : KeepsUpTo(A, s, T, f)
  BY KeptUpTo
<1>1. /\ f \in [0..Len(s) -> Seq(A)]
      /\ f[0] = <<>>
      /\ \A i \in 1..Len(s) :
            f[i] = IF s[i] \in T THEN Append(f[i - 1], s[i]) ELSE f[i - 1]
      /\ Kept(s, T) = f[Len(s)]
  BY <1>0 DEF KeepsUpTo
<1>2. \A i \in 1..Len(s) : s[i] \in T
  BY DEF ToSet
<1> DEFINE U == {i \in Nat : i <= Len(s) => Len(f[i]) = i /\ \A k \in 1..i : f[i][k] = s[k]}
<1>3. 0 \in U
  BY <1>1
<1>4. ASSUME NEW i \in Nat, i \in U PROVE i + 1 \in U
  <2> SUFFICES ASSUME i + 1 <= Len(s)
               PROVE  Len(f[i + 1]) = i + 1 /\ \A k \in 1..(i + 1) : f[i + 1][k] = s[k]
    OBVIOUS
  <2>1. i + 1 \in 1..Len(s) /\ (i + 1) - 1 = i /\ i \in 0..Len(s)
    OBVIOUS
  <2>2. f[i + 1] = Append(f[i], s[i + 1])
    BY <1>1, <1>2, <2>1
  <2>3. f[i] \in Seq(A) /\ Len(f[i]) = i /\ \A k \in 1..i : f[i][k] = s[k]
    BY <1>1, <1>4, <2>1
  <2> QED
    BY <2>1, <2>2, <2>3
<1>5. Nat \subseteq U
  <2> HIDE DEF U
  <2> QED
    BY <1>3, <1>4, SetInduction
<1>6. Len(s) \in U /\ f[Len(s)] \in Seq(A)
  BY <1>1, <1>5
<1>7. Len(f[Len(s)]) = Len(s) /\ \A k \in 1..Len(s) : f[Len(s)][k] = s[k]
  BY <1>6
<1> QED
  BY <1>1, <1>6, <1>7, SeqEqual

-----------------------------------------------------------------------------
(* What the operators return.                                              *)

\* Min and Max of the community modules are what they should be.
LEMMA MinIsMember ==
  ASSUME NEW T \in SUBSET Nat, T # {}
  PROVE  Min(T) \in T
<1>1. \E x \in T : \A y \in T : x <= y
  BY Least
<1> QED
  BY <1>1 DEF Min

LEMMA MaxIsMember ==
  ASSUME NEW n \in Nat, NEW T \in SUBSET (1..n), T # {}
  PROVE  Max(T) \in T
<1> DEFINE U == {n - x : x \in T}
<1>1. U \subseteq Nat /\ U # {}
  <2>1. \A x \in T : x \in Nat /\ n - x \in Nat
    OBVIOUS
  <2> QED
    BY <2>1
<1>2. PICK u \in U : \A v \in U : u <= v
  BY <1>1, Least
<1>3. PICK x \in T : u = n - x
  OBVIOUS
<1>4. ASSUME NEW y \in T PROVE x >= y
  <2>1. n - y \in U /\ x \in Nat /\ y \in Nat
    OBVIOUS
  <2>2. n - x <= n - y
    BY <1>2, <1>3, <2>1
  <2> QED
    BY <2>1, <2>2
<1> QED
  BY <1>4 DEF Max

LEMMA ActiveIsWaiting ==
  ASSUME NEW N, NEW r \in RunsOn(N)
  PROVE  /\ Active(r) # 0 => Active(r) \in Waiting(r)
         /\ Active(r) = 0 => Waiting(r) = {}
         /\ Waiting(r) \subseteq 1..Len(r.snapshots)
<1>1. r.snapshots \in Seq(Snapshots)
  BY DEF RunsOn
<1>2. Waiting(r) \in SUBSET (1..Len(r.snapshots)) /\ Len(r.snapshots) \in Nat
  BY <1>1 DEF Waiting
<1>3. Waiting(r) # {} => Max(Waiting(r)) \in Waiting(r)
  BY <1>2, MaxIsMember
<1>4. 0 \notin Waiting(r)
  BY <1>2
<1> QED
  BY <1>2, <1>3, <1>4 DEF Active

LEMMA MergedType ==
  ASSUME NEW s \in Seq(Rows), NEW t \in Seq(Rows)
  PROVE  Merged(s, t) \in Seq(Rows)
<1>1. Kept(t, ToSet(t) \ ToSet(s)) \in Seq(Rows)
  BY KeptType
<1> QED
  BY <1>1 DEF Merged

\* What one batch keeps of another, apart from the nodes.
SameRows(r, p) == p.rows = r.rows /\ p.snapshots = r.snapshots

\* Sending rows on changes what other nodes have received, and nothing else.
Sent(g, N, r, n, p) ==
    /\ p \in RunsOn(N)
    /\ SameRows(r, p) /\ p.status = r.status
    /\ \A m \in N : /\ p.node[m].status = r.node[m].status
                    /\ p.node[m].output = r.node[m].output
                    /\ <<n, m>> \notin DOMAIN g.edges => p.node[m] = r.node[m]

LEMMA PropagateType ==
  ASSUME NEW g, IsGraph(g), NEW N, NEW r \in RunsOn(N), NEW n,
         NEW output, \A o \in Outcomes : output[o] \in Seq(Rows)
  PROVE  Sent(g, N, r, n, Propagate(g, r, n, output))
<1> DEFINE p == Propagate(g, r, n, output)
<1> DEFINE received(m) == IF <<n, m>> \in DOMAIN g.edges
                          THEN Merged(r.node[m].input, output[g.edges[<<n, m>>]])
                          ELSE r.node[m].input
           new(m) == [r.node[m] EXCEPT !.input = received(m)]
<1>1. /\ r.node \in [N -> NodeStates]
      /\ DOMAIN r = {"status", "node", "rows", "snapshots"}
  BY DEF RunsOn
<1>2. p = [r EXCEPT !.node = [m \in N |-> new(m)]]
  BY <1>1 DEF Propagate
<1> HIDE DEF p
<1>3. ASSUME NEW m \in N
      PROVE  /\ new(m) \in NodeStates
             /\ new(m).status = r.node[m].status
             /\ new(m).output = r.node[m].output
             /\ <<n, m>> \notin DOMAIN g.edges => new(m) = r.node[m]
  <2>1. r.node[m] \in NodeStates
    BY <1>1
  <2>2. received(m) \in Seq(Rows)
    <3>1. CASE <<n, m>> \in DOMAIN g.edges
      <4>1. g.edges[<<n, m>>] \in Outcomes
        BY <3>1 DEF IsGraph
      <4>2. Merged(r.node[m].input, output[g.edges[<<n, m>>]]) \in Seq(Rows)
        BY <2>1, <4>1, MergedType DEF NodeStates
      <4> QED
        BY <3>1, <4>2
    <3>2. CASE <<n, m>> \notin DOMAIN g.edges
      BY <2>1, <3>2 DEF NodeStates
    <3> QED
      BY <3>1, <3>2
  <2>3. <<n, m>> \notin DOMAIN g.edges => received(m) = r.node[m].input
    OBVIOUS
  <2> HIDE DEF received
  <2> QED
    BY <2>1, <2>2, <2>3 DEF NodeStates
<1> HIDE DEF new
<1>4. [m \in N |-> new(m)] \in [N -> NodeStates]
  BY <1>3
<1>5. p \in RunsOn(N)
  BY <1>2, <1>4 DEF RunsOn
<1>6. /\ p.status = r.status /\ p.rows = r.rows /\ p.snapshots = r.snapshots
      /\ p.node = [m \in N |-> new(m)]
  BY <1>1, <1>2
<1>7. Sent(g, N, r, n, p)
  BY <1>3, <1>5, <1>6 DEF Sent, SameRows
<1> QED
  BY <1>7 DEF p

\* A round of promotions changes the status of nodes that were pending.
Promoted(g, N, r, p) ==
    /\ p \in RunsOn(N)
    /\ SameRows(r, p) /\ p.status = r.status
    /\ \A m \in N : /\ p.node[m].input = r.node[m].input
                    /\ p.node[m].output = r.node[m].output
                    /\ m \notin Promotable(g, r) => p.node[m].status = r.node[m].status
                    /\ m \in Promotable(g, r) =>
                          /\ r.node[m].status = "pending"
                          /\ PredecessorsDone(g, r, m)
                          /\ p.node[m].status = IF r.node[m].input = <<>>
                                                THEN "skipped" ELSE "ready"

LEMMA PromoteOnceType ==
  ASSUME NEW g, NEW N, NEW r \in RunsOn(N)
  PROVE  Promoted(g, N, r, PromoteOnce(g, r))
<1> DEFINE p == PromoteOnce(g, r)
<1> DEFINE after(m) == IF m \notin Promotable(g, r) THEN r.node[m].status
                       ELSE IF r.node[m].input = <<>> THEN "skipped" ELSE "ready"
           new(m) == [r.node[m] EXCEPT !.status = after(m)]
<1>1. /\ r.node \in [N -> NodeStates]
      /\ DOMAIN r = {"status", "node", "rows", "snapshots"}
  BY DEF RunsOn
<1>2. p = [r EXCEPT !.node = [m \in N |-> new(m)]]
  BY <1>1 DEF PromoteOnce
<1> HIDE DEF p
<1>3. ASSUME NEW m \in N
      PROVE  /\ new(m) \in NodeStates
             /\ new(m).input = r.node[m].input
             /\ new(m).output = r.node[m].output
             /\ new(m).status = after(m)
  <2>1. r.node[m] \in NodeStates
    BY <1>1
  <2>2. after(m) \in {"pending", "ready", "running", "waiting_review", "completed",
                      "failed", "skipped"}
    BY <2>1 DEF NodeStates
  <2> HIDE DEF after
  <2> QED
    BY <2>1, <2>2 DEF NodeStates
<1>4. ASSUME NEW m \in Promotable(g, r)
      PROVE  r.node[m].status = "pending" /\ PredecessorsDone(g, r, m)
  BY DEF Promotable
<1> HIDE DEF new
<1>5. [m \in N |-> new(m)] \in [N -> NodeStates]
  BY <1>3
<1>6. p \in RunsOn(N)
  BY <1>2, <1>5 DEF RunsOn
<1>7. /\ p.status = r.status /\ p.rows = r.rows /\ p.snapshots = r.snapshots
      /\ p.node = [m \in N |-> new(m)]
  BY <1>1, <1>2
<1>8. Promoted(g, N, r, p)
  BY <1>3, <1>4, <1>6, <1>7 DEF Promoted, SameRows
<1> QED
  BY <1>8 DEF p

LEMMA RunStatusType ==
  ASSUME NEW N, NEW r \in RunsOn(N)
  PROVE  /\ RunStatus(r) \in {"ready", "running", "waiting_review", "paused", "completed"}
         /\ \A m \in N : r.node[m].status = "waiting_review" => RunStatus(r) = "waiting_review"
<1>1. DOMAIN r.node = N
  BY DEF RunsOn
<1> QED
  BY <1>1 DEF RunStatus

\* Promotion and the new status leave rows and snapshots alone.
Refreshed(N, r, p) ==
    /\ p \in RunsOn(N)
    /\ SameRows(r, p)
    /\ \A m \in N : /\ p.node[m].input = r.node[m].input
                    /\ p.node[m].output = r.node[m].output
                    /\ \/ p.node[m].status = r.node[m].status
                       \/ /\ r.node[m].status = "pending"
                          /\ p.node[m].status \in {"skipped", "ready"}

LEMMA PromoteType ==
  ASSUME NEW g, NEW N, IsFiniteSet(N), NEW r \in RunsOn(N)
  PROVE  Refreshed(N, r, Promote(g, r))
<1> DEFINE S == {s \in RunsOn(N) : Refreshed(N, r, s)}
<1>1. r \in S
  BY DEF Refreshed, SameRows
<1>2. ASSUME NEW s \in S PROVE PromoteOnce(g, s) \in S
  <2>1. s \in RunsOn(N) /\ Refreshed(N, r, s)
    OBVIOUS
  <2>2. Promoted(g, N, s, PromoteOnce(g, s))
    BY <2>1, PromoteOnceType
  <2>3. Refreshed(N, r, PromoteOnce(g, s))
    BY <2>1, <2>2 DEF Refreshed, Promoted, SameRows
  <2> QED
    BY <2>3 DEF Refreshed
<1>3. IsFiniteSet(DOMAIN r.node)
  BY DEF RunsOn
<1>4. Promote(g, r) \in S
  <2> HIDE DEF S
  <2> QED
    BY <1>1, <1>2, <1>3, PromoteStays
<1> QED
  BY <1>4

LEMMA RefreshType ==
  ASSUME NEW g, NEW N, IsFiniteSet(N), NEW r \in RunsOn(N)
  PROVE  /\ Refreshed(N, r, RefreshReadiness(g, r))
         /\ RefreshReadiness(g, r).node = Promote(g, r).node
         /\ \A m \in N : RefreshReadiness(g, r).node[m].status = "waiting_review" =>
                             RefreshReadiness(g, r).status = "waiting_review"
<1> DEFINE p == RefreshReadiness(g, r)
           q == Promote(g, r)
<1>1. Refreshed(N, r, q)
  BY PromoteType
<1>2. p = [q EXCEPT !.status = RunStatus(q)]
  BY DEF RefreshReadiness
<1> HIDE DEF p, q
<1>3. q \in RunsOn(N)
  BY <1>1 DEF Refreshed
<1>4. /\ RunStatus(q) \in {"ready", "running", "waiting_review", "paused", "completed"}
      /\ \A m \in N : q.node[m].status = "waiting_review" => RunStatus(q) = "waiting_review"
  BY <1>3, RunStatusType
<1>5. /\ p \in RunsOn(N)
      /\ SameRows(q, p) /\ p.node = q.node
      /\ p.status = RunStatus(q)
  BY <1>2, <1>3, <1>4 DEF RunsOn, SameRows
<1>6. Refreshed(N, r, p)
  BY <1>1, <1>5 DEF Refreshed, SameRows
<1> QED
  BY <1>4, <1>5, <1>6 DEF p, q

LEMMA EffectType ==
  ASSUME NEW kind, NEW n \in Nodes, NEW value \in Seq(Marks)
  PROVE  Effect(kind, n, value) \in Seq(Marks)
<1>1. <<"rule", n>> \in Marks
  BY DEF Marks
<1>2. Append(value, <<"rule", n>>) \in Seq(Marks)
  BY <1>1
<1>3. <<>> \in Seq(Marks)
  OBVIOUS
<1> QED
  BY <1>2, <1>3 DEF Effect

LEMMA ReachedRows ==
  ASSUME NEW g, NEW N, NEW r \in RunsOn(N), NEW n \in N
  PROVE  /\ ToSet(r.node[n].input) \subseteq Rows
         /\ Reached(g, r, n) \subseteq ToSet(r.node[n].input)
         /\ (\A x \in ToSet(r.node[n].input) : ~Throws(g, n, x)) =>
                Reached(g, r, n) = ToSet(r.node[n].input)
<1>1. r.node[n].input \in Seq(Rows)
  BY DEF RunsOn, NodeStates
<1> DEFINE input == r.node[n].input
<1>2. /\ input \in Seq(Rows) /\ DOMAIN input = 1..Len(input) /\ Len(input) \in Nat
      /\ Reached(g, r, n) =
            {input[i] : i \in {k \in DOMAIN input : \A j \in 1..k : ~Throws(g, n, input[j])}}
      /\ ToSet(input) = {input[i] : i \in DOMAIN input}
  BY <1>1 DEF Reached, ToSet
<1> HIDE DEF input
<1>3. ToSet(input) \subseteq Rows /\ Reached(g, r, n) \subseteq ToSet(input)
  BY <1>2
<1>4. ASSUME \A x \in ToSet(input) : ~Throws(g, n, x)
      PROVE  ToSet(input) \subseteq Reached(g, r, n)
  <2>1. \A j \in DOMAIN input : ~Throws(g, n, input[j])
    BY <1>2, <1>4
  <2>2. \A k \in DOMAIN input : \A j \in 1..k : ~Throws(g, n, input[j])
    BY <1>2, <2>1
  <2> QED
    BY <1>2, <2>2
<1> QED
  BY <1>3, <1>4 DEF input

\* A node changes the rows it reaches.
RowsChanged(g, N, r, n, p) ==
    /\ p \in RunsOn(N)
    /\ p.node = r.node /\ p.status = r.status /\ p.snapshots = r.snapshots
    /\ \A x \in Rows : p.rows[x] = IF x \in Reached(g, r, n)
                                   THEN Effect(g.kind[n], n, r.rows[x]) ELSE r.rows[x]

LEMMA ChangedType ==
  ASSUME NEW g, NEW N, NEW r \in RunsOn(N), NEW n \in Nodes
  PROVE  RowsChanged(g, N, r, n, Changed(g, r, n))
<1> DEFINE p == Changed(g, r, n)
           new(x) == IF x \in Reached(g, r, n) THEN Effect(g.kind[n], n, r.rows[x])
                     ELSE r.rows[x]
<1>1. /\ r.rows \in [Rows -> Seq(Marks)]
      /\ DOMAIN r = {"status", "node", "rows", "snapshots"}
  BY DEF RunsOn
<1>2. p = [r EXCEPT !.rows = [x \in Rows |-> new(x)]]
  BY DEF Changed
<1> HIDE DEF p
<1>3. ASSUME NEW x \in Rows PROVE new(x) \in Seq(Marks)
  <2>1. r.rows[x] \in Seq(Marks)
    BY <1>1
  <2>2. Effect(g.kind[n], n, r.rows[x]) \in Seq(Marks)
    BY <2>1, EffectType
  <2> QED
    BY <2>1, <2>2
<1>4. \A x \in Rows : new(x) = IF x \in Reached(g, r, n)
                               THEN Effect(g.kind[n], n, r.rows[x]) ELSE r.rows[x]
  OBVIOUS
<1> HIDE DEF new
<1>5. [x \in Rows |-> new(x)] \in [Rows -> Seq(Marks)]
  BY <1>3
<1>6. p \in RunsOn(N)
  BY <1>2, <1>5 DEF RunsOn
<1>7. /\ p.node = r.node /\ p.status = r.status /\ p.snapshots = r.snapshots
      /\ p.rows = [x \in Rows |-> new(x)]
  BY <1>1, <1>2
<1>8. RowsChanged(g, N, r, n, p)
  BY <1>4, <1>6, <1>7 DEF RowsChanged
<1> QED
  BY <1>8 DEF p

\* Only the status of one node, and of the batch, has changed.
StatusSet(N, r, n, status, batch, p) ==
    /\ p \in RunsOn(N)
    /\ SameRows(r, p) /\ p.status = batch
    /\ \A m \in N : /\ p.node[m].input = r.node[m].input
                    /\ p.node[m].output = r.node[m].output
                    /\ p.node[m].status = IF m = n THEN status ELSE r.node[m].status

BatchStatus == {"ready", "running", "waiting_review", "paused", "completed", "failed"}
NodeStatus == {"pending", "ready", "running", "waiting_review", "completed", "failed", "skipped"}

LEMMA StatusType ==
  ASSUME NEW N, NEW r \in RunsOn(N), NEW n \in N, NEW status \in NodeStatus,
         NEW batch \in BatchStatus
  PROVE  StatusSet(N, r, n, status, batch,
                   [r EXCEPT !.node[n].status = status, !.status = batch])
<1> DEFINE p == [r EXCEPT !.node[n].status = status, !.status = batch]
           node == [r.node EXCEPT ![n].status = status]
<1>1. /\ r.node \in [N -> NodeStates]
      /\ DOMAIN r = {"status", "node", "rows", "snapshots"}
  BY DEF RunsOn
<1>2. ASSUME NEW m \in N
      PROVE  /\ node[m] \in NodeStates
             /\ node[m].input = r.node[m].input
             /\ node[m].output = r.node[m].output
             /\ node[m].status = IF m = n THEN status ELSE r.node[m].status
  <2>1. r.node[m] \in NodeStates
    BY <1>1
  <2>2. node[m] = IF m = n THEN [r.node[m] EXCEPT !.status = status] ELSE r.node[m]
    BY <1>1
  <2> HIDE DEF node
  <2> QED
    BY <2>1, <2>2 DEF NodeStates, NodeStatus
<1>3. node = [m \in N |-> node[m]]
  BY <1>1
<1>4. p.node = node /\ p.status = batch /\ p.rows = r.rows /\ p.snapshots = r.snapshots
      /\ DOMAIN p = {"status", "node", "rows", "snapshots"}
      /\ p = [r EXCEPT !.node = node, !.status = batch]
  BY <1>1
<1> HIDE DEF p, node
<1>5. node \in [N -> NodeStates]
  BY <1>2, <1>3
<1>6. p \in RunsOn(N)
  BY <1>4, <1>5 DEF RunsOn, BatchStatus
<1>7. StatusSet(N, r, n, status, batch, p)
  BY <1>2, <1>4, <1>6 DEF StatusSet, SameRows
<1> QED
  BY <1>7 DEF p

\* What a review freezes.
CopyOf(r, n) ==
    [node |-> n, status |-> "waiting", ids |-> r.node[n].input,
     rows |-> [x \in Rows |-> IF x \in ToSet(r.node[n].input) THEN r.rows[x] ELSE <<>>]]

Frozen(N, r, n, p) ==
    /\ p \in RunsOn(N)
    /\ p.rows = r.rows /\ p.status = "waiting_review"
    /\ \A m \in N : /\ p.node[m].input = r.node[m].input
                    /\ p.node[m].output = r.node[m].output
                    /\ p.node[m].status = IF m = n THEN "waiting_review"
                                          ELSE r.node[m].status
    /\ ToSet(p.snapshots) \subseteq ToSet(r.snapshots) \cup {CopyOf(r, n)}
    /\ (\A s \in ToSet(r.snapshots) : s.node # n \/ s.status # "waiting") =>
           p.snapshots = Append(r.snapshots, CopyOf(r, n))

LEMMA CopyType ==
  ASSUME NEW N \in SUBSET Nodes, NEW r \in RunsOn(N), NEW n \in N
  PROVE  CopyOf(r, n) \in Snapshots
<1>1. r.node[n].input \in Seq(Rows) /\ r.rows \in [Rows -> Seq(Marks)]
  BY DEF RunsOn, NodeStates
<1> DEFINE value(x) == IF x \in ToSet(r.node[n].input) THEN r.rows[x] ELSE <<>>
<1>2. ASSUME NEW x \in Rows PROVE value(x) \in Seq(Marks)
  <2>1. <<>> \in Seq(Marks) /\ r.rows[x] \in Seq(Marks)
    BY <1>1
  <2> QED
    BY <2>1
<1>3. CopyOf(r, n) = [node |-> n, status |-> "waiting", ids |-> r.node[n].input,
                      rows |-> [x \in Rows |-> value(x)]]
  BY DEF CopyOf
<1> HIDE DEF value
<1>4. [x \in Rows |-> value(x)] \in [Rows -> Seq(Marks)]
  BY <1>2
<1> QED
  BY <1>1, <1>3, <1>4 DEF Snapshots

LEMMA FreezeType ==
  ASSUME NEW N \in SUBSET Nodes, NEW r \in RunsOn(N), NEW n \in N
  PROVE  Frozen(N, r, n, Freeze(r, n))
<1> DEFINE p == Freeze(r, n)
           others == {s \in ToSet(r.snapshots) : s.node # n \/ s.status # "waiting"}
           kept == Append(Kept(r.snapshots, others), CopyOf(r, n))
           q == [r EXCEPT !.node[n].status = "waiting_review", !.status = "waiting_review"]
<1>1. /\ r.snapshots \in Seq(Snapshots)
      /\ DOMAIN r = {"status", "node", "rows", "snapshots"}
      /\ r.node \in [N -> NodeStates]
  BY DEF RunsOn
<1>2. p = [r EXCEPT !.snapshots = kept,
                    !.node[n].status = "waiting_review", !.status = "waiting_review"]
  BY DEF Freeze, CopyOf
<1>3. CopyOf(r, n) \in Snapshots
  BY CopyType
<1>4. /\ Kept(r.snapshots, others) \in Seq(Snapshots)
      /\ ToSet(Kept(r.snapshots, others)) \subseteq others
  <2> HIDE DEF others
  <2> QED
    BY <1>1, KeptType
<1>5. kept \in Seq(Snapshots)
  BY <1>3, <1>4
<1>6. ToSet(kept) \subseteq ToSet(r.snapshots) \cup {CopyOf(r, n)}
  <2> SUFFICES ASSUME NEW i \in 1..Len(kept)
               PROVE  kept[i] \in ToSet(r.snapshots) \cup {CopyOf(r, n)}
    BY <1>5 DEF ToSet
  <2> DEFINE c == Kept(r.snapshots, others)
  <2>1. c \in Seq(Snapshots) /\ ToSet(c) \subseteq ToSet(r.snapshots)
    BY <1>4
  <2>2. kept = Append(c, CopyOf(r, n))
    OBVIOUS
  <2> HIDE DEF kept, c
  <2>3. CASE i = Len(c) + 1
    BY <2>1, <2>2, <2>3
  <2>4. CASE i # Len(c) + 1
    <3>1. i \in 1..Len(c) /\ kept[i] = c[i]
      BY <2>1, <2>2, <2>4
    <3>2. c[i] \in ToSet(c)
      BY <2>1, <3>1 DEF ToSet
    <3> QED
      BY <2>1, <3>1, <3>2
  <2> QED
    BY <2>3, <2>4
<1>7. (\A s \in ToSet(r.snapshots) : s.node # n \/ s.status # "waiting") =>
          kept = Append(r.snapshots, CopyOf(r, n))
  <2> SUFFICES ASSUME \A s \in ToSet(r.snapshots) : s.node # n \/ s.status # "waiting"
               PROVE  Kept(r.snapshots, others) = r.snapshots
    OBVIOUS
  <2>1. ToSet(r.snapshots) \subseteq others
    OBVIOUS
  <2> HIDE DEF others
  <2> QED
    BY <1>1, <2>1, KeptAll
<1> HIDE DEF p, kept
<1>8. StatusSet(N, r, n, "waiting_review", "waiting_review", q)
  BY StatusType DEF NodeStatus, BatchStatus
<1>9. /\ p.node = q.node /\ p.status = q.status /\ p.rows = r.rows /\ p.snapshots = kept
      /\ p = [q EXCEPT !.snapshots = kept]
  BY <1>1, <1>2
<1> HIDE DEF q
<1>10. p \in RunsOn(N)
  BY <1>5, <1>8, <1>9 DEF StatusSet, RunsOn
<1>11. Frozen(N, r, n, p)
  BY <1>6, <1>7, <1>8, <1>9, <1>10 DEF Frozen, StatusSet
<1> QED
  BY <1>11 DEF p

\* A node that finishes is completed, what it has received is its output, and it
\* sends rows on.
Finished(g, N, r, n, p) ==
    /\ p \in RunsOn(N)
    /\ SameRows(r, p) /\ p.status = r.status
    /\ \A m \in N : /\ p.node[m].status = IF m = n THEN "completed" ELSE r.node[m].status
                    /\ p.node[m].output = IF m = n THEN r.node[n].input
                                          ELSE r.node[m].output
                    /\ <<n, m>> \notin DOMAIN g.edges =>
                           p.node[m].input = r.node[m].input

\* A node is completed with the given output.
Completed(N, r, n, output, p) ==
    /\ p \in RunsOn(N)
    /\ SameRows(r, p) /\ p.status = r.status
    /\ \A m \in N : /\ p.node[m].status = IF m = n THEN "completed" ELSE r.node[m].status
                    /\ p.node[m].output = IF m = n THEN output ELSE r.node[m].output
                    /\ p.node[m].input = r.node[m].input

LEMMA CompletedType ==
  ASSUME NEW N, NEW r \in RunsOn(N), NEW n, NEW output \in Seq(Rows)
  PROVE  Completed(N, r, n, output,
                   [r EXCEPT !.node[n].status = "completed", !.node[n].output = output])
<1> DEFINE p == [r EXCEPT !.node[n].status = "completed", !.node[n].output = output]
           node1 == [r.node EXCEPT ![n].status = "completed"]
           node == [node1 EXCEPT ![n].output = output]
<1>1. /\ r.node \in [N -> NodeStates]
      /\ DOMAIN r = {"status", "node", "rows", "snapshots"}
  BY DEF RunsOn
<1>2. ASSUME NEW m \in N
      PROVE  /\ node[m] \in NodeStates
             /\ node[m].input = r.node[m].input
             /\ node[m].output = IF m = n THEN output ELSE r.node[m].output
             /\ node[m].status = IF m = n THEN "completed" ELSE r.node[m].status
  <2>1. r.node[m] \in NodeStates
    BY <1>1
  <2>2. node1[m] = IF m = n THEN [r.node[m] EXCEPT !.status = "completed"] ELSE r.node[m]
    BY <1>1
  <2>3. node[m] = IF m = n THEN [node1[m] EXCEPT !.output = output] ELSE node1[m]
    BY <1>1
  <2> HIDE DEF node, node1
  <2>4. node1[m] \in NodeStates /\ node1[m].input = r.node[m].input
        /\ node1[m].output = r.node[m].output
        /\ node1[m].status = IF m = n THEN "completed" ELSE r.node[m].status
    BY <2>1, <2>2 DEF NodeStates
  <2> QED
    BY <2>3, <2>4 DEF NodeStates
<1>3. node = [m \in N |-> node[m]]
  BY <1>1
<1>4. p.node = node /\ p.status = r.status /\ p.rows = r.rows /\ p.snapshots = r.snapshots
      /\ p = [r EXCEPT !.node = node]
  BY <1>1
<1> HIDE DEF p, node
<1>5. node \in [N -> NodeStates]
  BY <1>2, <1>3
<1>6. p \in RunsOn(N)
  BY <1>4, <1>5 DEF RunsOn
<1>7. Completed(N, r, n, output, p)
  BY <1>2, <1>4, <1>6 DEF Completed, SameRows
<1> QED
  BY <1>7 DEF p

LEMMA OutputType ==
  ASSUME NEW all \in Seq(Rows), NEW hit \in Seq(Rows), NEW miss \in Seq(Rows)
  PROVE  \A o \in Outcomes : Output(all, hit, miss)[o] \in Seq(Rows)
BY DEF Output, Outcomes

LEMMA FinishType ==
  ASSUME NEW g, IsGraph(g), NEW N, NEW r \in RunsOn(N), NEW n \in N
  PROVE  Finished(g, N, r, n, Finish(g, r, n))
<1> DEFINE p == Finish(g, r, n)
           all  == r.node[n].input
           hit  == IF g.kind[n] = "condition" THEN Kept(all, Hits) ELSE all
           miss == IF g.kind[n] = "condition" THEN Kept(all, Rows \ Hits) ELSE <<>>
           q    == [r EXCEPT !.node[n].status = "completed", !.node[n].output = all]
<1>1. p = Propagate(g, q, n, Output(all, hit, miss))
  BY DEF Finish
<1>2. all \in Seq(Rows)
  BY DEF RunsOn, NodeStates
<1>3. hit \in Seq(Rows) /\ miss \in Seq(Rows)
  <2>1. Kept(all, Hits) \in Seq(Rows) /\ Kept(all, Rows \ Hits) \in Seq(Rows)
    BY <1>2, KeptType
  <2>2. <<>> \in Seq(Rows)
    OBVIOUS
  <2> QED
    BY <1>2, <2>1, <2>2
<1>4. Completed(N, r, n, all, q)
  BY <1>2, CompletedType
<1> HIDE DEF p, hit, miss, q
<1>5. q \in RunsOn(N)
  BY <1>4 DEF Completed
<1> HIDE DEF all
<1>6. \A o \in Outcomes : Output(all, hit, miss)[o] \in Seq(Rows)
  BY <1>2, <1>3, OutputType
<1>7. Sent(g, N, q, n, p)
  BY <1>1, <1>5, <1>6, PropagateType
<1>8. Finished(g, N, r, n, p)
  <2> USE DEF all
  <2> QED
    BY <1>4, <1>7 DEF Finished, Sent, Completed, SameRows
<1> QED
  BY <1>8 DEF p

\* What becomes of a batch when a node is executed.
Fails(g, N, r, n, p) ==
    \E c : RowsChanged(g, N, r, n, c) /\ StatusSet(N, c, n, "failed", "failed", p)

Succeeds(g, N, r, n, p) ==
    \E c, f : /\ RowsChanged(g, N, r, n, c)
              /\ Finished(g, N, c, n, f)
              /\ p = RefreshReadiness(g, f)

Executed(g, N, r, n, p) ==
    \/ ~MayExecute(g, r, n) /\ p = r
    \/ /\ MayExecute(g, r, n) /\ n \in N /\ n \in g.nodes
       /\ r.node[n].status \in {"ready", "running"}
       /\ \/ g.kind[n] = "review" /\ Frozen(N, r, n, p)
          \/ g.kind[n] # "review" /\ Fails(g, N, r, n, p)
          \/ /\ g.kind[n] # "review" /\ Succeeds(g, N, r, n, p)
             /\ \A x \in ToSet(r.node[n].input) : ~Throws(g, n, x)

LEMMA ExecuteType ==
  ASSUME NEW g, IsGraph(g), NEW N \in SUBSET Nodes, NEW r \in RunsOn(N), NEW n
  PROVE  Executed(g, N, r, n, Execute(g, r, n))
<1> DEFINE p == Execute(g, r, n)
<1>1. DOMAIN r.node = N
  BY DEF RunsOn
<1>2. CASE ~MayExecute(g, r, n)
  <2>1. p = r
    BY <1>2 DEF Execute
  <2> HIDE DEF p
  <2>2. Executed(g, N, r, n, p)
    BY <1>2, <2>1 DEF Executed
  <2> QED
    BY <2>2 DEF p
<1>3. CASE MayExecute(g, r, n)
  <2>1. n \in N /\ n \in g.nodes /\ r.node[n].status \in {"ready", "running"}
    BY <1>1, <1>3 DEF MayExecute
  <2>2. RowsChanged(g, N, r, n, Changed(g, r, n))
    BY <2>1, ChangedType
  <2>3. Changed(g, r, n) \in RunsOn(N)
    BY <2>2 DEF RowsChanged
  <2>4. CASE g.kind[n] = "review"
    <3>1. p = Freeze(r, n)
      BY <1>3, <2>4 DEF Execute
    <3>2. Frozen(N, r, n, p)
      BY <2>1, <3>1, FreezeType
    <3> HIDE DEF p
    <3>3. Executed(g, N, r, n, p)
      BY <1>3, <2>1, <2>4, <3>2 DEF Executed
    <3> QED
      BY <3>3 DEF p
  <2>5. CASE g.kind[n] # "review" /\ \E x \in ToSet(r.node[n].input) : Throws(g, n, x)
    <3>1. p = [Changed(g, r, n) EXCEPT !.node[n].status = "failed", !.status = "failed"]
      BY <1>3, <2>5 DEF Execute
    <3>2. StatusSet(N, Changed(g, r, n), n, "failed", "failed", p)
      <4> DEFINE c == Changed(g, r, n)
      <4>1. c \in RunsOn(N)
        BY <2>3
      <4>2. p = [c EXCEPT !.node[n].status = "failed", !.status = "failed"]
        BY <3>1
      <4>3. "failed" \in NodeStatus /\ "failed" \in BatchStatus
        BY DEF NodeStatus, BatchStatus
      <4> HIDE DEF p, c
      <4>4. StatusSet(N, c, n, "failed", "failed", p)
        BY <2>1, <4>1, <4>2, <4>3, StatusType
      <4> QED
        BY <4>4 DEF c
    <3> HIDE DEF p
    <3>3. Fails(g, N, r, n, p)
      BY <2>2, <3>2 DEF Fails
    <3>4. Executed(g, N, r, n, p)
      BY <1>3, <2>1, <2>5, <3>3 DEF Executed
    <3> QED
      BY <3>4 DEF p
  <2>6. CASE g.kind[n] # "review" /\ \A x \in ToSet(r.node[n].input) : ~Throws(g, n, x)
    <3>1. p = RefreshReadiness(g, Finish(g, Changed(g, r, n), n))
      BY <1>3, <2>6 DEF Execute
    <3>2. Finished(g, N, Changed(g, r, n), n, Finish(g, Changed(g, r, n), n))
      BY <2>1, <2>3, FinishType
    <3> HIDE DEF p
    <3>3. Succeeds(g, N, r, n, p)
      BY <2>2, <3>1, <3>2 DEF Succeeds
    <3>4. Executed(g, N, r, n, p)
      BY <1>3, <2>1, <2>6, <3>3 DEF Executed
    <3> QED
      BY <3>4 DEF p
  <2> QED
    BY <2>4, <2>5, <2>6
<1> QED
  BY <1>2, <1>3

\* Only the status of the batch has changed.
Restated(N, r, batch, p) ==
    /\ p \in RunsOn(N)
    /\ SameRows(r, p) /\ p.node = r.node /\ p.status = batch

LEMMA RestatedType ==
  ASSUME NEW N, NEW r \in RunsOn(N), NEW batch \in BatchStatus
  PROVE  Restated(N, r, batch, [r EXCEPT !.status = batch])
<1> DEFINE p == [r EXCEPT !.status = batch]
<1>1. /\ p.node = r.node /\ p.status = batch /\ p.rows = r.rows
      /\ p.snapshots = r.snapshots /\ p \in RunsOn(N)
  BY DEF RunsOn, BatchStatus
<1> HIDE DEF p
<1>2. Restated(N, r, batch, p)
  BY <1>1 DEF Restated, SameRows
<1> QED
  BY <1>2 DEF p

\* What promotion and a new status keep, refreshing keeps.
LEMMA RefreshStays ==
  ASSUME NEW g, NEW N, IsFiniteSet(N), NEW S \in SUBSET RunsOn(N), NEW r \in S,
         \A s \in S : PromoteOnce(g, s) \in S,
         \A s \in S : [s EXCEPT !.status = RunStatus(s)] \in S
  PROVE  RefreshReadiness(g, r) \in S
<1>1. DOMAIN r.node = N
  BY DEF RunsOn
<1>2. Promote(g, r) \in S
  BY <1>1, PromoteStays
<1> QED
  BY <1>2 DEF RefreshReadiness

\* A set of batches that keeps what execution does keeps what the scheduler does.
Closed(g, N, S) ==
    /\ S \subseteq RunsOn(N)
    /\ \A s \in S : PromoteOnce(g, s) \in S
    /\ \A s \in S : [s EXCEPT !.status = RunStatus(s)] \in S
    /\ \A s \in S : \A n \in N :
          GoesOn(g, s) /\ MayExecute(g, s, n) => Execute(g, s, n) \in S

LEMMA ClosedRefresh ==
  ASSUME NEW g, NEW N, IsFiniteSet(N), NEW S, Closed(g, N, S), NEW r \in S
  PROVE  RefreshReadiness(g, r) \in S
BY RefreshStays DEF Closed

LEMMA ClosedAdvance ==
  ASSUME NEW g, IsGraph(g), NEW N \in SUBSET Nodes, IsFiniteSet(N),
         NEW S, Closed(g, N, S), NEW r \in S
  PROVE  Advance(g, r) \in S
<1>1. \A s \in S : RefreshReadiness(g, s) \in S
  BY ClosedRefresh
<1>2. ASSUME NEW s \in S PROVE AdvanceOnce(g, s) \in S
  <2>1. CASE ~GoesOn(g, s)
    BY <2>1 DEF AdvanceOnce
  <2>2. CASE GoesOn(g, s)
    <3>1. s \in RunsOn(N)
      BY DEF Closed
    <3>2. Automatic(g, s) \subseteq N /\ Automatic(g, s) # {}
          /\ \A n \in Automatic(g, s) : MayExecute(g, s, n)
      BY <2>2, <3>1 DEF GoesOn, Automatic, MayExecute, RunsOn
    <3>3. N \subseteq Nat
      BY GraphAssumption
    <3>4. Min(Automatic(g, s)) \in Automatic(g, s)
      BY <3>2, <3>3, MinIsMember
    <3>5. Execute(g, s, Min(Automatic(g, s))) \in S
      BY <2>2, <3>2, <3>4 DEF Closed
    <3> QED
      BY <2>2, <3>5 DEF AdvanceOnce
  <2> QED
    BY <2>1, <2>2
<1>3. IsFiniteSet(g.nodes)
  BY DEF IsGraph
<1> QED
  BY <1>1, <1>2, <1>3, AdvanceStays

\* Execution, promotion and the scheduler return batches.
LEMMA RunsAreClosed ==
  ASSUME NEW g, IsGraph(g), NEW N \in SUBSET Nodes, IsFiniteSet(N)
  PROVE  /\ Closed(g, N, RunsOn(N))
         /\ \A r \in RunsOn(N) : \A n \in Nodes : Execute(g, r, n) \in RunsOn(N)
<1>1. \A s \in RunsOn(N) : PromoteOnce(g, s) \in RunsOn(N)
  BY PromoteOnceType DEF Promoted
<1>2. ASSUME NEW s \in RunsOn(N) PROVE [s EXCEPT !.status = RunStatus(s)] \in RunsOn(N)
  <2>1. RunStatus(s) \in BatchStatus
    BY RunStatusType DEF BatchStatus
  <2> QED
    BY <2>1, RestatedType DEF Restated
<1>3. ASSUME NEW r \in RunsOn(N), NEW n PROVE Execute(g, r, n) \in RunsOn(N)
  <2> DEFINE p == Execute(g, r, n)
  <2>1. Executed(g, N, r, n, p)
    BY ExecuteType
  <2> HIDE DEF p
  <2>2. ASSUME Succeeds(g, N, r, n, p) PROVE p \in RunsOn(N)
    <3>1. PICK c, f : Finished(g, N, c, n, f) /\ p = RefreshReadiness(g, f)
      BY <2>2 DEF Succeeds
    <3> QED
      BY <3>1, RefreshType DEF Finished, Refreshed
  <2>3. ASSUME Fails(g, N, r, n, p) PROVE p \in RunsOn(N)
    BY <2>3 DEF Fails, StatusSet
  <2>4. p \in RunsOn(N)
    BY <2>1, <2>2, <2>3 DEF Executed, Frozen
  <2> QED
    BY <2>4 DEF p
<1> QED
  BY <1>1, <1>2, <1>3 DEF Closed

\* The frozen rows replace the rows of the batch.
Approved(g, N, r, i, p) ==
    LET snap == r.snapshots[i] IN
    /\ p \in RunsOn(N) /\ p.status = r.status
    /\ \A x \in Rows : p.rows[x] = IF x \in ToSet(snap.ids) THEN snap.rows[x] ELSE r.rows[x]
    /\ Len(p.snapshots) = Len(r.snapshots)
    /\ \A j \in 1..Len(r.snapshots) :
          /\ p.snapshots[j].node = r.snapshots[j].node
          /\ p.snapshots[j].ids = r.snapshots[j].ids
          /\ p.snapshots[j].rows = r.snapshots[j].rows
          /\ p.snapshots[j].status = IF j = i THEN "approved" ELSE r.snapshots[j].status
    /\ \A m \in N : /\ p.node[m].status = IF m = snap.node THEN "completed"
                                          ELSE r.node[m].status
                    /\ p.node[m].output = IF m = snap.node THEN snap.ids
                                          ELSE r.node[m].output
                    /\ <<snap.node, m>> \notin DOMAIN g.edges =>
                           p.node[m].input = r.node[m].input

LEMMA ApproveType ==
  ASSUME NEW g, IsGraph(g), NEW N, NEW r \in RunsOn(N), NEW i \in DOMAIN r.snapshots
  PROVE  Approved(g, N, r, i, Approve(g, r, i))
<1> DEFINE snap == r.snapshots[i]
           value(x) == IF x \in ToSet(snap.ids) THEN snap.rows[x] ELSE r.rows[x]
           snaps == [r.snapshots EXCEPT ![i].status = "approved"]
           q == [r EXCEPT !.node[snap.node].status = "completed",
                          !.node[snap.node].output = snap.ids]
           values == [x \in Rows |-> value(x)]
           a == [r EXCEPT !.rows = values,
                          !.snapshots[i].status = "approved",
                          !.node[snap.node].status = "completed",
                          !.node[snap.node].output = snap.ids]
           p == Approve(g, r, i)
<1>1. p = Propagate(g, a, snap.node, Output(snap.ids, snap.ids, <<>>))
  BY DEF Approve
<1> HIDE DEF p
<1>2. /\ r.snapshots \in Seq(Snapshots) /\ r.rows \in [Rows -> Seq(Marks)]
      /\ DOMAIN r = {"status", "node", "rows", "snapshots"}
      /\ DOMAIN r.snapshots = 1..Len(r.snapshots) /\ Len(r.snapshots) \in Nat
  BY DEF RunsOn
<1>3. snap \in Snapshots
  BY <1>2
<1>4. snap.ids \in Seq(Rows) /\ snap.rows \in [Rows -> Seq(Marks)]
  BY <1>3 DEF Snapshots
<1>5. Completed(N, r, snap.node, snap.ids, q)
  <2> HIDE DEF snap
  <2> QED
    BY <1>4, CompletedType
<1>6. a = [q EXCEPT !.rows = values, !.snapshots = snaps]
  <2> HIDE DEF values, snap
  <2> DEFINE node1 == [r.node EXCEPT ![snap.node].status = "completed"]
             node == [node1 EXCEPT ![snap.node].output = snap.ids]
  <2>1. q = [r EXCEPT !.node = node]
    BY <1>2
  <2>2. a = [r EXCEPT !.rows = values, !.snapshots = snaps, !.node = node]
    BY <1>2
  <2> HIDE DEF node, node1, q, a, snaps
  <2> QED
    BY <1>2, <2>1, <2>2
<1>7. [x \in Rows |-> value(x)] \in [Rows -> Seq(Marks)]
  BY <1>2, <1>4
<1>8. /\ snaps \in Seq(Snapshots) /\ Len(snaps) = Len(r.snapshots)
      /\ \A j \in 1..Len(r.snapshots) :
            /\ snaps[j].node = r.snapshots[j].node
            /\ snaps[j].ids = r.snapshots[j].ids
            /\ snaps[j].rows = r.snapshots[j].rows
            /\ snaps[j].status = IF j = i THEN "approved" ELSE r.snapshots[j].status
  <2> DEFINE new(j) == IF j = i THEN [r.snapshots[j] EXCEPT !.status = "approved"]
                       ELSE r.snapshots[j]
  <2>1. snaps = [j \in 1..Len(r.snapshots) |-> new(j)]
    BY <1>2
  <2>2. ASSUME NEW j \in 1..Len(r.snapshots)
        PROVE  /\ new(j) \in Snapshots
               /\ new(j).node = r.snapshots[j].node
               /\ new(j).ids = r.snapshots[j].ids
               /\ new(j).rows = r.snapshots[j].rows
               /\ new(j).status = IF j = i THEN "approved" ELSE r.snapshots[j].status
    <3>1. r.snapshots[j] \in Snapshots
      BY <1>2
    <3> QED
      BY <3>1 DEF Snapshots
  <2> HIDE DEF new, snaps
  <2> QED
    BY <1>2, <2>1, <2>2
<1> HIDE DEF value, snaps, q, a
<1>9. q \in RunsOn(N)
  BY <1>5 DEF Completed
<1>10. /\ a.node = q.node /\ a.status = q.status /\ a.snapshots = snaps
       /\ a.rows = [x \in Rows |-> value(x)] /\ a \in RunsOn(N)
  BY <1>6, <1>7, <1>8, <1>9 DEF RunsOn
<1>11. \A o \in Outcomes : Output(snap.ids, snap.ids, <<>>)[o] \in Seq(Rows)
  <2>1. <<>> \in Seq(Rows)
    OBVIOUS
  <2> HIDE DEF snap
  <2> QED
    BY <1>4, <2>1, OutputType
<1>12. Sent(g, N, a, snap.node, p)
  <2> HIDE DEF snap
  <2> QED
    BY <1>1, <1>10, <1>11, PropagateType
<1>13. /\ p \in RunsOn(N) /\ p.status = r.status
       /\ p.rows = [x \in Rows |-> value(x)] /\ p.snapshots = snaps
  BY <1>5, <1>10, <1>12 DEF Sent, SameRows, Completed
<1>14. \A m \in N : /\ p.node[m].status = IF m = snap.node THEN "completed"
                                          ELSE r.node[m].status
                    /\ p.node[m].output = IF m = snap.node THEN snap.ids
                                          ELSE r.node[m].output
                    /\ <<snap.node, m>> \notin DOMAIN g.edges =>
                           p.node[m].input = r.node[m].input
  <2> HIDE DEF snap
  <2> QED
    BY <1>5, <1>10, <1>12 DEF Sent, Completed
<1>15. \A x \in Rows : p.rows[x] = IF x \in ToSet(snap.ids) THEN snap.rows[x]
                                   ELSE r.rows[x]
  BY <1>13 DEF value
<1>16. Approved(g, N, r, i, p)
  BY <1>8, <1>13, <1>14, <1>15 DEF Approved
<1> QED
  BY <1>16 DEF p

LEMMA SomeSequence ==
  ASSUME NEW T, IsFiniteSet(T)
  PROVE  SetToSeq(T) \in Seq(T)
<1>1. Cardinality(T) \in Nat /\ ExistsBijection(1..Cardinality(T), T)
  BY FS_CardinalityType
<1>2. \E f \in [1..Cardinality(T) -> T] : IsInjective(f)
  BY <1>1 DEF ExistsBijection, Bijection, Injection
<1>3. SetToSeq(T) \in [1..Cardinality(T) -> T]
  BY <1>2 DEF SetToSeq
<1> QED
  BY <1>1, <1>3

\* A new batch.
Fresh(g, p) ==
    /\ p \in RunsOn(g.nodes)
    /\ p.status = "ready" /\ p.snapshots = <<>>
    /\ \A x \in Rows : p.rows[x] = <<>>
    /\ \A m \in g.nodes : /\ p.node[m].status = IF m = g.entry THEN "ready" ELSE "pending"
                          /\ p.node[m].output = <<>>

LEMMA NewRunType ==
  ASSUME NEW g
  PROVE  Fresh(g, NewRun(g))
<1> DEFINE start(m) == IF m = g.entry
                       THEN [status |-> "ready", input |-> SetToSeq(Rows), output |-> <<>>]
                       ELSE [status |-> "pending", input |-> <<>>, output |-> <<>>]
           p == NewRun(g)
<1>1. p = [status |-> "ready", node |-> [m \in g.nodes |-> start(m)],
           rows |-> [x \in Rows |-> <<>>], snapshots |-> <<>>]
  BY DEF NewRun
<1>2. SetToSeq(Rows) \in Seq(Rows)
  BY SomeSequence, GraphAssumption
<1>3. <<>> \in Seq(Rows) /\ <<>> \in Seq(Marks) /\ <<>> \in Seq(Snapshots)
  OBVIOUS
<1>4. \A m : /\ start(m) \in NodeStates
             /\ start(m).status = IF m = g.entry THEN "ready" ELSE "pending"
             /\ start(m).output = <<>>
  BY <1>2, <1>3 DEF NodeStates
<1> HIDE DEF start, p
<1>5. Fresh(g, p)
  BY <1>1, <1>3, <1>4 DEF Fresh, RunsOn
<1> QED
  BY <1>5 DEF p

\* A row of a snapshot is edited.
Edit(r, i) == <<"edit", r.snapshots[i].node>>

Edited(N, r, i, x, p) ==
    /\ p \in RunsOn(N)
    /\ p.node = r.node /\ p.status = r.status /\ p.rows = r.rows
    /\ Len(p.snapshots) = Len(r.snapshots)
    /\ \A j \in 1..Len(r.snapshots) :
          /\ p.snapshots[j].node = r.snapshots[j].node
          /\ p.snapshots[j].ids = r.snapshots[j].ids
          /\ p.snapshots[j].status = r.snapshots[j].status
          /\ \A y \in Rows : p.snapshots[j].rows[y] =
                IF j = i /\ y = x THEN Append(r.snapshots[i].rows[x], Edit(r, i))
                ELSE r.snapshots[j].rows[y]

LEMMA EditType ==
  ASSUME NEW N, NEW r \in RunsOn(N), NEW i \in DOMAIN r.snapshots, NEW x \in Rows
  PROVE  Edited(N, r, i, x,
                [r EXCEPT !.snapshots[i].rows[x] = Append(@, Edit(r, i))])
<1> DEFINE p == [r EXCEPT !.snapshots[i].rows[x] = Append(@, Edit(r, i))]
           more == Append(r.snapshots[i].rows[x], Edit(r, i))
           rows == [r.snapshots[i].rows EXCEPT ![x] = more]
           snaps == [r.snapshots EXCEPT ![i].rows = rows]
<1>1. /\ r.snapshots \in Seq(Snapshots)
      /\ DOMAIN r.snapshots = 1..Len(r.snapshots) /\ Len(r.snapshots) \in Nat
      /\ \A j \in 1..Len(r.snapshots) : r.snapshots[j] \in Snapshots
      /\ DOMAIN r = {"status", "node", "rows", "snapshots"}
  BY DEF RunsOn
<1>2. r.snapshots[i].rows \in [Rows -> Seq(Marks)] /\ r.snapshots[i].node \in Nodes
  BY <1>1 DEF Snapshots
<1>3. p = [r EXCEPT !.snapshots = snaps]
  <2> HIDE DEF more
  <2>1. p = [r EXCEPT !.snapshots[i].rows[x] = more]
    BY DEF more
  <2> HIDE DEF p
  <2> QED
    BY <1>1, <1>2, <2>1
<1>4. more \in Seq(Marks)
  <2>1. Edit(r, i) \in Marks
    BY <1>2 DEF Edit, Marks
  <2> QED
    BY <1>2, <2>1
<1> HIDE DEF more
<1>5. rows \in [Rows -> Seq(Marks)] /\ \A y \in Rows : rows[y] =
         IF y = x THEN more ELSE r.snapshots[i].rows[y]
  BY <1>2, <1>4
<1> HIDE DEF rows
<1>6. /\ snaps \in Seq(Snapshots) /\ Len(snaps) = Len(r.snapshots)
      /\ \A j \in 1..Len(r.snapshots) :
            /\ snaps[j].node = r.snapshots[j].node
            /\ snaps[j].ids = r.snapshots[j].ids
            /\ snaps[j].status = r.snapshots[j].status
            /\ snaps[j].rows = IF j = i THEN rows ELSE r.snapshots[j].rows
  <2> DEFINE new(j) == IF j = i THEN [r.snapshots[j] EXCEPT !.rows = rows]
                       ELSE r.snapshots[j]
  <2>1. snaps = [j \in 1..Len(r.snapshots) |-> new(j)]
    BY <1>1
  <2>2. ASSUME NEW j \in 1..Len(r.snapshots)
        PROVE  /\ new(j) \in Snapshots
               /\ new(j).node = r.snapshots[j].node
               /\ new(j).ids = r.snapshots[j].ids
               /\ new(j).status = r.snapshots[j].status
               /\ new(j).rows = IF j = i THEN rows ELSE r.snapshots[j].rows
    <3>1. r.snapshots[j] \in Snapshots
      BY <1>1
    <3> QED
      BY <1>5, <3>1 DEF Snapshots
  <2> HIDE DEF new, snaps
  <2> QED
    BY <1>1, <2>1, <2>2
<1> HIDE DEF snaps, p
<1>7. /\ p.node = r.node /\ p.status = r.status /\ p.rows = r.rows /\ p.snapshots = snaps
      /\ p \in RunsOn(N)
  BY <1>1, <1>3, <1>6 DEF RunsOn
<1>8. \A j \in 1..Len(r.snapshots) : \A y \in Rows : p.snapshots[j].rows[y] =
         IF j = i /\ y = x THEN Append(r.snapshots[i].rows[x], Edit(r, i))
         ELSE r.snapshots[j].rows[y]
  BY <1>5, <1>6, <1>7 DEF more
<1>9. Edited(N, r, i, x, p)
  BY <1>6, <1>7, <1>8 DEF Edited
<1> QED
  BY <1>9 DEF p

-----------------------------------------------------------------------------
(* Typing.                                                                 *)

\* The graph that a change of the designer makes.
LEMMA RedesignIsGraph ==
  ASSUME IsGraph(graph), DOMAIN run.node \subseteq Nodes,
         AddNode \/ UpdateNode \/ SetMode \/ AddEdge \/ RemoveEdge \/ RemoveNode
  PROVE  IsGraph(graph')
<1> DEFINE g == graph
<1>0. /\ g \in [nodes : SUBSET Nodes, entry : Nodes, manual : SUBSET Nodes,
                kind : {g.kind}, edges : {g.edges}]
      /\ IsFiniteSet(g.nodes)
      /\ g.kind \in [DOMAIN g.kind -> Kinds] /\ g.nodes \subseteq DOMAIN g.kind
      /\ g.edges \in [DOMAIN g.edges -> Outcomes]
  BY DEF IsGraph
<1>1. ASSUME AddNode PROVE IsGraph(graph')
  <2>1. PICK n \in Nodes : graph' =
          [graph EXCEPT !.nodes = @ \cup {n}, !.manual = @ \cup {n},
                        !.kind = With(@, n, "rule")]
    BY <1>1 DEF AddNode, Redesign
  <2> DEFINE kind == With(g.kind, n, "rule")
  <2>2. kind \in [DOMAIN kind -> Kinds] /\ g.nodes \cup {n} \subseteq DOMAIN kind
    BY <1>0 DEF Kinds, With
  <2>3. IsFiniteSet(g.nodes \cup {n})
    BY <1>0, FS_AddElement
  <2>4. /\ graph' = [g EXCEPT !.nodes = g.nodes \cup {n}, !.manual = g.manual \cup {n},
                              !.kind = kind]
    BY <1>0, <2>1
  <2> HIDE DEF kind
  <2> QED
    BY <1>0, <2>2, <2>3, <2>4 DEF IsGraph
<1>2. ASSUME UpdateNode PROVE IsGraph(graph')
  <2>0. PICK n \in graph.nodes, k \in Kinds :
          \E m \in {graph.manual \cup {n}, graph.manual \ {n}} :
            graph' = [graph EXCEPT !.kind[n] = k, !.manual = m]
    BY <1>2 DEF UpdateNode, Redesign
  <2>1. PICK m \in {graph.manual \cup {n}, graph.manual \ {n}} :
          graph' = [graph EXCEPT !.kind[n] = k, !.manual = m]
    BY <2>0
  <2>2. m \in SUBSET Nodes
    BY <1>0
  <2> DEFINE kind == [g.kind EXCEPT ![n] = k]
  <2>3. kind \in [DOMAIN kind -> Kinds] /\ DOMAIN kind = DOMAIN g.kind
    BY <1>0
  <2>4. graph' = [g EXCEPT !.kind = kind, !.manual = m]
    BY <1>0, <2>1
  <2> HIDE DEF kind
  <2> QED
    BY <1>0, <2>2, <2>3, <2>4 DEF IsGraph
<1>3. ASSUME SetMode PROVE IsGraph(graph')
  <2>1. PICK m \in {{}, graph.nodes} : graph' = [graph EXCEPT !.manual = m]
    BY <1>3 DEF SetMode, Redesign
  <2> QED
    BY <1>0, <2>1 DEF IsGraph
<1>4. ASSUME AddEdge PROVE IsGraph(graph')
  <2>1. PICK m \in graph.nodes, n \in graph.nodes, outcome \in Outcomes :
          graph' = [graph EXCEPT !.edges = With(@, <<m, n>>, outcome)]
    BY <1>4 DEF AddEdge, Redesign
  <2> DEFINE edges == With(g.edges, <<m, n>>, outcome)
  <2>2. edges \in [DOMAIN edges -> Outcomes]
    BY <1>0 DEF With
  <2>3. graph' = [g EXCEPT !.edges = edges]
    BY <1>0, <2>1
  <2> HIDE DEF edges
  <2> QED
    BY <1>0, <2>2, <2>3 DEF IsGraph
<1>5. ASSUME NEW gone PROVE Without(g.edges, gone) \in
                              [DOMAIN Without(g.edges, gone) -> Outcomes]
  BY <1>0 DEF Without
<1>6. ASSUME RemoveEdge PROVE IsGraph(graph')
  <2>1. PICK e : graph' = [graph EXCEPT !.edges = Without(graph.edges, {e})]
    BY <1>0, <1>6 DEF RemoveEdge, Redesign
  <2> DEFINE edges == Without(g.edges, {e})
  <2>2. edges \in [DOMAIN edges -> Outcomes]
    BY <1>5
  <2>3. graph' = [g EXCEPT !.edges = edges]
    BY <2>1
  <2> HIDE DEF edges
  <2> QED
    BY <1>0, <2>2, <2>3 DEF IsGraph
<1>7. ASSUME RemoveNode PROVE IsGraph(graph')
  <2>1. PICK n \in graph.nodes :
          /\ graph.nodes \ {n} # {}
          /\ graph' = [graph EXCEPT !.nodes = graph.nodes \ {n}, !.manual = @ \ {n},
                          !.edges = Without(@, {e \in DOMAIN @ : n \in {e[1], e[2]}}),
                          !.entry = IF @ = n THEN Min(graph.nodes \ {n}) ELSE @]
    BY <1>7 DEF RemoveNode, Redesign
  <2> DEFINE rest  == g.nodes \ {n}
             gone  == {e \in DOMAIN g.edges : n \in {e[1], e[2]}}
             edges == Without(g.edges, gone)
             entry == IF g.entry = n THEN Min(rest) ELSE g.entry
  <2>2. edges \in [DOMAIN edges -> Outcomes]
    BY <1>5
  <2>3. rest \in SUBSET Nodes /\ rest # {} /\ IsFiniteSet(rest)
    BY <1>0, <2>1, FS_RemoveElement
  <2>4. Min(rest) \in rest
    <3>1. rest \in SUBSET Nat
      BY <2>3, GraphAssumption
    <3> HIDE DEF rest
    <3> QED
      BY <2>3, <3>1, MinIsMember
  <2>5. entry \in Nodes
    BY <1>0, <2>3, <2>4
  <2>6. graph' = [g EXCEPT !.nodes = rest, !.manual = g.manual \ {n},
                           !.edges = edges, !.entry = entry]
    BY <1>0, <2>1
  <2>7. rest \subseteq DOMAIN g.kind /\ g.manual \ {n} \in SUBSET Nodes
    BY <1>0
  <2> HIDE DEF edges, entry, rest
  <2> QED
    BY <1>0, <2>2, <2>3, <2>5, <2>6, <2>7 DEF IsGraph
<1> QED
  BY <1>1, <1>2, <1>3, <1>4, <1>6, <1>7

RunOK ==
    run # None =>
        /\ DOMAIN run.node \in SUBSET Nodes
        /\ IsFiniteSet(DOMAIN run.node)
        /\ run \in RunsOn(DOMAIN run.node)

\* A batch that stays on its nodes.
LEMMA RunStays ==
  ASSUME NEW N \in SUBSET Nodes, IsFiniteSet(N), NEW r \in RunsOn(N)
  PROVE  /\ DOMAIN r.node \in SUBSET Nodes
         /\ IsFiniteSet(DOMAIN r.node)
         /\ r \in RunsOn(DOMAIN r.node)
<1>1. DOMAIN r.node = N
  BY DEF RunsOn
<1> QED
  BY <1>1

\* What the actions do to a batch, one operator each.
Mark(r, n) ==
    IF r.node[n].status = "ready"
    THEN [r EXCEPT !.node[n].status = "running", !.status = "running"]
    ELSE r

LEMMA MarkType ==
  ASSUME NEW N, NEW r \in RunsOn(N), NEW n \in N
  PROVE  \/ r.node[n].status # "ready" /\ Mark(r, n) = r
         \/ r.node[n].status = "ready" /\ StatusSet(N, r, n, "running", "running", Mark(r, n))
<1> DEFINE p == [r EXCEPT !.node[n].status = "running", !.status = "running"]
<1>1. "running" \in NodeStatus /\ "running" \in BatchStatus
  BY DEF NodeStatus, BatchStatus
<1>2. StatusSet(N, r, n, "running", "running", p)
  BY <1>1, StatusType
<1>3. Mark(r, n) = IF r.node[n].status = "ready" THEN p ELSE r
  BY DEF Mark
<1> HIDE DEF p
<1> QED
  BY <1>2, <1>3

LEMMA ActiveIsSnapshot ==
  ASSUME NEW N, NEW r \in RunsOn(N), Active(r) # 0
  PROVE  /\ Active(r) \in DOMAIN r.snapshots
         /\ Active(r) \in Waiting(r)
         /\ r.snapshots[Active(r)].status = "waiting"
         /\ ToSet(r.snapshots[Active(r)].ids) \subseteq Rows
         /\ r.snapshots[Active(r)] \in Snapshots
<1>1. Active(r) \in Waiting(r)
  BY ActiveIsWaiting
<1>2. Active(r) \in DOMAIN r.snapshots /\ r.snapshots[Active(r)].status = "waiting"
  BY <1>1 DEF Waiting
<1>3. r.snapshots[Active(r)] \in Snapshots
  BY <1>2 DEF RunsOn
<1>4. r.snapshots[Active(r)].ids \in Seq(Rows)
  BY <1>3 DEF Snapshots
<1> QED
  BY <1>1, <1>2, <1>3, <1>4 DEF ToSet

\* Every step that changes the batch, apart from its start, leads to a batch.
LEMMA RunStep ==
  ASSUME RunOK, IsGraph(graph), run # None
  PROVE  /\ \A n \in Nodes : ExecuteNode(n) \/ TimerFires(n) => run' \in RunsOn(DOMAIN run.node)
         /\ \A x \in Rows : EditRow(x) => run' \in RunsOn(DOMAIN run.node)
         /\ ApproveSnapshot => run' \in RunsOn(DOMAIN run.node)
<1> DEFINE N == DOMAIN run.node
<1>1. N \in SUBSET Nodes /\ IsFiniteSet(N) /\ run \in RunsOn(N)
  BY DEF RunOK
<1> HIDE DEF N
<1>2. Closed(graph, N, RunsOn(N))
      /\ \A r \in RunsOn(N) : \A n \in Nodes : Execute(graph, r, n) \in RunsOn(N)
  BY <1>1, RunsAreClosed
<1>3. ASSUME NEW n \in Nodes, ExecuteNode(n) PROVE run' \in RunsOn(N)
  <2>1. n \in N /\ run' = Mark(run, n)
    BY <1>3 DEF ExecuteNode, N, Mark
  <2> QED
    BY <1>1, <2>1, MarkType DEF StatusSet
<1>4. ASSUME NEW n \in Nodes, TimerFires(n) PROVE run' \in RunsOn(N)
  <2>1. run' = Advance(graph, Execute(graph, run, n))
    BY <1>4 DEF TimerFires
  <2>2. Execute(graph, run, n) \in RunsOn(N)
    BY <1>1, <1>2
  <2> QED
    BY <1>1, <1>2, <2>1, <2>2, ClosedAdvance
<1>5. ASSUME NEW x \in Rows, EditRow(x) PROVE run' \in RunsOn(N)
  <2> DEFINE i == Active(run)
  <2>1. i # 0 /\ run' = [run EXCEPT !.snapshots[i].rows[x] = Append(@, Edit(run, i))]
    BY <1>5 DEF EditRow, Edit
  <2>2. i \in DOMAIN run.snapshots
    BY <1>1, <2>1, ActiveIsSnapshot
  <2> HIDE DEF i
  <2> QED
    BY <1>1, <2>1, <2>2, EditType DEF Edited
<1>6. ASSUME ApproveSnapshot PROVE run' \in RunsOn(N)
  <2> DEFINE i == Active(run)
  <2>1. i # 0 /\ run' = Advance(graph, RefreshReadiness(graph, Approve(graph, run, i)))
    BY <1>6 DEF ApproveSnapshot
  <2>2. i \in DOMAIN run.snapshots
    BY <1>1, <2>1, ActiveIsSnapshot
  <2> HIDE DEF i
  <2>3. Approve(graph, run, i) \in RunsOn(N)
    BY <1>1, <2>2, ApproveType DEF Approved
  <2> QED
    BY <1>1, <1>2, <2>1, <2>3, ClosedAdvance, ClosedRefresh
<1> QED
  BY <1>3, <1>4, <1>5, <1>6 DEF N

\* Init and the steps keep every variable in its type; the batch stays a batch on
\* the nodes it was started with, whatever the designer does to the graph.
THEOREM Typing == Spec => []TypeOK
<1> USE DEF RunOK
<1>1. Init => TypeOK
  BY GraphAssumption DEF Init, TypeOK
<1>2. TypeOK /\ [Next]_vars => TypeOK'
  <2> SUFFICES ASSUME TypeOK, [Next]_vars PROVE TypeOK'
    OBVIOUS
  <2>0. IsGraph(graph) /\ RunOK /\ (run # None => DOMAIN run.node \subseteq Nodes)
    BY DEF TypeOK
  <2> DEFINE N == DOMAIN run.node
  <2>1. ASSUME StartRun PROVE TypeOK'
    <3>1. graph.nodes \in SUBSET Nodes /\ IsFiniteSet(graph.nodes)
      BY <2>0 DEF IsGraph
    <3>2. Closed(graph, graph.nodes, RunsOn(graph.nodes))
      BY <2>0, <3>1, RunsAreClosed
    <3>3. NewRun(graph) \in RunsOn(graph.nodes)
      BY NewRunType DEF Fresh
    <3>4. run' \in RunsOn(graph.nodes)
      BY <2>0, <2>1, <3>1, <3>2, <3>3, ClosedAdvance DEF StartRun
    <3>5. RunOK'
      BY <3>1, <3>4, RunStays
    <3> QED
      BY <2>1, <3>5 DEF StartRun, TypeOK
  <2>2. ASSUME run # None, run' \in RunsOn(N) PROVE RunOK'
    BY <2>0, <2>2, RunStays
  <2>3. ASSUME NEW n \in Nodes, ExecuteNode(n) PROVE TypeOK'
    <3>1. RunOK'
      BY <2>0, <2>2, <2>3, RunStep DEF ExecuteNode
    <3>2. timers' \in [Nodes -> 0..2]
      BY <2>3 DEF ExecuteNode, TypeOK
    <3>3. disturbed' \subseteq Disturbances
      BY <2>3 DEF ExecuteNode, TypeOK, Disturbances
    <3> QED
      BY <2>3, <3>1, <3>2, <3>3 DEF ExecuteNode, TypeOK
  <2>4. ASSUME NEW n \in Nodes, TimerFires(n) PROVE TypeOK'
    <3>2. timers' \in [Nodes -> 0..2]
      BY <2>4 DEF TimerFires, TakeTimer, TypeOK
    <3>3. disturbed' \subseteq Disturbances
      BY <2>4 DEF TimerFires, TypeOK, Disturbances
    <3>1. RunOK'
      BY <2>0, <2>2, <2>4, RunStep DEF TimerFires
    <3> QED
      BY <2>4, <3>1, <3>2, <3>3 DEF TimerFires, TypeOK
  <2>5. ASSUME NEW x \in Rows, EditRow(x) PROVE TypeOK'
    <3>1. RunOK'
      BY <2>0, <2>2, <2>5, RunStep DEF EditRow
    <3> QED
      BY <2>5, <3>1 DEF EditRow, TypeOK
  <2>6. ASSUME ApproveSnapshot PROVE TypeOK'
    <3>1. RunOK'
      BY <2>0, <2>2, <2>6, RunStep DEF ApproveSnapshot
    <3> QED
      BY <2>6, <3>1 DEF ApproveSnapshot, TypeOK
  <2>7. ASSUME Reload PROVE TypeOK'
    BY <2>7 DEF Reload, TypeOK, Disturbances
  <2>8. ASSUME AddNode \/ UpdateNode \/ SetMode \/ AddEdge \/ RemoveEdge \/ RemoveNode
        PROVE  TypeOK'
    <3>1. CanDesign /\ left' = left - 1 /\ disturbed' = disturbed \cup {"redesigned"}
          /\ UNCHANGED <<run, timers, broken>>
      BY <2>8 DEF AddNode, UpdateNode, SetMode, AddEdge, RemoveEdge, RemoveNode, Redesign
    <3>2. IsGraph(graph')
      BY <2>0, <2>8, <3>1, RedesignIsGraph DEF CanDesign
    <3> QED
      BY <3>1, <3>2, GraphAssumption DEF TypeOK, CanDesign, Disturbances
  <2>9. ASSUME UNCHANGED vars PROVE TypeOK'
    BY <2>9 DEF vars, TypeOK
  <2> QED
    BY <2>1, <2>3, <2>4, <2>5, <2>6, <2>7, <2>8, <2>9 DEF Next
<1> QED
  BY <1>1, <1>2, PTL DEF Spec

-----------------------------------------------------------------------------
(* The values of rows, in the batch and in its snapshots.                  *)

Values(r) ==
    {r.rows[x] : x \in Rows}
        \cup {r.snapshots[j].rows[x] : j \in DOMAIN r.snapshots, x \in Rows}

\* Values are those of r, or none.
Within(r, p) == Values(p) \subseteq Values(r) \cup {<<>>}

\* Values are those of r, or none, or bear a mark more; an edit is a new mark.
Adds(r, e, p) ==
    \A w \in Values(p) :
        \/ w \in Values(r) \cup {<<>>}
        \/ \E v \in Values(r) : w = Append(v, e) /\ (e[1] = "edit" => e \notin ToSet(v))

LEMMA ValuesType ==
  ASSUME NEW N, NEW r \in RunsOn(N)
  PROVE  Values(r) \subseteq Seq(Marks)
<1>1. /\ r.rows \in [Rows -> Seq(Marks)]
      /\ \A j \in DOMAIN r.snapshots : r.snapshots[j] \in Snapshots
  BY DEF RunsOn
<1>2. \A j \in DOMAIN r.snapshots : r.snapshots[j].rows \in [Rows -> Seq(Marks)]
  BY <1>1 DEF Snapshots
<1> QED
  BY <1>1, <1>2 DEF Values

LEMMA SameValues ==
  ASSUME NEW r, NEW p, SameRows(r, p)
  PROVE  Values(p) = Values(r)
BY DEF SameRows, Values

LEMMA ChangedValues ==
  ASSUME NEW g, NEW N, NEW r \in RunsOn(N), NEW n, NEW p, RowsChanged(g, N, r, n, p)
  PROVE  Adds(r, <<"rule", n>>, p)
<1> SUFFICES ASSUME NEW w \in Values(p)
             PROVE  \/ w \in Values(r) \cup {<<>>}
                    \/ \E v \in Values(r) : w = Append(v, <<"rule", n>>)
  BY DEF Adds
<1>1. CASE w \in Values(r)
  BY <1>1
<1>2. CASE w \notin Values(r)
  <2>1. PICK x \in Rows : w = p.rows[x]
    BY <1>2 DEF Values, RowsChanged
  <2>2. w = Effect(g.kind[n], n, r.rows[x])
    BY <1>2, <2>1 DEF Values, RowsChanged
  <2>3. r.rows[x] \in Values(r)
    BY DEF Values
  <2> QED
    BY <2>2, <2>3 DEF Effect
<1> QED
  BY <1>1, <1>2

LEMMA FrozenValues ==
  ASSUME NEW N, NEW r \in RunsOn(N), NEW n \in N, NEW p, Frozen(N, r, n, p)
  PROVE  Within(r, p)
<1> SUFFICES ASSUME NEW w \in Values(p) PROVE w \in Values(r) \cup {<<>>}
  BY DEF Within
<1>1. \A x \in Rows : CopyOf(r, n).rows[x] \in Values(r) \cup {<<>>}
  BY DEF CopyOf, Values
<1>2. CASE w \in {p.rows[x] : x \in Rows}
  BY <1>2 DEF Values, Frozen
<1>3. CASE w \notin {p.rows[x] : x \in Rows}
  <2>1. PICK j \in DOMAIN p.snapshots, x \in Rows : w = p.snapshots[j].rows[x]
    BY <1>3 DEF Values
  <2>2. p.snapshots[j] \in ToSet(p.snapshots)
    BY DEF ToSet
  <2>3. p.snapshots[j] \in ToSet(r.snapshots) \cup {CopyOf(r, n)}
    BY <2>2 DEF Frozen
  <2>4. CASE p.snapshots[j] = CopyOf(r, n)
    BY <1>1, <2>1, <2>4
  <2>5. CASE p.snapshots[j] \in ToSet(r.snapshots)
    <3>1. PICK k \in DOMAIN r.snapshots : p.snapshots[j] = r.snapshots[k]
      BY <2>5 DEF ToSet
    <3> QED
      BY <2>1, <3>1 DEF Values
  <2> QED
    BY <2>3, <2>4, <2>5
<1> QED
  BY <1>2, <1>3

LEMMA EditedValues ==
  ASSUME NEW N, NEW r \in RunsOn(N), NEW i \in DOMAIN r.snapshots, NEW x \in Rows,
         Edit(r, i) \notin ToSet(r.snapshots[i].rows[x]),
         NEW p, Edited(N, r, i, x, p)
  PROVE  Adds(r, Edit(r, i), p)
<1> DEFINE e == Edit(r, i)
<1> HIDE DEF e
<1> SUFFICES ASSUME NEW w \in Values(p)
             PROVE  \/ w \in Values(r) \cup {<<>>}
                    \/ \E v \in Values(r) : w = Append(v, e) /\ e \notin ToSet(v)
  BY DEF Adds, e
<1>1. CASE w \in {p.rows[y] : y \in Rows}
  BY <1>1 DEF Values, Edited
<1>2. CASE w \notin {p.rows[y] : y \in Rows}
  <2>1. PICK j \in DOMAIN p.snapshots, y \in Rows : w = p.snapshots[j].rows[y]
    BY <1>2 DEF Values
  <2>2. j \in 1..Len(r.snapshots) /\ j \in DOMAIN r.snapshots
    BY DEF Edited, RunsOn
  <2>3. w = IF j = i /\ y = x THEN Append(r.snapshots[i].rows[x], e)
            ELSE r.snapshots[j].rows[y]
    BY <2>1, <2>2 DEF Edited, e
  <2>4. r.snapshots[j].rows[y] \in Values(r) /\ r.snapshots[i].rows[x] \in Values(r)
    BY <2>2 DEF Values
  <2> QED
    BY <2>3, <2>4 DEF e
<1> QED
  BY <1>1, <1>2

LEMMA ApprovedValues ==
  ASSUME NEW g, NEW N, NEW r \in RunsOn(N), NEW i \in DOMAIN r.snapshots,
         NEW p, Approved(g, N, r, i, p)
  PROVE  Within(r, p)
<1> SUFFICES ASSUME NEW w \in Values(p) PROVE w \in Values(r) \cup {<<>>}
  BY DEF Within
<1>1. CASE w \in {p.rows[x] : x \in Rows}
  <2>1. PICK x \in Rows : w = p.rows[x]
    BY <1>1
  <2>2. w = r.snapshots[i].rows[x] \/ w = r.rows[x]
    BY <2>1 DEF Approved
  <2> QED
    BY <2>2 DEF Values
<1>2. CASE w \notin {p.rows[x] : x \in Rows}
  <2>1. PICK j \in DOMAIN p.snapshots, x \in Rows : w = p.snapshots[j].rows[x]
    BY <1>2 DEF Values
  <2>2. j \in 1..Len(r.snapshots) /\ j \in DOMAIN r.snapshots
    BY DEF Approved, RunsOn
  <2>3. w = r.snapshots[j].rows[x]
    BY <2>1, <2>2 DEF Approved
  <2> QED
    BY <2>2, <2>3 DEF Values
<1> QED
  BY <1>1, <1>2

-----------------------------------------------------------------------------
(* Every change is applied once.                                           *)

\* A node that will not be executed any more, if its status never goes back.
Past(r, n) == r.node[n].status \notin {"pending", "ready", "running"}

\* No value bears a mark twice, and what a rule has done is done by a node that
\* will not be executed again.
Once(N, r) ==
    \A v \in Values(r) :
        /\ IsInjective(v)
        /\ \A k \in DOMAIN v : v[k][1] = "rule" => v[k][2] \in N /\ Past(r, v[k][2])

NoneReturns(N, r, p) == \A m \in N : Past(r, m) => Past(p, m)

LEMMA OnceWithin ==
  ASSUME NEW N, NEW r \in RunsOn(N), Once(N, r), NEW p, Within(r, p), NoneReturns(N, r, p)
  PROVE  Once(N, p)
<1> SUFFICES ASSUME NEW w \in Values(p)
             PROVE  /\ IsInjective(w)
                    /\ \A k \in DOMAIN w : w[k][1] = "rule" =>
                                               w[k][2] \in N /\ Past(p, w[k][2])
  BY DEF Once
<1>1. w \in Values(r) \/ w = <<>>
  BY DEF Within
<1>2. CASE w = <<>>
  BY <1>2 DEF IsInjective
<1> QED
  BY <1>1, <1>2 DEF Once, NoneReturns

LEMMA OnceAdds ==
  ASSUME NEW N, NEW r \in RunsOn(N), Once(N, r),
         NEW p, NEW e \in Marks, Adds(r, e, p), NoneReturns(N, r, p),
         e[1] = "rule" => e[2] \in N /\ ~Past(r, e[2]) /\ Past(p, e[2])
  PROVE  Once(N, p)
<1> SUFFICES ASSUME NEW w \in Values(p)
             PROVE  /\ IsInjective(w)
                    /\ \A k \in DOMAIN w : w[k][1] = "rule" =>
                                               w[k][2] \in N /\ Past(p, w[k][2])
  BY DEF Once
<1>1. CASE w = <<>>
  BY <1>1 DEF IsInjective
<1>2. CASE w \in Values(r)
  BY <1>2 DEF Once, NoneReturns
<1>3. CASE w \notin Values(r) \cup {<<>>}
  <2>1. PICK v \in Values(r) : w = Append(v, e) /\ (e[1] = "edit" => e \notin ToSet(v))
    BY <1>3 DEF Adds
  <2>2. v \in Seq(Marks)
    BY ValuesType
  <2>3. e \notin ToSet(v)
    <3> SUFFICES ASSUME e[1] # "edit", NEW k \in DOMAIN v, e = v[k] PROVE FALSE
      BY <2>1 DEF ToSet
    <3>1. e[1] = "rule"
      BY DEF Marks
    <3> QED
      BY <3>1 DEF Once
  <2>4. \A k \in DOMAIN v : v[k] # e
    BY <2>3 DEF ToSet
  <2>5. /\ DOMAIN w = 1..(Len(v) + 1) /\ DOMAIN v = 1..Len(v) /\ Len(v) \in Nat
        /\ \A k \in 1..Len(v) : w[k] = v[k]
        /\ w[Len(v) + 1] = e
    BY <2>1, <2>2
  <2>6. /\ IsInjective(v)
        /\ \A k \in DOMAIN v : v[k][1] = "rule" => v[k][2] \in N /\ Past(p, v[k][2])
    BY DEF Once, NoneReturns
  <2>7. IsInjective(w)
    <3> SUFFICES ASSUME NEW a \in DOMAIN w, NEW b \in DOMAIN w, w[a] = w[b] PROVE a = b
      BY DEF IsInjective
    <3>1. CASE a \in 1..Len(v) /\ b \in 1..Len(v)
      BY <2>5, <2>6, <3>1 DEF IsInjective
    <3>2. CASE ~(a \in 1..Len(v) /\ b \in 1..Len(v))
      BY <2>4, <2>5, <3>2
    <3> QED
      BY <3>1, <3>2
  <2>8. ASSUME NEW k \in DOMAIN w, w[k][1] = "rule" PROVE w[k][2] \in N /\ Past(p, w[k][2])
    <3>1. CASE k \in 1..Len(v)
      BY <2>5, <2>6, <2>8, <3>1
    <3>2. CASE k \notin 1..Len(v)
      BY <2>5, <2>8, <3>2
    <3> QED
      BY <3>1, <3>2
  <2> QED
    BY <2>7, <2>8
<1> QED
  BY <1>1, <1>2, <1>3

OnceRuns(N) == {r \in RunsOn(N) : Once(N, r)}

LEMMA OnceExecute ==
  ASSUME NEW g, IsGraph(g), NEW N \in SUBSET Nodes, IsFiniteSet(N),
         NEW r \in OnceRuns(N), NEW n,
         \A s \in OnceRuns(N) : RefreshReadiness(g, s) \in OnceRuns(N)
  PROVE  Execute(g, r, n) \in OnceRuns(N)
<1> DEFINE p == Execute(g, r, n)
<1>0. r \in RunsOn(N) /\ Once(N, r)
  BY DEF OnceRuns
<1>1. Executed(g, N, r, n, p)
  BY <1>0, ExecuteType
<1> HIDE DEF p
<1>2. ASSUME n \in N, Frozen(N, r, n, p) PROVE p \in OnceRuns(N)
  <2>1. Within(r, p)
    BY <1>0, <1>2, FrozenValues
  <2>2. NoneReturns(N, r, p)
    BY <1>2 DEF Frozen, NoneReturns, Past
  <2>3. Once(N, p)
    BY <1>0, <2>1, <2>2, OnceWithin
  <2> QED
    BY <1>2, <2>3 DEF OnceRuns, Frozen
<1>3. ASSUME n \in N, r.node[n].status \in {"ready", "running"},
             NEW c, RowsChanged(g, N, r, n, c), NEW f, f \in RunsOn(N), SameRows(c, f),
             NoneReturns(N, r, f), Past(f, n)
      PROVE  f \in OnceRuns(N)
  <2>1. <<"rule", n>> \in Marks
    BY <1>3 DEF Marks
  <2>3. ~Past(r, n)
    BY <1>3 DEF Past
  <2> DEFINE e == <<"rule", n>>
  <2>2. Adds(r, e, c) /\ Values(f) = Values(c)
    BY <1>0, <1>3, ChangedValues, SameValues
  <2>4. e \in Marks /\ e[2] = n
    BY <2>1
  <2> HIDE DEF e
  <2>6. Adds(r, e, f)
    BY <2>2 DEF Adds
  <2>5. Once(N, f)
    BY <1>0, <1>3, <2>3, <2>4, <2>6, OnceAdds
  <2> QED
    BY <1>3, <2>5 DEF OnceRuns
<1>4. ASSUME n \in N, r.node[n].status \in {"ready", "running"}, Fails(g, N, r, n, p)
      PROVE  p \in OnceRuns(N)
  <2>1. PICK c : RowsChanged(g, N, r, n, c) /\ StatusSet(N, c, n, "failed", "failed", p)
    BY <1>4 DEF Fails
  <2>2. p \in RunsOn(N) /\ SameRows(c, p) /\ NoneReturns(N, r, p) /\ Past(p, n)
    BY <1>4, <2>1 DEF RowsChanged, StatusSet, NoneReturns, Past
  <2> QED
    BY <1>3, <1>4, <2>1, <2>2
<1>5. ASSUME n \in N, r.node[n].status \in {"ready", "running"}, Succeeds(g, N, r, n, p)
      PROVE  p \in OnceRuns(N)
  <2>1. PICK c, f : RowsChanged(g, N, r, n, c) /\ Finished(g, N, c, n, f)
                    /\ p = RefreshReadiness(g, f)
    BY <1>5 DEF Succeeds
  <2>2. f \in RunsOn(N) /\ SameRows(c, f) /\ NoneReturns(N, r, f) /\ Past(f, n)
    BY <1>5, <2>1 DEF RowsChanged, Finished, NoneReturns, Past
  <2>3. f \in OnceRuns(N)
    BY <1>3, <1>5, <2>1, <2>2
  <2> QED
    BY <2>1, <2>3
<1>6. p \in OnceRuns(N)
  BY <1>1, <1>2, <1>4, <1>5 DEF Executed
<1> QED
  BY <1>6 DEF p

LEMMA OnceSame ==
  ASSUME NEW N, NEW r \in OnceRuns(N), NEW p \in RunsOn(N), SameRows(r, p),
         NoneReturns(N, r, p)
  PROVE  p \in OnceRuns(N)
<1>1. Within(r, p)
  BY SameValues DEF Within
<1> QED
  BY <1>1, OnceWithin DEF OnceRuns

LEMMA OnceClosed ==
  ASSUME NEW g, IsGraph(g), NEW N \in SUBSET Nodes, IsFiniteSet(N)
  PROVE  /\ Closed(g, N, OnceRuns(N))
         /\ \A r \in OnceRuns(N) : \A n \in Nodes : Execute(g, r, n) \in OnceRuns(N)
<1>1. ASSUME NEW s \in OnceRuns(N) PROVE PromoteOnce(g, s) \in OnceRuns(N)
  <2>1. Promoted(g, N, s, PromoteOnce(g, s))
    BY PromoteOnceType DEF OnceRuns
  <2> QED
    BY <2>1, OnceSame DEF Promoted, NoneReturns, Past
<1>2. ASSUME NEW s \in OnceRuns(N) PROVE [s EXCEPT !.status = RunStatus(s)] \in OnceRuns(N)
  <2>1. RunStatus(s) \in BatchStatus /\ s \in RunsOn(N)
    BY RunStatusType DEF BatchStatus, OnceRuns
  <2>2. Restated(N, s, RunStatus(s), [s EXCEPT !.status = RunStatus(s)])
    BY <2>1, RestatedType
  <2> QED
    BY <2>2, OnceSame DEF Restated, NoneReturns, Past
<1>3. OnceRuns(N) \in SUBSET RunsOn(N)
  BY DEF OnceRuns
<1>4. \A s \in OnceRuns(N) : RefreshReadiness(g, s) \in OnceRuns(N)
  BY <1>1, <1>2, <1>3, RefreshStays
<1>5. \A s \in OnceRuns(N) : \A n : Execute(g, s, n) \in OnceRuns(N)
  BY <1>4, OnceExecute
<1> QED
  BY <1>1, <1>2, <1>3, <1>5 DEF Closed

\* Nothing is done twice to a row, on whatever graph the batch is, however the
\* graph was changed, whatever was clicked, reloaded or executed by a late timer.
OnceInv == run # None => Once(DOMAIN run.node, run)

\* No node changes a row twice, and no edit is made twice.
THEOREM AppliedOnceAlways == Spec => []AppliedOnce
<1>1. Init => OnceInv
  BY DEF Init, OnceInv
<1>2. TypeOK /\ OnceInv /\ [Next]_vars => OnceInv'
  <2> SUFFICES ASSUME TypeOK, OnceInv, [Next]_vars PROVE OnceInv'
    OBVIOUS
  <2> DEFINE N == DOMAIN run.node
  <2>0. IsGraph(graph)
    BY DEF TypeOK
  <2>1. run # None => N \in SUBSET Nodes /\ IsFiniteSet(N) /\ run \in OnceRuns(N)
    BY DEF TypeOK, OnceInv, OnceRuns
  <2>2. ASSUME NEW M, run' \in OnceRuns(M) PROVE OnceInv'
    BY <2>2 DEF OnceRuns, OnceInv, RunsOn
  <2> HIDE DEF N
  <2>3. run # None => /\ Closed(graph, N, OnceRuns(N))
                      /\ \A r \in OnceRuns(N) : \A n \in Nodes :
                            Execute(graph, r, n) \in OnceRuns(N)
    BY <2>0, <2>1, OnceClosed
  <2>4. ASSUME StartRun PROVE OnceInv'
    <3> DEFINE M == graph.nodes
               r == NewRun(graph)
    <3>1. M \in SUBSET Nodes /\ IsFiniteSet(M)
      BY <2>0 DEF IsGraph
    <3>2. Fresh(graph, r)
      BY NewRunType
    <3> HIDE DEF r
    <3>3. Values(r) \subseteq {<<>>}
      BY <3>2 DEF Fresh, Values
    <3>4. Once(M, r)
      BY <3>3 DEF Once, IsInjective
    <3>5. r \in OnceRuns(M)
      BY <3>2, <3>4 DEF OnceRuns, Fresh
    <3>6. run' = Advance(graph, r)
      BY <2>4 DEF StartRun, r
    <3> HIDE DEF M
    <3>7. run' \in OnceRuns(M)
      BY <2>0, <3>1, <3>5, <3>6, OnceClosed, ClosedAdvance
    <3> QED
      BY <2>2, <3>7
  <2>5. ASSUME NEW n \in Nodes, ExecuteNode(n) PROVE OnceInv'
    <3>1. run # None /\ n \in N /\ run' = Mark(run, n)
      BY <2>5 DEF ExecuteNode, N, Mark
    <3>2. run \in RunsOn(N)
      BY <2>1, <3>1 DEF OnceRuns
    <3>3. CASE run' = run
      BY <2>1, <2>2, <3>1, <3>3
    <3>4. CASE run.node[n].status = "ready" /\ StatusSet(N, run, n, "running", "running", run')
      BY <2>1, <2>2, <3>1, <3>4, OnceSame DEF StatusSet, NoneReturns, Past
    <3> QED
      BY <3>1, <3>2, <3>3, <3>4, MarkType
  <2>6. ASSUME NEW n \in Nodes, TimerFires(n) PROVE OnceInv'
    <3>1. run # None /\ run' = Advance(graph, Execute(graph, run, n))
      BY <2>6 DEF TimerFires
    <3>2. run' \in OnceRuns(N)
      BY <2>0, <2>1, <2>3, <3>1, ClosedAdvance
    <3> QED
      BY <2>2, <3>2
  <2>7. ASSUME NEW x \in Rows, EditRow(x) PROVE OnceInv'
    <3> DEFINE i == Active(run)
    <3>1. /\ run # None /\ i # 0
          /\ Edit(run, i) \notin ToSet(run.snapshots[i].rows[x])
          /\ run' = [run EXCEPT !.snapshots[i].rows[x] = Append(@, Edit(run, i))]
      BY <2>7 DEF EditRow, Edit
    <3>2. run \in RunsOn(N) /\ Once(N, run)
      BY <2>1, <3>1 DEF OnceRuns
    <3>3. i \in DOMAIN run.snapshots /\ run.snapshots[i] \in Snapshots
      BY <3>1, <3>2, ActiveIsSnapshot
    <3> HIDE DEF i
    <3>4. Edited(N, run, i, x, run')
      BY <3>1, <3>2, <3>3, EditType
    <3>5. Adds(run, Edit(run, i), run')
      BY <3>1, <3>2, <3>3, <3>4, EditedValues
    <3>6. Edit(run, i) \in Marks /\ Edit(run, i)[1] = "edit"
      BY <3>3 DEF Edit, Marks, Snapshots
    <3>7. NoneReturns(N, run, run') /\ run' \in RunsOn(N)
      BY <3>4 DEF Edited, NoneReturns, Past
    <3>8. Once(N, run')
      BY <3>2, <3>5, <3>6, <3>7, OnceAdds
    <3> QED
      BY <2>2, <3>7, <3>8 DEF OnceRuns
  <2>8. ASSUME ApproveSnapshot PROVE OnceInv'
    <3> DEFINE i == Active(run)
               a == Approve(graph, run, i)
    <3>1. run # None /\ i # 0 /\ run' = Advance(graph, RefreshReadiness(graph, a))
      BY <2>8 DEF ApproveSnapshot
    <3>2. run \in RunsOn(N) /\ Once(N, run)
      BY <2>1, <3>1 DEF OnceRuns
    <3>3. i \in DOMAIN run.snapshots
      BY <3>1, <3>2, ActiveIsSnapshot
    <3> HIDE DEF i
    <3>4. Approved(graph, N, run, i, a)
      BY <2>0, <3>2, <3>3, ApproveType
    <3> HIDE DEF a
    <3>5. Within(run, a)
      BY <3>2, <3>3, <3>4, ApprovedValues
    <3>6. a \in RunsOn(N) /\ NoneReturns(N, run, a)
      BY <3>4 DEF Approved, NoneReturns, Past
    <3>7. a \in OnceRuns(N)
      BY <3>2, <3>5, <3>6, OnceWithin DEF OnceRuns
    <3>8. RefreshReadiness(graph, a) \in OnceRuns(N)
      BY <2>1, <2>3, <3>1, <3>7, ClosedRefresh
    <3>9. run' \in OnceRuns(N)
      BY <2>0, <2>1, <2>3, <3>1, <3>8, ClosedAdvance
    <3> QED
      BY <2>2, <3>9
  <2>9. ASSUME UNCHANGED run PROVE OnceInv'
    BY <2>9 DEF OnceInv
  <2> QED
    BY <2>4, <2>5, <2>6, <2>7, <2>8, <2>9
    DEF Next, Reload, AddNode, UpdateNode, SetMode, AddEdge, RemoveEdge, RemoveNode,
        Redesign, vars
<1>3. TypeOK /\ OnceInv => AppliedOnce
  <2> SUFFICES ASSUME TypeOK, OnceInv, run # None, NEW x \in Rows
               PROVE  IsInjective(run.rows[x])
    BY DEF AppliedOnce, Started
  <2>1. run.rows[x] \in Values(run)
    BY DEF Values
  <2> QED
    BY <2>1 DEF OnceInv, Once
<1> QED
  BY <1>1, <1>2, <1>3, Typing, PTL DEF Spec

-----------------------------------------------------------------------------
(* Paths.                                                                  *)

LEMMA LeadsInto ==
  ASSUME NEW g, NEW m, NEW n, Leads(g, m, n)
  PROVE  n \in g.nodes
BY DEF Leads, Targets

LEMMA EdgeLeads ==
  ASSUME NEW g, NEW m, NEW n \in g.nodes, <<m, n>> \in DOMAIN g.edges
  PROVE  Leads(g, m, n)
BY DEF Leads, Targets

LEMMA LeadsOn ==
  ASSUME NEW g, NEW m, NEW k, NEW n \in g.nodes,
         Leads(g, m, k), <<k, n>> \in DOMAIN g.edges
  PROVE  Leads(g, m, n)
BY DEF Leads, Targets

LEMMA LeadsFurther ==
  ASSUME NEW g, NEW m, NEW k, NEW n, Leads(g, m, k), Leads(g, k, n)
  PROVE  Leads(g, m, n)
<1> SUFFICES ASSUME NEW S \in SUBSET g.nodes, Targets(g, S \cup {m}) \subseteq S
             PROVE  n \in S
  BY DEF Leads
<1>1. k \in S
  BY DEF Leads
<1>2. Targets(g, S \cup {k}) \subseteq S
  BY <1>1 DEF Targets
<1> QED
  BY <1>2 DEF Leads

\* The last edge of a path.
LEMMA LastEdge ==
  ASSUME NEW g, NEW m, NEW n, Leads(g, m, n)
  PROVE  \/ <<m, n>> \in DOMAIN g.edges
         \/ \E k \in g.nodes : Leads(g, m, k) /\ <<k, n>> \in DOMAIN g.edges
<1> SUFFICES ASSUME <<m, n>> \notin DOMAIN g.edges,
                    \A k \in g.nodes : Leads(g, m, k) => <<k, n>> \notin DOMAIN g.edges
             PROVE  FALSE
  OBVIOUS
<1> DEFINE S == {q \in g.nodes : Leads(g, m, q) /\ q # n}
<1>1. ASSUME NEW q \in Targets(g, S \cup {m}) PROVE q \in S
  <2>1. q \in g.nodes
    BY DEF Targets
  <2>2. PICK p \in S \cup {m} : <<p, q>> \in DOMAIN g.edges
    BY DEF Targets
  <2>3. CASE p = m
    BY <2>1, <2>2, <2>3, EdgeLeads
  <2>4. CASE p \in S
    BY <2>1, <2>2, <2>4, LeadsOn
  <2> QED
    BY <2>2, <2>3, <2>4
<1>2. S \in SUBSET g.nodes /\ Targets(g, S \cup {m}) \subseteq S
  BY <1>1
<1>3. n \in S
  <2> HIDE DEF S
  <2> QED
    BY <1>2 DEF Leads
<1> QED
  BY <1>3

-----------------------------------------------------------------------------
(* How a batch proceeds along a graph that nobody changes.                 *)

\* What lies before the entry never starts, and nothing starts before what lies
\* before it has ended.
Progress(g, r) ==
    /\ r.node[g.entry].status # "pending"
    /\ \A m \in g.nodes : Leads(g, m, g.entry) => r.node[m].status = "pending"
    /\ \A m, n \in g.nodes :
          Leads(g, m, n) /\ r.node[n].status # "pending" =>
              Ended(r.node[m].status) \/ Leads(g, m, g.entry)

\* A node acts: it leaves other nodes in their status and changes what they have
\* received along its edges only.
Acts(g, r, n, p) ==
    /\ n \in g.nodes /\ p \in RunsOn(g.nodes)
    /\ r.node[n].status \in {"ready", "running", "waiting_review"}
    /\ p.node[n].status \in {"running", "waiting_review", "completed", "failed"}
    /\ p.node[n].status = "completed" => p.node[n].output = r.node[n].input
    /\ \A m \in g.nodes :
          /\ m # n => /\ p.node[m].status = r.node[m].status
                      /\ p.node[m].output = r.node[m].output
          /\ <<n, m>> \notin DOMAIN g.edges => p.node[m].input = r.node[m].input

\* What lies behind an active node is pending.
LEMMA AheadIsPending ==
  ASSUME NEW g, NEW r, Progress(g, r), NEW n \in g.nodes,
         r.node[n].status \in {"ready", "running", "waiting_review"},
         NEW m \in g.nodes, Leads(g, n, m)
  PROVE  r.node[m].status = "pending"
BY DEF Progress, Ended

LEMMA ActsFacts ==
  ASSUME NEW g, g.entry \in g.nodes, NEW r, Progress(g, r), NEW n, NEW p, Acts(g, r, n, p)
  PROVE  /\ Progress(g, p)
         /\ \A m \in g.nodes : r.node[m].status # "pending" => p.node[m].status # "pending"
         /\ \A m \in g.nodes : r.node[m].status # "pending" =>
                                   p.node[m].input = r.node[m].input
<1>1. ASSUME NEW m \in g.nodes, r.node[m].status # "pending" PROVE p.node[m].status # "pending"
  BY <1>1 DEF Acts
<1>2. ASSUME NEW m \in g.nodes, Ended(r.node[m].status) PROVE Ended(p.node[m].status)
  BY <1>2 DEF Acts, Ended
<1>3. ASSUME NEW m \in g.nodes, r.node[m].status = "pending" PROVE p.node[m].status = "pending"
  BY <1>3 DEF Acts
<1>4. p.node[g.entry].status # "pending"
  BY DEF Acts, Progress
<1>5. Progress(g, p)
  BY <1>2, <1>3, <1>4 DEF Progress
<1>6. ASSUME NEW m \in g.nodes, r.node[m].status # "pending"
      PROVE  p.node[m].input = r.node[m].input
  <2>1. <<n, m>> \notin DOMAIN g.edges
    BY <1>6, AheadIsPending, EdgeLeads DEF Acts
  <2> QED
    BY <2>1 DEF Acts
<1> QED
  BY <1>1, <1>5, <1>6

LEMMA PromotedProgress ==
  ASSUME NEW g, IsGraph(g), ValidateRuleGraph(g), NEW r \in RunsOn(g.nodes),
         Progress(g, r), NEW p, Promoted(g, g.nodes, r, p)
  PROVE  Progress(g, p)
<1> DEFINE N == g.nodes
<1>1. /\ g.entry \in N /\ DOMAIN g.edges \subseteq N \X N
      /\ N \subseteq Nodes /\ DOMAIN r.node = N
  BY DEF IsGraph, ValidateRuleGraph, RunsOn
<1>2. \A m \in N : r.node[m].status # "pending" => p.node[m].status = r.node[m].status
  BY DEF Promoted
<1>3. ASSUME NEW n \in Promotable(g, r)
      PROVE  /\ n \in N
             /\ \E k \in N : <<k, n>> \in DOMAIN g.edges
             /\ \A k \in N : <<k, n>> \in DOMAIN g.edges => Ended(r.node[k].status)
  <2>1. n \in N /\ r.node[n].status = "pending" /\ PredecessorsDone(g, r, n)
    BY <1>1 DEF Promotable
  <2>2. n # g.entry
    BY <2>1 DEF Progress
  <2>3. Incoming(g, n) # {} /\ \A k \in Incoming(g, n) : k \in N => Ended(r.node[k].status)
    BY <1>1, <2>1, <2>2 DEF PredecessorsDone
  <2>4. \A k : <<k, n>> \in DOMAIN g.edges => k \in N
    BY <1>1
  <2> QED
    BY <1>1, <2>1, <2>3, <2>4 DEF Incoming
<1>4. ASSUME NEW m \in N, Leads(g, m, g.entry) PROVE p.node[m].status = "pending"
  <2>1. r.node[m].status = "pending"
    BY <1>4 DEF Progress
  <2>2. m \notin Promotable(g, r)
    <3> SUFFICES ASSUME m \in Promotable(g, r) PROVE FALSE
      OBVIOUS
    <3>1. PICK k \in N : <<k, m>> \in DOMAIN g.edges /\ Ended(r.node[k].status)
      BY <1>3
    <3>2. Leads(g, k, g.entry)
      BY <1>4, <3>1, EdgeLeads, LeadsFurther
    <3> QED
      BY <3>1, <3>2 DEF Progress, Ended
  <2> QED
    BY <2>1, <2>2 DEF Promoted
<1>5. ASSUME NEW m \in N, NEW n \in N, Leads(g, m, n), p.node[n].status # "pending"
      PROVE  Ended(p.node[m].status) \/ Leads(g, m, g.entry)
  <2>1. CASE r.node[n].status # "pending"
    <3>1. Ended(r.node[m].status) \/ Leads(g, m, g.entry)
      BY <1>5, <2>1 DEF Progress
    <3> QED
      BY <1>2, <3>1 DEF Ended
  <2>2. CASE r.node[n].status = "pending"
    <3>1. n \in Promotable(g, r)
      BY <1>5, <2>2 DEF Promoted
    <3>2. CASE <<m, n>> \in DOMAIN g.edges
      BY <1>2, <1>3, <3>1, <3>2 DEF Ended
    <3>3. CASE <<m, n>> \notin DOMAIN g.edges
      <4>1. PICK k \in N : Leads(g, m, k) /\ <<k, n>> \in DOMAIN g.edges
        BY <1>5, <3>3, LastEdge
      <4>2. r.node[k].status # "pending"
        BY <1>3, <3>1, <4>1 DEF Ended
      <4>3. Ended(r.node[m].status) \/ Leads(g, m, g.entry)
        BY <4>1, <4>2 DEF Progress
      <4> QED
        BY <1>2, <4>3 DEF Ended
    <3> QED
      BY <3>2, <3>3
  <2> QED
    BY <2>1, <2>2
<1>6. p.node[g.entry].status # "pending"
  BY <1>1, <1>2 DEF Progress
<1> QED
  BY <1>4, <1>5, <1>6 DEF Progress

\* Marks are those of nodes that have started, in an order that the graph allows.
Sorted(g, r) ==
    \A v \in Values(r) :
        /\ \A k \in DOMAIN v : v[k][2] \in g.nodes /\ r.node[v[k][2]].status # "pending"
        /\ \A j, k \in DOMAIN v : j < k => ~Leads(g, v[k][2], v[j][2])

StaysStarted(g, r, p) ==
    \A m \in g.nodes : r.node[m].status # "pending" => p.node[m].status # "pending"

LEMMA SortedWithin ==
  ASSUME NEW g, NEW r, Sorted(g, r), NEW p, Within(r, p), StaysStarted(g, r, p)
  PROVE  Sorted(g, p)
<1> SUFFICES ASSUME NEW w \in Values(p)
             PROVE  /\ \A k \in DOMAIN w : w[k][2] \in g.nodes
                                           /\ p.node[w[k][2]].status # "pending"
                    /\ \A j, k \in DOMAIN w : j < k => ~Leads(g, w[k][2], w[j][2])
  BY DEF Sorted
<1>1. CASE w = <<>>
  BY <1>1
<1>2. CASE w \in Values(r)
  BY <1>2 DEF Sorted, StaysStarted
<1> QED
  BY <1>1, <1>2 DEF Within

LEMMA SortedAdds ==
  ASSUME NEW g, NEW r \in RunsOn(g.nodes), Sorted(g, r), Progress(g, r),
         NEW e \in Marks, e[2] \in g.nodes,
         r.node[e[2]].status \in {"ready", "running", "waiting_review"},
         NEW p, Adds(r, e, p), StaysStarted(g, r, p)
  PROVE  Sorted(g, p)
<1> SUFFICES ASSUME NEW w \in Values(p)
             PROVE  /\ \A k \in DOMAIN w : w[k][2] \in g.nodes
                                           /\ p.node[w[k][2]].status # "pending"
                    /\ \A j, k \in DOMAIN w : j < k => ~Leads(g, w[k][2], w[j][2])
  BY DEF Sorted
<1>1. CASE w = <<>>
  BY <1>1
<1>2. CASE w \in Values(r)
  BY <1>2 DEF Sorted, StaysStarted
<1>3. CASE w \notin Values(r) \cup {<<>>}
  <2>1. PICK v \in Values(r) : w = Append(v, e)
    BY <1>3 DEF Adds
  <2>2. v \in Seq(Marks)
    BY ValuesType
  <2>3. /\ DOMAIN w = 1..(Len(v) + 1) /\ DOMAIN v = 1..Len(v) /\ Len(v) \in Nat
        /\ \A k \in 1..Len(v) : w[k] = v[k]
        /\ w[Len(v) + 1] = e
    BY <2>1, <2>2
  <2>4. /\ \A k \in 1..Len(v) : v[k][2] \in g.nodes /\ r.node[v[k][2]].status # "pending"
        /\ \A j, k \in 1..Len(v) : j < k => ~Leads(g, v[k][2], v[j][2])
    BY <2>3 DEF Sorted
  <2>5. ASSUME NEW k \in DOMAIN w
        PROVE  w[k][2] \in g.nodes /\ p.node[w[k][2]].status # "pending"
    <3>1. CASE k \in 1..Len(v)
      BY <2>3, <2>4, <3>1 DEF StaysStarted
    <3>2. CASE k \notin 1..Len(v)
      BY <2>3, <3>2 DEF StaysStarted
    <3> QED
      BY <3>1, <3>2
  <2>6. ASSUME NEW j \in DOMAIN w, NEW k \in DOMAIN w, j < k
        PROVE  ~Leads(g, w[k][2], w[j][2])
    <3>1. j \in 1..Len(v)
      BY <2>3, <2>6
    <3>2. CASE k \in 1..Len(v)
      BY <2>3, <2>4, <2>6, <3>1, <3>2
    <3>3. CASE k \notin 1..Len(v)
      <4>1. w[k] = e /\ w[j] = v[j]
        BY <2>3, <3>1, <3>3
      <4> QED
        BY <2>4, <3>1, <4>1, AheadIsPending
    <3> QED
      BY <3>2, <3>3
  <2> QED
    BY <2>5, <2>6
<1> QED
  BY <1>1, <1>2, <1>3

\* A snapshot that waits belongs to a review that waits with what it has received.
Awaits(g, r) ==
    /\ \A i \in Waiting(r) :
          LET snap == r.snapshots[i] IN
          /\ snap.node \in g.nodes /\ g.kind[snap.node] = "review"
          /\ r.node[snap.node].status = "waiting_review"
          /\ snap.ids = r.node[snap.node].input
    /\ \A i, j \in Waiting(r) : r.snapshots[i].node = r.snapshots[j].node => i = j

\* Nothing has reached a node that was executed or skipped already.
NoneLate(g, r) ==
    \A m \in g.nodes :
        /\ r.node[m].status = "completed" => r.node[m].output = r.node[m].input
        /\ r.node[m].status = "skipped" => r.node[m].input = <<>>

OrderedRuns(g) ==
    {r \in RunsOn(g.nodes) : Progress(g, r) /\ Sorted(g, r) /\ Awaits(g, r) /\ NoneLate(g, r)}

\* A graph on which batches are in order.
Fit(g) == IsGraph(g) /\ ValidateRuleGraph(g)

LEMMA FitFacts ==
  ASSUME NEW g, Fit(g)
  PROVE  g.entry \in g.nodes /\ g.nodes \in SUBSET Nodes /\ IsFiniteSet(g.nodes)
BY DEF Fit, IsGraph, ValidateRuleGraph

LEMMA ActsNoneLate ==
  ASSUME NEW g, Fit(g), NEW r \in OrderedRuns(g), NEW n, NEW p, Acts(g, r, n, p)
  PROVE  NoneLate(g, p)
<1>1. \A m \in g.nodes : r.node[m].status # "pending" => p.node[m].input = r.node[m].input
  BY ActsFacts, FitFacts DEF OrderedRuns
<1>2. n \in g.nodes /\ p.node[n].input = r.node[n].input
  BY <1>1 DEF Acts
<1>3. NoneLate(g, r)
  BY DEF OrderedRuns
<1>4. ASSUME NEW m \in g.nodes, m # n
      PROVE  /\ p.node[m].status = "completed" => p.node[m].output = p.node[m].input
             /\ p.node[m].status = "skipped" => p.node[m].input = <<>>
  BY <1>1, <1>3, <1>4 DEF Acts, NoneLate
<1>5. /\ p.node[n].status = "completed" => p.node[n].output = p.node[n].input
      /\ p.node[n].status # "skipped"
  BY <1>2 DEF Acts
<1> QED
  BY <1>4, <1>5 DEF NoneLate

\* A step of a node that does not wait leaves reviews as they are.
LEMMA ActsAwaits ==
  ASSUME NEW g, Fit(g), NEW r \in OrderedRuns(g), NEW n, NEW p, Acts(g, r, n, p),
         r.node[n].status \in {"ready", "running"}, p.snapshots = r.snapshots
  PROVE  Awaits(g, p)
<1>1. \A m \in g.nodes : r.node[m].status # "pending" => p.node[m].input = r.node[m].input
  BY ActsFacts, FitFacts DEF OrderedRuns
<1>2. Awaits(g, r) /\ Waiting(p) = Waiting(r)
  BY DEF OrderedRuns, Waiting
<1>3. ASSUME NEW i \in Waiting(r)
      PROVE  /\ p.node[r.snapshots[i].node].status = "waiting_review"
             /\ p.node[r.snapshots[i].node].input = r.node[r.snapshots[i].node].input
  <2>1. r.snapshots[i].node \in g.nodes
        /\ r.node[r.snapshots[i].node].status = "waiting_review"
    BY <1>2 DEF Awaits
  <2> QED
    BY <1>1, <2>1 DEF Acts
<1> QED
  BY <1>2, <1>3 DEF Awaits

LEMMA OrderedActs ==
  ASSUME NEW g, Fit(g), NEW r \in OrderedRuns(g), NEW n, NEW p, Acts(g, r, n, p),
         Awaits(g, p),
         Within(r, p) \/ \E e \in Marks : e[2] = n /\ Adds(r, e, p)
  PROVE  p \in OrderedRuns(g)
<1>1. r \in RunsOn(g.nodes) /\ Progress(g, r) /\ Sorted(g, r)
  BY DEF OrderedRuns
<1>2. Progress(g, p) /\ StaysStarted(g, r, p)
  BY <1>1, ActsFacts, FitFacts DEF StaysStarted
<1>3. NoneLate(g, p)
  BY ActsNoneLate
<1>4. Sorted(g, p)
  <2>1. CASE Within(r, p)
    BY <1>1, <1>2, <2>1, SortedWithin
  <2>2. CASE ~Within(r, p)
    <3>1. PICK e \in Marks : e[2] = n /\ Adds(r, e, p)
      BY <2>2
    <3> QED
      BY <1>1, <1>2, <3>1, SortedAdds DEF Acts
  <2> QED
    BY <2>1, <2>2
<1> QED
  BY <1>2, <1>3, <1>4 DEF OrderedRuns, Acts

\* What changes no node but the status of pending ones, and no row, keeps the order.
LEMMA OrderedRest ==
  ASSUME NEW g, NEW r \in OrderedRuns(g), NEW p \in RunsOn(g.nodes), SameRows(r, p),
         Progress(g, p),
         \A m \in g.nodes :
            /\ p.node[m].input = r.node[m].input
            /\ p.node[m].output = r.node[m].output
            /\ \/ p.node[m].status = r.node[m].status
               \/ /\ r.node[m].status = "pending"
                  /\ p.node[m].status # "completed"
                  /\ p.node[m].status = "skipped" => r.node[m].input = <<>>
  PROVE  p \in OrderedRuns(g)
<1>1. Sorted(g, r) /\ Awaits(g, r) /\ NoneLate(g, r)
  BY DEF OrderedRuns
<1>2. Within(r, p)
  BY SameValues DEF Within
<1>3. StaysStarted(g, r, p)
  BY DEF StaysStarted
<1>4. Sorted(g, p)
  BY <1>1, <1>2, <1>3, SortedWithin
<1>5. NoneLate(g, p)
  BY <1>1 DEF NoneLate
<1>6. p.snapshots = r.snapshots /\ Waiting(p) = Waiting(r)
  BY DEF SameRows, Waiting
<1>7. Awaits(g, p)
  BY <1>1, <1>6 DEF Awaits
<1> QED
  BY <1>4, <1>5, <1>7 DEF OrderedRuns

LEMMA OrderedPromote ==
  ASSUME NEW g, Fit(g), NEW r \in OrderedRuns(g)
  PROVE  PromoteOnce(g, r) \in OrderedRuns(g)
<1> DEFINE p == PromoteOnce(g, r)
<1>1. r \in RunsOn(g.nodes) /\ Progress(g, r)
  BY DEF OrderedRuns
<1>2. Promoted(g, g.nodes, r, p)
  BY <1>1, PromoteOnceType
<1> HIDE DEF p
<1>3. Progress(g, p)
  BY <1>1, <1>2, PromotedProgress DEF Fit
<1>4. p \in OrderedRuns(g)
  BY <1>2, <1>3, OrderedRest DEF Promoted
<1> QED
  BY <1>4 DEF p

LEMMA OrderedRestated ==
  ASSUME NEW g, NEW r \in OrderedRuns(g), NEW batch \in BatchStatus
  PROVE  [r EXCEPT !.status = batch] \in OrderedRuns(g)
<1> DEFINE p == [r EXCEPT !.status = batch]
<1>1. Restated(g.nodes, r, batch, p)
  BY RestatedType DEF OrderedRuns
<1> HIDE DEF p
<1>2. Progress(g, p)
  BY <1>1 DEF Restated, Progress, OrderedRuns
<1>3. p \in OrderedRuns(g)
  BY <1>1, <1>2, OrderedRest DEF Restated
<1> QED
  BY <1>3 DEF p

LEMMA OrderedRefresh ==
  ASSUME NEW g, Fit(g), NEW r \in OrderedRuns(g)
  PROVE  RefreshReadiness(g, r) \in OrderedRuns(g)
<1>1. ASSUME NEW s \in OrderedRuns(g)
      PROVE  [s EXCEPT !.status = RunStatus(s)] \in OrderedRuns(g)
  <2>1. RunStatus(s) \in BatchStatus
    BY RunStatusType DEF BatchStatus, OrderedRuns
  <2> QED
    BY <2>1, OrderedRestated
<1>2. OrderedRuns(g) \in SUBSET RunsOn(g.nodes)
  BY DEF OrderedRuns
<1> QED
  BY <1>1, <1>2, OrderedPromote, RefreshStays, FitFacts

\* The snapshot of a review comes last.
FrozenLast(r, n, p) ==
    LET last == Len(r.snapshots) + 1 IN
    /\ Len(r.snapshots) \in Nat /\ DOMAIN r.snapshots = 1..Len(r.snapshots)
    /\ DOMAIN p.snapshots = 1..last
    /\ \A j \in 1..Len(r.snapshots) : p.snapshots[j] = r.snapshots[j]
    /\ p.snapshots[last] = CopyOf(r, n)
    /\ Waiting(p) = Waiting(r) \cup {last}
    /\ last \notin Waiting(r) /\ Waiting(r) \subseteq 1..Len(r.snapshots)

LEMMA FreezeLast ==
  ASSUME NEW g, NEW r \in OrderedRuns(g), NEW n \in g.nodes,
         r.node[n].status \in {"ready", "running"}, NEW p, Frozen(g.nodes, r, n, p)
  PROVE  FrozenLast(r, n, p)
<1>1. r.snapshots \in Seq(Snapshots)
  BY DEF OrderedRuns, RunsOn
<1>2. ASSUME NEW s \in ToSet(r.snapshots) PROVE s.node # n \/ s.status # "waiting"
  <2>1. PICK i \in DOMAIN r.snapshots : s = r.snapshots[i]
    BY DEF ToSet
  <2>2. s.status = "waiting" => i \in Waiting(r)
    BY <2>1 DEF Waiting
  <2> QED
    BY <2>1, <2>2 DEF OrderedRuns, Awaits
<1>3. p.snapshots = Append(r.snapshots, CopyOf(r, n))
  BY <1>2 DEF Frozen
<1>4. CopyOf(r, n).status = "waiting"
  BY DEF CopyOf
<1> DEFINE c == CopyOf(r, n)
           last == Len(r.snapshots) + 1
<1>5. p.snapshots = Append(r.snapshots, c) /\ c.status = "waiting"
  BY <1>3, <1>4
<1> HIDE DEF c
<1>6. /\ Len(r.snapshots) \in Nat /\ DOMAIN r.snapshots = 1..Len(r.snapshots)
      /\ DOMAIN p.snapshots = 1..last
      /\ \A j \in 1..Len(r.snapshots) : p.snapshots[j] = r.snapshots[j]
      /\ p.snapshots[last] = c
  BY <1>1, <1>5
<1>7. Waiting(p) = Waiting(r) \cup {last} /\ last \notin Waiting(r)
      /\ Waiting(r) \subseteq 1..Len(r.snapshots)
  BY <1>5, <1>6 DEF Waiting
<1> QED
  BY <1>6, <1>7 DEF FrozenLast, c

LEMMA OrderedFreeze ==
  ASSUME NEW g, Fit(g), NEW r \in OrderedRuns(g), NEW n \in g.nodes,
         r.node[n].status \in {"ready", "running"}, g.kind[n] = "review",
         NEW p, Frozen(g.nodes, r, n, p)
  PROVE  p \in OrderedRuns(g)
<1>1. r \in RunsOn(g.nodes) /\ Awaits(g, r)
  BY DEF OrderedRuns
<1>2. Acts(g, r, n, p)
  BY DEF Acts, Frozen
<1>3. Within(r, p)
  BY <1>1, FrozenValues
<1>4. FrozenLast(r, n, p)
  BY FreezeLast
<1> DEFINE last == Len(r.snapshots) + 1
<1>5. /\ Waiting(p) = Waiting(r) \cup {last}
      /\ \A i \in Waiting(r) : p.snapshots[i] = r.snapshots[i] /\ i # last
      /\ p.snapshots[last] = CopyOf(r, n)
  BY <1>4 DEF FrozenLast
<1> HIDE DEF last
<1>6. CopyOf(r, n).node = n /\ CopyOf(r, n).ids = r.node[n].input
  BY DEF CopyOf
<1>7. \A m \in g.nodes : /\ p.node[m].input = r.node[m].input
                         /\ p.node[m].status = IF m = n THEN "waiting_review"
                                               ELSE r.node[m].status
  BY DEF Frozen
<1>8. ASSUME NEW i \in Waiting(p)
      PROVE  LET snap == p.snapshots[i] IN
             /\ snap.node \in g.nodes /\ g.kind[snap.node] = "review"
             /\ p.node[snap.node].status = "waiting_review"
             /\ snap.ids = p.node[snap.node].input
  <2>1. CASE i = last
    <3>1. p.snapshots[i].node = n /\ p.snapshots[i].ids = r.node[n].input
      BY <1>5, <1>6, <2>1
    <3>2. p.node[n].status = "waiting_review" /\ p.node[n].input = r.node[n].input
      BY <1>7
    <3> QED
      BY <3>1, <3>2
  <2>2. CASE i # last
    BY <1>1, <1>5, <1>7, <2>2 DEF Awaits
  <2> QED
    BY <2>1, <2>2
<1>9. \A i \in Waiting(r) : r.snapshots[i].node # n
  BY <1>1 DEF Awaits
<1>10. \A i, j \in Waiting(p) : p.snapshots[i].node = p.snapshots[j].node => i = j
  BY <1>1, <1>5, <1>6, <1>9 DEF Awaits
<1>11. Awaits(g, p)
  BY <1>8, <1>10 DEF Awaits
<1> QED
  BY <1>2, <1>3, <1>11, OrderedActs

\* A node that has changed its rows has acted when its status is set.
LEMMA OrderedWork ==
  ASSUME NEW g, Fit(g), NEW r \in OrderedRuns(g), NEW n \in g.nodes,
         r.node[n].status \in {"ready", "running"},
         NEW c, RowsChanged(g, g.nodes, r, n, c), NEW p, SameRows(c, p), Acts(g, r, n, p)
  PROVE  p \in OrderedRuns(g)
<1> DEFINE e == <<"rule", n>>
<1>1. r \in RunsOn(g.nodes) /\ n \in Nodes
  BY FitFacts DEF OrderedRuns
<1>2. e \in Marks /\ e[2] = n
  BY <1>1 DEF Marks
<1>3. Adds(r, e, c) /\ Values(p) = Values(c)
  BY <1>1, ChangedValues, SameValues
<1> HIDE DEF e
<1>4. Adds(r, e, p)
  BY <1>3 DEF Adds
<1>5. p.snapshots = r.snapshots
  BY DEF SameRows, RowsChanged
<1>6. Awaits(g, p)
  BY <1>5, ActsAwaits
<1> QED
  BY <1>2, <1>4, <1>6, OrderedActs

LEMMA OrderedFail ==
  ASSUME NEW g, Fit(g), NEW r \in OrderedRuns(g), NEW n \in g.nodes,
         r.node[n].status \in {"ready", "running"}, NEW p, Fails(g, g.nodes, r, n, p)
  PROVE  p \in OrderedRuns(g)
<1>1. PICK c : RowsChanged(g, g.nodes, r, n, c)
               /\ StatusSet(g.nodes, c, n, "failed", "failed", p)
  BY DEF Fails
<1>2. Acts(g, r, n, p)
  BY <1>1 DEF RowsChanged, StatusSet, Acts
<1> QED
  BY <1>1, <1>2, OrderedWork DEF StatusSet

LEMMA OrderedFinish ==
  ASSUME NEW g, Fit(g), NEW r \in OrderedRuns(g), NEW n \in g.nodes,
         r.node[n].status \in {"ready", "running"},
         NEW c, RowsChanged(g, g.nodes, r, n, c), NEW f, Finished(g, g.nodes, c, n, f)
  PROVE  f \in OrderedRuns(g)
<1>1. Acts(g, r, n, f)
  BY DEF RowsChanged, Finished, Acts
<1> QED
  BY <1>1, OrderedWork DEF Finished

LEMMA OrderedExecute ==
  ASSUME NEW g, Fit(g), NEW r \in OrderedRuns(g), NEW n
  PROVE  Execute(g, r, n) \in OrderedRuns(g)
<1> DEFINE p == Execute(g, r, n)
<1>1. Executed(g, g.nodes, r, n, p)
  BY FitFacts, ExecuteType DEF OrderedRuns, Fit
<1> HIDE DEF p
<1>2. ASSUME n \in g.nodes, r.node[n].status \in {"ready", "running"},
             Succeeds(g, g.nodes, r, n, p)
      PROVE  p \in OrderedRuns(g)
  <2>1. PICK c, f : RowsChanged(g, g.nodes, r, n, c) /\ Finished(g, g.nodes, c, n, f)
                    /\ p = RefreshReadiness(g, f)
    BY <1>2 DEF Succeeds
  <2> QED
    BY <1>2, <2>1, OrderedFinish, OrderedRefresh
<1>3. p \in OrderedRuns(g)
  BY <1>1, <1>2, OrderedFreeze, OrderedFail DEF Executed
<1> QED
  BY <1>3 DEF p

LEMMA OrderedClosed ==
  ASSUME NEW g, Fit(g)
  PROVE  Closed(g, g.nodes, OrderedRuns(g))
<1>1. ASSUME NEW s \in OrderedRuns(g)
      PROVE  [s EXCEPT !.status = RunStatus(s)] \in OrderedRuns(g)
  <2>1. RunStatus(s) \in BatchStatus
    BY RunStatusType DEF BatchStatus, OrderedRuns
  <2> QED
    BY <2>1, OrderedRestated
<1>2. OrderedRuns(g) \subseteq RunsOn(g.nodes)
  BY DEF OrderedRuns
<1> QED
  BY <1>1, <1>2, OrderedPromote, OrderedExecute DEF Closed

LEMMA OrderedMark ==
  ASSUME NEW g, Fit(g), NEW r \in OrderedRuns(g), NEW n \in g.nodes
  PROVE  Mark(r, n) \in OrderedRuns(g)
<1> DEFINE p == Mark(r, n)
<1>1. \/ p = r
      \/ r.node[n].status = "ready" /\ StatusSet(g.nodes, r, n, "running", "running", p)
  BY MarkType DEF OrderedRuns
<1> HIDE DEF p
<1>2. ASSUME r.node[n].status = "ready", StatusSet(g.nodes, r, n, "running", "running", p)
      PROVE  p \in OrderedRuns(g)
  <2>1. Acts(g, r, n, p)
    BY <1>2 DEF Acts, StatusSet
  <2>2. Within(r, p) /\ p.snapshots = r.snapshots
    BY <1>2, SameValues DEF Within, StatusSet, SameRows
  <2>3. Awaits(g, p)
    BY <1>2, <2>1, <2>2, ActsAwaits
  <2> QED
    BY <2>1, <2>2, <2>3, OrderedActs
<1>3. p \in OrderedRuns(g)
  BY <1>1, <1>2
<1> QED
  BY <1>3 DEF p

LEMMA OrderedEdit ==
  ASSUME NEW g, Fit(g), NEW r \in OrderedRuns(g), NEW i \in Waiting(r), NEW x \in Rows,
         Edit(r, i) \notin ToSet(r.snapshots[i].rows[x]),
         NEW p, Edited(g.nodes, r, i, x, p)
  PROVE  p \in OrderedRuns(g)
<1> DEFINE n == r.snapshots[i].node
<1>1. r \in RunsOn(g.nodes) /\ Progress(g, r) /\ Sorted(g, r) /\ Awaits(g, r)
      /\ NoneLate(g, r)
  BY DEF OrderedRuns
<1>2. i \in DOMAIN r.snapshots /\ n \in g.nodes /\ r.node[n].status = "waiting_review"
  BY <1>1 DEF Awaits, Waiting
<1>3. Adds(r, Edit(r, i), p)
  BY <1>1, <1>2, EditedValues
<1>4. Edit(r, i) \in Marks /\ Edit(r, i)[2] = n
  BY <1>2, FitFacts DEF Edit, Marks
<1>5. p.node = r.node
  BY DEF Edited
<1>6. Sorted(g, p)
  <2>1. StaysStarted(g, r, p)
    BY <1>5 DEF StaysStarted
  <2> HIDE DEF n
  <2> QED
    BY <1>1, <1>2, <1>3, <1>4, <2>1, SortedAdds
<1>7. /\ Waiting(p) = Waiting(r)
      /\ \A j \in Waiting(r) : p.snapshots[j].node = r.snapshots[j].node
                               /\ p.snapshots[j].ids = r.snapshots[j].ids
  <2>1. DOMAIN p.snapshots = 1..Len(p.snapshots) /\ DOMAIN r.snapshots = 1..Len(r.snapshots)
        /\ Len(p.snapshots) = Len(r.snapshots)
    BY <1>1 DEF Edited, RunsOn
  <2> QED
    BY <2>1 DEF Edited, Waiting
<1>8. Awaits(g, p)
  BY <1>1, <1>5, <1>7 DEF Awaits
<1>9. Progress(g, p) /\ NoneLate(g, p) /\ p \in RunsOn(g.nodes)
  BY <1>1, <1>5 DEF Progress, NoneLate, Edited
<1> QED
  BY <1>6, <1>8, <1>9 DEF OrderedRuns

LEMMA ApprovedWaiting ==
  ASSUME NEW g, NEW N, NEW r \in RunsOn(N), NEW i \in Waiting(r),
         NEW p, Approved(g, N, r, i, p)
  PROVE  /\ Waiting(p) = Waiting(r) \ {i}
         /\ DOMAIN p.snapshots = DOMAIN r.snapshots
<1>1. p \in RunsOn(N) /\ Len(p.snapshots) = Len(r.snapshots)
  BY DEF Approved
<1>2. DOMAIN p.snapshots = 1..Len(r.snapshots) /\ DOMAIN r.snapshots = 1..Len(r.snapshots)
  BY <1>1 DEF RunsOn
<1>3. \A j \in 1..Len(r.snapshots) :
         p.snapshots[j].status = IF j = i THEN "approved" ELSE r.snapshots[j].status
  BY DEF Approved
<1> QED
  BY <1>2, <1>3 DEF Waiting

LEMMA OrderedApprove ==
  ASSUME NEW g, Fit(g), NEW r \in OrderedRuns(g), NEW i \in Waiting(r),
         NEW p, Approved(g, g.nodes, r, i, p)
  PROVE  p \in OrderedRuns(g)
<1> DEFINE n == r.snapshots[i].node
<1>1. r \in RunsOn(g.nodes) /\ Progress(g, r) /\ Awaits(g, r)
  BY DEF OrderedRuns
<1>2. i \in DOMAIN r.snapshots /\ n \in g.nodes /\ r.node[n].status = "waiting_review"
      /\ r.snapshots[i].ids = r.node[n].input
  BY <1>1 DEF Awaits, Waiting
<1>3. Acts(g, r, n, p)
  <2>1. \A m \in g.nodes :
           /\ p.node[m].status = IF m = n THEN "completed" ELSE r.node[m].status
           /\ p.node[m].output = IF m = n THEN r.node[n].input ELSE r.node[m].output
           /\ <<n, m>> \notin DOMAIN g.edges => p.node[m].input = r.node[m].input
    BY <1>2 DEF Approved
  <2>2. p \in RunsOn(g.nodes)
    BY DEF Approved
  <2> HIDE DEF n
  <2> QED
    BY <1>2, <2>1, <2>2 DEF Acts
<1>4. Within(r, p)
  BY <1>1, <1>2, ApprovedValues
<1>5. Waiting(p) = Waiting(r) \ {i}
  BY <1>1, ApprovedWaiting
<1>6. ASSUME NEW j \in Waiting(p)
      PROVE  /\ p.snapshots[j].node = r.snapshots[j].node
             /\ p.snapshots[j].ids = r.snapshots[j].ids
             /\ r.snapshots[j].node \in g.nodes
             /\ g.kind[r.snapshots[j].node] = "review"
             /\ p.node[r.snapshots[j].node].status = "waiting_review"
             /\ p.node[r.snapshots[j].node].input = r.node[r.snapshots[j].node].input
             /\ r.snapshots[j].ids = r.node[r.snapshots[j].node].input
  <2> DEFINE m == r.snapshots[j].node
  <2>1. j \in Waiting(r) /\ j # i /\ j \in 1..Len(r.snapshots)
    BY <1>1, <1>5 DEF Waiting, RunsOn
  <2>2. m \in g.nodes /\ g.kind[m] = "review" /\ r.node[m].status = "waiting_review"
        /\ r.snapshots[j].ids = r.node[m].input /\ m # n
    BY <1>1, <2>1 DEF Awaits
  <2>3. p.snapshots[j].node = r.snapshots[j].node /\ p.snapshots[j].ids = r.snapshots[j].ids
    BY <2>1 DEF Approved
  <2> HIDE DEF m, n
  <2>4. p.node[m].input = r.node[m].input
    BY <1>1, <1>3, <2>2, ActsFacts, FitFacts
  <2>5. p.node[m].status = "waiting_review"
    BY <1>3, <2>2 DEF Acts
  <2> QED
    BY <2>2, <2>3, <2>4, <2>5 DEF m
<1>7. Awaits(g, p)
  BY <1>1, <1>5, <1>6 DEF Awaits
<1> HIDE DEF n
<1> QED
  BY <1>3, <1>4, <1>7, OrderedActs

LEMMA OrderedNew ==
  ASSUME NEW g, Fit(g), NEW r, Fresh(g, r)
  PROVE  r \in OrderedRuns(g)
<1>1. /\ r \in RunsOn(g.nodes) /\ g.entry \in g.nodes
      /\ \A m \in g.nodes : r.node[m].status = IF m = g.entry THEN "ready" ELSE "pending"
      /\ \A m \in g.nodes : ~Leads(g, m, m)
  BY FitFacts DEF Fresh, Fit, ValidateRuleGraph
<1>2. Progress(g, r)
  BY <1>1 DEF Progress
<1>3. Values(r) \subseteq {<<>>}
  BY DEF Fresh, Values
<1>4. Sorted(g, r)
  BY <1>3 DEF Sorted
<1>5. Waiting(r) = {}
  BY DEF Fresh, Waiting
<1>6. Awaits(g, r)
  BY <1>5 DEF Awaits
<1>7. NoneLate(g, r)
  BY <1>1 DEF NoneLate
<1> QED
  BY <1>1, <1>2, <1>4, <1>6, <1>7 DEF OrderedRuns

OrderInv == Undisturbed => Fit(graph) /\ run \in OrderedRuns(graph)

\* The designer's changes end the claim; the other steps that do not touch the
\* batch leave it alone.
LEMMA OrderStep ==
  ASSUME TypeOK, OrderInv, [Next]_vars
  PROVE  OrderInv'
<1> SUFFICES ASSUME Undisturbed' PROVE Fit(graph') /\ run' \in OrderedRuns(graph')
  BY DEF OrderInv
<1>0. IsGraph(graph) /\ run' # None /\ "redesigned" \notin disturbed'
  BY DEF TypeOK, Undisturbed, Started
<1>1. CASE StartRun
  <2> DEFINE r == NewRun(graph)
  <2>1. Fit(graph) /\ graph' = graph /\ run' = Advance(graph, r)
    BY <1>0, <1>1 DEF StartRun, Fit
  <2>2. r \in OrderedRuns(graph)
    BY <2>1, OrderedNew, NewRunType
  <2> HIDE DEF r
  <2>3. run' \in OrderedRuns(graph)
    BY <1>0, <2>1, <2>2, OrderedClosed, FitFacts, ClosedAdvance
  <2> QED
    BY <2>1, <2>3
<1>2. ASSUME NEW n \in Nodes, ExecuteNode(n)
      PROVE  Fit(graph') /\ run' \in OrderedRuns(graph')
  <2>1. /\ run # None /\ n \in graph.nodes /\ run' = Mark(run, n)
        /\ graph' = graph /\ "redesigned" \notin disturbed
    BY <1>0, <1>2 DEF ExecuteNode, Mark
  <2>2. Fit(graph) /\ run \in OrderedRuns(graph)
    BY <2>1 DEF OrderInv, Undisturbed, Started
  <2> QED
    BY <2>1, <2>2, OrderedMark
<1>3. ASSUME NEW n \in Nodes, TimerFires(n)
      PROVE  Fit(graph') /\ run' \in OrderedRuns(graph')
  <2>1. /\ run # None /\ run' = Advance(graph, Execute(graph, run, n))
        /\ graph' = graph /\ "redesigned" \notin disturbed
    BY <1>0, <1>3 DEF TimerFires
  <2>2. Fit(graph) /\ run \in OrderedRuns(graph)
    BY <2>1 DEF OrderInv, Undisturbed, Started
  <2>3. Execute(graph, run, n) \in OrderedRuns(graph)
    BY <2>2, OrderedExecute
  <2>4. run' \in OrderedRuns(graph)
    BY <1>0, <2>1, <2>2, <2>3, OrderedClosed, FitFacts, ClosedAdvance
  <2> QED
    BY <2>1, <2>2, <2>4
<1>4. ASSUME NEW x \in Rows, EditRow(x)
      PROVE  Fit(graph') /\ run' \in OrderedRuns(graph')
  <2> DEFINE i == Active(run)
  <2>1. /\ run # None /\ i # 0 /\ graph' = graph /\ "redesigned" \notin disturbed
        /\ Edit(run, i) \notin ToSet(run.snapshots[i].rows[x])
        /\ run' = [run EXCEPT !.snapshots[i].rows[x] = Append(@, Edit(run, i))]
    BY <1>0, <1>4 DEF EditRow, Edit
  <2>2. Fit(graph) /\ run \in OrderedRuns(graph)
    BY <2>1 DEF OrderInv, Undisturbed, Started
  <2>3. run \in RunsOn(graph.nodes)
    BY <2>2 DEF OrderedRuns
  <2>4. i \in DOMAIN run.snapshots /\ i \in Waiting(run)
    BY <2>1, <2>3, ActiveIsSnapshot
  <2> HIDE DEF i
  <2>5. Edited(graph.nodes, run, i, x, run')
    BY <2>1, <2>3, <2>4, EditType
  <2>6. run' \in OrderedRuns(graph)
    BY <2>1, <2>2, <2>4, <2>5, OrderedEdit
  <2> QED
    BY <2>1, <2>2, <2>6
<1>5. CASE ApproveSnapshot
  <2> DEFINE i == Active(run)
             a == Approve(graph, run, i)
  <2>1. /\ run # None /\ i # 0 /\ graph' = graph /\ "redesigned" \notin disturbed
        /\ run' = Advance(graph, RefreshReadiness(graph, a))
    BY <1>0, <1>5 DEF ApproveSnapshot
  <2>2. Fit(graph) /\ run \in OrderedRuns(graph)
    BY <2>1 DEF OrderInv, Undisturbed, Started
  <2>3. run \in RunsOn(graph.nodes)
    BY <2>2 DEF OrderedRuns
  <2>4. i \in DOMAIN run.snapshots /\ i \in Waiting(run)
    BY <2>1, <2>3, ActiveIsSnapshot
  <2> HIDE DEF i
  <2>5. Approved(graph, graph.nodes, run, i, a)
    BY <1>0, <2>3, <2>4, ApproveType
  <2> HIDE DEF a
  <2>6. a \in OrderedRuns(graph)
    BY <2>2, <2>4, <2>5, OrderedApprove
  <2>7. RefreshReadiness(graph, a) \in OrderedRuns(graph)
    BY <2>2, <2>6, OrderedRefresh
  <2>8. run' \in OrderedRuns(graph)
    BY <1>0, <2>1, <2>2, <2>7, OrderedClosed, FitFacts, ClosedAdvance
  <2> QED
    BY <2>1, <2>2, <2>8
<1>6. ASSUME UNCHANGED <<graph, run>>, disturbed \subseteq disturbed'
      PROVE  Fit(graph') /\ run' \in OrderedRuns(graph')
  <2>1. Undisturbed
    BY <1>0, <1>6 DEF Undisturbed, Started
  <2> QED
    BY <1>6, <2>1 DEF OrderInv
<1>7. ~(AddNode \/ UpdateNode \/ SetMode \/ AddEdge \/ RemoveEdge \/ RemoveNode)
  BY <1>0 DEF AddNode, UpdateNode, SetMode, AddEdge, RemoveEdge, RemoveNode, Redesign
<1>8. CASE Reload
  BY <1>6, <1>8 DEF Reload
<1>9. CASE UNCHANGED vars
  BY <1>6, <1>9 DEF vars
<1> QED
  BY <1>1, <1>2, <1>3, <1>4, <1>5, <1>7, <1>8, <1>9 DEF Next

\* A batch on a graph that is left alone stays in order.
THEOREM OrderAlways == Spec => []OrderInv
<1>1. Init => OrderInv
  BY DEF Init, OrderInv, Undisturbed, Started
<1>2. TypeOK /\ OrderInv /\ [Next]_vars => OrderInv'
  BY OrderStep
<1> QED
  BY <1>1, <1>2, Typing, PTL DEF Spec

\* Whatever the branches and the timers do, rows follow the graph: a node changes a
\* row after every node before it that changes the row at all, and nothing reaches a
\* node that is done.
THEOREM RowsFollowTheGraphAlways == Spec => []RowsFollowTheGraph
<1>1. OrderInv => RowsFollowTheGraph
  <2> SUFFICES ASSUME OrderInv, Undisturbed PROVE RowsInOrder /\ NoRowLate
    BY DEF RowsFollowTheGraph
  <2>1. run \in RunsOn(graph.nodes) /\ Sorted(graph, run) /\ NoneLate(graph, run)
    BY DEF OrderInv, OrderedRuns
  <2>2. RowsInOrder
    <3> SUFFICES ASSUME NEW x \in Rows, NEW i \in DOMAIN run.rows[x],
                        NEW j \in DOMAIN run.rows[x], i < j
                 PROVE  ~Leads(graph, run.rows[x][j][2], run.rows[x][i][2])
      BY DEF RowsInOrder
    <3>1. run.rows[x] \in Values(run)
      BY DEF Values
    <3> QED
      BY <2>1, <3>1 DEF Sorted
  <2>3. NoRowLate
    BY <2>1 DEF NoRowLate, NoneLate, RunsOn
  <2> QED
    BY <2>2, <2>3
<1> QED
  BY <1>1, OrderAlways, PTL

-----------------------------------------------------------------------------
(* No branch undoes another, as long as nothing is started by hand while a *)
(* review waits.                                                           *)

\* The batch stands still while a review waits.
Stands(r) ==
    /\ Waiting(r) # {} => r.status = "waiting_review"
    /\ \A i, j \in Waiting(r) : i = j

\* A snapshot holds what its rows are, with edits, and no other rows.
Covers(r) ==
    /\ \A i \in Waiting(r) : \A x \in ToSet(r.snapshots[i].ids) :
          ToSet(r.rows[x]) \subseteq ToSet(r.snapshots[i].rows[x])
    /\ \A i \in DOMAIN r.snapshots : \A x \in Rows :
          x \notin ToSet(r.snapshots[i].ids) => r.snapshots[i].rows[x] = <<>>

ApprovedEnded(g, r) ==
    \A i \in DOMAIN r.snapshots :
        r.snapshots[i].status = "approved" =>
            /\ r.snapshots[i].node \in g.nodes
            /\ r.node[r.snapshots[i].node].status = "completed"

\* The entry is the first node to act.
EntryFirst(g, r) ==
    r.node[g.entry].status \in {"ready", "running", "waiting_review"} =>
        \A m \in g.nodes : m # g.entry => r.node[m].status = "pending"

EditsKept(r) ==
    \A i \in DOMAIN r.snapshots : \A x \in Rows :
        r.snapshots[i].status = "approved" =>
            \A e \in ToSet(r.snapshots[i].rows[x]) : e[1] = "edit" => e \in ToSet(r.rows[x])

RulesKept(g, r) ==
    \A n \in g.nodes : \A x \in Rows :
        /\ g.kind[n] = "rule" /\ r.node[n].status = "completed"
        /\ x \in ToSet(r.node[n].output)
        => <<"rule", n>> \in ToSet(r.rows[x])

Safe(g, r) ==
    /\ Stands(r) /\ Covers(r) /\ ApprovedEnded(g, r) /\ EntryFirst(g, r)
    /\ EditsKept(r) /\ RulesKept(g, r)

SafeRuns(g) == {r \in OrderedRuns(g) : Safe(g, r)}

\* A graph on which only the entry loads a baseline.
Founded(g) == Fit(g) /\ \A n \in g.nodes : g.kind[n] = "baseline" => n = g.entry

LEMMA AppendKeeps ==
  ASSUME NEW v \in Seq(Marks), NEW e \in Marks
  PROVE  ToSet(Append(v, e)) = ToSet(v) \cup {e}
<1> DEFINE w == Append(v, e)
<1>1. /\ DOMAIN w = 1..(Len(v) + 1) /\ DOMAIN v = 1..Len(v) /\ Len(v) \in Nat
      /\ \A k \in 1..Len(v) : w[k] = v[k]
      /\ w[Len(v) + 1] = e
  OBVIOUS
<1> HIDE DEF w
<1>2. ASSUME NEW a \in ToSet(w) PROVE a \in ToSet(v) \cup {e}
  <2>1. PICK k \in DOMAIN w : a = w[k]
    BY DEF ToSet
  <2>2. CASE k \in 1..Len(v)
    BY <1>1, <2>1, <2>2 DEF ToSet
  <2>3. CASE k \notin 1..Len(v)
    BY <1>1, <2>1, <2>3
  <2> QED
    BY <2>2, <2>3
<1>3. ASSUME NEW a \in ToSet(v) PROVE a \in ToSet(w)
  <2>1. PICK k \in DOMAIN v : a = v[k]
    BY DEF ToSet
  <2>2. k \in DOMAIN w /\ w[k] = a
    BY <1>1, <2>1
  <2> QED
    BY <2>2 DEF ToSet
<1>4. e \in ToSet(w)
  <2>1. Len(v) + 1 \in DOMAIN w
    BY <1>1
  <2> QED
    BY <1>1, <2>1 DEF ToSet
<1> QED
  BY <1>2, <1>3, <1>4 DEF w

LEMMA ActsEntryFirst ==
  ASSUME NEW g, Fit(g), NEW r, EntryFirst(g, r), NEW n, NEW p, Acts(g, r, n, p)
  PROVE  EntryFirst(g, p)
<1>1. CASE n = g.entry
  <2>1. r.node[g.entry].status \in {"ready", "running", "waiting_review"}
    BY <1>1 DEF Acts
  <2>2. \A m \in g.nodes : m # g.entry => r.node[m].status = "pending"
    BY <2>1 DEF EntryFirst
  <2>3. \A m \in g.nodes : m # g.entry => p.node[m].status = r.node[m].status
    BY <1>1 DEF Acts
  <2> QED
    BY <2>2, <2>3 DEF EntryFirst
<1>2. CASE n # g.entry
  <2>1. r.node[g.entry].status \notin {"ready", "running", "waiting_review"}
    BY <1>2 DEF Acts, EntryFirst
  <2> QED
    BY <1>2, <2>1, FitFacts DEF Acts, EntryFirst
<1> QED
  BY <1>1, <1>2

\* Promotion and a status that follows the nodes.
LEMMA SafePromote ==
  ASSUME NEW g, Fit(g), NEW r \in SafeRuns(g)
  PROVE  PromoteOnce(g, r) \in SafeRuns(g)
<1> DEFINE p == PromoteOnce(g, r)
<1>1. r \in OrderedRuns(g) /\ r \in RunsOn(g.nodes) /\ Safe(g, r)
  BY DEF SafeRuns, OrderedRuns
<1>2. Promoted(g, g.nodes, r, p)
  BY <1>1, PromoteOnceType
<1>3. p \in OrderedRuns(g)
  BY <1>1, OrderedPromote
<1> HIDE DEF p
<1>4. /\ p.rows = r.rows /\ p.snapshots = r.snapshots /\ p.status = r.status
      /\ Waiting(p) = Waiting(r)
      /\ \A m \in g.nodes : /\ p.node[m].output = r.node[m].output
                            /\ p.node[m].status = "completed" <=> r.node[m].status = "completed"
  BY <1>2 DEF Promoted, SameRows, Waiting
<1>5. Stands(p) /\ Covers(p) /\ ApprovedEnded(g, p) /\ EditsKept(p) /\ RulesKept(g, p)
  BY <1>1, <1>4 DEF Safe, Stands, Covers, ApprovedEnded, EditsKept, RulesKept
<1>6. EntryFirst(g, p)
  <2> SUFFICES ASSUME p.node[g.entry].status \in {"ready", "running", "waiting_review"},
                      NEW m \in g.nodes, m # g.entry
               PROVE  p.node[m].status = "pending"
    BY DEF EntryFirst
  <2>1. /\ g.entry \in g.nodes /\ DOMAIN g.edges \subseteq g.nodes \X g.nodes
        /\ DOMAIN r.node = g.nodes
    BY <1>1, FitFacts DEF Fit, ValidateRuleGraph, RunsOn
  <2>2. r.node[g.entry].status # "pending"
    BY <1>1 DEF OrderedRuns, Progress
  <2>3. r.node[g.entry].status \in {"ready", "running", "waiting_review"}
    BY <1>2, <2>1, <2>2 DEF Promoted
  <2>4. \A k \in g.nodes : ~Ended(r.node[k].status)
    BY <1>1, <2>3 DEF Safe, EntryFirst, Ended
  <2>5. m \notin Promotable(g, r)
    BY <2>1, <2>4 DEF Promotable, PredecessorsDone, Incoming
  <2> QED
    BY <1>1, <1>2, <2>3, <2>5 DEF Promoted, Safe, EntryFirst
<1>7. p \in SafeRuns(g)
  BY <1>3, <1>5, <1>6 DEF SafeRuns, Safe
<1> QED
  BY <1>7 DEF p

LEMMA SafeRestated ==
  ASSUME NEW g, NEW r \in SafeRuns(g)
  PROVE  [r EXCEPT !.status = RunStatus(r)] \in SafeRuns(g)
<1> DEFINE p == [r EXCEPT !.status = RunStatus(r)]
<1>1. r \in OrderedRuns(g) /\ r \in RunsOn(g.nodes) /\ Safe(g, r) /\ Awaits(g, r)
  BY DEF SafeRuns, OrderedRuns
<1>2. RunStatus(r) \in BatchStatus
  BY <1>1, RunStatusType DEF BatchStatus
<1>3. Restated(g.nodes, r, RunStatus(r), p)
  BY <1>1, <1>2, RestatedType
<1>4. p \in OrderedRuns(g)
  BY <1>1, <1>2, OrderedRestated
<1> HIDE DEF p
<1>5. /\ p.rows = r.rows /\ p.snapshots = r.snapshots /\ p.status = RunStatus(r)
      /\ p.node = r.node /\ Waiting(p) = Waiting(r)
  BY <1>3 DEF Restated, SameRows, Waiting
<1>6. ASSUME Waiting(r) # {} PROVE RunStatus(r) = "waiting_review"
  <2>1. PICK i \in Waiting(r) : TRUE
    BY <1>6
  <2>2. r.snapshots[i].node \in g.nodes
        /\ r.node[r.snapshots[i].node].status = "waiting_review"
    BY <1>1 DEF Awaits
  <2> QED
    BY <1>1, <2>2, RunStatusType
<1>7. Safe(g, p)
  <2>1. Stands(p)
    BY <1>1, <1>5, <1>6 DEF Safe, Stands
  <2>2. Covers(p)
    BY <1>1, <1>5 DEF Safe, Covers
  <2>3. ApprovedEnded(g, p) /\ EntryFirst(g, p)
    BY <1>1, <1>5 DEF Safe, ApprovedEnded, EntryFirst
  <2>4. EditsKept(p) /\ RulesKept(g, p)
    BY <1>1, <1>5 DEF Safe, EditsKept, RulesKept
  <2> QED
    BY <2>1, <2>2, <2>3, <2>4 DEF Safe
<1>8. p \in SafeRuns(g)
  BY <1>4, <1>7 DEF SafeRuns
<1> QED
  BY <1>8 DEF p

LEMMA SafeRefresh ==
  ASSUME NEW g, Fit(g), NEW r \in SafeRuns(g)
  PROVE  RefreshReadiness(g, r) \in SafeRuns(g)
<1>1. SafeRuns(g) \in SUBSET RunsOn(g.nodes)
  BY DEF SafeRuns, OrderedRuns
<1> QED
  BY <1>1, SafePromote, SafeRestated, RefreshStays, FitFacts

\* Freezing, when no other review waits.
LEMMA SafeFreeze ==
  ASSUME NEW g, Fit(g), NEW r \in SafeRuns(g), Waiting(r) = {}, NEW n \in g.nodes,
         r.node[n].status \in {"ready", "running"}, g.kind[n] = "review",
         NEW p, Frozen(g.nodes, r, n, p)
  PROVE  p \in SafeRuns(g)
<1> DEFINE last == Len(r.snapshots) + 1
<1>1. r \in OrderedRuns(g) /\ r \in RunsOn(g.nodes) /\ Safe(g, r)
  BY DEF SafeRuns, OrderedRuns
<1>2. p \in OrderedRuns(g)
  BY <1>1, OrderedFreeze
<1>3. /\ Waiting(p) = {last} /\ last \notin DOMAIN r.snapshots
      /\ DOMAIN p.snapshots = DOMAIN r.snapshots \cup {last}
      /\ \A j \in DOMAIN r.snapshots : p.snapshots[j] = r.snapshots[j]
      /\ p.snapshots[last] = CopyOf(r, n)
  <2>1. FrozenLast(r, n, p)
    BY <1>1, FreezeLast
  <2> QED
    BY <2>1 DEF FrozenLast
<1> HIDE DEF last
<1>4. /\ CopyOf(r, n).status = "waiting" /\ CopyOf(r, n).ids = r.node[n].input
      /\ \A x \in Rows : CopyOf(r, n).rows[x] =
            IF x \in ToSet(r.node[n].input) THEN r.rows[x] ELSE <<>>
  BY DEF CopyOf
<1>5. /\ p.rows = r.rows /\ p.status = "waiting_review"
      /\ \A m \in g.nodes : /\ p.node[m].output = r.node[m].output
                            /\ p.node[m].status = IF m = n THEN "waiting_review"
                                                  ELSE r.node[m].status
  BY DEF Frozen
<1>6. ToSet(r.node[n].input) \subseteq Rows
  BY <1>1, ReachedRows
<1>7. Stands(p)
  BY <1>3, <1>5 DEF Stands
<1>8. Covers(p)
  <2>1. ASSUME NEW x \in ToSet(p.snapshots[last].ids)
        PROVE  ToSet(p.rows[x]) \subseteq ToSet(p.snapshots[last].rows[x])
    BY <1>3, <1>4, <1>5, <1>6
  <2>2. ASSUME NEW i \in DOMAIN p.snapshots, NEW x \in Rows,
               x \notin ToSet(p.snapshots[i].ids)
        PROVE  p.snapshots[i].rows[x] = <<>>
    <3>1. CASE i = last
      BY <1>3, <1>4, <2>2, <3>1
    <3>2. CASE i # last
      BY <1>1, <1>3, <2>2, <3>2 DEF Safe, Covers
    <3> QED
      BY <3>1, <3>2
  <2> QED
    BY <1>3, <2>1, <2>2 DEF Covers
<1>9. \A i \in DOMAIN p.snapshots : p.snapshots[i].status = "approved" =>
         i \in DOMAIN r.snapshots /\ p.snapshots[i] = r.snapshots[i]
  <2>1. p.snapshots[last].status = "waiting"
    BY <1>3, <1>4
  <2> QED
    BY <1>3, <2>1
<1>10. ApprovedEnded(g, p)
  BY <1>1, <1>5, <1>9 DEF Safe, ApprovedEnded
<1>11. EditsKept(p)
  BY <1>1, <1>5, <1>9 DEF Safe, EditsKept
<1>12. RulesKept(g, p)
  BY <1>1, <1>5 DEF Safe, RulesKept
<1>13. EntryFirst(g, p)
  <2>1. Acts(g, r, n, p)
    BY DEF Acts, Frozen
  <2> QED
    BY <1>1, <2>1, ActsEntryFirst DEF Safe
<1> QED
  BY <1>2, <1>7, <1>8, <1>10, <1>11, <1>12, <1>13 DEF SafeRuns, Safe

\* A node that changes rows, when no review waits.
LEMMA SafeWork ==
  ASSUME NEW g, Founded(g), NEW r \in SafeRuns(g), Waiting(r) = {}, NEW n \in g.nodes,
         r.node[n].status \in {"ready", "running"},
         NEW c, RowsChanged(g, g.nodes, r, n, c), NEW p, SameRows(c, p), Acts(g, r, n, p),
         p.node[n].status = "completed" =>
            \A x \in ToSet(r.node[n].input) : ~Throws(g, n, x)
  PROVE  p \in SafeRuns(g)
<1>1. r \in OrderedRuns(g) /\ r \in RunsOn(g.nodes) /\ Safe(g, r) /\ Fit(g)
      /\ n \in Nodes
  BY FitFacts DEF SafeRuns, OrderedRuns, Founded
<1>2. p \in OrderedRuns(g)
  BY <1>1, OrderedWork
<1>3. /\ p.snapshots = r.snapshots /\ Waiting(p) = {}
      /\ \A x \in Rows : p.rows[x] = IF x \in Reached(g, r, n)
                                     THEN Effect(g.kind[n], n, r.rows[x]) ELSE r.rows[x]
  BY DEF SameRows, RowsChanged, Waiting
<1>4. EntryFirst(g, p)
  BY <1>1, ActsEntryFirst DEF Safe
<1>5. Stands(p) /\ Covers(p)
  BY <1>1, <1>3 DEF Stands, Safe, Covers
<1>6. ASSUME NEW m \in g.nodes, r.node[m].status = "completed"
      PROVE  p.node[m].status = "completed" /\ m # n
  BY <1>6 DEF Acts
<1>7. ApprovedEnded(g, p)
  BY <1>1, <1>3, <1>6 DEF Safe, ApprovedEnded
<1>8. ASSUME g.kind[n] # "baseline", NEW x \in Rows
      PROVE  /\ ToSet(r.rows[x]) \subseteq ToSet(p.rows[x])
             /\ g.kind[n] = "rule" /\ x \in Reached(g, r, n) =>
                    <<"rule", n>> \in ToSet(p.rows[x])
  <2> DEFINE e == <<"rule", n>>
  <2>1. r.rows[x] \in Seq(Marks) /\ e \in Marks
    BY <1>1 DEF RunsOn, Marks
  <2>2. p.rows[x] = IF x \in Reached(g, r, n) /\ g.kind[n] = "rule"
                    THEN Append(r.rows[x], e) ELSE r.rows[x]
    BY <1>3, <1>8 DEF Effect
  <2> HIDE DEF e
  <2>3. ToSet(Append(r.rows[x], e)) = ToSet(r.rows[x]) \cup {e}
    BY <2>1, AppendKeeps
  <2>4. /\ ToSet(r.rows[x]) \subseteq ToSet(p.rows[x])
        /\ g.kind[n] = "rule" /\ x \in Reached(g, r, n) => e \in ToSet(p.rows[x])
    BY <2>2, <2>3
  <2> QED
    BY <2>4 DEF e
<1>9. ASSUME g.kind[n] = "baseline", NEW m \in g.nodes PROVE r.node[m].status # "completed"
  <2>1. n = g.entry
    BY <1>9 DEF Founded
  <2> QED
    BY <1>1, <2>1 DEF Safe, EntryFirst
<1>10. EditsKept(p)
  <2> SUFFICES ASSUME NEW i \in DOMAIN p.snapshots, NEW x \in Rows,
                      p.snapshots[i].status = "approved",
                      NEW e \in ToSet(p.snapshots[i].rows[x]), e[1] = "edit"
               PROVE  e \in ToSet(p.rows[x])
    BY DEF EditsKept
  <2>1. e \in ToSet(r.rows[x])
    BY <1>1, <1>3 DEF Safe, EditsKept
  <2>2. g.kind[n] # "baseline"
    BY <1>1, <1>3, <1>9 DEF Safe, ApprovedEnded
  <2> QED
    BY <1>8, <2>1, <2>2
<1>11. RulesKept(g, p)
  <2> SUFFICES ASSUME NEW m \in g.nodes, NEW x \in Rows, g.kind[m] = "rule",
                      p.node[m].status = "completed", x \in ToSet(p.node[m].output)
               PROVE  <<"rule", m>> \in ToSet(p.rows[x])
    BY DEF RulesKept
  <2>1. CASE m # n
    <3>1. r.node[m].status = "completed" /\ x \in ToSet(r.node[m].output)
      BY <2>1 DEF Acts
    <3>2. <<"rule", m>> \in ToSet(r.rows[x])
      BY <1>1, <3>1 DEF Safe, RulesKept
    <3>3. g.kind[n] # "baseline"
      BY <1>9, <3>1
    <3> QED
      BY <1>8, <3>2, <3>3
  <2>2. CASE m = n
    <3>1. x \in ToSet(r.node[n].input)
      BY <2>2 DEF Acts
    <3>2. x \in Reached(g, r, n)
      BY <1>1, <2>2, <3>1, ReachedRows
    <3> QED
      BY <1>8, <2>2, <3>2
  <2> QED
    BY <2>1, <2>2
<1> QED
  BY <1>2, <1>4, <1>5, <1>7, <1>10, <1>11 DEF SafeRuns, Safe

LEMMA SafeExecute ==
  ASSUME NEW g, Founded(g), NEW r \in SafeRuns(g), Waiting(r) = {}, NEW n
  PROVE  Execute(g, r, n) \in SafeRuns(g)
<1> DEFINE p == Execute(g, r, n)
<1>0. r \in OrderedRuns(g) /\ r \in RunsOn(g.nodes) /\ Fit(g)
  BY DEF SafeRuns, OrderedRuns, Founded
<1>1. Executed(g, g.nodes, r, n, p)
  BY <1>0, FitFacts, ExecuteType DEF Fit
<1> HIDE DEF p
<1>2. ASSUME n \in g.nodes, r.node[n].status \in {"ready", "running"},
             Succeeds(g, g.nodes, r, n, p),
             \A x \in ToSet(r.node[n].input) : ~Throws(g, n, x)
      PROVE  p \in SafeRuns(g)
  <2>1. PICK c, f : RowsChanged(g, g.nodes, r, n, c) /\ Finished(g, g.nodes, c, n, f)
                    /\ p = RefreshReadiness(g, f)
    BY <1>2 DEF Succeeds
  <2>2. Acts(g, r, n, f) /\ SameRows(c, f)
    BY <1>2, <2>1 DEF RowsChanged, Finished, Acts
  <2>3. f \in SafeRuns(g)
    BY <1>2, <2>1, <2>2, SafeWork
  <2> QED
    BY <1>0, <2>1, <2>3, SafeRefresh
<1>3. ASSUME n \in g.nodes, r.node[n].status \in {"ready", "running"},
             Fails(g, g.nodes, r, n, p)
      PROVE  p \in SafeRuns(g)
  <2>1. PICK c : RowsChanged(g, g.nodes, r, n, c)
                 /\ StatusSet(g.nodes, c, n, "failed", "failed", p)
    BY <1>3 DEF Fails
  <2>2. Acts(g, r, n, p) /\ SameRows(c, p) /\ p.node[n].status = "failed"
    BY <1>3, <2>1 DEF RowsChanged, StatusSet, Acts
  <2> QED
    BY <1>3, <2>1, <2>2, SafeWork
<1>4. p \in SafeRuns(g)
  BY <1>0, <1>1, <1>2, <1>3, SafeFreeze DEF Executed
<1> QED
  BY <1>4 DEF p

LEMMA SafeClosed ==
  ASSUME NEW g, Founded(g)
  PROVE  Closed(g, g.nodes, SafeRuns(g))
<1>0. Fit(g) /\ SafeRuns(g) \subseteq RunsOn(g.nodes)
  BY DEF Founded, SafeRuns, OrderedRuns
<1>1. ASSUME NEW s \in SafeRuns(g), GoesOn(g, s) PROVE Waiting(s) = {}
  BY <1>1 DEF GoesOn, SafeRuns, Safe, Stands
<1> QED
  BY <1>0, <1>1, SafePromote, SafeRestated, SafeExecute DEF Closed

LEMMA SafeMark ==
  ASSUME NEW g, Fit(g), NEW r \in SafeRuns(g), Waiting(r) = {}, NEW n \in g.nodes
  PROVE  Mark(r, n) \in SafeRuns(g)
<1> DEFINE p == Mark(r, n)
<1>1. r \in OrderedRuns(g) /\ r \in RunsOn(g.nodes) /\ Safe(g, r)
  BY DEF SafeRuns, OrderedRuns
<1>2. p \in OrderedRuns(g)
  BY <1>1, OrderedMark
<1>3. \/ p = r
      \/ r.node[n].status = "ready" /\ StatusSet(g.nodes, r, n, "running", "running", p)
  BY <1>1, MarkType
<1> HIDE DEF p
<1>4. ASSUME r.node[n].status = "ready", StatusSet(g.nodes, r, n, "running", "running", p)
      PROVE  p \in SafeRuns(g)
  <2>1. /\ p.rows = r.rows /\ p.snapshots = r.snapshots /\ Waiting(p) = {}
        /\ \A m \in g.nodes : /\ p.node[m].output = r.node[m].output
                              /\ p.node[m].status = IF m = n THEN "running"
                                                    ELSE r.node[m].status
    BY <1>4 DEF StatusSet, SameRows, Waiting
  <2>2. Stands(p) /\ Covers(p)
    BY <1>1, <2>1 DEF Safe, Stands, Covers
  <2>3. ApprovedEnded(g, p)
    BY <1>1, <1>4, <2>1 DEF Safe, ApprovedEnded
  <2>4. EditsKept(p) /\ RulesKept(g, p)
    BY <1>1, <1>4, <2>1 DEF Safe, EditsKept, RulesKept
  <2>5. Acts(g, r, n, p)
    BY <1>4 DEF Acts, StatusSet
  <2>6. EntryFirst(g, p)
    BY <1>1, <2>5, ActsEntryFirst DEF Safe
  <2> QED
    BY <1>2, <2>2, <2>3, <2>4, <2>6 DEF SafeRuns, Safe
<1>5. p \in SafeRuns(g)
  BY <1>3, <1>4
<1> QED
  BY <1>5 DEF p

LEMMA SafeEdit ==
  ASSUME NEW g, Fit(g), NEW r \in SafeRuns(g), NEW i \in Waiting(r), NEW x \in Rows,
         x \in ToSet(r.snapshots[i].ids),
         Edit(r, i) \notin ToSet(r.snapshots[i].rows[x]),
         NEW p, Edited(g.nodes, r, i, x, p)
  PROVE  p \in SafeRuns(g)
<1>1. r \in OrderedRuns(g) /\ r \in RunsOn(g.nodes) /\ Safe(g, r)
      /\ i \in DOMAIN r.snapshots
  BY DEF SafeRuns, OrderedRuns, Waiting
<1>2. p \in OrderedRuns(g)
  BY <1>1, OrderedEdit
<1>3. DOMAIN p.snapshots = DOMAIN r.snapshots /\ DOMAIN r.snapshots = 1..Len(r.snapshots)
  <2>1. Len(p.snapshots) = Len(r.snapshots) /\ p \in RunsOn(g.nodes)
    BY DEF Edited
  <2> QED
    BY <1>1, <2>1 DEF RunsOn
<1>4. /\ p.rows = r.rows /\ p.node = r.node /\ p.status = r.status
      /\ \A j \in DOMAIN r.snapshots :
            /\ p.snapshots[j].node = r.snapshots[j].node
            /\ p.snapshots[j].ids = r.snapshots[j].ids
            /\ p.snapshots[j].status = r.snapshots[j].status
            /\ \A y \in Rows : p.snapshots[j].rows[y] =
                  IF j = i /\ y = x THEN Append(r.snapshots[i].rows[x], Edit(r, i))
                  ELSE r.snapshots[j].rows[y]
  BY <1>3 DEF Edited
<1>5. Waiting(p) = Waiting(r)
  BY <1>3, <1>4 DEF Waiting
<1>6. ToSet(Append(r.snapshots[i].rows[x], Edit(r, i))) =
         ToSet(r.snapshots[i].rows[x]) \cup {Edit(r, i)}
  <2>1. r.snapshots[i] \in Snapshots
    BY <1>1 DEF RunsOn
  <2>2. r.snapshots[i].rows[x] \in Seq(Marks) /\ Edit(r, i) \in Marks
    BY <2>1 DEF Snapshots, Edit, Marks
  <2> QED
    BY <2>2, AppendKeeps
<1>7. \A j \in DOMAIN r.snapshots : \A y \in Rows :
         ToSet(r.snapshots[j].rows[y]) \subseteq ToSet(p.snapshots[j].rows[y])
  <2> SUFFICES ASSUME NEW j \in DOMAIN r.snapshots, NEW y \in Rows
               PROVE  ToSet(r.snapshots[j].rows[y]) \subseteq ToSet(p.snapshots[j].rows[y])
    OBVIOUS
  <2>1. CASE j = i /\ y = x
    BY <1>4, <1>6, <2>1
  <2>2. CASE ~(j = i /\ y = x)
    BY <1>4, <2>2
  <2> QED
    BY <2>1, <2>2
<1>8. Stands(p) /\ ApprovedEnded(g, p) /\ EntryFirst(g, p) /\ RulesKept(g, p)
  <2>1. Stands(p) /\ ApprovedEnded(g, p)
    BY <1>1, <1>3, <1>4, <1>5 DEF Safe, Stands, ApprovedEnded
  <2>2. EntryFirst(g, p) /\ RulesKept(g, p)
    BY <1>1, <1>4 DEF Safe, EntryFirst, RulesKept
  <2> QED
    BY <2>1, <2>2
<1>9. Covers(p)
  <2>1. ASSUME NEW j \in Waiting(p), NEW y \in ToSet(p.snapshots[j].ids)
        PROVE  ToSet(p.rows[y]) \subseteq ToSet(p.snapshots[j].rows[y])
    <3>1. j \in DOMAIN r.snapshots /\ j \in Waiting(r)
      BY <1>5 DEF Waiting
    <3>2. r.snapshots[j].ids \in Seq(Rows)
      <4>1. r.snapshots[j] \in Snapshots
        BY <1>1, <3>1 DEF RunsOn
      <4> QED
        BY <4>1 DEF Snapshots
    <3>3. y \in ToSet(r.snapshots[j].ids) /\ y \in Rows
      BY <1>4, <3>1, <3>2 DEF ToSet
    <3>4. ToSet(r.rows[y]) \subseteq ToSet(r.snapshots[j].rows[y])
      BY <1>1, <3>1, <3>3 DEF Safe, Covers
    <3> QED
      BY <1>4, <1>7, <3>1, <3>3, <3>4
  <2>2. ASSUME NEW j \in DOMAIN p.snapshots, NEW y \in Rows,
               y \notin ToSet(p.snapshots[j].ids)
        PROVE  p.snapshots[j].rows[y] = <<>>
    <3>1. j \in DOMAIN r.snapshots /\ y \notin ToSet(r.snapshots[j].ids)
      BY <1>3, <1>4, <2>2
    <3>2. ~(j = i /\ y = x)
      BY <3>1
    <3>3. r.snapshots[j].rows[y] = <<>>
      BY <1>1, <3>1 DEF Safe, Covers
    <3> QED
      BY <1>4, <3>1, <3>2, <3>3
  <2> QED
    BY <2>1, <2>2 DEF Covers
<1>10. EditsKept(p)
  <2> SUFFICES ASSUME NEW j \in DOMAIN p.snapshots, NEW y \in Rows,
                      p.snapshots[j].status = "approved"
               PROVE  \A e \in ToSet(p.snapshots[j].rows[y]) :
                         e[1] = "edit" => e \in ToSet(p.rows[y])
    BY DEF EditsKept
  <2>1. j \in DOMAIN r.snapshots /\ r.snapshots[j].status = "approved"
    BY <1>3, <1>4
  <2>2. j # i
    BY <2>1 DEF Waiting
  <2>3. p.snapshots[j].rows[y] = r.snapshots[j].rows[y] /\ p.rows = r.rows
    BY <1>4, <2>1, <2>2
  <2> QED
    BY <1>1, <2>1, <2>3 DEF Safe, EditsKept
<1> QED
  BY <1>2, <1>8, <1>9, <1>10 DEF SafeRuns, Safe

LEMMA SafeApprove ==
  ASSUME NEW g, Fit(g), NEW r \in SafeRuns(g), NEW i \in Waiting(r),
         NEW p, Approved(g, g.nodes, r, i, p)
  PROVE  p \in SafeRuns(g)
<1> DEFINE n == r.snapshots[i].node
<1>1. r \in OrderedRuns(g) /\ r \in RunsOn(g.nodes) /\ Safe(g, r) /\ Awaits(g, r)
      /\ i \in DOMAIN r.snapshots
  BY DEF SafeRuns, OrderedRuns, Waiting
<1>2. p \in OrderedRuns(g)
  BY <1>1, OrderedApprove
<1>3. n \in g.nodes /\ g.kind[n] = "review" /\ r.node[n].status = "waiting_review"
  BY <1>1 DEF Awaits
<1>4. Waiting(p) = {} /\ DOMAIN p.snapshots = DOMAIN r.snapshots
  <2>1. Waiting(p) = Waiting(r) \ {i} /\ DOMAIN p.snapshots = DOMAIN r.snapshots
    BY <1>1, ApprovedWaiting
  <2> QED
    BY <1>1, <2>1 DEF Safe, Stands
<1>5. /\ \A x \in Rows : p.rows[x] = IF x \in ToSet(r.snapshots[i].ids)
                                     THEN r.snapshots[i].rows[x] ELSE r.rows[x]
      /\ \A j \in DOMAIN r.snapshots :
            /\ p.snapshots[j].node = r.snapshots[j].node
            /\ p.snapshots[j].ids = r.snapshots[j].ids
            /\ p.snapshots[j].rows = r.snapshots[j].rows
            /\ p.snapshots[j].status = IF j = i THEN "approved" ELSE r.snapshots[j].status
  <2>1. DOMAIN r.snapshots = 1..Len(r.snapshots)
    BY <1>1 DEF RunsOn
  <2> QED
    BY <2>1 DEF Approved
<1>6. \A m \in g.nodes :
         /\ p.node[m].status = IF m = n THEN "completed" ELSE r.node[m].status
         /\ m # n => p.node[m].output = r.node[m].output
  BY DEF Approved
<1> HIDE DEF n
<1>7. \A x \in Rows : ToSet(r.rows[x]) \subseteq ToSet(p.rows[x])
  BY <1>1, <1>5 DEF Safe, Covers
<1>8. Stands(p)
  BY <1>4 DEF Stands
<1>9. Covers(p)
  BY <1>1, <1>4, <1>5 DEF Safe, Covers
<1>10. ApprovedEnded(g, p)
  <2> SUFFICES ASSUME NEW j \in DOMAIN r.snapshots, p.snapshots[j].status = "approved"
               PROVE  /\ r.snapshots[j].node \in g.nodes
                      /\ p.node[r.snapshots[j].node].status = "completed"
    BY <1>4, <1>5 DEF ApprovedEnded
  <2>1. CASE j = i
    BY <1>3, <1>6, <2>1 DEF n
  <2>2. CASE j # i
    BY <1>1, <1>5, <1>6, <2>2 DEF Safe, ApprovedEnded
  <2> QED
    BY <2>1, <2>2
<1>11. EntryFirst(g, p)
  <2> SUFFICES ASSUME p.node[g.entry].status \in {"ready", "running", "waiting_review"},
                      NEW m \in g.nodes, m # g.entry
               PROVE  p.node[m].status = "pending"
    BY DEF EntryFirst
  <2>1. g.entry # n /\ r.node[g.entry].status \in {"ready", "running", "waiting_review"}
    BY <1>6, FitFacts
  <2>2. r.node[n].status = "pending"
    BY <1>1, <1>3, <2>1 DEF Safe, EntryFirst
  <2> QED
    BY <1>3, <2>2
<1>12. EditsKept(p)
  <2> SUFFICES ASSUME NEW j \in DOMAIN r.snapshots, NEW x \in Rows,
                      p.snapshots[j].status = "approved",
                      NEW e \in ToSet(r.snapshots[j].rows[x]), e[1] = "edit"
               PROVE  e \in ToSet(p.rows[x])
    BY <1>4, <1>5 DEF EditsKept
  <2>1. CASE j # i
    <3>1. e \in ToSet(r.rows[x])
      BY <1>1, <1>5, <2>1 DEF Safe, EditsKept
    <3> QED
      BY <1>7, <3>1
  <2>2. CASE j = i
    <3>1. CASE x \in ToSet(r.snapshots[i].ids)
      BY <1>5, <2>2, <3>1
    <3>2. CASE x \notin ToSet(r.snapshots[i].ids)
      <4>1. r.snapshots[i].rows[x] = <<>>
        BY <1>1, <3>2 DEF Safe, Covers
      <4> QED
        BY <2>2, <4>1 DEF ToSet
    <3> QED
      BY <3>1, <3>2
  <2> QED
    BY <2>1, <2>2
<1>13. RulesKept(g, p)
  <2> SUFFICES ASSUME NEW m \in g.nodes, NEW x \in Rows, g.kind[m] = "rule",
                      p.node[m].status = "completed", x \in ToSet(p.node[m].output)
               PROVE  <<"rule", m>> \in ToSet(p.rows[x])
    BY DEF RulesKept
  <2>1. m # n
    BY <1>3
  <2>2. <<"rule", m>> \in ToSet(r.rows[x])
    BY <1>1, <1>6, <2>1 DEF Safe, RulesKept
  <2> QED
    BY <1>7, <2>2
<1> QED
  BY <1>2, <1>8, <1>9, <1>10, <1>11, <1>12, <1>13 DEF SafeRuns, Safe

LEMMA SafeNew ==
  ASSUME NEW g, Fit(g), NEW r, Fresh(g, r)
  PROVE  r \in SafeRuns(g)
<1>1. r \in OrderedRuns(g)
  BY OrderedNew
<1>2. /\ r.snapshots = <<>> /\ Waiting(r) = {} /\ DOMAIN r.snapshots = {}
      /\ \A m \in g.nodes : r.node[m].status = IF m = g.entry THEN "ready" ELSE "pending"
  BY DEF Fresh, Waiting
<1>3. Stands(r) /\ Covers(r) /\ ApprovedEnded(g, r) /\ EditsKept(r)
  BY <1>2 DEF Stands, Covers, ApprovedEnded, EditsKept
<1>4. EntryFirst(g, r) /\ RulesKept(g, r)
  BY <1>2 DEF EntryFirst, RulesKept
<1> QED
  BY <1>1, <1>3, <1>4 DEF SafeRuns, Safe

Unhurried == Undisturbed /\ "hurried" \notin disturbed /\ BaselineFirst

SafeInv == Unhurried => Founded(graph) /\ run \in SafeRuns(graph)

LEMMA SafeStep ==
  ASSUME TypeOK, SafeInv, [Next]_vars
  PROVE  SafeInv'
<1> SUFFICES ASSUME Unhurried' PROVE Founded(graph') /\ run' \in SafeRuns(graph')
  BY DEF SafeInv
<1>0. /\ IsGraph(graph) /\ run' # None
      /\ "redesigned" \notin disturbed' /\ "hurried" \notin disturbed'
      /\ \A n \in graph'.nodes : graph'.kind[n] = "baseline" => n = graph'.entry
  BY DEF TypeOK, Unhurried, Undisturbed, Started, BaselineFirst
<1>1. ASSUME graph' = graph, run # None, disturbed \subseteq disturbed'
      PROVE  /\ Founded(graph) /\ Fit(graph) /\ run \in SafeRuns(graph)
             /\ run \in RunsOn(graph.nodes)
  <2>1. Unhurried
    BY <1>0, <1>1 DEF Unhurried, Undisturbed, Started, BaselineFirst
  <2> QED
    BY <2>1 DEF SafeInv, Founded, SafeRuns, OrderedRuns
<1>2. CASE StartRun
  <2> DEFINE r == NewRun(graph)
  <2>1. Fit(graph) /\ Founded(graph) /\ graph' = graph /\ run' = Advance(graph, r)
    BY <1>0, <1>2 DEF StartRun, Fit, Founded
  <2>2. r \in SafeRuns(graph)
    BY <2>1, SafeNew, NewRunType
  <2> HIDE DEF r
  <2>3. run' \in SafeRuns(graph)
    BY <1>0, <2>1, <2>2, SafeClosed, FitFacts, ClosedAdvance
  <2> QED
    BY <2>1, <2>3
<1>3. ASSUME NEW n \in Nodes, ExecuteNode(n)
      PROVE  Founded(graph') /\ run' \in SafeRuns(graph')
  <2>1. /\ run # None /\ n \in graph.nodes /\ run' = Mark(run, n)
        /\ graph' = graph /\ disturbed \subseteq disturbed' /\ Active(run) = 0
    BY <1>0, <1>3 DEF ExecuteNode, Mark
  <2>2. Founded(graph) /\ Fit(graph) /\ run \in SafeRuns(graph) /\ run \in RunsOn(graph.nodes)
    BY <1>1, <2>1
  <2>3. Waiting(run) = {}
    BY <2>1, <2>2, ActiveIsWaiting
  <2> QED
    BY <2>1, <2>2, <2>3, SafeMark
<1>4. ASSUME NEW n \in Nodes, TimerFires(n)
      PROVE  Founded(graph') /\ run' \in SafeRuns(graph')
  <2>1. /\ run # None /\ run' = Advance(graph, Execute(graph, run, n))
        /\ graph' = graph /\ disturbed \subseteq disturbed'
        /\ Active(run) = 0 \/ ~MayExecute(graph, run, n)
    BY <1>0, <1>4 DEF TimerFires
  <2>2. Founded(graph) /\ Fit(graph) /\ run \in SafeRuns(graph) /\ run \in RunsOn(graph.nodes)
    BY <1>1, <2>1
  <2>3. Execute(graph, run, n) \in SafeRuns(graph)
    <3>1. CASE MayExecute(graph, run, n)
      <4>1. Waiting(run) = {}
        BY <2>1, <2>2, <3>1, ActiveIsWaiting
      <4> QED
        BY <2>2, <4>1, SafeExecute
    <3>2. CASE ~MayExecute(graph, run, n)
      BY <2>2, <3>2 DEF Execute
    <3> QED
      BY <3>1, <3>2
  <2>4. run' \in SafeRuns(graph)
    BY <1>0, <2>1, <2>2, <2>3, SafeClosed, FitFacts, ClosedAdvance
  <2> QED
    BY <2>1, <2>2, <2>4
<1>5. ASSUME NEW x \in Rows, EditRow(x)
      PROVE  Founded(graph') /\ run' \in SafeRuns(graph')
  <2> DEFINE i == Active(run)
  <2>1. /\ run # None /\ i # 0 /\ graph' = graph /\ disturbed \subseteq disturbed'
        /\ x \in ToSet(run.snapshots[i].ids)
        /\ Edit(run, i) \notin ToSet(run.snapshots[i].rows[x])
        /\ run' = [run EXCEPT !.snapshots[i].rows[x] = Append(@, Edit(run, i))]
    BY <1>5 DEF EditRow, Edit
  <2>2. Founded(graph) /\ Fit(graph) /\ run \in SafeRuns(graph) /\ run \in RunsOn(graph.nodes)
    BY <1>1, <2>1
  <2>3. i \in DOMAIN run.snapshots /\ i \in Waiting(run)
    BY <2>1, <2>2, ActiveIsSnapshot
  <2> HIDE DEF i
  <2>4. Edited(graph.nodes, run, i, x, run')
    BY <2>1, <2>2, <2>3, EditType
  <2>5. run' \in SafeRuns(graph)
    BY <2>1, <2>2, <2>3, <2>4, SafeEdit
  <2> QED
    BY <2>1, <2>2, <2>5
<1>6. CASE ApproveSnapshot
  <2> DEFINE i == Active(run)
             a == Approve(graph, run, i)
  <2>1. /\ run # None /\ i # 0 /\ graph' = graph /\ disturbed \subseteq disturbed'
        /\ run' = Advance(graph, RefreshReadiness(graph, a))
    BY <1>6 DEF ApproveSnapshot
  <2>2. Founded(graph) /\ Fit(graph) /\ run \in SafeRuns(graph) /\ run \in RunsOn(graph.nodes)
    BY <1>1, <2>1
  <2>3. i \in DOMAIN run.snapshots /\ i \in Waiting(run)
    BY <2>1, <2>2, ActiveIsSnapshot
  <2> HIDE DEF i
  <2>4. Approved(graph, graph.nodes, run, i, a)
    BY <1>0, <2>2, <2>3, ApproveType
  <2> HIDE DEF a
  <2>5. a \in SafeRuns(graph)
    BY <2>2, <2>3, <2>4, SafeApprove
  <2>6. RefreshReadiness(graph, a) \in SafeRuns(graph)
    BY <2>2, <2>5, SafeRefresh
  <2>7. run' \in SafeRuns(graph)
    BY <1>0, <2>1, <2>2, <2>6, SafeClosed, FitFacts, ClosedAdvance
  <2> QED
    BY <2>1, <2>2, <2>7
<1>7. ~(AddNode \/ UpdateNode \/ SetMode \/ AddEdge \/ RemoveEdge \/ RemoveNode)
  BY <1>0 DEF AddNode, UpdateNode, SetMode, AddEdge, RemoveEdge, RemoveNode, Redesign
<1>8. CASE Reload
  BY <1>0, <1>1, <1>8 DEF Reload
<1>9. CASE UNCHANGED vars
  BY <1>0, <1>1, <1>9 DEF vars
<1> QED
  BY <1>2, <1>3, <1>4, <1>5, <1>6, <1>7, <1>8, <1>9 DEF Next

\* As long as nobody starts a node by hand while a review waits, every rule that is
\* done with a row and every approved edit of it can be seen in the row: no branch
\* writes over another, although a review replaces whole rows by older copies.
THEOREM NothingUndoneAlways == Spec => []NothingUndone
<1>1. Init => SafeInv
  BY DEF Init, SafeInv, Unhurried, Undisturbed, Started
<1>2. TypeOK /\ SafeInv /\ [Next]_vars => SafeInv'
  BY SafeStep
<1>3. TypeOK /\ SafeInv => NothingUndone
  <2> SUFFICES ASSUME SafeInv, Unhurried, NEW x \in Rows,
                      NEW e \in ApprovedEdits(x) \cup RulesDone(x)
               PROVE  e \in ToSet(run.rows[x])
    BY DEF NothingUndone, Unhurried
  <2>1. EditsKept(run) /\ RulesKept(graph, run) /\ run \in RunsOn(graph.nodes)
    BY DEF SafeInv, SafeRuns, Safe, OrderedRuns
  <2>2. CASE e \in ApprovedEdits(x)
    <3>1. PICK i \in DOMAIN run.snapshots :
             run.snapshots[i].status = "approved" /\ e \in ToSet(run.snapshots[i].rows[x])
      BY <2>2 DEF ApprovedEdits
    <3>2. e[1] = "edit"
      BY <2>2 DEF ApprovedEdits
    <3> QED
      BY <2>1, <3>1, <3>2 DEF EditsKept
  <2>3. CASE e \in RulesDone(x)
    <3>1. /\ e \in {"rule"} \X DOMAIN run.node /\ e[2] \in graph.nodes
          /\ graph.kind[e[2]] = "rule" /\ run.node[e[2]].status = "completed"
          /\ x \in ToSet(run.node[e[2]].output)
      BY <2>3 DEF RulesDone
    <3>2. e = <<"rule", e[2]>>
      BY <3>1
    <3> QED
      BY <2>1, <3>1, <3>2 DEF RulesKept
  <2> QED
    BY <2>2, <2>3
<1> QED
  BY <1>1, <1>2, <1>3, Typing, PTL DEF Spec

=============================================================================
