-------------------------- MODULE FancyHub_proofs --------------------------
(***************************************************************************)
(* The hard limits of the connector, and what its answers stand for, for   *)
(* any number of assessments, models, tries, crashes and failing writes.   *)
(***************************************************************************)
EXTENDS FancyHub, FiniteSetTheorems, TLAPS

-----------------------------------------------------------------------------
(* Types.                                                                    *)

\* Tries are left while a model is being asked.
TriesLeft ==
    \A a \in Assessments :
        /\ task[a].pc \in {"new", "begun", "limited", "held", "discovered"} =>
              task[a].phase = "discovery"
        /\ task[a].pc = "ready" => task[a].phase = "assessment"
        /\ task[a].pc \in {"ready", "stamped", "admitted", "calling"}
           /\ task[a].phase = "assessment" => task[a].tries >= 1

Typed == TypeOK /\ TriesLeft

LEMMA AttemptedTyped ==
    ASSUME NEW a \in Assessments, task[a] \in Task
    PROVE  Attempted(a) \in Task
BY DEF Task, Attempted

LEMMA AttemptedFields ==
    ASSUME NEW a \in Assessments, task[a] \in Task
    PROVE  /\ Attempted(a) \in Task
           /\ Attempted(a).raw >= task[a].raw
           /\ Attempted(a).calls = task[a].calls
           /\ Attempted(a).tries = task[a].tries
           /\ Attempted(a).answer = task[a].answer
           /\ Attempted(a).ok = task[a].ok
           /\ Attempted(a).phase = task[a].phase
           /\ Attempted(a).deadline = task[a].deadline
BY DEF Task, Attempted

LEMMA TypingStep ==
    ASSUME Typed, [Next]_vars
    PROVE  Typed'
<1> USE HubAssumption DEF Typed
<1>t. task \in [Assessments -> Task] /\ \A a \in Assessments : task[a] \in Task
  BY DEF TypeOK
<1>r. \A a \in Assessments : Attempted(a) \in Task
  BY <1>t, AttemptedTyped
<1>f. /\ Cardinality(Live) \in Nat
      /\ \A m, n \in Nat : Least(m, n) \in Nat
      /\ \A m, n \in Nat : m * n \in Nat
  <2>1. IsFiniteSet(Live)
    BY FS_Subset DEF Live
  <2> QED
    BY <2>1, FS_CardinalityType DEF Least
<1>n. /\ now \in Nat /\ now + Timeout \in Nat /\ cached \in Nat \cup {None}
      /\ Reported \subseteq Nat
  BY DEF TypeOK
<1>m. \A n \in 0..Models : Tries * n \in Nat
  <2>1. \A n \in 0..Models : n \in Nat
    OBVIOUS
  <2> QED
    BY <2>1, <1>f
<1>s. \A a \in Assessments, new \in Task : [task EXCEPT ![a] = new] \in [Assessments -> Task]
  BY <1>t
<1>b. \A b \in BOOLEAN : Fault(b) => faults' \in 0..MaxFaults
  BY DEF Fault, TypeOK
<1>l. \A a \in Assessments, e \in {"SUCCESS", "FAILURE"} :
          [log EXCEPT ![a] = Append(@, e)] \in [Assessments -> Seq({"SUCCESS", "FAILURE"})]
  BY DEF TypeOK
<1> DEFINE Rest == /\ leases' \in [Assessments -> Nat \cup {None}]
                   /\ times' \subseteq sent' /\ sent' \subseteq Request
                   /\ cached' \in Nat \cup {None}
                   /\ log' \in [Assessments -> Seq({"SUCCESS", "FAILURE"})]
                   /\ record' \in [Assessments -> {"none", "success", "failed"}]
                   /\ overtaken' \in BOOLEAN /\ faults' \in 0..MaxFaults
<1>1. ASSUME NEW a \in Assessments, Begin(a) PROVE Typed'
  <2> DEFINE outcomes == {[task[a] EXCEPT !.pc = "begun", !.deadline = now + Timeout]}
  <2>1. task[a] \in Task /\ Attempted(a) \in Task
    BY <1>t, <1>r
  <2>2. [task[a] EXCEPT !.pc = "begun", !.deadline = now + Timeout] \in Task
    BY <1>1, <2>1, <1>f, <1>n DEF Begin, Task, PCs, At, Answers, Phases
  <2>3. \E new \in outcomes : task' = [task EXCEPT ![a] = new]
    BY <1>1 DEF Begin, Set
  <2>4. task' \in [Assessments -> Task] /\ task'[a] \in outcomes
         /\ \A b \in Assessments \ {a} : task'[b] = task[b]
    BY <2>2, <2>3, <1>t, <1>s
  <2>5. Rest /\ now' \in 0..MaxNow
    BY <1>1, <2>1, <1>f, <1>l DEF Begin, TypeOK, admission, history, Task
  <2>6. TriesLeft'
    <3>1. \A b \in Assessments \ {a} : task'[b] = task[b]
      BY <2>4
    <3>2. task'[a].pc = "begun" /\ task'[a].phase = task[a].phase /\ task[a].pc = "new"
      BY <1>1, <2>1, <2>4 DEF Begin, Set, Task, At
    <3> QED
      BY <3>1, <3>2 DEF TriesLeft
  <2> QED
    BY <2>4, <2>5, <2>6 DEF TypeOK
<1>2. ASSUME NEW a \in Assessments, ReadLimits(a) PROVE Typed'
  <2> DEFINE outcomes == {[task[a] EXCEPT !.pc = "limited", !.limit = IF cached = None THEN Limit ELSE Least(cached, Limit)]}
  <2>1. task[a] \in Task /\ Attempted(a) \in Task
    BY <1>t, <1>r
  <2>2. [task[a] EXCEPT !.pc = "limited", !.limit = IF cached = None THEN Limit ELSE Least(cached, Limit)] \in Task
    BY <1>2, <2>1, <1>f, <1>n DEF ReadLimits, Task, PCs, At, Answers, Phases
  <2>3. \E new \in outcomes : task' = [task EXCEPT ![a] = new]
    BY <1>2 DEF ReadLimits, Set
  <2>4. task' \in [Assessments -> Task] /\ task'[a] \in outcomes
         /\ \A b \in Assessments \ {a} : task'[b] = task[b]
    BY <2>2, <2>3, <1>t, <1>s
  <2>5. Rest /\ now' \in 0..MaxNow
    BY <1>2, <2>1, <1>f, <1>l DEF ReadLimits, TypeOK, admission, history, Task
  <2>6. TriesLeft'
    <3>1. \A b \in Assessments \ {a} : task'[b] = task[b]
      BY <2>4
    <3> QED
      BY <1>2, <2>1, <2>4, <3>1 DEF ReadLimits, TriesLeft, Set, Task, At
  <2> QED
    BY <2>4, <2>5, <2>6 DEF TypeOK
<1>3. ASSUME NEW a \in Assessments, Acquire(a) PROVE Typed'
  <2> DEFINE outcomes == {[task[a] EXCEPT !.pc = "auditFailure"],
                          [task[a] EXCEPT !.pc = "held", !.before = Cardinality(Live)]}
  <2>1. task[a] \in Task /\ Attempted(a) \in Task
    BY <1>t, <1>r
  <2>2. [task[a] EXCEPT !.pc = "auditFailure"] \in Task
    BY <1>3, <2>1, <1>f, <1>n DEF Acquire, Task, PCs, At, Answers, Phases
  <2>3. [task[a] EXCEPT !.pc = "held", !.before = Cardinality(Live)] \in Task
    BY <1>3, <2>1, <1>f, <1>n DEF Acquire, Task, PCs, At, Answers, Phases
  <2>4. \E new \in outcomes : task' = [task EXCEPT ![a] = new]
    BY <1>3 DEF Acquire, Set, Goto
  <2>5. task' \in [Assessments -> Task] /\ task'[a] \in outcomes
         /\ \A b \in Assessments \ {a} : task'[b] = task[b]
    BY <2>2, <2>3, <2>4, <1>t, <1>s
  <2>6. Rest /\ now' \in 0..MaxNow
    <3>1. leases' \in [Assessments -> Nat \cup {None}]
      <4>1. CASE leases' = leases
        BY <4>1 DEF TypeOK
      <4>2. CASE leases' = [b \in Assessments |->
                              IF b = a THEN task[a].deadline
                              ELSE IF b \in Live THEN leases[b] ELSE None]
        BY <4>2, <2>1 DEF TypeOK, Task
      <4> QED
        BY <1>3, <4>1, <4>2 DEF Acquire
    <3> QED
      BY <1>3, <3>1 DEF Acquire, TypeOK, history
  <2>7. TriesLeft'
    <3>1. \A b \in Assessments \ {a} : task'[b] = task[b]
      BY <2>5
    <3>2. /\ task'[a].pc \in {"auditFailure", "held"}
          /\ task'[a].phase = task[a].phase
          /\ task[a].pc = "limited"
      BY <1>3, <2>1, <2>5 DEF Acquire, Set, Goto, Task, At
    <3> QED
      BY <3>1, <3>2 DEF TriesLeft
  <2> QED
    BY <2>5, <2>6, <2>7 DEF TypeOK
<1>4. ASSUME NEW a \in Assessments, Stamp(a) PROVE Typed'
  <2> DEFINE outcomes == {[task[a] EXCEPT !.pc = "release"],
                          [task[a] EXCEPT !.pc = "stamped", !.stamp = now]}
  <2>1. task[a] \in Task /\ Attempted(a) \in Task
    BY <1>t, <1>r
  <2>2. [task[a] EXCEPT !.pc = "release"] \in Task
    BY <1>4, <2>1, <1>f, <1>n DEF Stamp, Task, PCs, At, Answers, Phases
  <2>3. [task[a] EXCEPT !.pc = "stamped", !.stamp = now] \in Task
    BY <1>4, <2>1, <1>f, <1>n DEF Stamp, Task, PCs, At, Answers, Phases
  <2>4. \E new \in outcomes : task' = [task EXCEPT ![a] = new]
    BY <1>4 DEF Stamp, Set, Goto
  <2>5. task' \in [Assessments -> Task] /\ task'[a] \in outcomes
         /\ \A b \in Assessments \ {a} : task'[b] = task[b]
    BY <2>2, <2>3, <2>4, <1>t, <1>s
  <2>6. Rest /\ now' \in 0..MaxNow
    BY <1>4, <2>1, <1>f, <1>l DEF Stamp, TypeOK, admission, history, Task
  <2>7. TriesLeft'
    <3>1. \A b \in Assessments \ {a} : task'[b] = task[b]
      BY <2>5
    <3>2. /\ task'[a].pc \in {"release", "stamped"}
          /\ task'[a].phase = task[a].phase
          /\ task'[a].tries = task[a].tries
          /\ task[a].pc \in {"held", "ready"}
      BY <1>4, <2>1, <2>5 DEF Stamp, Set, Goto, Task, At
    <3> QED
      BY <3>1, <3>2 DEF TriesLeft
  <2> QED
    BY <2>5, <2>6, <2>7 DEF TypeOK
<1>5. ASSUME NEW a \in Assessments, Consume(a) PROVE Typed'
  <2> DEFINE outcomes == {[Attempted(a) EXCEPT !.pc = "release"],
                          [task[a] EXCEPT !.pc = "admitted", !.stamp = 0, !.requests = @ + 1]}
  <2>1. task[a] \in Task /\ Attempted(a) \in Task
    BY <1>t, <1>r
  <2>2. [Attempted(a) EXCEPT !.pc = "release"] \in Task
    BY <1>5, <2>1, <1>f, <1>n DEF Consume, Task, PCs, At, Answers, Phases
  <2>3. [task[a] EXCEPT !.pc = "admitted", !.stamp = 0, !.requests = @ + 1] \in Task
    <3>1. task[a].requests + 1 \in Nat
      BY <2>1 DEF Task
    <3> QED
      BY <2>1, <3>1 DEF Task, PCs
  <2>4. \E new \in outcomes : task' = [task EXCEPT ![a] = new]
    BY <1>5 DEF Consume, Set
  <2>5. task' \in [Assessments -> Task] /\ task'[a] \in outcomes
         /\ \A b \in Assessments \ {a} : task'[b] = task[b]
    BY <2>2, <2>3, <2>4, <1>t, <1>s
  <2>6. Rest /\ now' \in 0..MaxNow
    <3>1. [by |-> a, no |-> task[a].requests, at |-> task[a].stamp] \in Request
      BY <2>1 DEF Task, Request
    <3>2. overtaken' \in BOOLEAN
      BY <1>5 DEF Consume, history, TypeOK
    <3>3. times' \subseteq sent' /\ sent' \subseteq Request
      BY <1>5, <3>1 DEF Consume, history, TypeOK, Counted
    <3> QED
      BY <1>5, <3>2, <3>3 DEF Consume, TypeOK
  <2>7. TriesLeft'
    <3>1. \A b \in Assessments \ {a} : task'[b] = task[b]
      BY <2>5
    <3>2. /\ task'[a].pc \in {"release", "admitted"}
          /\ task'[a].phase = task[a].phase
          /\ task'[a].tries = task[a].tries
          /\ task[a].pc = "stamped"
      BY <1>5, <2>1, <2>5 DEF Consume, Set, Task, At, Attempted
    <3> QED
      BY <3>1, <3>2 DEF TriesLeft
  <2> QED
    BY <2>5, <2>6, <2>7 DEF TypeOK
<1>6. ASSUME NEW a \in Assessments, Call(a) PROVE Typed'
  <2> DEFINE outcomes == {[Attempted(a) EXCEPT !.pc = "release"],
                          [task[a] EXCEPT !.pc = "calling", !.calls = @ + (IF task[a].phase = "assessment" THEN 1 ELSE 0)]}
  <2>1. task[a] \in Task /\ Attempted(a) \in Task
    BY <1>t, <1>r
  <2>2. [Attempted(a) EXCEPT !.pc = "release"] \in Task
    BY <1>6, <2>1, <1>f, <1>n DEF Call, Task, PCs, At, Answers, Phases
  <2>3. [task[a] EXCEPT !.pc = "calling", !.calls = @ + (IF task[a].phase = "assessment" THEN 1 ELSE 0)] \in Task
    <3>1. task[a].calls + (IF task[a].phase = "assessment" THEN 1 ELSE 0) \in Nat
      BY <2>1 DEF Task
    <3> QED
      BY <2>1, <3>1 DEF Task, PCs
  <2>4. \E new \in outcomes : task' = [task EXCEPT ![a] = new]
    BY <1>6 DEF Call, Set
  <2>5. task' \in [Assessments -> Task] /\ task'[a] \in outcomes
         /\ \A b \in Assessments \ {a} : task'[b] = task[b]
    BY <2>2, <2>3, <2>4, <1>t, <1>s
  <2>6. Rest /\ now' \in 0..MaxNow
    BY <1>6, <2>1, <1>f, <1>l DEF Call, TypeOK, admission, history, Task
  <2>7. TriesLeft'
    <3>1. \A b \in Assessments \ {a} : task'[b] = task[b]
      BY <2>5
    <3>2. /\ task'[a].pc \in {"release", "calling"}
          /\ task'[a].phase = task[a].phase
          /\ task'[a].tries = task[a].tries
          /\ task[a].pc = "admitted"
      BY <1>6, <2>1, <2>5 DEF Call, Set, Task, At, Attempted
    <3> QED
      BY <3>1, <3>2 DEF TriesLeft
  <2> QED
    BY <2>5, <2>6, <2>7 DEF TypeOK
<1>7. ASSUME NEW a \in Assessments, NEW limit \in Reported, NEW n \in 0..Models, Discover(a, limit, n) PROVE Typed'
  <2> DEFINE outcomes == {[task[a] EXCEPT !.pc = "discovered", !.limit = limit, !.tries = Tries * n]}
  <2>1. task[a] \in Task /\ Attempted(a) \in Task
    BY <1>t, <1>r
  <2>2. [task[a] EXCEPT !.pc = "discovered", !.limit = limit, !.tries = Tries * n] \in Task
    BY <1>7, <2>1, <1>m, <1>n DEF Discover, Task, PCs, At, Answers, Calling, Phases
  <2>3. \E new \in outcomes : task' = [task EXCEPT ![a] = new]
    BY <1>7 DEF Discover, Set
  <2>4. task' \in [Assessments -> Task] /\ task'[a] \in outcomes
         /\ \A b \in Assessments \ {a} : task'[b] = task[b]
    BY <2>2, <2>3, <1>t, <1>s
  <2>5. Rest /\ now' \in 0..MaxNow
    BY <1>7, <2>1, <1>f, <1>l DEF Discover, TypeOK, admission, history, Task
  <2>6. TriesLeft'
    <3>1. \A b \in Assessments \ {a} : task'[b] = task[b]
      BY <2>4
    <3> QED
      BY <1>7, <2>1, <2>4, <3>1 DEF Discover, TriesLeft, Set, Task, At, Calling
  <2> QED
    BY <2>4, <2>5, <2>6 DEF TypeOK
<1>8. ASSUME NEW a \in Assessments, DiscoveryFails(a) PROVE Typed'
  <2> DEFINE outcomes == {[task[a] EXCEPT !.pc = "release"]}
  <2>1. task[a] \in Task /\ Attempted(a) \in Task
    BY <1>t, <1>r
  <2>2. [task[a] EXCEPT !.pc = "release"] \in Task
    BY <1>8, <2>1, <1>f, <1>n DEF DiscoveryFails, Task, PCs, At, Answers, Calling,
       Phases
  <2>3. \E new \in outcomes : task' = [task EXCEPT ![a] = new]
    BY <1>8 DEF DiscoveryFails, Set, Goto
  <2>4. task' \in [Assessments -> Task] /\ task'[a] \in outcomes
         /\ \A b \in Assessments \ {a} : task'[b] = task[b]
    BY <2>2, <2>3, <1>t, <1>s
  <2>5. Rest /\ now' \in 0..MaxNow
    BY <1>8, <2>1, <1>f, <1>l DEF DiscoveryFails, TypeOK, admission, history, Task
  <2>6. TriesLeft'
    <3>1. \A b \in Assessments \ {a} : task'[b] = task[b]
      BY <2>4
    <3> QED
      BY <1>8, <2>1, <2>4, <3>1 DEF DiscoveryFails, TriesLeft, Set, Goto, Task, At,
         Calling
  <2> QED
    BY <2>4, <2>5, <2>6 DEF TypeOK
<1>9. ASSUME NEW a \in Assessments, Learn(a) PROVE Typed'
  <2> DEFINE outcomes == {[task[a] EXCEPT !.limit = Least(@, Limit), !.phase = "assessment", !.pc = "release"],
                          [task[a] EXCEPT !.limit = Least(@, Limit), !.phase = "assessment", !.pc = "ready"]}
  <2>1. task[a] \in Task /\ Attempted(a) \in Task
    BY <1>t, <1>r
  <2>2. [task[a] EXCEPT !.limit = Least(@, Limit), !.phase = "assessment", !.pc = "release"] \in Task
    BY <1>9, <2>1, <1>f, <1>n DEF Learn, Task, PCs, At, Answers, Phases
  <2>3. [task[a] EXCEPT !.limit = Least(@, Limit), !.phase = "assessment", !.pc = "ready"] \in Task
    BY <1>9, <2>1, <1>f, <1>n DEF Learn, Task, PCs, At, Answers, Phases
  <2>4. \E new \in outcomes : task' = [task EXCEPT ![a] = new]
    BY <1>9 DEF Learn, Set
  <2>5. task' \in [Assessments -> Task] /\ task'[a] \in outcomes
         /\ \A b \in Assessments \ {a} : task'[b] = task[b]
    BY <2>2, <2>3, <2>4, <1>t, <1>s
  <2>6. Rest /\ now' \in 0..MaxNow
    BY <1>9, <2>1, <1>f, <1>l DEF Learn, TypeOK, history, Task
  <2>7. TriesLeft'
    <3>1. \A b \in Assessments \ {a} : task'[b] = task[b]
      BY <2>5
    <3> QED
      BY <1>9, <2>1, <2>5, <3>1 DEF Learn, TriesLeft, Set, Task, At
  <2> QED
    BY <2>5, <2>6, <2>7 DEF TypeOK
<1>10. ASSUME NEW a \in Assessments, Succeed(a) PROVE Typed'
  <2> DEFINE outcomes == {[Attempted(a) EXCEPT !.pc = "audit"]}
  <2>1. task[a] \in Task /\ Attempted(a) \in Task
    BY <1>t, <1>r
  <2>2. [Attempted(a) EXCEPT !.pc = "audit"] \in Task
    BY <1>10, <2>1, <1>f, <1>n DEF Succeed, Task, PCs, At, Answers, Calling, Phases
  <2>3. \E new \in outcomes : task' = [task EXCEPT ![a] = new]
    BY <1>10 DEF Succeed, Set
  <2>4. task' \in [Assessments -> Task] /\ task'[a] \in outcomes
         /\ \A b \in Assessments \ {a} : task'[b] = task[b]
    BY <2>2, <2>3, <1>t, <1>s
  <2>5. Rest /\ now' \in 0..MaxNow
    BY <1>10, <2>1, <1>f, <1>l DEF Succeed, TypeOK, admission, history, Task
  <2>6. TriesLeft'
    <3>1. \A b \in Assessments \ {a} : task'[b] = task[b]
      BY <2>4
    <3> QED
      BY <1>10, <2>1, <2>4, <3>1 DEF Succeed, TriesLeft, Set, Task, At, Attempted,
         Calling
  <2> QED
    BY <2>4, <2>5, <2>6 DEF TypeOK
<1>11. ASSUME NEW a \in Assessments, FailTemporarily(a) PROVE Typed'
  <2> DEFINE outcomes == {[Attempted(a) EXCEPT !.tries = @ - 1, !.pc = "ready"],
                          [Attempted(a) EXCEPT !.tries = @ - 1, !.pc = "release"]}
  <2>1. task[a] \in Task /\ Attempted(a) \in Task
    BY <1>t, <1>r
  <2>n. Attempted(a).tries - 1 \in Nat
    <3>1. task[a].tries \in Nat /\ task[a].tries >= 1
      BY <1>11, <2>1 DEF FailTemporarily, Calling, At, TriesLeft, Task
    <3>2. Attempted(a).tries = task[a].tries
      BY <2>1 DEF Attempted, Task
    <3> QED
      BY <3>1, <3>2
  <2>2. [Attempted(a) EXCEPT !.tries = @ - 1, !.pc = "ready"] \in Task
    BY <2>1, <2>n DEF Task, PCs
  <2>3. [Attempted(a) EXCEPT !.tries = @ - 1, !.pc = "release"] \in Task
    BY <2>1, <2>n DEF Task, PCs
  <2>4. \E new \in outcomes : task' = [task EXCEPT ![a] = new]
    BY <1>11 DEF FailTemporarily, Set
  <2>5. task' \in [Assessments -> Task] /\ task'[a] \in outcomes
         /\ \A b \in Assessments \ {a} : task'[b] = task[b]
    BY <2>2, <2>3, <2>4, <1>t, <1>s
  <2>6. Rest /\ now' \in 0..MaxNow
    BY <1>11, <2>1, <1>f, <1>l DEF FailTemporarily, TypeOK, admission, history, Task
  <2>7. TriesLeft'
    <3>1. \A b \in Assessments \ {a} : task'[b] = task[b]
      BY <2>5
    <3> QED
      BY <1>11, <2>1, <2>5, <3>1 DEF FailTemporarily, TriesLeft, Set, Task, At,
         Attempted, Calling
  <2> QED
    BY <2>5, <2>6, <2>7 DEF TypeOK
<1>12. ASSUME NEW a \in Assessments, FailForGood(a) PROVE Typed'
  <2> DEFINE outcomes == {[Attempted(a) EXCEPT !.pc = "release"]}
  <2>1. task[a] \in Task /\ Attempted(a) \in Task
    BY <1>t, <1>r
  <2>2. [Attempted(a) EXCEPT !.pc = "release"] \in Task
    BY <1>12, <2>1, <1>f, <1>n DEF FailForGood, Task, PCs, At, Answers, Calling, Phases
  <2>3. \E new \in outcomes : task' = [task EXCEPT ![a] = new]
    BY <1>12 DEF FailForGood, Set
  <2>4. task' \in [Assessments -> Task] /\ task'[a] \in outcomes
         /\ \A b \in Assessments \ {a} : task'[b] = task[b]
    BY <2>2, <2>3, <1>t, <1>s
  <2>5. Rest /\ now' \in 0..MaxNow
    BY <1>12, <2>1, <1>f, <1>l DEF FailForGood, TypeOK, admission, history, Task
  <2>6. TriesLeft'
    <3>1. \A b \in Assessments \ {a} : task'[b] = task[b]
      BY <2>4
    <3> QED
      BY <1>12, <2>1, <2>4, <3>1 DEF FailForGood, TriesLeft, Set, Task, At, Attempted,
         Calling
  <2> QED
    BY <2>4, <2>5, <2>6 DEF TypeOK
<1>13. ASSUME NEW a \in Assessments, NEW fails \in BOOLEAN, Audit(a, fails) PROVE Typed'
  <2> DEFINE outcomes == {[task[a] EXCEPT !.pc = "release", !.ok = ~fails]}
  <2>1. task[a] \in Task /\ Attempted(a) \in Task
    BY <1>t, <1>r
  <2>2. [task[a] EXCEPT !.pc = "release", !.ok = ~fails] \in Task
    BY <1>13, <2>1, <1>f, <1>n DEF Audit, Task, PCs, At, Answers, Phases
  <2>3. \E new \in outcomes : task' = [task EXCEPT ![a] = new]
    BY <1>13 DEF Audit, Set
  <2>4. task' \in [Assessments -> Task] /\ task'[a] \in outcomes
         /\ \A b \in Assessments \ {a} : task'[b] = task[b]
    BY <2>2, <2>3, <1>t, <1>s
  <2>5. Rest /\ now' \in 0..MaxNow
    BY <1>13, <2>1, <1>b, <1>f, <1>l DEF Audit, TypeOK, admission, history, Task
  <2>6. TriesLeft'
    <3>1. \A b \in Assessments \ {a} : task'[b] = task[b]
      BY <2>4
    <3> QED
      BY <1>13, <2>1, <2>4, <3>1 DEF Audit, TriesLeft, Set, Task, At
  <2> QED
    BY <2>4, <2>5, <2>6 DEF TypeOK
<1>14. ASSUME NEW a \in Assessments, NEW fails \in BOOLEAN, Release(a, fails) PROVE Typed'
  <2> DEFINE outcomes == {[task[a] EXCEPT !.pc = "save"],
                          [task[a] EXCEPT !.pc = "auditFailure"]}
  <2>1. task[a] \in Task /\ Attempted(a) \in Task
    BY <1>t, <1>r
  <2>2. [task[a] EXCEPT !.pc = "save"] \in Task
    BY <1>14, <2>1, <1>f, <1>n DEF Release, Task, PCs, At, Answers, Phases
  <2>3. [task[a] EXCEPT !.pc = "auditFailure"] \in Task
    BY <1>14, <2>1, <1>f, <1>n DEF Release, Task, PCs, At, Answers, Phases
  <2>4. \E new \in outcomes : task' = [task EXCEPT ![a] = new]
    BY <1>14 DEF Release, Set, Goto
  <2>5. task' \in [Assessments -> Task] /\ task'[a] \in outcomes
         /\ \A b \in Assessments \ {a} : task'[b] = task[b]
    BY <2>2, <2>3, <2>4, <1>t, <1>s
  <2>6. Rest /\ now' \in 0..MaxNow
    BY <1>14, <2>1, <1>b, <1>f, <1>l DEF Release, TypeOK, history, Task
  <2>7. TriesLeft'
    <3>1. \A b \in Assessments \ {a} : task'[b] = task[b]
      BY <2>5
    <3> QED
      BY <1>14, <2>1, <2>5, <3>1 DEF Release, TriesLeft, Set, Goto, Task, At
  <2> QED
    BY <2>5, <2>6, <2>7 DEF TypeOK
<1>15. ASSUME NEW a \in Assessments, NEW fails \in BOOLEAN, AuditFailure(a, fails) PROVE Typed'
  <2> DEFINE outcomes == {EndUnsuccessfully(a)}
  <2>1. task[a] \in Task /\ Attempted(a) \in Task
    BY <1>t, <1>r
  <2>2. EndUnsuccessfully(a) \in Task
    BY <1>15, <2>1, <1>f, <1>n DEF AuditFailure, Task, PCs, At, EndUnsuccessfully,
       Answers, Phases
  <2>3. \E new \in outcomes : task' = [task EXCEPT ![a] = new]
    BY <1>15 DEF AuditFailure, Set
  <2>4. task' \in [Assessments -> Task] /\ task'[a] \in outcomes
         /\ \A b \in Assessments \ {a} : task'[b] = task[b]
    BY <2>2, <2>3, <1>t, <1>s
  <2>5. Rest /\ now' \in 0..MaxNow
    BY <1>15, <2>1, <1>b, <1>f, <1>l DEF AuditFailure, TypeOK, admission, history, Task
  <2>6. TriesLeft'
    <3>1. \A b \in Assessments \ {a} : task'[b] = task[b]
      BY <2>4
    <3> QED
      BY <1>15, <2>1, <2>4, <3>1 DEF AuditFailure, TriesLeft, Set, EndUnsuccessfully,
         Task, At
  <2> QED
    BY <2>4, <2>5, <2>6 DEF TypeOK
<1>16. ASSUME NEW a \in Assessments, NEW fails \in BOOLEAN, Save(a, fails) PROVE Typed'
  <2> DEFINE outcomes == {EndUnsuccessfully(a),
                          [task[a] EXCEPT !.pc = "done", !.answer = "success"]}
  <2>1. task[a] \in Task /\ Attempted(a) \in Task
    BY <1>t, <1>r
  <2>2. EndUnsuccessfully(a) \in Task
    BY <1>16, <2>1, <1>f, <1>n DEF Save, Task, PCs, At, EndUnsuccessfully, Answers,
       Phases
  <2>3. [task[a] EXCEPT !.pc = "done", !.answer = "success"] \in Task
    BY <1>16, <2>1, <1>f, <1>n DEF Save, Task, PCs, At, EndUnsuccessfully, Answers,
       Phases
  <2>4. \E new \in outcomes : task' = [task EXCEPT ![a] = new]
    BY <1>16 DEF Save, Set
  <2>5. task' \in [Assessments -> Task] /\ task'[a] \in outcomes
         /\ \A b \in Assessments \ {a} : task'[b] = task[b]
    BY <2>2, <2>3, <2>4, <1>t, <1>s
  <2>6. Rest /\ now' \in 0..MaxNow
    BY <1>16, <2>1, <1>b, <1>f, <1>l DEF Save, TypeOK, admission, history, Task
  <2>7. TriesLeft'
    <3>1. \A b \in Assessments \ {a} : task'[b] = task[b]
      BY <2>5
    <3>2. task'[a].pc \in {"saveFailure", "done"}
      BY <1>16, <2>1, <2>5 DEF Save, Set, EndUnsuccessfully, Task, At
    <3> QED
      BY <3>1, <3>2 DEF TriesLeft
  <2> QED
    BY <2>5, <2>6, <2>7 DEF TypeOK
<1>17. ASSUME NEW a \in Assessments, NEW fails \in BOOLEAN, SaveFailure(a, fails) PROVE Typed'
  <2> DEFINE outcomes == {[task[a] EXCEPT !.pc = "done", !.answer = "unrecorded"],
                          [task[a] EXCEPT !.pc = "done", !.answer = "error"]}
  <2>1. task[a] \in Task /\ Attempted(a) \in Task
    BY <1>t, <1>r
  <2>2. [task[a] EXCEPT !.pc = "done", !.answer = "unrecorded"] \in Task
    BY <1>17, <2>1, <1>f, <1>n DEF SaveFailure, Task, PCs, At, Answers, Phases
  <2>3. [task[a] EXCEPT !.pc = "done", !.answer = "error"] \in Task
    BY <1>17, <2>1, <1>f, <1>n DEF SaveFailure, Task, PCs, At, Answers, Phases
  <2>4. \E new \in outcomes : task' = [task EXCEPT ![a] = new]
    BY <1>17 DEF SaveFailure, Set
  <2>5. task' \in [Assessments -> Task] /\ task'[a] \in outcomes
         /\ \A b \in Assessments \ {a} : task'[b] = task[b]
    BY <2>2, <2>3, <2>4, <1>t, <1>s
  <2>6. Rest /\ now' \in 0..MaxNow
    BY <1>17, <2>1, <1>b, <1>f, <1>l DEF SaveFailure, TypeOK, admission, history, Task
  <2>7. TriesLeft'
    <3>1. \A b \in Assessments \ {a} : task'[b] = task[b]
      BY <2>5
    <3> QED
      BY <1>17, <2>1, <2>5, <3>1 DEF SaveFailure, TriesLeft, Set, Task, At
  <2> QED
    BY <2>5, <2>6, <2>7 DEF TypeOK
<1>18. ASSUME NEW a \in Assessments, Crash(a) PROVE Typed'
  <2> DEFINE outcomes == {[task[a] EXCEPT !.pc = "dead"]}
  <2>1. task[a] \in Task /\ Attempted(a) \in Task
    BY <1>t, <1>r
  <2>2. [task[a] EXCEPT !.pc = "dead"] \in Task
    BY <1>18, <2>1, <1>f, <1>n DEF Crash, Task, PCs, Answers, Phases
  <2>3. \E new \in outcomes : task' = [task EXCEPT ![a] = new]
    BY <1>18 DEF Crash, Set, Goto
  <2>4. task' \in [Assessments -> Task] /\ task'[a] \in outcomes
         /\ \A b \in Assessments \ {a} : task'[b] = task[b]
    BY <2>2, <2>3, <1>t, <1>s
  <2>5. Rest /\ now' \in 0..MaxNow
    BY <1>18, <2>1, <1>b, <1>f, <1>l DEF Crash, TypeOK, admission, history, Task
  <2>6. TriesLeft'
    <3>1. \A b \in Assessments \ {a} : task'[b] = task[b]
      BY <2>4
    <3> QED
      BY <1>18, <2>1, <2>4, <3>1 DEF Crash, TriesLeft, Set, Goto, Task
  <2> QED
    BY <2>4, <2>5, <2>6 DEF TypeOK
<1>20. ASSUME Tick PROVE Typed'
  BY <1>20 DEF Tick, TypeOK, TriesLeft, admission, history
<1>21. CASE UNCHANGED vars
  BY <1>21 DEF vars, admission, history, TypeOK, TriesLeft
<1> QED
  BY <1>1, <1>2, <1>3, <1>4, <1>5, <1>6, <1>7, <1>8, <1>9, <1>10, <1>11,
     <1>12, <1>13, <1>14, <1>15, <1>16, <1>17, <1>18, <1>20, <1>21
     DEF Next, TaskStep, ProviderStep, TimesOut

LEMMA TypedAlways == Spec => []Typed
<1>1. Init => Typed
  <2> SUFFICES ASSUME Init PROVE Typed
    OBVIOUS
  <2>1. << >> \in Seq({"SUCCESS", "FAILURE"})
    OBVIOUS
  <2>2. task \in [Assessments -> Task]
    BY DEF Init, Task, PCs, Phases, Answers
  <2>3. \A a \in Assessments : task[a].pc = "new" /\ task[a].phase = "discovery"
    BY DEF Init
  <2>4. TriesLeft
    BY <2>3 DEF TriesLeft
  <2>5. now \in 0..MaxNow /\ faults \in 0..MaxFaults /\ cached \in Nat \cup {None}
    BY HubAssumption DEF Init
  <2> QED
    BY <2>1, <2>2, <2>4, <2>5 DEF Init, Typed, TypeOK
<1> QED
  BY <1>1, TypingStep, PTL DEF Spec

\* The types hold in every reachable state of the connector.
THEOREM Typing == Spec => []TypeOK
BY TypedAlways, PTL DEF Typed

-----------------------------------------------------------------------------
(* What one assessment has done, from admission to answer.                   *)

Early == {"new", "begun", "limited", "held", "ready", "stamped", "admitted",
          "calling", "discovered", "audit"}

\* Nothing is in the log before the end, and a result that goes on from
\* there is audited, then released, then saved.
Backed(a) ==
    /\ task[a].answer # "none" => task[a].pc = "done"
    /\ task[a].pc \in Early => ~task[a].ok /\ log[a] = << >>
    /\ task[a].pc = "release" /\ task[a].ok => log[a] = <<"SUCCESS">>
    /\ task[a].pc = "save" => log[a] = <<"SUCCESS">> /\ leases[a] = None
    /\ task[a].answer = "success" =>
          record[a] = "success" /\ log[a] = <<"SUCCESS">> /\ leases[a] = None

\* Every call that has ended has left its raw record.
Recorded(a) ==
    /\ task[a].phase = "discovery" => task[a].calls = 0
    /\ task[a].pc \notin {"calling", "dead"} => task[a].calls <= task[a].raw
    /\ task[a].pc \in {"calling", "dead"} => task[a].calls <= task[a].raw + 1
    /\ task[a].answer = "error" /\ task[a].calls > 0 => record[a] # "none"

\* The tries left are paid for.
Paid(a) ==
    /\ task[a].calls <= Budget
    /\ task[a].phase = "assessment" =>
          /\ task[a].pc \in {"ready", "stamped", "admitted"} =>
                task[a].calls + task[a].tries <= Budget
          /\ task[a].pc = "calling" => task[a].calls + task[a].tries <= Budget + 1

Account(a) == Backed(a) /\ Recorded(a) /\ Paid(a)

Accounts == \A a \in Assessments : Account(a)

LEMMA AccountsStep ==
    ASSUME Typed, Accounts, [Next]_vars
    PROVE  Accounts'
<1> USE HubAssumption DEF Typed, TypeOK
<1>t. /\ task \in [Assessments -> Task]
      /\ \A a \in Assessments : task[a] \in Task /\ Account(a)
  BY DEF Accounts
<1>u. \A a \in Assessments : \A new : task' = [task EXCEPT ![a] = new] => task'[a] = new
  BY <1>t
<1> DEFINE Others(a) == \A b \in Assessments \ {a} :
                            /\ task'[b] = task[b] /\ log'[b] = log[b] /\ record'[b] = record[b]
                            /\ leases[b] = None => leases'[b] = None
<1>o. ASSUME NEW a \in Assessments, Others(a), Account(a)' PROVE Accounts'
  BY <1>o, <1>t DEF Accounts, Account, Backed, Recorded, Paid
<1> HIDE DEF TypeOK, Typed
<1>1. ASSUME NEW a \in Assessments, Begin(a) PROVE Accounts'
  <2>1. task[a] \in Task /\ Account(a) /\ leases \in [Assessments -> Nat \cup {None}]
    BY <1>t DEF TypeOK, Typed
  <2>2. Others(a)
    BY <1>1, <1>t DEF Begin, Set, admission, history, TypeOK, Typed
  <2>3. Backed(a)'
    BY <1>1, <1>t, <2>1 DEF Begin, Set, admission, history, Task, At, Account, Backed,
       Early, TypeOK, Typed
  <2>4. Recorded(a)'
    BY <1>1, <1>t, <2>1 DEF Begin, Set, admission, history, Task, At, Account,
       Recorded, TypeOK, Typed
  <2>5. Paid(a)'
    BY <1>1, <1>t, <2>1 DEF Begin, Set, admission, history, Task, At, Account, Paid,
       TypeOK, Typed, TriesLeft
  <2> QED
    BY <1>o, <2>2, <2>3, <2>4, <2>5 DEF Account
<1>2. ASSUME NEW a \in Assessments, ReadLimits(a) PROVE Accounts'
  <2>1. task[a] \in Task /\ Account(a) /\ leases \in [Assessments -> Nat \cup {None}]
    BY <1>t DEF TypeOK, Typed
  <2>2. Others(a)
    BY <1>2, <1>t DEF ReadLimits, Set, admission, history, TypeOK, Typed
  <2>3. Backed(a)'
    BY <1>2, <1>t, <2>1 DEF ReadLimits, Set, admission, history, Task, At, Account,
       Backed, Early, TypeOK, Typed
  <2>4. Recorded(a)'
    BY <1>2, <1>t, <2>1 DEF ReadLimits, Set, admission, history, Task, At, Account,
       Recorded, TypeOK, Typed
  <2>5. Paid(a)'
    BY <1>2, <1>t, <2>1 DEF ReadLimits, Set, admission, history, Task, At, Account,
       Paid, TypeOK, Typed, TriesLeft
  <2> QED
    BY <1>o, <2>2, <2>3, <2>4, <2>5 DEF Account
<1>3. ASSUME NEW a \in Assessments, Acquire(a) PROVE Accounts'
  <2> DEFINE outcomes == {[task[a] EXCEPT !.pc = "auditFailure"],
                          [task[a] EXCEPT !.pc = "held", !.before = Cardinality(Live)]}
  <2>1. task[a] \in Task /\ Account(a) /\ leases \in [Assessments -> Nat \cup {None}]
    BY <1>t DEF TypeOK, Typed
  <2>2. Others(a)
    BY <1>3, <1>t DEF Acquire, Set, Goto, history, TypeOK, Typed
  <2>x. task'[a] \in outcomes
    <3>1. \E new \in outcomes : task' = [task EXCEPT ![a] = new]
      BY <1>3 DEF Acquire, Set, Goto
    <3> QED
      BY <3>1, <1>u
  <2>e. task[a].pc = "limited" /\ task'[a].pc \in {"auditFailure", "held"}
         /\ task'[a].calls = task[a].calls /\ task'[a].raw = task[a].raw
         /\ task'[a].answer = task[a].answer /\ task'[a].ok = task[a].ok
         /\ task'[a].phase = task[a].phase /\ task'[a].raw \in Nat
         /\ log' = log /\ record' = record
    BY <1>3, <2>x, <2>1 DEF Acquire, Set, Goto, Task, At, history
  <2>3. Backed(a)'
    BY <2>1, <2>e DEF Task, Account, Backed, Early
  <2>4. Recorded(a)'
    BY <2>1, <2>e DEF Task, Account, Recorded
  <2>5. Paid(a)'
    BY <1>t, <2>1, <2>e DEF Task, Account, Paid, Typed, TriesLeft
  <2> QED
    BY <1>o, <2>2, <2>3, <2>4, <2>5 DEF Account
<1>4. ASSUME NEW a \in Assessments, Stamp(a) PROVE Accounts'
  <2> DEFINE outcomes == {[task[a] EXCEPT !.pc = "release"],
                          [task[a] EXCEPT !.pc = "stamped", !.stamp = now]}
  <2>1. task[a] \in Task /\ Account(a) /\ leases \in [Assessments -> Nat \cup {None}]
    BY <1>t DEF TypeOK, Typed
  <2>2. Others(a)
    BY <1>4, <1>t DEF Stamp, Set, Goto, admission, history, TypeOK, Typed
  <2>x. task'[a] \in outcomes
    <3>1. \E new \in outcomes : task' = [task EXCEPT ![a] = new]
      BY <1>4 DEF Stamp, Set, Goto
    <3> QED
      BY <3>1, <1>u
  <2>e. task[a].pc \in {"held", "ready"} /\ task'[a].pc \in {"release", "stamped"}
         /\ task'[a].calls = task[a].calls /\ task'[a].raw = task[a].raw
         /\ task'[a].tries = task[a].tries /\ leases' = leases
         /\ task'[a].answer = task[a].answer /\ task'[a].ok = task[a].ok
         /\ task'[a].phase = task[a].phase /\ task'[a].raw \in Nat
         /\ log' = log /\ record' = record
    BY <1>4, <2>x, <2>1 DEF Stamp, Set, Goto, Task, At, admission, history
  <2>3. Backed(a)'
    BY <2>1, <2>e DEF Task, Account, Backed, Early
  <2>4. Recorded(a)'
    BY <2>1, <2>e DEF Task, Account, Recorded
  <2>5. Paid(a)'
    BY <1>t, <2>1, <2>e DEF Task, Account, Paid, Typed, TriesLeft
  <2> QED
    BY <1>o, <2>2, <2>3, <2>4, <2>5 DEF Account
<1>5. ASSUME NEW a \in Assessments, Consume(a) PROVE Accounts'
  <2> DEFINE outcomes == {[Attempted(a) EXCEPT !.pc = "release"],
                          [task[a] EXCEPT !.pc = "admitted", !.stamp = 0, !.requests = @ + 1]}
  <2>1. task[a] \in Task /\ Account(a) /\ leases \in [Assessments -> Nat \cup {None}]
    BY <1>t DEF TypeOK, Typed
  <2>2. Others(a)
    BY <1>5, <1>t DEF Consume, Set, history, TypeOK, Typed
  <2>x. task'[a] \in outcomes
    <3>1. \E new \in outcomes : task' = [task EXCEPT ![a] = new]
      BY <1>5 DEF Consume, Set
    <3> QED
      BY <3>1, <1>u
  <2>e. task[a].pc = "stamped" /\ task'[a].pc \in {"release", "admitted"}
         /\ task'[a].calls = task[a].calls /\ task'[a].raw >= task[a].raw
         /\ task'[a].tries = task[a].tries /\ leases' = leases
         /\ task'[a].answer = task[a].answer /\ task'[a].ok = task[a].ok
         /\ task'[a].phase = task[a].phase /\ task'[a].raw \in Nat
         /\ log' = log /\ record' = record
    <3>1. task[a].pc = "stamped" /\ leases' = leases /\ log' = log /\ record' = record
      BY <1>5 DEF Consume, At
    <3>r. /\ Attempted(a) \in Task /\ Attempted(a).raw >= task[a].raw
          /\ Attempted(a).calls = task[a].calls /\ Attempted(a).tries = task[a].tries
          /\ Attempted(a).answer = task[a].answer /\ Attempted(a).ok = task[a].ok
          /\ Attempted(a).phase = task[a].phase
      BY <2>1, AttemptedFields
    <3>2. CASE task'[a] = [Attempted(a) EXCEPT !.pc = "release"]
      BY <2>1, <3>1, <3>2, <3>r DEF Task
    <3>3. CASE task'[a] # [Attempted(a) EXCEPT !.pc = "release"]
      <4>1. task'[a] = [task[a] EXCEPT !.pc = "admitted", !.stamp = 0, !.requests = @ + 1]
        BY <2>x, <3>3
      <4> QED
        BY <2>1, <3>1, <4>1 DEF Task
    <3> QED
      BY <3>2, <3>3
  <2>3. Backed(a)'
    BY <2>1, <2>e DEF Task, Account, Backed, Early
  <2>4. Recorded(a)'
    BY <2>1, <2>e DEF Task, Account, Recorded
  <2>5. Paid(a)'
    BY <1>t, <2>1, <2>e DEF Task, Account, Paid, Typed, TriesLeft
  <2> QED
    BY <1>o, <2>2, <2>3, <2>4, <2>5 DEF Account
<1>6. ASSUME NEW a \in Assessments, Call(a) PROVE Accounts'
  <2> DEFINE outcomes == {[Attempted(a) EXCEPT !.pc = "release"],
                          [task[a] EXCEPT !.pc = "calling", !.calls = @ + (IF task[a].phase = "assessment" THEN 1 ELSE 0)]}
  <2>1. task[a] \in Task /\ Account(a) /\ leases \in [Assessments -> Nat \cup {None}]
    BY <1>t DEF TypeOK, Typed
  <2>2. Others(a)
    BY <1>6, <1>t DEF Call, Set, admission, history, TypeOK, Typed
  <2>x. task'[a] \in outcomes
    <3>1. \E new \in outcomes : task' = [task EXCEPT ![a] = new]
      BY <1>6 DEF Call, Set
    <3> QED
      BY <3>1, <1>u
  <2>e. task[a].pc = "admitted" /\ task'[a].pc \in {"release", "calling"}
         /\ task'[a].raw >= task[a].raw
         /\ task'[a].tries = task[a].tries /\ leases' = leases
         /\ task'[a].answer = task[a].answer /\ task'[a].ok = task[a].ok
         /\ task'[a].phase = task[a].phase /\ task'[a].raw \in Nat
         /\ log' = log /\ record' = record
    <3>1. task[a].pc = "admitted" /\ leases' = leases /\ log' = log /\ record' = record
      BY <1>6 DEF Call, At, admission
    <3>r. /\ Attempted(a) \in Task /\ Attempted(a).raw >= task[a].raw
          /\ Attempted(a).calls = task[a].calls /\ Attempted(a).tries = task[a].tries
          /\ Attempted(a).answer = task[a].answer /\ Attempted(a).ok = task[a].ok
          /\ Attempted(a).phase = task[a].phase
      BY <2>1, AttemptedFields
    <3>2. CASE task'[a] = [Attempted(a) EXCEPT !.pc = "release"]
      BY <2>1, <3>1, <3>2, <3>r DEF Task
    <3>3. CASE task'[a] # [Attempted(a) EXCEPT !.pc = "release"]
      <4>1. task'[a] = [task[a] EXCEPT !.pc = "calling", !.calls = @ + (IF task[a].phase = "assessment" THEN 1 ELSE 0)]
        BY <2>x, <3>3
      <4> QED
        BY <2>1, <3>1, <4>1 DEF Task
    <3> QED
      BY <3>2, <3>3
  <2>c. \/ task'[a].pc = "release" /\ task'[a].calls = task[a].calls
        \/ task'[a].pc = "calling" /\ task'[a].calls = task[a].calls + 1 /\ task[a].phase # "discovery"
        \/ task'[a].pc = "calling" /\ task'[a].calls = task[a].calls /\ task[a].phase = "discovery"
    <3>r. /\ Attempted(a) \in Task /\ Attempted(a).raw >= task[a].raw
          /\ Attempted(a).calls = task[a].calls /\ Attempted(a).tries = task[a].tries
          /\ Attempted(a).answer = task[a].answer /\ Attempted(a).ok = task[a].ok
          /\ Attempted(a).phase = task[a].phase
      BY <2>1, AttemptedFields
    <3>2. CASE task'[a] = [Attempted(a) EXCEPT !.pc = "release"]
      BY <2>1, <3>2, <3>r DEF Task
    <3>3. CASE task'[a] # [Attempted(a) EXCEPT !.pc = "release"]
      <4>1. task'[a] = [task[a] EXCEPT !.pc = "calling", !.calls = @ + (IF task[a].phase = "assessment" THEN 1 ELSE 0)]
        BY <2>x, <3>3
      <4>2. task[a].phase \in {"discovery", "assessment"}
        BY <2>1 DEF Task, Phases
      <4> QED
        BY <2>1, <4>1, <4>2 DEF Task
    <3> QED
      BY <3>2, <3>3
  <2>3. Backed(a)'
    BY <2>1, <2>e DEF Task, Account, Backed, Early
  <2>n. /\ task[a].calls \in Nat /\ task[a].raw \in Nat /\ task[a].tries \in Nat
        /\ task[a].calls <= task[a].raw
        /\ task[a].phase = "discovery" => task[a].calls = 0
        /\ task[a].phase # "discovery" => task[a].phase = "assessment"
        /\ task[a].answer = "none"
        /\ task[a].calls <= Budget
        /\ task[a].phase = "assessment" =>
               task[a].calls + task[a].tries <= Budget /\ task[a].tries >= 1
    BY <2>1, <2>e DEF Task, Answers, Phases, Account, Recorded, Backed, Paid, Typed,
       TriesLeft
  <2>4. Recorded(a)'
    BY <2>e, <2>c, <2>n DEF Recorded
  <2>5. Paid(a)'
    BY <2>e, <2>c, <2>n DEF Paid
  <2> QED
    BY <1>o, <2>2, <2>3, <2>4, <2>5 DEF Account
<1>7. ASSUME NEW a \in Assessments, NEW limit \in Reported, NEW n \in 0..Models, Discover(a, limit, n) PROVE Accounts'
  <2>1. task[a] \in Task /\ Account(a) /\ leases \in [Assessments -> Nat \cup {None}]
    BY <1>t DEF TypeOK, Typed
  <2>2. Others(a)
    BY <1>7, <1>t DEF Discover, Set, admission, history, TypeOK, Typed
  <2>3. Backed(a)'
    BY <1>7, <1>t, <2>1 DEF Discover, Set, admission, history, Task, At, Calling,
       Account, Backed, Early, TypeOK, Typed
  <2>4. Recorded(a)'
    BY <1>7, <1>t, <2>1 DEF Discover, Set, admission, history, Task, At, Calling,
       Account, Recorded, TypeOK, Typed
  <2>5. Paid(a)'
    BY <1>7, <1>t, <2>1 DEF Discover, Set, admission, history, Task, At, Calling,
       Account, Paid, TypeOK, Typed, TriesLeft
  <2> QED
    BY <1>o, <2>2, <2>3, <2>4, <2>5 DEF Account
<1>8. ASSUME NEW a \in Assessments, DiscoveryFails(a) PROVE Accounts'
  <2>1. task[a] \in Task /\ Account(a) /\ leases \in [Assessments -> Nat \cup {None}]
    BY <1>t DEF TypeOK, Typed
  <2>2. Others(a)
    BY <1>8, <1>t DEF DiscoveryFails, Set, Goto, admission, history, TypeOK, Typed
  <2>3. Backed(a)'
    BY <1>8, <1>t, <2>1 DEF DiscoveryFails, Set, Goto, admission, history, Task, At,
       Calling, Account, Backed, Early, TypeOK, Typed
  <2>4. Recorded(a)'
    BY <1>8, <1>t, <2>1 DEF DiscoveryFails, Set, Goto, admission, history, Task, At,
       Calling, Account, Recorded, TypeOK, Typed
  <2>5. Paid(a)'
    BY <1>8, <1>t, <2>1 DEF DiscoveryFails, Set, Goto, admission, history, Task, At,
       Calling, Account, Paid, TypeOK, Typed, TriesLeft
  <2> QED
    BY <1>o, <2>2, <2>3, <2>4, <2>5 DEF Account
<1>9. ASSUME NEW a \in Assessments, Learn(a) PROVE Accounts'
  <2> DEFINE outcomes == {[task[a] EXCEPT !.limit = Least(@, Limit), !.phase = "assessment", !.pc = "release"],
                          [task[a] EXCEPT !.limit = Least(@, Limit), !.phase = "assessment", !.pc = "ready"]}
  <2>1. task[a] \in Task /\ Account(a) /\ leases \in [Assessments -> Nat \cup {None}]
    BY <1>t DEF TypeOK, Typed
  <2>2. Others(a)
    BY <1>9, <1>t DEF Learn, Set, history, TypeOK, Typed
  <2>3. Backed(a)'
    BY <1>9, <1>t, <1>t, <2>1 DEF Learn, Set, history, Task, At, Account, Backed,
       Early, TypeOK, Typed
  <2>4. Recorded(a)'
    BY <1>9, <1>t, <2>1 DEF Learn, Set, history, Task, At, Account, Recorded, TypeOK,
       Typed
  <2>x. task'[a] \in outcomes
    <3>1. \E new \in outcomes : task' = [task EXCEPT ![a] = new]
      BY <1>9 DEF Learn, Set
    <3> QED
      BY <3>1, <1>u
  <2>e. /\ task[a].phase = "discovery" /\ task[a].calls = 0
        /\ task'[a].calls = 0 /\ task'[a].tries = task[a].tries
        /\ task'[a].pc = "release" \/ (task'[a].pc = "ready" /\ task[a].tries <= Budget)
    <3>1. task[a].pc = "discovered" /\ (task[a].tries > Budget => task'[a].pc # "ready")
      BY <1>9, <2>1, <1>u DEF Learn, At, Set, Task
    <3>2. task[a].phase = "discovery" /\ task[a].calls = 0
      BY <2>1, <3>1 DEF Typed, TriesLeft, Account, Recorded
    <3>3. /\ task'[a].calls = task[a].calls /\ task'[a].tries = task[a].tries
          /\ task'[a].pc \in {"ready", "release"}
      BY <2>x, <2>1 DEF Task
    <3>4. task[a].tries \in Nat
      BY <2>1 DEF Task
    <3> QED
      BY <3>1, <3>2, <3>3, <3>4
  <2>5. Paid(a)'
    BY <2>1, <2>e DEF Paid, Task
  <2> QED
    BY <1>o, <2>2, <2>3, <2>4, <2>5 DEF Account
<1>10. ASSUME NEW a \in Assessments, Succeed(a) PROVE Accounts'
  <2>1. task[a] \in Task /\ Account(a) /\ leases \in [Assessments -> Nat \cup {None}]
    BY <1>t DEF TypeOK, Typed
  <2>2. Others(a)
    BY <1>10, <1>t DEF Succeed, Set, admission, history, TypeOK, Typed
  <2>3. Backed(a)'
    BY <1>10, <1>t, <2>1 DEF Succeed, Set, admission, history, Task, At, Attempted,
       Calling, Account, Backed, Early, TypeOK, Typed
  <2>4. Recorded(a)'
    BY <1>10, <1>t, <2>1 DEF Succeed, Set, admission, history, Task, At, Attempted,
       Calling, Account, Recorded, TypeOK, Typed
  <2>5. Paid(a)'
    BY <1>10, <1>t, <2>1 DEF Succeed, Set, admission, history, Task, At, Attempted,
       Calling, Account, Paid, TypeOK, Typed, TriesLeft
  <2> QED
    BY <1>o, <2>2, <2>3, <2>4, <2>5 DEF Account
<1>11. ASSUME NEW a \in Assessments, FailTemporarily(a) PROVE Accounts'
  <2>1. task[a] \in Task /\ Account(a) /\ leases \in [Assessments -> Nat \cup {None}]
    BY <1>t DEF TypeOK, Typed
  <2>2. Others(a)
    BY <1>11, <1>t DEF FailTemporarily, Set, admission, history, TypeOK, Typed
  <2>3. Backed(a)'
    BY <1>11, <1>t, <2>1 DEF FailTemporarily, Set, admission, history, Task, At,
       Attempted, Calling, Account, Backed, Early, TypeOK, Typed
  <2>4. Recorded(a)'
    BY <1>11, <1>t, <2>1 DEF FailTemporarily, Set, admission, history, Task, At,
       Attempted, Calling, Account, Recorded, TypeOK, Typed
  <2>e. /\ /\ task[a].phase = "assessment"
        /\ task[a].pc = "calling"
        /\ task'[a].phase = "assessment"
        /\ task'[a].calls = task[a].calls /\ task'[a].tries = task[a].tries - 1
        /\ task'[a].pc \in {"ready", "release"}
    BY <1>11, <1>t, <2>1 DEF FailTemporarily, Set, Task, At, Attempted, Calling
  <2>5. Paid(a)'
    BY <2>1, <2>e DEF Account, Paid, Task
  <2> QED
    BY <1>o, <2>2, <2>3, <2>4, <2>5 DEF Account
<1>12. ASSUME NEW a \in Assessments, FailForGood(a) PROVE Accounts'
  <2>1. task[a] \in Task /\ Account(a) /\ leases \in [Assessments -> Nat \cup {None}]
    BY <1>t DEF TypeOK, Typed
  <2>2. Others(a)
    BY <1>12, <1>t DEF FailForGood, Set, admission, history, TypeOK, Typed
  <2>3. Backed(a)'
    BY <1>12, <1>t, <2>1 DEF FailForGood, Set, admission, history, Task, At,
       Attempted, Calling, Account, Backed, Early, TypeOK, Typed
  <2>4. Recorded(a)'
    BY <1>12, <1>t, <2>1 DEF FailForGood, Set, admission, history, Task, At,
       Attempted, Calling, Account, Recorded, TypeOK, Typed
  <2>5. Paid(a)'
    BY <1>12, <1>t, <2>1 DEF FailForGood, Set, admission, history, Task, At,
       Attempted, Calling, Account, Paid, TypeOK, Typed, TriesLeft
  <2> QED
    BY <1>o, <2>2, <2>3, <2>4, <2>5 DEF Account
<1>13. ASSUME NEW a \in Assessments, NEW fails \in BOOLEAN, Audit(a, fails) PROVE Accounts'
  <2>1. task[a] \in Task /\ Account(a) /\ leases \in [Assessments -> Nat \cup {None}]
    BY <1>t DEF TypeOK, Typed
  <2>2. Others(a)
    BY <1>13, <1>t DEF Audit, Set, admission, history, TypeOK, Typed
  <2>3. Backed(a)'
    BY <1>13, <1>t, <2>1, SMTT(30) DEF Audit, Set, admission, history, Task, At, Account,
       Backed, Early, TypeOK, Typed
  <2>4. Recorded(a)'
    BY <1>13, <1>t, <2>1 DEF Audit, Set, admission, history, Task, At, Account,
       Recorded, TypeOK, Typed
  <2>5. Paid(a)'
    BY <1>13, <1>t, <2>1 DEF Audit, Set, admission, history, Task, At, Account, Paid,
       TypeOK, Typed, TriesLeft
  <2> QED
    BY <1>o, <2>2, <2>3, <2>4, <2>5 DEF Account
<1>14. ASSUME NEW a \in Assessments, NEW fails \in BOOLEAN, Release(a, fails) PROVE Accounts'
  <2>1. task[a] \in Task /\ Account(a) /\ leases \in [Assessments -> Nat \cup {None}]
    BY <1>t DEF TypeOK, Typed
  <2>2. Others(a)
    BY <1>14, <1>t DEF Release, Set, Goto, history, TypeOK, Typed
  <2>3. Backed(a)'
    BY <1>14, <1>t, <2>1 DEF Release, Set, Goto, history, Task, At, Account, Backed,
       Early, TypeOK, Typed
  <2>4. Recorded(a)'
    BY <1>14, <1>t, <2>1 DEF Release, Set, Goto, history, Task, At, Account, Recorded,
       TypeOK, Typed
  <2>5. Paid(a)'
    BY <1>14, <1>t, <2>1 DEF Release, Set, Goto, history, Task, At, Account, Paid,
       TypeOK, Typed, TriesLeft
  <2> QED
    BY <1>o, <2>2, <2>3, <2>4, <2>5 DEF Account
<1>15. ASSUME NEW a \in Assessments, NEW fails \in BOOLEAN, AuditFailure(a, fails) PROVE Accounts'
  <2>1. task[a] \in Task /\ Account(a) /\ leases \in [Assessments -> Nat \cup {None}]
    BY <1>t DEF TypeOK, Typed
  <2>2. Others(a)
    BY <1>15, <1>t DEF AuditFailure, Set, admission, history, TypeOK, Typed
  <2>3. Backed(a)'
    BY <1>15, <1>t, <2>1 DEF AuditFailure, Set, admission, history, Task, At,
       EndUnsuccessfully, Account, Backed, Early, TypeOK, Typed
  <2>4. Recorded(a)'
    BY <1>15, <1>t, <2>1, SMTT(30) DEF AuditFailure, Set, admission, history, Task, At,
       EndUnsuccessfully, Account, Recorded, TypeOK, Typed
  <2>5. Paid(a)'
    BY <1>15, <1>t, <2>1 DEF AuditFailure, Set, admission, history, Task, At,
       EndUnsuccessfully, Account, Paid, TypeOK, Typed, TriesLeft
  <2> QED
    BY <1>o, <2>2, <2>3, <2>4, <2>5 DEF Account
<1>16. ASSUME NEW a \in Assessments, NEW fails \in BOOLEAN, Save(a, fails) PROVE Accounts'
  <2> DEFINE outcomes == {EndUnsuccessfully(a),
                          [task[a] EXCEPT !.pc = "done", !.answer = "success"]}
  <2>1. task[a] \in Task /\ Account(a) /\ leases \in [Assessments -> Nat \cup {None}]
    BY <1>t DEF TypeOK, Typed
  <2>2. Others(a)
    BY <1>16, <1>t DEF Save, Set, admission, history, TypeOK, Typed
  <2>x. task'[a] \in outcomes
    <3>1. \E new \in outcomes : task' = [task EXCEPT ![a] = new]
      BY <1>16 DEF Save, Set
    <3> QED
      BY <3>1, <1>u
  <2>e. /\ /\ task[a].pc = "save"
        /\ task'[a].calls = task[a].calls
        /\ task'[a].raw = task[a].raw
        /\ task'[a].phase = task[a].phase /\ log' = log /\ leases' = leases
        /\ \/ task'[a].pc = "done" /\ task'[a].answer = "success" /\ record'[a] = "success"
           \/ task'[a].pc = "saveFailure" /\ task'[a].answer = task[a].answer
           \/ task'[a].pc = "done" /\ task'[a].answer = "error" /\ task[a].raw = 0
    <3>1. CASE fails
      <4>1. /\ task[a].pc = "save"
            /\ log' = log
            /\ leases' = leases
            /\ task'[a] = EndUnsuccessfully(a)
        BY <1>16, <3>1, <1>u DEF Save, Set, At, admission
      <4>2. CASE task[a].raw > 0
        BY <4>1, <4>2, <2>1 DEF EndUnsuccessfully, Task
      <4>3. CASE ~(task[a].raw > 0)
        BY <4>1, <4>3, <2>1 DEF EndUnsuccessfully, Task
      <4> QED
        BY <4>2, <4>3
    <3>2. CASE ~fails
      BY <1>16, <2>x, <2>1, <3>2 DEF Save, Set, Task, At, admission, history, TypeOK,
         Typed
    <3> QED
      BY <3>1, <3>2
  <2>3. Backed(a)'
    BY <2>1, <2>e DEF Task, Account, Backed, Early
  <2>4. Recorded(a)'
    <3>1. /\ task[a].calls \in Nat /\ task[a].raw \in Nat
          /\ task[a].calls <= task[a].raw /\ task[a].answer = "none"
          /\ task[a].phase = "discovery" => task[a].calls = 0
      BY <2>1, <2>e DEF Task, Answers, Account, Recorded, Backed
    <3> QED
      BY <2>e, <3>1 DEF Recorded
  <2>5. Paid(a)'
    BY <2>1, <2>e DEF Task, Account, Paid
  <2> QED
    BY <1>o, <2>2, <2>3, <2>4, <2>5 DEF Account
<1>17. ASSUME NEW a \in Assessments, NEW fails \in BOOLEAN, SaveFailure(a, fails) PROVE Accounts'
  <2>1. task[a] \in Task /\ Account(a) /\ leases \in [Assessments -> Nat \cup {None}]
    BY <1>t DEF TypeOK, Typed
  <2>2. Others(a)
    BY <1>17, <1>t DEF SaveFailure, Set, admission, history, TypeOK, Typed
  <2>3. Backed(a)'
    BY <1>17, <1>t, <2>1 DEF SaveFailure, Set, admission, history, Task, At, Account,
       Backed, Early, TypeOK, Typed
  <2>4. Recorded(a)'
    BY <1>17, <1>t, <2>1 DEF SaveFailure, Set, admission, history, Task, At, Account,
       Recorded, TypeOK, Typed
  <2>5. Paid(a)'
    BY <1>17, <1>t, <2>1 DEF SaveFailure, Set, admission, history, Task, At, Account,
       Paid, TypeOK, Typed, TriesLeft
  <2> QED
    BY <1>o, <2>2, <2>3, <2>4, <2>5 DEF Account
<1>18. ASSUME NEW a \in Assessments, Crash(a) PROVE Accounts'
  <2>1. task[a] \in Task /\ Account(a) /\ leases \in [Assessments -> Nat \cup {None}]
    BY <1>t DEF TypeOK, Typed
  <2>2. Others(a)
    BY <1>18, <1>t DEF Crash, Set, Goto, admission, history, TypeOK, Typed
  <2>3. Backed(a)'
    BY <1>18, <1>t, <2>1 DEF Crash, Set, Goto, admission, history, Task, Account,
       Backed, Early, TypeOK, Typed
  <2>4. Recorded(a)'
    BY <1>18, <1>t, <2>1, SMTT(30) DEF Crash, Set, Goto, admission, history, Task, Account,
       Recorded, TypeOK, Typed
  <2>5. Paid(a)'
    BY <1>18, <1>t, <2>1 DEF Crash, Set, Goto, admission, history, Task, Account,
       Paid, TypeOK, Typed, TriesLeft
  <2> QED
    BY <1>o, <2>2, <2>3, <2>4, <2>5 DEF Account
<1>20. ASSUME Tick PROVE Accounts'
  BY <1>20 DEF Tick, Accounts, Account, Backed, Recorded, Paid, admission, history
<1>21. CASE UNCHANGED vars
  BY <1>21 DEF vars, admission, history, Accounts, Account, Backed, Recorded, Paid
<1> QED
  BY <1>1, <1>2, <1>3, <1>4, <1>5, <1>6, <1>7, <1>8, <1>9, <1>10, <1>11,
     <1>12, <1>13, <1>14, <1>15, <1>16, <1>17, <1>18, <1>20, <1>21
     DEF Next, TaskStep, ProviderStep, TimesOut

LEMMA AccountsAlways == Spec => []Accounts
<1>1. Init => Accounts
  BY HubAssumption DEF Init, Accounts, Account, Backed, Recorded, Paid
<1> QED
  BY <1>1, AccountsStep, TypedAlways, PTL DEF Spec

\* A result that is shown is saved and audited and holds no lease.
THEOREM Backing == Spec => []AnswerIsBacked
<1>1. Accounts => AnswerIsBacked
  BY DEF Accounts, Account, Backed, AnswerIsBacked
<1> QED
  BY <1>1, AccountsAlways, PTL

\* A failure that is told leaves no call to the provider without a record.
THEOREM Recording == Spec => []NothingSentUnrecorded
<1>1. Accounts => NothingSentUnrecorded
  BY DEF Accounts, Account, Recorded, NothingSentUnrecorded
<1> QED
  BY <1>1, AccountsAlways, PTL

\* Retries and fallbacks stay within what the batch limits pay for.
THEOREM Spending == Spec => []SpentWithinBudget
<1>1. Accounts => SpentWithinBudget
  BY DEF Accounts, Account, Paid, SpentWithinBudget
<1> QED
  BY <1>1, AccountsAlways, PTL

-----------------------------------------------------------------------------
(* The concurrency limit.                                                    *)

\* Where an assessment counts as a request of its own.
Counting == {"held", "ready", "stamped", "admitted", "calling", "discovered", "audit"}

Holders == {a \in Assessments : task[a].pc \in Counting /\ now < task[a].deadline}

\* Whoever has time left has its lease: it was not cleared as expired.
LeaseKept == \A a \in Holders : leases[a] = task[a].deadline

\* Of any holders the last one admitted was admitted beside all the others.
Ranked ==
    \A S \in SUBSET Holders :
        S # {} => \E a \in S : Cardinality(S) <= task[a].before + 1

\* Whoever asks a model was admitted beside fewer than the limit it has learnt.
Within(a) ==
    task[a].phase = "assessment" /\ task[a].pc \in {"ready", "stamped", "admitted", "calling"}
        => task[a].before < task[a].limit

LimitInv == LeaseKept /\ Ranked /\ \A a \in Assessments : Within(a)

\* No step but an admission makes a holder or changes one.
LEMMA HolderSteps ==
    ASSUME Typed, [Next]_vars, ~\E c \in Assessments : Acquire(c)
    PROVE  /\ now' >= now
           /\ \A b \in Assessments : task'[b].pc \in Counting =>
                 /\ task[b].pc \in Counting
                 /\ task'[b].deadline = task[b].deadline
                 /\ task'[b].before = task[b].before
                 /\ leases'[b] = leases[b]
           /\ (\A a \in Assessments : Within(a)) => \A a \in Assessments : Within(a)'
<1> USE HubAssumption
<1>t. /\ task \in [Assessments -> Task]
      /\ (\A a \in Assessments : task[a] \in Task)
      /\ now \in Nat
  BY DEF TypeOK, Typed
<1>u. \A a \in Assessments : \A new : task' = [task EXCEPT ![a] = new] => task'[a] = new
  BY <1>t
<1> DEFINE Kept(b) == task'[b].pc \in Counting =>
                 /\ task[b].pc \in Counting
                 /\ task'[b].deadline = task[b].deadline
                 /\ task'[b].before = task[b].before
                 /\ leases'[b] = leases[b]
           Still(a) == Within(a) => Within(a)'
           Others(a) == \A b \in Assessments \ {a} : task'[b] = task[b] /\ leases'[b] = leases[b]
<1>o. ASSUME NEW a \in Assessments, Others(a), Kept(a), Still(a), now' = now
      PROVE  now' >= now /\ \A b \in Assessments : Kept(b) /\ Still(b)
  BY <1>o, <1>t DEF Within
<1>1. ASSUME NEW a \in Assessments, Begin(a)
      PROVE  now' >= now /\ \A b \in Assessments : Kept(b) /\ Still(b)
  <2> DEFINE outcomes == {[task[a] EXCEPT !.pc = "begun", !.deadline = now + Timeout]}
  <2>1. task[a] \in Task /\ leases \in [Assessments -> Nat \cup {None}]
    BY <1>t DEF TypeOK, Typed
  <2>2. Others(a) /\ now' = now
    BY <1>1, <1>t, <2>1 DEF Begin, Set, admission, history
  <2>x. task'[a] \in outcomes
    <3>1. \E new \in outcomes : task' = [task EXCEPT ![a] = new]
      BY <1>1 DEF Begin, Set
    <3> QED
      BY <3>1, <1>u
  <2>3. Kept(a)
    BY <1>1, <2>x, <2>1 DEF Begin, Task, At, Counting, admission
  <2>4. Still(a)
    BY <1>1, <2>x, <2>1 DEF Begin, Task, At, Within, Set
  <2> QED
    BY <1>o, <2>2, <2>3, <2>4
<1>2. ASSUME NEW a \in Assessments, ReadLimits(a)
      PROVE  now' >= now /\ \A b \in Assessments : Kept(b) /\ Still(b)
  <2> DEFINE outcomes == {[task[a] EXCEPT !.pc = "limited", !.limit = IF cached = None THEN Limit ELSE Least(cached, Limit)]}
  <2>1. task[a] \in Task /\ leases \in [Assessments -> Nat \cup {None}]
    BY <1>t DEF TypeOK, Typed
  <2>2. Others(a) /\ now' = now
    BY <1>2, <1>t, <2>1 DEF ReadLimits, Set, admission, history
  <2>x. task'[a] \in outcomes
    <3>1. \E new \in outcomes : task' = [task EXCEPT ![a] = new]
      BY <1>2 DEF ReadLimits, Set
    <3> QED
      BY <3>1, <1>u
  <2>3. Kept(a)
    BY <1>2, <2>x, <2>1 DEF ReadLimits, Task, At, Counting, admission
  <2>4. Still(a)
    BY <1>2, <2>x, <2>1 DEF ReadLimits, Task, At, Within, Set
  <2> QED
    BY <1>o, <2>2, <2>3, <2>4
<1>4. ASSUME NEW a \in Assessments, Stamp(a)
      PROVE  now' >= now /\ \A b \in Assessments : Kept(b) /\ Still(b)
  <2> DEFINE outcomes == {[task[a] EXCEPT !.pc = "release"],
                          [task[a] EXCEPT !.pc = "stamped", !.stamp = now]}
  <2>1. task[a] \in Task /\ leases \in [Assessments -> Nat \cup {None}]
    BY <1>t DEF TypeOK, Typed
  <2>2. Others(a) /\ now' = now
    BY <1>4, <1>t, <2>1 DEF Stamp, Set, Goto, admission, history
  <2>x. task'[a] \in outcomes
    <3>1. \E new \in outcomes : task' = [task EXCEPT ![a] = new]
      BY <1>4 DEF Stamp, Set, Goto
    <3> QED
      BY <3>1, <1>u
  <2>3. Kept(a)
    BY <1>4, <2>x, <2>1 DEF Stamp, Task, At, Counting, admission
  <2>4. Still(a)
    <3>1. task[a].pc \in {"held", "ready"}
      BY <1>4 DEF Stamp, At
    <3>2. task[a].pc = "held" => task[a].phase = "discovery"
      BY DEF Typed, TriesLeft
    <3>3. /\ task'[a].phase = task[a].phase /\ task'[a].limit = task[a].limit
          /\ task'[a].before = task[a].before
      BY <2>x, <2>1 DEF Task
    <3> QED
      BY <3>1, <3>2, <3>3 DEF Within
  <2> QED
    BY <1>o, <2>2, <2>3, <2>4
<1>5. ASSUME NEW a \in Assessments, Consume(a)
      PROVE  now' >= now /\ \A b \in Assessments : Kept(b) /\ Still(b)
  <2> DEFINE outcomes == {[Attempted(a) EXCEPT !.pc = "release"],
                          [task[a] EXCEPT !.pc = "admitted", !.stamp = 0, !.requests = @ + 1]}
  <2>1. task[a] \in Task /\ leases \in [Assessments -> Nat \cup {None}]
    BY <1>t DEF TypeOK, Typed
  <2>2. Others(a) /\ now' = now
    BY <1>5, <1>t, <2>1 DEF Consume, Set, history
  <2>x. task'[a] \in outcomes
    <3>1. \E new \in outcomes : task' = [task EXCEPT ![a] = new]
      BY <1>5 DEF Consume, Set
    <3> QED
      BY <3>1, <1>u
  <2>3. Kept(a)
    BY <1>5, <2>x, <2>1 DEF Consume, Task, At, Attempted, Counting
  <2>4. Still(a)
    BY <1>5, <2>x, <2>1 DEF Consume, Task, At, Attempted, Within, Set
  <2> QED
    BY <1>o, <2>2, <2>3, <2>4
<1>6. ASSUME NEW a \in Assessments, Call(a)
      PROVE  now' >= now /\ \A b \in Assessments : Kept(b) /\ Still(b)
  <2> DEFINE outcomes == {[Attempted(a) EXCEPT !.pc = "release"],
                          [task[a] EXCEPT !.pc = "calling", !.calls = @ + (IF task[a].phase = "assessment" THEN 1 ELSE 0)]}
  <2>1. task[a] \in Task /\ leases \in [Assessments -> Nat \cup {None}]
    BY <1>t DEF TypeOK, Typed
  <2>2. Others(a) /\ now' = now
    BY <1>6, <1>t, <2>1 DEF Call, Set, admission, history
  <2>x. task'[a] \in outcomes
    <3>1. \E new \in outcomes : task' = [task EXCEPT ![a] = new]
      BY <1>6 DEF Call, Set
    <3> QED
      BY <3>1, <1>u
  <2>3. Kept(a)
    BY <1>6, <2>x, <2>1 DEF Call, Task, At, Attempted, Counting, admission
  <2>4. Still(a)
    BY <1>6, <2>x, <2>1 DEF Call, Task, At, Attempted, Within, Set
  <2> QED
    BY <1>o, <2>2, <2>3, <2>4
<1>7. ASSUME NEW a \in Assessments, NEW limit \in Reported, NEW n \in 0..Models, Discover(a, limit, n)
      PROVE  now' >= now /\ \A b \in Assessments : Kept(b) /\ Still(b)
  <2> DEFINE outcomes == {[task[a] EXCEPT !.pc = "discovered", !.limit = limit, !.tries = Tries * n]}
  <2>1. task[a] \in Task /\ leases \in [Assessments -> Nat \cup {None}]
    BY <1>t DEF TypeOK, Typed
  <2>2. Others(a) /\ now' = now
    BY <1>7, <1>t, <2>1 DEF Discover, Set, admission, history
  <2>x. task'[a] \in outcomes
    <3>1. \E new \in outcomes : task' = [task EXCEPT ![a] = new]
      BY <1>7 DEF Discover, Set
    <3> QED
      BY <3>1, <1>u
  <2>3. Kept(a)
    BY <1>7, <2>x, <2>1 DEF Discover, Task, At, Calling, Counting, admission
  <2>4. Still(a)
    BY <1>7, <2>x, <2>1 DEF Discover, Task, At, Calling, Within, Set
  <2> QED
    BY <1>o, <2>2, <2>3, <2>4
<1>8. ASSUME NEW a \in Assessments, DiscoveryFails(a)
      PROVE  now' >= now /\ \A b \in Assessments : Kept(b) /\ Still(b)
  <2> DEFINE outcomes == {[task[a] EXCEPT !.pc = "release"]}
  <2>1. task[a] \in Task /\ leases \in [Assessments -> Nat \cup {None}]
    BY <1>t DEF TypeOK, Typed
  <2>2. Others(a) /\ now' = now
    BY <1>8, <1>t, <2>1 DEF DiscoveryFails, Set, Goto, admission, history
  <2>x. task'[a] \in outcomes
    <3>1. \E new \in outcomes : task' = [task EXCEPT ![a] = new]
      BY <1>8 DEF DiscoveryFails, Set, Goto
    <3> QED
      BY <3>1, <1>u
  <2>3. Kept(a)
    BY <1>8, <2>x, <2>1 DEF DiscoveryFails, Task, At, Calling, Counting, admission
  <2>4. Still(a)
    BY <1>8, <2>x, <2>1 DEF DiscoveryFails, Task, At, Calling, Within, Set, Goto
  <2> QED
    BY <1>o, <2>2, <2>3, <2>4
<1>9. ASSUME NEW a \in Assessments, Learn(a)
      PROVE  now' >= now /\ \A b \in Assessments : Kept(b) /\ Still(b)
  <2> DEFINE outcomes == {[task[a] EXCEPT !.limit = Least(@, Limit), !.phase = "assessment", !.pc = "release"],
                          [task[a] EXCEPT !.limit = Least(@, Limit), !.phase = "assessment", !.pc = "ready"]}
  <2>1. task[a] \in Task /\ leases \in [Assessments -> Nat \cup {None}]
    BY <1>t DEF TypeOK, Typed
  <2>2. Others(a) /\ now' = now
    BY <1>9, <1>t, <2>1 DEF Learn, Set, history
  <2>x. task'[a] \in outcomes
    <3>1. \E new \in outcomes : task' = [task EXCEPT ![a] = new]
      BY <1>9 DEF Learn, Set
    <3> QED
      BY <3>1, <1>u
  <2>3. Kept(a)
    BY <1>9, <2>x, <2>1 DEF Learn, Task, At, Counting
  <2>4. Still(a)
    <3>1. /\ task'[a].limit = Least(task[a].limit, Limit)
          /\ task'[a].before = task[a].before
          /\ task'[a].pc \in {"ready", "release"}
      BY <2>x, <2>1 DEF Task
    <3>2. task[a].before >= Least(task[a].limit, Limit) => task'[a].pc # "ready"
      <4> SUFFICES ASSUME task[a].before >= Least(task[a].limit, Limit)
                   PROVE  task'[a].pc = "release"
        OBVIOUS
      <4>1. task' = [task EXCEPT ![a] =
                        [task[a] EXCEPT !.limit = Least(task[a].limit, Limit),
                                        !.phase = "assessment", !.pc = "release"]]
        BY <1>9 DEF Learn, Set
      <4>2. task'[a] = [task[a] EXCEPT !.limit = Least(task[a].limit, Limit),
                                       !.phase = "assessment", !.pc = "release"]
        BY <4>1, <1>t
      <4> QED
        BY <4>2, <2>1 DEF Task
    <3>3. task[a].before \in Nat /\ Least(task[a].limit, Limit) \in Nat
      BY <2>1 DEF Task, Least
    <3> QED
      BY <3>1, <3>2, <3>3 DEF Within
  <2> QED
    BY <1>o, <2>2, <2>3, <2>4
<1>10. ASSUME NEW a \in Assessments, Succeed(a)
      PROVE  now' >= now /\ \A b \in Assessments : Kept(b) /\ Still(b)
  <2> DEFINE outcomes == {[Attempted(a) EXCEPT !.pc = "audit"]}
  <2>1. task[a] \in Task /\ leases \in [Assessments -> Nat \cup {None}]
    BY <1>t DEF TypeOK, Typed
  <2>2. Others(a) /\ now' = now
    BY <1>10, <1>t, <2>1 DEF Succeed, Set, admission, history
  <2>x. task'[a] \in outcomes
    <3>1. \E new \in outcomes : task' = [task EXCEPT ![a] = new]
      BY <1>10 DEF Succeed, Set
    <3> QED
      BY <3>1, <1>u
  <2>3. Kept(a)
    BY <1>10, <2>x, <2>1 DEF Succeed, Task, At, Attempted, Calling, Counting, admission
  <2>4. Still(a)
    BY <1>10, <2>x, <2>1 DEF Succeed, Task, At, Attempted, Calling, Within, Set
  <2> QED
    BY <1>o, <2>2, <2>3, <2>4
<1>11. ASSUME NEW a \in Assessments, FailTemporarily(a)
      PROVE  now' >= now /\ \A b \in Assessments : Kept(b) /\ Still(b)
  <2> DEFINE outcomes == {[Attempted(a) EXCEPT !.tries = @ - 1, !.pc = "ready"],
                          [Attempted(a) EXCEPT !.tries = @ - 1, !.pc = "release"]}
  <2>1. task[a] \in Task /\ leases \in [Assessments -> Nat \cup {None}]
    BY <1>t DEF TypeOK, Typed
  <2>2. Others(a) /\ now' = now
    BY <1>11, <1>t, <2>1 DEF FailTemporarily, Set, admission, history
  <2>x. task'[a] \in outcomes
    <3>1. \E new \in outcomes : task' = [task EXCEPT ![a] = new]
      BY <1>11 DEF FailTemporarily, Set
    <3> QED
      BY <3>1, <1>u
  <2>3. Kept(a)
    BY <1>11, <2>x, <2>1 DEF FailTemporarily, Task, At, Attempted, Calling, Counting,
       admission
  <2>4. Still(a)
    BY <1>11, <2>x, <2>1 DEF FailTemporarily, Task, At, Attempted, Calling, Within, Set
  <2> QED
    BY <1>o, <2>2, <2>3, <2>4
<1>12. ASSUME NEW a \in Assessments, FailForGood(a)
      PROVE  now' >= now /\ \A b \in Assessments : Kept(b) /\ Still(b)
  <2> DEFINE outcomes == {[Attempted(a) EXCEPT !.pc = "release"]}
  <2>1. task[a] \in Task /\ leases \in [Assessments -> Nat \cup {None}]
    BY <1>t DEF TypeOK, Typed
  <2>2. Others(a) /\ now' = now
    BY <1>12, <1>t, <2>1 DEF FailForGood, Set, admission, history
  <2>x. task'[a] \in outcomes
    <3>1. \E new \in outcomes : task' = [task EXCEPT ![a] = new]
      BY <1>12 DEF FailForGood, Set
    <3> QED
      BY <3>1, <1>u
  <2>3. Kept(a)
    BY <1>12, <2>x, <2>1 DEF FailForGood, Task, At, Attempted, Calling, Counting,
       admission
  <2>4. Still(a)
    BY <1>12, <2>x, <2>1 DEF FailForGood, Task, At, Attempted, Calling, Within, Set
  <2> QED
    BY <1>o, <2>2, <2>3, <2>4
<1>13. ASSUME NEW a \in Assessments, NEW fails \in BOOLEAN, Audit(a, fails)
      PROVE  now' >= now /\ \A b \in Assessments : Kept(b) /\ Still(b)
  <2> DEFINE outcomes == {[task[a] EXCEPT !.pc = "release", !.ok = ~fails]}
  <2>1. task[a] \in Task /\ leases \in [Assessments -> Nat \cup {None}]
    BY <1>t DEF TypeOK, Typed
  <2>2. Others(a) /\ now' = now
    BY <1>13, <1>t, <2>1 DEF Audit, Set, admission, history
  <2>x. task'[a] \in outcomes
    <3>1. \E new \in outcomes : task' = [task EXCEPT ![a] = new]
      BY <1>13 DEF Audit, Set
    <3> QED
      BY <3>1, <1>u
  <2>3. Kept(a)
    BY <1>13, <2>x, <2>1 DEF Audit, Task, At, Counting, admission
  <2>4. Still(a)
    BY <1>13, <2>x, <2>1, SMTT(30) DEF Audit, Task, At, Within, Set
  <2> QED
    BY <1>o, <2>2, <2>3, <2>4
<1>14. ASSUME NEW a \in Assessments, NEW fails \in BOOLEAN, Release(a, fails)
      PROVE  now' >= now /\ \A b \in Assessments : Kept(b) /\ Still(b)
  <2> DEFINE outcomes == {[task[a] EXCEPT !.pc = "save"],
                          [task[a] EXCEPT !.pc = "auditFailure"]}
  <2>1. task[a] \in Task /\ leases \in [Assessments -> Nat \cup {None}]
    BY <1>t DEF TypeOK, Typed
  <2>2. Others(a) /\ now' = now
    BY <1>14, <1>t, <2>1 DEF Release, Set, Goto, history
  <2>x. task'[a] \in outcomes
    <3>1. \E new \in outcomes : task' = [task EXCEPT ![a] = new]
      BY <1>14 DEF Release, Set, Goto
    <3> QED
      BY <3>1, <1>u
  <2>3. Kept(a)
    BY <1>14, <2>x, <2>1 DEF Release, Task, At, Counting
  <2>4. Still(a)
    BY <1>14, <2>x, <2>1 DEF Release, Task, At, Within, Set, Goto
  <2> QED
    BY <1>o, <2>2, <2>3, <2>4
<1>15. ASSUME NEW a \in Assessments, NEW fails \in BOOLEAN, AuditFailure(a, fails)
      PROVE  now' >= now /\ \A b \in Assessments : Kept(b) /\ Still(b)
  <2> DEFINE outcomes == {EndUnsuccessfully(a)}
  <2>1. task[a] \in Task /\ leases \in [Assessments -> Nat \cup {None}]
    BY <1>t DEF TypeOK, Typed
  <2>2. Others(a) /\ now' = now
    BY <1>15, <1>t, <2>1 DEF AuditFailure, Set, admission, history
  <2>x. task'[a] \in outcomes
    <3>1. \E new \in outcomes : task' = [task EXCEPT ![a] = new]
      BY <1>15 DEF AuditFailure, Set
    <3> QED
      BY <3>1, <1>u
  <2>3. Kept(a)
    BY <1>15, <2>x, <2>1, ZenonT(40) DEF AuditFailure, Task, At, EndUnsuccessfully, Counting,
       admission
  <2>4. Still(a)
    BY <1>15, <2>x, <2>1, SMTT(30) DEF AuditFailure, Task, At, EndUnsuccessfully, Within, Set
  <2> QED
    BY <1>o, <2>2, <2>3, <2>4
<1>16. ASSUME NEW a \in Assessments, NEW fails \in BOOLEAN, Save(a, fails)
      PROVE  now' >= now /\ \A b \in Assessments : Kept(b) /\ Still(b)
  <2> DEFINE outcomes == {EndUnsuccessfully(a),
                          [task[a] EXCEPT !.pc = "done", !.answer = "success"]}
  <2>1. task[a] \in Task /\ leases \in [Assessments -> Nat \cup {None}]
    BY <1>t DEF TypeOK, Typed
  <2>2. Others(a) /\ now' = now
    BY <1>16, <1>t, <2>1 DEF Save, Set, admission, history
  <2>x. task'[a] \in outcomes
    <3>1. \E new \in outcomes : task' = [task EXCEPT ![a] = new]
      BY <1>16 DEF Save, Set
    <3> QED
      BY <3>1, <1>u
  <2>3. Kept(a)
    BY <1>16, <2>x, <2>1, ZenonT(40) DEF Save, Task, At, EndUnsuccessfully, Counting, admission
  <2>4. Still(a)
    BY <1>16, <2>x, <2>1 DEF Save, Task, At, EndUnsuccessfully, Within, Set
  <2> QED
    BY <1>o, <2>2, <2>3, <2>4
<1>17. ASSUME NEW a \in Assessments, NEW fails \in BOOLEAN, SaveFailure(a, fails)
      PROVE  now' >= now /\ \A b \in Assessments : Kept(b) /\ Still(b)
  <2> DEFINE outcomes == {[task[a] EXCEPT !.pc = "done", !.answer = "unrecorded"],
                          [task[a] EXCEPT !.pc = "done", !.answer = "error"]}
  <2>1. task[a] \in Task /\ leases \in [Assessments -> Nat \cup {None}]
    BY <1>t DEF TypeOK, Typed
  <2>2. Others(a) /\ now' = now
    BY <1>17, <1>t, <2>1 DEF SaveFailure, Set, admission, history
  <2>x. task'[a] \in outcomes
    <3>1. \E new \in outcomes : task' = [task EXCEPT ![a] = new]
      BY <1>17 DEF SaveFailure, Set
    <3> QED
      BY <3>1, <1>u
  <2>3. Kept(a)
    BY <1>17, <2>x, <2>1 DEF SaveFailure, Task, At, Counting, admission
  <2>4. Still(a)
    BY <1>17, <2>x, <2>1 DEF SaveFailure, Task, At, Within, Set
  <2> QED
    BY <1>o, <2>2, <2>3, <2>4
<1>18. ASSUME NEW a \in Assessments, Crash(a)
      PROVE  now' >= now /\ \A b \in Assessments : Kept(b) /\ Still(b)
  <2> DEFINE outcomes == {[task[a] EXCEPT !.pc = "dead"]}
  <2>1. task[a] \in Task /\ leases \in [Assessments -> Nat \cup {None}]
    BY <1>t DEF TypeOK, Typed
  <2>2. Others(a) /\ now' = now
    BY <1>18, <1>t, <2>1 DEF Crash, Set, Goto, admission, history
  <2>x. task'[a] \in outcomes
    <3>1. \E new \in outcomes : task' = [task EXCEPT ![a] = new]
      BY <1>18 DEF Crash, Set, Goto
    <3> QED
      BY <3>1, <1>u
  <2>3. Kept(a)
    BY <1>18, <2>x, <2>1 DEF Crash, Task, Counting, admission
  <2>4. Still(a)
    BY <1>18, <2>x, <2>1 DEF Crash, Task, Within, Set, Goto
  <2> QED
    BY <1>o, <2>2, <2>3, <2>4
<1>20. ASSUME Tick PROVE now' >= now /\ \A b \in Assessments : Kept(b) /\ Still(b)
  BY <1>20, <1>t DEF Tick, Within, admission, history
<1>21. ASSUME UNCHANGED vars PROVE now' >= now /\ \A b \in Assessments : Kept(b) /\ Still(b)
  BY <1>21, <1>t DEF vars, Within, admission, history
<1> HIDE DEF Kept, Still, Others
<1>22. now' >= now /\ \A b \in Assessments : Kept(b) /\ Still(b)
  <2> USE DEF Kept, Still
  <2>1. CASE Tick \/ UNCHANGED vars
    BY <2>1, <1>20, <1>21
  <2>2. CASE ~(Tick \/ UNCHANGED vars)
    BY <2>2, <1>1, <1>2, <1>4, <1>5, <1>6, <1>7, <1>8, <1>9, <1>10, <1>11, <1>12, <1>13, <1>14, <1>15, <1>16, <1>17, <1>18
       DEF Next, TaskStep, ProviderStep, TimesOut
  <2> QED
    BY <2>1, <2>2
<1> QED
  BY <1>22 DEF Kept, Still

LEMMA LimitStep ==
    ASSUME Typed, Typed', LimitInv, [Next]_vars
    PROVE  LimitInv'
<1> USE HubAssumption
<1>t. /\ task \in [Assessments -> Task] /\ (\A a \in Assessments : task[a] \in Task)
      /\ now \in Nat /\ now' \in Nat
      /\ leases \in [Assessments -> Nat \cup {None}]
  BY DEF TypeOK, Typed
<1>d. /\ \A a \in Assessments : task[a].deadline \in Nat /\ task[a].before \in Nat
      /\ \A a \in Assessments : task'[a].deadline \in Nat
  BY DEF TypeOK, Typed, Task
<1>1. CASE ~\E c \in Assessments : Acquire(c)
  <2>1. /\ now' >= now
        /\ \A b \in Assessments : task'[b].pc \in Counting =>
              /\ task[b].pc \in Counting
              /\ task'[b].deadline = task[b].deadline
              /\ task'[b].before = task[b].before
              /\ leases'[b] = leases[b]
        /\ (\A a \in Assessments : Within(a)) => \A a \in Assessments : Within(a)'
    BY <1>1, HolderSteps
  <2>2. Holders' \subseteq Holders
    BY <2>1, <1>t, <1>d DEF Holders
  <2>3. \A b \in Holders' : task'[b].before = task[b].before /\ leases'[b] = leases[b]
                            /\ task'[b].deadline = task[b].deadline
    BY <2>1 DEF Holders
  <2>4. LeaseKept'
    BY <2>2, <2>3 DEF LeaseKept, LimitInv
  <2>5. Ranked'
    BY <2>2, <2>3 DEF Ranked, LimitInv
  <2> QED
    BY <2>1, <2>4, <2>5 DEF LimitInv
<1>2. ASSUME NEW c \in Assessments, Acquire(c) PROVE LimitInv'
  <2>1. /\ \A b \in Assessments \ {c} : task'[b] = task[b]
        /\ now' = now
    BY <1>2, <1>t DEF Acquire, Goto, Set
  <2>2. CASE Cardinality(Live) >= task[c].limit
    <3>1. leases' = leases /\ task'[c].pc = "auditFailure"
      BY <1>2, <2>2, <1>t DEF Acquire, Goto, Set, Task
    <3>2. Holders' \subseteq Holders
      BY <2>1, <3>1 DEF Holders, Counting
    <3>3. \A b \in Holders' : b # c
      BY <3>1 DEF Holders, Counting
    <3>4. LeaseKept'
      BY <2>1, <3>1, <3>2, <3>3 DEF LeaseKept, LimitInv, Holders
    <3>5. Ranked'
      BY <2>1, <3>2, <3>3 DEF Ranked, LimitInv, Holders
    <3>6. \A a \in Assessments : Within(a)'
      BY <2>1, <3>1 DEF Within, LimitInv
    <3> QED
      BY <3>4, <3>5, <3>6 DEF LimitInv
  <2>3. CASE ~(Cardinality(Live) >= task[c].limit)
    <3>1. task' = [task EXCEPT ![c] = [task[c] EXCEPT !.pc = "held", !.before = Cardinality(Live)]]
      BY <1>2, <2>3 DEF Acquire, Set
    <3>2. /\ task'[c].pc = "held" /\ task'[c].before = Cardinality(Live)
          /\ task'[c].deadline = task[c].deadline /\ task'[c].phase = task[c].phase
          /\ task[c].pc = "limited"
      BY <1>2, <3>1, <1>t DEF Task, Acquire, At
    <3>3. leases' = [b \in Assessments |->
                        IF b = c THEN task[c].deadline
                        ELSE IF b \in Live THEN leases[b] ELSE None]
      BY <1>2, <2>3 DEF Acquire
    <3>4. Holders \subseteq Live
      BY <1>d DEF Holders, Live, LeaseKept, LimitInv
    <3>5. Holders' \ {c} \subseteq Holders
      BY <2>1 DEF Holders
    <3>6. LeaseKept'
      <4> SUFFICES ASSUME NEW b \in Holders' PROVE leases'[b] = task'[b].deadline
        BY DEF LeaseKept
      <4>0. b \in Assessments
        BY DEF Holders
      <4>1. CASE b = c
        BY <4>0, <4>1, <3>2, <3>3
      <4>2. CASE b # c
        <5>1. b \in Holders /\ b \in Live
          BY <4>2, <3>4, <3>5
        <5> QED
          BY <4>0, <4>2, <5>1, <3>3, <2>1 DEF LeaseKept, LimitInv
      <4> QED
        BY <4>1, <4>2
    <3>7. Ranked'
      <4> SUFFICES ASSUME NEW S \in SUBSET Holders', S # {}
                   PROVE  \E a \in S : Cardinality(S) <= task'[a].before + 1
        BY DEF Ranked
      <4>0. S \subseteq Assessments /\ IsFiniteSet(S) /\ IsFiniteSet(Live)
        BY FS_Subset DEF Holders, Live
      <4>1. CASE c \in S
        <5>1. S \ {c} \subseteq Live
          BY <3>4, <3>5
        <5>2. Cardinality(S \ {c}) <= Cardinality(Live) /\ Cardinality(S \ {c}) \in Nat
              /\ Cardinality(Live) \in Nat
          BY <4>0, <5>1, FS_Subset, FS_CardinalityType
        <5>3. Cardinality(S \ {c}) = Cardinality(S) - 1 /\ Cardinality(S) \in Nat
          BY <4>0, <4>1, FS_RemoveElement, FS_CardinalityType
        <5> QED
          BY <4>1, <5>2, <5>3, <3>2
      <4>2. CASE c \notin S
        <5>1. S \in SUBSET Holders
          BY <4>2, <3>5
        <5>2. PICK a \in S : Cardinality(S) <= task[a].before + 1
          BY <5>1 DEF Ranked, LimitInv
        <5> QED
          BY <4>0, <4>2, <5>2, <2>1
      <4> QED
        BY <4>1, <4>2
    <3>8. \A a \in Assessments : Within(a)'
      BY <2>1, <3>2 DEF Within, LimitInv
    <3> QED
      BY <3>6, <3>7, <3>8 DEF LimitInv
  <2> QED
    BY <2>2, <2>3
<1> QED
  BY <1>1, <1>2

LEMMA LimitAlways == Spec => []LimitInv
<1>1. Init => LimitInv
  <2> SUFFICES ASSUME Init PROVE LimitInv
    OBVIOUS
  <2>1. \A a \in Assessments : task[a].pc = "new" /\ task[a].phase = "discovery"
    BY DEF Init
  <2>2. Holders = {}
    BY <2>1 DEF Holders, Counting
  <2> QED
    BY <2>1, <2>2 DEF LimitInv, LeaseKept, Ranked, Within
<1> QED
  BY <1>1, LimitStep, TypedAlways, PTL DEF Spec

\* The assessments in flight never exceed the limit one of them has learnt,
\* for any number of them, of limits, expiries and deaths.
THEOREM Limiting == Spec => []CallsWithinLimit
<1>1. Typed /\ LimitInv => CallsWithinLimit
  <2> SUFFICES ASSUME Typed, LimitInv, InFlight # {}
               PROVE  \E a \in InFlight : Cardinality(InFlight) <= task[a].limit
    BY DEF CallsWithinLimit
  <2>1. /\ now \in Nat
        /\ \A a \in Assessments : /\ task[a].deadline \in Nat /\ task[a].before \in Nat
                                  /\ task[a].limit \in Nat
    BY DEF Typed, TypeOK, Task
  <2>2. InFlight \subseteq Holders
    BY <2>1 DEF InFlight, Holders, Calling, At, Late, Counting
  <2>3. PICK a \in InFlight : Cardinality(InFlight) <= task[a].before + 1
    BY <2>2 DEF LimitInv, Ranked
  <2>4. a \in Assessments /\ task[a].before < task[a].limit
    BY DEF InFlight, Calling, At, LimitInv, Within
  <2>5. Cardinality(InFlight) \in Nat
    BY HubAssumption, FS_Subset, FS_CardinalityType DEF InFlight
  <2> QED
    BY <2>1, <2>3, <2>4, <2>5
<1> QED
  BY <1>1, TypedAlways, LimitAlways, PTL

-----------------------------------------------------------------------------
(* The rate limit.                                                           *)

\* As long as nothing overtakes, a request is forgotten only when a later one
\* is a window away from it, and no window has more than it may.
Remembered ==
    /\ \A r \in sent : r \in times \/ \E q \in sent : r.at <= q.at - Window
    /\ \A t \in Nat : Cardinality(InWindow(t)) <= Rate

RateInv == IsFiniteSet(sent) /\ (~overtaken => Remembered)

LEMMA RateStep ==
    ASSUME Typed, RateInv, [Next]_vars
    PROVE  RateInv'
<1> USE HubAssumption
<1>1. ASSUME NEW a \in Assessments, Consume(a) PROVE RateInv'
  <2> DEFINE stamp == task[a].stamp
             request == [by |-> a, no |-> task[a].requests, at |-> stamp]
  <2>1. CASE UNCHANGED <<times, history>>
    BY <2>1 DEF RateInv, Remembered, InWindow, history
  <2>2. CASE ~UNCHANGED <<times, history>>
    <3>1. /\ Cardinality(Counted(stamp)) < Rate \/ ~(Cardinality(Counted(stamp)) >= Rate)
          /\ times' = Counted(stamp) \cup {request}
          /\ sent' = sent \cup {request}
          /\ overtaken' = (overtaken \/ \E r \in sent : r.at > stamp)
      BY <1>1, <2>2 DEF Consume
    <3>2. IsFiniteSet(sent')
      BY <3>1, FS_AddElement DEF RateInv
    <3>3. stamp \in Nat /\ request.at = stamp /\ request \in Request
      BY DEF Typed, TypeOK, Task, Request
    <3>4. \A r \in sent \cup times : r \in Request /\ r.at \in Nat
      BY DEF Typed, TypeOK, Request
    <3>5. ASSUME ~overtaken' PROVE Remembered'
      <4>1. Remembered /\ \A r \in sent : r.at <= stamp
        <5>1. ~overtaken /\ ~\E r \in sent : r.at > stamp
          BY <3>1, <3>5
        <5>2. \A r \in sent : r.at \in Nat
          BY <3>4
        <5> QED
          BY <5>1, <5>2, <3>3 DEF RateInv
      <4>2. ASSUME NEW r \in sent' PROVE r \in times' \/ \E q \in sent' : r.at <= q.at - Window
        <5>1. CASE r = request
          BY <5>1, <3>1
        <5>2. CASE r \in sent /\ r \notin times
          BY <5>2, <4>1, <3>1 DEF Remembered
        <5>3. CASE r \in sent /\ r \in times
          <6>1. r.at > stamp - Window \/ r.at <= stamp - Window
            BY <5>3, <3>3, <3>4
          <6>2. r.at > stamp - Window => r \in Counted(stamp)
            BY <5>3, <4>1 DEF Counted
          <6> QED
            BY <6>1, <6>2, <3>1, <3>3
        <5> QED
          BY <5>1, <5>2, <5>3, <3>1
      <4>3. ASSUME NEW t \in Nat PROVE Cardinality(InWindow(t)') <= Rate
        <5>0. InWindow(t)' \subseteq InWindow(t) \cup {request}
          BY <3>1 DEF InWindow
        <5>1. CASE request \in InWindow(t)'
          <6>1. t <= stamp /\ stamp < t + Window
            BY <5>1, <3>3 DEF InWindow
          <6>2. InWindow(t) \subseteq Counted(stamp)
            <7> SUFFICES ASSUME NEW r \in InWindow(t) PROVE r \in Counted(stamp)
              OBVIOUS
            <7>1. r \in sent /\ r.at >= t /\ r.at \in Nat /\ r.at <= stamp
              BY <3>4, <4>1 DEF InWindow
            <7>2. r.at > stamp - Window
              BY <6>1, <7>1, <3>3
            <7>3. ~\E q \in sent : r.at <= q.at - Window
              <8> SUFFICES ASSUME NEW q \in sent, r.at <= q.at - Window PROVE FALSE
                OBVIOUS
              <8>1. q.at \in Nat /\ q.at <= stamp
                BY <3>4, <4>1
              <8> QED
                BY <7>1, <7>2, <8>1, <3>3
            <7> QED
              BY <7>1, <7>2, <7>3, <4>1 DEF Remembered, Counted
          <6>3. IsFiniteSet(times) /\ IsFiniteSet(Counted(stamp))
            BY FS_Subset DEF RateInv, Typed, TypeOK, Counted
          <6>4. Cardinality(Counted(stamp) \cup {request}) <= Cardinality(Counted(stamp)) + 1
            <7>1. Cardinality(Counted(stamp)) \in Nat
              BY <6>3, FS_CardinalityType
            <7>2. Cardinality(Counted(stamp) \cup {request}) \in
                    {Cardinality(Counted(stamp)), Cardinality(Counted(stamp)) + 1}
              <8> HIDE DEF request, stamp
              <8> QED
                BY <6>3, FS_AddElement
            <7> QED
              BY <7>1, <7>2
          <6>5. InWindow(t)' \subseteq Counted(stamp) \cup {request}
            BY <5>0, <6>2
          <6>6. /\ IsFiniteSet(Counted(stamp) \cup {request})
                /\ Cardinality(InWindow(t)') <= Cardinality(Counted(stamp) \cup {request})
            BY <6>3, <6>5, FS_AddElement, FS_Subset
          <6>7. /\ Cardinality(Counted(stamp)) \in Nat
                /\ Cardinality(Counted(stamp) \cup {request}) \in Nat
                /\ Cardinality(InWindow(t)') \in Nat
            BY <6>3, <6>5, <6>6, FS_CardinalityType, FS_Subset
          <6> QED
            BY <6>4, <6>6, <6>7, <3>1
        <5>2. CASE request \notin InWindow(t)'
          <6>1. InWindow(t)' \subseteq InWindow(t)
            BY <5>0, <5>2
          <6>2. IsFiniteSet(InWindow(t)) /\ Cardinality(InWindow(t)) <= Rate
            BY <4>1, FS_Subset DEF Remembered, RateInv, InWindow
          <6>3. /\ Cardinality(InWindow(t)') <= Cardinality(InWindow(t))
                /\ Cardinality(InWindow(t)') \in Nat /\ Cardinality(InWindow(t)) \in Nat
            BY <6>1, <6>2, FS_Subset, FS_CardinalityType
          <6> QED
            BY <6>2, <6>3
        <5> QED
          BY <5>1, <5>2
      <4> QED
        BY <4>2, <4>3 DEF Remembered
    <3> QED
      BY <3>2, <3>5 DEF RateInv
  <2> QED
    BY <2>1, <2>2
<1>2. CASE UNCHANGED <<times, history>>
  BY <1>2 DEF RateInv, Remembered, InWindow, history
<1>3. (\E a \in Assessments : Consume(a)) \/ UNCHANGED <<times, history>>
  <2>1. CASE Tick \/ UNCHANGED vars
    BY <2>1 DEF Tick, vars, admission
  <2>2. ASSUME NEW a \in Assessments, ProviderStep(a) PROVE UNCHANGED <<times, history>>
    BY <2>2 DEF ProviderStep, Discover, DiscoveryFails, Succeed, FailTemporarily,
       FailForGood, admission
  <2>3. ASSUME NEW a \in Assessments, Begin(a) \/ Crash(a) PROVE UNCHANGED <<times, history>>
    BY <2>3 DEF Begin, Crash, admission
  <2>4. ASSUME NEW a \in Assessments, TaskStep(a), ~Consume(a)
        PROVE  UNCHANGED <<times, history>>
    <3>1. CASE ReadLimits(a) \/ Acquire(a) \/ Stamp(a) \/ Call(a) \/ Learn(a) \/ TimesOut(a)
      BY <3>1 DEF ReadLimits, Acquire, Stamp, Call, Learn, TimesOut, DiscoveryFails,
         FailTemporarily, admission
    <3>2. ASSUME NEW fails \in BOOLEAN,
                 \/ Audit(a, fails) \/ Release(a, fails) \/ AuditFailure(a, fails)
                 \/ Save(a, fails) \/ SaveFailure(a, fails)
          PROVE  UNCHANGED <<times, history>>
      BY <3>2 DEF Audit, Release, AuditFailure, Save, SaveFailure, admission
    <3> QED
      BY <2>4, <3>1, <3>2 DEF TaskStep
  <2> QED
    BY <2>1, <2>2, <2>3, <2>4 DEF Next
<1> QED
  BY <1>1, <1>2, <1>3

\* Admitted in the order of their times, no window sees more requests than
\* the hard limit.
THEOREM RateLimiting == Spec => []RateWithinLimitInOrder
<1>1. Init => RateInv
  <2> SUFFICES ASSUME Init PROVE RateInv
    OBVIOUS
  <2>1. sent = {} /\ \A t \in Nat : InWindow(t) = {}
    BY DEF Init, InWindow
  <2> QED
    BY <2>1, FS_EmptySet, HubAssumption DEF RateInv, Remembered
<1>2. Spec => []RateInv
  BY <1>1, RateStep, TypedAlways, PTL DEF Spec
<1>3. RateInv => RateWithinLimitInOrder
  BY HubAssumption DEF RateInv, Remembered, RateWithinLimitInOrder, RateWithinLimit
<1> QED
  BY <1>2, <1>3, PTL
=============================================================================
