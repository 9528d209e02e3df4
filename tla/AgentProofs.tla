---------------------------- MODULE AgentProofs ----------------------------
(***************************************************************************)
(* The agentic mode keeps LoopTypeOK and Stack, the shape of its nested    *)
(* calls: lemmas about the stack of loops, then one case per action.       *)
(***************************************************************************)
EXTENDS AgentReplay, SequenceTheorems, FiniteSetTheorems, TLAPS

(* The calls nest as the code writes them: the main loop or the closing    *)
(* healing at the bottom, above it healings of marked steps, and whatever  *)
(* healing is not just about to begin has begun a round.                   *)
Stack ==
  /\ (pc \in {"look", "ask", "heal", "reassert", "raise"} => loops # <<>>)
  /\ (pc = "wrapup" => loops = <<>>)
  /\ (pc \in {"heal", "reassert"} => Top.kind # "main")
  /\ \A i \in 1..Len(loops) :
       /\ (i = 1 <=> loops[i].kind # "mark")
       /\ (loops[i].kind = "main" => loops[i].aims = {})
       /\ ((loops[i].kind # "main" /\ (i < Len(loops) \/ pc \notin {"heal", "crashed"}))
             => loops[i].attempt >= 1)

-----------------------------------------------------------------------------
(* Assertions and their verdicts.                                           *)

(* Assertions and checks can be counted.                                    *)
LEMMA PartsCount ==
  /\ \A S \in SUBSET Assertion : Cardinality(S) \in Nat
  /\ Cardinality(Check) \in Nat
<1>1. ASSUME NEW S \in SUBSET Assertion PROVE Cardinality(S) \in Nat
  <2>1. IsFiniteSet(S)
    BY FS_Subset, CaseAssumption
  <2> QED
    BY <2>1, FS_CardinalityType
<1> QED
  BY <1>1, FS_CardinalityType, CaseAssumption

(* Every assertion that is run gets a verdict.                              *)
LEMMA VerdictsType ==
  ASSUME NEW S, NEW p, NEW v \in Verdicts(S, p)
  PROVE  v \in [S -> Verdict]
<1>1. CASE site = Flaky
  BY <1>1 DEF Verdicts
<1>2. CASE site # Flaky
  BY <1>2 DEF Verdicts, Verdict
<1> QED
  BY <1>1, <1>2

(* An action that does not fail ends on a page.                             *)
LEMMA LandingsType ==
  ASSUME CaseTypeOK, NEW a \in Action, NEW p \in Page, NEW to \in Landings(a, p), to # Broken
  PROVE  to \in Page
<1>1. CASE site = Flaky
  BY <1>1, CaseAssumption DEF Landings
<1>2. CASE site # Flaky
  <2>1. site \in Site
    BY <1>2 DEF CaseTypeOK
  <2>2. site.effect \in [Page \X Action -> Page \union {Broken}]
    BY <2>1, CaseAssumption
  <2>3. site.effect[p, a] \in Page \union {Broken}
    BY <2>2
  <2> QED
    BY <1>2, <2>3 DEF Landings
<1> QED
  BY <1>1, <1>2

(* An assertion phase renews the verdicts of what it runs, and no others.   *)
LEMMA AssertPhaseType ==
  ASSUME CaseTypeOK, NEW S \in SUBSET Assertion, NEW v \in Verdicts(S, page),
         AssertPhase(S, v)
  PROVE  /\ last' \in [Assertion -> Verdict \union {"none"}]
         /\ steps' \in Nat
         /\ \A a \in Assertion : last'[a] = IF a \in S THEN v[a] ELSE last[a]
         /\ (Failing(v) = {} => \A a \in S : last'[a] = "ok")
<1>1. v \in [S -> Verdict]
  BY VerdictsType
<1>2. Cardinality(S) \in Nat
  BY PartsCount
<1>3. \A a \in Assertion : last'[a] = IF a \in S THEN v[a] ELSE last[a]
  BY DEF AssertPhase
<1>4. last' \in [Assertion -> Verdict \union {"none"}]
  BY <1>1 DEF AssertPhase, CaseTypeOK
<1>5. steps' \in Nat
  BY <1>2 DEF AssertPhase, CaseTypeOK
<1>6. Failing(v) = {} => \A a \in S : last'[a] = "ok"
  BY <1>1, <1>3 DEF Failing
<1> QED
  BY <1>3, <1>4, <1>5, <1>6

-----------------------------------------------------------------------------
(* The stack of loops.                                                      *)

(* A new loop has the kind, the round and the aims it is made with.         *)
LEMMA NewLoopType ==
  ASSUME NEW k \in Kind, NEW n \in Nat, NEW t \in Nat, NEW S \in SUBSET Assertion
  PROVE  /\ NewLoop(k, n, t, S) \in Loop
         /\ NewLoop(k, n, t, S).kind = k /\ NewLoop(k, n, t, S).attempt = n
         /\ NewLoop(k, n, t, S).aims = S
BY DEF NewLoop, Loop

(* The fields of a loop that the actions read.                              *)
LEMMA LoopFields ==
  ASSUME NEW l \in Loop
  PROVE  /\ l.kind \in Kind /\ l.attempt \in Nat /\ l.left \in Nat
         /\ l.aims \subseteq Assertion
BY DEF Loop

(* A loop stays one when an iteration or an action is counted.              *)
LEMMA LoopUpdates ==
  ASSUME NEW l \in Loop
  PROVE  /\ (l.left > 0 => [l EXCEPT !.left = @ - 1] \in Loop)
         /\ \A a \in Action : [l EXCEPT !.skips[a] = @ + 1] \in Loop
         /\ \A a \in Action : [l EXCEPT !.seen[a] = @ + 1] \in Loop
<1>1. l.left > 0 => [l EXCEPT !.left = @ - 1] \in Loop
  BY DEF Loop
<1>2. ASSUME NEW a \in Action PROVE [l EXCEPT !.skips[a] = @ + 1] \in Loop
  BY DEF Loop
<1>3. ASSUME NEW a \in Action PROVE [l EXCEPT !.seen[a] = @ + 1] \in Loop
  BY DEF Loop
<1> QED
  BY <1>1, <1>2, <1>3

(* The innermost loop is a loop.                                            *)
LEMMA TopType ==
  ASSUME loops \in Seq(Loop), loops # <<>>
  PROVE  Len(loops) \in Nat \ {0} /\ Top \in Loop
BY DEF Top

(* Replacing the innermost loop leaves the others alone.                    *)
LEMMA SetTopType ==
  ASSUME loops \in Seq(Loop), loops # <<>>, NEW l \in Loop, SetTop(l)
  PROVE  /\ loops' \in Seq(Loop) /\ Len(loops') = Len(loops) /\ loops' # <<>>
         /\ \A i \in 1..Len(loops) : loops'[i] = IF i = Len(loops) THEN l ELSE loops[i]
<1>1. Len(loops) \in 1..Len(loops)
  BY TopType
<1>2. loops' = [loops EXCEPT ![Len(loops)] = l]
  BY DEF SetTop
<1>3. /\ loops' \in Seq(Loop) /\ Len(loops') = Len(loops)
      /\ \A i \in 1..Len(loops) : loops'[i] = IF i = Len(loops) THEN l ELSE loops[i]
  BY <1>1, <1>2, ExceptSeq
<1> QED
  BY <1>1, <1>3, EmptySeq

(* Closing the innermost loop leaves the others alone.                      *)
LEMMA BelowType ==
  ASSUME loops \in Seq(Loop), loops # <<>>
  PROVE  /\ Below \in Seq(Loop) /\ Len(Below) = Len(loops) - 1
         /\ \A i \in 1..Len(Below) : Below[i] = loops[i]
<1>1. Len(loops) \in Nat \ {0}
  BY TopType
<1>2. \A i \in 1..Len(loops) - 1 : loops[i] \in Loop
  BY <1>1, ElementOfSeq
<1>3. /\ Below \in Seq(Loop)
      /\ Len(Below) = IF 1 <= Len(loops) - 1 THEN Len(loops) - 1 - 1 + 1 ELSE 0
      /\ \A i \in 1..Len(loops) - 1 - 1 + 1 : Below[i] = loops[1 + i - 1]
  BY <1>1, <1>2, SubSeqProperties DEF Below
<1>4. Len(Below) = Len(loops) - 1
  <2>1. CASE Len(loops) = 1
    BY <1>3, <2>1
  <2>2. CASE Len(loops) # 1
    <3>1. 1 <= Len(loops) - 1 /\ Len(loops) - 1 - 1 + 1 = Len(loops) - 1
      BY <1>1, <2>2
    <3> QED
      BY <1>3, <3>1
  <2> QED
    BY <2>1, <2>2
<1>5. ASSUME NEW i \in 1..Len(Below) PROVE Below[i] = loops[i]
  <2>1. i \in 1..Len(loops) - 1 - 1 + 1 /\ 1 + i - 1 = i
    BY <1>1, <1>4
  <2> QED
    BY <1>3, <2>1
<1> QED
  BY <1>3, <1>4, <1>5

(* The stack of a run that begins.                                          *)
LEMMA OneLoop ==
  ASSUME NEW l \in Loop
  PROVE  <<l>> \in Seq(Loop) /\ <<l>> # <<>> /\ Len(<<l>>) = 1 /\ <<l>>[1] = l
OBVIOUS

(* Opening a loop leaves the others alone.                                  *)
LEMMA PushType ==
  ASSUME NEW s \in Seq(Loop), NEW l \in Loop
  PROVE  /\ Append(s, l) \in Seq(Loop) /\ Append(s, l) # <<>>
         /\ Len(Append(s, l)) = Len(s) + 1
         /\ \A i \in 1..Len(s) : Append(s, l)[i] = s[i]
         /\ Append(s, l)[Len(s) + 1] = l
BY AppendProperties, EmptySeq, LenProperties

-----------------------------------------------------------------------------
(* Every step of the agentic mode keeps the types.                          *)

(* A case run begins well typed.                                            *)
LEMMA LoopTypesStart == LoopInit => LoopTypeOK
<1> SUFFICES ASSUME LoopInit PROVE LoopTypeOK
  OBVIOUS
<1>1. CaseTypeOK
  BY CaseAssumption DEF LoopInit, CaseTypeOK
<1>2. policy \in Policies /\ policy.max_steps \in Nat
  BY LoopAssumption DEF LoopInit
<1>3. NewLoop("main", 0, policy.max_steps, {}) \in Loop
  BY <1>2, NewLoopType DEF Kind
<1>4. loops \in Seq(Loop) /\ actions \in Seq(Entry)
  BY <1>3 DEF LoopInit
<1> QED
  BY <1>1, <1>2, <1>4 DEF LoopInit, LoopTypeOK, LoopPc

(* Handling an answer counts it and leaves case and policy alone.           *)
LEMMA AnswerTypes ==
  ASSUME LoopTypeOK, Answer
  PROVE  llm_calls' \in Nat /\ late' \in Nat /\ cancelled' = cancelled
         /\ rounds' = rounds /\ site' = site /\ policy' = policy
<1>1. CASE cancelled
  BY <1>1 DEF LoopTypeOK, Answer, caseVars
<1>2. CASE ~cancelled
  BY <1>2 DEF LoopTypeOK, Answer, caseVars
<1> QED
  BY <1>1, <1>2

(* Every action keeps the types, given that the loops it uses exist.        *)
LEMMA LoopTypesKept ==
  ASSUME LoopTypeOK, Stack, [LoopNext]_vars
  PROVE  LoopTypeOK'
<1> USE DEF LoopTypeOK, LoopPc, caseVars, pageVars, CaseTypeOK
<1>a. policy.heal_attempts \in Nat /\ policy.max_steps \in Nat
  BY LoopAssumption
<1>b. pc \in {"look", "ask", "heal", "reassert", "raise"} =>
        /\ loops # <<>> /\ Top \in Loop /\ Top.left \in Nat /\ Top.attempt \in Nat
        /\ Top.aims \subseteq Assertion /\ Top.kind \in Kind
  BY TopType DEF Stack, Loop
<1>1. CASE Cancel
  BY <1>1 DEF Cancel
<1>2. CASE Crash
  BY <1>2 DEF Crash
<1>3. CASE RunOut \/ SeeCancel
  BY <1>3 DEF RunOut, SeeCancel
<1>4. CASE ReachGoal
  <2>1. loops' \in Seq(Loop) /\ steps' \in Nat
    BY <1>4, PartsCount DEF ReachGoal
  <2> QED
    BY <1>4, <2>1 DEF ReachGoal
<1>5. CASE Ask
  <2>1. [Top EXCEPT !.left = @ - 1] \in Loop
    BY <1>5, <1>b, LoopUpdates DEF Ask
  <2>2. loops' \in Seq(Loop)
    BY <1>5, <1>b, <2>1, SetTopType DEF Ask
  <2> QED
    BY <1>5, <2>2 DEF Ask
<1>6. CASE Unknown \/ Fail
  BY <1>6, AnswerTypes DEF Unknown, Fail
<1>7. CASE Finish
  <2>1. loops' \in Seq(Loop) /\ pc' \in LoopPc
    <3>1. CASE Top.kind = "main"
      BY <1>7, <3>1 DEF Finish
    <3>2. CASE Top.kind # "main"
      BY <1>7, <3>2 DEF Finish
    <3> QED
      BY <3>1, <3>2
  <2> QED
    BY <1>7, <2>1, AnswerTypes DEF Finish
<1>8. CASE \E n \in 1..MaxMark : MarkAgain(n)
  BY <1>8, AnswerTypes DEF MarkAgain
<1>9. ASSUME NEW n \in 1..MaxMark, MarkStep(n) PROVE LoopTypeOK'
  <2>1. Bound(n) \subseteq Assertion
    BY DEF Bound
  <2>2. PICK v \in Verdicts(Bound(n), page) :
          /\ AssertPhase(Bound(n), v)
          /\ IF Failing(v) = {} THEN pc' = "look" /\ loops' = loops
             ELSE IF policy.heal_attempts = 0 THEN pc' = "raise" /\ loops' = loops
             ELSE /\ pc' = "heal"
                  /\ loops' = Append(loops, NewLoop("mark", 0, 0, Bound(n)))
    BY <1>9 DEF MarkStep
  <2>3. last' \in [Assertion -> Verdict \union {"none"}] /\ steps' \in Nat
    BY <2>1, <2>2, AssertPhaseType
  <2>4. NewLoop("mark", 0, 0, Bound(n)) \in Loop
    BY <2>1, NewLoopType DEF Kind
  <2>5. loops' \in Seq(Loop) /\ pc' \in LoopPc
    BY <2>2, <2>4, PushType
  <2>6. actions' \in Seq(Entry)
    <3>1. Mark(n) \in Entry
      BY LoopAssumption DEF Entry, Mark
    <3> QED
      BY <1>9, <3>1, AppendProperties DEF MarkStep
  <2> QED
    BY <1>9, <2>3, <2>5, <2>6, AnswerTypes DEF MarkStep
<1>10. ASSUME NEW a \in Action, Skip(a) PROVE LoopTypeOK'
  <2>1. [Top EXCEPT !.skips[a] = @ + 1] \in Loop
    BY <1>10, <1>b, LoopUpdates DEF Skip, Answer
  <2>2. loops' \in Seq(Loop)
    BY <1>10, <1>b, <2>1, SetTopType DEF Skip, Answer
  <2> QED
    BY <1>10, <2>2, AnswerTypes DEF Skip
<1>11. ASSUME NEW a \in Action, Execute(a) PROVE LoopTypeOK'
  <2>1. (IF a \in Exempt THEN Top ELSE [Top EXCEPT !.seen[a] = @ + 1]) \in Loop
    BY <1>11, <1>b, LoopUpdates DEF Execute, Answer
  <2>2. loops' \in Seq(Loop)
    BY <1>11, <1>b, <2>1, SetTopType DEF Execute, Answer
  <2>3. PICK to \in Landings(a, page) :
          IF to = Broken
          THEN pc' = "raise" /\ UNCHANGED <<page, actions>>
          ELSE /\ pc' = "look" /\ page' = to
               /\ actions' = IF Top.kind = "main"
                             THEN Append(actions, Act(a)) ELSE actions
    BY <1>11 DEF Execute
  <2>4. page' \in Page /\ pc' \in LoopPc
    BY <2>3, LandingsType
  <2>5. Act(a) \in Entry
    BY DEF Entry, Act
  <2>6. actions' \in Seq(Entry)
    BY <2>3, <2>5, AppendProperties, SMTT(60)
  <2> QED
    BY <1>11, <2>2, <2>4, <2>6, AnswerTypes, SMTT(60) DEF Execute
<1>12. CASE BeginRound
  <2>1. NewLoop(Top.kind, Top.attempt + 1, HealBudget, Top.aims) \in Loop
    BY <1>12, <1>b, NewLoopType, LoopAssumption DEF BeginRound
  <2>2. loops' \in Seq(Loop)
    BY <1>12, <1>b, <2>1, SetTopType DEF BeginRound
  <2> QED
    BY <1>12, <2>2 DEF BeginRound
<1>13. CASE GiveUp
  <2>1. loops' \in Seq(Loop)
    BY <1>13, <1>b, BelowType DEF GiveUp
  <2> QED
    BY <1>13, <2>1 DEF GiveUp
<1>14. CASE Reassert
  <2>1. Top.aims \subseteq Assertion
    BY <1>14, <1>b DEF Reassert
  <2>2. PICK v \in Verdicts(Top.aims, page) :
          /\ AssertPhase(Top.aims, v)
          /\ IF Failing(v) = {}
             THEN /\ heals' = heals + 1 /\ loops' = Below
                  /\ pc' = IF Top.kind = "closing" THEN "passed" ELSE "look"
             ELSE pc' = "heal" /\ UNCHANGED <<heals, loops>>
    BY <1>14 DEF Reassert
  <2>3. last' \in [Assertion -> Verdict \union {"none"}] /\ steps' \in Nat
    BY <2>1, <2>2, AssertPhaseType
  <2>4. loops' \in Seq(Loop) /\ pc' \in LoopPc /\ heals' \in Nat
    BY <1>14, <1>b, <2>2, BelowType DEF Reassert
  <2> QED
    BY <1>14, <2>3, <2>4 DEF Reassert
<1>15. CASE Unwind
  BY <1>15 DEF Unwind
<1>16. CASE WrapUp
  <2>1. Closing(done) \subseteq Assertion
    BY DEF Closing
  <2>2. PICK v \in Verdicts(Closing(done), page) :
          /\ AssertPhase(Closing(done), v)
          /\ IF Failing(v) = {} THEN pc' = "passed" /\ loops' = loops
             ELSE /\ pc' = "heal"
                  /\ loops' = Append(loops, NewLoop("closing", 0, 0, Closing(done)))
    BY <1>16 DEF WrapUp
  <2>3. last' \in [Assertion -> Verdict \union {"none"}] /\ steps' \in Nat
    BY <2>1, <2>2, AssertPhaseType
  <2>4. NewLoop("closing", 0, 0, Closing(done)) \in Loop
    BY <2>1, NewLoopType DEF Kind
  <2>5. loops' \in Seq(Loop) /\ pc' \in LoopPc
    <3>1. CASE Failing(v) = {}
      BY <2>2, <3>1
    <3>2. CASE Failing(v) # {}
      BY <2>2, <2>4, <3>2, PushType
    <3> QED
      BY <3>1, <3>2
  <2> QED
    BY <1>16, <2>3, <2>5 DEF WrapUp
<1>17. CASE UNCHANGED vars
  BY <1>17 DEF vars
<1> QED
  BY <1>1, <1>2, <1>3, <1>4, <1>5, <1>6, <1>7, <1>8, <1>9, <1>10, <1>11, <1>12,
     <1>13, <1>14, <1>15, <1>16, <1>17 DEF LoopNext, LoopStep, Turn

-----------------------------------------------------------------------------
(* ... and the shape of the stack.                                          *)

(* A case run begins with the main loop alone.                              *)
LEMMA StackStart == LoopInit => Stack
<1> SUFFICES ASSUME LoopInit PROVE Stack
  OBVIOUS
<1>1. policy.max_steps \in Nat
  BY LoopAssumption DEF LoopInit
<1>2. /\ NewLoop("main", 0, policy.max_steps, {}) \in Loop
      /\ NewLoop("main", 0, policy.max_steps, {}).kind = "main"
      /\ NewLoop("main", 0, policy.max_steps, {}).aims = {}
  BY <1>1, NewLoopType DEF Kind
<1>3. loops # <<>> /\ Len(loops) = 1 /\ loops[1].kind = "main" /\ loops[1].aims = {}
  BY <1>2, OneLoop DEF LoopInit
<1> QED
  BY <1>3 DEF Stack, LoopInit, Top

(* What the innermost loop is, when there is one.                           *)
LEMMA TopPlace ==
  ASSUME LoopTypeOK, Stack, loops # <<>>
  PROVE  /\ Len(loops) \in Nat \ {0} /\ Top = loops[Len(loops)] /\ Top \in Loop
         /\ (Top.kind = "mark" <=> Len(loops) > 1)
         /\ (Top.kind = "main" => Top.aims = {})
         /\ ((Top.kind # "main" /\ pc \notin {"heal", "crashed"}) => Top.attempt >= 1)
<1>1. Len(loops) \in Nat \ {0} /\ Top = loops[Len(loops)] /\ Top \in Loop
  BY TopType DEF LoopTypeOK, Top
<1>2. Len(loops) \in 1..Len(loops)
  BY <1>1
<1> QED
  BY <1>1, <1>2 DEF Stack

(* Only a healing of a marked step stands on another loop.                  *)
LEMMA Bottom ==
  ASSUME LoopTypeOK, Stack, loops # <<>>, Top.kind # "mark"
  PROVE  Len(loops) = 1 /\ loops[1] = Top
<1>1. Len(loops) \in Nat \ {0} /\ Top = loops[Len(loops)]
  BY TopPlace
<1>2. Len(loops) \in 1..Len(loops)
  BY <1>1
<1>3. loops[Len(loops)].kind # "mark"
  BY <1>1
<1>4. Len(loops) = 1
  BY <1>2, <1>3 DEF Stack
<1> QED
  BY <1>1, <1>4

(* A step that only replaces the innermost loop by one of its kind and aims *)
(* keeps the stack.                                                         *)
LEMMA StackUpdated ==
  ASSUME LoopTypeOK, Stack, loops # <<>>, NEW l \in Loop, SetTop(l),
         l.kind = Top.kind, l.aims = Top.aims,
         pc' \in {"look", "ask", "raise"},
         l.kind # "main" => l.attempt >= 1
  PROVE  Stack'
<1>1. /\ loops' # <<>> /\ Len(loops') = Len(loops)
      /\ \A i \in 1..Len(loops) : loops'[i] = IF i = Len(loops) THEN l ELSE loops[i]
  BY SetTopType DEF LoopTypeOK
<1>2. Len(loops) \in Nat \ {0} /\ Top = loops[Len(loops)]
  BY TopPlace
<1>3. ASSUME NEW i \in 1..Len(loops')
      PROVE  /\ (i = 1 <=> loops'[i].kind # "mark")
             /\ (loops'[i].kind = "main" => loops'[i].aims = {})
             /\ (loops'[i].kind # "main" => loops'[i].attempt >= 1)
  <2>1. CASE i = Len(loops)
    BY <1>1, <1>2, <2>1 DEF Stack
  <2>2. CASE i # Len(loops)
    <3>1. i < Len(loops) /\ loops'[i] = loops[i]
      BY <1>1, <1>2, <2>2
    <3> QED
      BY <1>1, <3>1 DEF Stack
  <2> QED
    BY <2>1, <2>2
<1> QED
  BY <1>1, <1>3 DEF Stack

(* A step that leaves the loops alone.                                      *)
LEMMA StackSame ==
  ASSUME LoopTypeOK, Stack, loops' = loops, loops # <<>>,
         \/ pc \notin {"heal", "crashed"} /\ pc' \in {"look", "raise"}
         \/ pc' \in {"passed", "failed", "crashed"} /\ pc \notin {"heal", "crashed"}
         \/ pc' = "crashed"
         \/ pc' \in {"heal", "reassert"} /\ Top.kind # "main" /\ pc \notin {"heal", "crashed"}
  PROVE  Stack'
BY DEF Stack, Top

(* A step that removes the innermost loop, a healing.                       *)
LEMMA StackPopped ==
  ASSUME LoopTypeOK, Stack, loops # <<>>, loops' = Below, Top.kind # "main",
         \/ pc' = (IF Top.kind = "closing" THEN "passed" ELSE "look")
         \/ pc' = (IF Top.kind = "closing" THEN "failed" ELSE "raise")
  PROVE  Stack'
<1>1. /\ loops' \in Seq(Loop) /\ Len(loops') = Len(loops) - 1
      /\ \A i \in 1..Len(loops') : loops'[i] = loops[i]
  BY BelowType DEF LoopTypeOK
<1>2. Len(loops) \in Nat \ {0} /\ Top \in Loop /\ (Top.kind = "mark" <=> Len(loops) > 1)
  BY TopPlace
<1>3. Top.kind = "closing" \/ (Top.kind = "mark" /\ loops' # <<>>)
  BY <1>1, <1>2, LoopFields, EmptySeq DEF Kind
<1>4. pc' \in {"passed", "failed"} \/ (pc' \in {"look", "raise"} /\ loops' # <<>>)
  BY <1>3
<1>5. ASSUME NEW i \in 1..Len(loops')
      PROVE  /\ (i = 1 <=> loops'[i].kind # "mark")
             /\ (loops'[i].kind = "main" => loops'[i].aims = {})
             /\ (loops'[i].kind # "main" => loops'[i].attempt >= 1)
  <2>1. i \in 1..Len(loops) /\ i < Len(loops) /\ loops'[i] = loops[i]
    BY <1>1, <1>2
  <2> QED
    BY <2>1 DEF Stack
<1> QED
  BY <1>4, <1>5 DEF Stack

(* A step that begins a healing.                                            *)
LEMMA StackPushed ==
  ASSUME LoopTypeOK, Stack, pc \notin {"heal", "crashed"}, pc' = "heal",
         NEW k \in {"mark", "closing"}, NEW S \in SUBSET Assertion,
         k = "mark" <=> loops # <<>>,
         loops' = Append(loops, NewLoop(k, 0, 0, S))
  PROVE  Stack'
<1> DEFINE l == NewLoop(k, 0, 0, S)
<1>1. l \in Loop /\ l.kind = k
  BY NewLoopType DEF Kind
<1>2. /\ loops' # <<>> /\ Len(loops') = Len(loops) + 1
      /\ \A i \in 1..Len(loops) : loops'[i] = loops[i]
      /\ loops'[Len(loops) + 1] = l
  BY <1>1, PushType DEF LoopTypeOK
<1>3. Len(loops) \in Nat /\ (loops # <<>> => Len(loops) > 0) /\ (loops = <<>> => Len(loops) = 0)
  BY LenProperties, EmptySeq DEF LoopTypeOK
<1>4. Top' = l
  BY <1>2 DEF Top
<1>5. ASSUME NEW i \in 1..Len(loops')
      PROVE  /\ (i = 1 <=> loops'[i].kind # "mark")
             /\ (loops'[i].kind = "main" => loops'[i].aims = {})
             /\ ((loops'[i].kind # "main" /\ i < Len(loops')) => loops'[i].attempt >= 1)
  <2>1. CASE i = Len(loops) + 1
    BY <1>1, <1>2, <1>3, <2>1
  <2>2. CASE i # Len(loops) + 1
    <3>1. i \in 1..Len(loops) /\ loops'[i] = loops[i]
      BY <1>2, <1>3, <2>2
    <3> QED
      BY <3>1 DEF Stack
  <2> QED
    BY <2>1, <2>2
<1> QED
  BY <1>1, <1>2, <1>4, <1>5 DEF Stack

(* Every action replaces, opens or closes the innermost loop, or none.      *)
LEMMA StackKept ==
  ASSUME LoopTypeOK, Stack, [LoopNext]_vars
  PROVE  Stack'
<1>a. policy.heal_attempts \in Nat
  BY LoopAssumption DEF LoopTypeOK
<1>b. pc \in {"look", "ask", "heal", "reassert", "raise"} => loops # <<>>
  BY DEF Stack
<1>1. CASE Cancel \/ UNCHANGED vars
  BY <1>1 DEF Cancel, vars, Stack, Top
<1>2. CASE Crash
  BY <1>2 DEF Crash, Stack, Top, LoopPc, Final
<1>3. CASE RunOut \/ SeeCancel \/ Unwind
  BY <1>3, <1>b, StackSame, TopPlace DEF RunOut, SeeCancel, Unwind
<1>4. CASE ReachGoal
  BY <1>4 DEF ReachGoal, Stack
<1>5. CASE Ask
  <2> DEFINE l == [Top EXCEPT !.left = @ - 1]
  <2>1. loops # <<>> /\ Top \in Loop /\ (Top.kind # "main" => Top.attempt >= 1)
    BY <1>5, <1>b, TopPlace DEF Ask
  <2>2. l \in Loop /\ l.kind = Top.kind /\ l.aims = Top.aims /\ l.attempt = Top.attempt
    BY <1>5, <2>1, LoopUpdates DEF Ask, Loop
  <2> QED
    BY <1>5, <2>1, <2>2, StackUpdated DEF Ask
<1>6. CASE Unknown \/ Fail \/ \E n \in 1..MaxMark : MarkAgain(n)
  BY <1>6, <1>b, StackSame DEF Unknown, Fail, MarkAgain, Answer
<1>7. CASE Finish
  <2>1. CASE Top.kind = "main"
    BY <1>7, <2>1 DEF Finish, Stack
  <2>2. CASE Top.kind # "main"
    BY <1>7, <1>b, <2>2, StackSame DEF Finish, Answer
  <2> QED
    BY <2>1, <2>2
<1>8. ASSUME NEW n \in 1..MaxMark, MarkStep(n) PROVE Stack'
  <2>1. Bound(n) \subseteq Assertion
    BY DEF Bound
  <2>2. pc = "ask" /\ loops # <<>>
    BY <1>8, <1>b DEF MarkStep, Answer
  <2>3. \/ pc' \in {"look", "raise"} /\ loops' = loops
        \/ pc' = "heal" /\ loops' = Append(loops, NewLoop("mark", 0, 0, Bound(n)))
    BY <1>8 DEF MarkStep
  <2> QED
    BY <2>1, <2>2, <2>3, StackSame, StackPushed
<1>9. ASSUME NEW a \in Action, Skip(a) PROVE Stack'
  <2> DEFINE l == [Top EXCEPT !.skips[a] = @ + 1]
  <2>1. loops # <<>> /\ Top \in Loop /\ (Top.kind # "main" => Top.attempt >= 1)
    BY <1>9, <1>b, TopPlace DEF Skip, Answer
  <2>2. l \in Loop /\ l.kind = Top.kind /\ l.aims = Top.aims /\ l.attempt = Top.attempt
    BY <2>1, LoopUpdates DEF Loop
  <2>3. SetTop(l) /\ pc' \in {"look", "raise"}
    BY <1>9 DEF Skip
  <2> QED
    BY <2>1, <2>2, <2>3, StackUpdated
<1>10. ASSUME NEW a \in Action, Execute(a) PROVE Stack'
  <2> DEFINE l == IF a \in Exempt THEN Top ELSE [Top EXCEPT !.seen[a] = @ + 1]
  <2>1. loops # <<>> /\ Top \in Loop /\ (Top.kind # "main" => Top.attempt >= 1)
    BY <1>10, <1>b, TopPlace DEF Execute, Answer
  <2>2. l \in Loop /\ l.kind = Top.kind /\ l.aims = Top.aims /\ l.attempt = Top.attempt
    BY <2>1, LoopUpdates DEF Loop
  <2>3. SetTop(l) /\ pc' \in {"look", "raise"}
    BY <1>10 DEF Execute
  <2> QED
    BY <2>1, <2>2, <2>3, StackUpdated
<1>11. CASE BeginRound
  <2> DEFINE l == NewLoop(Top.kind, Top.attempt + 1, HealBudget, Top.aims)
  <2>1. loops # <<>> /\ Top \in Loop /\ Top.attempt \in Nat
    BY <1>11, <1>b, TopPlace, LoopFields DEF BeginRound
  <2>2. l \in Loop /\ l.kind = Top.kind /\ l.aims = Top.aims /\ l.attempt >= 1
    BY <2>1, LoopFields, NewLoopType, LoopAssumption
  <2>3. SetTop(l) /\ pc' = "look"
    BY <1>11 DEF BeginRound
  <2> QED
    BY <2>1, <2>2, <2>3, StackUpdated
<1>12. CASE GiveUp
  BY <1>12, <1>b, StackPopped DEF GiveUp, Stack
<1>13. CASE Reassert
  <2>1. pc = "reassert" /\ loops # <<>> /\ Top.kind # "main"
    BY <1>13 DEF Reassert, Stack
  <2>2. \/ loops' = Below /\ pc' = (IF Top.kind = "closing" THEN "passed" ELSE "look")
        \/ loops' = loops /\ pc' = "heal"
    BY <1>13 DEF Reassert
  <2> QED
    BY <2>1, <2>2, StackPopped, StackSame
<1>14. CASE WrapUp
  <2>1. Closing(done) \subseteq Assertion
    BY DEF Closing
  <2>2. pc = "wrapup" /\ loops = <<>>
    BY <1>14 DEF WrapUp, Stack
  <2>3. \/ pc' = "passed" /\ loops' = loops
        \/ pc' = "heal" /\ loops' = Append(loops, NewLoop("closing", 0, 0, Closing(done)))
    BY <1>14 DEF WrapUp
  <2>4. CASE pc' = "passed" /\ loops' = loops
    BY <2>2, <2>4 DEF Stack
  <2> QED
    BY <2>1, <2>2, <2>3, <2>4, StackPushed
<1> QED
  BY <1>1, <1>2, <1>3, <1>4, <1>5, <1>6, <1>7, <1>8, <1>9, <1>10, <1>11, <1>12,
     <1>13, <1>14 DEF LoopNext, LoopStep, Turn
=============================================================================
