---------------------------- MODULE AgentSafety ----------------------------
(***************************************************************************)
(* Theorems about a case run in both modes: on top of the types and the    *)
(* shape of the stack, AtMostOneLate bounds what follows a cancellation,   *)
(* Covered says who still has to run a failing assertion again,            *)
(* ReplayJudged counts the verdicts of a replay, and RepeatsSpent and      *)
(* CallsCovered add up what the loops on the stack may still spend. A      *)
(* replay goes through the points its recording went through (Trail), and  *)
(* so does the script that is exported for it.                             *)
(***************************************************************************)
EXTENDS AgentProofs, CodeGen, WellFoundedInduction

(* An answer after the cancellation is the last one.                       *)
AtMostOneLate ==
  /\ late <= 1
  /\ (pc = "ask" => late = 0)
  /\ (late > 0 => cancelled)

(* With one round of healing at most, a CaseFailed on its way, or a healing *)
(* without another round, can only end in the failure of the case ...       *)
Doomed ==
  \/ pc \in {"raise", "failed", "crashed"}
  \/ pc = "heal" /\ Top.attempt >= policy.heal_attempts

(* ... and otherwise some open healing still has to run each assertion of a *)
(* marked step that does not hold.                                          *)
Pending ==
  \A a \in Assertion : (After[a] \in done /\ last[a] # "ok") =>
    \E i \in 1..Len(loops) : a \in loops[i].aims

ClosingAims ==
  (loops # <<>> /\ loops[1].kind = "closing") =>
    \A a \in Assertion \ loops[1].aims : After[a] \in done

Covered == (Doomed \/ Pending) /\ ClosingAims /\ AssertionsDecide

(* While a replay goes on, exactly the assertions of the steps marked so    *)
(* far have been run, once each, and held.                                  *)
ReplayJudged ==
  /\ (rpc \in {"play", "wrapup"} =>
        judged = [a \in Assertion |-> IF After[a] \in rdone THEN <<"ok">> ELSE <<>>])
  /\ ReplayJudgesEachOnce

-----------------------------------------------------------------------------
(* An answer arrives late only if the user cancelled while it was awaited:  *)
(* nothing asks again.                                                      *)
LEMMA LateKept ==
  ASSUME LoopTypeOK, AtMostOneLate, [LoopNext]_vars
  PROVE  AtMostOneLate'
<1> USE DEF LoopTypeOK, AtMostOneLate
<1>1. CASE Cancel
  BY <1>1 DEF Cancel
<1>2. CASE Ask
  BY <1>2 DEF Ask
<1>3. CASE Answer /\ pc' # "ask"
  <2>1. CASE cancelled
    BY <1>3, <2>1 DEF Answer
  <2>2. CASE ~cancelled
    BY <1>3, <2>2 DEF Answer
  <2> QED
    BY <2>1, <2>2
<1>4. CASE pc' # "ask" /\ UNCHANGED <<late, cancelled>>
  BY <1>4
<1>5. Turn => Answer /\ pc' # "ask"
  BY DEF Turn, Unknown, Finish, Fail, MarkAgain, MarkStep, Skip, Execute
<1>6. RunOut \/ SeeCancel \/ ReachGoal \/ BeginRound \/ GiveUp \/ Reassert
        \/ Unwind \/ WrapUp \/ Crash => pc' # "ask" /\ UNCHANGED <<late, cancelled>>
  BY DEF RunOut, SeeCancel, ReachGoal, BeginRound, GiveUp, Reassert, Unwind,
         WrapUp, Crash
<1>7. CASE UNCHANGED vars
  BY <1>7 DEF vars
<1> QED
  BY <1>1, <1>2, <1>3, <1>4, <1>5, <1>6, <1>7 DEF LoopNext, LoopStep

-----------------------------------------------------------------------------
(* Whoever failed is run again or fails the case.                           *)

(* Loops are replaced by loops of the same aims.                            *)
LEMMA AimsUpdated ==
  ASSUME LoopTypeOK, Stack, loops # <<>>, NEW l \in Loop, SetTop(l),
         l.kind = Top.kind, l.aims = Top.aims, UNCHANGED <<last, done>>
  PROVE  (Pending => Pending') /\ (ClosingAims => ClosingAims')
<1>1. /\ loops' # <<>> /\ Len(loops') = Len(loops)
      /\ \A i \in 1..Len(loops) : loops'[i] = IF i = Len(loops) THEN l ELSE loops[i]
  BY SetTopType DEF LoopTypeOK
<1>2. Len(loops) \in Nat \ {0} /\ Top = loops[Len(loops)]
  BY TopPlace
<1>3. \A i \in 1..Len(loops) : loops'[i].kind = loops[i].kind /\ loops'[i].aims = loops[i].aims
  BY <1>1, <1>2
<1>4. Pending => Pending'
  BY <1>1, <1>3 DEF Pending
<1>5. ClosingAims => ClosingAims'
  BY <1>1, <1>2, <1>3 DEF ClosingAims
<1> QED
  BY <1>4, <1>5

(* A healing whose assertions now hold is removed.                          *)
LEMMA AimsHealed ==
  ASSUME LoopTypeOK, Stack, loops # <<>>, loops' = Below, done' = done,
         \A a \in Assertion : last'[a] = "ok" \/ (a \notin Top.aims /\ last'[a] = last[a])
  PROVE  Pending => Pending'
<1>1. Len(Below) = Len(loops) - 1 /\ \A i \in 1..Len(Below) : Below[i] = loops[i]
  BY BelowType DEF LoopTypeOK
<1>2. Len(loops) \in Nat \ {0} /\ Top = loops[Len(loops)]
  BY TopPlace
<1> SUFFICES ASSUME Pending, NEW a \in Assertion, After[a] \in done, last'[a] # "ok"
             PROVE  \E i \in 1..Len(Below) : a \in Below[i].aims
  BY DEF Pending
<1>3. a \notin Top.aims /\ last[a] # "ok"
  OBVIOUS
<1>4. PICK i \in 1..Len(loops) : a \in loops[i].aims
  BY <1>3 DEF Pending
<1>5. i # Len(loops)
  BY <1>2, <1>3, <1>4
<1> QED
  BY <1>1, <1>2, <1>4, <1>5

(* Closing a loop leaves the aims of the closing healing as they are.       *)
LEMMA ClosingPopped ==
  ASSUME LoopTypeOK, Stack, ClosingAims, loops # <<>>, loops' = Below, done' = done
  PROVE  ClosingAims'
<1>1. /\ Below \in Seq(Loop) /\ Len(Below) = Len(loops) - 1
      /\ \A i \in 1..Len(Below) : Below[i] = loops[i]
  BY BelowType DEF LoopTypeOK
<1>2. Below # <<>> => Below[1] = loops[1]
  BY <1>1, EmptySeq
<1> QED
  BY <1>2 DEF ClosingAims

(* A failing marked step fails the case or opens a healing that aims at it. *)
LEMMA StepCovered ==
  ASSUME LoopTypeOK, Stack, Covered, policy.heal_attempts <= 1,
         NEW n \in 1..MaxMark, MarkStep(n)
  PROVE  Covered'
<1>1. Bound(n) \subseteq Assertion
  BY DEF Bound
<1>2. PICK v \in Verdicts(Bound(n), page) :
        /\ AssertPhase(Bound(n), v)
        /\ IF Failing(v) = {} THEN pc' = "look" /\ loops' = loops
           ELSE IF policy.heal_attempts = 0 THEN pc' = "raise" /\ loops' = loops
           ELSE /\ pc' = "heal"
                /\ loops' = Append(loops, NewLoop("mark", 0, 0, Bound(n)))
  BY DEF MarkStep
<1>3. /\ \A a \in Assertion : last'[a] = IF a \in Bound(n) THEN v[a] ELSE last[a]
      /\ (Failing(v) = {} => \A a \in Bound(n) : last'[a] = "ok")
  BY <1>1, <1>2, AssertPhaseType DEF LoopTypeOK
<1>4. pc = "ask" /\ loops # <<>> /\ done' = done \union {n}
  BY DEF MarkStep, Answer, Stack
<1>5. Pending
  BY <1>4 DEF Covered, Doomed
<1>6. \A a \in Assertion : After[a] \in done' => After[a] \in done \/ a \in Bound(n)
  BY <1>4 DEF Bound
<1>7. CASE Failing(v) = {}
  <2>1. Pending'
    BY <1>2, <1>3, <1>5, <1>6, <1>7 DEF Pending
  <2>2. ClosingAims'
    BY <1>2, <1>4, <1>7 DEF Covered, ClosingAims
  <2> QED
    BY <1>2, <1>7, <2>1, <2>2 DEF Covered, AssertionsDecide
<1>8. CASE Failing(v) # {} /\ policy.heal_attempts = 0
  BY <1>2, <1>4, <1>8 DEF Covered, Doomed, ClosingAims, AssertionsDecide
<1>9. CASE Failing(v) # {} /\ policy.heal_attempts # 0
  <2> DEFINE l == NewLoop("mark", 0, 0, Bound(n))
  <2>1. l \in Loop /\ l.aims = Bound(n)
    BY <1>1, NewLoopType DEF Kind
  <2>2. /\ Len(loops') = Len(loops) + 1
        /\ \A i \in 1..Len(loops) : loops'[i] = loops[i]
        /\ loops'[Len(loops) + 1] = l
    BY <1>2, <1>9, <2>1, PushType DEF LoopTypeOK
  <2>3. Len(loops) \in Nat \ {0}
    BY <1>4, TopPlace
  <2>4. Pending'
    <3> SUFFICES ASSUME NEW a \in Assertion, After[a] \in done', last'[a] # "ok"
                 PROVE  \E i \in 1..Len(loops') : a \in loops'[i].aims
      BY DEF Pending
    <3>1. CASE a \in Bound(n)
      BY <2>1, <2>2, <2>3, <3>1
    <3>2. CASE a \notin Bound(n)
      <4>1. PICK i \in 1..Len(loops) : a \in loops[i].aims
        BY <1>3, <1>5, <1>6, <3>2 DEF Pending
      <4> QED
        BY <2>2, <2>3, <4>1
    <3> QED
      BY <3>1, <3>2
  <2>5. ClosingAims'
    BY <1>4, <2>2, <2>3 DEF Covered, ClosingAims
  <2> QED
    BY <1>2, <1>9, <2>4, <2>5 DEF Covered, AssertionsDecide
<1> QED
  BY <1>7, <1>8, <1>9

(* A healing ends when its aims hold; otherwise there is no round left.     *)
LEMMA ReassertCovered ==
  ASSUME LoopTypeOK, Stack, Covered, policy.heal_attempts <= 1, Reassert
  PROVE  Covered'
<1>1. pc = "reassert" /\ loops # <<>> /\ Top.kind # "main" /\ done' = done /\ policy' = policy
  BY DEF Reassert, Stack, caseVars
<1>2. /\ Top \in Loop /\ Top.aims \subseteq Assertion /\ Top.attempt >= 1 /\ Top.attempt \in Nat
      /\ Len(loops) \in Nat \ {0} /\ Top = loops[Len(loops)]
      /\ (Top.kind = "mark" <=> Len(loops) > 1)
  BY <1>1, TopPlace, LoopFields
<1>3. Pending
  BY <1>1 DEF Covered, Doomed
<1>4. PICK v \in Verdicts(Top.aims, page) :
        /\ AssertPhase(Top.aims, v)
        /\ IF Failing(v) = {}
           THEN /\ heals' = heals + 1 /\ loops' = Below
                /\ pc' = IF Top.kind = "closing" THEN "passed" ELSE "look"
           ELSE pc' = "heal" /\ UNCHANGED <<heals, loops>>
  BY DEF Reassert
<1>5. /\ \A a \in Assertion : last'[a] = IF a \in Top.aims THEN v[a] ELSE last[a]
      /\ (Failing(v) = {} => \A a \in Top.aims : last'[a] = "ok")
  BY <1>2, <1>4, AssertPhaseType DEF LoopTypeOK
<1>6. CASE Failing(v) = {}
  <2>1. Pending'
    BY <1>1, <1>3, <1>4, <1>5, <1>6, AimsHealed
  <2>2. ClosingAims'
    BY <1>1, <1>4, <1>6, ClosingPopped DEF Covered
  <2>3. ASSUME Top.kind = "closing", NEW a \in Assertion PROVE last'[a] = "ok"
    <3>1. Len(loops) = 1 /\ loops[1] = Top
      BY <1>1, <2>3, Bottom
    <3>2. CASE a \in Top.aims
      BY <1>5, <1>6, <3>2
    <3>3. CASE a \notin Top.aims
      <4>1. After[a] \in done
        BY <1>1, <2>3, <3>1, <3>3 DEF Covered, ClosingAims
      <4>2. last[a] = "ok"
        BY <1>3, <3>1, <3>3, <4>1 DEF Pending
      <4> QED
        BY <1>5, <3>3, <4>2
    <3> QED
      BY <3>2, <3>3
  <2>4. AssertionsDecide'
    BY <1>4, <1>6, <2>3 DEF AssertionsDecide
  <2> QED
    BY <2>1, <2>2, <2>4 DEF Covered
<1>7. CASE Failing(v) # {}
  <2>1. policy.heal_attempts \in Nat
    BY LoopAssumption DEF LoopTypeOK
  <2>2. Doomed'
    BY <1>1, <1>2, <1>4, <1>7, <2>1 DEF Doomed, Top
  <2>3. ClosingAims'
    BY <1>1, <1>4, <1>7 DEF Covered, ClosingAims
  <2> QED
    BY <1>4, <1>7, <2>2, <2>3 DEF Covered, AssertionsDecide
<1> QED
  BY <1>6, <1>7

(* The closing assertions are all that is not covered by a marked step.     *)
LEMMA WrapUpCovered ==
  ASSUME LoopTypeOK, Stack, Covered, WrapUp
  PROVE  Covered'
<1>1. pc = "wrapup" /\ loops = <<>> /\ done' = done /\ Len(loops) = 0
  BY DEF WrapUp, Stack
<1>2. Closing(done) \subseteq Assertion
  BY DEF Closing
<1>3. PICK v \in Verdicts(Closing(done), page) :
        /\ AssertPhase(Closing(done), v)
        /\ IF Failing(v) = {} THEN pc' = "passed" /\ loops' = loops
           ELSE /\ pc' = "heal"
                /\ loops' = Append(loops, NewLoop("closing", 0, 0, Closing(done)))
  BY DEF WrapUp
<1>4. /\ \A a \in Assertion : last'[a] = IF a \in Closing(done) THEN v[a] ELSE last[a]
      /\ (Failing(v) = {} => \A a \in Closing(done) : last'[a] = "ok")
  BY <1>2, <1>3, AssertPhaseType DEF LoopTypeOK
<1>5. \A a \in Assertion \ Closing(done) : After[a] \in done /\ last[a] = "ok" /\ last'[a] = "ok"
  <2>1. Pending
    BY <1>1 DEF Covered, Doomed
  <2>2. \A a \in Assertion \ Closing(done) : After[a] \in done
    BY DEF Closing
  <2> QED
    BY <1>1, <1>4, <2>1, <2>2 DEF Pending
<1>6. CASE Failing(v) = {}
  <2>1. \A a \in Assertion : last'[a] = "ok"
    BY <1>4, <1>5, <1>6
  <2> QED
    BY <1>1, <1>3, <1>6, <2>1 DEF Covered, Pending, ClosingAims, AssertionsDecide
<1>7. CASE Failing(v) # {}
  <2> DEFINE l == NewLoop("closing", 0, 0, Closing(done))
  <2>1. l \in Loop /\ l.aims = Closing(done)
    BY <1>2, NewLoopType DEF Kind
  <2>2. Len(loops') = 1 /\ loops'[1] = l
    BY <1>1, <1>3, <1>7, <2>1, PushType DEF LoopTypeOK
  <2>3. Pending' /\ ClosingAims'
    BY <1>1, <1>5, <2>1, <2>2 DEF Pending, ClosingAims
  <2> QED
    BY <1>3, <1>7, <2>3 DEF Covered, AssertionsDecide
<1> QED
  BY <1>6, <1>7

(* With one round of healing at most, every action keeps Covered.           *)
LEMMA CoveredKept ==
  ASSUME LoopTypeOK, Stack, Covered, policy.heal_attempts <= 1, [LoopNext]_vars
  PROVE  Covered'
<1>a. policy.heal_attempts \in Nat
  BY LoopAssumption DEF LoopTypeOK
<1>1. CASE UNCHANGED vars \/ Cancel
  BY <1>1 DEF vars, caseVars, pageVars, Cancel, Covered, Doomed, Pending,
              ClosingAims, AssertionsDecide, Top
<1>2. CASE Crash \/ RunOut \/ SeeCancel
  BY <1>2 DEF Crash, RunOut, SeeCancel, caseVars, pageVars, Covered, Doomed,
              ClosingAims, AssertionsDecide
<1>3. CASE ReachGoal \/ (Finish /\ Top.kind = "main")
  <2>1. pc \in {"look", "ask"} /\ Top.kind = "main" /\ loops # <<>>
    BY <1>3 DEF ReachGoal, Finish, Answer, Stack
  <2>2. Len(loops) = 1 /\ loops[1].aims = {}
    BY <2>1, TopPlace, Bottom
  <2>3. \A a \in Assertion : After[a] \in done => last[a] = "ok"
    BY <2>1, <2>2 DEF Covered, Doomed, Pending
  <2>4. loops' = <<>> /\ pc' = "wrapup" /\ last' = last /\ done' = done
    BY <1>3 DEF ReachGoal, Finish, pageVars
  <2> QED
    BY <2>3, <2>4 DEF Covered, Pending, ClosingAims, AssertionsDecide
<1>4. CASE Ask
  <2> DEFINE l == [Top EXCEPT !.left = @ - 1]
  <2>1. loops # <<>> /\ Top \in Loop /\ Pending /\ SetTop(l) /\ UNCHANGED <<last, done>>
    BY <1>4, TopPlace DEF Ask, Stack, Covered, Doomed, pageVars
  <2>2. l \in Loop /\ l.kind = Top.kind /\ l.aims = Top.aims
    BY <1>4, <2>1, LoopUpdates DEF Ask, Loop
  <2>3. Pending' /\ ClosingAims'
    BY <2>1, <2>2, AimsUpdated DEF Covered
  <2> QED
    BY <1>4, <2>3 DEF Ask, Covered, AssertionsDecide
<1>5. CASE Unknown \/ (\E n \in 1..MaxMark : MarkAgain(n)) \/ (Finish /\ Top.kind # "main")
  BY <1>5 DEF Unknown, MarkAgain, Finish, Answer, caseVars, pageVars, Covered,
              Doomed, Pending, ClosingAims, AssertionsDecide
<1>6. CASE Fail
  BY <1>6 DEF Fail, Answer, pageVars, Covered, Doomed, ClosingAims, AssertionsDecide
<1>7. ASSUME NEW n \in 1..MaxMark, MarkStep(n) PROVE Covered'
  BY <1>7, StepCovered
<1>8. ASSUME NEW a \in Action, Skip(a) PROVE Covered'
  <2> DEFINE l == [Top EXCEPT !.skips[a] = @ + 1]
  <2>1. loops # <<>> /\ Top \in Loop /\ Pending /\ SetTop(l) /\ UNCHANGED <<last, done>>
    BY <1>8, TopPlace DEF Skip, Answer, Stack, Covered, Doomed, pageVars
  <2>2. l \in Loop /\ l.kind = Top.kind /\ l.aims = Top.aims
    BY <2>1, LoopUpdates DEF Loop
  <2>3. Pending' /\ ClosingAims' /\ pc' # "passed"
    BY <1>8, <2>1, <2>2, AimsUpdated DEF Covered, Skip
  <2> QED
    BY <2>3 DEF Covered, AssertionsDecide
<1>9. ASSUME NEW a \in Action, Execute(a) PROVE Covered'
  <2> DEFINE l == IF a \in Exempt THEN Top ELSE [Top EXCEPT !.seen[a] = @ + 1]
  <2>1. loops # <<>> /\ Top \in Loop /\ Pending /\ SetTop(l) /\ UNCHANGED <<last, done>>
    BY <1>9, TopPlace DEF Execute, Answer, Stack, Covered, Doomed
  <2>2. l \in Loop /\ l.kind = Top.kind /\ l.aims = Top.aims
    BY <2>1, LoopUpdates DEF Loop
  <2>3. Pending' /\ ClosingAims' /\ pc' # "passed"
    BY <1>9, <2>1, <2>2, AimsUpdated DEF Covered, Execute
  <2> QED
    BY <2>3 DEF Covered, AssertionsDecide
<1>10. CASE BeginRound
  <2> DEFINE l == NewLoop(Top.kind, Top.attempt + 1, HealBudget, Top.aims)
  <2>1. loops # <<>> /\ Top \in Loop /\ SetTop(l) /\ UNCHANGED <<last, done>>
    BY <1>10, TopPlace DEF BeginRound, Stack, pageVars
  <2>2. Top.attempt \in Nat
    BY <2>1, LoopFields
  <2>3. Pending
    BY <1>a, <1>10, <2>2 DEF BeginRound, Covered, Doomed
  <2>4. l \in Loop /\ l.kind = Top.kind /\ l.aims = Top.aims
    BY <2>1, <2>2, LoopFields, NewLoopType, LoopAssumption
  <2>5. Pending' /\ ClosingAims'
    BY <2>1, <2>3, <2>4, AimsUpdated DEF Covered
  <2> QED
    BY <1>10, <2>5 DEF BeginRound, Covered, AssertionsDecide
<1>11. CASE GiveUp
  <2>1. loops # <<>> /\ loops' = Below /\ done' = done /\ pc' \in {"failed", "raise"}
    BY <1>11 DEF GiveUp, Stack
  <2> QED
    BY <2>1, ClosingPopped DEF Covered, Doomed, AssertionsDecide
<1>12. CASE Reassert
  BY <1>12, ReassertCovered
<1>13. CASE Unwind
  <2>1. pc = "raise" /\ loops # <<>> /\ loops' = loops /\ policy' = policy /\ done' = done
    BY <1>13 DEF Unwind, Stack, caseVars
  <2>2. CASE Top.kind = "main"
    BY <1>13, <2>1, <2>2 DEF Unwind, Covered, Doomed, ClosingAims, AssertionsDecide
  <2>3. CASE Top.kind # "main"
    <3>1. Top.attempt >= 1 /\ Top.attempt \in Nat
      BY <2>1, <2>3, TopPlace, LoopFields
    <3>2. Doomed'
      BY <1>a, <1>13, <2>1, <2>3, <3>1 DEF Unwind, Doomed, Top
    <3> QED
      BY <1>13, <2>1, <2>3, <3>2 DEF Unwind, Covered, ClosingAims, AssertionsDecide
  <2> QED
    BY <2>2, <2>3
<1>14. CASE WrapUp
  BY <1>14, WrapUpCovered
<1> QED
  BY <1>1, <1>2, <1>3, <1>4, <1>5, <1>6, <1>7, <1>8, <1>9, <1>10, <1>11, <1>12,
     <1>13, <1>14 DEF LoopNext, LoopStep, Turn

-----------------------------------------------------------------------------
(* The replay, and the two modes together.                                  *)

(* Starting a replay and every step of it leave the agentic run alone.      *)
LEMMA ModesApart == [Next]_allVars => [LoopNext]_vars
BY DEF Next, allVars, Explore, Disturb, StartReplay, PlayCured, PlayHandmade, Play,
       ReplayStep, ReplayStop, ReplayCrash, ReplayGoal, ReplaySkip, ReplayBadMark, ReplayMark,
       ReplayAct, ReplayEnd, ReplayWrapUp, LoopNext

(* A navigation put in front leaves a list of entries.                      *)
LEMMA ScriptType ==
  ASSUME NEW s \in Seq(Entry \union {Odd}), NEW t \in Navigations \union {NoTarget}
  PROVE  WithNavigation(s, t) \in Seq(Entry \union {Odd})
<1>1. CASE t = NoTarget
  BY <1>1 DEF WithNavigation
<1>2. CASE t \in Navigations
  <2>1. Act(t) \in Entry
    BY <1>2, CaseAssumption DEF Entry, Act
  <2>2. <<Act(t)>> \in Seq(Entry \union {Odd})
    BY <2>1
  <2>3. <<Act(t)>> \o s \in Seq(Entry \union {Odd})
    BY <2>2, ConcatProperties
  <2> QED
    BY <2>3 DEF WithNavigation
<1> QED
  BY <1>1, <1>2

(* The replay keeps its types: what it marks are numbers from 1 on, and it  *)
(* never reads beyond its list.                                             *)
LEMMA ReplayTypesKept ==
  ASSUME ReplayTypeOK, LoopTypeOK', [Next]_allVars
  PROVE  ReplayTypeOK'
<1> USE DEF ReplayTypeOK, ReplayFinal
<1>0. Playing => pos + 1 \in 1 .. Len(script) + 1 /\ entry \in Entry \union {Odd}
  <2> SUFFICES ASSUME Playing PROVE pos + 1 \in 1 .. Len(script) + 1 /\ entry \in Entry \union {Odd}
    OBVIOUS
  <2>1. Len(script) \in Nat /\ pos \in 1 .. Len(script)
    BY DEF Playing
  <2>2. entry \in Entry \union {Odd}
    BY <2>1, ElementOfSeq DEF entry
  <2> QED
    BY <2>1, <2>2
<1>1. ASSUME NEW S \in SUBSET Assertion, NEW v \in Verdicts(S, rpage), Judge(S, v)
      PROVE  judged' \in [Assertion -> Seq(Verdict)] /\ rsteps' \in Nat
  <2>1. v \in [S -> Verdict]
    BY VerdictsType
  <2>2. \A a \in Assertion : (IF a \in S THEN Append(judged[a], v[a]) ELSE judged[a]) \in Seq(Verdict)
    BY <2>1, AppendProperties
  <2>3. rsteps' \in Nat
    BY <1>1, PartsCount DEF Judge
  <2> QED
    BY <1>1, <2>2, <2>3 DEF Judge
<1>2. ASSUME NEW s \in Seq(Entry \union {Odd}), NEW recorded \in BOOLEAN, Play(s, recorded)
      PROVE  ReplayTypeOK'
  <2>1. target' \in Navigations \union {NoTarget} /\ script' = WithNavigation(s, target')
    BY <1>2 DEF Play
  <2>2. script' \in Seq(Entry \union {Odd})
    BY <2>1, ScriptType
  <2>3. Len(script') \in Nat
    BY <2>2
  <2>4. judged' \in [Assertion -> Seq(Verdict)]
    BY <1>2 DEF Play
  <2> QED
    BY <1>2, <2>2, <2>3, <2>4, CaseAssumption DEF Play
<1>3. CASE PlayCured
  <2>1. actions \in Seq(Entry \union {Odd})
    BY DEF LoopTypeOK
  <2> QED
    BY <1>2, <1>3, <2>1 DEF PlayCured
<1>4. ASSUME NEW s \in Handmade, PlayHandmade(s) PROVE ReplayTypeOK'
  BY <1>2, <1>4, ReplayAssumption DEF PlayHandmade
<1>5. CASE UNCHANGED replayVars
  BY <1>5 DEF replayVars
<1>6. CASE ReplayStop \/ ReplayCrash
  BY <1>6 DEF ReplayStop, ReplayCrash
<1>7. CASE ReplayGoal
  BY <1>7, PartsCount DEF ReplayGoal
<1>8. CASE ReplaySkip \/ ReplayBadMark
  BY <1>0, <1>8 DEF ReplaySkip, ReplayBadMark, Proceed
<1>9. CASE ReplayMark
  <2>1. Playing /\ pos' = pos + 1 /\ entry[1] = "mark" /\ entry[2] >= 1
    BY <1>9 DEF ReplayMark, Proceed
  <2>2. entry[2] \in Nat \ {0}
    BY <1>0, <2>1 DEF Entry, Odd
  <2>3. Bound(entry[2]) \subseteq Assertion
    BY DEF Bound
  <2>4. PICK v \in Verdicts(Bound(entry[2]), rpage) :
          /\ Judge(Bound(entry[2]), v)
          /\ rpc' = IF Failing(v) = {} THEN "play" ELSE "failed"
    BY <1>9 DEF ReplayMark
  <2>5. judged' \in [Assertion -> Seq(Verdict)] /\ rsteps' \in Nat
    BY <1>1, <2>3, <2>4
  <2>6. /\ rpc' \in {"play", "failed"} /\ rdone' = rdone \union {entry[2]}
        /\ UNCHANGED <<target, script, cured, rpage>>
    BY <1>9, <2>4 DEF ReplayMark
  <2> QED
    BY <1>0, <2>1, <2>2, <2>5, <2>6
<1>10. CASE ReplayAct
  <2>1. Playing /\ pos' = pos + 1 /\ entry[1] = "act" /\ rsteps' = rsteps + 1
        /\ UNCHANGED <<target, script, cured, rdone, judged>>
    BY <1>10 DEF ReplayAct, Proceed
  <2>2. Meant(entry[2]) \in Action
    BY <1>0, <2>1, CaseAssumption DEF Entry, Odd, Meant
  <2>3. PICK to \in Landings(Meant(entry[2]), rpage) :
          IF to = Broken THEN rpc' = "failed" /\ rpage' = rpage
                         ELSE rpc' = "play" /\ rpage' = to
    BY <1>10 DEF ReplayAct
  <2>4. rpage' \in Page /\ rpc' \in {"play", "failed"}
    BY <2>2, <2>3, LandingsType DEF LoopTypeOK
  <2> QED
    BY <1>0, <2>1, <2>4
<1>11. CASE ReplayEnd
  BY <1>11 DEF ReplayEnd
<1>12. CASE ReplayWrapUp
  <2>1. PICK v \in Verdicts(Closing(rdone), rpage) :
          /\ Judge(Closing(rdone), v)
          /\ rpc' = IF Failing(v) = {} THEN "passed" ELSE "failed"
    BY <1>12 DEF ReplayWrapUp
  <2>2. Closing(rdone) \subseteq Assertion
    BY DEF Closing
  <2>3. judged' \in [Assertion -> Seq(Verdict)] /\ rsteps' \in Nat
    BY <1>1, <2>1, <2>2
  <2> QED
    BY <1>12, <2>1, <2>3 DEF ReplayWrapUp
<1>13. CASE UNCHANGED allVars
  BY <1>5, <1>13 DEF allVars
<1> QED
  BY <1>3, <1>4, <1>5, <1>6, <1>7, <1>8, <1>9, <1>10, <1>11, <1>12, <1>13
     DEF Next, Explore, Disturb, StartReplay, ReplayStep

(* A marked step is judged once, and the wrap-up judges exactly the rest.   *)
LEMMA JudgedKept ==
  ASSUME ReplayTypeOK, ReplayJudged, [Next]_allVars
  PROVE  ReplayJudged'
<1> USE DEF ReplayTypeOK, ReplayFinal
<1>1. ASSUME NEW S \in SUBSET Assertion, NEW v \in Verdicts(S, rpage), Judge(S, v),
             Failing(v) = {}, rpc \in {"play", "wrapup"}, ReplayJudged,
             \A a \in S : After[a] \notin rdone
      PROVE  judged' = [a \in Assertion |->
               IF a \in S \/ After[a] \in rdone THEN <<"ok">> ELSE <<>>]
  <2>1. v \in [S -> Verdict]
    BY VerdictsType
  <2>2. \A a \in S : v[a] = "ok"
    BY <1>1, <2>1 DEF Failing
  <2>3. \A a \in Assertion : judged[a] = IF After[a] \in rdone THEN <<"ok">> ELSE <<>>
    BY <1>1 DEF ReplayJudged
  <2>4. \A a \in Assertion :
          (IF a \in S THEN Append(judged[a], v[a]) ELSE judged[a])
            = IF a \in S \/ After[a] \in rdone THEN <<"ok">> ELSE <<>>
    <3> TAKE a \in Assertion
    <3>1. CASE a \in S
      <4>1. judged[a] = <<>> /\ v[a] = "ok"
        BY <1>1, <2>2, <2>3, <3>1
      <4>2. Append(judged[a], v[a]) = <<"ok">>
        BY <4>1
      <4> QED
        BY <3>1, <4>2
    <3>2. CASE a \notin S
      BY <2>3, <3>2
    <3> QED
      BY <3>1, <3>2
  <2> QED
    BY <1>1, <2>4 DEF Judge
<1>2. ASSUME NEW s, NEW recorded, Play(s, recorded) PROVE ReplayJudged'
  BY <1>2 DEF Play, ReplayJudged, ReplayJudgesEachOnce
<1>3. CASE StartReplay
  BY <1>2, <1>3 DEF StartReplay, PlayCured, PlayHandmade
<1>4. CASE UNCHANGED replayVars
  BY <1>4 DEF replayVars, ReplayJudged, ReplayJudgesEachOnce
<1>5. CASE ReplayStop \/ ReplayCrash \/ ReplayGoal \/ ReplaySkip \/ ReplayBadMark \/ ReplayAct \/ ReplayEnd
  <2>1. rpc \in {"play", "wrapup"} /\ rpc' # "passed" /\ UNCHANGED <<rdone, judged>>
    BY <1>5 DEF ReplayStop, ReplayCrash, ReplayGoal, ReplaySkip, ReplayBadMark, ReplayAct, ReplayEnd,
                Proceed, Playing
  <2> QED
    BY <2>1 DEF ReplayJudged, ReplayJudgesEachOnce
<1>6. CASE ReplayMark
  <2> DEFINE n == entry[2]
  <2>1. PICK v \in Verdicts(Bound(n), rpage) :
          /\ Judge(Bound(n), v)
          /\ rpc' = IF Failing(v) = {} THEN "play" ELSE "failed"
    BY <1>6 DEF ReplayMark
  <2>2. rpc = "play" /\ n \notin rdone /\ rdone' = rdone \union {n}
    BY <1>6 DEF ReplayMark, Proceed, Playing
  <2>3. CASE Failing(v) = {}
    <3>1. Bound(n) \subseteq Assertion /\ \A a \in Bound(n) : After[a] \notin rdone
      BY <2>2 DEF Bound
    <3>2. judged' = [a \in Assertion |->
                       IF a \in Bound(n) \/ After[a] \in rdone THEN <<"ok">> ELSE <<>>]
      BY <1>1, <2>1, <2>2, <2>3, <3>1
    <3>3. \A a \in Assertion : (a \in Bound(n) \/ After[a] \in rdone) <=> After[a] \in rdone'
      BY <2>2 DEF Bound
    <3> QED
      BY <2>1, <2>3, <3>2, <3>3 DEF ReplayJudged, ReplayJudgesEachOnce
  <2>4. CASE Failing(v) # {}
    BY <2>1, <2>4 DEF ReplayJudged, ReplayJudgesEachOnce
  <2> QED
    BY <2>3, <2>4
<1>7. CASE ReplayWrapUp
  <2>1. PICK v \in Verdicts(Closing(rdone), rpage) :
          /\ Judge(Closing(rdone), v)
          /\ rpc' = IF Failing(v) = {} THEN "passed" ELSE "failed"
    BY <1>7 DEF ReplayWrapUp
  <2>2. CASE Failing(v) = {}
    <3>1. Closing(rdone) \subseteq Assertion /\ \A a \in Closing(rdone) : After[a] \notin rdone
      BY DEF Closing
    <3>2. judged' = [a \in Assertion |->
             IF a \in Closing(rdone) \/ After[a] \in rdone THEN <<"ok">> ELSE <<>>]
      BY <1>1, <1>7, <2>1, <2>2, <3>1 DEF ReplayWrapUp
    <3>3. \A a \in Assertion : a \in Closing(rdone) \/ After[a] \in rdone
      BY DEF Closing
    <3> QED
      BY <2>1, <2>2, <3>2, <3>3 DEF ReplayJudged, ReplayJudgesEachOnce
  <2>3. CASE Failing(v) # {}
    BY <2>1, <2>3 DEF ReplayJudged, ReplayJudgesEachOnce
  <2> QED
    BY <2>2, <2>3
<1>8. CASE UNCHANGED allVars
  BY <1>4, <1>8 DEF allVars
<1> QED
  BY <1>3, <1>4, <1>5, <1>6, <1>7, <1>8 DEF Next, Explore, Disturb, ReplayStep

-----------------------------------------------------------------------------
(* The theorems.                                                            *)

(* The types and the shape of the nested calls hold in every state.         *)
THEOREM AgentTypes == Spec => [](ReplayTypeOK /\ Stack)
<1>1. Init => ReplayTypeOK /\ Stack
  <2> SUFFICES ASSUME Init PROVE ReplayTypeOK /\ Stack
    OBVIOUS
  <2>1. LoopTypeOK /\ Stack
    BY LoopTypesStart, StackStart DEF Init
  <2>2. script \in Seq(Entry \union {Odd}) /\ pos \in 1 .. Len(script) + 1
        /\ judged \in [Assertion -> Seq(Verdict)]
    BY DEF Init, ReplayInit
  <2> QED
    BY <2>1, <2>2, CaseAssumption DEF Init, ReplayInit, ReplayTypeOK
<1>2. ReplayTypeOK /\ Stack /\ [Next]_allVars => (ReplayTypeOK /\ Stack)'
  BY ModesApart, LoopTypesKept, StackKept, ReplayTypesKept DEF ReplayTypeOK
<1> QED
  BY <1>1, <1>2, PTL DEF Spec

(* However deep healing nests, one answer at most follows a cancellation.   *)
THEOREM CancellationHeeded == Spec => []CancelHeeded
<1>1. Init => AtMostOneLate
  BY DEF Init, LoopInit, AtMostOneLate
<1>2. ReplayTypeOK /\ AtMostOneLate /\ [Next]_allVars => AtMostOneLate'
  BY ModesApart, LateKept DEF ReplayTypeOK
<1>3. AtMostOneLate => CancelHeeded
  BY DEF AtMostOneLate, CancelHeeded
<1> QED
  BY <1>1, <1>2, <1>3, AgentTypes, PTL DEF Spec

(* When no policy asks for more than one round of healing, a case passes    *)
(* only if each of its assertions held the last time it was run.            *)
THEOREM OneRoundDecides ==
  ASSUME \A p \in Policies : p.heal_attempts <= 1
  PROVE  Spec => []AssertionsDecide
<1>1. Init => Covered
  <2> SUFFICES ASSUME Init PROVE Covered
    OBVIOUS
  <2>1. done = {} /\ pc = "look"
    BY DEF Init, LoopInit
  <2>2. loops # <<>> => loops[1].kind # "closing"
    BY DEF Init, LoopInit, NewLoop
  <2> QED
    BY <2>1, <2>2 DEF Covered, Pending, ClosingAims, AssertionsDecide
<1>2. ReplayTypeOK /\ Stack /\ Covered /\ [Next]_allVars => Covered'
  <2> SUFFICES ASSUME ReplayTypeOK, Stack, Covered, [Next]_allVars PROVE Covered'
    OBVIOUS
  <2>1. LoopTypeOK /\ policy.heal_attempts <= 1
    BY DEF ReplayTypeOK, LoopTypeOK
  <2> QED
    BY <2>1, ModesApart, CoveredKept
<1>3. Covered => AssertionsDecide
  BY DEF Covered
<1> QED
  BY <1>1, <1>2, <1>3, AgentTypes, PTL DEF Spec

(* A replay passes only when each assertion was run once, and held.         *)
THEOREM ReplayJudges == Spec => []ReplayJudgesEachOnce
<1>1. Init => ReplayJudged
  BY DEF Init, ReplayInit, ReplayJudged, ReplayJudgesEachOnce
<1>2. ReplayTypeOK /\ ReplayJudged /\ [Next]_allVars => ReplayJudged'
  BY JudgedKept
<1>3. ReplayJudged => ReplayJudgesEachOnce
  BY DEF ReplayJudged
<1> QED
  BY <1>1, <1>2, <1>3, AgentTypes, PTL DEF Spec
-----------------------------------------------------------------------------
(* What is bounded although loops nest. Each open loop is worth a number of *)
(* calls or executions it may still cost; the worth of the stack is their   *)
(* sum, given by the partial sums from the bottom up.                       *)
Worth(s, g, b) ==
  \E S \in [0..Len(s) -> Nat] :
    /\ S[0] = 0 /\ S[Len(s)] = b
    /\ \A i \in 1..Len(s) : S[i] = S[i - 1] + g[s[i]]

(* Without loops there is nothing left to spend.                            *)
LEMMA WorthOfNone ==
  ASSUME NEW g
  PROVE  Worth(<<>>, g, 0) /\ \A b : Worth(<<>>, g, b) => b = 0
<1>1. Len(<<>>) = 0
  OBVIOUS
<1>2. Worth(<<>>, g, 0)
  <2> DEFINE S == [i \in 0..Len(<<>>) |-> 0]
  <2>1. S \in [0..Len(<<>>) -> Nat] /\ S[0] = 0 /\ S[Len(<<>>)] = 0
    BY <1>1
  <2>2. \A i \in 1..Len(<<>>) : S[i] = S[i - 1] + g[<<>>[i]]
    BY <1>1
  <2> HIDE DEF S
  <2> QED
    BY <2>1, <2>2 DEF Worth
<1>3. \A b : Worth(<<>>, g, b) => b = 0
  BY <1>1 DEF Worth
<1> QED
  BY <1>2, <1>3

(* A loop that is opened adds its worth.                                    *)
LEMMA WorthPushed ==
  ASSUME NEW s \in Seq(Loop), NEW l \in Loop, NEW g \in [Loop -> Nat], NEW b,
         Worth(s, g, b)
  PROVE  Worth(Append(s, l), g, b + g[l])
<1> DEFINE r == Append(s, l)
<1>1. /\ Len(s) \in Nat /\ Len(r) = Len(s) + 1
      /\ \A i \in 1..Len(s) : r[i] = s[i]
      /\ r[Len(s) + 1] = l
  BY PushType, LenProperties
<1> HIDE DEF r
<1>2. PICK S \in [0..Len(s) -> Nat] :
        /\ S[0] = 0 /\ S[Len(s)] = b
        /\ \A i \in 1..Len(s) : S[i] = S[i - 1] + g[s[i]]
  BY DEF Worth
<1> DEFINE T == [i \in 0..Len(r) |-> IF i <= Len(s) THEN S[i] ELSE b + g[l]]
<1>a. g[l] \in Nat
  OBVIOUS
<1>b. Len(s) \in 0..Len(s)
  BY <1>1
<1>3. g[l] \in Nat /\ b \in Nat
  BY <1>2, <1>a, <1>b
<1>4. T \in [0..Len(r) -> Nat] /\ T[0] = 0 /\ T[Len(r)] = b + g[l]
  BY <1>1, <1>2, <1>3
<1>5. ASSUME NEW i \in 1..Len(r) PROVE T[i] = T[i - 1] + g[r[i]]
  <2>1. CASE i <= Len(s)
    <3>1. i \in 1..Len(s) /\ T[i] = S[i] /\ T[i - 1] = S[i - 1]
      BY <1>1, <2>1
    <3> QED
      BY <1>1, <1>2, <3>1
  <2>2. CASE i = Len(s) + 1
    <3>1. T[i] = b + g[l] /\ T[i - 1] = S[Len(s)]
      BY <1>1, <2>2
    <3> QED
      BY <1>1, <1>2, <2>2, <3>1
  <2> QED
    BY <1>1, <2>1, <2>2
<1> HIDE DEF T
<1>6. Worth(r, g, b + g[l])
  BY <1>4, <1>5 DEF Worth
<1> QED
  BY <1>6 DEF r

(* A loop that is closed takes what is left of its worth with it.           *)
LEMMA WorthPopped ==
  ASSUME NEW s \in Seq(Loop), s # <<>>, NEW g \in [Loop -> Nat], NEW b, Worth(s, g, b)
  PROVE  /\ b - g[s[Len(s)]] \in Nat /\ b \in Nat /\ g[s[Len(s)]] \in Nat
         /\ \A r \in Seq(Loop) :
              (Len(r) = Len(s) - 1 /\ \A i \in 1..Len(r) : r[i] = s[i])
                => Worth(r, g, b - g[s[Len(s)]])
<1>1. Len(s) \in Nat \ {0}
  BY LenProperties, EmptySeq
<1>2. PICK S \in [0..Len(s) -> Nat] :
        /\ S[0] = 0 /\ S[Len(s)] = b
        /\ \A i \in 1..Len(s) : S[i] = S[i - 1] + g[s[i]]
  BY DEF Worth
<1>3. s[Len(s)] \in Loop /\ g[s[Len(s)]] \in Nat
  BY <1>1, ElementOfSeq
<1>a. Len(s) \in 1..Len(s) /\ Len(s) - 1 \in 0..Len(s)
  BY <1>1
<1>4. S[Len(s)] = S[Len(s) - 1] + g[s[Len(s)]] /\ S[Len(s) - 1] \in Nat
  BY <1>2, <1>a
<1>5. b - g[s[Len(s)]] = S[Len(s) - 1] /\ b \in Nat
  BY <1>2, <1>3, <1>4
<1>6. ASSUME NEW r \in Seq(Loop), Len(r) = Len(s) - 1, \A i \in 1..Len(r) : r[i] = s[i]
      PROVE  Worth(r, g, b - g[s[Len(s)]])
  <2> DEFINE T == [i \in 0..Len(r) |-> S[i]]
  <2>1. T \in [0..Len(r) -> Nat] /\ T[0] = 0 /\ T[Len(r)] = b - g[s[Len(s)]]
    BY <1>1, <1>2, <1>5, <1>6
  <2>2. ASSUME NEW i \in 1..Len(r) PROVE T[i] = T[i - 1] + g[r[i]]
    <3>1. i \in 1..Len(s) /\ T[i] = S[i] /\ T[i - 1] = S[i - 1]
      BY <1>1, <1>6
    <3> QED
      BY <1>2, <1>6, <3>1
  <2> HIDE DEF T
  <2> QED
    BY <2>1, <2>2 DEF Worth
<1> QED
  BY <1>3, <1>4, <1>5, <1>6

(* A loop that is replaced by one worth as much or less, or more.           *)
LEMMA WorthReplaced ==
  ASSUME NEW s \in Seq(Loop), s # <<>>, NEW g \in [Loop -> Nat], NEW b, Worth(s, g, b),
         NEW r \in Seq(Loop), NEW l \in Loop, Len(r) = Len(s),
         \A i \in 1..Len(s) : r[i] = IF i = Len(s) THEN l ELSE s[i]
  PROVE  Worth(r, g, b - g[s[Len(s)]] + g[l])
<1>1. Len(s) \in Nat \ {0}
  BY LenProperties, EmptySeq
<1>2. PICK S \in [0..Len(s) -> Nat] :
        /\ S[0] = 0 /\ S[Len(s)] = b
        /\ \A i \in 1..Len(s) : S[i] = S[i - 1] + g[s[i]]
  BY DEF Worth
<1>3. s[Len(s)] \in Loop /\ g[s[Len(s)]] \in Nat /\ g[l] \in Nat
  BY <1>1, ElementOfSeq
<1>a. Len(s) \in 1..Len(s) /\ Len(s) - 1 \in 0..Len(s)
  BY <1>1
<1>4. S[Len(s)] = S[Len(s) - 1] + g[s[Len(s)]] /\ S[Len(s) - 1] \in Nat
  BY <1>2, <1>a
<1> DEFINE T == [i \in 0..Len(r) |-> IF i < Len(s) THEN S[i] ELSE b - g[s[Len(s)]] + g[l]]
<1>5. b - g[s[Len(s)]] = S[Len(s) - 1]
  BY <1>2, <1>3, <1>4
<1>6. T \in [0..Len(r) -> Nat] /\ T[0] = 0 /\ T[Len(r)] = b - g[s[Len(s)]] + g[l]
  BY <1>1, <1>2, <1>3, <1>4, <1>5
<1>7. ASSUME NEW i \in 1..Len(r) PROVE T[i] = T[i - 1] + g[r[i]]
  <2>1. CASE i < Len(s)
    <3>1. i \in 1..Len(s) /\ T[i] = S[i] /\ T[i - 1] = S[i - 1] /\ r[i] = s[i]
      BY <1>1, <2>1
    <3> QED
      BY <1>2, <3>1
  <2>2. CASE i = Len(s)
    <3>1. T[i] = b - g[s[Len(s)]] + g[l] /\ T[i - 1] = S[Len(s) - 1] /\ r[i] = l
      BY <1>1, <2>2
    <3> QED
      BY <1>5, <3>1
  <2> QED
    BY <1>1, <2>1, <2>2
<1> HIDE DEF T
<1> QED
  BY <1>6, <1>7 DEF Worth

(* The same of the stack: its innermost loop is replaced ...                *)
LEMMA WorthSet ==
  ASSUME LoopTypeOK, loops # <<>>, NEW l \in Loop, SetTop(l),
         NEW g \in [Loop -> Nat], NEW b, Worth(loops, g, b)
  PROVE  /\ b \in Nat /\ g[Top] \in Nat /\ b - g[Top] \in Nat
         /\ Worth(loops', g, b - g[Top] + g[l])
<1>1. /\ loops \in Seq(Loop) /\ loops' \in Seq(Loop) /\ Len(loops') = Len(loops)
      /\ \A i \in 1..Len(loops) : loops'[i] = IF i = Len(loops) THEN l ELSE loops[i]
  BY SetTopType DEF LoopTypeOK
<1>2. Top = loops[Len(loops)]
  BY DEF Top
<1>3. b \in Nat /\ g[Top] \in Nat /\ b - g[Top] \in Nat
  BY <1>1, <1>2, WorthPopped
<1>4. Worth(loops', g, b - g[Top] + g[l])
  BY <1>1, <1>2, WorthReplaced
<1> QED
  BY <1>3, <1>4

(* ... or closed.                                                           *)
LEMMA WorthBelow ==
  ASSUME LoopTypeOK, loops # <<>>, loops' = Below,
         NEW g \in [Loop -> Nat], NEW b, Worth(loops, g, b)
  PROVE  /\ b \in Nat /\ g[Top] \in Nat /\ b - g[Top] \in Nat
         /\ Worth(loops', g, b - g[Top])
<1>1. /\ loops \in Seq(Loop) /\ loops' \in Seq(Loop) /\ Len(loops') = Len(loops) - 1
      /\ \A i \in 1..Len(loops') : loops'[i] = loops[i]
  BY BelowType DEF LoopTypeOK
<1>2. Top = loops[Len(loops)]
  BY DEF Top
<1> QED
  BY <1>1, <1>2, WorthPopped

-----------------------------------------------------------------------------
(* How often an action is still executed in a loop that has begun.          *)
Room(a) ==
  [l \in Loop |-> IF (l.kind = "main" \/ l.attempt > 0) /\ l.seen[a] < MaxNoopRepeats
                  THEN MaxNoopRepeats - l.seen[a] ELSE 0]
RepeatsSpent ==
  \A a \in Action \ Exempt : \E b \in Nat :
    Worth(loops, Room(a), b) /\ ran[a] + b <= MaxNoopRepeats * (1 + rounds)

(* The room of the loops that the actions make.                             *)
LEMMA RoomOf ==
  ASSUME NEW a \in Action, NEW l \in Loop
  PROVE  /\ Room(a) \in [Loop -> Nat] /\ Room(a)[l] \in Nat
         /\ [l EXCEPT !.left = @ - 1] \in Loop =>
              Room(a)[[l EXCEPT !.left = @ - 1]] = Room(a)[l]
         /\ \A x \in Action : Room(a)[[l EXCEPT !.skips[x] = @ + 1]] = Room(a)[l]
         /\ \A x \in Action \ {a} : Room(a)[[l EXCEPT !.seen[x] = @ + 1]] = Room(a)[l]
         /\ ((l.kind = "main" \/ l.attempt > 0) /\ l.seen[a] < MaxNoopRepeats) =>
              Room(a)[[l EXCEPT !.seen[a] = @ + 1]] + 1 = Room(a)[l]
<1> DEFINE begun(k) == k.kind = "main" \/ k.attempt > 0
<1>a. MaxNoopRepeats \in Nat
  BY LoopAssumption
<1>b. \A k \in Loop : k.seen[a] \in Nat /\ k.seen \in [Action -> Nat]
  BY DEF Loop
<1>c. \A k \in Loop : Room(a)[k] = IF begun(k) /\ k.seen[a] < MaxNoopRepeats
                                    THEN MaxNoopRepeats - k.seen[a] ELSE 0
  BY DEF Room
<1>1. Room(a) \in [Loop -> Nat]
  BY <1>a, <1>b DEF Room
<1>2. ASSUME [l EXCEPT !.left = @ - 1] \in Loop
      PROVE  Room(a)[[l EXCEPT !.left = @ - 1]] = Room(a)[l]
  <2> DEFINE k == [l EXCEPT !.left = @ - 1]
  <2>1. k.kind = l.kind /\ k.attempt = l.attempt /\ k.seen = l.seen
    BY DEF Loop
  <2> QED
    BY <1>2, <1>c, <2>1
<1>3. ASSUME NEW x \in Action PROVE Room(a)[[l EXCEPT !.skips[x] = @ + 1]] = Room(a)[l]
  <2> DEFINE k == [l EXCEPT !.skips[x] = @ + 1]
  <2>1. k \in Loop
    BY LoopUpdates
  <2>2. k.kind = l.kind /\ k.attempt = l.attempt /\ k.seen = l.seen
    BY DEF Loop
  <2> QED
    BY <1>c, <2>1, <2>2
<1>4. ASSUME NEW x \in Action
      PROVE  LET k == [l EXCEPT !.seen[x] = @ + 1]
             IN /\ k \in Loop /\ k.kind = l.kind /\ k.attempt = l.attempt
                /\ (x # a => k.seen[a] = l.seen[a])
                /\ (x = a => k.seen[a] = l.seen[a] + 1)
  <2>1. [l EXCEPT !.seen[x] = @ + 1] \in Loop
    BY LoopUpdates
  <2> QED
    BY <2>1, <1>b DEF Loop
<1>5. ASSUME NEW x \in Action \ {a}
      PROVE  Room(a)[[l EXCEPT !.seen[x] = @ + 1]] = Room(a)[l]
  BY <1>c, <1>4
<1>6. ASSUME l.kind = "main" \/ l.attempt > 0, l.seen[a] < MaxNoopRepeats
      PROVE  Room(a)[[l EXCEPT !.seen[a] = @ + 1]] + 1 = Room(a)[l]
  <2> DEFINE k == [l EXCEPT !.seen[a] = @ + 1]
  <2>1. /\ k \in Loop /\ (k.kind = "main" \/ k.attempt > 0)
        /\ k.seen[a] = l.seen[a] + 1 /\ l.seen[a] \in Nat
    BY <1>b, <1>4, <1>6
  <2> HIDE DEF k
  <2>2. Room(a)[k] = IF k.seen[a] < MaxNoopRepeats THEN MaxNoopRepeats - k.seen[a] ELSE 0
    BY <1>c, <2>1
  <2>3. Room(a)[l] = MaxNoopRepeats - l.seen[a]
    BY <1>c, <1>6
  <2>4. Room(a)[k] + 1 = Room(a)[l]
    BY <1>a, <1>6, <2>1, <2>2, <2>3
  <2> QED
    BY <2>4 DEF k
<1> QED
  BY <1>1, <1>2, <1>3, <1>5, <1>6

(* That of a loop that is opened, and of one that begins a round.           *)
LEMMA RoomOfNew ==
  ASSUME NEW a \in Action, NEW k \in Kind, NEW n \in Nat, NEW t \in Nat,
         NEW S \in SUBSET Assertion
  PROVE  /\ (k # "main" /\ n = 0) => Room(a)[NewLoop(k, n, t, S)] = 0
         /\ Room(a)[NewLoop(k, n, t, S)] <= MaxNoopRepeats
         /\ Room(a)[NewLoop(k, n, t, S)] \in Nat
<1> DEFINE l == NewLoop(k, n, t, S)
<1>1. l \in Loop /\ l.kind = k /\ l.attempt = n /\ l.seen[a] = 0
  BY NewLoopType DEF NewLoop
<1>2. MaxNoopRepeats \in Nat
  BY LoopAssumption
<1>3. Room(a)[l] = IF (l.kind = "main" \/ l.attempt > 0) /\ l.seen[a] < MaxNoopRepeats
                   THEN MaxNoopRepeats - l.seen[a] ELSE 0
  BY <1>1 DEF Room
<1> HIDE DEF l
<1> QED
  BY <1>1, <1>2, <1>3 DEF l

(* An execution takes from the room of its loop, a round brings new room.   *)
LEMMA RepeatsKept ==
  ASSUME LoopTypeOK, Stack, RepeatsSpent, [LoopNext]_vars
  PROVE  RepeatsSpent'
<1> SUFFICES ASSUME NEW a \in Action \ Exempt
             PROVE  \E b \in Nat : /\ Worth(loops', Room(a), b)
                                   /\ ran'[a] + b <= MaxNoopRepeats * (1 + rounds')
  BY DEF RepeatsSpent, Room
<1>1. PICK b \in Nat : /\ Worth(loops, Room(a), b)
                       /\ ran[a] + b <= MaxNoopRepeats * (1 + rounds)
  BY DEF RepeatsSpent
<1>2. /\ ran \in [Action -> Nat] /\ ran[a] \in Nat /\ rounds \in Nat /\ MaxNoopRepeats \in Nat
      /\ MaxNoopRepeats * (1 + rounds) \in Nat
      /\ MaxNoopRepeats * (1 + (rounds + 1)) = MaxNoopRepeats * (1 + rounds) + MaxNoopRepeats
  BY LoopAssumption DEF LoopTypeOK
<1>3. Room(a) \in [Loop -> Nat]
  BY <1>1, RoomOf, LoopFields, NewLoopType DEF Room, Loop
<1>b. pc \in {"look", "ask", "heal", "reassert", "raise"} =>
        /\ loops # <<>> /\ Top \in Loop /\ Top.kind \in Kind /\ Top.aims \subseteq Assertion
        /\ Top.attempt \in Nat /\ Top.left \in Nat
        /\ ((Top.kind # "main" /\ pc \notin {"heal", "crashed"}) => Top.attempt >= 1)
  BY TopPlace, LoopFields DEF Stack
<1>4. CASE UNCHANGED <<loops, ran, rounds>>
  BY <1>1, <1>4
<1>5. CASE UNCHANGED <<ran, rounds>> /\ loops' = <<>>
  BY <1>1, <1>2, <1>5, WorthOfNone
<1>6. ASSUME UNCHANGED <<ran, rounds>>, loops # <<>>, loops' = Below
      PROVE  \E c \in Nat : /\ Worth(loops', Room(a), c)
                            /\ ran'[a] + c <= MaxNoopRepeats * (1 + rounds')
  <2>1. Worth(loops', Room(a), b - Room(a)[Top]) /\ b - Room(a)[Top] \in Nat /\ Room(a)[Top] \in Nat
    BY <1>1, <1>3, <1>6, WorthBelow
  <2> QED
    BY <1>1, <1>2, <1>6, <2>1
<1>7. ASSUME UNCHANGED <<ran, rounds>>, NEW k \in {"mark", "closing"}, NEW S \in SUBSET Assertion,
             loops' = Append(loops, NewLoop(k, 0, 0, S))
      PROVE  \E c \in Nat : /\ Worth(loops', Room(a), c)
                            /\ ran'[a] + c <= MaxNoopRepeats * (1 + rounds')
  <2>1. k \in Kind /\ NewLoop(k, 0, 0, S) \in Loop /\ Room(a)[NewLoop(k, 0, 0, S)] = 0
    BY NewLoopType, RoomOfNew DEF Kind
  <2>2. Worth(loops', Room(a), b + 0)
    BY <1>1, <1>3, <1>7, <2>1, WorthPushed DEF LoopTypeOK
  <2> QED
    BY <1>1, <1>2, <1>7, <2>2
<1>8. ASSUME UNCHANGED <<ran, rounds>>, loops # <<>>, NEW l \in Loop, SetTop(l),
             Room(a)[l] = Room(a)[Top]
      PROVE  \E c \in Nat : /\ Worth(loops', Room(a), c)
                            /\ ran'[a] + c <= MaxNoopRepeats * (1 + rounds')
  <2>1. Worth(loops', Room(a), b - Room(a)[Top] + Room(a)[l]) /\ Room(a)[Top] \in Nat
    BY <1>1, <1>3, <1>8, WorthSet
  <2>2. b - Room(a)[Top] + Room(a)[l] = b
    BY <1>1, <1>8, <2>1
  <2> QED
    BY <1>1, <1>8, <2>1, <2>2
<1>9. CASE Cancel \/ Crash \/ RunOut \/ SeeCancel \/ Unwind \/ UNCHANGED vars
  BY <1>4, <1>9 DEF Cancel, Crash, RunOut, SeeCancel, Unwind, vars
<1>10. CASE ReachGoal
  BY <1>5, <1>10 DEF ReachGoal
<1>11. CASE Ask
  <2> DEFINE l == [Top EXCEPT !.left = @ - 1]
  <2>1. loops # <<>> /\ Top \in Loop /\ l \in Loop
    BY <1>11, <1>b, LoopUpdates DEF Ask
  <2>2. Room(a)[l] = Room(a)[Top]
    BY <2>1, RoomOf
  <2> QED
    BY <1>8, <1>11, <2>1, <2>2 DEF Ask
<1>12. CASE Unknown \/ Finish \/ Fail \/ \E n \in 1..MaxMark : MarkAgain(n)
  BY <1>4, <1>5, <1>12 DEF Unknown, Finish, Fail, MarkAgain, Answer
<1>13. ASSUME NEW n \in 1..MaxMark, MarkStep(n)
       PROVE  \E c \in Nat : /\ Worth(loops', Room(a), c)
                             /\ ran'[a] + c <= MaxNoopRepeats * (1 + rounds')
  <2>1. Bound(n) \subseteq Assertion
    BY DEF Bound
  <2>2. UNCHANGED <<ran, rounds>>
        /\ (loops' = loops \/ loops' = Append(loops, NewLoop("mark", 0, 0, Bound(n))))
    BY <1>13 DEF MarkStep, Answer
  <2> QED
    BY <1>4, <1>7, <2>1, <2>2
<1>14. ASSUME NEW x \in Action, Skip(x)
       PROVE  \E c \in Nat : /\ Worth(loops', Room(a), c)
                             /\ ran'[a] + c <= MaxNoopRepeats * (1 + rounds')
  <2> DEFINE l == [Top EXCEPT !.skips[x] = @ + 1]
  <2>1. loops # <<>> /\ Top \in Loop /\ l \in Loop /\ SetTop(l) /\ UNCHANGED <<ran, rounds>>
    BY <1>14, <1>b, LoopUpdates DEF Skip, Answer
  <2>2. Room(a)[l] = Room(a)[Top]
    BY <2>1, RoomOf
  <2> QED
    BY <1>8, <2>1, <2>2
<1>15. ASSUME NEW x \in Action, Execute(x)
       PROVE  \E c \in Nat : /\ Worth(loops', Room(a), c)
                             /\ ran'[a] + c <= MaxNoopRepeats * (1 + rounds')
  <2> DEFINE l == IF x \in Exempt THEN Top ELSE [Top EXCEPT !.seen[x] = @ + 1]
  <2>a. /\ loops # <<>> /\ Top \in Loop /\ Top.attempt \in Nat
        /\ (Top.kind # "main" => Top.attempt >= 1)
    BY <1>15, <1>b DEF Execute, Answer
  <2>b. /\ SetTop(l) /\ rounds' = rounds /\ ran' = [ran EXCEPT ![x] = @ + 1]
        /\ (x \in Exempt \/ Top.seen[x] < MaxNoopRepeats)
    BY <1>15 DEF Execute, Answer
  <2>1. /\ loops # <<>> /\ Top \in Loop /\ l \in Loop /\ SetTop(l) /\ rounds' = rounds
        /\ (Top.kind = "main" \/ Top.attempt > 0)
        /\ ran' = [ran EXCEPT ![x] = @ + 1]
        /\ (x \in Exempt \/ Top.seen[x] < MaxNoopRepeats)
    <3>1. [Top EXCEPT !.seen[x] = @ + 1] \in Loop
      BY <2>a, LoopUpdates
    <3>2. Top.kind = "main" \/ Top.attempt > 0
      BY <2>a
    <3>3. l \in Loop
      BY <2>a, <3>1
    <3> HIDE DEF l
    <3> QED
      BY <2>a, <2>b, <3>2, <3>3
  <2>2. CASE x # a
    <3>a. \A y \in Action \ {a} : Room(a)[[Top EXCEPT !.seen[y] = @ + 1]] = Room(a)[Top]
      BY <2>a, RoomOf
    <3>1. Room(a)[l] = Room(a)[Top]
      BY <2>1, <2>2, <3>a
    <3>2. ran'[a] = ran[a]
      BY <1>2, <2>1, <2>2
    <3>3. Worth(loops', Room(a), b - Room(a)[Top] + Room(a)[l]) /\ Room(a)[Top] \in Nat
      BY <1>1, <1>3, <2>1, WorthSet
    <3>4. b - Room(a)[Top] + Room(a)[l] = b
      BY <1>1, <3>1, <3>3
    <3> QED
      BY <1>1, <2>1, <3>2, <3>3, <3>4
  <2>3. CASE x = a
    <3>1. Room(a)[l] + 1 = Room(a)[Top] /\ Room(a)[l] \in Nat
      BY <2>1, <2>3, RoomOf
    <3>2. ran'[a] = ran[a] + 1
      BY <1>2, <2>1, <2>3
    <3>3. Worth(loops', Room(a), b - Room(a)[Top] + Room(a)[l])
          /\ Room(a)[Top] \in Nat /\ b - Room(a)[Top] \in Nat
      BY <1>1, <1>3, <2>1, WorthSet
    <3>4. b - Room(a)[Top] + Room(a)[l] = b - 1 /\ b - 1 \in Nat
      BY <1>1, <3>1, <3>3
    <3>5. ran'[a] + (b - 1) = ran[a] + b
      BY <1>1, <1>2, <3>2
    <3> QED
      BY <1>1, <2>1, <3>3, <3>4, <3>5
  <2> QED
    BY <2>2, <2>3
<1>16. CASE BeginRound
  <2> DEFINE l == NewLoop(Top.kind, Top.attempt + 1, HealBudget, Top.aims)
  <2>1. loops # <<>> /\ Top \in Loop /\ Top.kind \in Kind /\ Top.aims \subseteq Assertion
        /\ Top.attempt + 1 \in Nat /\ HealBudget \in Nat
    BY <1>16, <1>b, LoopAssumption DEF BeginRound
  <2>2. SetTop(l) /\ rounds' = rounds + 1 /\ ran' = ran
    BY <1>16 DEF BeginRound
  <2>3. l \in Loop /\ Room(a)[l] <= MaxNoopRepeats /\ Room(a)[l] \in Nat
    BY <2>1, NewLoopType, RoomOfNew
  <2> HIDE DEF l
  <2>4. Worth(loops', Room(a), b - Room(a)[Top] + Room(a)[l])
        /\ Room(a)[Top] \in Nat /\ b - Room(a)[Top] \in Nat
    BY <1>1, <1>3, <2>1, <2>2, <2>3, WorthSet
  <2>5. b - Room(a)[Top] + Room(a)[l] \in Nat
        /\ b - Room(a)[Top] + Room(a)[l] <= b + MaxNoopRepeats
    BY <1>1, <1>2, <2>3, <2>4
  <2>6. ran[a] + (b + MaxNoopRepeats) <= MaxNoopRepeats * (1 + (rounds + 1))
    BY <1>1, <1>2
  <2>7. ran'[a] + (b - Room(a)[Top] + Room(a)[l]) <= MaxNoopRepeats * (1 + rounds')
    BY <1>1, <1>2, <2>2, <2>5, <2>6
  <2> QED
    BY <2>4, <2>5, <2>7
<1>17. CASE GiveUp
  BY <1>6, <1>17, <1>b DEF GiveUp
<1>18. CASE Reassert
  <2>1. loops # <<>> /\ UNCHANGED <<ran, rounds>> /\ (loops' = loops \/ loops' = Below)
    BY <1>18, <1>b DEF Reassert
  <2> QED
    BY <1>4, <1>6, <2>1
<1>19. CASE WrapUp
  <2>1. Closing(done) \subseteq Assertion
    BY DEF Closing
  <2>2. UNCHANGED <<ran, rounds>>
        /\ (loops' = loops \/ loops' = Append(loops, NewLoop("closing", 0, 0, Closing(done))))
    BY <1>19 DEF WrapUp
  <2> QED
    BY <1>4, <1>7, <2>1, <2>2
<1> QED
  BY <1>9, <1>10, <1>11, <1>12, <1>13, <1>14, <1>15, <1>16, <1>17, <1>18, <1>19
     DEF LoopNext, LoopStep, Turn

(* However healing loops nest, an action is executed no more often than its *)
(* limit allows in the main loop and in each round.                         *)
THEOREM RepeatsAreBounded == Spec => []RepeatsBounded
<1>1. Init => RepeatsSpent
  <2> SUFFICES ASSUME Init, NEW a \in Action \ Exempt
               PROVE  \E b \in Nat : /\ Worth(loops, Room(a), b)
                                     /\ ran[a] + b <= MaxNoopRepeats * (1 + rounds)
    BY DEF RepeatsSpent
  <2> DEFINE l == NewLoop("main", 0, policy.max_steps, {})
  <2>1. policy.max_steps \in Nat /\ MaxNoopRepeats \in Nat
    BY LoopAssumption DEF Init, LoopInit
  <2>2. l \in Loop /\ Room(a)[l] <= MaxNoopRepeats /\ Room(a)[l] \in Nat
    BY <2>1, NewLoopType, RoomOfNew DEF Kind
  <2>3. loops = <<l>> /\ ran[a] = 0 /\ rounds = 0
    BY DEF Init, LoopInit
  <2> HIDE DEF l
  <2>4. Room(a) \in [Loop -> Nat]
    BY <2>2, RoomOf
  <2>5. <<>> \in Seq(Loop) /\ Append(<<>>, l) = <<l>>
    OBVIOUS
  <2>6. Worth(loops, Room(a), 0 + Room(a)[l])
    BY <2>2, <2>3, <2>4, <2>5, WorthOfNone, WorthPushed
  <2> QED
    BY <2>1, <2>2, <2>3, <2>6
<1>2. ReplayTypeOK /\ Stack /\ RepeatsSpent /\ [Next]_allVars => RepeatsSpent'
  BY ModesApart, RepeatsKept DEF ReplayTypeOK
<1>3. ReplayTypeOK /\ RepeatsSpent => RepeatsBounded
  <2> SUFFICES ASSUME ReplayTypeOK, RepeatsSpent, NEW a \in Action \ Exempt
               PROVE  ran[a] <= MaxNoopRepeats * (1 + rounds)
    BY DEF RepeatsBounded
  <2>1. ran[a] \in Nat /\ MaxNoopRepeats * (1 + rounds) \in Nat
    BY LoopAssumption DEF ReplayTypeOK, LoopTypeOK
  <2> QED
    BY <2>1 DEF RepeatsSpent
<1> QED
  BY <1>1, <1>2, <1>3, AgentTypes, PTL DEF Spec

-----------------------------------------------------------------------------
(* The iterations an open loop may still begin, with those of the rounds    *)
(* its healing may still begin, and the reserve for the closing healing.    *)
Cost(p) ==
  [l \in Loop |-> l.left + IF l.kind # "main" /\ l.attempt < p.heal_attempts
                           THEN HealBudget * (p.heal_attempts - l.attempt) ELSE 0]
ClosingMet ==
  pc \in {"passed", "failed"} \/ (loops # <<>> /\ loops[1].kind = "closing")
Asked == IF pc = "ask" THEN 1 ELSE 0
Reserve == IF ClosingMet THEN 0 ELSE HealBudget * policy.heal_attempts
Granted ==
  policy.max_steps
    + HealBudget * policy.heal_attempts * (1 + Cardinality(BoundSteps \intersect done))
CallsCovered ==
  \E b \in Nat : /\ Worth(loops, Cost(policy), b)
                 /\ llm_calls + Asked + Reserve + b <= Granted

(* The cost of the loops that the actions make.                             *)
LEMMA CostOf ==
  ASSUME NEW p \in Policies, NEW l \in Loop
  PROVE  /\ Cost(p) \in [Loop -> Nat] /\ Cost(p)[l] \in Nat
         /\ l.left > 0 => Cost(p)[[l EXCEPT !.left = @ - 1]] + 1 = Cost(p)[l]
         /\ \A x \in Action : Cost(p)[[l EXCEPT !.skips[x] = @ + 1]] = Cost(p)[l]
         /\ \A x \in Action : Cost(p)[[l EXCEPT !.seen[x] = @ + 1]] = Cost(p)[l]
<1> DEFINE more(k) == IF k.kind # "main" /\ k.attempt < p.heal_attempts
                      THEN HealBudget * (p.heal_attempts - k.attempt) ELSE 0
<1>a. HealBudget \in Nat /\ p.heal_attempts \in Nat
  BY LoopAssumption
<1>b. ASSUME NEW k \in Loop PROVE k.left \in Nat /\ k.attempt \in Nat /\ more(k) \in Nat
  <2>1. k.left \in Nat /\ k.attempt \in Nat
    BY LoopFields
  <2>2. CASE k.kind # "main" /\ k.attempt < p.heal_attempts
    <3>1. p.heal_attempts - k.attempt \in Nat
      BY <1>a, <2>1, <2>2
    <3>2. HealBudget * (p.heal_attempts - k.attempt) \in Nat
      BY <1>a, <3>1
    <3> QED
      BY <2>1, <2>2, <3>2
  <2>3. CASE ~(k.kind # "main" /\ k.attempt < p.heal_attempts)
    BY <2>1, <2>3
  <2> QED
    BY <2>2, <2>3
<1>c. \A k \in Loop : Cost(p)[k] = k.left + more(k)
  BY DEF Cost
<1>d. Cost(p) = [k \in Loop |-> k.left + more(k)]
  BY DEF Cost
<1>e. \A k \in Loop : k.kind = l.kind /\ k.attempt = l.attempt => more(k) = more(l)
  OBVIOUS
<1> HIDE DEF more
<1>1. Cost(p) \in [Loop -> Nat]
  BY <1>b, <1>d
<1>2. ASSUME l.left > 0 PROVE Cost(p)[[l EXCEPT !.left = @ - 1]] + 1 = Cost(p)[l]
  <2> DEFINE k == [l EXCEPT !.left = @ - 1]
  <2>1. k \in Loop
    BY <1>2, LoopUpdates
  <2>2. k.kind = l.kind /\ k.attempt = l.attempt /\ k.left = l.left - 1
    BY DEF Loop
  <2> HIDE DEF k
  <2>3. Cost(p)[k] + 1 = Cost(p)[l]
    BY <1>b, <1>c, <1>e, <2>1, <2>2
  <2> QED
    BY <2>3 DEF k
<1>3. ASSUME NEW x \in Action PROVE Cost(p)[[l EXCEPT !.skips[x] = @ + 1]] = Cost(p)[l]
  <2> DEFINE k == [l EXCEPT !.skips[x] = @ + 1]
  <2>1. k \in Loop
    BY LoopUpdates
  <2>2. k.kind = l.kind /\ k.attempt = l.attempt /\ k.left = l.left
    BY DEF Loop
  <2> QED
    BY <1>c, <1>e, <2>1, <2>2
<1>4. ASSUME NEW x \in Action PROVE Cost(p)[[l EXCEPT !.seen[x] = @ + 1]] = Cost(p)[l]
  <2> DEFINE k == [l EXCEPT !.seen[x] = @ + 1]
  <2>1. k \in Loop
    BY LoopUpdates
  <2>2. k.kind = l.kind /\ k.attempt = l.attempt /\ k.left = l.left
    BY DEF Loop
  <2> QED
    BY <1>c, <1>e, <2>1, <2>2
<1> QED
  BY <1>1, <1>2, <1>3, <1>4

(* The main loop costs its iterations, a healing one budget for each round. *)
LEMMA CostOfNew ==
  ASSUME NEW p \in Policies, NEW k \in Kind, NEW S \in SUBSET Assertion
  PROVE  /\ \A t \in Nat : k = "main" => Cost(p)[NewLoop(k, 0, t, S)] = t
         /\ k # "main" => Cost(p)[NewLoop(k, 0, 0, S)] = HealBudget * p.heal_attempts
<1>a. HealBudget \in Nat /\ p.heal_attempts \in Nat
  BY LoopAssumption
<1>1. ASSUME NEW t \in Nat
      PROVE  LET l == NewLoop(k, 0, t, S)
             IN  l \in Loop /\ l.kind = k /\ l.attempt = 0 /\ l.left = t
  BY NewLoopType DEF NewLoop
<1>2. ASSUME NEW t \in Nat, k = "main" PROVE Cost(p)[NewLoop(k, 0, t, S)] = t
  BY <1>1, <1>2 DEF Cost
<1>3. ASSUME k # "main" PROVE Cost(p)[NewLoop(k, 0, 0, S)] = HealBudget * p.heal_attempts
  <2> DEFINE l == NewLoop(k, 0, 0, S)
  <2>1. l \in Loop /\ l.kind # "main" /\ l.attempt = 0 /\ l.left = 0
    BY <1>1, <1>3
  <2> HIDE DEF l
  <2>2. Cost(p)[l] = 0 + (IF 0 < p.heal_attempts THEN HealBudget * (p.heal_attempts - 0) ELSE 0)
    BY <2>1 DEF Cost
  <2>3. p.heal_attempts - 0 = p.heal_attempts /\ HealBudget * p.heal_attempts \in Nat
    BY <1>a
  <2>4. CASE 0 < p.heal_attempts
    BY <2>2, <2>3, <2>4 DEF l
  <2>5. CASE p.heal_attempts = 0
    <3>1. HealBudget * p.heal_attempts = 0
      BY <1>a, <2>5
    <3> QED
      BY <2>2, <2>5, <3>1 DEF l
  <2> QED
    BY <1>a, <2>4, <2>5
<1> QED
  BY <1>2, <1>3

(* A round that begins has been paid for.                                   *)
LEMMA CostOfRound ==
  ASSUME NEW p \in Policies, NEW l \in Loop, l.kind # "main", l.attempt < p.heal_attempts
  PROVE  Cost(p)[NewLoop(l.kind, l.attempt + 1, HealBudget, l.aims)] <= Cost(p)[l]
<1> DEFINE h == p.heal_attempts
           k == NewLoop(l.kind, l.attempt + 1, HealBudget, l.aims)
<1>1. HealBudget \in Nat /\ h \in Nat /\ l.attempt \in Nat /\ l.left \in Nat
  BY LoopAssumption, LoopFields
<1>2. k \in Loop /\ k.kind = l.kind /\ k.attempt = l.attempt + 1 /\ k.left = HealBudget
  BY <1>1, LoopFields, NewLoopType DEF NewLoop
<1> HIDE DEF k
<1>3. Cost(p)[l] = l.left + HealBudget * (h - l.attempt)
  BY DEF Cost
<1>4. Cost(p)[k] = HealBudget + (IF l.attempt + 1 < h THEN HealBudget * (h - (l.attempt + 1)) ELSE 0)
  BY <1>2 DEF Cost
<1> DEFINE d == h - (l.attempt + 1)
<1>5. d \in Nat /\ h - l.attempt = d + 1 /\ (~(l.attempt + 1 < h) => d = 0)
  BY <1>1
<1>6. Cost(p)[k] = HealBudget + (IF l.attempt + 1 < h THEN HealBudget * d ELSE 0)
  BY <1>4
<1>7. Cost(p)[l] = l.left + HealBudget * (d + 1)
  BY <1>3, <1>5
<1> HIDE DEF d, h
<1>8. HealBudget * (d + 1) = HealBudget * d + HealBudget /\ HealBudget * d \in Nat
  BY <1>1, <1>5
<1>9. Cost(p)[k] <= Cost(p)[l]
  BY <1>1, <1>5, <1>6, <1>7, <1>8
<1> QED
  BY <1>9 DEF k

(* What is granted is a number.                                             *)
LEMMA GrantedInNat ==
  ASSUME LoopTypeOK
  PROVE  IsFiniteSet(done) /\ Granted \in Nat
<1>1. policy.heal_attempts \in Nat /\ policy.max_steps \in Nat /\ HealBudget \in Nat
  BY LoopAssumption DEF LoopTypeOK
<1>2. IsFiniteSet(done)
  <2>1. IsFiniteSet(1..MaxMark)
    BY FS_Interval, LoopAssumption
  <2> QED
    BY <2>1, FS_Subset DEF LoopTypeOK
<1>3. Cardinality(BoundSteps \intersect done) \in Nat
  BY <1>2, FS_Subset, FS_CardinalityType
<1> QED
  BY <1>1, <1>2, <1>3 DEF Granted

(* Marking a step that has assertions pays for its healing.                 *)
LEMMA GrantedGrows ==
  ASSUME LoopTypeOK, policy' = policy, NEW n \in Nat, done' \in {done, done \union {n}}
  PROVE  /\ Granted \in Nat /\ Granted' \in Nat /\ Granted' >= Granted
         /\ (n \in BoundSteps \ done /\ done' = done \union {n}) =>
              Granted' = Granted + HealBudget * policy.heal_attempts
<1> DEFINE K == HealBudget * policy.heal_attempts
           C == Cardinality(BoundSteps \intersect done)
<1>1. K \in Nat /\ policy.max_steps \in Nat
  BY LoopAssumption DEF LoopTypeOK
<1>2. IsFiniteSet(done)
  BY GrantedInNat
<1>3. IsFiniteSet(BoundSteps \intersect done) /\ C \in Nat
  BY <1>2, FS_Subset, FS_CardinalityType
<1>4. Granted = policy.max_steps + K * (1 + C)
  BY DEF Granted
<1>5. Granted' = policy.max_steps + K * (1 + Cardinality(BoundSteps \intersect done'))
  BY DEF Granted, BoundSteps
<1>6. Granted \in Nat
  BY <1>1, <1>3, <1>4
<1>7. CASE n \in BoundSteps \ done /\ done' = done \union {n}
  <2>1. BoundSteps \intersect done' = (BoundSteps \intersect done) \union {n}
    BY <1>7
  <2>2. Cardinality(BoundSteps \intersect done') = C + 1
    BY <1>3, <1>7, <2>1, FS_AddElement
  <2>3. K * (1 + (C + 1)) = K * (1 + C) + K
    BY <1>1, <1>3
  <2> HIDE DEF K, C
  <2>4. Granted' = Granted + K
    BY <1>1, <1>3, <1>4, <1>5, <2>2, <2>3
  <2> QED
    BY <1>1, <1>6, <2>4 DEF K
<1>8. CASE ~(n \in BoundSteps \ done /\ done' = done \union {n})
  <2>1. BoundSteps \intersect done' = BoundSteps \intersect done
    BY <1>8
  <2>2. Granted' = Granted
    BY <1>4, <1>5, <2>1
  <2> QED
    BY <1>6, <1>8, <2>2
<1> QED
  BY <1>7, <1>8

(* The closing healing is opened once, and ends the run.                    *)
LEMMA ClosingStays ==
  ASSUME LoopTypeOK, Stack, [LoopNext]_vars, ClosingMet
  PROVE  ClosingMet'
<1> USE DEF ClosingMet
<1>b. pc \in {"look", "ask", "heal", "reassert", "raise"} => loops # <<>> /\ Top \in Loop
  BY TopPlace DEF Stack
<1>c. (pc \in {"look", "ask"} /\ Top.kind = "main") =>
        ~(loops # <<>> /\ loops[1].kind = "closing")
  BY <1>b, Bottom
<1>1. ASSUME pc \notin {"passed", "failed"}, loops' # <<>>, loops'[1].kind = loops[1].kind
      PROVE  ClosingMet'
  BY <1>1
<1>2. ASSUME loops # <<>>, pc \notin {"passed", "failed"}, NEW l \in Loop, SetTop(l),
             l.kind = Top.kind
      PROVE  ClosingMet'
  <2>1. Len(loops) \in Nat \ {0} /\ Top = loops[Len(loops)] /\ 1 \in 1..Len(loops)
    BY <1>2, TopPlace
  <2>2. /\ loops' # <<>>
        /\ \A i \in 1..Len(loops) : loops'[i] = IF i = Len(loops) THEN l ELSE loops[i]
    BY <1>2, SetTopType DEF LoopTypeOK
  <2>3. loops'[1].kind = loops[1].kind
    BY <1>2, <2>1, <2>2
  <2> QED
    BY <1>1, <1>2, <2>2, <2>3
<1>3. ASSUME loops # <<>>, pc \notin {"passed", "failed"}, loops' = Below,
             Top.kind = "closing" => pc' \in {"passed", "failed"}
      PROVE  ClosingMet'
  <2>1. CASE Top.kind = "closing"
    BY <1>3, <2>1
  <2>2. CASE Top.kind # "closing"
    <3>1. loops[1].kind = "closing" /\ Len(loops) \in Nat \ {0} /\ Top = loops[Len(loops)]
      BY <1>3, TopPlace
    <3>2. Len(loops) # 1
      BY <2>2, <3>1
    <3>3. /\ Below \in Seq(Loop) /\ Len(Below) = Len(loops) - 1
          /\ \A i \in 1..Len(Below) : Below[i] = loops[i]
      BY <1>3, BelowType DEF LoopTypeOK
    <3>4. Below # <<>> /\ Below[1] = loops[1]
      BY <3>1, <3>2, <3>3, EmptySeq
    <3> QED
      BY <1>3, <3>1, <3>4
  <2> QED
    BY <2>1, <2>2
<1>4. ASSUME loops # <<>>, pc \notin {"passed", "failed"}, NEW l \in Loop,
             loops' = Append(loops, l)
      PROVE  ClosingMet'
  <2>1. Len(loops) \in Nat \ {0} /\ 1 \in 1..Len(loops)
    BY <1>4, TopPlace
  <2>2. loops' # <<>> /\ loops'[1] = loops[1]
    BY <1>4, <2>1, PushType DEF LoopTypeOK
  <2> QED
    BY <1>1, <1>4, <2>2
<1>5. CASE Cancel \/ UNCHANGED vars
  BY <1>5 DEF Cancel, vars
<1>6. CASE Crash \/ RunOut \/ SeeCancel \/ Unwind
  BY <1>6 DEF Crash, RunOut, SeeCancel, Unwind, Final
<1>7. CASE ReachGoal
  BY <1>c, <1>7 DEF ReachGoal
<1>8. CASE Ask
  <2>1. [Top EXCEPT !.left = @ - 1] \in Loop /\ [Top EXCEPT !.left = @ - 1].kind = Top.kind
    BY <1>b, <1>8, LoopUpdates DEF Ask, Loop
  <2> QED
    BY <1>b, <1>2, <1>8, <2>1 DEF Ask
<1>9. CASE Unknown \/ Fail \/ \E n \in 1..MaxMark : MarkAgain(n)
  BY <1>9 DEF Unknown, Fail, MarkAgain, Answer
<1>10. CASE Finish
  BY <1>c, <1>10 DEF Finish, Answer
<1>11. ASSUME NEW n \in 1..MaxMark, MarkStep(n) PROVE ClosingMet'
  <2>1. NewLoop("mark", 0, 0, Bound(n)) \in Loop
    BY NewLoopType DEF Kind, Bound
  <2>2. pc = "ask" /\ (loops' = loops \/ loops' = Append(loops, NewLoop("mark", 0, 0, Bound(n))))
    BY <1>11 DEF MarkStep, Answer
  <2> QED
    BY <1>b, <1>1, <1>4, <2>1, <2>2
<1>12. ASSUME NEW a \in Action, Skip(a) PROVE ClosingMet'
  <2>1. /\ [Top EXCEPT !.skips[a] = @ + 1] \in Loop
        /\ [Top EXCEPT !.skips[a] = @ + 1].kind = Top.kind
    BY <1>b, <1>12, LoopUpdates DEF Skip, Answer, Loop
  <2> QED
    BY <1>b, <1>2, <1>12, <2>1 DEF Skip, Answer
<1>13. ASSUME NEW a \in Action, Execute(a) PROVE ClosingMet'
  <2> DEFINE l == IF a \in Exempt THEN Top ELSE [Top EXCEPT !.seen[a] = @ + 1]
  <2>1. /\ [Top EXCEPT !.seen[a] = @ + 1] \in Loop
        /\ [Top EXCEPT !.seen[a] = @ + 1].kind = Top.kind /\ Top \in Loop
    BY <1>b, <1>13, LoopUpdates DEF Execute, Answer, Loop
  <2>2. l \in Loop /\ l.kind = Top.kind
    BY <2>1
  <2>3. SetTop(l) /\ pc = "ask"
    BY <1>13 DEF Execute, Answer
  <2> HIDE DEF l
  <2> QED
    BY <1>b, <1>2, <2>2, <2>3
<1>14. CASE BeginRound
  <2>1. Top \in Loop /\ Top.attempt + 1 \in Nat /\ HealBudget \in Nat
    BY <1>b, <1>14, LoopFields, LoopAssumption DEF BeginRound
  <2>a. Top.kind \in Kind /\ Top.aims \in SUBSET Assertion
    BY <2>1, LoopFields
  <2>b. ASSUME NEW k \in Kind, NEW n \in Nat, NEW S \in SUBSET Assertion
        PROVE  NewLoop(k, n, HealBudget, S) \in Loop /\ NewLoop(k, n, HealBudget, S).kind = k
    BY LoopAssumption, NewLoopType, SMTT(60)
  <2>2. /\ NewLoop(Top.kind, Top.attempt + 1, HealBudget, Top.aims) \in Loop
        /\ NewLoop(Top.kind, Top.attempt + 1, HealBudget, Top.aims).kind = Top.kind
    BY <2>1, <2>a, <2>b, Zenon
  <2> QED
    BY <1>b, <1>2, <1>14, <2>2 DEF BeginRound
<1>15. CASE GiveUp
  BY <1>b, <1>3, <1>15 DEF GiveUp
<1>16. CASE Reassert
  BY <1>b, <1>1, <1>3, <1>16 DEF Reassert
<1>17. CASE WrapUp
  BY <1>17 DEF WrapUp, Stack
<1> QED
  BY <1>5, <1>6, <1>7, <1>8, <1>9, <1>10, <1>11, <1>12, <1>13, <1>14, <1>15, <1>16,
     <1>17 DEF LoopNext, LoopStep, Turn

(* What a step still owes is paid when it asks no more than the last one,   *)
(* and owes no more.                                                        *)
LEMMA Balance ==
  ASSUME NEW m \in Nat, NEW n \in Nat, NEW q \in Nat, NEW o \in Nat, NEW r \in Nat,
         NEW s \in Nat, NEW b \in Nat, NEW c \in Nat, NEW g \in Nat, NEW h \in Nat,
         NEW d \in Nat,
         n + o <= m + q, s <= r, c <= b + d, m + q + r + b <= g, g + d <= h
  PROVE  n + o + s + c <= h
OBVIOUS

(* Every call is paid for by an iteration, every iteration by a loop, every *)
(* loop by the step it heals or by the reserve.                             *)
LEMMA CallsKept ==
  ASSUME LoopTypeOK, Stack, CallsCovered, [LoopNext]_vars
  PROVE  CallsCovered'
<1>1. PICK p \in Policies : p = policy
  BY DEF LoopTypeOK
<1>2. policy' = p
  BY <1>1 DEF LoopNext, LoopStep, Turn, vars, Cancel, Crash, RunOut, SeeCancel, ReachGoal, Ask,
              Unknown, Finish, Fail, MarkAgain, MarkStep, Skip, Execute, Answer,
              BeginRound, GiveUp, Reassert, Unwind, WrapUp, caseVars
<1>a. \E n \in Nat : done' \in {done, done \union {n}}
  <2>1. 1..MaxMark \subseteq Nat
    BY LoopAssumption
  <2> QED
    BY <2>1 DEF LoopNext, LoopStep, Turn, vars, Cancel, Crash, RunOut, SeeCancel, ReachGoal, Ask,
              Unknown, Finish, Fail, MarkAgain, MarkStep, Skip, Execute, Answer,
              BeginRound, GiveUp, Reassert, Unwind, WrapUp
<1>c. Granted \in Nat /\ Granted' \in Nat /\ (done' = done => Granted' = Granted)
  <2>1. Granted \in Nat /\ Granted' \in Nat
    BY <1>1, <1>2, <1>a, GrantedGrows
  <2>2. done' = done => Granted' = Granted
    BY <1>1, <1>2 DEF Granted, BoundSteps
  <2> QED
    BY <2>1, <2>2
<1>d. llm_calls \in Nat /\ llm_calls' \in Nat
  BY LoopTypesKept DEF LoopTypeOK
(* The numbers of the step by name.                                        *)
<1> DEFINE K == HealBudget * p.heal_attempts
<1>k. K \in Nat /\ HealBudget \in Nat
  BY LoopAssumption
<1>4. /\ Reserve = IF ClosingMet THEN 0 ELSE K
      /\ Reserve' = IF ClosingMet' THEN 0 ELSE K
  BY <1>1, <1>2 DEF Reserve
<1> HIDE DEF K
<1>e1. PICK m \in Nat : m = llm_calls
  BY <1>d
<1>e2. PICK n \in Nat : n = llm_calls'
  BY <1>d
<1>e. m = llm_calls /\ n = llm_calls'
  BY <1>e1, <1>e2
<1>f. PICK g \in Nat, h \in Nat : g = Granted /\ h = Granted'
  BY <1>c
<1>5. PICK r \in Nat, s \in Nat : r = Reserve /\ s = Reserve' /\ s <= r
  BY <1>k, <1>4, ClosingStays
<1>6. PICK q \in Nat, o \in Nat :
        /\ q = Asked /\ q = IF pc = "ask" THEN 1 ELSE 0
        /\ o = Asked' /\ o = IF pc' = "ask" THEN 1 ELSE 0
  BY DEF Asked
<1>3. PICK b \in Nat : Worth(loops, Cost(p), b) /\ m + q + r + b <= g
  BY <1>1, <1>e, <1>f, <1>5, <1>6 DEF CallsCovered
<1>7. Cost(p) \in [Loop -> Nat]
  BY CostOf, OneLoop, NewLoopType DEF Cost, Loop
<1>8. done' = done => h = g
  BY <1>c, <1>f
<1>9. ASSUME NEW c \in Nat, Worth(loops', Cost(p), c), n + o + s + c <= h
      PROVE  CallsCovered'
  BY <1>2, <1>e, <1>f, <1>5, <1>6, <1>9 DEF CallsCovered
<1>b. pc \in {"look", "ask", "heal", "reassert", "raise"} =>
        /\ loops # <<>> /\ Top \in Loop /\ Top.kind \in Kind /\ Top.aims \subseteq Assertion
        /\ Top.attempt \in Nat /\ Top.left \in Nat
  BY TopPlace, LoopFields DEF Stack
<1>g. m + q + r + b <= g /\ s <= r
  BY <1>3, <1>5
<1>10. ASSUME n + o <= m + q, done' = done, NEW c \in Nat, c <= b, Worth(loops', Cost(p), c)
       PROVE  CallsCovered'
  <2>0. c <= b + 0 /\ g + 0 <= h
    BY <1>8, <1>10
  <2>1. n + o + s + c <= h
    BY <1>g, <1>10, <2>0, Balance
  <2> QED
    BY <1>9, <1>10, <2>1
<1>11. ASSUME n + o <= m + q, done' = done, loops' = loops \/ loops' = <<>>
       PROVE  CallsCovered'
  <2>1. CASE loops' = loops
    BY <1>3, <1>10, <1>11, <2>1
  <2>2. CASE loops' = <<>>
    BY <1>3, <1>10, <1>11, <2>2, WorthOfNone
  <2> QED
    BY <1>11, <2>1, <2>2
<1>12. ASSUME n + o <= m + q, done' = done,
              loops # <<>>, NEW l \in Loop, SetTop(l), Cost(p)[l] <= Cost(p)[Top]
       PROVE  CallsCovered'
  <2>1. /\ Worth(loops', Cost(p), b - Cost(p)[Top] + Cost(p)[l])
        /\ Cost(p)[Top] \in Nat /\ b - Cost(p)[Top] \in Nat /\ Cost(p)[l] \in Nat
    BY <1>3, <1>7, <1>12, WorthSet
  <2>2. b - Cost(p)[Top] + Cost(p)[l] \in Nat /\ b - Cost(p)[Top] + Cost(p)[l] <= b
    BY <1>12, <2>1
  <2> QED
    BY <1>10, <1>12, <2>1, <2>2
<1>13. ASSUME n + o <= m + q, done' = done, loops # <<>>, loops' = Below
       PROVE  CallsCovered'
  <2>1. /\ Worth(loops', Cost(p), b - Cost(p)[Top])
        /\ Cost(p)[Top] \in Nat /\ b - Cost(p)[Top] \in Nat
    BY <1>3, <1>7, <1>13, WorthBelow
  <2>2. b - Cost(p)[Top] <= b
    BY <2>1
  <2> QED
    BY <1>10, <1>13, <2>1, <2>2
<1>14. ASSUME llm_calls' = llm_calls, pc' = pc \/ pc' # "ask" PROVE n + o <= m + q
  BY <1>e, <1>6, <1>14
<1>15. ASSUME Answer, pc' # "ask" PROVE n + o <= m + q
  BY <1>e, <1>6, <1>15 DEF Answer
<1>16. CASE Cancel \/ Crash \/ RunOut \/ SeeCancel \/ Unwind \/ UNCHANGED vars
  BY <1>11, <1>14, <1>16 DEF Cancel, Crash, RunOut, SeeCancel, Unwind, vars
<1>17. CASE ReachGoal
  BY <1>11, <1>14, <1>17 DEF ReachGoal
<1>18. CASE Ask
  <2> DEFINE l == [Top EXCEPT !.left = @ - 1]
  <2>1. loops # <<>> /\ Top \in Loop /\ Top.left > 0 /\ l \in Loop /\ SetTop(l)
        /\ pc = "look" /\ pc' = "ask" /\ UNCHANGED <<llm_calls, done>>
    BY <1>b, <1>18, LoopUpdates DEF Ask
  <2>2. Cost(p)[l] + 1 = Cost(p)[Top] /\ Cost(p)[Top] \in Nat
    BY <2>1, CostOf
  <2>3. Worth(loops', Cost(p), b - Cost(p)[Top] + Cost(p)[l]) /\ b - Cost(p)[Top] \in Nat
    BY <1>3, <1>7, <2>1, WorthSet
  <2>4. Cost(p)[l] \in Nat
    BY <1>7, <2>1
  <2> HIDE DEF l
  <2>5. b - Cost(p)[Top] + Cost(p)[l] = b - 1 /\ b - 1 \in Nat
    BY <1>3, <2>2, <2>3, <2>4
  <2>6. o = 1 /\ q = 0 /\ n = m /\ h = g
    BY <1>e, <1>6, <1>8, <2>1
  <2> DEFINE c == b - 1
  <2>7. c \in Nat /\ c + 1 = b
    BY <2>5
  <2> HIDE DEF c
  <2>8. n + o + s + c <= h
    BY <1>g, <2>6, <2>7
  <2>9. Worth(loops', Cost(p), c)
    BY <2>3, <2>5 DEF c
  <2> QED
    BY <1>9, <2>7, <2>8, <2>9
<1>19. CASE Unknown \/ Fail \/ Finish \/ \E i \in 1..MaxMark : MarkAgain(i)
  <2>1. Answer /\ pc' # "ask" /\ done' = done /\ (loops' = loops \/ loops' = <<>>)
    BY <1>19 DEF Unknown, Fail, Finish, MarkAgain
  <2> QED
    BY <1>11, <1>15, <2>1
<1>20. ASSUME NEW i \in 1..MaxMark, MarkStep(i) PROVE CallsCovered'
  <2>1. Answer /\ pc' # "ask" /\ i \notin done /\ done' = done \union {i} /\ i \in Nat \ {0}
    BY <1>20, LoopAssumption DEF MarkStep
  <2>2. Bound(i) \subseteq Assertion
    BY DEF Bound
  <2>3. PICK v \in Verdicts(Bound(i), page) :
          IF Failing(v) = {} THEN pc' = "look" /\ loops' = loops
          ELSE IF policy.heal_attempts = 0 THEN pc' = "raise" /\ loops' = loops
          ELSE /\ pc' = "heal"
               /\ loops' = Append(loops, NewLoop("mark", 0, 0, Bound(i)))
    BY <1>20 DEF MarkStep
  <2>4. h >= g /\ (i \in BoundSteps => h = g + K)
    BY <1>1, <1>2, <1>f, <2>1, GrantedGrows DEF K
  <2>5. n + o <= m + q
    BY <1>15, <2>1
  <2>6. CASE loops' = loops
    <3>0. b <= b + 0 /\ g + 0 <= h
      BY <2>4
    <3>1. n + o + s + b <= h
      BY <1>g, <2>5, <3>0, Balance
    <3> QED
      BY <1>3, <1>9, <2>6, <3>1
  <2>7. CASE Failing(v) # {} /\ loops' = Append(loops, NewLoop("mark", 0, 0, Bound(i)))
    <3> DEFINE l == NewLoop("mark", 0, 0, Bound(i))
    <3>1. l \in Loop /\ Cost(p)[l] = K
      BY <2>2, NewLoopType, CostOfNew DEF Kind, K
    <3>2. i \in BoundSteps
      <4>1. PICK a \in Bound(i) : TRUE
        BY <2>7, VerdictsType DEF Failing
      <4> QED
        BY <2>1, <4>1 DEF Bound, BoundSteps
    <3>3. Worth(loops', Cost(p), b + K)
      BY <1>3, <1>7, <2>7, <3>1, WorthPushed DEF LoopTypeOK
    <3>0. b + K \in Nat /\ b + K <= b + K /\ g + K <= h
      BY <1>k, <2>4, <3>2
    <3>4. n + o + s + (b + K) <= h /\ b + K \in Nat
      BY <1>g, <1>k, <2>5, <3>0, Balance
    <3> QED
      BY <1>9, <3>3, <3>4
  <2> QED
    BY <2>3, <2>6, <2>7
<1>21. ASSUME NEW a \in Action, Skip(a) PROVE CallsCovered'
  <2> DEFINE l == [Top EXCEPT !.skips[a] = @ + 1]
  <2>1. Answer /\ pc' # "ask" /\ done' = done /\ pc = "ask" /\ SetTop(l)
    BY <1>21 DEF Skip, Answer
  <2>2. loops # <<>> /\ Top \in Loop /\ l \in Loop
    BY <1>b, <2>1, LoopUpdates
  <2>3. Cost(p)[l] = Cost(p)[Top] /\ Cost(p)[Top] \in Nat
    BY <1>1, <2>2, CostOf
  <2> HIDE DEF l
  <2>4. Cost(p)[l] <= Cost(p)[Top]
    BY <2>3
  <2> QED
    BY <1>12, <1>15, <2>1, <2>2, <2>4
<1>22. ASSUME NEW a \in Action, Execute(a) PROVE CallsCovered'
  <2> DEFINE l == IF a \in Exempt THEN Top ELSE [Top EXCEPT !.seen[a] = @ + 1]
  <2>1. Answer /\ pc' # "ask" /\ done' = done /\ pc = "ask" /\ SetTop(l)
    BY <1>22 DEF Execute, Answer
  <2>2. loops # <<>> /\ Top \in Loop /\ [Top EXCEPT !.seen[a] = @ + 1] \in Loop
    BY <1>b, <2>1, LoopUpdates
  <2>3. l \in Loop /\ Cost(p)[l] = Cost(p)[Top] /\ Cost(p)[Top] \in Nat
    BY <2>2, CostOf
  <2> HIDE DEF l
  <2>4. Cost(p)[l] <= Cost(p)[Top]
    BY <2>3
  <2> QED
    BY <1>12, <1>15, <2>1, <2>2, <2>3, <2>4
<1>23. CASE BeginRound
  <2> DEFINE l == NewLoop(Top.kind, Top.attempt + 1, HealBudget, Top.aims)
  <2>1. /\ loops # <<>> /\ Top \in Loop /\ Top.kind # "main" /\ Top.attempt < p.heal_attempts
        /\ SetTop(l) /\ pc' = "look" /\ UNCHANGED <<llm_calls, done>>
    BY <1>b, <1>1, <1>23 DEF BeginRound, Stack
  <2>2. l \in Loop
    <3>1. Top.kind \in Kind /\ Top.attempt + 1 \in Nat /\ Top.aims \in SUBSET Assertion
      BY <2>1, LoopFields
    <3> QED
      BY <1>k, <3>1, NewLoopType
  <2>3. Cost(p)[l] <= Cost(p)[Top]
    BY <2>1, CostOfRound
  <2> HIDE DEF l
  <2>4. n + o <= m + q
    BY <1>14, <2>1
  <2> QED
    BY <1>12, <2>1, <2>2, <2>3, <2>4
<1>24. CASE GiveUp
  BY <1>b, <1>13, <1>14, <1>24 DEF GiveUp
<1>25. CASE Reassert
  <2>1. /\ loops # <<>> /\ UNCHANGED <<llm_calls, done>> /\ pc' # "ask"
        /\ (loops' = loops \/ loops' = Below)
    BY <1>b, <1>25 DEF Reassert
  <2> QED
    BY <1>11, <1>13, <1>14, <2>1
<1>26. CASE WrapUp
  <2>1. /\ pc = "wrapup" /\ pc' # "ask" /\ loops = <<>> /\ UNCHANGED <<llm_calls, done>>
        /\ \/ loops' = loops
           \/ loops' = Append(loops, NewLoop("closing", 0, 0, Closing(done)))
    BY <1>26 DEF WrapUp, Stack
  <2>2. n + o <= m + q
    BY <1>14, <2>1
  <2>3. CASE loops' = Append(loops, NewLoop("closing", 0, 0, Closing(done)))
    <3> DEFINE l == NewLoop("closing", 0, 0, Closing(done))
    <3>1. l \in Loop /\ l.kind = "closing" /\ Cost(p)[l] = K
      BY NewLoopType, CostOfNew DEF Kind, K, Closing
    <3>2. loops' # <<>> /\ loops'[1] = l
      BY <2>1, <2>3, <3>1
    <3>3. ClosingMet' /\ ~ClosingMet
      BY <2>1, <3>1, <3>2 DEF ClosingMet
    <3>4. Worth(loops', Cost(p), b + K)
      BY <1>3, <1>7, <2>3, <3>1, WorthPushed DEF LoopTypeOK
    <3>5. r = K /\ s = 0 /\ h = g
      BY <1>4, <1>5, <1>8, <2>1, <3>3
    <3>6. n + o + s + (b + K) <= h /\ b + K \in Nat
      BY <1>g, <1>k, <2>2, <3>5
    <3> QED
      BY <1>9, <3>4, <3>6
  <2> QED
    BY <1>11, <2>1, <2>2, <2>3
<1> QED
  BY <1>16, <1>17, <1>18, <1>19, <1>20, <1>21, <1>22, <1>23, <1>24, <1>25, <1>26
     DEF LoopNext, LoopStep, Turn

(* Although healing loops nest, the bill of a run grows by one budget for   *)
(* each marked step that has assertions, and not with the depth.            *)
THEOREM CallsAreBounded == Spec => []CallsBounded
<1>1. Init => CallsCovered
  <2> SUFFICES ASSUME Init PROVE CallsCovered
    OBVIOUS
  <2> DEFINE K == HealBudget * policy.heal_attempts
             l == NewLoop("main", 0, policy.max_steps, {})
  <2>1. /\ policy \in Policies /\ policy.max_steps \in Nat /\ K \in Nat
        /\ loops = <<l>> /\ llm_calls = 0 /\ done = {} /\ pc = "look"
    BY LoopAssumption DEF Init, LoopInit
  <2>2. l \in Loop /\ l.kind = "main" /\ Cost(policy)[l] = policy.max_steps
    BY <2>1, NewLoopType, CostOfNew DEF Kind
  <2>3. Cost(policy) \in [Loop -> Nat]
    BY <2>1, <2>2, CostOf
  <2>4. Asked = 0 /\ Reserve = K
    BY <2>1, <2>2 DEF Asked, Reserve, ClosingMet
  <2>5. Granted = policy.max_steps + K
    <3>1. BoundSteps \intersect done = {} /\ Cardinality(BoundSteps \intersect done) = 0
      BY <2>1, FS_EmptySet
    <3>2. K * (1 + 0) = K
      BY <2>1
    <3> QED
      BY <3>1, <3>2 DEF Granted
  <2> HIDE DEF l, K
  <2>6. <<>> \in Seq(Loop) /\ Append(<<>>, l) = <<l>>
    OBVIOUS
  <2>7. Worth(loops, Cost(policy), 0 + Cost(policy)[l])
    BY <2>1, <2>2, <2>3, <2>6, WorthOfNone, WorthPushed
  <2>8. Worth(loops, Cost(policy), policy.max_steps)
    BY <2>1, <2>2, <2>7
  <2>9. llm_calls + Asked + Reserve + policy.max_steps <= Granted
    BY <2>1, <2>4, <2>5
  <2> QED
    BY <2>1, <2>8, <2>9 DEF CallsCovered
<1>2. ReplayTypeOK /\ Stack /\ CallsCovered /\ [Next]_allVars => CallsCovered'
  BY ModesApart, CallsKept DEF ReplayTypeOK
<1>3. ReplayTypeOK /\ CallsCovered => CallsBounded
  <2> SUFFICES ASSUME ReplayTypeOK, CallsCovered PROVE CallsBounded
    OBVIOUS
  <2>1. PICK b \in Nat : llm_calls + Asked + Reserve + b <= Granted
    BY DEF CallsCovered
  <2>2. /\ llm_calls \in Nat /\ Asked \in Nat /\ HealBudget * policy.heal_attempts \in Nat
        /\ LoopTypeOK
    BY LoopAssumption DEF ReplayTypeOK, LoopTypeOK, Asked
  <2>3. Reserve \in Nat
    BY <2>2 DEF Reserve
  <2>4. IsFiniteSet(done)
    <3>1. IsFiniteSet(1..MaxMark)
      BY FS_Interval, LoopAssumption
    <3> QED
      BY <2>2, <3>1, FS_Subset DEF LoopTypeOK
  <2>5. Cardinality(BoundSteps \intersect done) \in Nat
    BY <2>4, FS_Subset, FS_CardinalityType
  <2>6. Granted \in Nat
    BY <2>2, <2>5, LoopAssumption DEF Granted, LoopTypeOK
  <2>7. llm_calls <= Granted
    BY <2>1, <2>2, <2>3, <2>6
  <2> QED
    BY <2>7 DEF CallsBounded, Granted
<1> QED
  BY <1>1, <1>2, <1>3, AgentTypes, PTL DEF Spec
-----------------------------------------------------------------------------
(* What a recording goes through: a point is the page, the count of steps   *)
(* and the marked steps before an entry.                                    *)
Point == [page : Page, steps : Nat, done : SUBSET (Nat \ {0})]
PointAt(p, n, S) == [page |-> p, steps |-> n, done |-> S]

Hold(S, p) == \A v \in Verdicts(S, p) : Failing(v) = {}

(* The entry e leads from the point x to the point y in one way only, and   *)
(* no completion check ends the run before it.                              *)
Leads(x, e, y) ==
  /\ TRUE \notin GoalAnswers(x.page, x.steps)
  /\ \/ \E n \in (Nat \ {0}) \ x.done :
          /\ e = Mark(n) /\ Hold(Bound(n), x.page)
          /\ y = PointAt(x.page, x.steps + Cardinality(Bound(n)), x.done \union {n})
     \/ \E a \in Action, p \in Page :
          /\ e = Act(a) /\ Landings(a, x.page) = {p}
          /\ y = PointAt(p, x.steps + 1, x.done)

Trail(T, s) ==
  /\ T \in [0..Len(s) -> Point] /\ T[0] = PointAt(Blank, 0, {})
  /\ \A i \in 1..Len(s) : Leads(T[i - 1], s[i], T[i])

Reaches(s, x) == \E T : Trail(T, s) /\ T[Len(s)] = x

(* As long as nothing was healed, the main loop has recorded what led it to *)
(* its page, whatever the healing loops in between have tried in vain.      *)
Unhealed ==
  /\ site # Flaky /\ heals = 0
  /\ pc \in {"wrapup", "passed"} \/ (pc \in {"look", "ask"} /\ Top.kind = "main")
Recorded ==
  Unhealed =>
    \E n \in Nat : /\ Reaches(actions, PointAt(page, n, done))
                   /\ (pc \in {"look", "ask"} => n = steps)
                   /\ (pc = "ask" => TRUE \notin GoalAnswers(page, steps))
                   /\ (pc = "passed" => Hold(Closing(done), page))

(* The replay is on the trail of its recording.                             *)
OnTrail ==
  \E T : /\ Trail(T, script)
         /\ T[Len(script)].page = page /\ T[Len(script)].done = done
         /\ T[pos - 1].page = rpage /\ T[pos - 1].done = rdone
         /\ (rpc = "play" => T[pos - 1].steps = rsteps)
         /\ (rpc = "wrapup" => pos = Len(script) + 1)
Tracks == script = actions /\ OnTrail
ReplayTracks ==
  /\ (cured => rpc # "idle")
  /\ (cured /\ site # Flaky /\ heals = 0 /\ SameStart) =>
       /\ rpc # "failed"
       /\ (rpc \in {"play", "wrapup"} => Hold(Closing(done), page) /\ Tracks)

(* A steady site gives one answer.                                          *)
LEMMA SteadyAnswers ==
  ASSUME site # Flaky
  PROVE  /\ \A S, p : \A v \in Verdicts(S, p) : Verdicts(S, p) = {v}
         /\ \A p, n : FALSE \in GoalAnswers(p, n) => TRUE \notin GoalAnswers(p, n)
         /\ \A a, p : \A to \in Landings(a, p) : Landings(a, p) = {to}
<1>1. ASSUME NEW S, NEW p, NEW v \in Verdicts(S, p) PROVE Verdicts(S, p) = {v}
  BY DEF Verdicts
<1>2. ASSUME NEW p, NEW n, FALSE \in GoalAnswers(p, n) PROVE TRUE \notin GoalAnswers(p, n)
  <2> DEFINE g(v) == Check # {} /\ (\A c \in Check : n >= MinSteps[c] /\ v[c] = "ok")
  <2>1. GoalAnswers(p, n) = {g(v) : v \in Verdicts(Check, p)}
    BY DEF GoalAnswers
  <2> HIDE DEF g
  <2>2. PICK v \in Verdicts(Check, p) : FALSE = g(v)
    BY <1>2, <2>1
  <2>3. GoalAnswers(p, n) = {g(v)}
    BY <1>1, <2>1, <2>2
  <2> QED
    BY <2>2, <2>3
<1>3. ASSUME NEW a, NEW p, NEW to \in Landings(a, p) PROVE Landings(a, p) = {to}
  BY DEF Landings
<1> QED
  BY <1>1, <1>2, <1>3

(* A site does not change, so a trail stays one.                            *)
LEMMA TrailFrozen ==
  ASSUME site' = site, NEW s
  PROVE  /\ \A T : Trail(T, s) <=> Trail(T, s)'
         /\ \A x : Reaches(s, x) <=> Reaches(s, x)'
         /\ \A S, p : Hold(S, p) <=> Hold(S, p)'
         /\ \A p, n : GoalAnswers(p, n) = GoalAnswers(p, n)'
<1>1. \A S, p : Verdicts(S, p) = Verdicts(S, p)'
  BY DEF Verdicts
<1>2. \A S, p : Hold(S, p) <=> Hold(S, p)'
  BY <1>1 DEF Hold, Failing
<1>3. \A p, n : GoalAnswers(p, n) = GoalAnswers(p, n)'
  BY <1>1 DEF GoalAnswers
<1>4. \A a, p : Landings(a, p) = Landings(a, p)'
  BY DEF Landings
<1>5. \A x, e, y : Leads(x, e, y) <=> Leads(x, e, y)'
  BY <1>2, <1>3, <1>4, ZenonT(60) DEF Leads, Bound, Mark, Act, PointAt
<1>6. \A T : Trail(T, s) <=> Trail(T, s)'
  BY <1>5 DEF Trail, PointAt, Point
<1>7. \A x : Reaches(s, x) <=> Reaches(s, x)'
  BY <1>6 DEF Reaches
<1> QED
  BY <1>2, <1>3, <1>6, <1>7

(* Another entry extends the trail.                                         *)
LEMMA TrailExtended ==
  ASSUME NEW s \in Seq(Entry), NEW x, Reaches(s, x),
         NEW e \in Entry, NEW y \in Point, Leads(x, e, y)
  PROVE  Reaches(Append(s, e), y)
<1> DEFINE r == Append(s, e)
<1>1. /\ Len(s) \in Nat /\ Len(r) = Len(s) + 1
      /\ \A i \in 1..Len(s) : r[i] = s[i]
      /\ r[Len(s) + 1] = e
  BY AppendProperties, LenProperties
<1> HIDE DEF r
<1>2. PICK T : Trail(T, s) /\ T[Len(s)] = x
  BY DEF Reaches
<1> DEFINE R == [i \in 0..Len(r) |-> IF i <= Len(s) THEN T[i] ELSE y]
<1>3. /\ T \in [0..Len(s) -> Point] /\ T[0] = PointAt(Blank, 0, {})
      /\ \A i \in 1..Len(s) : Leads(T[i - 1], s[i], T[i])
  BY <1>2 DEF Trail
<1>4. /\ R \in [0..Len(r) -> Point] /\ R[0] = PointAt(Blank, 0, {})
      /\ R[Len(r)] = y /\ R[Len(s)] = x
  BY <1>1, <1>2, <1>3
<1>5. ASSUME NEW i \in 1..Len(r) PROVE Leads(R[i - 1], r[i], R[i])
  <2>1. CASE i <= Len(s)
    <3>1. i \in 1..Len(s) /\ R[i] = T[i] /\ R[i - 1] = T[i - 1] /\ r[i] = s[i]
      BY <1>1, <2>1
    <3> HIDE DEF R
    <3> QED
      BY <1>3, <3>1
  <2>2. CASE i > Len(s)
    <3>1. i = Len(s) + 1 /\ i - 1 = Len(s) /\ i = Len(r)
      BY <1>1, <2>2
    <3> HIDE DEF R
    <3> QED
      BY <1>1, <1>4, <3>1
  <2> QED
    BY <1>1, <2>1, <2>2
<1> HIDE DEF R
<1>6. Trail(R, r)
  BY <1>4, <1>5 DEF Trail
<1> QED
  BY <1>4, <1>6 DEF Reaches, r

(* Every step of the agentic mode keeps the record of an unhealed run.      *)
LEMMA RecordedKept ==
  ASSUME LoopTypeOK, Stack, Recorded, [LoopNext]_vars
  PROVE  Recorded'
<1> SUFFICES ASSUME Unhealed' PROVE Recorded'
  BY DEF Recorded
<1>1. site' = site
  BY DEF LoopNext, LoopStep, Turn, vars, Cancel, Crash, RunOut, SeeCancel, ReachGoal, Ask,
         Unknown, Finish, Fail, MarkAgain, MarkStep, Skip, Execute, Answer,
         BeginRound, GiveUp, Reassert, Unwind, WrapUp, caseVars
<1>2. site # Flaky /\ heals' = 0 /\ pc' \in {"wrapup", "passed", "look", "ask"}
      /\ (pc' \in {"look", "ask"} => (Top.kind = "main")')
  BY <1>1 DEF Unhealed
<1>b. pc \in {"look", "ask", "heal", "reassert", "raise"} => loops # <<>> /\ Top \in Loop
  BY TopPlace DEF Stack
<1>c. ASSUME loops' = loops PROVE Top' = Top
  BY <1>c DEF Top
<1>d. ASSUME loops # <<>>, NEW l \in Loop, SetTop(l) PROVE Top' = l
  <2>1. /\ Len(loops') = Len(loops) /\ Len(loops) \in 1..Len(loops)
        /\ \A i \in 1..Len(loops) : loops'[i] = IF i = Len(loops) THEN l ELSE loops[i]
    BY <1>d, SetTopType, TopType DEF LoopTypeOK
  <2> QED
    BY <2>1 DEF Top
(* The state before the step by name.                                      *)
<1>3. PICK s \in Seq(Entry) : s = actions
  BY DEF LoopTypeOK
<1>4. PICK p \in Page, k \in Nat : p = page /\ k = steps
  BY DEF LoopTypeOK, CaseTypeOK
<1>5. PICK D \in SUBSET (Nat \ {0}) : D = done
  BY LoopAssumption DEF LoopTypeOK
<1>6. ASSUME Unhealed
      PROVE  \E n \in Nat : /\ Reaches(s, PointAt(p, n, D))
                            /\ (pc \in {"look", "ask"} => n = k)
                            /\ (pc = "ask" => TRUE \notin GoalAnswers(p, k))
                            /\ (pc = "passed" => Hold(Closing(D), p))
  BY <1>3, <1>4, <1>5, <1>6 DEF Recorded
(* A step that records nothing.                                            *)
<1>7. ASSUME Unhealed, UNCHANGED <<actions, page, done>>,
             pc' \in {"look", "ask"} => pc \in {"look", "ask"} /\ steps' = steps,
             pc' = "ask" => TRUE \notin GoalAnswers(p, k),
             pc' = "passed" => Hold(Closing(D), p)
      PROVE  Recorded'
  <2>1. PICK n \in Nat : Reaches(s, PointAt(p, n, D)) /\ (pc \in {"look", "ask"} => n = k)
    BY <1>6, <1>7
  <2>2. PICK x : x = PointAt(p, n, D)
    OBVIOUS
  <2>3. Reaches(s, x)'
    BY <1>1, <2>1, <2>2, TrailFrozen
  <2>4. PICK S : S = Closing(D)
    OBVIOUS
  <2>5. (pc' = "ask" => (TRUE \notin GoalAnswers(p, k))') /\ (pc' = "passed" => Hold(S, p)')
    BY <1>1, <1>7, <2>4, TrailFrozen
  <2>6. actions' = s /\ page' = p /\ done' = D /\ (pc' \in {"look", "ask"} => steps' = k)
        /\ x = PointAt(page', n, done') /\ S = Closing(done')
    BY <1>3, <1>4, <1>5, <1>7, <2>2, <2>4
  <2>7. /\ Reaches(actions, PointAt(page, n, done))'
        /\ (pc' = "passed" => Hold(Closing(done), page)')
        /\ (pc' = "ask" => (TRUE \notin GoalAnswers(page, steps))')
        /\ (pc' \in {"look", "ask"} => n = steps')
    BY <1>7, <2>1, <2>3, <2>5, <2>6
  <2> QED
    BY <2>7 DEF Recorded
(* A step of the main loop that records the entry e.                       *)
<1>8. ASSUME Unhealed, pc = "ask", pc' = "look", NEW e \in Entry, NEW y \in Point,
             Leads(PointAt(p, k, D), e, y), actions' = Append(s, e),
             y = PointAt(page', steps', done')
      PROVE  Recorded'
  <2>1. Reaches(s, PointAt(p, k, D))
    BY <1>6, <1>8
  <2>2. PICK r : r = Append(s, e)
    OBVIOUS
  <2>3. Reaches(r, y)
    BY <1>8, <2>1, <2>2, TrailExtended
  <2>4. Reaches(r, y)'
    BY <1>1, <2>3, TrailFrozen
  <2>5. steps' \in Nat
    BY <1>8 DEF Point, PointAt
  <2>6. Reaches(actions, PointAt(page, steps, done))'
    BY <1>8, <2>2, <2>4
  <2> QED
    BY <1>8, <2>5, <2>6 DEF Recorded
<1>9. ASSUME pc = "ask", Unhealed PROVE TRUE \notin GoalAnswers(p, k)
  BY <1>6, <1>9
<1>10. CASE Cancel \/ UNCHANGED vars
  <2>1. UNCHANGED <<actions, page, done, steps, pc, heals, site, loops>>
    BY <1>10 DEF Cancel, vars, caseVars, pageVars
  <2>2. Unhealed
    BY <1>c, <1>2, <2>1 DEF Unhealed
  <2>3. PICK n \in Nat : /\ Reaches(s, PointAt(p, n, D))
                         /\ (pc \in {"look", "ask"} => n = k)
                         /\ (pc = "ask" => TRUE \notin GoalAnswers(p, k))
                         /\ (pc = "passed" => Hold(Closing(D), p))
    BY <1>6, <2>2
  <2> QED
    BY <1>7, <2>1, <2>2, <2>3
<1>11. CASE Crash \/ RunOut \/ SeeCancel \/ Unwind \/ Fail \/ GiveUp
  BY <1>2, <1>11 DEF Crash, RunOut, SeeCancel, Unwind, Fail, GiveUp
<1>12. CASE ReachGoal
  <2>1. Unhealed /\ pc' = "wrapup" /\ UNCHANGED <<actions, page, done>>
    BY <1>2, <1>12 DEF ReachGoal, Unhealed, pageVars
  <2> QED
    BY <1>7, <2>1
<1>13. CASE Ask
  <2>1. /\ pc = "look" /\ pc' = "ask" /\ UNCHANGED <<actions, page, done, steps, heals>>
        /\ SetTop([Top EXCEPT !.left = @ - 1]) /\ Top.left > 0
        /\ (Top.kind = "main" => FALSE \in GoalAnswers(page, steps))
    BY <1>13 DEF Ask, pageVars
  <2>2. Top \in Loop /\ [Top EXCEPT !.left = @ - 1] \in Loop
        /\ [Top EXCEPT !.left = @ - 1].kind = Top.kind
    BY <1>b, <2>1, LoopUpdates DEF Loop
  <2>3. Top.kind = "main"
    BY <1>b, <1>d, <1>2, <2>1, <2>2
  <2>4. Unhealed
    BY <1>2, <2>1, <2>3 DEF Unhealed
  <2>5. TRUE \notin GoalAnswers(p, k)
    BY <1>2, <1>4, <2>1, <2>3, SteadyAnswers
  <2> QED
    BY <1>7, <2>1, <2>4, <2>5
<1>14. CASE Unknown \/ \E n \in 1..MaxMark : MarkAgain(n)
  <2>1. pc = "ask" /\ pc' = "look" /\ UNCHANGED <<actions, page, done, steps, heals, loops>>
    BY <1>14 DEF Unknown, MarkAgain, Answer, pageVars
  <2>2. Unhealed
    BY <1>c, <1>2, <2>1 DEF Unhealed
  <2> QED
    BY <1>7, <2>1, <2>2
<1>15. CASE Finish
  <2>1. pc = "ask" /\ pc' \in {"wrapup", "reassert"} /\ (pc' = "wrapup" => Top.kind = "main")
        /\ UNCHANGED <<actions, page, done, heals>>
    BY <1>15 DEF Finish, Answer, pageVars
  <2>2. Unhealed /\ pc' = "wrapup"
    BY <1>2, <2>1 DEF Unhealed
  <2> QED
    BY <1>7, <2>1, <2>2
<1>16. ASSUME NEW n \in 1..MaxMark, MarkStep(n) PROVE Recorded'
  <2>1. PICK v \in Verdicts(Bound(n), page) :
          /\ AssertPhase(Bound(n), v)
          /\ IF Failing(v) = {} THEN pc' = "look" /\ loops' = loops
             ELSE IF policy.heal_attempts = 0 THEN pc' = "raise" /\ loops' = loops
             ELSE /\ pc' = "heal"
                  /\ loops' = Append(loops, NewLoop("mark", 0, 0, Bound(n)))
    BY <1>16 DEF MarkStep
  <2>2. Failing(v) = {} /\ pc' = "look" /\ loops' = loops
    BY <1>2, <2>1
  <2>3. pc = "ask" /\ heals' = heals /\ n \notin D /\ done' = D \union {n} /\ page' = p
        /\ (Top.kind = "main" => actions' = Append(s, Mark(n)))
    BY <1>3, <1>4, <1>5, <1>16 DEF MarkStep, Answer
  <2>4. Top.kind = "main"
    BY <1>c, <1>2, <2>2
  <2>5. Unhealed
    BY <1>2, <2>3, <2>4 DEF Unhealed
  <2>6. n \in (Nat \ {0}) \ D /\ Cardinality(Bound(n)) \in Nat
    BY <2>3, LoopAssumption, PartsCount DEF Bound
  <2>7. steps' = k + Cardinality(Bound(n))
    BY <1>4, <2>1 DEF AssertPhase
  <2> DEFINE y == PointAt(p, k + Cardinality(Bound(n)), D \union {n})
  <2>8. y \in Point /\ y = PointAt(page', steps', done')
    BY <2>3, <2>6, <2>7 DEF Point, PointAt
  <2>9. Hold(Bound(n), p)
    BY <1>2, <1>4, <2>1, <2>2, SteadyAnswers DEF Hold
  <2>10. Mark(n) \in Entry
    BY <2>6 DEF Mark, Entry
  <2>11. /\ PointAt(p, k, D).page = p /\ PointAt(p, k, D).steps = k
         /\ PointAt(p, k, D).done = D
    BY DEF PointAt
  <2>12. TRUE \notin GoalAnswers(p, k)
    BY <1>9, <2>3, <2>5
  <2>13. Leads(PointAt(p, k, D), Mark(n), y)
    BY <2>6, <2>9, <2>11, <2>12 DEF Leads
  <2> QED
    BY <1>8, <2>2, <2>3, <2>4, <2>5, <2>8, <2>10, <2>13
<1>17. ASSUME NEW a \in Action, Skip(a) PROVE Recorded'
  <2>1. /\ pc = "ask" /\ pc' \in {"look", "raise"}
        /\ UNCHANGED <<actions, page, done, steps, heals>>
        /\ SetTop([Top EXCEPT !.skips[a] = @ + 1])
    BY <1>17 DEF Skip, Answer, pageVars
  <2>2. Top \in Loop /\ [Top EXCEPT !.skips[a] = @ + 1] \in Loop
        /\ [Top EXCEPT !.skips[a] = @ + 1].kind = Top.kind
    BY <1>b, <2>1, LoopUpdates DEF Loop
  <2>3. pc' = "look" /\ Top.kind = "main"
    BY <1>b, <1>d, <1>2, <2>1, <2>2
  <2>4. Unhealed
    BY <1>2, <2>1, <2>3 DEF Unhealed
  <2> QED
    BY <1>7, <2>1, <2>3, <2>4
<1>18. ASSUME NEW a \in Action, Execute(a) PROVE Recorded'
  <2> DEFINE l == IF a \in Exempt THEN Top ELSE [Top EXCEPT !.seen[a] = @ + 1]
  <2>1. pc = "ask" /\ SetTop(l) /\ steps' = k + 1 /\ heals' = heals /\ done' = D
    BY <1>4, <1>5, <1>18 DEF Execute, Answer
  <2>2. /\ [Top EXCEPT !.seen[a] = @ + 1] \in Loop
        /\ [Top EXCEPT !.seen[a] = @ + 1].kind = Top.kind /\ Top \in Loop
    BY <1>b, <2>1, LoopUpdates DEF Loop
  <2>3. l \in Loop /\ l.kind = Top.kind
    BY <2>2
  <2> HIDE DEF l
  <2>4. PICK to \in Landings(a, page) :
          IF to = Broken
          THEN pc' = "raise" /\ UNCHANGED <<page, actions>>
          ELSE /\ pc' = "look" /\ page' = to
               /\ actions' = IF Top.kind = "main"
                             THEN Append(actions, Act(a)) ELSE actions
    BY <1>18 DEF Execute
  <2>5. to # Broken /\ pc' = "look" /\ page' = to
    BY <1>2, <2>4
  <2>6. Top.kind = "main"
    BY <1>b, <1>d, <1>2, <2>1, <2>3, <2>5
  <2>7. actions' = Append(s, Act(a))
    BY <1>3, <2>4, <2>5, <2>6
  <2>8. Unhealed
    BY <1>2, <2>1, <2>6 DEF Unhealed
  <2>9. to \in Page /\ Landings(a, p) = {to}
    BY <1>2, <1>4, <2>4, <2>5, LandingsType, SteadyAnswers DEF LoopTypeOK
  <2> DEFINE y == PointAt(to, k + 1, D)
  <2>10. y \in Point /\ y = PointAt(page', steps', done')
    BY <2>1, <2>5, <2>9 DEF Point, PointAt
  <2>11. Act(a) \in Entry
    BY DEF Act, Entry
  <2>12. /\ PointAt(p, k, D).page = p /\ PointAt(p, k, D).steps = k
         /\ PointAt(p, k, D).done = D
    BY DEF PointAt
  <2>13. TRUE \notin GoalAnswers(p, k)
    BY <1>9, <2>1, <2>8
  <2>14. Leads(PointAt(p, k, D), Act(a), y)
    BY <2>9, <2>12, <2>13 DEF Leads
  <2> QED
    BY <1>8, <2>1, <2>5, <2>7, <2>8, <2>10, <2>11, <2>14
<1>19. CASE BeginRound
  <2>1. pc = "heal" /\ Top.kind # "main" /\ pc' = "look"
        /\ SetTop(NewLoop(Top.kind, Top.attempt + 1, HealBudget, Top.aims))
    BY <1>19 DEF BeginRound, Stack
  <2>2. Top \in Loop /\ Top.kind \in Kind /\ Top.attempt + 1 \in Nat
        /\ Top.aims \in SUBSET Assertion /\ HealBudget \in Nat
    BY <1>b, <2>1, LoopFields, LoopAssumption
  <2>3. /\ NewLoop(Top.kind, Top.attempt + 1, HealBudget, Top.aims) \in Loop
        /\ NewLoop(Top.kind, Top.attempt + 1, HealBudget, Top.aims).kind = Top.kind
    BY <2>2, NewLoopType
  <2> QED
    BY <1>b, <1>d, <1>2, <2>1, <2>3
<1>20. CASE Reassert
  <2>1. pc' = "heal" \/ heals' = heals + 1
    BY <1>20 DEF Reassert
  <2>2. heals \in Nat
    BY DEF LoopTypeOK
  <2> QED
    BY <1>2, <2>1, <2>2
<1>21. CASE WrapUp
  <2>1. PICK v \in Verdicts(Closing(done), page) :
          pc' = IF Failing(v) = {} THEN "passed" ELSE "heal"
    BY <1>21 DEF WrapUp
  <2>2. pc = "wrapup" /\ pc' = "passed" /\ Failing(v) = {}
        /\ UNCHANGED <<actions, page, done, heals>>
    BY <1>2, <1>21, <2>1 DEF WrapUp
  <2>3. Unhealed
    BY <1>2, <2>2 DEF Unhealed
  <2>4. Hold(Closing(D), p)
    BY <1>2, <1>4, <1>5, <2>1, <2>2, SteadyAnswers DEF Hold
  <2> QED
    BY <1>7, <2>2, <2>3, <2>4
<1> QED
  BY <1>10, <1>11, <1>12, <1>13, <1>14, <1>15, <1>16, <1>17, <1>18, <1>19, <1>20, <1>21
     DEF LoopNext, LoopStep, Turn

(* The replay of an unhealed recording stays on its trail to the end.       *)
LEMMA TracksKept ==
  ASSUME ReplayTypeOK, Recorded, ReplayTracks, [Next]_allVars
  PROVE  ReplayTracks'
<1>a. actions \in Seq(Entry) /\ page \in Page /\ pos \in 1..Len(script) + 1
      /\ rpage \in Page /\ rsteps \in Nat /\ script \in Seq(Entry \union {Odd})
  BY DEF ReplayTypeOK, LoopTypeOK, CaseTypeOK
<1>1. CASE Explore \/ Disturb
  <2>1. cured' = cured /\ ~cured
    BY <1>1 DEF Explore, Disturb, replayVars, ReplayTracks
  <2> QED
    BY <2>1 DEF ReplayTracks
<1>2. ASSUME NEW s \in Handmade, PlayHandmade(s) PROVE ReplayTracks'
  BY <1>2 DEF PlayHandmade, Play, ReplayTracks
<1>3. CASE PlayCured
  <2>1. /\ pc = "passed" /\ rpc' = "play" /\ pos' = 1 /\ rdone' = {} /\ rpage' = Blank
        /\ rsteps' = 0 /\ UNCHANGED <<site, actions, page, done, heals>>
    BY <1>3 DEF PlayCured, Play, vars, caseVars, pageVars
  <2>0. SUFFICES ASSUME site # Flaky, heals = 0, SameStart'
                 PROVE  (Hold(Closing(done), page) /\ Tracks)'
    BY <2>1 DEF ReplayTracks
  <2>t. /\ script' = WithNavigation(actions, target')
        /\ target' = NoTarget
             \/ (actions # <<>> /\ actions[1] = Act(target') /\ target' \in Navigations)
    BY <1>3, <2>0, <2>1 DEF PlayCured, Play, SameStart
  <2>2. site # Flaky /\ heals = 0 /\ script' = actions
    BY <2>0, <2>t DEF WithNavigation, IsNavigation, Act
  <2>3. Unhealed
    BY <2>1, <2>2 DEF Unhealed
  <2>s. PICK s \in Seq(Entry) : s = actions
    BY <1>a
  <2>4. PICK p, D : s = actions /\ p = page /\ D = done
    BY <2>s
  <2>5. PICK n \in Nat : Reaches(s, PointAt(p, n, D)) /\ Hold(Closing(D), p)
    BY <2>1, <2>3, <2>4 DEF Recorded
  <2>6. PICK T : Trail(T, s) /\ T[Len(s)] = PointAt(p, n, D)
    BY <2>5 DEF Reaches
  <2>7. PICK S : S = Closing(D)
    OBVIOUS
  <2>8. Trail(T, s)' /\ Hold(S, p)'
    BY <2>1, <2>5, <2>6, <2>7, TrailFrozen
  <2>9. T[0] = PointAt(Blank, 0, {})
    BY <2>6 DEF Trail
  <2>10. script' = s /\ page' = p /\ done' = D /\ S = Closing(done') /\ pos' - 1 = 0
    BY <2>1, <2>2, <2>4, <2>7
  <2>11. /\ T[Len(script')].page = page' /\ T[Len(script')].done = done'
         /\ T[pos' - 1].page = rpage' /\ T[pos' - 1].done = rdone'
         /\ T[pos' - 1].steps = rsteps'
    BY <2>1, <2>6, <2>9, <2>10 DEF PointAt
  <2>12. Trail(T, script)' /\ Hold(Closing(done), page)'
    BY <2>8, <2>10
  <2>13. OnTrail'
    BY <2>1, <2>11, <2>12 DEF OnTrail
  <2>14. (script = actions)'
    BY <2>1, <2>2
  <2> QED
    BY <2>12, <2>13, <2>14 DEF Tracks
<1>4. CASE UNCHANGED allVars
  <2>1. /\ UNCHANGED <<site, actions, page, done, heals>>
        /\ UNCHANGED <<rpc, target, script, cured, pos, rdone, rpage, rsteps>>
    BY <1>4 DEF allVars, vars, caseVars, pageVars, replayVars
  <2>2. SUFFICES ASSUME cured, site # Flaky, heals = 0, SameStart, rpc \in {"play", "wrapup"}
                 PROVE  (Hold(Closing(done), page) /\ Tracks)'
    BY <2>1 DEF ReplayTracks, SameStart
  <2>3. Hold(Closing(done), page) /\ Tracks
    BY <2>2 DEF ReplayTracks
  <2>4. PICK s, p, S : s = script /\ p = page /\ S = Closing(done)
    OBVIOUS
  <2>5. PICK T : /\ Trail(T, script)
                 /\ T[Len(script)].page = page /\ T[Len(script)].done = done
                 /\ T[pos - 1].page = rpage /\ T[pos - 1].done = rdone
                 /\ (rpc = "play" => T[pos - 1].steps = rsteps)
                 /\ (rpc = "wrapup" => pos = Len(script) + 1)
    BY <2>3 DEF Tracks, OnTrail
  <2>6. Trail(T, s)' /\ Hold(S, p)'
    BY <2>1, <2>3, <2>4, <2>5, TrailFrozen
  <2>7. s = script' /\ p = page' /\ S = Closing(done')
    BY <2>1, <2>4
  <2>8. Trail(T, script)' /\ Hold(Closing(done), page)'
    BY <2>6, <2>7
  <2>9. OnTrail'
    BY <2>1, <2>5, <2>8 DEF OnTrail
  <2>10. (script = actions)'
    BY <2>1, <2>3 DEF Tracks
  <2> QED
    BY <2>8, <2>9, <2>10 DEF Tracks
(* A step of the replay, which leaves the recording alone.                 *)
<1>5. ASSUME ReplayStep \/ ReplayStop \/ ReplayCrash PROVE ReplayTracks'
  <2>1. UNCHANGED <<site, actions, page, done, heals, target, script, cured>> /\ rpc' # "idle"
    BY <1>5 DEF ReplayStep, ReplayGoal, ReplaySkip, ReplayBadMark, ReplayMark, ReplayAct, ReplayEnd,
                ReplayWrapUp, ReplayStop, ReplayCrash, Playing, Proceed, vars, caseVars, pageVars
  <2>2. rpc \in {"play", "wrapup"}
    BY <1>5 DEF ReplayStep, ReplayGoal, ReplaySkip, ReplayBadMark, ReplayMark, ReplayAct, ReplayEnd,
                ReplayWrapUp, ReplayStop, ReplayCrash, Playing, Proceed
  <2>3. SUFFICES ASSUME cured, site # Flaky, heals = 0, SameStart
                 PROVE  /\ rpc' # "failed"
                        /\ (rpc' \in {"play", "wrapup"} => (Hold(Closing(done), page) /\ Tracks)')
    BY <2>1 DEF ReplayTracks, SameStart
  <2>4. Hold(Closing(done), page) /\ Tracks
    BY <2>2, <2>3 DEF ReplayTracks
  <2>5. PICK s, p, S : s = script /\ p = page /\ S = Closing(done)
    OBVIOUS
  <2>6. PICK T : /\ Trail(T, script)
                 /\ T[Len(script)].page = page /\ T[Len(script)].done = done
                 /\ T[pos - 1].page = rpage /\ T[pos - 1].done = rdone
                 /\ (rpc = "play" => T[pos - 1].steps = rsteps)
                 /\ (rpc = "wrapup" => pos = Len(script) + 1)
    BY <2>4 DEF Tracks, OnTrail
  <2>7. Trail(T, script)' /\ Hold(Closing(done), page)'
    <3>1. Trail(T, s)' /\ Hold(S, p)'
      BY <2>1, <2>4, <2>5, <2>6, TrailFrozen
    <3>2. s = script' /\ p = page' /\ S = Closing(done')
      BY <2>1, <2>5
    <3> QED
      BY <3>1, <3>2
  <2>8. ASSUME rpc' \in {"play", "wrapup", "passed", "stopped", "crashed"},
               rpc' \in {"play", "wrapup"} =>
                 T[pos' - 1].page = rpage' /\ T[pos' - 1].done = rdone',
               rpc' = "play" => T[pos' - 1].steps = rsteps',
               rpc' = "wrapup" => pos' = Len(script) + 1
        PROVE  /\ rpc' # "failed"
               /\ (rpc' \in {"play", "wrapup"} => (Hold(Closing(done), page) /\ Tracks)')
    <3>1. rpc' # "failed"
      BY <2>8
    <3>2. ASSUME rpc' \in {"play", "wrapup"} PROVE Tracks'
      <4>1. OnTrail'
        BY <2>1, <2>6, <2>7, <2>8, <3>2 DEF OnTrail
      <4>2. (script = actions)'
        BY <2>1, <2>4 DEF Tracks
      <4> QED
        BY <4>1, <4>2 DEF Tracks
    <3> QED
      BY <2>7, <3>1, <3>2
  (* The entry at hand leads to the next point.                            *)
  <2>9. ASSUME Playing
        PROVE  /\ TRUE \notin GoalAnswers(rpage, rsteps)
               /\ pos + 1 - 1 = pos /\ T[pos - 1] \in Point
               /\ \/ \E n \in (Nat \ {0}) \ rdone :
                       /\ entry = Mark(n) /\ Hold(Bound(n), rpage)
                       /\ T[pos] = PointAt(rpage, rsteps + Cardinality(Bound(n)), rdone \union {n})
                  \/ \E a \in Action, q \in Page :
                       /\ entry = Act(a) /\ Landings(a, rpage) = {q}
                       /\ T[pos] = PointAt(q, rsteps + 1, rdone)
    <3>1. rpc = "play" /\ pos \in 1..Len(script) /\ Len(script) \in Nat
      BY <1>a, <2>9 DEF Playing
    <3>2. Leads(T[pos - 1], script[pos], T[pos]) /\ T \in [0..Len(script) -> Point]
      BY <2>6, <3>1 DEF Trail
    <3>3. pos - 1 \in 0..Len(script) /\ pos + 1 - 1 = pos
      BY <3>1
    <3>4. T[pos - 1].page = rpage /\ T[pos - 1].done = rdone /\ T[pos - 1].steps = rsteps
      BY <2>6, <3>1
    <3> QED
      BY <3>2, <3>3, <3>4 DEF Leads, entry
  <2>10. CASE ReplayStop \/ ReplayCrash
    BY <2>8, <2>10 DEF ReplayStop, ReplayCrash
  <2>11. CASE ReplayGoal
    BY <2>9, <2>11 DEF ReplayGoal
  <2>12. CASE ReplaySkip \/ ReplayBadMark
    <3>1. Playing /\ (entry = Odd \/ (entry[1] = "mark" /\ (entry[2] \in rdone \/ entry[2] < 1)))
      BY <2>12 DEF ReplaySkip, ReplayBadMark, Proceed
    <3>2. ASSUME NEW n \in (Nat \ {0}) \ rdone, entry = Mark(n) PROVE FALSE
      <4>1. entry[1] = "mark" /\ entry[2] = n /\ entry # Odd
        BY <3>2 DEF Mark, Odd
      <4> QED
        BY <3>1, <4>1
    <3>3. ASSUME NEW a, entry = Act(a) PROVE FALSE
      <4>1. entry[1] = "act" /\ entry # Odd
        BY <3>3 DEF Act, Odd
      <4> QED
        BY <3>1, <4>1
    <3> QED
      BY <2>9, <3>1, <3>2, <3>3
  <2>13. CASE ReplayMark
    <3>1. /\ Playing /\ pos' = pos + 1 /\ entry[1] = "mark"
          /\ rdone' = rdone \union {entry[2]} /\ rpage' = rpage
      BY <2>13 DEF ReplayMark, Proceed
    <3>2. ASSUME NEW a, entry = Act(a) PROVE FALSE
      BY <3>1, <3>2 DEF Act
    <3>3. PICK n \in (Nat \ {0}) \ rdone :
            /\ entry = Mark(n) /\ Hold(Bound(n), rpage)
            /\ T[pos] = PointAt(rpage, rsteps + Cardinality(Bound(n)), rdone \union {n})
      BY <2>9, <3>1, <3>2
    <3>4. entry[2] = n
      BY <3>3 DEF Mark
    <3>5. PICK v \in Verdicts(Bound(n), rpage) :
            /\ Judge(Bound(n), v)
            /\ rpc' = IF Failing(v) = {} THEN "play" ELSE "failed"
      BY <2>13, <3>4 DEF ReplayMark
    <3>6. Failing(v) = {}
      BY <3>3, <3>5 DEF Hold
    <3>7. rpc' = "play" /\ rsteps' = rsteps + Cardinality(Bound(n))
      BY <3>5, <3>6 DEF Judge
    <3>8. pos' - 1 = pos
      BY <1>a, <3>1
    <3>9. T[pos' - 1].page = rpage' /\ T[pos' - 1].done = rdone' /\ T[pos' - 1].steps = rsteps'
      BY <3>1, <3>3, <3>4, <3>7, <3>8 DEF PointAt
    <3> QED
      BY <2>8, <3>7, <3>9
  <2>14. CASE ReplayAct
    <3>1. /\ Playing /\ pos' = pos + 1 /\ entry[1] = "act" /\ rsteps' = rsteps + 1
          /\ rdone' = rdone
      BY <2>14 DEF ReplayAct, Proceed
    <3>2. ASSUME NEW n, entry = Mark(n) PROVE FALSE
      BY <3>1, <3>2 DEF Mark
    <3>3. PICK a \in Action, q \in Page :
            /\ entry = Act(a) /\ Landings(a, rpage) = {q}
            /\ T[pos] = PointAt(q, rsteps + 1, rdone)
      BY <2>9, <3>1, <3>2
    <3>0. entry[2] = a
      BY <3>3 DEF Act
    <3>4. Meant(entry[2]) = a
      <4>1. CASE pos = 1 /\ target # NoTarget
        <5>1. actions[1] = Act(target) /\ entry = actions[1]
          BY <2>3, <2>4, <4>1 DEF SameStart, Tracks, entry
        <5>2. a = target
          BY <3>0, <5>1 DEF Act
        <5> QED
          BY <3>0, <4>1, <5>2 DEF Meant
      <4>2. CASE ~(pos = 1 /\ target # NoTarget)
        BY <3>0, <4>2 DEF Meant
      <4> QED
        BY <4>1, <4>2
    <3>5. IF q = Broken THEN rpc' = "failed" /\ rpage' = rpage
                        ELSE rpc' = "play" /\ rpage' = q
      BY <2>14, <3>3, <3>4 DEF ReplayAct
    <3>6. rpc' = "play" /\ rpage' = q
      BY <3>5, CaseAssumption
    <3>7. pos' - 1 = pos
      BY <1>a, <3>1
    <3>8. T[pos' - 1].page = rpage' /\ T[pos' - 1].done = rdone' /\ T[pos' - 1].steps = rsteps'
      BY <3>1, <3>3, <3>6, <3>7 DEF PointAt
    <3> QED
      BY <2>8, <3>6, <3>8
  <2>15. CASE ReplayEnd
    <3>1. rpc' = "wrapup" /\ pos > Len(script) /\ UNCHANGED <<pos, rpage, rdone>>
      BY <2>15 DEF ReplayEnd
    <3>2. pos' = Len(script) + 1
      BY <1>a, <3>1
    <3>3. T[pos' - 1].page = rpage' /\ T[pos' - 1].done = rdone'
      BY <2>6, <3>1
    <3> QED
      BY <2>8, <3>1, <3>2, <3>3
  <2>16. CASE ReplayWrapUp
    <3>1. PICK v \in Verdicts(Closing(rdone), rpage) :
            rpc' = IF Failing(v) = {} THEN "passed" ELSE "failed"
      BY <2>16 DEF ReplayWrapUp
    <3>2. pos - 1 = Len(script)
      BY <1>a, <2>6, <2>16 DEF ReplayWrapUp
    <3>3. rpage = page /\ rdone = done
      BY <2>6, <3>2
    <3>4. rpc' = "passed"
      BY <2>4, <3>1, <3>3 DEF Hold
    <3> QED
      BY <2>8, <3>4
  <2> QED
    BY <1>5, <2>10, <2>11, <2>12, <2>13, <2>14, <2>15, <2>16 DEF ReplayStep
<1> QED
  BY <1>1, <1>2, <1>3, <1>4, <1>5 DEF Next, StartReplay

(* A recording is a trail, and its replay stays on it.                      *)
LEMMA RecordsAreTrails == Spec => [](Recorded /\ ReplayTracks)
<1>1. Init => Recorded /\ ReplayTracks
  <2> SUFFICES ASSUME Init PROVE Recorded /\ ReplayTracks
    OBVIOUS
  <2>1. actions = <<>> /\ page = Blank /\ steps = 0 /\ done = {} /\ pc = "look"
    BY DEF Init, LoopInit
  <2>2. PointAt(Blank, 0, {}) \in Point
    BY CaseAssumption DEF Point, PointAt
  <2> DEFINE T == [i \in {0} |-> PointAt(Blank, 0, {})]
  <2>3. Len(<<>>) = 0 /\ 0..0 = {0}
    OBVIOUS
  <2>4. T \in [0..Len(<<>>) -> Point] /\ T[0] = PointAt(Blank, 0, {})
    BY <2>2, <2>3
  <2> HIDE DEF T
  <2>5. Trail(T, <<>>)
    BY <2>3, <2>4 DEF Trail
  <2>6. Reaches(<<>>, PointAt(Blank, 0, {}))
    BY <2>3, <2>4, <2>5 DEF Reaches
  <2>7. Recorded
    BY <2>1, <2>6 DEF Recorded
  <2>8. ReplayTracks
    BY DEF Init, ReplayInit, ReplayTracks
  <2> QED
    BY <2>7, <2>8
<1>2. ReplayTypeOK /\ Stack /\ Recorded /\ ReplayTracks /\ [Next]_allVars
        => (Recorded /\ ReplayTracks)'
  <2> SUFFICES ASSUME ReplayTypeOK, Stack, Recorded, ReplayTracks, [Next]_allVars
               PROVE  (Recorded /\ ReplayTracks)'
    OBVIOUS
  <2>1. LoopTypeOK /\ [LoopNext]_vars
    BY ModesApart DEF ReplayTypeOK
  <2> QED
    BY <2>1, RecordedKept, TracksKept
<1> QED
  BY <1>1, <1>2, AgentTypes, PTL DEF Spec

(* The replay of what a run recorded passes where the run passed unhealed,  *)
(* on a site that answers as it did.                                        *)
THEOREM RecordingsReplay == Spec => []RecordingReplays
<1>1. ReplayTracks => RecordingReplays
  BY DEF ReplayTracks, RecordingReplays
<1> QED
  BY <1>1, RecordsAreTrails, PTL
-----------------------------------------------------------------------------
(* Induction over the positions of a list, without an induction theorem: a  *)
(* set of numbers has a smallest one, so that a set of positions which      *)
(* holds 0 and with each position the next one holds all of them.           *)
LEMMA Smallest ==
  ASSUME NEW T \in SUBSET Nat, T # {}
  PROVE  \E m \in T : \A k \in T : m <= k
<1> DEFINE R == OpToRel(<, Nat)
<1>1. IsWellFoundedOn(R, Nat)
  BY NatLessThanWellFounded
<1>2. \A x, y \in Nat : <<x, y>> \in R <=> x < y
  BY DEF OpToRel
<1> HIDE DEF R
<1>3. PICK m \in T : \A y \in T : ~(<<y, m>> \in R)
  BY <1>1, WFMin
<1>4. ASSUME NEW k \in T PROVE m <= k
  <2>1. m \in Nat /\ k \in Nat /\ ~(<<k, m>> \in R)
    BY <1>3
  <2>2. ~(k < m)
    BY <1>2, <2>1
  <2> QED
    BY <2>1, <2>2
<1> QED
  BY <1>4

LEMMA Climb ==
  ASSUME NEW n \in Nat, NEW S, 0 \in S,
         \A i \in 0..n : i \in S /\ i < n => i + 1 \in S
  PROVE  \A i \in 0..n : i \in S
<1> DEFINE T == {i \in 0..n : i \notin S}
<1> SUFFICES ASSUME T # {} PROVE FALSE
  OBVIOUS
<1>1. T \in SUBSET Nat
  OBVIOUS
<1>2. PICK m \in T : \A k \in T : m <= k
  <2> HIDE DEF T
  <2> QED
    BY <1>1, Smallest
<1>3. m \in 0..n /\ m \notin S /\ m # 0
  OBVIOUS
<1>4. m - 1 \in 0..n /\ m - 1 < n /\ (m - 1) + 1 = m /\ ~(m <= m - 1)
  BY <1>3
<1>5. m - 1 \in S
  BY <1>2, <1>4
<1>6. (m - 1) + 1 \in S
  <2> HIDE DEF T
  <2>1. PICK k \in 0..n : k = m - 1
    BY <1>4
  <2> QED
    BY <1>4, <1>5, <2>1
<1> QED
  BY <1>3, <1>4, <1>6

(* The lines of a script.                                                  *)
CodeLine == ({"act"} \X Action) \union ({"assert"} \X SUBSET Assertion)

(* A script starts with a navigation of its list, or with the case's URL.   *)
LEMMA StartNavigates ==
  ASSUME NEW s \in Seq(Entry)
  PROVE  /\ Start(s) \in CodeLine /\ Start(s)[1] = "act"
         /\ (s # <<>> /\ IsNavigation(s[1]) => Start(s) = s[1])
<1> DEFINE places == {i \in DOMAIN s : IsNavigation(s[i])}
<1>1. Len(s) \in Nat /\ DOMAIN s = 1..Len(s) /\ \A i \in 1..Len(s) : s[i] \in Entry
  BY LenProperties, ElementOfSeq
<1>2. CASE places = {}
  <2>1. Start(s) = Act(CaseUrl)
    BY <1>2 DEF Start
  <2>2. ~(s # <<>> /\ IsNavigation(s[1]))
    BY <1>1, <1>2
  <2>3. CaseUrl \in Action
    BY CaseAssumption, CodeAssumption
  <2> QED
    BY <2>1, <2>2, <2>3 DEF Act, CodeLine
<1>3. CASE places # {}
  <2>1. PICK m \in places : \A j \in places : m <= j
    <3>1. places \in SUBSET Nat
      BY <1>1
    <3> HIDE DEF places
    <3> QED
      BY <1>3, <3>1, Smallest
  <2> DEFINE f == CHOOSE i \in places : \A j \in places : i <= j
  <2>2. f \in places /\ \A j \in places : f <= j
    <3> HIDE DEF places
    <3> QED
      BY <2>1
  <2>3. Start(s) = s[f]
    BY <1>3 DEF Start
  <2>4. s # <<>> /\ IsNavigation(s[1]) => f = 1
    <3>1. s # <<>> => 1 \in 1..Len(s)
      BY <1>1
    <3>2. s # <<>> /\ IsNavigation(s[1]) => 1 \in places
      BY <1>1, <3>1
    <3>3. f \in 1..Len(s)
      BY <1>1, <2>2
    <3> HIDE DEF f, places
    <3> QED
      BY <1>1, <2>2, <3>2, <3>3
  <2>5. s[f] \in Entry /\ s[f][1] = "act"
    BY <1>1, <2>2 DEF IsNavigation
  <2>6. s[f] \in CodeLine
    <3> HIDE DEF f
    <3> QED
      BY <2>5 DEF Entry, CodeLine
  <2> HIDE DEF f, places
  <2> QED
    BY <2>3, <2>4, <2>5, <2>6
<1> QED
  BY <1>2, <1>3

LEMMA ScriptShape ==
  ASSUME NEW s \in Seq(Entry)
  PROVE  /\ Len(Script(s)) = Len(s) + 2 /\ DOMAIN Script(s) = 1..(Len(s) + 2)
         /\ Script(s)[1] = Start(s)
         /\ \A i \in 1..Len(s) : Script(s)[i + 1] = Line(s[i])
         /\ Script(s)[Len(s) + 2] = Expect(Bound(0))
<1>1. Len(s) \in Nat /\ DOMAIN s = 1..Len(s) /\ \A i \in 1..Len(s) : s[i] \in Entry
  BY LenProperties, ElementOfSeq
<1>2. ASSUME NEW S \in SUBSET Assertion PROVE Expect(S) \in CodeLine
  BY DEF Expect, CodeLine
<1>3. ASSUME NEW x \in Entry PROVE Line(x) \in CodeLine
  <2>1. CASE x \in {"mark"} \X Nat
    <3>1. Bound(x[2]) \in SUBSET Assertion /\ x[1] = "mark"
      BY <2>1 DEF Bound
    <3> QED
      BY <1>2, <3>1 DEF Line
  <2>2. CASE x \in {"act"} \X Action
    <3>1. x \in CodeLine /\ Expect({}) \in CodeLine /\ x[1] = "act"
      BY <1>2, <2>2 DEF CodeLine
    <3> QED
      BY <3>1 DEF Line
  <2> QED
    BY <2>1, <2>2 DEF Entry
<1>4. Start(s) \in CodeLine /\ Expect(Bound(0)) \in CodeLine
  <2>1. Start(s) \in CodeLine
    BY StartNavigates
  <2>2. Bound(0) \in SUBSET Assertion
    BY DEF Bound
  <2> QED
    BY <1>2, <2>1, <2>2
<1> DEFINE f == <<Start(s)>>
           g == [i \in DOMAIN s |-> Line(s[i])]
           h == <<Expect(Bound(0))>>
<1>5. /\ f \in Seq(CodeLine) /\ Len(f) = 1 /\ f[1] = Start(s)
      /\ h \in Seq(CodeLine) /\ Len(h) = 1 /\ h[1] = Expect(Bound(0))
  BY <1>4
<1>6. /\ g \in Seq(CodeLine) /\ Len(g) = Len(s)
      /\ \A i \in 1..Len(s) : g[i] = Line(s[i])
  <2>1. g \in [1..Len(s) -> CodeLine]
    BY <1>1, <1>3
  <2>2. \A i \in 1..Len(s) : g[i] = Line(s[i])
    BY <1>1
  <2> HIDE DEF g
  <2>3. g \in Seq(CodeLine) /\ DOMAIN g = 1..Len(s)
    BY <1>1, <2>1, IsASeq
  <2>4. Len(g) = Len(s)
    BY <1>1, <2>3, LenProperties
  <2> QED
    BY <2>2, <2>3, <2>4
<1>7. Script(s) = (f \o g) \o h
  BY DEF Script
<1> HIDE DEF f, g, h
<1>8. /\ f \o g \in Seq(CodeLine) /\ Len(f \o g) = Len(s) + 1
      /\ (f \o g)[1] = Start(s)
      /\ \A i \in 1..Len(s) : (f \o g)[i + 1] = Line(s[i])
  <2>1. /\ f \o g \in Seq(CodeLine) /\ Len(f \o g) = Len(s) + 1
        /\ \A i \in 1..(Len(s) + 1) :
             (f \o g)[i] = IF i <= 1 THEN f[i] ELSE g[i - 1]
    <3>1. /\ f \o g \in Seq(CodeLine) /\ Len(f \o g) = Len(f) + Len(g)
          /\ \A i \in 1..(Len(f) + Len(g)) :
               (f \o g)[i] = IF i <= Len(f) THEN f[i] ELSE g[i - Len(f)]
      BY <1>5, <1>6, ConcatProperties, ZenonT(60)
    <3>2. Len(f) + Len(g) = Len(s) + 1
      BY <1>1, <1>5, <1>6
    <3> QED
      BY <1>5, <3>1, <3>2
  <2>2. \A i \in 1..Len(s) : i + 1 \in 1..(Len(s) + 1) /\ ~(i + 1 <= 1) /\ (i + 1) - 1 = i
    BY <1>1
  <2>3. 1 \in 1..(Len(s) + 1)
    BY <1>1
  <2> QED
    BY <1>5, <1>6, <2>1, <2>2, <2>3
<1> DEFINE k == f \o g
<1>9. k \in Seq(CodeLine) /\ Len(k) = Len(s) + 1
  BY <1>8
<1> HIDE DEF k
<1>10. /\ k \o h \in Seq(CodeLine) /\ Len(k \o h) = Len(s) + 2
       /\ \A i \in 1..(Len(s) + 2) :
            (k \o h)[i] = IF i <= Len(s) + 1 THEN k[i] ELSE h[i - (Len(s) + 1)]
  <2>1. /\ k \o h \in Seq(CodeLine) /\ Len(k \o h) = Len(k) + Len(h)
        /\ \A i \in 1..(Len(k) + Len(h)) :
             (k \o h)[i] = IF i <= Len(k) THEN k[i] ELSE h[i - Len(k)]
    BY <1>5, <1>9, ConcatProperties
  <2>2. Len(k) + Len(h) = Len(s) + 2
    BY <1>1, <1>5, <1>9
  <2> QED
    BY <1>9, <2>1, <2>2
<1>11. /\ 1 \in 1..(Len(s) + 2) /\ 1 <= Len(s) + 1
       /\ Len(s) + 2 \in 1..(Len(s) + 2) /\ ~(Len(s) + 2 <= Len(s) + 1)
       /\ (Len(s) + 2) - (Len(s) + 1) = 1
       /\ \A i \in 1..Len(s) : i + 1 \in 1..(Len(s) + 2) /\ i + 1 <= Len(s) + 1
  BY <1>1
<1>12. Script(s) = k \o h
  BY <1>7 DEF k
<1>13. DOMAIN Script(s) = 1..(Len(s) + 2)
  BY <1>10, <1>12, LenProperties
<1>14. k[1] = Start(s) /\ \A i \in 1..Len(s) : k[i + 1] = Line(s[i])
  BY <1>8 DEF k
<1> QED
  BY <1>5, <1>10, <1>11, <1>12, <1>13, <1>14

(* A function that is computed line by line as Played computes, is what it *)
(* computes.                                                               *)
LEMMA PlayedFollows ==
  ASSUME NEW code, Len(code) \in Nat, NEW F, F[0] = Blank,
         \A i \in 1..Len(code) : F[i] = PlayLine(F[i - 1], code[i])
  PROVE  Played(code) = F[Len(code)]
<1> DEFINE n == Len(code)
           Plays(g) == g = [i \in 0..n |-> IF i = 0 THEN Blank
                                           ELSE PlayLine(g[i - 1], code[i])]
           at == CHOOSE g : Plays(g)
<1>1. Plays([i \in 0..n |-> F[i]])
  <2> DEFINE g == [i \in 0..n |-> F[i]]
             e(i) == IF i = 0 THEN Blank ELSE PlayLine(g[i - 1], code[i])
  <2>1. ASSUME NEW i \in 0..n PROVE F[i] = e(i)
    <3>1. CASE i = 0
      BY <3>1
    <3>2. CASE i # 0
      <4>1. i \in 1..n /\ i - 1 \in 0..n
        BY <3>2
      <4>2. g[i - 1] = F[i - 1]
        BY <4>1
      <4> QED
        BY <3>2, <4>1, <4>2
    <3> QED
      BY <3>1, <3>2
  <2> HIDE DEF e
  <2>2. g = [i \in 0..n |-> e(i)]
    BY <2>1
  <2> QED
    BY <2>2 DEF e
<1>2. Plays(at)
  BY <1>1
<1>3. Played(code) = at[n]
  BY DEF Played
<1> DEFINE S == {i \in 0..n : at[i] = F[i]}
<1>4. /\ at[0] = Blank
      /\ \A i \in 1..n : at[i] = PlayLine(at[i - 1], code[i])
  <2> HIDE DEF at
  <2> QED
    BY <1>2
<1> HIDE DEF at
<1>5. 0 \in S
  BY <1>4
<1>6. ASSUME NEW i \in 0..n, i \in S /\ i < n PROVE i + 1 \in S
  <2>1. i + 1 \in 1..n /\ i + 1 \in 0..n /\ (i + 1) - 1 = i /\ at[i] = F[i]
    BY <1>6
  <2>2. at[i + 1] = PlayLine(at[i], code[i + 1]) /\ F[i + 1] = PlayLine(F[i], code[i + 1])
    BY <1>4, <2>1
  <2> QED
    BY <2>1, <2>2
<1>7. n \in S
  <2> HIDE DEF S
  <2>1. \A i \in 0..n : i \in S
    BY <1>5, <1>6, Climb
  <2> QED
    BY <2>1
<1> QED
  BY <1>3, <1>7

(* On a steady site an assertion that must hold, holds.                    *)
LEMMA HoldingLines ==
  ASSUME site # Flaky, NEW p \in Page, NEW S, Hold(S, p), NEW R \in SUBSET S,
         R \subseteq Assertion, \A a \in R \ Wordless : a \notin Strict
  PROVE  PlayLine(p, Expect(R)) = p
<1> DEFINE v == [x \in S |-> IF p \in site.shows[x] THEN "ok" ELSE "bad"]
<1>1. v \in Verdicts(S, p)
  BY DEF Verdicts
<1>2. Failing(v) = {}
  BY <1>1 DEF Hold
<1>3. ASSUME NEW a \in S PROVE p \in site.shows[a]
  <2>1. v[a] = "ok" /\ a \in S
    BY <1>2 DEF Failing
  <2> QED
    BY <2>1
<1>4. p # Broken
  BY CaseAssumption
<1>5. Expect(R)[1] = "assert" /\ Expect(R)[2] = R \ Wordless
  BY DEF Expect
<1>6. ASSUME NEW a \in R \ Wordless PROVE p \in site.code[a]
  BY <1>3 DEF Strict
<1> QED
  BY <1>4, <1>5, <1>6 DEF PlayLine

LEMMA ActsReplayed ==
  ASSUME site # Flaky, NEW p \in Page, NEW q \in Page, NEW a \in Action,
         Landings(a, p) = {q}
  PROVE  PlayLine(p, Act(a)) = q
<1>1. PICK z : z = site.effect[p, a]
  OBVIOUS
<1>2. Landings(a, p) = {z}
  BY <1>1 DEF Landings
<1>3. z = q
  BY <1>2
<1>4. p # Broken
  BY CaseAssumption
<1>5. Act(a)[1] = "act" /\ Act(a)[2] = a
  BY DEF Act
<1>6. PlayLine(p, Act(a)) = z
  BY <1>1, <1>4, <1>5, Zenon DEF PlayLine
<1> QED
  BY <1>3, <1>6

(* What led a recording from a point to the next one leads its script from *)
(* the page of the one to the page of the other.                           *)
LEMMA LeadReplayed ==
  ASSUME site # Flaky, NEW x \in Point, NEW y \in Point, NEW e \in Entry, Leads(x, e, y)
  PROVE  /\ e[1] = "act" => PlayLine(x.page, e) = y.page
         /\ (\A a \in Unwritten \union Navigations : e # Act(a))
                /\ (\A a \in Strict : ~Asserts(Line(e), a))
              => PlayLine(x.page, Line(e)) = y.page
<1>1. x.page \in Page /\ y.page \in Page
  BY DEF Point
<1>2. CASE \E n \in (Nat \ {0}) \ x.done :
             /\ e = Mark(n) /\ Hold(Bound(n), x.page)
             /\ y = PointAt(x.page, x.steps + Cardinality(Bound(n)), x.done \union {n})
  <2>1. PICK n \in Nat : /\ e = Mark(n) /\ Hold(Bound(n), x.page) /\ y.page = x.page
    BY <1>2 DEF PointAt
  <2>2. e[1] = "mark" /\ e[2] = n /\ Bound(n) \in SUBSET Assertion
    BY <2>1 DEF Mark, Bound
  <2>3. Line(e) = Expect(Bound(n))
    BY <2>2 DEF Line
  <2>4. ASSUME \A a \in Strict : ~Asserts(Line(e), a)
        PROVE  PlayLine(x.page, Line(e)) = y.page
    <3>1. \A a \in Bound(n) \ Wordless : a \notin Strict
      BY <2>3, <2>4 DEF Asserts, Expect
    <3> QED
      BY <1>1, <2>1, <2>2, <2>3, <3>1, HoldingLines
  <2> QED
    BY <2>2, <2>4
<1>3. CASE \E a \in Action, p \in Page :
             /\ e = Act(a) /\ Landings(a, x.page) = {p}
             /\ y = PointAt(p, x.steps + 1, x.done)
  <2>1. PICK a \in Action, p \in Page :
          e = Act(a) /\ Landings(a, x.page) = {p} /\ y.page = p
    BY <1>3 DEF PointAt
  <2>2. PlayLine(x.page, e) = y.page
    BY <1>1, <2>1, ActsReplayed
  <2>3. e[1] = "act" /\ e[2] = a
    BY <2>1 DEF Act
  <2>4. ASSUME \A b \in Unwritten \union Navigations : e # Act(b) PROVE Line(e) = e
    BY <2>1, <2>3, <2>4 DEF Line
  <2> QED
    BY <2>2, <2>4
<1> QED
  BY <1>2, <1>3 DEF Leads

(* A recording marks a step once: the marks on a trail are never forgotten.*)
LEMMA MarkedOnce ==
  ASSUME NEW s \in Seq(Entry), NEW T, Trail(T, s), NEW n,
         NEW i \in 1..Len(s), NEW j \in 1..Len(s), s[i] = Mark(n), s[j] = Mark(n)
  PROVE  i = j
<1> DEFINE N == Len(s)
<1>1. /\ N \in Nat /\ T \in [0..N -> Point]
      /\ \A k \in 1..N : Leads(T[k - 1], s[k], T[k])
  BY LenProperties DEF Trail
<1>2. ASSUME NEW x, NEW e, NEW y, Leads(x, e, y)
      PROVE  /\ x.done \subseteq y.done
             /\ \A m : e = Mark(m) => m \notin x.done /\ m \in y.done
  BY <1>2 DEF Leads, Mark, Act, PointAt
<1>3. ASSUME NEW a \in 1..N, NEW b \in 1..N, a < b, s[a] = Mark(n), s[b] = Mark(n)
      PROVE  FALSE
  <2> DEFINE S == {k \in 0..N : k >= a => n \in T[k].done}
  <2>1. 0 \in S
    BY <1>1
  <2>2. ASSUME NEW k \in 0..N, k \in S /\ k < N PROVE k + 1 \in S
    <3>1. k + 1 \in 1..N /\ k + 1 \in 0..N /\ (k + 1) - 1 = k
      BY <1>1, <2>2
    <3>2. Leads(T[k], s[k + 1], T[k + 1])
      BY <1>1, <3>1
    <3>3. CASE k >= a
      <4>1. n \in T[k].done
        BY <2>2, <3>3
      <4>2. n \in T[k + 1].done
        BY <1>2, <3>2, <4>1
      <4> QED
        BY <3>1, <4>2
    <3>4. CASE k + 1 = a
      <4>1. n \in T[k + 1].done
        BY <1>2, <1>3, <3>2, <3>4
      <4> QED
        BY <3>1, <4>1
    <3>5. CASE ~(k >= a) /\ k + 1 # a
      <4>1. ~(k + 1 >= a)
        BY <1>1, <3>5
      <4> QED
        BY <3>1, <4>1
    <3> QED
      BY <3>3, <3>4, <3>5
  <2> HIDE DEF S
  <2>3. \A k \in 0..N : k \in S
    BY <1>1, <2>1, <2>2, Climb
  <2>4. b - 1 \in 0..N /\ b - 1 >= a
    BY <1>1, <1>3
  <2>5. n \in T[b - 1].done
    BY <2>3, <2>4 DEF S
  <2> QED
    BY <1>1, <1>2, <1>3, <2>5
<1> QED
  BY <1>1, <1>3

(* What a line asserts.                                                    *)
LEMMA LineAsserts ==
  ASSUME NEW x \in Entry, NEW a \in Assertion \ Wordless
  PROVE  Asserts(Line(x), a) <=> x = Mark(After[a])
<1>1. \A S : Asserts(Expect(S), a) <=> a \in S
  BY DEF Asserts, Expect
<1>2. CASE x \in {"mark"} \X Nat
  <2>1. PICK n \in Nat : x = <<"mark", n>>
    BY <1>2
  <2>2. x[1] = "mark" /\ x[2] = n /\ (x = Mark(After[a]) <=> n = After[a])
    BY <2>1 DEF Mark
  <2>3. Line(x) = Expect(Bound(n))
    BY <2>2 DEF Line
  <2>4. a \in Bound(n) <=> After[a] = n
    BY DEF Bound
  <2> QED
    BY <1>1, <2>2, <2>3, <2>4
<1>3. CASE x \in {"act"} \X Action
  <2>1. x[1] = "act" /\ x # Mark(After[a])
    BY <1>3 DEF Mark
  <2>2. ~Asserts(x, a) /\ ~Asserts(Expect({}), a)
    BY <1>1, <2>1 DEF Asserts
  <2>3. Line(x) = x \/ Line(x) = Expect({})
    BY <2>1 DEF Line
  <2> QED
    BY <2>1, <2>2, <2>3
<1> QED
  BY <1>2, <1>3 DEF Entry

(* A recorded run that can be exported: its trail is that of its script.   *)
LEMMA ScriptFollowsTrail ==
  ASSUME LoopTypeOK, Recorded, Faithful,
         \A a \in Strict : \A i \in DOMAIN Script(actions) : ~Asserts(Script(actions)[i], a)
  PROVE  Played(Script(actions)) = page
<1>1. PICK s \in Seq(Entry) : s = actions
  BY DEF LoopTypeOK
<1>2. PICK n \in Nat : /\ Reaches(actions, PointAt(page, n, done))
                       /\ Hold(Closing(done), page)
  BY DEF Faithful, Recorded, Unhealed
<1>3. PICK T : Trail(T, s) /\ T[Len(s)] = PointAt(page, n, done)
  BY <1>1, <1>2 DEF Reaches
<1> DEFINE N == Len(s)
           code == Script(s)
<1>4. /\ N \in Nat /\ N >= 1 /\ IsNavigation(s[1]) /\ Start(s) = s[1]
      /\ \A i \in 2..N : \A a \in Unwritten \union Navigations : s[i] # Act(a)
      /\ \A i \in 1..N : s[i] \in Entry
  <2>1. s # <<>> /\ IsNavigation(Head(s))
    BY <1>1 DEF Faithful, Exportable
  <2>2. N \in Nat /\ N # 0 /\ Head(s) = s[1]
    BY <2>1
  <2>3. \A i \in 2..N : \A a \in Unwritten \union Navigations : s[i] # Act(a)
    BY <1>1 DEF Faithful, Exportable
  <2> QED
    BY <2>1, <2>2, <2>3, ElementOfSeq, StartNavigates
<1>5. /\ T \in [0..N -> Point] /\ T[0].page = Blank /\ T[N].page = page
      /\ \A i \in 1..N : Leads(T[i - 1], s[i], T[i])
  BY <1>3 DEF Trail, PointAt
<1>6. /\ Len(code) = N + 2 /\ code[1] = s[1] /\ DOMAIN code = 1..(N + 2)
      /\ \A i \in 1..N : code[i + 1] = Line(s[i])
      /\ code[N + 2] = Expect(Bound(0))
  BY <1>4, ScriptShape
<1>s. \A a \in Strict : \A i \in 1..(N + 2) : ~Asserts(code[i], a)
  BY <1>1, <1>6
<1> DEFINE F == [i \in 0..(N + 2) |-> IF i = 0 THEN Blank ELSE IF i = 1 THEN T[1].page
                     ELSE IF i = N + 2 THEN T[N].page ELSE T[i - 1].page]
<1>7. /\ F[0] = Blank /\ F[1] = T[1].page /\ F[N + 2] = T[N].page
      /\ \A i \in 2..(N + 1) : F[i] = T[i - 1].page
  BY <1>4
<1> HIDE DEF F, code, N
<1>8. site # Flaky
  BY DEF Faithful
<1>9. ASSUME NEW i \in 1..N
      PROVE  /\ i - 1 \in 0..N /\ i \in 0..N /\ T[i - 1] \in Point /\ T[i] \in Point
             /\ T[i].page \in Page
             /\ s[i][1] = "act" => PlayLine(T[i - 1].page, s[i]) = T[i].page
             /\ (\A a \in Unwritten \union Navigations : s[i] # Act(a))
                  => PlayLine(T[i - 1].page, Line(s[i])) = T[i].page
  <2>1. i - 1 \in 0..N /\ i \in 0..N
    BY <1>4
  <2>2. T[i - 1] \in Point /\ T[i] \in Point
    BY <1>5, <2>1
  <2> QED
    <3>1. T[i].page \in Page
      BY <2>2 DEF Point
    <3>2. s[i] \in Entry /\ Leads(T[i - 1], s[i], T[i])
      BY <1>4, <1>5
    <3>3. \A a \in Strict : ~Asserts(Line(s[i]), a)
      BY <1>4, <1>6, <1>s
    <3> QED
      BY <1>8, <2>1, <2>2, <3>1, <3>2, <3>3, LeadReplayed
<1>10. F[1] = PlayLine(F[0], code[1])
  <2>1. 1 \in 1..N /\ 1 - 1 = 0 /\ s[1][1] = "act"
    BY <1>4 DEF IsNavigation
  <2>2. PlayLine(T[0].page, s[1]) = T[1].page
    BY <1>9, <2>1
  <2> QED
    BY <1>4, <1>5, <1>6, <1>7, <2>2
<1>11. F[2] = PlayLine(F[1], code[2])
  <2>1. 1 \in 1..N /\ 1 + 1 = 2 /\ 2 \in 2..(N + 1) /\ 2 - 1 = 1
    BY <1>4
  <2>2. F[2] = T[1].page /\ F[1] = T[1].page /\ T[1].page \in Page
    BY <1>7, <1>9, <2>1
  <2>3. code[2] = Line(s[1])
    BY <1>6, <2>1
  <2>4. Line(s[1]) = Expect({})
    BY <1>4 DEF Line, IsNavigation
  <2>5. Hold({}, T[1].page)
    BY <1>8 DEF Hold, Verdicts, Failing
  <2>6. PlayLine(T[1].page, Expect({})) = T[1].page
    BY <1>8, <2>2, <2>5, HoldingLines
  <2> QED
    BY <2>2, <2>3, <2>4, <2>6
<1>12. ASSUME NEW i \in 3..(N + 1) PROVE F[i] = PlayLine(F[i - 1], code[i])
  <2>1. PICK j \in 2..N : j = i - 1
    BY <1>4
  <2>2. /\ i = j + 1 /\ j \in 1..N /\ i \in 2..(N + 1) /\ j \in 2..(N + 1)
    BY <1>4, <2>1
  <2>3. F[i] = T[j].page /\ F[j] = T[j - 1].page /\ code[i] = Line(s[j])
    BY <1>6, <1>7, <2>1, <2>2
  <2>4. PlayLine(T[j - 1].page, Line(s[j])) = T[j].page
    BY <1>4, <1>9, <2>2
  <2> QED
    BY <2>1, <2>3, <2>4
<1>13. F[N + 2] = PlayLine(F[N + 1], code[N + 2])
  <2>1. N + 1 \in 2..(N + 1) /\ (N + 1) - 1 = N
    BY <1>4
  <2>2. F[N + 1] = page /\ F[N + 2] = page /\ page \in Page
    BY <1>5, <1>7, <2>1 DEF LoopTypeOK, CaseTypeOK
  <2>3. Bound(0) \in SUBSET Closing(done)
    BY DEF Bound, Closing
  <2>5. Bound(0) \subseteq Assertion /\ \A a \in Bound(0) \ Wordless : a \notin Strict
    <3>1. \A a \in Strict : ~Asserts(Expect(Bound(0)), a)
      BY <1>4, <1>6, <1>s
    <3> QED
      BY <3>1 DEF Asserts, Expect, Bound
  <2>4. PlayLine(page, Expect(Bound(0))) = page
    BY <1>2, <1>8, <2>2, <2>3, <2>5, HoldingLines
  <2> QED
    BY <1>6, <2>2, <2>4
<1>14. ASSUME NEW i \in 1..(N + 2) PROVE F[i] = PlayLine(F[i - 1], code[i])
  <2>1. CASE i = 1
    BY <1>10, <2>1
  <2>2. CASE i = 2
    BY <1>11, <2>2
  <2>3. CASE i = N + 2
    <3>1. i - 1 = N + 1
      BY <1>4, <2>3
    <3> QED
      BY <1>13, <2>3, <3>1
  <2>4. CASE i \notin {1, 2, N + 2}
    <3>1. i \in 3..(N + 1)
      BY <1>4, <2>4
    <3> QED
      BY <1>12, <3>1
  <2> QED
    BY <2>1, <2>2, <2>3, <2>4
<1>15. Len(code) \in Nat /\ \A i \in 1..Len(code) : F[i] = PlayLine(F[i - 1], code[i])
  BY <1>4, <1>6, <1>14
<1>16. Played(code) = F[Len(code)]
  BY <1>7, <1>15, PlayedFollows
<1>17. Played(code) = page
  BY <1>5, <1>6, <1>7, <1>16
<1> QED
  BY <1>1, <1>17 DEF code

(* Each assertion that has a line and a place has one line.                *)
LEMMA ScriptAssertsOnce ==
  ASSUME LoopTypeOK, Recorded, Faithful, NEW a \in Assertion \ Wordless,
         After[a] = 0 \/ \E i \in DOMAIN actions : actions[i] = Mark(After[a])
  PROVE  \E i \in DOMAIN Script(actions) :
           \A j \in DOMAIN Script(actions) : Asserts(Script(actions)[j], a) <=> j = i
<1>1. PICK s \in Seq(Entry) : s = actions
  BY DEF LoopTypeOK
<1>2. PICK T : Trail(T, s)
  BY <1>1 DEF Faithful, Recorded, Unhealed, Reaches
<1> DEFINE N == Len(s)
           code == Script(s)
<1>3. N \in Nat /\ DOMAIN s = 1..N /\ \A i \in 1..N : s[i] \in Entry
  BY LenProperties, ElementOfSeq
<1>4. /\ DOMAIN code = 1..(N + 2) /\ code[1] = Start(s)
      /\ \A i \in 1..N : code[i + 1] = Line(s[i])
      /\ code[N + 2] = Expect(Bound(0))
  BY ScriptShape
<1>5. \A i \in 1..N : s[i] # Mark(0)
  <2>1. \A i \in 1..N : Leads(T[i - 1], s[i], T[i])
    BY <1>2 DEF Trail
  <2>2. ASSUME NEW x, NEW e, NEW y, Leads(x, e, y) PROVE e # Mark(0)
    <3>1. (\E n \in Nat \ {0} : e = Mark(n)) \/ \E b \in Action : e = Act(b)
      BY <2>2 DEF Leads
    <3> QED
      BY <3>1 DEF Mark, Act
  <2> QED
    BY <2>1, <2>2
<1> HIDE DEF code
<1>6. /\ ~Asserts(code[1], a)
      /\ \A i \in 1..N : Asserts(code[i + 1], a) <=> s[i] = Mark(After[a])
      /\ Asserts(code[N + 2], a) <=> After[a] = 0
  <2>1. ~Asserts(Start(s), a)
    BY StartNavigates DEF Asserts
  <2>2. Asserts(Expect(Bound(0)), a) <=> After[a] = 0
    BY DEF Asserts, Expect, Bound
  <2>3. \A i \in 1..N : Asserts(code[i + 1], a) <=> s[i] = Mark(After[a])
    BY <1>3, <1>4, LineAsserts
  <2> QED
    BY <1>4, <2>1, <2>2, <2>3
<1>7. \A j \in 1..(N + 2) : j = 1 \/ j = N + 2 \/ \E k \in 1..N : j = k + 1
  <2>1. ASSUME NEW j \in 1..(N + 2), j # 1, j # N + 2 PROVE \E k \in 1..N : j = k + 1
    <3>1. j - 1 \in 1..N /\ j = (j - 1) + 1
      BY <1>3, <2>1
    <3> QED
      BY <3>1
  <2> QED
    BY <2>1
<1>8. CASE After[a] = 0
  <2>1. N + 2 \in DOMAIN code
    BY <1>3, <1>4
  <2>2. ASSUME NEW j \in DOMAIN code PROVE Asserts(code[j], a) <=> j = N + 2
    <3>1. CASE j = N + 2
      BY <1>6, <1>8, <3>1
    <3>2. CASE j = 1
      BY <1>3, <1>6, <3>2
    <3>3. ASSUME NEW k \in 1..N, j = k + 1 PROVE ~Asserts(code[j], a) /\ j # N + 2
      BY <1>3, <1>5, <1>6, <1>8, <3>3
    <3> QED
      BY <1>4, <1>7, <3>1, <3>2, <3>3
  <2>3. \E i \in DOMAIN code : \A j \in DOMAIN code : Asserts(code[j], a) <=> j = i
    BY <2>1, <2>2
  <2> QED
    BY <1>1, <2>3 DEF code
<1>9. CASE After[a] # 0
  <2>1. PICK k \in 1..N : s[k] = Mark(After[a])
    BY <1>1, <1>3, <1>9
  <2>2. k + 1 \in DOMAIN code /\ k + 1 # N + 2 /\ k + 1 # 1
    BY <1>3, <1>4
  <2>3. ASSUME NEW j \in DOMAIN code PROVE Asserts(code[j], a) <=> j = k + 1
    <3>1. CASE j = N + 2
      BY <1>6, <1>9, <2>2, <3>1
    <3>2. CASE j = 1
      BY <1>6, <2>2, <3>2
    <3>3. ASSUME NEW l \in 1..N, j = l + 1 PROVE Asserts(code[j], a) <=> j = k + 1
      <4>1. Asserts(code[j], a) <=> s[l] = Mark(After[a])
        BY <1>6, <3>3
      <4>2. s[l] = Mark(After[a]) => l = k
        BY <1>2, <2>1, MarkedOnce
      <4>3. j = k + 1 <=> l = k
        BY <1>3, <3>3
      <4> QED
        BY <2>1, <4>1, <4>2, <4>3
    <3> QED
      BY <1>4, <1>7, <3>1, <3>2, <3>3
  <2>4. \E i \in DOMAIN code : \A j \in DOMAIN code : Asserts(code[j], a) <=> j = i
    BY <2>2, <2>3
  <2> QED
    BY <1>1, <2>4 DEF code
<1> QED
  BY <1>8, <1>9

(* On a site that answers as it did, the script exported for a passed run   *)
(* ends on its page without raising, unless one of its lines is stricter    *)
(* than the assertion it was written for, and asserts what is bound to a    *)
(* marked step, or to none, in one place.                                   *)
THEOREM ScriptsReplay == Spec => []ScriptReplays
<1>1. ReplayTypeOK /\ Recorded => ScriptReplays
  <2> SUFFICES ASSUME ReplayTypeOK, Recorded, Faithful PROVE ScriptReplays
    BY DEF ScriptReplays
  <2>1. LoopTypeOK
    BY DEF ReplayTypeOK
  <2>2. \/ Played(Script(actions)) = page
        \/ \E a \in Strict, i \in DOMAIN Script(actions) : Asserts(Script(actions)[i], a)
    BY <2>1, ScriptFollowsTrail
  <2>3. ASSUME NEW a \in Assertion \ Wordless,
               After[a] = 0 \/ \E i \in DOMAIN actions : actions[i] = Mark(After[a])
        PROVE  \E i \in DOMAIN Script(actions) :
                 \A j \in DOMAIN Script(actions) :
                   Asserts(Script(actions)[j], a) <=> j = i
    BY <2>1, <2>3, ScriptAssertsOnce
  <2> QED
    BY <2>2, <2>3 DEF ScriptReplays
<1> QED
  BY <1>1, AgentTypes, RecordsAreTrails, PTL
=============================================================================
