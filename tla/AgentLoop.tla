----------------------------- MODULE AgentLoop -----------------------------
(***************************************************************************)
(* The agentic mode of agent.py: _run_agentic, _action_loop, _heal. The    *)
(* calls nest (a loop marks a step, whose failing assertions are healed by *)
(* a loop, which marks another step ...): loops is the stack of the open   *)
(* action loops. The answers of the language model are arbitrary.          *)
(***************************************************************************)
EXTENDS CaseRun

CONSTANTS Policies,          \* the execution policies looked at
          HealBudget,        \* the max_steps of a healing loop (6 in _heal)
          MaxNoopRepeats,    \* executions of one action in a loop
          MaxSkippedRepeats, \* skipped requests of one action in a loop
          MaxMark            \* bound on the step numbers the model names

ASSUME LoopAssumption ==
  /\ Policies \subseteq [heal_attempts : Nat, max_steps : Nat \ {0}]
  /\ HealBudget \in Nat \ {0}
  /\ MaxNoopRepeats \in Nat /\ MaxSkippedRepeats \in Nat /\ MaxMark \in Nat

VARIABLES policy,     \* read by the worker before the run
          pc,
          loops,      \* the open action loops, the innermost last
          done,       \* _done_steps
          actions,    \* outcome.actions, what a replay is recorded from
          llm_calls,  \* usage["llm_calls"]
          heals,      \* usage["heals"]
          cancelled,  \* what should_stop() answers
          late,       \* answers handled after the cancellation
          rounds,     \* healing rounds begun
          ran         \* executions of each page action

caseVars == <<site, policy>>
pageVars == <<last, page, steps>>
vars == <<caseVars, pageVars, pc, loops, done, actions, llm_calls, heals,
          cancelled, late, rounds, ran>>

LoopPc == {"look",      \* at the top of an iteration
           "ask",       \* waits for the language model
           "heal",      \* _heal is about to begin a round, or to give up
           "reassert",  \* a healing loop returned
           "raise",     \* CaseFailed leaves the innermost loop
           "wrapup",    \* the main loop returned
           "passed", "failed",
           "crashed"}   \* another exception left run()
Final == {"passed", "failed", "crashed"}

Mark(n) == <<"mark", n>>
Act(a) == <<"act", a>>
Entry == ({"mark"} \X Nat) \union ({"act"} \X Action)

(* An action loop: the main one, or a round of healing the assertions aims *)
(* that failed at a marked step ("mark") or at the end ("closing").        *)
Kind == {"main", "mark", "closing"}
Loop == [kind : Kind, attempt : Nat, left : Nat, aims : SUBSET Assertion,
         seen : [Action -> Nat], skips : [Action -> Nat]]
NewLoop(k, n, t, S) ==
  [kind |-> k, attempt |-> n, left |-> t, aims |-> S,
   seen |-> [a \in Action |-> 0], skips |-> [a \in Action |-> 0]]

Top == loops[Len(loops)]
Below == SubSeq(loops, 1, Len(loops) - 1)
SetTop(l) == loops' = [loops EXCEPT ![Len(loops)] = l]

LoopInit ==
  /\ site \in Site \union {Flaky} /\ policy \in Policies
  /\ last = [a \in Assertion |-> "none"] /\ page = Blank /\ steps = 0
  /\ pc = "look" /\ loops = <<NewLoop("main", 0, policy.max_steps, {})>>
  /\ done = {} /\ actions = <<>> /\ llm_calls = 0 /\ heals = 0
  /\ cancelled = FALSE /\ late = 0 /\ rounds = 0
  /\ ran = [a \in Action |-> 0]

(* The user cancels: should_stop() stays true from then on.                *)
Cancel ==
  /\ pc \notin Final /\ ~cancelled
  /\ cancelled' = TRUE
  /\ UNCHANGED <<caseVars, pageVars, pc, loops, done, actions, llm_calls,
                 heals, late, rounds, ran>>

(* Anything but CaseFailed (the model, the browser, the event table) ends  *)
(* the run from wherever it is.                                            *)
Crash ==
  /\ pc \notin Final
  /\ pc' = "crashed"
  /\ UNCHANGED <<caseVars, pageVars, loops, done, actions, llm_calls,
                 heals, cancelled, late, rounds, ran>>

----------------------------------------------------------------------------
(* The top of an iteration.                                                *)

RunOut ==
  /\ pc = "look" /\ Top.left = 0
  /\ pc' = "raise"
  /\ UNCHANGED <<caseVars, pageVars, loops, done, actions, llm_calls, heals,
                 cancelled, late, rounds, ran>>

SeeCancel ==
  /\ pc = "look" /\ Top.left > 0 /\ cancelled
  /\ pc' = "raise"
  /\ UNCHANGED <<caseVars, pageVars, loops, done, actions, llm_calls, heals,
                 cancelled, late, rounds, ran>>

(* Only the main loop is given the completion checks.                      *)
ReachGoal ==
  /\ pc = "look" /\ Top.left > 0 /\ ~cancelled /\ Top.kind = "main"
  /\ TRUE \in GoalAnswers(page, steps)
  /\ pc' = "wrapup" /\ loops' = <<>>
  /\ steps' = steps + Cardinality(Check)
  /\ UNCHANGED <<caseVars, last, page, done, actions, llm_calls, heals,
                 cancelled, late, rounds, ran>>

(* Mutant: a healing loop is not given should_stop.                        *)
AskUnstoppable ==
  /\ pc = "look" /\ Top.left > 0 /\ (cancelled => Top.kind # "main")
  /\ (Top.kind = "main" => FALSE \in GoalAnswers(page, steps))
  /\ pc' = "ask"
  /\ SetTop([Top EXCEPT !.left = @ - 1])
  /\ UNCHANGED <<caseVars, pageVars, done, actions, llm_calls, heals,
                 cancelled, late, rounds, ran>>

(* Mutant: the loop goes on when its iterations are used up.               *)
AskBeyond ==
  /\ pc = "look" /\ ~cancelled
  /\ (Top.kind = "main" => FALSE \in GoalAnswers(page, steps))
  /\ pc' = "ask"
  /\ SetTop([Top EXCEPT !.left = @ - 1])
  /\ UNCHANGED <<caseVars, pageVars, done, actions, llm_calls, heals,
                 cancelled, late, rounds, ran>>

Ask ==
  /\ pc = "look" /\ Top.left > 0 /\ ~cancelled
  /\ (Top.kind = "main" => FALSE \in GoalAnswers(page, steps))
  /\ pc' = "ask"
  /\ SetTop([Top EXCEPT !.left = @ - 1])
  /\ UNCHANGED <<caseVars, pageVars, done, actions, llm_calls, heals,
                 cancelled, late, rounds, ran>>

----------------------------------------------------------------------------
(* The answer of the model and what it makes of the iteration.             *)

Answer ==
  /\ pc = "ask"
  /\ llm_calls' = llm_calls + 1
  /\ late' = IF cancelled THEN late + 1 ELSE late
  /\ UNCHANGED <<caseVars, cancelled, rounds>>

(* An unknown tool costs the iteration and nothing else.                   *)
Unknown ==
  /\ Answer
  /\ pc' = "look"
  /\ UNCHANGED <<pageVars, loops, done, actions, heals, ran>>

Finish ==
  /\ Answer
  /\ IF Top.kind = "main" THEN pc' = "wrapup" /\ loops' = <<>>
                          ELSE pc' = "reassert" /\ loops' = loops
  /\ UNCHANGED <<pageVars, done, actions, heals, ran>>

(* The model calls fail, or marks a step that is no number from 1 on.      *)
Fail ==
  /\ Answer
  /\ pc' = "raise"
  /\ UNCHANGED <<pageVars, loops, done, actions, heals, ran>>

MarkAgain(n) ==
  /\ Answer
  /\ n \in done
  /\ pc' = "look"
  /\ UNCHANGED <<pageVars, loops, done, actions, heals, ran>>

(* case_step_done: the step counts as done before its assertions are run,  *)
(* and healing is tried at once.                                           *)
MarkStep(n) ==
  /\ Answer
  /\ n \notin done
  /\ done' = done \union {n}
  /\ actions' = IF Top.kind = "main" THEN Append(actions, Mark(n)) ELSE actions
  /\ \E v \in Verdicts(Bound(n), page) :
       /\ AssertPhase(Bound(n), v)
       /\ IF Failing(v) = {} THEN pc' = "look" /\ loops' = loops
          ELSE IF policy.heal_attempts = 0 THEN pc' = "raise" /\ loops' = loops
          ELSE /\ pc' = "heal"
               /\ loops' = Append(loops, NewLoop("mark", 0, 0, Bound(n)))
  /\ UNCHANGED <<page, heals, ran>>

(* A page action this loop has executed before is skipped, and ends the    *)
(* loop when it has been skipped too often.                                *)
Skip(a) ==
  /\ Answer
  /\ a \notin Exempt /\ Top.seen[a] >= MaxNoopRepeats
  /\ SetTop([Top EXCEPT !.skips[a] = @ + 1])
  /\ pc' = IF Top.skips[a] + 1 > MaxSkippedRepeats THEN "raise" ELSE "look"
  /\ UNCHANGED <<pageVars, done, actions, heals, ran>>

(* Mutant: waiting is taken for a transient action and not recorded.       *)
ExecuteUnrecorded(a) ==
  /\ Answer
  /\ a \in Exempt \/ Top.seen[a] < MaxNoopRepeats
  /\ SetTop(IF a \in Exempt THEN Top ELSE [Top EXCEPT !.seen[a] = @ + 1])
  /\ ran' = [ran EXCEPT ![a] = @ + 1]
  /\ steps' = steps + 1
  /\ \E to \in Landings(a, page) :
       IF to = Broken
       THEN pc' = "raise" /\ UNCHANGED <<page, actions>>
       ELSE /\ pc' = "look" /\ page' = to
            /\ actions' = IF Top.kind = "main" /\ a \notin Exempt
                          THEN Append(actions, Act(a)) ELSE actions
  /\ UNCHANGED <<last, done, heals>>

(* Mutant: the executions of an action are not counted.                    *)
ExecuteUncounted(a) ==
  /\ Answer
  /\ a \in Exempt \/ Top.seen[a] < MaxNoopRepeats
  /\ loops' = loops
  /\ ran' = [ran EXCEPT ![a] = @ + 1]
  /\ steps' = steps + 1
  /\ \E to \in Landings(a, page) :
       IF to = Broken
       THEN pc' = "raise" /\ UNCHANGED <<page, actions>>
       ELSE /\ pc' = "look" /\ page' = to
            /\ actions' = IF Top.kind = "main"
                          THEN Append(actions, Act(a)) ELSE actions
  /\ UNCHANGED <<last, done, heals>>

(* A page action is executed; only the main loop records it.               *)
Execute(a) ==
  /\ Answer
  /\ a \in Exempt \/ Top.seen[a] < MaxNoopRepeats
  /\ SetTop(IF a \in Exempt THEN Top ELSE [Top EXCEPT !.seen[a] = @ + 1])
  /\ ran' = [ran EXCEPT ![a] = @ + 1]
  /\ steps' = steps + 1
  /\ \E to \in Landings(a, page) :
       IF to = Broken
       THEN pc' = "raise" /\ UNCHANGED <<page, actions>>
       ELSE /\ pc' = "look" /\ page' = to
            /\ actions' = IF Top.kind = "main"
                          THEN Append(actions, Act(a)) ELSE actions
  /\ UNCHANGED <<last, done, heals>>

----------------------------------------------------------------------------
(* Healing, the end of a loop, and the end of the run.                     *)

(* Mutant: off by one, a round more than heal_attempts.                    *)
BeginRoundMore ==
  /\ pc = "heal" /\ Top.attempt <= policy.heal_attempts
  /\ SetTop(NewLoop(Top.kind, Top.attempt + 1, HealBudget, Top.aims))
  /\ rounds' = rounds + 1
  /\ pc' = "look"
  /\ UNCHANGED <<caseVars, pageVars, done, actions, llm_calls, heals,
                 cancelled, late, ran>>

BeginRound ==
  /\ pc = "heal" /\ Top.attempt < policy.heal_attempts
  /\ SetTop(NewLoop(Top.kind, Top.attempt + 1, HealBudget, Top.aims))
  /\ rounds' = rounds + 1
  /\ pc' = "look"
  /\ UNCHANGED <<caseVars, pageVars, done, actions, llm_calls, heals,
                 cancelled, late, ran>>

(* Mutant: off by one, _heal neither begins another round nor returns.     *)
GiveUpLater ==
  /\ pc = "heal" /\ Top.attempt > policy.heal_attempts
  /\ loops' = Below
  /\ pc' = IF Top.kind = "closing" THEN "failed" ELSE "raise"
  /\ UNCHANGED <<caseVars, pageVars, done, actions, llm_calls, heals,
                 cancelled, late, rounds, ran>>

(* _heal returns False: the step fails the loop that marked it.            *)
GiveUp ==
  /\ pc = "heal" /\ Top.attempt >= policy.heal_attempts
  /\ loops' = Below
  /\ pc' = IF Top.kind = "closing" THEN "failed" ELSE "raise"
  /\ UNCHANGED <<caseVars, pageVars, done, actions, llm_calls, heals,
                 cancelled, late, rounds, ran>>

(* A healing loop returned: the assertions it aimed at are run once more.  *)
Reassert ==
  /\ pc = "reassert"
  /\ \E v \in Verdicts(Top.aims, page) :
       /\ AssertPhase(Top.aims, v)
       /\ IF Failing(v) = {}
          THEN /\ heals' = heals + 1 /\ loops' = Below
               /\ pc' = IF Top.kind = "closing" THEN "passed" ELSE "look"
          ELSE pc' = "heal" /\ UNCHANGED <<heals, loops>>
  /\ UNCHANGED <<caseVars, page, done, actions, llm_calls, cancelled, late,
                 rounds, ran>>

(* CaseFailed fails the run when it leaves the main loop; _heal swallows   *)
(* the one of a healing loop and goes on to its next round.                *)
Unwind ==
  /\ pc = "raise"
  /\ pc' = IF Top.kind = "main" THEN "failed" ELSE "heal"
  /\ UNCHANGED <<caseVars, pageVars, loops, done, actions, llm_calls, heals,
                 cancelled, late, rounds, ran>>

(* Mutant: the assertions of steps nobody marked are lost.                 *)
WrapUpUnbound ==
  /\ pc = "wrapup"
  /\ \E v \in Verdicts(Bound(0), page) :
       /\ AssertPhase(Bound(0), v)
       /\ IF Failing(v) = {} THEN pc' = "passed" /\ loops' = loops
          ELSE /\ pc' = "heal"
               /\ loops' = Append(loops, NewLoop("closing", 0, 0, Bound(0)))
  /\ UNCHANGED <<caseVars, page, done, actions, llm_calls, heals, cancelled,
                 late, rounds, ran>>

(* The closing assertions, with those of the steps nobody marked.          *)
WrapUp ==
  /\ pc = "wrapup"
  /\ \E v \in Verdicts(Closing(done), page) :
       /\ AssertPhase(Closing(done), v)
       /\ IF Failing(v) = {} THEN pc' = "passed" /\ loops' = loops
          ELSE /\ pc' = "heal"
               /\ loops' = Append(loops, NewLoop("closing", 0, 0, Closing(done)))
  /\ UNCHANGED <<caseVars, page, done, actions, llm_calls, heals, cancelled,
                 late, rounds, ran>>

----------------------------------------------------------------------------
Turn ==
  \/ Unknown \/ Finish \/ Fail
  \/ \E n \in 1..MaxMark : MarkAgain(n) \/ MarkStep(n)
  \/ \E a \in Action : Skip(a) \/ Execute(a)

LoopStep ==
  \/ RunOut \/ SeeCancel \/ ReachGoal \/ Ask
  \/ Turn
  \/ BeginRound \/ GiveUp \/ Reassert \/ Unwind \/ WrapUp

LoopNext == LoopStep \/ Cancel \/ Crash

LoopSpec == LoopInit /\ [][LoopNext]_vars

----------------------------------------------------------------------------
LoopTypeOK ==
  /\ CaseTypeOK
  /\ policy \in Policies
  /\ pc \in LoopPc
  /\ loops \in Seq(Loop)
  /\ done \subseteq 1..MaxMark
  /\ actions \in Seq(Entry)
  /\ llm_calls \in Nat /\ heals \in Nat /\ late \in Nat /\ rounds \in Nat
  /\ cancelled \in BOOLEAN
  /\ ran \in [Action -> Nat]

(* A case passes only when each of its assertions has been run and held    *)
(* the last time (README: the assertions are the only judges of a case).   *)
(* The code guarantees it while a failure is healed in one round at most.  *)
AssertionsDecide ==
  pc = "passed" => \A a \in Assertion : last[a] = "ok"

(* After a cancellation at most the answer that was under way is handled,  *)
(* in whatever depth of nested healing it arrives (should_stop in every    *)
(* action loop).                                                           *)
CancelHeeded == late <= 1

(* The bill of a run is bounded although healing loops nest: each step     *)
(* with assertions is healed at most once, and the end of the case.        *)
CallsBounded ==
  llm_calls <= policy.max_steps
    + HealBudget * policy.heal_attempts * (1 + Cardinality(BoundSteps \intersect done))

(* However healing loops nest, no page action is executed more often than  *)
(* its limit in the main loop and in each round.                           *)
RepeatsBounded ==
  \A a \in Action \ Exempt : ran[a] <= MaxNoopRepeats * (1 + rounds)
=============================================================================
