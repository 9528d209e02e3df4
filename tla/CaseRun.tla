------------------------------ MODULE CaseRun ------------------------------
(***************************************************************************)
(* What one run of a test case works on: its assertions, its completion    *)
(* checks and the page in the browser. The page is abstracted to a value   *)
(* of Page; a flaky site answers every assertion and every action as it    *)
(* likes, a site of Site always in the same way.                           *)
(***************************************************************************)
EXTENDS Naturals, Sequences, FiniteSets

CONSTANTS Assertion, \* the assertions of the case
          After,     \* the step each is bound to (after_step), 0 for none
          Check,     \* its completion checks
          MinSteps,  \* their min_steps, 0 for none
          Action,    \* page actions: a tool with its arguments
          Exempt,    \* those whose tool is in _NOCHANGE_EXEMPT
          Navigations, \* those whose tool is browser_navigate, one for each URL
          Page,
          Blank,     \* the page of a new browser
          Broken,    \* instead of a page: the action failed
          Site, Flaky

(* A site says where an action leads, on which pages a check holds, and on *)
(* which the line holds that is exported for an assertion (codegen.py).    *)
ASSUME CaseAssumption ==
  /\ IsFiniteSet(Assertion) /\ IsFiniteSet(Check)
  /\ After \in [Assertion -> Nat] /\ MinSteps \in [Check -> Nat]
  /\ Navigations \subseteq Action /\ Exempt \subseteq Action
  /\ Blank \in Page /\ Broken \notin Page
  /\ Site \subseteq [effect : [Page \X Action -> Page \union {Broken}],
                     shows : [Assertion \union Check -> SUBSET Page],
                     code : [Assertion -> SUBSET Page]]
  /\ Flaky \notin Site

VARIABLES site,   \* the site under test
          last,   \* the latest verdict on each assertion (EV_ASSERTION)
          page,   \* the page of the browser
          steps   \* usage["steps"]

Verdict == {"ok", "bad"}

(* run_assertion over a set of assertions or checks, on the page p.        *)
Verdicts(S, p) ==
  IF site = Flaky THEN [S -> Verdict]
  ELSE {[x \in S |-> IF p \in site.shows[x] THEN "ok" ELSE "bad"]}

Failing(v) == {x \in DOMAIN v : v[x] # "ok"}

(* _execute: where action a may lead from the page p.                      *)
Landings(a, p) ==
  IF site = Flaky THEN {Blank, Broken} ELSE {site.effect[p, a]}

(* What _goal_reached may return after n steps on the page p: a check that *)
(* still waits for its min_steps does not hold.                            *)
GoalAnswers(p, n) ==
  {Check # {} /\ (\A c \in Check : n >= MinSteps[c] /\ v[c] = "ok") :
     v \in Verdicts(Check, p)}

(* _assert_phase: every assertion of S is run, a failure stops nothing.    *)
AssertPhase(S, v) ==
  /\ v \in Verdicts(S, page)
  /\ last' = [a \in Assertion |-> IF a \in S THEN v[a] ELSE last[a]]
  /\ steps' = steps + Cardinality(S)

Bound(n) == {a \in Assertion : After[a] = n}
BoundSteps == {After[a] : a \in Assertion} \ {0}

(* The closing assertions: the unbound ones and those of unmarked steps.   *)
Closing(marked) == {a \in Assertion : After[a] = 0 \/ After[a] \notin marked}

CaseTypeOK ==
  /\ site \in Site \union {Flaky}
  /\ last \in [Assertion -> Verdict \union {"none"}]
  /\ page \in Page
  /\ steps \in Nat
=============================================================================
