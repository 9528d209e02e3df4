---------------------------- MODULE AgentReplay ----------------------------
(***************************************************************************)
(* The deterministic mode: what an agentic run recorded is played in a new *)
(* browser without a language model (_run_deterministic of agent.py),      *)
(* after the user accepted it (cure_case); or a list of steps the user     *)
(* wrote is played.                                                        *)
(***************************************************************************)
EXTENDS AgentLoop

CONSTANTS Handmade,  \* the lists of steps users write
          NoTarget   \* the task has no target_url

(* An entry that is no known tool, or finish or fail.                      *)
Odd == <<"odd">>

ASSUME ReplayAssumption ==
  Handmade \subseteq Seq(Entry \union {Odd}) /\ NoTarget \notin Action

VARIABLES rpc,     \* "idle" while the case is in agentic mode
          target,  \* the navigation to the target_url of the task
          script,  \* the local list actions of the replay
          cured,   \* whether it was recorded
          pos,     \* the next entry
          rdone,   \* the local done_steps
          rpage, rsteps,
          judged   \* the verdicts on each assertion so far

replayVars == <<rpc, target, script, cured, pos, rdone, rpage, rsteps, judged>>
allVars == <<vars, replayVars>>

ReplayFinal == {"passed", "failed", "stopped", "crashed"}

ReplayInit ==
  /\ rpc = "idle" /\ target = NoTarget /\ script = <<>> /\ cured = FALSE /\ pos = 1
  /\ rdone = {} /\ rpage = Blank /\ rsteps = 0
  /\ judged = [a \in Assertion |-> <<>>]

(* A list that does not begin with a navigation gets one, if the task has  *)
(* a target.                                                               *)
IsNavigation(x) == x[1] = "act" /\ x[2] \in Navigations
WithNavigation(s, t) ==
  IF t # NoTarget /\ (s = <<>> \/ ~IsNavigation(s[1])) THEN <<Act(t)>> \o s ELSE s

Play(s, recorded) ==
  /\ rpc = "idle"
  /\ rpc' = "play" /\ cured' = recorded
  /\ target' \in Navigations \union {NoTarget} /\ script' = WithNavigation(s, target')
  /\ pos' = 1 /\ rdone' = {} /\ rpage' = Blank /\ rsteps' = 0
  /\ judged' = [a \in Assertion |-> <<>>]
  /\ UNCHANGED vars

(* _maybe_cure keeps the actions of a passed run, and the user enables     *)
(* them; a handmade list is played instead of an agentic run.              *)
PlayCured == pc = "passed" /\ actions # <<>> /\ Play(actions, TRUE)
PlayHandmade(s) ==
  pc = "look" /\ steps = 0 /\ llm_calls = 0 /\ ~cancelled /\ Play(s, FALSE)

(* The replay's own _assert_phase.                                         *)
Judge(S, v) ==
  /\ v \in Verdicts(S, rpage)
  /\ judged' = [a \in Assertion |-> IF a \in S THEN Append(judged[a], v[a])
                                               ELSE judged[a]]
  /\ rsteps' = rsteps + Cardinality(S)

Playing == rpc = "play" /\ pos <= Len(script)
Proceed == Playing /\ FALSE \in GoalAnswers(rpage, rsteps) /\ pos' = pos + 1
entry == script[pos]

(* The user cancels.                                                       *)
ReplayStop ==
  /\ Playing
  /\ rpc' = "stopped"
  /\ UNCHANGED <<vars, target, script, cured, pos, rdone, rpage, rsteps, judged>>

(* Any exception but CaseFailed.                                           *)
ReplayCrash ==
  /\ rpc \in {"play", "wrapup"}
  /\ rpc' = "crashed"
  /\ UNCHANGED <<vars, target, script, cured, pos, rdone, rpage, rsteps, judged>>

ReplayGoal ==
  /\ Playing /\ TRUE \in GoalAnswers(rpage, rsteps)
  /\ rpc' = "wrapup" /\ rsteps' = rsteps + Cardinality(Check)
  /\ UNCHANGED <<vars, target, script, cured, pos, rdone, rpage, judged>>

ReplaySkip ==
  /\ Proceed
  /\ entry = Odd \/ (entry[1] = "mark" /\ entry[2] \in rdone)
  /\ UNCHANGED <<vars, rpc, target, script, cured, rdone, rpage, rsteps, judged>>

ReplayBadMark ==
  /\ Proceed /\ entry[1] = "mark" /\ entry[2] < 1
  /\ rpc' = "failed"
  /\ UNCHANGED <<vars, target, script, cured, rdone, rpage, rsteps, judged>>

(* Mutant: a step marked twice is asserted twice.                          *)
ReplayMarkTwice ==
  /\ Proceed /\ entry[1] = "mark" /\ entry[2] >= 1
  /\ rdone' = rdone \union {entry[2]}
  /\ \E v \in Verdicts(Bound(entry[2]), rpage) :
       /\ Judge(Bound(entry[2]), v)
       /\ rpc' = IF Failing(v) = {} THEN "play" ELSE "failed"
  /\ UNCHANGED <<vars, target, script, cured, rpage>>

(* The assertions of a marked step are run on the spot; nothing is healed. *)
ReplayMark ==
  /\ Proceed /\ entry[1] = "mark" /\ entry[2] >= 1
  /\ entry[2] \notin rdone
  /\ rdone' = rdone \union {entry[2]}
  /\ \E v \in Verdicts(Bound(entry[2]), rpage) :
       /\ Judge(Bound(entry[2]), v)
       /\ rpc' = IF Failing(v) = {} THEN "play" ELSE "failed"
  /\ UNCHANGED <<vars, target, script, cured, rpage>>

(* A navigation at the beginning goes to the target of this execution.     *)
Meant(a) == IF pos = 1 /\ a \in Navigations /\ target # NoTarget THEN target ELSE a
ReplayAct ==
  /\ Proceed /\ entry[1] = "act"
  /\ rsteps' = rsteps + 1
  /\ \E to \in Landings(Meant(entry[2]), rpage) :
       IF to = Broken THEN rpc' = "failed" /\ rpage' = rpage
                      ELSE rpc' = "play" /\ rpage' = to
  /\ UNCHANGED <<vars, target, script, cured, rdone, judged>>

ReplayEnd ==
  /\ rpc = "play" /\ pos > Len(script)
  /\ rpc' = "wrapup"
  /\ UNCHANGED <<vars, target, script, cured, pos, rdone, rpage, rsteps, judged>>

ReplayWrapUp ==
  /\ rpc = "wrapup"
  /\ \E v \in Verdicts(Closing(rdone), rpage) :
       /\ Judge(Closing(rdone), v)
       /\ rpc' = IF Failing(v) = {} THEN "passed" ELSE "failed"
  /\ UNCHANGED <<vars, target, script, cured, pos, rdone, rpage>>

ReplayStep ==
  \/ ReplayGoal \/ ReplaySkip \/ ReplayBadMark \/ ReplayMark \/ ReplayAct
  \/ ReplayEnd \/ ReplayWrapUp

----------------------------------------------------------------------------
Init == LoopInit /\ ReplayInit

Explore == rpc = "idle" /\ LoopStep /\ UNCHANGED replayVars
Disturb == rpc = "idle" /\ (Cancel \/ Crash) /\ UNCHANGED replayVars
StartReplay == PlayCured \/ \E s \in Handmade : PlayHandmade(s)

Next == Explore \/ Disturb \/ StartReplay \/ ReplayStep \/ ReplayStop \/ ReplayCrash

Spec == Init /\ [][Next]_allVars

(* run() is one coroutine whose waits all end: it goes on until it returns *)
(* or raises.                                                              *)
FairSpec == Spec /\ WF_allVars(Explore) /\ WF_allVars(ReplayStep)

----------------------------------------------------------------------------
ReplayTypeOK ==
  /\ LoopTypeOK
  /\ rpc \in {"idle", "play", "wrapup"} \union ReplayFinal
  /\ target \in Navigations \union {NoTarget}
  /\ script \in Seq(Entry \union {Odd}) /\ pos \in 1 .. Len(script) + 1
  /\ cured \in BOOLEAN /\ rdone \subseteq Nat \ {0}
  /\ rpage \in Page /\ rsteps \in Nat
  /\ judged \in [Assertion -> Seq(Verdict)]

(* The task that replays has no target, or that of the first navigation of *)
(* the recording: else its replay begins elsewhere than the run did.       *)
SameStart == target = NoTarget \/ (actions # <<>> /\ actions[1] = Act(target))

(* A recording is good: on a site that answers as it did, and from the     *)
(* same start, the replay of a run that passed without healing passes,     *)
(* also when completion checks cut both short.                             *)
RecordingReplays ==
  (cured /\ site # Flaky /\ heals = 0 /\ SameStart) => rpc # "failed"

(* A replay judges as the agentic mode does: whatever its list marks, it   *)
(* passes only when each assertion was run exactly once, and held.         *)
ReplayJudgesEachOnce ==
  rpc = "passed" => \A a \in Assertion : judged[a] = <<"ok">>

(* Whatever the model answers, and however deep healing nests, a run ends, *)
(* and a replay too.                                                       *)
Ended == IF rpc = "idle" THEN pc \in Final ELSE rpc \in ReplayFinal
CaseEnds == <>[]Ended
=============================================================================
