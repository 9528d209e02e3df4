--------------------------- MODULE FailureAnalysis ---------------------------
(***************************************************************************)
(* The analysis of failed tasks: the tick that closes a run starts a       *)
(* coroutine for each of them (orchestrator.py), which asks the language   *)
(* model, with retries (llm.py), and writes a row (reporter.py).           *)
(***************************************************************************)
EXTENDS RunRecords

CONSTANTS MaxAsks,   \* requests of a call of chat()
          MaxFaults  \* bound on failing sessions and crashes

ASSUME AnalysisAssumption == MaxAsks \in Nat \ {0} /\ MaxFaults \in Nat

VARIABLES
  finished,  \* the runs _complete_runs has closed
  toExplain, \* the tasks it found failed then, whatever became of them since
  enabled,   \* failure_analysis as the latest tick has read it
  stage,     \* where the analysis of a task is
  asks,      \* the requests it has sent
  analyses,  \* its rows of failure_analysis
  excuse,    \* tasks without an analysis for a reason outside of it
  faults

analysisVars == <<finished, toExplain, enabled, stage, asks, analyses, excuse, faults>>
allRecordsVars == <<recordsVars, analysisVars>>

Stage == {"none", "started", "asking", "writing", "ended"}
Analysing == {t \in Task : stage[t] \in {"asking", "writing"}}

AnalysisInit ==
  /\ finished = {} /\ toExplain = {} /\ enabled = TRUE /\ stage = [t \in Task |-> "none"]
  /\ asks = [t \in Task |-> 0] /\ analyses = [t \in Task |-> 0]
  /\ excuse = {} /\ faults = 0

Advance(t, from, to) == stage[t] = from /\ stage' = [stage EXCEPT ![t] = to]

(* A tick reads the policy. _trigger_analysis takes what the latest read.  *)
ReadPolicy(on) ==
  /\ enabled' = on
  /\ UNCHANGED <<recordsVars, finished, toExplain, stage, asks, analyses, excuse, faults>>

(* A run is closed once; what is written into its tasks afterwards starts  *)
(* no analysis and stops none.                                             *)
FailedOf(r) == {t \in TasksOf(r) : result[t] = "failed"}
CloseRun(r) ==
  /\ r \in live \ finished /\ \A t \in TasksOf(r) : result[t] # "none"
  /\ finished' = finished \cup {r} /\ toExplain' = toExplain \cup FailedOf(r)
  /\ stage' = [t \in Task |-> IF t \in FailedOf(r) THEN "started" ELSE stage[t]]
  /\ UNCHANGED <<recordsVars, enabled, asks, analyses, excuse, faults>>

SwitchedOff(t) ==
  /\ ~enabled /\ Advance(t, "started", "ended")
  /\ excuse' = excuse \cup {t}
  /\ UNCHANGED <<recordsVars, finished, toExplain, enabled, asks, analyses, faults>>

(* analyze_task_failure reads the task: a deleted one raises ValueError.   *)
ReadTask(t) ==
  /\ enabled /\ Advance(t, "started", IF Exists(t) THEN "asking" ELSE "ended")
  /\ UNCHANGED <<recordsVars, finished, toExplain, enabled, asks, analyses, excuse, faults>>

Request(t) == asks' = [asks EXCEPT ![t] = @ + 1]

(* chat(): 429, 5xx and failures of the transport are tried again; then it *)
(* raises LLMError, which leads to a row that says so.                     *)
(* Mutants: one request too many; the last failure is not an LLMError.     *)
UnavailableOnceMore(t) ==
  /\ Advance(t, "asking", IF asks[t] < MaxAsks THEN "asking" ELSE "writing")
  /\ Request(t)
  /\ UNCHANGED <<recordsVars, finished, toExplain, enabled, analyses, excuse, faults>>
UnavailableRaises(t) ==
  /\ Advance(t, "asking", IF asks[t] + 1 < MaxAsks THEN "asking" ELSE "ended")
  /\ Request(t)
  /\ UNCHANGED <<recordsVars, finished, toExplain, enabled, analyses, excuse, faults>>
Unavailable(t) ==
  /\ Advance(t, "asking", IF asks[t] + 1 < MaxAsks THEN "asking" ELSE "writing")
  /\ Request(t)
  /\ UNCHANGED <<recordsVars, finished, toExplain, enabled, analyses, excuse, faults>>

(* Without an API key LLMError is raised before a request is sent.         *)
NoApiKey(t) ==
  /\ Advance(t, "asking", "writing")
  /\ UNCHANGED <<recordsVars, finished, toExplain, enabled, asks, analyses, excuse, faults>>

(* Any other 4xx raises LLMError at once. An answer without a JSON object  *)
(* raises it in extract_json, one with it is written as it is.             *)
Replied(t) ==
  /\ Advance(t, "asking", "writing")
  /\ Request(t)
  /\ UNCHANGED <<recordsVars, finished, toExplain, enabled, analyses, excuse, faults>>

(* A body that is not the JSON of a completion raises another exception,   *)
(* which ends the analysis without a row.                                  *)
Garbled(t) ==
  /\ Advance(t, "asking", "ended")
  /\ Request(t)
  /\ excuse' = excuse \cup {t}
  /\ UNCHANGED <<recordsVars, finished, toExplain, enabled, analyses, faults>>

(* The row is written whether or not the task still exists.                *)
WriteAnalysis(t) ==
  /\ Advance(t, "writing", "ended")
  /\ analyses' = [analyses EXCEPT ![t] = @ + 1]
  /\ UNCHANGED <<recordsVars, finished, toExplain, enabled, asks, excuse, faults>>

SessionFails(t) ==
  /\ faults < MaxFaults
  /\ stage[t] \in {"started", "writing"} /\ Advance(t, stage[t], "ended")
  /\ excuse' = excuse \cup {t} /\ faults' = faults + 1
  /\ UNCHANGED <<recordsVars, finished, toExplain, enabled, asks, analyses>>

(* The API process restarts: nobody starts the analyses of a closed run    *)
(* again. The agents are on other nodes.                                   *)
Pending == Analysing \cup {t \in Task : stage[t] = "started"}
Restart ==
  /\ faults < MaxFaults
  /\ stage' = [t \in Task |-> IF t \in Pending THEN "ended" ELSE stage[t]]
  /\ excuse' = excuse \cup Pending /\ faults' = faults + 1
  /\ UNCHANGED <<recordsVars, finished, toExplain, enabled, asks, analyses>>

(* Mutant: the rows of the analyses are forgotten.                         *)
DeleteRunPartly(r) ==
  /\ DeleteRecords(r, Analysing)
  /\ UNCHANGED analysisVars

DeleteRun(r) ==
  /\ DeleteRecords(r, Analysing)
  /\ analyses' = [t \in Task |-> IF RunOf[t] = r THEN 0 ELSE analyses[t]]
  /\ UNCHANGED <<finished, toExplain, enabled, stage, asks, excuse, faults>>

AnalysisStep(t) ==
  \/ SwitchedOff(t) \/ ReadTask(t)
  \/ NoApiKey(t) \/ Unavailable(t) \/ Replied(t) \/ Garbled(t)
  \/ WriteAnalysis(t)

FailureInit == RecordsInit /\ AnalysisInit

FailureNext ==
  \/ RecordsStep /\ UNCHANGED analysisVars
  \/ \E on \in BOOLEAN : ReadPolicy(on)
  \/ \E r \in Run : CloseRun(r) \/ DeleteRun(r)
  \/ \E t \in Task : AnalysisStep(t) \/ SessionFails(t)
  \/ Restart

FailureSpec == FailureInit /\ [][FailureNext]_allRecordsVars

-----------------------------------------------------------------------------
AnalysisTypeOK ==
  /\ finished \subseteq Run /\ toExplain \subseteq Task /\ enabled \in BOOLEAN
  /\ stage \in [Task -> Stage] /\ asks \in [Task -> Nat] /\ analyses \in [Task -> Nat]
  /\ excuse \subseteq Task /\ faults \in Nat

(* Deleting a run leaves nothing of it (_delete_runs), unless an agent was *)
(* at work on it or an analysis under way, which write on regardless.      *)
DeletionComplete ==
  /\ \A e \in events : Exists(e.task) \/ e.task \in busy
  /\ \A t \in Task : analyses[t] > 0 => Exists(t) \/ t \in busy

(* A task is analysed once at most, if it had failed when its run was      *)
(* closed, with at most MaxAsks requests (four), however often it is put   *)
(* back and executed since and the process restarted.                      *)
AnalysedOnce ==
  \A t \in Task : /\ analyses[t] <= 1 /\ asks[t] <= MaxAsks
                  /\ analyses[t] > 0 => t \in toExplain

(* Every task that had failed when its run was closed gets its analysis,   *)
(* whatever its row says meanwhile and however long the language model is  *)
(* out of reach, unless the analyses are switched off, the run is deleted, *)
(* the model sends garbage or the process fails. (A failure written into   *)
(* a run that is closed already gets none.)                                *)
FailureExplained ==
  \A t \in Task :
    t \in toExplain ~> (analyses[t] > 0 \/ t \in excuse \/ ~Exists(t))
=============================================================================
