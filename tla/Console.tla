------------------------------- MODULE Console -------------------------------
(***************************************************************************)
(* What the clients of the web console see change beside the dispatch of   *)
(* tasks. The parts share no state (they have tables of their own), so a   *)
(* behaviour shows one of them and leaves the others as they start: every  *)
(* interleaving of the parts is one of these for each part's own           *)
(* variables. The records of runs are two parts: with events and without   *)
(* analyses, and the other way round.                                      *)
(***************************************************************************)
EXTENDS FailureAnalysis, PolicyStore, CaseBook

CONSTANT Analysed   \* the runs whose tasks agents execute in the part of the analyses

ASSUME ConsoleAssumption == Analysed \subseteq Run

VARIABLE part

Part == {"events", "analysis", "policy", "cases"}
consoleVars == <<part, allRecordsVars, policyVars, bookVars>>

ConsoleInit ==
  /\ part \in Part
  /\ FailureInit /\ PolicyInit /\ BookInit
  /\ part # "events" => engine = "sqlite"

(* The step of a part; the variables of the others do not change. To the   *)
(* events one result is like the other; analyses of different runs do not  *)
(* meet.                                                                   *)
InEvents == /\ part = "events" /\ (RecordsStep \/ \E r \in Run : DeleteRun(r))
            /\ \A t \in Task : result'[t] # "failed"
            /\ UNCHANGED <<part, finished, enabled, policyVars, bookVars>>
            /\ UNCHANGED <<toExplain, stage, asks, analyses, excuse, faults>>
InAnalysis(A) == /\ part = "analysis" /\ A
                 /\ \A t \in agents' : RunOf[t] \in Analysed
                 /\ UNCHANGED <<part, inserting, policyVars, bookVars>>
InPolicy == /\ part = "policy" /\ PolicyNext
            /\ UNCHANGED <<part, allRecordsVars, bookVars>>
InCases == /\ part = "cases" /\ BookNext
           /\ UNCHANGED <<part, allRecordsVars, policyVars>>

ConsoleNext == InEvents \/ InAnalysis(FailureNext) \/ InPolicy \/ InCases

(* A coroutine that analyses a task goes on: its requests time out.        *)
ConsoleFairness == \A t \in Task : WF_consoleVars(InAnalysis(AnalysisStep(t)))

ConsoleSpec == ConsoleInit /\ [][ConsoleNext]_consoleVars /\ ConsoleFairness
=============================================================================
