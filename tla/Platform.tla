------------------------------ MODULE Platform ------------------------------
(***************************************************************************)
(* The state the parts of EasyRun share: the task and run tables, the     *)
(* policy row, the task queue, and the local state of the three kinds of  *)
(* actor that work on them.  WorkerAgent, Orchestrator and RunApi give    *)
(* the actions of one actor each, Dispatch composes them.                 *)
(*                                                                         *)
(* A database session is two steps, the read that loads the rows and the  *)
(* commit that writes them back: every await between the two lets another *)
(* coroutine or process in.  No isolation beyond the single statement is  *)
(* assumed (SQLite reads outside a transaction, PostgreSQL READ           *)
(* COMMITTED).  The ORM writes a column only if it differs from the value *)
(* it loaded, so an actor that writes back what it read writes nothing.   *)
(***************************************************************************)
EXTENDS Integers, FiniteSets, Sequences

CONSTANTS
  MaxTasks, MaxRuns,    \* how many rows the two tables can hold
  Case, Key, NoKey, KeyOf,       \* test cases and the resource each one needs
  Plan, PlanCases,      \* test plans and their sequences of cases
  Worker, NoWorker, Process, Api, ProcOf,  \* worker coroutines, their processes
  InMemory,             \* MemoryQueue (one process) or RedisQueue
  AttemptLimits,        \* values the max_attempts knob takes
  QuarantineThreshold,
  MaxTimeouts,          \* how often a whole task_timeout_seconds goes by
  MaxErrors, Faulty,    \* how many database and queue calls raise, and whose
  MaxCrashes, Crashing  \* how many processes crash, and which ones may

Task == 1..MaxTasks     \* in creation order
Run == 1..MaxRuns
NoTask == 0
NoRun == 0

ASSUME PlatformAssumption ==
  /\ MaxTasks \in Nat /\ MaxRuns \in Nat
  /\ Case # {}
  /\ NoKey \notin Key /\ KeyOf \in [Case -> Key \cup {NoKey}]
  /\ PlanCases \in [Plan -> Seq(Case)]
  /\ NoWorker \notin Worker /\ Api \in Process /\ ProcOf \in [Worker -> Process]
  /\ InMemory \in BOOLEAN /\ (InMemory => Process = {Api})
  /\ AttemptLimits \subseteq Nat \ {0} /\ AttemptLimits # {}
  /\ QuarantineThreshold \in Nat
  /\ MaxTimeouts \in Nat /\ MaxErrors \in Nat /\ MaxCrashes \in Nat
  /\ Faulty \subseteq {"worker", "orchestrator", "api"}
  /\ Crashing \subseteq Process

VARIABLES
  status, attempt, sessions, idle, runOf, caseOf,  \* table test_task
  runStatus, stats,                                \* table test_run
  cases, policy,                                   \* test_case, platform_setting
  ready, claim,                                    \* the queue
  pc, cur, seen, verdict, holder,                  \* the workers and their locks
  registry, unpushed, toSkip, cancelled,           \* the API process
  phase, batch, due, open, closing, tally, snapshot, analyzed, \* the orchestrator
  timeouts, errors, crashes                        \* what has happened so far

taskVars == <<status, attempt, sessions, idle, runOf, caseOf>>
runVars == <<runStatus, stats>>
queueVars == <<ready, claim>>
workerVars == <<pc, cur, seen, verdict, holder>>
apiVars == <<registry, unpushed, toSkip, cancelled>>
tickVars == <<phase, batch, due, open, closing, tally, snapshot, analyzed>>
faultVars == <<timeouts, errors, crashes>>
vars == <<taskVars, runVars, cases, policy, queueVars, workerVars, apiVars,
          tickVars, faultVars>>

-----------------------------------------------------------------------------
(* The statuses of models.py; "none" is a row not created yet.             *)
TaskActive == {"queued", "running", "retrying"}
TaskTerminal == {"passed", "failed", "quarantined", "skipped"}
TaskStatus == {"none"} \cup TaskActive \cup TaskTerminal
RunTerminal == {"passed", "failed", "partial", "cancelled"}
RunStatus == {"none", "running"} \cup RunTerminal

Rows == {t \in Task : runOf[t] # NoRun}
TasksOf(r) == {t \in Task : runOf[t] = r}

Stats == [total : Nat, passed : Nat, failed : Nat, quarantined : Nat, skipped : Nat]
NoStats == [total |-> 0, passed |-> 0, failed |-> 0, quarantined |-> 0, skipped |-> 0]

(* Two consecutive whole timeouts without a write to a running row are all *)
(* that watchdog looks for, one that stuck() looks for in a claim.         *)
IdleBound == 2
Claim == {"none", "fresh", "late"}

(* UPDATE of the rows in S that also refreshes updated_at.                 *)
SetStatus(S, st) ==
  /\ status' = [t \in Task |-> IF t \in S THEN st ELSE status[t]]
  /\ idle' = [t \in Task |-> IF t \in S THEN 0 ELSE idle[t]]

(* Commit of one row an ORM session loaded with status old.                *)
SaveStatus(t, old, st) ==
  /\ status' = IF old = st THEN status ELSE [status EXCEPT ![t] = st]
  /\ idle' = [idle EXCEPT ![t] = 0]

-----------------------------------------------------------------------------
(* The queue by the effect of its operations.  Which ready item a pop      *)
(* returns is left open: MemoryQueue takes the oldest, RedisQueue the one  *)
(* pushed last.  A claim is keyed by the task id, whoever holds it.        *)
Push(t) == ready' = [ready EXCEPT ![t] = @ + 1]

(* Mutants of Take: an empty queue is popped, an item is popped unclaimed. *)
TakeUnchecked(t) == /\ ready' = [ready EXCEPT ![t] = @ - 1]
                    /\ claim' = [claim EXCEPT ![t] = "fresh"]
TakeUnclaimed(t) == /\ ready[t] > 0
                    /\ ready' = [ready EXCEPT ![t] = @ - 1]
                    /\ UNCHANGED claim
Take(t) == /\ ready[t] > 0
           /\ ready' = [ready EXCEPT ![t] = @ - 1]
           /\ claim' = [claim EXCEPT ![t] = "fresh"]
Ack(t) == claim' = [claim EXCEPT ![t] = "none"]
Requeue(t) == Ack(t) /\ Push(t)
Late == {t \in Task : claim[t] = "late"}
=============================================================================
