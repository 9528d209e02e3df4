------------------------------ MODULE Dispatch ------------------------------
(***************************************************************************)
(* The dispatch core of EasyRun: API handlers, orchestrator and workers,  *)
(* interleaved over the shared tables and the queue, with the passing of  *)
(* time, failing calls and process crashes.  How often each of the last   *)
(* three happens is bounded by a constant; with the bound 0 it never does.*)
(***************************************************************************)
EXTENDS WorkerAgent, Orchestrator, RunApi

Init ==
  /\ status = [t \in Task |-> "none"]
  /\ attempt = [t \in Task |-> 0]
  /\ sessions = [t \in Task |-> 0]
  /\ idle = [t \in Task |-> 0]
  /\ runOf = [t \in Task |-> NoRun]
  /\ caseOf = [t \in Task |-> CHOOSE c \in Case : TRUE]
  /\ runStatus = [r \in Run |-> "none"]
  /\ stats = [r \in Run |-> NoStats]
  /\ cases = Case
  /\ policy \in AttemptLimits
  /\ ready = [t \in Task |-> 0]
  /\ claim = [t \in Task |-> "none"]
  /\ pc = [w \in Worker |-> "idle"]
  /\ cur = [w \in Worker |-> NoTask]
  /\ seen = [w \in Worker |-> "none"]
  /\ verdict = [w \in Worker |-> "none"]
  /\ holder = [l \in Process \X Key |-> NoWorker]
  /\ registry = {} /\ unpushed = {} /\ cancelled = {}
  /\ toSkip = [r \in Run |-> {}]
  /\ phase = "sleep" /\ batch = {} /\ due = {} /\ open = {}
  /\ closing = NoRun /\ tally = NoStats
  /\ snapshot = policy
  /\ analyzed = {}
  /\ timeouts = 0 /\ errors = 0 /\ crashes = 0

(* An exception in a handler after its commit loses the pushes still due,  *)
(* one before it the changes of a cancellation.                            *)
HandlerError(r) ==
  /\ "api" \in Faulty /\ errors < MaxErrors
  /\ unpushed \cap TasksOf(r) # {} \/ toSkip[r] # {}
  /\ unpushed' = unpushed \ TasksOf(r)
  /\ toSkip' = [toSkip EXCEPT ![r] = {}]
  /\ errors' = errors + 1
  /\ UNCHANGED <<taskVars, runVars, cases, policy, queueVars, workerVars, registry,
                 cancelled, tickVars, timeouts, crashes>>

(* Process p dies and comes back: its workers forget what they were doing  *)
(* and what they locked, the API process also its handlers, the tick and   *)
(* the registry; a queue in memory loses its items.                        *)
Crash(p) ==
  /\ p \in Crashing /\ crashes < MaxCrashes
  /\ crashes' = crashes + 1
  /\ pc' = [w \in Worker |-> IF ProcOf[w] = p THEN "idle" ELSE pc[w]]
  /\ cur' = [w \in Worker |-> IF ProcOf[w] = p THEN NoTask ELSE cur[w]]
  /\ seen' = [w \in Worker |-> IF ProcOf[w] = p THEN "none" ELSE seen[w]]
  /\ verdict' = [w \in Worker |-> IF ProcOf[w] = p THEN "none" ELSE verdict[w]]
  /\ holder' = [l \in Process \X Key |-> IF l[1] = p THEN NoWorker ELSE holder[l]]
  /\ IF p = Api
       THEN /\ registry' = {} /\ unpushed' = {}
            /\ toSkip' = [r \in Run |-> {}]
            /\ phase' = "sleep" /\ batch' = {} /\ due' = {} /\ open' = {}
            /\ closing' = NoRun /\ tally' = NoStats
            /\ analyzed' = {}
       ELSE UNCHANGED <<registry, unpushed, toSkip, phase, batch, due, open, closing,
                        tally, analyzed>>
  /\ IF InMemory
       THEN /\ ready' = [t \in Task |-> 0]
            /\ claim' = [t \in Task |-> "none"]
       ELSE UNCHANGED queueVars
  /\ UNCHANGED <<taskVars, runVars, cases, policy, cancelled, snapshot, timeouts, errors>>

(* task_timeout_seconds go by.  Everyone who is not waiting for an item or *)
(* for the agent is in the middle of calls that end within that time, and  *)
(* lock_wait_seconds is shorter than it (300 against 600 by default).      *)
Elapse ==
  /\ timeouts < MaxTimeouts
  /\ phase = "sleep" /\ unpushed = {} /\ \A r \in Run : toSkip[r] = {}
  /\ \A w \in Worker : pc[w] \in {"idle", "run", "dead"}
  /\ timeouts' = timeouts + 1
  /\ claim' = [t \in Task |-> IF claim[t] = "fresh" THEN "late" ELSE claim[t]]
  /\ idle' = [t \in Task |-> IF status[t] = "running" /\ idle[t] < IdleBound
                               THEN idle[t] + 1 ELSE idle[t]]
  /\ UNCHANGED <<status, attempt, sessions, runOf, caseOf, runVars, cases, policy,
                 ready, workerVars, apiVars, tickVars, errors, crashes>>

Next ==
  \/ UserStep \/ HandlerStep \/ TickStep
  \/ \E w \in Worker : WorkerStep(w) \/ WorkerError(w) \/ ErrorAckFails(w)
  \/ TickError
  \/ \E r \in Run : HandlerError(r)
  \/ \E p \in Process : Crash(p)
  \/ Elapse

Spec == Init /\ [][Next]_vars

(* Handlers, the tick and the workers go on while they can: each is a      *)
(* coroutine of an event loop whose waits all have a timeout (the pop, the *)
(* lock, the model and the browser).  Users, time and faults owe nothing.  *)
FairSpec == /\ Spec
            /\ WF_vars(HandlerStep)
            /\ WF_vars(TickStep)
            /\ \A w \in Worker : WF_vars(WorkerStep(w))

-----------------------------------------------------------------------------
(* Types, and the bookkeeping that ties program counters to what they need.*)
TypeOK ==
  /\ status \in [Task -> TaskStatus]
  /\ attempt \in [Task -> Nat]
  /\ sessions \in [Task -> Nat]
  /\ idle \in [Task -> 0..IdleBound]
  /\ runOf \in [Task -> Run \cup {NoRun}]
  /\ caseOf \in [Task -> Case]
  /\ runStatus \in [Run -> RunStatus]
  /\ stats \in [Run -> Stats]
  /\ cases \subseteq Case
  /\ policy \in AttemptLimits
  /\ ready \in [Task -> Nat]
  /\ claim \in [Task -> Claim]
  /\ pc \in [Worker -> WorkerPc]
  /\ cur \in [Worker -> Task \cup {NoTask}]
  /\ \A w \in Worker : cur[w] = NoTask <=> pc[w] \in {"idle", "dead"}
  /\ seen \in [Worker -> TaskStatus]
  /\ verdict \in [Worker -> {"none", "passed", "failed", "skipped"}]
  /\ \A w \in Worker : pc[w] = "finish" => verdict[w] # "none"
  /\ holder \in [Process \X Key -> Worker \cup {NoWorker}]
  /\ registry \subseteq Task
  /\ unpushed \subseteq Task
  /\ toSkip \in [Run -> SUBSET Task]
  /\ cancelled \subseteq Run
  /\ phase \in Phase
  /\ batch \subseteq Task
  /\ due \subseteq Task
  /\ open \subseteq Run
  /\ closing \in Run \cup {NoRun}
  /\ closing # NoRun <=> phase = "completeCommit"
  /\ tally \in Stats
  /\ snapshot \in AttemptLimits
  /\ analyzed \subseteq Task
  /\ timeouts \in Nat /\ errors \in Nat /\ crashes \in Nat

Finished(r) == runStatus[r] \in RunTerminal

(* worker.py: between the acquisition and the release of a resource lock.  *)
Working(w) == pc[w] \in {"starting", "start", "run", "stopped", "finish"}

(* Two workers of one process never work on tasks that need the same       *)
(* resource, whatever is delivered twice, fails, crashes or is retried     *)
(* (LockManager and the try/finally of Worker.process).                    *)
ResourceExclusive ==
  \A v, w \in Worker :
    v # w /\ ProcOf[v] = ProcOf[w] /\ Working(v) /\ Working(w)
      /\ KeyOf[caseOf[cur[v]]] # NoKey
      => KeyOf[caseOf[cur[v]]] # KeyOf[caseOf[cur[w]]]

(* The verdict and the statistics a report shows for a finished run never  *)
(* change again (_complete_runs takes running runs only).                  *)
RunIsFinal ==
  [][\A r \in Run : Finished(r) => /\ runStatus'[r] = runStatus[r]
                                  /\ stats'[r] = stats[r]]_vars

(* The statistics of a finished run count each of its tasks exactly once,  *)
(* so no task was still under way when _complete_runs looked, and a run is *)
(* reported passed only if a task of it passed and none failed.            *)
StatsCoverRun ==
  \A r \in Run : Finished(r) =>
    /\ stats[r].total = Cardinality(TasksOf(r))
    /\ stats[r].total = stats[r].passed + stats[r].failed
                          + stats[r].quarantined + stats[r].skipped
    /\ runStatus[r] = "passed" =>
         stats[r].passed > 0 /\ stats[r].failed + stats[r].quarantined = 0

(* Only a cancellation skips a task or makes a run end as cancelled: the   *)
(* workers and _complete_runs never do so on their own.                    *)
CancelOnlyOnRequest ==
  /\ \A t \in Rows : status[t] = "skipped" => runOf[t] \in cancelled
  /\ \A r \in Run : runStatus[r] = "cancelled" => r \in cancelled

(* An attempt is executed at most once: a task opens no more agent         *)
(* sessions than it has attempts (queue, process() and _retry_failed       *)
(* together hand an attempt to one worker).                                *)
OneSessionPerAttempt == \A t \in Task : sessions[t] <= attempt[t]

(* A task waiting to be run is in the queue, claimed, on its way into the  *)
(* queue, or in the hands of a worker that is going to write its result;   *)
(* otherwise nobody ever looks at it again, for watchdog and retry only    *)
(* see running and failed rows.                                            *)
Carried(t) == \/ ready[t] > 0 \/ claim[t] # "none"
              \/ t \in unpushed
              \/ phase \in {"recover", "push"} /\ t \in due
              \/ \E w \in Worker : cur[w] = t /\ pc[w] \notin {"ack", "error"}
NoTaskStranded ==
  \A t \in Task : status[t] \in {"queued", "retrying"} => Carried(t)

(* A worker that has popped an item is covered by the queue's claim until  *)
(* it has written the result, so that its crash is noticed (base.py:       *)
(* claimed items that are not acknowledged are recovered by stuck()). That *)
(* holds of first attempts: claims are keyed by the task, and the worker   *)
(* of an earlier attempt may acknowledge late.                             *)
AtWork(w) == pc[w] \notin {"idle", "dead", "ack", "error"}
ClaimCoversWork ==
  \A w \in Worker : AtWork(w) /\ attempt[cur[w]] = 1 => claim[cur[w]] # "none"

(* Once a run is finished none of its tasks is waiting or running: no      *)
(* retry, pop or late worker touches it (_complete_runs: all tasks have    *)
(* come to their end, the run is closed).                                  *)
FinishedRunIsQuiet ==
  \A t \in Rows : Finished(runOf[t]) => status[t] \notin TaskActive

(* After the watchdog's pass of a tick no task is left running that has    *)
(* not been written for twice the timeout, whoever was at it.              *)
WatchdogReaps ==
  phase \in {"retry", "retryCommit", "push", "quarantine", "quarantineCommit",
            "complete", "completeCommit"}
    => \A t \in Task : ~(status[t] = "running" /\ idle[t] = IdleBound)

(* The dispatch keeps to what a task queue promises: it pops and claims an *)
(* item in one, puts back only what stuck() found claimed for too long,    *)
(* and counts on nothing else (base.py, for either queue).                 *)
Queue == INSTANCE TaskQueue WITH
  Item <- Task, Volatile <- InMemory, Punctual <- TRUE, lost <- 0,
  due <- [t \in Task |-> IF phase = "recover" /\ t \in due THEN 1 ELSE 0]
QueueUsed == Queue!Spec

(* Though every session reads first and commits later, the runs live as    *)
(* RunLedger says, each until its cancellation: attempts are started once, *)
(* only what failed is retried, and a run is closed with what its rows say *)
(* at its commit (worker.py, orchestrator.py, api/runs.py together).       *)
Withdrawn(t) == runOf[t] \in cancelled
ledgerStatus == [t \in Task |-> IF Withdrawn(t) THEN "withdrawn" ELSE status[t]]
ledgerAttempt == [t \in Task |-> IF Withdrawn(t) THEN 0 ELSE attempt[t]]
ledgerSessions == [t \in Task |-> IF Withdrawn(t) THEN 0 ELSE sessions[t]]
ledgerRuns == [r \in Run |-> IF r \in cancelled THEN "withdrawn" ELSE runStatus[r]]
ledgerStats == [r \in Run |-> IF r \in cancelled THEN NoStats ELSE stats[r]]
Ledger == INSTANCE RunLedger WITH
  Limits <- AttemptLimits, status <- ledgerStatus, attempt <- ledgerAttempt,
  sessions <- ledgerSessions, runStatus <- ledgerRuns, stats <- ledgerStats
LedgerKept == Ledger!Spec

(* A result stands: a passed task is never retried, failed or run again,   *)
(* by _retry_failed or anybody else.                                       *)
PassedStands == [][\A t \in Task : status[t] = "passed" => status'[t] = "passed"]_vars

(* A skipped task stays skipped: what cancel_run took back never runs.     *)
SkippedStands == [][\A t \in Task : status[t] = "skipped" => status'[t] = "skipped"]_vars

(* Every run is finished some time after its submission.                   *)
EveryRunFinishes == \A r \in Run : runStatus[r] = "running" ~> Finished(r)

-----------------------------------------------------------------------------
(* Why the safety properties hold in every instance: together with TypeOK  *)
(* these four parts are inductive (DispatchProofs, DispatchSafety).        *)

(* Every task id in the queue, in a worker's or in a handler's hands is a  *)
(* row of the table, so that no row to come is touched by what goes on.    *)
Known ==
  /\ \A t \in Task : status[t] # "none" \/ ready[t] > 0 \/ claim[t] # "none" => t \in Rows
  /\ \A w \in Worker : cur[w] # NoTask => cur[w] \in Rows
  /\ batch \cup due \cup unpushed \subseteq Rows
  /\ \A r \in Run : toSkip[r] \subseteq TasksOf(r)

(* A worker at work on a task with a resource holds its process' lock.     *)
Locked ==
  \A w \in Worker : Working(w) /\ KeyOf[caseOf[cur[w]]] # NoKey => holder[LockOf(w)] = w

(* The completion pass has only running runs before it, each of them once. *)
OpenRuns ==
  /\ \A r \in open : runStatus[r] = "running" /\ r # closing
  /\ closing # NoRun => runStatus[closing] = "running"

(* A cancellation was asked for wherever one is in the making.             *)
Requested ==
  /\ CancelOnlyOnRequest
  /\ \A r \in Run : toSkip[r] # {} => r \in cancelled
  /\ \A t \in registry : t \in Rows /\ runOf[t] \in cancelled
  /\ \A w \in Worker :
       pc[w] = "stopped" \/ (pc[w] = "finish" /\ verdict[w] = "skipped")
         => runOf[cur[w]] \in cancelled
  /\ tally.skipped > 0 => closing \in cancelled

SafetyInv == TypeOK /\ Known /\ Locked /\ OpenRuns /\ Requested
=============================================================================
