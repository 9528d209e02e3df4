---------------------------- MODULE Orchestrator ----------------------------
(***************************************************************************)
(* The scheduler coroutine of the API process: one tick reads the policy, *)
(* then takes five passes over the tables, each of which loads its rows,  *)
(* commits its changes and, for the retry, pushes to the queue after the  *)
(* commit.  "batch" holds the loaded tasks, "due" the queue calls still   *)
(* to make for them, "open" the runs the completion pass has yet to see.  *)
(***************************************************************************)
EXTENDS Platform

Phase == {"sleep", "recover", "watchdog", "watchdogCommit", "retry", "retryCommit",
          "push", "quarantine", "quarantineCommit", "complete", "completeCommit"}

HistoryLimit == 10

(* _tick and the scan of stuck().                                          *)
TickStart ==
  /\ phase = "sleep"
  /\ snapshot' = policy
  /\ batch' = Late
  /\ due' = Late
  /\ phase' = IF Late = {} THEN "watchdog" ELSE "recover"
  /\ UNCHANGED <<taskVars, runVars, cases, policy, queueVars, workerVars, apiVars,
                 open, closing, tally, analyzed, faultVars>>

(* stuck() puts every late claim back, one queue call after the other ...  *)
RecoverRequeue(t) ==
  /\ phase = "recover"
  /\ t \in due
  /\ Requeue(t)
  /\ due' = due \ {t}
  /\ UNCHANGED <<taskVars, runVars, cases, policy, workerVars, apiVars, phase, batch,
                 open, closing, tally, snapshot, analyzed, faultVars>>

(* ... and only then the rows are set to QUEUED, whatever they held.       *)
RecoverCommit ==
  /\ phase = "recover"
  /\ due = {}
  /\ SetStatus(batch, "queued")
  /\ batch' = {}
  /\ phase' = "watchdog"
  /\ UNCHANGED <<attempt, sessions, runOf, caseOf, runVars, cases, policy, queueVars,
                 workerVars, apiVars, due, open, closing, tally, snapshot,
                 analyzed, faultVars>>

(* Rows running for more than two timeouts; their claims are dropped while *)
(* the rows are looped over, before the commit.                            *)
(* Mutant of TimedOut: the comparison is off by one.                       *)
TimedOutLater == {t \in Task : status[t] = "running" /\ idle[t] > IdleBound}

TimedOut == {t \in Task : status[t] = "running" /\ idle[t] >= IdleBound}

WatchdogRead ==
  /\ phase = "watchdog"
  /\ batch' = TimedOut
  /\ claim' = [t \in Task |-> IF t \in TimedOut THEN "none" ELSE claim[t]]
  /\ phase' = IF TimedOut = {} THEN "retry" ELSE "watchdogCommit"
  /\ UNCHANGED <<taskVars, runVars, cases, policy, ready, workerVars, apiVars, due,
                 open, closing, tally, snapshot, analyzed, faultVars>>

WatchdogCommit ==
  /\ phase = "watchdogCommit"
  /\ SetStatus(batch, "failed")
  /\ batch' = {}
  /\ phase' = "retry"
  /\ UNCHANGED <<attempt, sessions, runOf, caseOf, runVars, cases, policy, queueVars,
                 workerVars, apiVars, due, open, closing, tally, snapshot,
                 analyzed, faultVars>>

(* Mutant of Retryable: one attempt too many.                              *)
RetryableOnceMore == {t \in Task : status[t] = "failed" /\ attempt[t] <= snapshot}

Retryable == {t \in Task : status[t] = "failed" /\ attempt[t] < snapshot}

RetryRead ==
  /\ phase = "retry"
  /\ batch' = Retryable
  /\ phase' = IF Retryable = {} THEN "quarantine" ELSE "retryCommit"
  /\ UNCHANGED <<taskVars, runVars, cases, policy, queueVars, workerVars, apiVars, due,
                 open, closing, tally, snapshot, analyzed, faultVars>>

(* Mutant: the attempt is not counted.                                     *)
RetryCommitUncounted ==
  /\ phase = "retryCommit"
  /\ SetStatus(batch, "retrying")
  /\ due' = batch
  /\ batch' = {}
  /\ phase' = "push"
  /\ UNCHANGED <<attempt, sessions, runOf, caseOf, runVars, cases, policy, queueVars,
                 workerVars, apiVars, open, closing, tally, snapshot, analyzed, faultVars>>

RetryCommit ==
  /\ phase = "retryCommit"
  /\ SetStatus(batch, "retrying")
  /\ attempt' = [t \in Task |-> IF t \in batch THEN attempt[t] + 1 ELSE attempt[t]]
  /\ due' = batch
  /\ batch' = {}
  /\ phase' = "push"
  /\ UNCHANGED <<sessions, runOf, caseOf, runVars, cases, policy, queueVars, workerVars,
                 apiVars, open, closing, tally, snapshot, analyzed, faultVars>>

(* Mutant: the retried task is not pushed.                                 *)
RetryPushLost(t) ==
  /\ phase = "push"
  /\ t \in due
  /\ due' = due \ {t}
  /\ phase' = IF due = {t} THEN "quarantine" ELSE "push"
  /\ UNCHANGED <<taskVars, runVars, cases, policy, queueVars, workerVars, apiVars, batch,
                 open, closing, tally, snapshot, analyzed, faultVars>>

RetryPush(t) ==
  /\ phase = "push"
  /\ t \in due
  /\ Push(t)
  /\ due' = due \ {t}
  /\ phase' = IF due = {t} THEN "quarantine" ELSE "push"
  /\ UNCHANGED <<taskVars, runVars, cases, policy, claim, workerVars, apiVars, batch,
                 open, closing, tally, snapshot, analyzed, faultVars>>

(* How many tasks of its case failed in a row, t included, by the newest   *)
(* HistoryLimit other tasks of the case.                                   *)
Consecutive(t) ==
  LET others == {u \in Rows : caseOf[u] = caseOf[t]} \ {t}
      recent == {u \in others : Cardinality({v \in others : v > u}) < HistoryLimit}
  IN 1 + Cardinality({u \in recent : \A v \in recent :
                        v >= u => status[v] \in {"failed", "quarantined"}})

(* Mutant of Hopeless: the task itself need not have failed.               *)
HopelessUnfailed == {t \in Task : /\ attempt[t] >= snapshot
                                  /\ Consecutive(t) >= QuarantineThreshold}

Hopeless == {t \in Task : /\ status[t] = "failed"
                          /\ attempt[t] >= snapshot
                          /\ Consecutive(t) >= QuarantineThreshold}

(* Mutant: the completion pass loads the runs without asking their status. *)
QuarantineReadAnyRun ==
  /\ phase = "quarantine"
  /\ batch' = Hopeless
  /\ open' = {r \in Run : runStatus[r] # "none"}
  /\ phase' = IF Hopeless = {} THEN "complete" ELSE "quarantineCommit"
  /\ UNCHANGED <<taskVars, runVars, cases, policy, queueVars, workerVars, apiVars, due,
                 closing, tally, snapshot, analyzed, faultVars>>

QuarantineRead ==
  /\ phase = "quarantine"
  /\ batch' = Hopeless
  /\ open' = {r \in Run : runStatus[r] = "running"}
  /\ phase' = IF Hopeless = {} THEN "complete" ELSE "quarantineCommit"
  /\ UNCHANGED <<taskVars, runVars, cases, policy, queueVars, workerVars, apiVars, due,
                 closing, tally, snapshot, analyzed, faultVars>>

(* The commit, and the read of the running runs that opens the last pass.  *)
QuarantineCommit ==
  /\ phase = "quarantineCommit"
  /\ SetStatus(batch, "quarantined")
  /\ batch' = {}
  /\ open' = {r \in Run : runStatus[r] = "running"}
  /\ phase' = "complete"
  /\ UNCHANGED <<attempt, sessions, runOf, caseOf, runVars, cases, policy, queueVars,
                 workerVars, apiVars, due, closing, tally, snapshot, analyzed,
                 faultVars>>

(* Mutant of Settled: a task waiting for its retry counts as done.         *)
SettledRetrying(r) == /\ TasksOf(r) # {}
                      /\ \A t \in TasksOf(r) : status[t] \notin {"queued", "running"}

Settled(r) == /\ TasksOf(r) # {}
              /\ \A t \in TasksOf(r) : status[t] \notin TaskActive

TallyOf(r) ==
  LET count(st) == Cardinality({t \in TasksOf(r) : status[t] = st})
  IN [total |-> Cardinality(TasksOf(r)), passed |-> count("passed"),
      failed |-> count("failed"), quarantined |-> count("quarantined"),
      skipped |-> count("skipped")]

(* Mutant of Verdict: a run in which nothing passed counts as cancelled.   *)
VerdictUnpassed(s) == IF s.passed = 0 THEN "cancelled" ELSE "passed"

Verdict(s) ==
  LET bad == s.failed + s.quarantined
  IN CASE bad = 0 /\ s.passed = 0 /\ s.skipped > 0 -> "cancelled"
       [] bad = 0 /\ (s.passed > 0 \/ s.skipped = 0) -> "passed"
       [] bad > 0 /\ s.passed > 0 -> "partial"
       [] bad > 0 /\ s.passed = 0 -> "failed"

(* A run without tasks, or with an active one, is left for a later tick.   *)
CompleteSkip(r) ==
  /\ phase = "complete"
  /\ r \in open
  /\ ~Settled(r)
  /\ open' = open \ {r}
  /\ UNCHANGED <<taskVars, runVars, cases, policy, queueVars, workerVars, apiVars,
                 phase, batch, due, closing, tally, snapshot, analyzed, faultVars>>

CompleteRead(r) ==
  /\ phase = "complete"
  /\ r \in open
  /\ Settled(r)
  /\ closing' = r
  /\ tally' = TallyOf(r)
  /\ batch' = {t \in TasksOf(r) : status[t] \in {"failed", "quarantined"}}
  /\ open' = open \ {r}
  /\ phase' = "completeCommit"
  /\ UNCHANGED <<taskVars, runVars, cases, policy, queueVars, workerVars, apiVars,
                 due, snapshot, analyzed, faultVars>>

(* The verdict, then one analysis per task of batch not analysed before.   *)
CompleteCommit ==
  /\ phase = "completeCommit"
  /\ runStatus' = [runStatus EXCEPT ![closing] = Verdict(tally)]
  /\ stats' = [stats EXCEPT ![closing] = tally]
  /\ analyzed' = analyzed \cup batch
  /\ closing' = NoRun
  /\ batch' = {}
  /\ tally' = NoStats
  /\ phase' = "complete"
  /\ UNCHANGED <<taskVars, cases, policy, queueVars, workerVars, apiVars, due, open,
                 snapshot, faultVars>>

TickEnd ==
  /\ phase = "complete"
  /\ open = {}
  /\ phase' = "sleep"
  /\ UNCHANGED <<taskVars, runVars, cases, policy, queueVars, workerVars, apiVars, batch,
                 due, open, closing, tally, snapshot, analyzed, faultVars>>

(* An exception ends the tick where it stands; run_forever swallows it.    *)
TickError ==
  /\ "orchestrator" \in Faulty /\ errors < MaxErrors
  /\ phase # "sleep"
  /\ phase' = "sleep"
  /\ batch' = {} /\ due' = {} /\ open' = {}
  /\ closing' = NoRun
  /\ tally' = NoStats
  /\ errors' = errors + 1
  /\ UNCHANGED <<taskVars, runVars, cases, policy, queueVars, workerVars, apiVars,
                 snapshot, analyzed, timeouts, crashes>>

TickStep ==
  \/ TickStart \/ TickEnd
  \/ \E t \in Task : RecoverRequeue(t) \/ RetryPush(t)
  \/ RecoverCommit \/ WatchdogRead \/ WatchdogCommit \/ RetryRead \/ RetryCommit
  \/ QuarantineRead \/ QuarantineCommit \/ CompleteCommit
  \/ \E r \in Run : CompleteSkip(r) \/ CompleteRead(r)
=============================================================================
