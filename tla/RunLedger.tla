----------------------------- MODULE RunLedger -----------------------------
(***************************************************************************)
(* What EasyRun promises of the runs in its tables, as long as no task     *)
(* times out: every change is one step that looks at the rows as they are. *)
(* The sessions of API, orchestrator and workers overlap, each reads first *)
(* and commits later; Dispatch shows that they do nothing else than this.  *)
(* A cancelled run is withdrawn: from then on nothing is promised of it.   *)
(***************************************************************************)
EXTENDS Naturals, FiniteSets

CONSTANTS Task, Run, NoRun, Limits  \* the values max_attempts takes

VARIABLES status, attempt, sessions, runOf,  \* of the tasks
          runStatus, stats                   \* of the runs

ledger == <<status, attempt, sessions, runOf, runStatus, stats>>

TasksOf(r) == {t \in Task : runOf[t] = r}
Count(r, st) == Cardinality({t \in TasksOf(r) : status[t] = st})
NoStats == [total |-> 0, passed |-> 0, failed |-> 0, quarantined |-> 0, skipped |-> 0]

Written(S, st) == [t \in Task |-> IF t \in S THEN st ELSE status[t]]

Init ==
  /\ status = [t \in Task |-> "none"]
  /\ attempt = [t \in Task |-> 0] /\ sessions = [t \in Task |-> 0]
  /\ runOf = [t \in Task |-> NoRun]
  /\ runStatus = [r \in Run |-> "none"] /\ stats = [r \in Run |-> NoStats]

(* A new run gets new tasks, or none at all.                               *)
Submit(r, S) ==
  /\ runStatus[r] = "none" /\ \A t \in S : runOf[t] = NoRun
  /\ runStatus' = [runStatus EXCEPT ![r] = "running"]
  /\ runOf' = [t \in Task |-> IF t \in S THEN r ELSE runOf[t]]
  /\ status' = Written(S, "queued")
  /\ attempt' = [t \in Task |-> IF t \in S THEN 1 ELSE attempt[t]]
  /\ UNCHANGED <<sessions, stats>>

(* A waiting task is started, once per attempt, or given up unstarted.     *)
Begin(t) ==
  /\ status[t] \in {"queued", "retrying"} /\ sessions[t] < attempt[t]
  /\ status' = Written({t}, "running")
  /\ sessions' = [sessions EXCEPT ![t] = @ + 1]
  /\ UNCHANGED <<attempt, runOf, runStatus, stats>>

GiveUp(t) ==
  /\ status[t] \in {"queued", "retrying"}
  /\ status' = Written({t}, "failed")
  /\ UNCHANGED <<attempt, sessions, runOf, runStatus, stats>>

End(t, verdict) ==
  /\ status[t] = "running"
  /\ status' = Written({t}, verdict)
  /\ UNCHANGED <<attempt, sessions, runOf, runStatus, stats>>

(* Failed tasks are retried below the limit, and quarantined from it on.   *)
Retry(S, limit) ==
  /\ \A t \in S : status[t] = "failed" /\ attempt[t] < limit
  /\ status' = Written(S, "retrying")
  /\ attempt' = [t \in Task |-> IF t \in S THEN attempt[t] + 1 ELSE attempt[t]]
  /\ UNCHANGED <<sessions, runOf, runStatus, stats>>

Quarantine(S, limit) ==
  /\ \A t \in S : status[t] = "failed" /\ attempt[t] >= limit
  /\ status' = Written(S, "quarantined")
  /\ UNCHANGED <<attempt, sessions, runOf, runStatus, stats>>

(* A run all of whose tasks have ended is closed, with the count of what   *)
(* they are now and the verdict that follows from it.                      *)
Close(r) ==
  LET some(st) == \E t \in TasksOf(r) : status[t] = st
      bad == some("failed") \/ some("quarantined")
  IN /\ runStatus[r] = "running" /\ TasksOf(r) # {}
     /\ \A t \in TasksOf(r) : status[t] \in {"passed", "failed", "quarantined"}
     /\ runStatus' = [runStatus EXCEPT ![r] = IF ~bad THEN "passed"
                                              ELSE IF some("passed") THEN "partial"
                                              ELSE "failed"]
     /\ stats' = [stats EXCEPT ![r] =
          [total |-> Cardinality(TasksOf(r)), passed |-> Count(r, "passed"),
           failed |-> Count(r, "failed"), quarantined |-> Count(r, "quarantined"),
           skipped |-> 0]]
     /\ UNCHANGED <<status, attempt, sessions, runOf>>

(* The user cancels a running run.                                         *)
Withdraw(r) ==
  /\ runStatus[r] = "running"
  /\ runStatus' = [runStatus EXCEPT ![r] = "withdrawn"]
  /\ stats' = [stats EXCEPT ![r] = NoStats]
  /\ status' = Written(TasksOf(r), "withdrawn")
  /\ attempt' = [t \in Task |-> IF t \in TasksOf(r) THEN 0 ELSE attempt[t]]
  /\ sessions' = [t \in Task |-> IF t \in TasksOf(r) THEN 0 ELSE sessions[t]]
  /\ UNCHANGED runOf

Next ==
  \/ \E r \in Run : Close(r) \/ Withdraw(r) \/ \E S \in SUBSET Task : Submit(r, S)
  \/ \E t \in Task : \/ Begin(t) \/ GiveUp(t)
                     \/ \E verdict \in {"passed", "failed"} : End(t, verdict)
  \/ \E S \in SUBSET Task, limit \in Limits : Retry(S, limit) \/ Quarantine(S, limit)

Spec == Init /\ [][Next]_ledger
=============================================================================
