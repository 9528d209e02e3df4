------------------------------- MODULE RunApi -------------------------------
(***************************************************************************)
(* What a user of the console does to runs: submit, rerun, cancel, change *)
(* the policy, delete a case.  The handlers live in the API process; the  *)
(* rows of a submission are committed before its tasks are pushed.        *)
(***************************************************************************)
EXTENDS Platform

CONSTANTS OnDemand,    \* the cases submitted on their own
          Cancellable, \* the runs the user cancels
          Rerunnable,  \* the runs the user reruns
          Deletable    \* the cases the user deletes

ASSUME RunApiAssumption ==
  /\ OnDemand \subseteq Case /\ Deletable \subseteq Case
  /\ Cancellable \subseteq Run /\ Rerunnable \subseteq Run

(* The elements of a finite set of numbers in increasing order.            *)
Listings(S) == {f \in [1..Cardinality(S) -> S] : \A i, j \in DOMAIN f : i < j => f[i] < f[j]}

(* The place of t among the rows not created yet.                          *)
Place(t) == Cardinality({u \in Task \ Rows : u <= t})

(* One transaction: a run and a queued task for each case of the list.     *)
CreateRun(r, n, caseList) ==
  LET new == {t \in Task \ Rows : Place(t) <= n}
  IN /\ runStatus[r] = "none"
     /\ \A q \in Run : q < r => runStatus[q] # "none"
     /\ n <= Cardinality(Task \ Rows)
     /\ runStatus' = [runStatus EXCEPT ![r] = "running"]
     /\ runOf' = [t \in Task |-> IF t \in new THEN r ELSE runOf[t]]
     /\ caseOf' = [t \in Task |-> IF t \in new THEN caseList[Place(t)] ELSE caseOf[t]]
     /\ attempt' = [t \in Task |-> IF t \in new THEN 1 ELSE attempt[t]]
     /\ SetStatus(new, "queued")
     /\ unpushed' = unpushed \cup new
     /\ UNCHANGED <<sessions, stats, cases, policy, queueVars, workerVars, registry,
                    toSkip, cancelled, tickVars, faultVars>>

SubmitCase(r, c) ==
  /\ c \in OnDemand \cap cases
  /\ CreateRun(r, 1, [i \in 1..1 |-> c])

(* The cases of the plan that still exist, in its order.  When none does   *)
(* the run has no task.                                                    *)
SubmitPlan(r, p) ==
  /\ DOMAIN PlanCases[p] # {}
  /\ \E f \in Listings({i \in DOMAIN PlanCases[p] : PlanCases[p][i] \in cases}) :
       CreateRun(r, Cardinality(DOMAIN f), [i \in DOMAIN f |-> PlanCases[p][f[i]]])

(* A new run of the failed tasks of run src, in the order of creation.     *)
RerunFailed(r, src) ==
  /\ src \in Rerunnable
  /\ \E f \in Listings({t \in TasksOf(src) : status[t] \in {"failed", "quarantined"}}) :
       /\ DOMAIN f # {}
       /\ CreateRun(r, Cardinality(DOMAIN f), [i \in DOMAIN f |-> caseOf[f[i]]])

PushSubmitted(t) ==
  /\ t \in unpushed
  /\ Push(t)
  /\ unpushed' = unpushed \ {t}
  /\ UNCHANGED <<taskVars, runVars, cases, policy, claim, workerVars, registry, toSkip,
                 cancelled, tickVars, faultVars>>

(* cancel_run loads the tasks: those not started yet and those running are *)
(* to be skipped, the running ones enter the registry at once.  The read   *)
(* and the commit leave a window for every other actor.                    *)
CancelRead(r) ==
  /\ r \in Cancellable \ cancelled
  /\ runStatus[r] = "running"
  /\ cancelled' = cancelled \cup {r}
  /\ registry' = registry \cup {t \in TasksOf(r) : status[t] = "running"}
  /\ toSkip' = [toSkip EXCEPT ![r] = {t \in TasksOf(r) : status[t] \in TaskActive}]
  /\ UNCHANGED <<taskVars, runVars, cases, policy, queueVars, workerVars, unpushed,
                 tickVars, faultVars>>

CancelCommit(r) ==
  /\ toSkip[r] # {}
  /\ SetStatus(toSkip[r], "skipped")
  /\ toSkip' = [toSkip EXCEPT ![r] = {}]
  /\ UNCHANGED <<attempt, sessions, runOf, caseOf, runVars, cases, policy, queueVars,
                 workerVars, registry, unpushed, cancelled, tickVars, faultVars>>

SetPolicy(m) ==
  /\ m \in AttemptLimits \ {policy}
  /\ policy' = m
  /\ UNCHANGED <<taskVars, runVars, cases, queueVars, workerVars, apiVars, tickVars,
                 faultVars>>

DeleteCase(c) ==
  /\ c \in Deletable \cap cases
  /\ cases' = cases \ {c}
  /\ UNCHANGED <<taskVars, runVars, policy, queueVars, workerVars, apiVars, tickVars,
                 faultVars>>

(* What the user decides, and what the handlers then finish by themselves. *)
UserStep ==
  \/ \E r \in Run : \/ \E c \in Case : SubmitCase(r, c)
                    \/ \E p \in Plan : SubmitPlan(r, p)
                    \/ \E src \in Run : RerunFailed(r, src)
                    \/ CancelRead(r)
  \/ \E m \in AttemptLimits : SetPolicy(m)
  \/ \E c \in Case : DeleteCase(c)

HandlerStep ==
  \/ \E t \in Task : PushSubmitted(t)
  \/ \E r \in Run : CancelCommit(r)
=============================================================================
