---------------------------- MODULE WorkerAgent ----------------------------
(***************************************************************************)
(* One worker coroutine: run_forever, process and _run_task of worker.py. *)
(* What the agent does in the browser is one nondeterministic outcome.    *)
(***************************************************************************)
EXTENDS Platform

CONSTANT Agentic  \* the cases that a passing agent leaves a recording of

ASSUME AgenticAssumption == Agentic \subseteq Case

WorkerPc == {"idle",
             "popped",    \* holds an item, has not read its row
             "locking",   \* waits for the resource lock
             "failing",   \* about to commit FAILED without running
             "starting",  \* may run the task, has not read its row
             "start",     \* has read it, about to commit RUNNING
             "run",       \* the agent is at work
             "stopped",   \* the agent noticed the cancellation
             "finish",    \* has a verdict, about to commit it
             "ack",       \* about to acknowledge the item
             "error",     \* an exception left process()
             "dead"}      \* an exception left run_forever()

LockOf(w) == <<ProcOf[w], KeyOf[caseOf[cur[w]]]>>

(* The release of process()'s finally block.                               *)
Release(w) == holder' = [l \in Process \X Key |->
                           IF holder[l] = w THEN NoWorker ELSE holder[l]]

(* The worker's half of the two cancellation channels: a registry shared   *)
(* only inside the API process, and the row of the task.                   *)
InRegistry(w) == ProcOf[w] = Api /\ cur[w] \in registry

Goto(w, from, to) == /\ pc[w] = from
                     /\ pc' = [pc EXCEPT ![w] = to]

Pop(w, t) ==
  /\ Goto(w, "idle", "popped")
  /\ Take(t)
  /\ cur' = [cur EXCEPT ![w] = t]
  /\ UNCHANGED <<taskVars, runVars, cases, policy, seen, verdict, holder,
                 apiVars, tickVars, faultVars>>

(* process() reads the row: only a queued or retrying task is run.         *)
(* Mutant: a retried task is discarded as if it had been run before.       *)
DiscardRetried(w) ==
  /\ Goto(w, "popped", "ack")
  /\ status[cur[w]] # "queued"
  /\ UNCHANGED <<taskVars, runVars, cases, policy, queueVars, cur, seen, verdict,
                 holder, apiVars, tickVars, faultVars>>

Discard(w) ==
  /\ Goto(w, "popped", "ack")
  /\ status[cur[w]] \notin {"queued", "retrying"}
  /\ UNCHANGED <<taskVars, runVars, cases, policy, queueVars, cur, seen, verdict,
                 holder, apiVars, tickVars, faultVars>>

Orphan(w) ==
  /\ Goto(w, "popped", "failing")
  /\ status[cur[w]] \in {"queued", "retrying"}
  /\ caseOf[cur[w]] \notin cases
  /\ seen' = [seen EXCEPT ![w] = status[cur[w]]]
  /\ UNCHANGED <<taskVars, runVars, cases, policy, queueVars, cur, verdict,
                 holder, apiVars, tickVars, faultVars>>

Admit(w) ==
  /\ Goto(w, "popped", IF KeyOf[caseOf[cur[w]]] = NoKey THEN "starting" ELSE "locking")
  /\ status[cur[w]] \in {"queued", "retrying"}
  /\ caseOf[cur[w]] \in cases
  /\ UNCHANGED <<taskVars, runVars, cases, policy, queueVars, cur, seen, verdict,
                 holder, apiVars, tickVars, faultVars>>

(* Mutant: the lock is taken whoever holds it.                             *)
AcquireLockHeld(w) ==
  /\ Goto(w, "locking", "starting")
  /\ holder' = [holder EXCEPT ![LockOf(w)] = w]
  /\ UNCHANGED <<taskVars, runVars, cases, policy, queueVars, cur, seen, verdict,
                 apiVars, tickVars, faultVars>>

AcquireLock(w) ==
  /\ Goto(w, "locking", "starting")
  /\ holder[LockOf(w)] = NoWorker
  /\ holder' = [holder EXCEPT ![LockOf(w)] = w]
  /\ UNCHANGED <<taskVars, runVars, cases, policy, queueVars, cur, seen, verdict,
                 apiVars, tickVars, faultVars>>

(* lock_wait_seconds went by: reread the row, then commit FAILED.          *)
LockTimeout(w) ==
  /\ Goto(w, "locking", "failing")
  /\ holder[LockOf(w)] # NoWorker
  /\ seen' = [seen EXCEPT ![w] = status[cur[w]]]
  /\ UNCHANGED <<taskVars, runVars, cases, policy, queueVars, cur, verdict,
                 holder, apiVars, tickVars, faultVars>>

FailWithoutRun(w) ==
  /\ Goto(w, "failing", "ack")
  /\ SaveStatus(cur[w], seen[w], "failed")
  /\ seen' = [seen EXCEPT ![w] = "none"]
  /\ UNCHANGED <<attempt, sessions, runOf, caseOf, runVars, cases, policy, queueVars,
                 cur, verdict, holder, apiVars, tickVars, faultVars>>

(* _run_task: a task cancelled before this read is not started.            *)
SkipCancelled(w) ==
  /\ Goto(w, "starting", "ack")
  /\ status[cur[w]] = "skipped"
  /\ UNCHANGED <<taskVars, runVars, cases, policy, queueVars, cur, seen, verdict,
                 holder, apiVars, tickVars, faultVars>>

StartRead(w) ==
  /\ Goto(w, "starting", "start")
  /\ status[cur[w]] # "skipped"
  /\ seen' = [seen EXCEPT ![w] = status[cur[w]]]
  /\ UNCHANGED <<taskVars, runVars, cases, policy, queueVars, cur, verdict,
                 holder, apiVars, tickVars, faultVars>>

(* RUNNING and a new AgentSession row in one transaction.                  *)
StartCommit(w) ==
  /\ Goto(w, "start", "run")
  /\ SaveStatus(cur[w], seen[w], "running")
  /\ sessions' = [sessions EXCEPT ![cur[w]] = @ + 1]
  /\ seen' = [seen EXCEPT ![w] = "none"]
  /\ UNCHANGED <<attempt, runOf, caseOf, runVars, cases, policy, queueVars, cur,
                 verdict, holder, apiVars, tickVars, faultVars>>

(* The agent polls _should_stop between its steps.                         *)
AgentStops(w) ==
  /\ Goto(w, "run", "stopped")
  /\ InRegistry(w) \/ status[cur[w]] = "skipped"
  /\ UNCHANGED <<taskVars, runVars, cases, policy, queueVars, cur, seen, verdict,
                 holder, apiVars, tickVars, faultVars>>

(* The closing session reads the row once more: what the agent reported    *)
(* counts only if neither channel holds a cancellation by then.            *)
FinishRead(w, outcome) ==
  /\ \/ Goto(w, "run", "finish") /\ outcome \in {"passed", "failed"}
     \/ Goto(w, "stopped", "finish") /\ outcome = "skipped"
  /\ seen' = [seen EXCEPT ![w] = status[cur[w]]]
  /\ verdict' = [verdict EXCEPT ![w] =
                   IF status[cur[w]] = "skipped" \/ InRegistry(w) THEN "skipped"
                                                                  ELSE outcome]
  /\ UNCHANGED <<taskVars, runVars, cases, policy, queueVars, cur, holder,
                 apiVars, tickVars, faultVars>>

FinishCommit(w) ==
  /\ Goto(w, "finish", "ack")
  /\ SaveStatus(cur[w], seen[w], verdict[w])
  /\ seen' = [seen EXCEPT ![w] = "none"]
  /\ verdict' = [verdict EXCEPT ![w] = "none"]
  /\ UNCHANGED <<attempt, sessions, runOf, caseOf, runVars, cases, policy, queueVars,
                 cur, holder, apiVars, tickVars, faultVars>>

(* _maybe_cure, before the commit: the case of a passed exploration has    *)
(* been deleted while the agent was at work, which raises.                 *)
CureFails(w) ==
  /\ Goto(w, "finish", "error")
  /\ verdict[w] = "passed" /\ caseOf[cur[w]] \in Agentic \ cases
  /\ Release(w)
  /\ seen' = [seen EXCEPT ![w] = "none"]
  /\ verdict' = [verdict EXCEPT ![w] = "none"]
  /\ UNCHANGED <<taskVars, runVars, cases, policy, queueVars, cur,
                 apiVars, tickVars, faultVars>>

(* ack, the lock's release, and back to the top of run_forever.            *)
AckAndRelease(w) ==
  /\ Goto(w, "ack", "idle")
  /\ Ack(cur[w])
  /\ Release(w)
  /\ cur' = [cur EXCEPT ![w] = NoTask]
  /\ UNCHANGED <<taskVars, runVars, cases, policy, ready, seen, verdict,
                 apiVars, tickVars, faultVars>>

(* A database or queue call raises before it has had an effect.            *)
WorkerError(w) ==
  /\ "worker" \in Faulty /\ errors < MaxErrors
  /\ pc[w] \in {"popped", "failing", "starting", "start", "run", "stopped", "finish", "ack"}
  /\ pc' = [pc EXCEPT ![w] = "error"]
  /\ Release(w)
  /\ seen' = [seen EXCEPT ![w] = "none"]
  /\ verdict' = [verdict EXCEPT ![w] = "none"]
  /\ errors' = errors + 1
  /\ UNCHANGED <<taskVars, runVars, cases, policy, queueVars, cur,
                 apiVars, tickVars, timeouts, crashes>>

(* The handler of run_forever acknowledges the item and goes on.           *)
ErrorAck(w) ==
  /\ Goto(w, "error", "idle")
  /\ Ack(cur[w])
  /\ cur' = [cur EXCEPT ![w] = NoTask]
  /\ UNCHANGED <<taskVars, runVars, cases, policy, ready, seen, verdict, holder,
                 apiVars, tickVars, faultVars>>

(* That ack stands outside every try: if Redis is still out of reach it    *)
(* raises as well and ends the coroutine.                                  *)
ErrorAckFails(w) ==
  /\ ~InMemory
  /\ Goto(w, "error", "dead")
  /\ cur' = [cur EXCEPT ![w] = NoTask]
  /\ UNCHANGED <<taskVars, runVars, cases, policy, queueVars, seen, verdict, holder,
                 apiVars, tickVars, faultVars>>

(* The part of a worker that goes on by itself.                            *)
WorkerStep(w) ==
  \/ \E t \in Task : Pop(w, t)
  \/ Discard(w) \/ Orphan(w) \/ Admit(w)
  \/ AcquireLock(w) \/ LockTimeout(w) \/ FailWithoutRun(w)
  \/ SkipCancelled(w) \/ StartRead(w) \/ StartCommit(w)
  \/ AgentStops(w)
  \/ \E outcome \in {"passed", "failed", "skipped"} : FinishRead(w, outcome)
  \/ FinishCommit(w) \/ CureFails(w) \/ AckAndRelease(w) \/ ErrorAck(w)
=============================================================================
