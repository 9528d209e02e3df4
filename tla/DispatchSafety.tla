--------------------------- MODULE DispatchSafety ---------------------------
(***************************************************************************)
(* The safety properties of Dispatch, by the inductive invariant SafetyInv*)
(* whose first part, TypeOK, DispatchProofs proves.                        *)
(***************************************************************************)
EXTENDS DispatchProofs

-----------------------------------------------------------------------------
(* A worker only ever holds tasks the queue gave it.                        *)
LEMMA WorkerKnown ==
  ASSUME TypeOK, Known,
         NEW w \in Worker, WorkerStep(w) \/ WorkerError(w) \/ ErrorAckFails(w)
  PROVE  Known'
<1> USE PlatformAssumption DEF TypeOK, Known, Rows, TasksOf, Goto, NoTask, NoRun,
        taskVars, runVars, queueVars, workerVars, apiVars, tickVars, faultVars
<1>1. ASSUME NEW t \in Task, Pop(w, t) PROVE Known'
  BY <1>1 DEF Pop, Take
<1>2. ASSUME Discard(w) PROVE Known'
  BY <1>2 DEF Discard
<1>3. ASSUME Orphan(w) PROVE Known'
  BY <1>3 DEF Orphan
<1>4. ASSUME Admit(w) PROVE Known'
  BY <1>4 DEF Admit
<1>5. ASSUME AcquireLock(w) PROVE Known'
  BY <1>5 DEF AcquireLock, LockOf
<1>6. ASSUME LockTimeout(w) PROVE Known'
  BY <1>6 DEF LockTimeout
<1>7. ASSUME FailWithoutRun(w) PROVE Known'
  <2>1. cur[w] \in Rows
    BY <1>7 DEF FailWithoutRun
  <2>2. \A t \in Task : status'[t] = status[t] \/ t = cur[w]
    BY <1>7 DEF FailWithoutRun, SaveStatus
  <2> QED
    BY <1>7, <2>1, <2>2 DEF FailWithoutRun
<1>8. ASSUME SkipCancelled(w) PROVE Known'
  BY <1>8 DEF SkipCancelled
<1>9. ASSUME StartRead(w) PROVE Known'
  BY <1>9 DEF StartRead
<1>10. ASSUME StartCommit(w) PROVE Known'
  <2>1. cur[w] \in Rows
    BY <1>10 DEF StartCommit
  <2>2. \A t \in Task : status'[t] = status[t] \/ t = cur[w]
    BY <1>10 DEF StartCommit, SaveStatus
  <2> QED
    BY <1>10, <2>1, <2>2 DEF StartCommit
<1>11. ASSUME AgentStops(w) PROVE Known'
  BY <1>11 DEF AgentStops
<1>12. ASSUME NEW o \in {"passed", "failed", "skipped"}, FinishRead(w, o) PROVE Known'
  BY <1>12 DEF FinishRead
<1>13. ASSUME FinishCommit(w) PROVE Known'
  <2>1. cur[w] \in Rows
    BY <1>13 DEF FinishCommit
  <2>2. \A t \in Task : status'[t] = status[t] \/ t = cur[w]
    BY <1>13 DEF FinishCommit, SaveStatus
  <2> QED
    BY <1>13, <2>1, <2>2 DEF FinishCommit
<1>14. ASSUME AckAndRelease(w) PROVE Known'
  BY <1>14 DEF AckAndRelease, Ack, Release
<1>15. ASSUME ErrorAck(w) PROVE Known'
  BY <1>15 DEF ErrorAck, Ack
<1>16. ASSUME WorkerError(w) PROVE Known'
  BY <1>16 DEF WorkerError, Release
<1>17. ASSUME ErrorAckFails(w) PROVE Known'
  BY <1>17 DEF ErrorAckFails
<1>18. ASSUME CureFails(w) PROVE Known'
  BY <1>18 DEF CureFails, Release
<1> QED
  BY <1>1, <1>2, <1>3, <1>4, <1>5, <1>6, <1>7, <1>8, <1>9, <1>10, <1>11, <1>12, <1>13,
     <1>14, <1>15, <1>16, <1>17, <1>18 DEF WorkerStep

(* A tick works on the rows it has loaded.                                 *)
LEMMA TickKnown ==
  ASSUME TypeOK, Known,
         TickStep \/ TickError
  PROVE  Known'
<1> USE PlatformAssumption DEF TypeOK, Known, Rows, TasksOf, Goto, NoTask, NoRun,
        taskVars, runVars, queueVars, workerVars, apiVars, tickVars, faultVars
<1>1. ASSUME TickStart PROVE Known'
  BY <1>1 DEF TickStart, Late
<1>2. ASSUME TickEnd PROVE Known'
  BY <1>2 DEF TickEnd
<1>3. ASSUME NEW t \in Task, RecoverRequeue(t) PROVE Known'
  BY <1>3 DEF RecoverRequeue, Requeue, Ack, Push
<1>4. ASSUME NEW t \in Task, RetryPush(t) PROVE Known'
  BY <1>4 DEF RetryPush, Push
<1>5. ASSUME RecoverCommit PROVE Known'
  BY <1>5 DEF RecoverCommit, SetStatus
<1>6. ASSUME WatchdogRead PROVE Known'
  BY <1>6 DEF WatchdogRead, TimedOut
<1>7. ASSUME WatchdogCommit PROVE Known'
  BY <1>7 DEF WatchdogCommit, SetStatus
<1>8. ASSUME RetryRead PROVE Known'
  BY <1>8 DEF RetryRead, Retryable
<1>9. ASSUME RetryCommit PROVE Known'
  BY <1>9 DEF RetryCommit, SetStatus
<1>10. ASSUME QuarantineRead PROVE Known'
  BY <1>10 DEF QuarantineRead, Hopeless
<1>11. ASSUME QuarantineCommit PROVE Known'
  BY <1>11 DEF QuarantineCommit, SetStatus
<1>12. ASSUME NEW r \in Run, CompleteSkip(r) PROVE Known'
  BY <1>12 DEF CompleteSkip
<1>13. ASSUME NEW r \in Run, CompleteRead(r) PROVE Known'
  BY <1>13 DEF CompleteRead
<1>14. ASSUME CompleteCommit PROVE Known'
  BY <1>14 DEF CompleteCommit
<1>15. ASSUME TickError PROVE Known'
  BY <1>15 DEF TickError
<1> QED
  BY <1>1, <1>2, <1>3, <1>4, <1>5, <1>6, <1>7, <1>8, <1>9, <1>10, <1>11, <1>12, <1>13,
     <1>14, <1>15 DEF TickStep

(* New rows are added to what is known, and handlers work on known ones.   *)
LEMMA OtherKnown ==
  ASSUME TypeOK, Known,
         \/ UserStep \/ HandlerStep \/ Elapse
         \/ \E r \in Run : HandlerError(r)
         \/ \E p \in Process : Crash(p)
  PROVE  Known'
<1> USE PlatformAssumption DEF TypeOK, Known, Rows, TasksOf, Goto, NoTask, NoRun,
        taskVars, runVars, queueVars, workerVars, apiVars, tickVars, faultVars
<1>1. ASSUME NEW r \in Run, NEW n \in Nat, NEW list \in [1..n -> Case],
             CreateRun(r, n, list)
      PROVE  Known'
  <2> DEFINE new == {t \in Task \ Rows : Place(t) <= n}
  <2>1. /\ new \subseteq Task \ Rows
        /\ runOf' = [t \in Task |-> IF t \in new THEN r ELSE runOf[t]]
        /\ status' = [t \in Task |-> IF t \in new THEN "queued" ELSE status[t]]
        /\ unpushed' = unpushed \cup new
    BY <1>1 DEF CreateRun, SetStatus
  <2> HIDE DEF new
  <2>2. Rows' = Rows \cup new /\ \A t \in Rows : runOf'[t] = runOf[t]
    BY <2>1 DEF Run
  <2>3. /\ \A q \in Run : toSkip'[q] \subseteq TasksOf(q)'
        /\ \A v \in Worker : cur'[v] # NoTask => cur'[v] \in Rows'
        /\ UNCHANGED <<ready, claim, batch, due>>
    BY <1>1, <2>1, <2>2 DEF CreateRun, Run
  <2> QED
    BY <2>1, <2>2, <2>3
<1>2. ASSUME NEW r \in Run, CancelRead(r) PROVE Known'
  BY <1>2 DEF CancelRead
<1>3. ASSUME NEW r \in Run, CancelCommit(r) PROVE Known'
  <2>1. toSkip[r] \subseteq Rows
    BY DEF Run
  <2>2. /\ \A t \in Task : status'[t] = status[t] \/ t \in toSkip[r]
        /\ \A q \in Run : toSkip'[q] \subseteq toSkip[q]
    BY <1>3 DEF CancelCommit, SetStatus
  <2> QED
    BY <1>3, <2>1, <2>2 DEF CancelCommit
<1>4. ASSUME NEW m \in AttemptLimits, SetPolicy(m) PROVE Known'
  BY <1>4 DEF SetPolicy
<1>5. ASSUME NEW c \in Case, DeleteCase(c) PROVE Known'
  BY <1>5 DEF DeleteCase
<1>6. ASSUME NEW t \in Task, PushSubmitted(t) PROVE Known'
  BY <1>6 DEF PushSubmitted, Push
<1>7. ASSUME NEW r \in Run, HandlerError(r) PROVE Known'
  BY <1>7 DEF HandlerError
<1>8. ASSUME NEW p \in Process, Crash(p) PROVE Known'
  BY <1>8 DEF Crash
<1>9. ASSUME Elapse PROVE Known'
  BY <1>9 DEF Elapse
<1>s. ASSUME NEW r \in Run,
             \/ \E c \in Case : SubmitCase(r, c)
             \/ \E p \in Plan : SubmitPlan(r, p)
             \/ \E src \in Run : RerunFailed(r, src)
      PROVE  Known'
  BY <1>s, <1>1, SubmissionCreates
<1> QED
  BY <1>2, <1>3, <1>4, <1>5, <1>6, <1>7, <1>8, <1>9, <1>s DEF UserStep, HandlerStep

-----------------------------------------------------------------------------
(* The orchestrator only writes statuses, attempts, verdicts and the queue.*)
LEMMA TickFrame ==
  ASSUME TickStep \/ TickError
  PROVE  UNCHANGED <<runOf, caseOf, sessions, workerVars, apiVars, cases, policy>>
<1> USE DEF taskVars, runVars, queueVars, workerVars, apiVars, tickVars, faultVars
<1>1. CASE \/ TickStart \/ TickEnd \/ RecoverCommit \/ WatchdogRead \/ WatchdogCommit
           \/ RetryRead \/ RetryCommit \/ TickError
  BY <1>1 DEF TickStart, TickEnd, RecoverCommit, WatchdogRead, WatchdogCommit, RetryRead,
     RetryCommit, TickError
<1>2. CASE \/ \E t \in Task : RecoverRequeue(t) \/ RetryPush(t)
           \/ QuarantineRead \/ QuarantineCommit \/ CompleteCommit
           \/ \E r \in Run : CompleteSkip(r) \/ CompleteRead(r)
  BY <1>2 DEF RecoverRequeue, RetryPush, QuarantineRead, QuarantineCommit,
     CompleteCommit, CompleteSkip, CompleteRead
<1> QED
  BY <1>1, <1>2 DEF TickStep

(* Only the creation of a run gives rows a run and a case.                 *)
LEMMA RowsCreated ==
  ASSUME TypeOK, [Next]_vars
  PROVE  \/ UNCHANGED <<runOf, caseOf>>
         \/ \E r \in Run, n \in Nat : \E list \in [1..n -> Case] : CreateRun(r, n, list)
<1> USE DEF taskVars, runVars, queueVars, workerVars, apiVars, tickVars, faultVars
<1>1. ASSUME NEW w \in Worker, WorkerStep(w) \/ WorkerError(w) \/ ErrorAckFails(w)
      PROVE  UNCHANGED <<runOf, caseOf>>
  BY <1>1 DEF WorkerStep, WorkerError, ErrorAckFails, Pop, Discard, Orphan, Admit,
     AcquireLock, LockTimeout, FailWithoutRun, SkipCancelled, StartRead, StartCommit,
     AgentStops, FinishRead, FinishCommit, CureFails, AckAndRelease, ErrorAck
<1>2. ASSUME TickStep \/ TickError PROVE UNCHANGED <<runOf, caseOf>>
  BY <1>2, TickFrame
<1>3. ASSUME \/ HandlerStep \/ Elapse
             \/ \E r \in Run : HandlerError(r) \/ CancelRead(r)
             \/ \E p \in Process : Crash(p)
             \/ \E m \in AttemptLimits : SetPolicy(m)
             \/ \E c \in Case : DeleteCase(c)
      PROVE  UNCHANGED <<runOf, caseOf>>
  BY <1>3 DEF HandlerStep, PushSubmitted, CancelCommit, Elapse, HandlerError, CancelRead,
     Crash, SetPolicy, DeleteCase
<1>4. ASSUME UNCHANGED vars PROVE UNCHANGED <<runOf, caseOf>>
  BY <1>4 DEF vars
<1> QED
  BY <1>1, <1>2, <1>3, <1>4, SubmissionCreates DEF Next, UserStep

(* A row belongs to one run and one case for good.                         *)
LEMMA RowsKept ==
  ASSUME TypeOK, [Next]_vars
  PROVE  \A t \in Rows : t \in Rows' /\ runOf'[t] = runOf[t] /\ caseOf'[t] = caseOf[t]
<1> DEFINE Kept == \A t \in Rows : t \in Rows' /\ runOf'[t] = runOf[t] /\ caseOf'[t] = caseOf[t]
<1>1. ASSUME UNCHANGED <<runOf, caseOf>> PROVE Kept
  BY <1>1 DEF Rows
<1>2. ASSUME NEW r \in Run, NEW n \in Nat, NEW list \in [1..n -> Case],
             CreateRun(r, n, list)
      PROVE  Kept
  <2> DEFINE new == {t \in Task \ Rows : Place(t) <= n}
  <2>1. /\ new \subseteq Task \ Rows
        /\ runOf' = [t \in Task |-> IF t \in new THEN r ELSE runOf[t]]
        /\ caseOf' = [t \in Task |-> IF t \in new THEN list[Place(t)] ELSE caseOf[t]]
    BY <1>2 DEF CreateRun
  <2> HIDE DEF new
  <2> QED
    BY <2>1 DEF Rows
<1> QED
  BY <1>1, <1>2, RowsCreated

(* Known is inductive.                                                     *)
LEMMA KnownKept ==
  ASSUME TypeOK, Known, [Next]_vars
  PROVE  Known'
<1>1. ASSUME UNCHANGED vars PROVE Known'
  BY <1>1 DEF vars, taskVars, runVars, queueVars, workerVars, apiVars, tickVars, Known,
     Rows, TasksOf
<1> QED
  BY <1>1, WorkerKnown, TickKnown, OtherKnown DEF Next

-----------------------------------------------------------------------------
(* The lock a working worker holds is one of the table of locks.           *)
LEMMA LockType ==
  ASSUME TypeOK, NEW w \in Worker, Working(w)
  PROVE  /\ cur[w] \in Task
         /\ KeyOf[caseOf[cur[w]]] # NoKey => LockOf(w) \in Process \X Key
<1>1. cur[w] \in Task
  BY DEF TypeOK, Working
<1> QED
  BY <1>1, PlatformAssumption DEF TypeOK, LockOf

(* A step of another worker takes no lock away, and v holds what it had.   *)
LEMMA OthersLockKept ==
  ASSUME TypeOK, Known, Locked,
         NEW w \in Worker, WorkerStep(w) \/ WorkerError(w) \/ ErrorAckFails(w),
         NEW v \in Worker \ {w}, Working(v)', KeyOf[caseOf[cur[v]]]' # NoKey
  PROVE  (holder[LockOf(v)] = v)'
<1> USE DEF TypeOK, Goto, taskVars, runVars, queueVars, workerVars, apiVars, tickVars,
        faultVars
<1>1. /\ UNCHANGED caseOf /\ pc'[v] = pc[v] /\ cur'[v] = cur[v]
      /\ \/ UNCHANGED holder
         \/ Release(w)
         \/ /\ holder' = [holder EXCEPT ![LockOf(w)] = w]
            /\ holder[LockOf(w)] = NoWorker
  <2>1. CASE \/ \E t \in Task : Pop(w, t)
             \/ Discard(w) \/ Orphan(w) \/ Admit(w) \/ AcquireLock(w) \/ LockTimeout(w)
             \/ FailWithoutRun(w) \/ SkipCancelled(w) \/ StartRead(w)
    BY <2>1 DEF Pop, Discard, Orphan, Admit, AcquireLock, LockTimeout, FailWithoutRun,
       SkipCancelled, StartRead
  <2>2. CASE \/ StartCommit(w) \/ AgentStops(w)
             \/ \E o \in {"passed", "failed", "skipped"} : FinishRead(w, o)
             \/ FinishCommit(w) \/ CureFails(w) \/ AckAndRelease(w) \/ ErrorAck(w)
             \/ WorkerError(w) \/ ErrorAckFails(w)
    BY <2>2 DEF StartCommit, AgentStops, FinishRead, FinishCommit, CureFails, AckAndRelease,
       ErrorAck, WorkerError, ErrorAckFails
  <2> QED
    BY <2>1, <2>2 DEF WorkerStep
<1>2. /\ Working(v) /\ KeyOf[caseOf[cur[v]]] # NoKey /\ LockOf(v)' = LockOf(v)
  BY <1>1 DEF Working, LockOf
<1>3. holder[LockOf(v)] = v /\ LockOf(v) \in Process \X Key
  BY <1>2, LockType DEF Locked
<1>4. holder'[LockOf(v)] = v
  <2>1. CASE UNCHANGED holder
    BY <2>1, <1>3
  <2>2. CASE Release(w)
    BY <2>2, <1>3 DEF Release
  <2>3. CASE holder' = [holder EXCEPT ![LockOf(w)] = w] /\ holder[LockOf(w)] = NoWorker
    <3>1. LockOf(v) # LockOf(w)
      BY <2>3, <1>3, PlatformAssumption
    <3> QED
      BY <2>3, <3>1, <1>3
  <2> QED
    BY <1>1, <2>1, <2>2, <2>3
<1> QED
  BY <1>2, <1>4

(* A worker comes to work on a task with a resource only by its lock, and  *)
(* gives the lock back only when it stops working.                         *)
LEMMA OwnLockKept ==
  ASSUME TypeOK, Known, Locked,
         NEW w \in Worker, WorkerStep(w) \/ WorkerError(w) \/ ErrorAckFails(w),
         Working(w)', KeyOf[caseOf[cur[w]]]' # NoKey
  PROVE  (holder[LockOf(w)] = w)'
<1> DEFINE Own == (holder[LockOf(w)] = w)'
<1> USE DEF TypeOK, Goto, Working, taskVars, runVars, queueVars, workerVars, apiVars,
        tickVars, faultVars
<1>1. CASE Admit(w)
  BY <1>1 DEF Admit
<1>2. CASE AcquireLock(w)
  <2>1. cur[w] \in Task /\ UNCHANGED <<cur, caseOf>>
    BY <1>2 DEF AcquireLock
  <2>2. LockOf(w) \in Process \X Key /\ LockOf(w)' = LockOf(w)
    BY <2>1, PlatformAssumption DEF LockOf
  <2> QED
    BY <1>2, <2>2 DEF AcquireLock
<1>3. ASSUME Working(w), UNCHANGED <<cur, caseOf, holder>> PROVE Own
  BY <1>3 DEF Locked, LockOf
<1>4. CASE \/ StartRead(w) \/ StartCommit(w) \/ AgentStops(w)
           \/ \E o \in {"passed", "failed", "skipped"} : FinishRead(w, o)
  BY <1>3, <1>4 DEF StartRead, StartCommit, AgentStops, FinishRead
<1>5. CASE \/ \E t \in Task : Pop(w, t)
           \/ Discard(w) \/ Orphan(w) \/ LockTimeout(w) \/ FailWithoutRun(w)
           \/ SkipCancelled(w) \/ FinishCommit(w) \/ CureFails(w) \/ AckAndRelease(w)
           \/ ErrorAck(w) \/ WorkerError(w) \/ ErrorAckFails(w)
  BY <1>5 DEF Pop, Discard, Orphan, LockTimeout, FailWithoutRun, SkipCancelled,
     FinishCommit, CureFails, AckAndRelease, ErrorAck, WorkerError, ErrorAckFails
<1> QED
  BY <1>1, <1>2, <1>4, <1>5 DEF WorkerStep

(* Locked is inductive.                                                    *)
LEMMA LockedKept ==
  ASSUME TypeOK, Known, Locked, [Next]_vars
  PROVE  Locked'
<1>1. ASSUME NEW w \in Worker, WorkerStep(w) \/ WorkerError(w) \/ ErrorAckFails(w)
      PROVE  Locked'
  BY <1>1, OthersLockKept, OwnLockKept DEF Locked
<1>2. ASSUME UNCHANGED workerVars PROVE Locked'
  <2> SUFFICES ASSUME NEW w \in Worker, Working(w)', KeyOf[caseOf[cur[w]]]' # NoKey
               PROVE  (holder[LockOf(w)] = w)'
    BY DEF Locked
  <2>1. Working(w) /\ cur'[w] = cur[w]
    BY <1>2 DEF Working, workerVars
  <2>2. caseOf'[cur[w]] = caseOf[cur[w]]
    BY <2>1, RowsKept DEF Known, Working, TypeOK
  <2> QED
    BY <1>2, <2>1, <2>2 DEF Locked, LockOf, workerVars
<1>3. ASSUME NEW p \in Process, Crash(p) PROVE Locked'
  <2> SUFFICES ASSUME NEW w \in Worker, Working(w)', KeyOf[caseOf[cur[w]]]' # NoKey
               PROVE  (holder[LockOf(w)] = w)'
    BY DEF Locked
  <2>1. ProcOf[w] # p /\ Working(w) /\ cur'[w] = cur[w] /\ UNCHANGED caseOf
    BY <1>3 DEF Crash, Working, taskVars
  <2>2. holder[LockOf(w)] = w /\ LockOf(w) \in Process \X Key /\ LockOf(w)' = LockOf(w)
    BY <2>1, LockType DEF Locked, LockOf
  <2> QED
    BY <1>3, <2>1, <2>2 DEF Crash, LockOf
<1>4. ASSUME \/ HandlerStep \/ Elapse \/ UserStep
             \/ \E r \in Run : HandlerError(r)
      PROVE  UNCHANGED workerVars
  <2>1. ASSUME NEW r \in Run, NEW n \in Nat, NEW list \in [1..n -> Case],
               CreateRun(r, n, list)
        PROVE  UNCHANGED workerVars
    BY <2>1 DEF CreateRun
  <2> QED
    BY <1>4, <2>1, SubmissionCreates DEF HandlerStep, PushSubmitted, CancelCommit, Elapse,
       UserStep, HandlerError, CancelRead, SetPolicy, DeleteCase
<1> QED
  BY <1>1, <1>2, <1>3, <1>4, TickFrame DEF Next, vars

-----------------------------------------------------------------------------
(* Nobody but CreateRun and the completion pass writes a run.              *)
LEMMA RunFrame ==
  ASSUME TypeOK, Next
  PROVE  \/ UNCHANGED <<runVars, open, closing, tally>>
         \/ \E p \in Process : Crash(p)
         \/ TickStep \/ TickError
         \/ \E r \in Run, n \in Nat : \E list \in [1..n -> Case] : CreateRun(r, n, list)
<1> USE DEF tickVars
<1>1. ASSUME NEW w \in Worker, WorkerStep(w) \/ WorkerError(w) \/ ErrorAckFails(w)
      PROVE  UNCHANGED <<runVars, open, closing, tally>>
  BY <1>1 DEF WorkerStep, WorkerError, ErrorAckFails, Pop, Discard, Orphan, Admit,
     AcquireLock, LockTimeout, FailWithoutRun, SkipCancelled, StartRead, StartCommit,
     AgentStops, FinishRead, FinishCommit, CureFails, AckAndRelease, ErrorAck
<1>2. ASSUME \/ HandlerStep \/ Elapse
             \/ \E r \in Run : HandlerError(r) \/ CancelRead(r)
             \/ \E m \in AttemptLimits : SetPolicy(m)
             \/ \E c \in Case : DeleteCase(c)
      PROVE  UNCHANGED <<runVars, open, closing, tally>>
  BY <1>2 DEF HandlerStep, PushSubmitted, CancelCommit, Elapse, HandlerError, CancelRead,
     SetPolicy, DeleteCase
<1> QED
  BY <1>1, <1>2, SubmissionCreates DEF Next, UserStep

(* OpenRuns is inductive, and a step that keeps it keeps finished runs.    *)
LEMMA OpenRunsKept ==
  ASSUME TypeOK, OpenRuns, [Next]_vars
  PROVE  /\ OpenRuns'
         /\ \A r \in Run : Finished(r) => /\ runStatus'[r] = runStatus[r]
                                          /\ stats'[r] = stats[r]
<1> DEFINE Final == \A r \in Run : Finished(r) => /\ runStatus'[r] = runStatus[r]
                                                  /\ stats'[r] = stats[r]
<1> USE DEF TypeOK, OpenRuns, Finished, RunTerminal, NoRun, runVars, tickVars
<1>0. NoRun \notin Run
  BY PlatformAssumption DEF Run
<1>1. ASSUME UNCHANGED <<runVars, open, closing>> PROVE OpenRuns' /\ Final
  BY <1>1
<1>2. ASSUME NEW p \in Process, Crash(p) PROVE OpenRuns' /\ Final
  BY <1>2 DEF Crash
<1>3. ASSUME NEW r \in Run, NEW n \in Nat, NEW list \in [1..n -> Case],
             CreateRun(r, n, list)
      PROVE  OpenRuns' /\ Final
  BY <1>3 DEF CreateRun
<1>4. ASSUME TickError PROVE OpenRuns' /\ Final
  BY <1>4 DEF TickError
<1>5. ASSUME QuarantineRead \/ QuarantineCommit PROVE OpenRuns' /\ Final
  BY <1>0, <1>5 DEF QuarantineRead, QuarantineCommit
<1>6. ASSUME NEW r \in Run, CompleteSkip(r) \/ CompleteRead(r) PROVE OpenRuns' /\ Final
  BY <1>6 DEF CompleteSkip, CompleteRead
<1>7. ASSUME CompleteCommit PROVE OpenRuns' /\ Final
  <2>1. closing \in Run /\ runStatus[closing] = "running"
    BY <1>7 DEF CompleteCommit
  <2>2. /\ closing' = NoRun /\ UNCHANGED open
        /\ \A r \in Run \ {closing} : runStatus'[r] = runStatus[r] /\ stats'[r] = stats[r]
    BY <1>7 DEF CompleteCommit
  <2> QED
    BY <1>0, <2>1, <2>2
<1>8. ASSUME \/ TickStart \/ TickEnd \/ \E t \in Task : RecoverRequeue(t) \/ RetryPush(t)
             \/ RecoverCommit \/ WatchdogRead \/ WatchdogCommit \/ RetryRead \/ RetryCommit
      PROVE  UNCHANGED <<runVars, open, closing>>
  BY <1>8 DEF TickStart, TickEnd, RecoverRequeue, RetryPush, RecoverCommit, WatchdogRead,
     WatchdogCommit, RetryRead, RetryCommit
<1> QED
  BY <1>1, <1>2, <1>3, <1>4, <1>5, <1>6, <1>7, <1>8, RunFrame DEF TickStep, vars

-----------------------------------------------------------------------------
(* A tally that counts skipped tasks has counted one.                      *)
LEMMA SkippedCounted ==
  ASSUME NEW r \in Run, TallyOf(r).skipped > 0
  PROVE  \E t \in TasksOf(r) : status[t] = "skipped"
<1> DEFINE S == {t \in TasksOf(r) : status[t] = "skipped"}
<1>1. TallyOf(r).skipped = Cardinality(S)
  BY DEF TallyOf
<1>2. S \subseteq Task
  BY DEF TasksOf
<1>3. S # {}
  BY <1>1, <1>2, TasksFinite, FS_EmptySet
<1> QED
  BY <1>3

(* _complete_runs calls a run cancelled only if a task of it was skipped.   *)
LEMMA CancelledCounted ==
  ASSUME NEW s \in Stats, Verdict(s) = "cancelled"
  PROVE  s.skipped > 0
<1>1. s.passed \in Nat /\ s.failed \in Nat /\ s.quarantined \in Nat /\ s.skipped \in Nat
  BY DEF Stats
<1> QED
  BY <1>1 DEF Verdict

(* A worker finds a cancellation in the registry or in the row, and writes *)
(* SKIPPED only then.                                                      *)
LEMMA WorkerRequested ==
  ASSUME TypeOK, Known, Requested,
         NEW w \in Worker, WorkerStep(w) \/ WorkerError(w) \/ ErrorAckFails(w)
  PROVE  Requested'
<1> USE PlatformAssumption DEF TypeOK, Known, Requested, CancelOnlyOnRequest, Rows, Goto,
        NoTask, NoRun, taskVars, runVars, queueVars, workerVars, apiVars, tickVars, faultVars
<1>1. ASSUME NEW t \in Task, Pop(w, t) PROVE Requested'
  BY <1>1 DEF Pop
<1>2. ASSUME \/ Discard(w) \/ Orphan(w) \/ Admit(w) \/ AcquireLock(w) \/ LockTimeout(w)
             \/ SkipCancelled(w) \/ StartRead(w)
      PROVE  Requested'
  BY <1>2 DEF Discard, Orphan, Admit, AcquireLock, LockTimeout, SkipCancelled, StartRead
<1>3. ASSUME FailWithoutRun(w) PROVE Requested'
  <2>1. \A t \in Task : status'[t] = status[t] \/ status'[t] = "failed"
    BY <1>3 DEF FailWithoutRun, SaveStatus
  <2> QED
    BY <1>3, <2>1 DEF FailWithoutRun
<1>4. ASSUME StartCommit(w) PROVE Requested'
  <2>1. \A t \in Task : status'[t] = status[t] \/ status'[t] = "running"
    BY <1>4 DEF StartCommit, SaveStatus
  <2> QED
    BY <1>4, <2>1 DEF StartCommit
<1>5. ASSUME AgentStops(w) PROVE Requested'
  <2>1. runOf[cur[w]] \in cancelled
    BY <1>5 DEF AgentStops, InRegistry
  <2> QED
    BY <1>5, <2>1 DEF AgentStops
<1>6. ASSUME NEW o \in {"passed", "failed", "skipped"}, FinishRead(w, o) PROVE Requested'
  <2>1. verdict'[w] = "skipped" => runOf[cur[w]] \in cancelled
    <3>1. CASE status[cur[w]] = "skipped" \/ InRegistry(w)
      BY <1>6, <3>1 DEF FinishRead, InRegistry
    <3>2. CASE ~(status[cur[w]] = "skipped" \/ InRegistry(w))
      <4>1. verdict'[w] = o
        BY <1>6, <3>2 DEF FinishRead
      <4>2. o = "skipped" => pc[w] = "stopped"
        BY <1>6 DEF FinishRead
      <4> QED
        BY <4>1, <4>2
    <3> QED
      BY <3>1, <3>2
  <2> QED
    BY <1>6, <2>1 DEF FinishRead
<1>7. ASSUME FinishCommit(w) PROVE Requested'
  <2>1. \A t \in Rows : status'[t] = "skipped" => runOf[t] \in cancelled
    BY <1>7 DEF FinishCommit, SaveStatus
  <2> QED
    BY <1>7, <2>1 DEF FinishCommit
<1>8. ASSUME \/ CureFails(w) \/ AckAndRelease(w) \/ ErrorAck(w)
             \/ WorkerError(w) \/ ErrorAckFails(w)
      PROVE  Requested'
  <2>1. /\ pc'[w] \in {"idle", "error", "dead"}
        /\ \A v \in Worker \ {w} :
             pc'[v] = pc[v] /\ cur'[v] = cur[v] /\ verdict'[v] = verdict[v]
        /\ UNCHANGED <<status, runOf, runStatus, toSkip, registry, cancelled, tally, closing>>
    BY <1>8 DEF CureFails, AckAndRelease, ErrorAck, WorkerError, ErrorAckFails
  <2> QED
    BY <2>1
<1> QED
  BY <1>1, <1>2, <1>3, <1>4, <1>5, <1>6, <1>7, <1>8 DEF WorkerStep

(* The orchestrator writes no SKIPPED, and CANCELLED only by its tally.    *)
LEMMA TickRequested ==
  ASSUME TypeOK, Known, Requested, TickStep \/ TickError
  PROVE  Requested'
<1> USE PlatformAssumption DEF TypeOK, Requested, CancelOnlyOnRequest, Rows,
        taskVars, runVars, queueVars, workerVars, apiVars, tickVars, faultVars
<1>1. ASSUME \/ RecoverCommit \/ WatchdogCommit \/ RetryCommit \/ QuarantineCommit
      PROVE  Requested'
  <2>1. /\ \A t \in Task : status'[t] = status[t] \/ status'[t] # "skipped"
        /\ UNCHANGED <<runStatus, tally, closing>>
    BY <1>1 DEF RecoverCommit, WatchdogCommit, RetryCommit, QuarantineCommit, SetStatus
  <2> QED
    BY <1>1, <2>1, TickFrame
<1>2. ASSUME \/ TickStart \/ TickEnd \/ \E t \in Task : RecoverRequeue(t) \/ RetryPush(t)
             \/ WatchdogRead \/ RetryRead \/ QuarantineRead
             \/ \E r \in Run : CompleteSkip(r)
      PROVE  Requested'
  <2>1. UNCHANGED <<status, runStatus, tally, closing>>
    BY <1>2 DEF TickStart, TickEnd, RecoverRequeue, RetryPush, WatchdogRead, RetryRead,
       QuarantineRead, CompleteSkip
  <2> QED
    BY <1>2, <2>1, TickFrame
<1>3. ASSUME NEW r \in Run, CompleteRead(r) PROVE Requested'
  <2>1. /\ closing' = r /\ tally' = TallyOf(r)
        /\ UNCHANGED <<status, runOf, runStatus, toSkip, registry, cancelled, pc, cur, verdict>>
    BY <1>3 DEF CompleteRead
  <2>2. TallyOf(r).skipped > 0 => r \in cancelled
    BY SkippedCounted DEF TasksOf, NoRun, Run
  <2> QED
    BY <2>1, <2>2
<1>4. ASSUME CompleteCommit PROVE Requested'
  <2>1. closing \in Run
    BY <1>4 DEF CompleteCommit
  <2>2. /\ \A r \in Run : runStatus'[r] = runStatus[r] \/ r = closing
        /\ runStatus'[closing] = Verdict(tally)
        /\ tally'.skipped = 0
        /\ UNCHANGED <<status, runOf, toSkip, registry, cancelled, pc, cur, verdict>>
    BY <1>4, <2>1 DEF CompleteCommit, NoStats
  <2>3. Verdict(tally) = "cancelled" => closing \in cancelled
    BY CancelledCounted
  <2> QED
    BY <2>1, <2>2, <2>3
<1>5. ASSUME TickError PROVE Requested'
  BY <1>5 DEF TickError, NoStats
<1> QED
  BY <1>1, <1>2, <1>3, <1>4, <1>5 DEF TickStep

(* Requested is inductive.                                                 *)
LEMMA RequestedKept ==
  ASSUME TypeOK, Known, Requested, [Next]_vars
  PROVE  Requested'
<1> USE PlatformAssumption DEF TypeOK, Known, Requested, CancelOnlyOnRequest, Rows, TasksOf,
        NoTask, NoRun, taskVars, runVars, queueVars, workerVars, apiVars, tickVars, faultVars
<1>1. ASSUME NEW r \in Run, NEW n \in Nat, NEW list \in [1..n -> Case],
             CreateRun(r, n, list)
      PROVE  Requested'
  <2> DEFINE new == {t \in Task \ Rows : Place(t) <= n}
  <2>1. /\ new \subseteq Task \ Rows
        /\ runOf' = [t \in Task |-> IF t \in new THEN r ELSE runOf[t]]
        /\ status' = [t \in Task |-> IF t \in new THEN "queued" ELSE status[t]]
        /\ \A q \in Run : runStatus'[q] = "cancelled" => runStatus[q] = "cancelled"
        /\ UNCHANGED <<toSkip, registry, cancelled, pc, cur, verdict, tally, closing>>
    BY <1>1 DEF CreateRun, SetStatus
  <2> HIDE DEF new
  <2>2. \A t \in Rows : t \in Rows' /\ runOf'[t] = runOf[t] /\ status'[t] = status[t]
    BY <2>1
  <2>3. \A t \in Rows' : status'[t] = "skipped" => runOf'[t] \in cancelled
    BY <2>1
  <2>4. \A w \in Worker :
          pc[w] = "stopped" \/ (pc[w] = "finish" /\ verdict[w] = "skipped")
            => runOf'[cur[w]] \in cancelled
    BY <2>2
  <2> QED
    BY <2>1, <2>2, <2>3, <2>4
<1>2. ASSUME NEW r \in Run, CancelRead(r) PROVE Requested'
  BY <1>2 DEF CancelRead, Run
<1>3. ASSUME NEW r \in Run, CancelCommit(r) PROVE Requested'
  <2>1. \A t \in Task : status'[t] = status[t] \/ t \in toSkip[r]
    BY <1>3 DEF CancelCommit, SetStatus
  <2>2. \A t \in toSkip[r] : runOf[t] \in cancelled
    BY <1>3
  <2> QED
    BY <1>3, <2>1, <2>2 DEF CancelCommit
<1>4. ASSUME \/ \E m \in AttemptLimits : SetPolicy(m)
             \/ \E c \in Case : DeleteCase(c)
             \/ \E t \in Task : PushSubmitted(t)
             \/ Elapse
      PROVE  Requested'
  BY <1>4 DEF SetPolicy, DeleteCase, PushSubmitted, Elapse
<1>5. ASSUME NEW r \in Run, HandlerError(r) PROVE Requested'
  BY <1>5 DEF HandlerError
<1>6. ASSUME NEW p \in Process, Crash(p) PROVE Requested'
  BY <1>6 DEF Crash, NoStats
<1>7. ASSUME UNCHANGED vars PROVE Requested'
  BY <1>7 DEF vars
<1> QED
  BY <1>1, <1>2, <1>3, <1>4, <1>5, <1>6, <1>7, WorkerRequested, TickRequested,
     SubmissionCreates DEF Next, UserStep, HandlerStep

-----------------------------------------------------------------------------
(* In every instance: what is known, what is locked, which runs are open   *)
(* and what was asked for stay consistent with the tables.                 *)
THEOREM SafetyHolds == Spec => []SafetyInv
<1>1. Init => SafetyInv
  BY InitTypes DEF Init, SafetyInv, Known, Locked, Working, OpenRuns, Requested,
     CancelOnlyOnRequest, Rows, TasksOf, NoRun, NoTask, NoStats
<1>2. SafetyInv /\ [Next]_vars => SafetyInv'
  BY TypesKept, KnownKept, LockedKept, OpenRunsKept, RequestedKept DEF SafetyInv
<1> QED
  BY <1>1, <1>2, PTL DEF Spec

(* However many workers there are, whatever is delivered twice, fails or   *)
(* crashes: one process never runs two tasks on one resource.              *)
THEOREM ResourcesExclusive == Spec => []ResourceExclusive
<1>1. SafetyInv => ResourceExclusive
  <2> SUFFICES ASSUME SafetyInv, NEW v \in Worker, NEW w \in Worker, v # w,
                      ProcOf[v] = ProcOf[w], Working(v), Working(w),
                      KeyOf[caseOf[cur[v]]] # NoKey,
                      KeyOf[caseOf[cur[v]]] = KeyOf[caseOf[cur[w]]]
               PROVE  FALSE
    BY DEF ResourceExclusive
  <2>1. holder[LockOf(v)] = v /\ holder[LockOf(w)] = w
    BY DEF SafetyInv, Locked
  <2>2. LockOf(v) = LockOf(w)
    BY DEF LockOf
  <2> QED
    BY <2>1, <2>2
<1> QED
  BY <1>1, SafetyHolds, PTL

(* The verdict and the statistics of a finished run are final, though      *)
(* retries, quarantine and late workers go on rewriting its tasks.         *)
THEOREM RunsAreFinal == Spec => RunIsFinal
<1>1. SafetyInv /\ [Next]_vars
        => [\A r \in Run : Finished(r) => /\ runStatus'[r] = runStatus[r]
                                         /\ stats'[r] = stats[r]]_vars
  BY OpenRunsKept DEF SafetyInv
<1> QED
  BY <1>1, SafetyHolds, PTL DEF Spec, RunIsFinal

(* No task is skipped and no run ends as cancelled unless the user asked   *)
(* for it.                                                                 *)
THEOREM CancellationsRequested == Spec => []CancelOnlyOnRequest
<1>1. SafetyInv => CancelOnlyOnRequest
  BY DEF SafetyInv, Requested
<1> QED
  BY <1>1, SafetyHolds, PTL

-----------------------------------------------------------------------------
(* What has been counted of a run: each of its tasks, exactly once.        *)
Counted(r, s) == /\ s.total = Cardinality(TasksOf(r)) /\ s.total > 0
                 /\ s.total = s.passed + s.failed + s.quarantined + s.skipped
StatusWritten == \A t \in Rows : status[t] # "none"
StatsInv ==
  /\ StatusWritten
  /\ closing # NoRun => Counted(closing, tally)
  /\ \A r \in Run : Finished(r) =>
       /\ Counted(r, stats[r])
       /\ runStatus[r] = "passed" =>
            stats[r].passed > 0 /\ stats[r].failed + stats[r].quarantined = 0

(* A row is created with a status, and nobody takes it away.               *)
LEMMA StatusKept ==
  ASSUME TypeOK, StatusWritten, [Next]_vars
  PROVE  StatusWritten'
<1> USE DEF taskVars, runVars, queueVars, workerVars, apiVars, tickVars, faultVars
<1>1. ASSUME UNCHANGED runOf, \A t \in Task : status'[t] = "none" => status[t] = "none"
      PROVE  StatusWritten'
  BY <1>1 DEF StatusWritten, Rows
<1>2. ASSUME NEW S, NEW st, st # "none", SetStatus(S, st), UNCHANGED runOf PROVE StatusWritten'
  BY <1>1, <1>2 DEF SetStatus
<1>3. ASSUME NEW r \in Run, NEW n \in Nat, NEW list \in [1..n -> Case], CreateRun(r, n, list)
      PROVE  StatusWritten'
  <2> DEFINE new == {t \in Task \ Rows : Place(t) <= n}
  <2>1. /\ runOf' = [t \in Task |-> IF t \in new THEN r ELSE runOf[t]]
        /\ status' = [t \in Task |-> IF t \in new THEN "queued" ELSE status[t]]
    BY <1>3 DEF CreateRun, SetStatus
  <2> HIDE DEF new
  <2> QED
    BY <2>1 DEF StatusWritten, Rows
<1>4. ASSUME NEW w \in Worker, FailWithoutRun(w) \/ StartCommit(w) \/ FinishCommit(w)
      PROVE  StatusWritten'
  <2>1. PICK st \in {"running", "passed", "failed", "skipped"} : SaveStatus(cur[w], seen[w], st)
    BY <1>4 DEF FailWithoutRun, StartCommit, FinishCommit, Goto, TypeOK
  <2>2. UNCHANGED runOf /\ cur[w] \in Task
    BY <1>4 DEF FailWithoutRun, StartCommit, FinishCommit, Goto, TypeOK
  <2>3. \A t \in Task : status'[t] \in {status[t], st}
    BY <2>1, <2>2 DEF SaveStatus, TypeOK
  <2> QED
    BY <1>1, <2>1, <2>2, <2>3
<1>5. ASSUME NEW w \in Worker, WorkerStep(w) \/ WorkerError(w) \/ ErrorAckFails(w),
             ~FailWithoutRun(w), ~StartCommit(w), ~FinishCommit(w)
      PROVE  StatusWritten'
  <2>1. UNCHANGED <<runOf, status>>
    BY <1>5 DEF WorkerStep, WorkerError, ErrorAckFails, Pop, Discard, Orphan, Admit,
       AcquireLock, LockTimeout, SkipCancelled, StartRead, AgentStops, FinishRead, CureFails,
       AckAndRelease, ErrorAck
  <2> QED
    BY <1>1, <2>1
<1>6. CASE RecoverCommit \/ WatchdogCommit \/ RetryCommit \/ QuarantineCommit
  BY <1>2, <1>6 DEF RecoverCommit, WatchdogCommit, RetryCommit, QuarantineCommit
<1>7. CASE \/ TickError \/ TickStart \/ TickEnd \/ \E t \in Task : RecoverRequeue(t) \/ RetryPush(t)
           \/ WatchdogRead \/ RetryRead \/ QuarantineRead \/ CompleteCommit
           \/ \E r \in Run : CompleteSkip(r) \/ CompleteRead(r)
  BY <1>1, <1>7 DEF TickError, TickStart, TickEnd, RecoverRequeue, RetryPush, WatchdogRead,
     RetryRead, QuarantineRead, CompleteCommit, CompleteSkip, CompleteRead
<1>8. ASSUME NEW r \in Run, CancelCommit(r) PROVE StatusWritten'
  BY <1>2, <1>8 DEF CancelCommit
<1>9. CASE \/ \E t \in Task : PushSubmitted(t)
           \/ \E r \in Run : HandlerError(r) \/ CancelRead(r)
           \/ \E p \in Process : Crash(p)
           \/ \E m \in AttemptLimits : SetPolicy(m)
           \/ \E c \in Case : DeleteCase(c)
           \/ Elapse \/ UNCHANGED vars
  BY <1>1, <1>9 DEF PushSubmitted, Elapse, HandlerError, CancelRead, Crash, SetPolicy,
     DeleteCase, vars
<1> QED
  BY <1>3, <1>4, <1>5, <1>6, <1>7, <1>8, <1>9, SubmissionCreates DEF Next, UserStep,
     HandlerStep, TickStep

(* Disjoint sets of tasks are counted apart.                               *)
LEMMA CountedApart ==
  ASSUME NEW A \in SUBSET Task, NEW B \in SUBSET Task, A \cap B = {}
  PROVE  Cardinality(A \cup B) = Cardinality(A) + Cardinality(B)
<1>1. IsFiniteSet(A) /\ IsFiniteSet(B) /\ Cardinality(A) \in Nat /\ Cardinality(B) \in Nat
  BY TasksFinite
<1>2. Cardinality(A \cap B) = 0
  BY FS_EmptySet
<1>3. Cardinality(A \cup B) = Cardinality(A) + Cardinality(B) - Cardinality(A \cap B)
  BY <1>1, FS_Union
<1> QED
  BY <1>1, <1>2, <1>3

(* The tasks of a settled run each have one of the four final statuses.    *)
LEMMA SettledCounted ==
  ASSUME TypeOK, StatusWritten, NEW r \in Run, Settled(r)
  PROVE  Counted(r, TallyOf(r))
<1> DEFINE With(st) == {t \in TasksOf(r) : status[t] = st}
<1>1. /\ TasksOf(r) \subseteq Rows /\ TasksOf(r) \in SUBSET Task
      /\ \A st : With(st) \in SUBSET Task
  BY DEF TasksOf, Rows, Run, NoRun
<1>2. \A t \in TasksOf(r) : status[t] # "none" => status[t] \in TaskTerminal
  BY <1>1 DEF Settled, TypeOK, TaskStatus, TaskActive
<1>3. \A t \in TasksOf(r) : status[t] \in TaskTerminal
  BY <1>1, <1>2 DEF StatusWritten
<1>4. TasksOf(r) = ((With("passed") \cup With("failed")) \cup With("quarantined"))
                      \cup With("skipped")
  BY <1>3 DEF TaskTerminal
<1>5. /\ With("passed") \cap With("failed") = {}
      /\ (With("passed") \cup With("failed")) \cap With("quarantined") = {}
      /\ ((With("passed") \cup With("failed")) \cup With("quarantined")) \cap With("skipped") = {}
  OBVIOUS
<1>6. /\ TallyOf(r).total = Cardinality(TasksOf(r))
      /\ TallyOf(r).passed = Cardinality(With("passed"))
      /\ TallyOf(r).failed = Cardinality(With("failed"))
      /\ TallyOf(r).quarantined = Cardinality(With("quarantined"))
      /\ TallyOf(r).skipped = Cardinality(With("skipped"))
  BY DEF TallyOf
<1> HIDE DEF With
<1>7. Cardinality(TasksOf(r)) = Cardinality(With("passed")) + Cardinality(With("failed"))
                                  + Cardinality(With("quarantined")) + Cardinality(With("skipped"))
  <2> DEFINE A == With("passed") \cup With("failed")
             B == A \cup With("quarantined")
  <2>1. Cardinality(A) = Cardinality(With("passed")) + Cardinality(With("failed"))
    BY <1>1, <1>5, CountedApart
  <2>2. Cardinality(B) = Cardinality(A) + Cardinality(With("quarantined"))
    BY <1>1, <1>5, CountedApart
  <2>3. Cardinality(TasksOf(r)) = Cardinality(B) + Cardinality(With("skipped"))
    BY <1>1, <1>4, <1>5, CountedApart
  <2> QED
    BY <2>1, <2>2, <2>3
<1>8. Cardinality(TasksOf(r)) \in Nat /\ Cardinality(TasksOf(r)) # 0
  BY <1>1, TasksFinite, FS_EmptySet DEF Settled
<1> QED
  BY <1>6, <1>7, <1>8 DEF Counted

(* No task is added to a run that exists.                                  *)
LEMMA TasksOfKept ==
  ASSUME TypeOK, [Next]_vars, NEW r \in Run, runStatus[r] # "none"
  PROVE  TasksOf(r)' = TasksOf(r)
<1>1. \/ UNCHANGED runOf
      \/ \E q \in Run, n \in Nat : \E list \in [1..n -> Case] : CreateRun(q, n, list)
  BY RowsCreated
<1>2. ASSUME NEW q \in Run, NEW n \in Nat, NEW list \in [1..n -> Case], CreateRun(q, n, list)
      PROVE  TasksOf(r)' = TasksOf(r)
  <2> DEFINE new == {t \in Task \ Rows : Place(t) <= n}
  <2>1. /\ new \subseteq Task \ Rows /\ q # r
        /\ runOf' = [t \in Task |-> IF t \in new THEN q ELSE runOf[t]]
    BY <1>2 DEF CreateRun
  <2> HIDE DEF new
  <2> QED
    BY <2>1 DEF TasksOf, Rows, Run, NoRun
<1> QED
  BY <1>1, <1>2 DEF TasksOf

(* The verdict on a run with tasks is passed only if there is one to show. *)
LEMMA PassedCounted ==
  ASSUME NEW s \in Stats, s.total > 0, s.total = s.passed + s.failed + s.quarantined + s.skipped,
         Verdict(s) = "passed"
  PROVE  s.passed > 0 /\ s.failed + s.quarantined = 0
BY DEF Verdict, Stats

(* StatsInv is inductive.                                                  *)
LEMMA StatsKept ==
  ASSUME SafetyInv, StatsInv, [Next]_vars
  PROVE  StatsInv'
<1> USE DEF runVars, tickVars
<1>0. TypeOK /\ OpenRuns /\ StatusWritten /\ StatusWritten' /\ NoRun \notin Run
  BY PlatformAssumption, StatusKept DEF SafetyInv, StatsInv, Run, NoRun
<1>1. \A r \in Run : Finished(r) =>
        /\ runStatus'[r] = runStatus[r] /\ stats'[r] = stats[r]
        /\ TasksOf(r)' = TasksOf(r)
  BY <1>0, OpenRunsKept, TasksOfKept DEF Finished, RunTerminal
<1>2. /\ closing # NoRun => closing \in Run
      /\ \A q \in Run : q = closing => TasksOf(q)' = TasksOf(q)
  <2>1. \A q \in Run : q = closing => runStatus[q] # "none"
    BY <1>0 DEF OpenRuns
  <2> QED
    BY <1>0, <2>1, TasksOfKept DEF TypeOK
<1>3. ASSUME closing' = NoRun \/ (closing' = closing /\ tally' = tally),
             \A r \in Run : Finished(r)' => Finished(r)
      PROVE  StatsInv'
  <2>1. closing' # NoRun => Counted(closing, tally)'
    BY <1>2, <1>3 DEF StatsInv, Counted, TasksOf
  <2>2. ASSUME NEW r \in Run, Finished(r)'
        PROVE  /\ Counted(r, stats[r])'
               /\ runStatus'[r] = "passed" =>
                    stats'[r].passed > 0 /\ stats'[r].failed + stats'[r].quarantined = 0
    BY <1>1, <1>3, <2>2 DEF StatsInv, Counted
  <2> QED
    BY <1>0, <2>1, <2>2 DEF StatsInv
<1>4. ASSUME NEW r \in Run, CompleteRead(r) PROVE StatsInv'
  <2>1. Counted(r, TallyOf(r)) /\ closing' = r /\ tally' = TallyOf(r)
        /\ UNCHANGED <<runStatus, stats>> /\ r \in open
    BY <1>0, <1>4, SettledCounted DEF CompleteRead
  <2>2. TasksOf(r)' = TasksOf(r)
    BY <1>0, <2>1, TasksOfKept DEF OpenRuns
  <2>3. Counted(closing, tally)'
    BY <2>1, <2>2 DEF Counted, TasksOf
  <2>4. \A q \in Run : Finished(q)' => Finished(q) /\ Counted(q, stats[q])'
    BY <1>1, <2>1 DEF StatsInv, Counted, Finished
  <2> QED
    BY <1>0, <2>1, <2>3, <2>4 DEF StatsInv
<1>5. ASSUME CompleteCommit PROVE StatsInv'
  <2>1. closing \in Run /\ Counted(closing, tally)
    BY <1>0, <1>2, <1>5 DEF CompleteCommit, TypeOK, StatsInv
  <2>2. /\ closing' = NoRun
        /\ runStatus' = [runStatus EXCEPT ![closing] = Verdict(tally)]
        /\ stats' = [stats EXCEPT ![closing] = tally]
    BY <1>5 DEF CompleteCommit
  <2>3. Verdict(tally) = "passed" => tally.passed > 0 /\ tally.failed + tally.quarantined = 0
    BY <1>0, <2>1, PassedCounted DEF Counted, TypeOK
  <2>4. stats'[closing] = tally /\ runStatus'[closing] = Verdict(tally)
    BY <1>0, <2>1, <2>2 DEF TypeOK
  <2>5. \A q \in Run : Finished(q)' => Finished(q) \/ q = closing
    BY <1>0, <2>1, <2>2 DEF TypeOK, Finished
  <2>6. ASSUME NEW q \in Run, Finished(q)'
        PROVE  /\ stats'[q].total = Cardinality(TasksOf(q))' /\ stats'[q].total > 0
               /\ stats'[q].total = stats'[q].passed + stats'[q].failed
                                      + stats'[q].quarantined + stats'[q].skipped
               /\ runStatus'[q] = "passed" =>
                    stats'[q].passed > 0 /\ stats'[q].failed + stats'[q].quarantined = 0
    <3>1. CASE q = closing
      <4>1. TasksOf(q)' = TasksOf(closing)
        BY <3>1, <1>2
      <4>2. Cardinality(TasksOf(q))' = Cardinality(TasksOf(closing))
        BY <4>1
      <4> QED
        BY <3>1, <4>2, <2>1, <2>3, <2>4 DEF Counted
    <3>2. CASE q # closing
      BY <3>2, <2>5, <2>6, <1>1 DEF StatsInv, Counted
    <3> QED
      BY <3>1, <3>2
  <2> QED
    BY <1>0, <2>2, <2>6 DEF StatsInv, Counted
<1>6. CASE UNCHANGED <<runVars, open, closing, tally>>
  BY <1>3, <1>6 DEF Finished
<1>7. ASSUME NEW p \in Process, Crash(p) PROVE StatsInv'
  BY <1>3, <1>7 DEF Crash, Finished
<1>8. ASSUME NEW r \in Run, NEW n \in Nat, NEW list \in [1..n -> Case], CreateRun(r, n, list)
      PROVE  StatsInv'
  <2>1. \A q \in Run : Finished(q)' => Finished(q)
    BY <1>0, <1>8 DEF CreateRun, Finished, RunTerminal, TypeOK
  <2> QED
    BY <1>3, <1>8, <2>1 DEF CreateRun
<1>9. CASE \/ TickError \/ TickStart \/ TickEnd \/ \E t \in Task : RecoverRequeue(t) \/ RetryPush(t)
           \/ RecoverCommit \/ WatchdogRead \/ WatchdogCommit \/ RetryRead \/ RetryCommit
           \/ QuarantineRead \/ QuarantineCommit \/ \E r \in Run : CompleteSkip(r)
  <2>1. UNCHANGED runStatus /\ (closing' = NoRun \/ (closing' = closing /\ tally' = tally))
    BY <1>9 DEF TickError, TickStart, TickEnd, RecoverRequeue, RetryPush, RecoverCommit,
       WatchdogRead, WatchdogCommit, RetryRead, RetryCommit, QuarantineRead, QuarantineCommit,
       CompleteSkip
  <2> QED
    BY <1>3, <2>1 DEF Finished
<1>10. CASE UNCHANGED vars
  BY <1>6, <1>10 DEF vars
<1> QED
  BY <1>0, <1>4, <1>5, <1>6, <1>7, <1>8, <1>9, <1>10, RunFrame DEF TickStep

(* In every instance the statistics of a finished run count each of its    *)
(* tasks once, and a run is passed only if a task passed and none failed.  *)
THEOREM StatsCoverRuns == Spec => []StatsCoverRun
<1>1. Init => StatsInv
  BY DEF Init, StatsInv, StatusWritten, Rows, Finished, RunTerminal
<1>2. SafetyInv /\ StatsInv /\ [Next]_vars => StatsInv'
  BY StatsKept
<1>3. StatsInv => StatsCoverRun
  BY DEF StatsInv, StatsCoverRun, Counted
<1> QED
  BY <1>1, <1>2, <1>3, SafetyHolds, PTL DEF Spec
=============================================================================
