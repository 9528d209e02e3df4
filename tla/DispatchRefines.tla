-------------------------- MODULE DispatchRefines --------------------------
(***************************************************************************)
(* The two abstract specifications that Dispatch implements, for every     *)
(* value of its constants: it uses no more of the queue than TaskQueue     *)
(* promises, and as long as no task times out it keeps to RunLedger.       *)
(***************************************************************************)
EXTENDS DispatchDelivery


(* The operations of Platform are those of the abstract queue.             *)
DueNow == [t \in Task |-> IF phase = "recover" /\ t \in due THEN 1 ELSE 0]
QueueStep == [Queue!Next]_<<ready, claim, DueNow, 0>>

LEMMA PushIsPush ==
  ASSUME TypeOK, NEW t \in Task, Push(t), UNCHANGED claim, DueNow' = DueNow
  PROVE  QueueStep
BY DEF Push, DueNow, QueueStep, Queue!Next, Queue!Push

LEMMA AckIsAck ==
  ASSUME TypeOK, NEW t \in Task, Ack(t), UNCHANGED ready, DueNow' = DueNow
  PROVE  QueueStep
<1>1. claim' = [u \in Task |-> IF u \in {t} THEN "none" ELSE claim[u]]
  BY DEF Ack, TypeOK
<1>2. Queue!Ack({t})
  BY <1>1 DEF Queue!Ack, DueNow
<1> QED
  BY <1>2 DEF QueueStep, Queue!Next

LEMMA TakeIsPop ==
  ASSUME TypeOK, NEW t \in Task, Take(t), DueNow' = DueNow
  PROVE  QueueStep
BY DEF Take, DueNow, QueueStep, Queue!Next, Queue!Pop

LEMMA QueueUnchanged ==
  ASSUME UNCHANGED <<ready, claim, phase, due>>
  PROVE  QueueStep
BY DEF QueueStep, DueNow

(* A step that ends the recovery early.                                    *)
LEMMA RecoveryEnds ==
  ASSUME UNCHANGED <<ready, claim>>, phase' # "recover"
  PROVE  QueueStep
<1>1. DueNow' = [t \in Task |-> 0]
  BY DEF DueNow
<1>2. Queue!GiveUp
  BY <1>1 DEF Queue!GiveUp, Queue!Nothing, DueNow
<1> QED
  BY <1>2 DEF QueueStep, Queue!Next

-----------------------------------------------------------------------------
(* A worker pops and acknowledges.                                         *)
LEMMA WorkerQueue ==
  ASSUME TypeOK, NEW w \in Worker, WorkerStep(w) \/ WorkerError(w) \/ ErrorAckFails(w)
  PROVE  QueueStep
<1> USE DEF tickVars, queueVars, Goto
<1>1. ASSUME NEW t \in Task, Pop(w, t) PROVE QueueStep
  <2>1. Take(t) /\ DueNow' = DueNow
    BY <1>1 DEF Pop, DueNow
  <2> QED
    BY <2>1, TakeIsPop
<1>2. CASE \/ Discard(w) \/ Orphan(w) \/ Admit(w) \/ AcquireLock(w) \/ LockTimeout(w)
           \/ FailWithoutRun(w) \/ SkipCancelled(w) \/ StartRead(w) \/ StartCommit(w)
           \/ AgentStops(w) \/ FinishCommit(w) \/ CureFails(w)
           \/ WorkerError(w) \/ ErrorAckFails(w)
  BY <1>2, QueueUnchanged DEF Discard, Orphan, Admit, AcquireLock, LockTimeout,
     FailWithoutRun, SkipCancelled, StartRead, StartCommit, AgentStops, FinishCommit,
     CureFails, WorkerError, ErrorAckFails
<1>3. ASSUME NEW o \in {"passed", "failed", "skipped"}, FinishRead(w, o) PROVE QueueStep
  BY <1>3, QueueUnchanged DEF FinishRead
<1>4. CASE AckAndRelease(w) \/ ErrorAck(w)
  <2>1. /\ cur[w] \in Task
        /\ Ack(cur[w]) /\ UNCHANGED ready
        /\ DueNow' = DueNow
    BY <1>4 DEF AckAndRelease, ErrorAck, DueNow, TypeOK
  <2> QED
    BY <2>1, AckIsAck
<1> QED
  BY <1>1, <1>2, <1>3, <1>4 DEF WorkerStep

(* The orchestrator recovers what it has found late, drops the claims of   *)
(* timed out tasks and pushes retries.                                     *)
LEMMA TickQueue ==
  ASSUME TypeOK, TickStep \/ TickError
  PROVE  QueueStep
<1> USE DEF queueVars
<1>1. CASE TickStart
  <2>1. \A t \in Task : DueNow'[t] \in Nat /\ (DueNow'[t] > 0 => claim[t] = "late")
    BY <1>1 DEF TickStart, DueNow, Late
  <2>2. Queue!Scan
    BY <1>1, <2>1 DEF TickStart, DueNow, Queue!Scan, Queue!Recoverable
  <2> QED
    BY <2>2 DEF QueueStep, Queue!Next
<1>2. ASSUME NEW t \in Task, RecoverRequeue(t) PROVE QueueStep
  <2>1. DueNow[t] = 1
    BY <1>2 DEF RecoverRequeue, DueNow
  <2>2. DueNow' = [DueNow EXCEPT ![t] = DueNow[t] - 1]
    <3>1. DueNow' = [u \in Task |-> IF phase = "recover" /\ u \in due \ {t} THEN 1 ELSE 0]
      BY <1>2 DEF RecoverRequeue, DueNow
    <3>2. \A u \in Task : DueNow'[u] = IF u = t THEN 0 ELSE DueNow[u]
      BY <3>1 DEF DueNow
    <3>3. DueNow' = [u \in Task |-> IF u = t THEN 0 ELSE DueNow[u]]
      BY <3>1, <3>2
    <3>4. [DueNow EXCEPT ![t] = DueNow[t] - 1] = [u \in Task |-> IF u = t THEN 0 ELSE DueNow[u]]
      <4>1. DueNow[t] - 1 = 0
        BY <2>1
      <4>2. DueNow = [u \in Task |-> DueNow[u]]
        BY DEF DueNow
      <4> QED
        BY <4>1, <4>2
    <3> QED
      BY <3>3, <3>4
  <2>3. Queue!Recover(t)
    BY <1>2, <2>1, <2>2 DEF RecoverRequeue, Requeue, Ack, Push, DueNow, Queue!Recover
  <2> QED
    BY <2>3 DEF QueueStep, Queue!Next
<1>3. ASSUME NEW t \in Task, RetryPush(t) PROVE QueueStep
  <2>1. Push(t) /\ UNCHANGED claim /\ DueNow' = DueNow
    BY <1>3 DEF RetryPush, DueNow
  <2> QED
    BY <2>1, PushIsPush
<1>4. CASE WatchdogRead
  <2>1. TimedOut \in SUBSET Task /\ DueNow' = DueNow
    BY <1>4 DEF WatchdogRead, TimedOut, DueNow
  <2>2. Queue!Ack(TimedOut)
    BY <1>4, <2>1 DEF WatchdogRead, Queue!Ack, DueNow
  <2> QED
    BY <2>1, <2>2 DEF QueueStep, Queue!Next
<1>5. CASE \/ RecoverCommit \/ WatchdogCommit \/ RetryRead \/ RetryCommit
           \/ QuarantineRead \/ QuarantineCommit \/ CompleteCommit \/ TickEnd \/ TickError
           \/ \E r \in Run : CompleteSkip(r) \/ CompleteRead(r)
  <2>1. UNCHANGED <<ready, claim>> /\ phase' # "recover"
    BY <1>5 DEF RecoverCommit, WatchdogCommit, RetryRead, RetryCommit, QuarantineRead,
       QuarantineCommit, CompleteCommit, TickEnd, TickError, CompleteSkip, CompleteRead
  <2> QED
    BY <2>1, RecoveryEnds
<1> QED
  BY <1>1, <1>2, <1>3, <1>4, <1>5 DEF TickStep

(* Everybody else pushes, lets time pass, or crashes.                      *)
LEMMA OtherQueue ==
  ASSUME TypeOK,
         \/ UserStep \/ HandlerStep \/ Elapse
         \/ \E r \in Run : HandlerError(r)
         \/ \E p \in Process : Crash(p)
  PROVE  QueueStep
<1> USE DEF queueVars, tickVars
<1>1. CASE UserStep
  <2>1. UNCHANGED <<ready, claim, phase, due>>
    BY <1>1 DEF UserStep, SubmitCase, SubmitPlan, RerunFailed, CreateRun, CancelRead,
       SetPolicy, DeleteCase
  <2> QED
    BY <2>1, QueueUnchanged
<1>2. ASSUME NEW t \in Task, PushSubmitted(t) PROVE QueueStep
  <2>1. Push(t) /\ UNCHANGED claim /\ DueNow' = DueNow
    BY <1>2 DEF PushSubmitted, DueNow
  <2> QED
    BY <2>1, PushIsPush
<1>3. ASSUME NEW r \in Run, CancelCommit(r) \/ HandlerError(r) PROVE QueueStep
  BY <1>3, QueueUnchanged DEF CancelCommit, HandlerError
<1>4. CASE Elapse
  <2>1. /\ claim' = [t \in Task |-> IF t \in Task /\ claim[t] = "fresh" THEN "late"
                                                                     ELSE claim[t]]
        /\ UNCHANGED ready /\ DueNow' = DueNow
    BY <1>4 DEF Elapse, DueNow
  <2>2. Queue!Overdue(Task)
    BY <2>1 DEF Queue!Overdue, DueNow
  <2> QED
    BY <2>2 DEF QueueStep, Queue!Next
<1>5. ASSUME NEW p \in Process, Crash(p) PROVE QueueStep
  <2>1. CASE InMemory
    <3>1. /\ ready' = [t \in Task |-> 0] /\ claim' = [t \in Task |-> "none"]
          /\ phase' = "sleep"
      BY <1>5, <2>1, PlatformAssumption DEF Crash
    <3>2. Queue!Wipe
      BY <2>1, <3>1 DEF Queue!Wipe, Queue!Nothing
    <3> QED
      BY <3>2 DEF QueueStep, Queue!Next
  <2>2. CASE ~InMemory /\ p = Api
    <3>1. UNCHANGED <<ready, claim>> /\ phase' # "recover"
      BY <1>5, <2>2 DEF Crash
    <3> QED
      BY <3>1, RecoveryEnds
  <2>3. CASE ~InMemory /\ p # Api
    BY <1>5, <2>3, QueueUnchanged DEF Crash
  <2> QED
    BY <2>1, <2>2, <2>3
<1> QED
  BY <1>1, <1>2, <1>3, <1>4, <1>5 DEF HandlerStep

(* The dispatch implements the use of a task queue: every step of it is a  *)
(* step of the abstract queue or none (base.py, by worker.py,              *)
(* orchestrator.py and the API).                                           *)
THEOREM QueueIsUsed == Spec => QueueUsed
<1>1. Init => Queue!Init
  BY DEF Init, Queue!Init, Queue!Nothing
<1>2. TypeOK /\ [Next]_vars => QueueStep
  <2> SUFFICES ASSUME TypeOK, [Next]_vars PROVE QueueStep
    OBVIOUS
  <2>1. CASE UNCHANGED vars
    BY <2>1, QueueUnchanged DEF vars, queueVars, tickVars
  <2> QED
    BY <2>1, WorkerQueue, TickQueue, OtherQueue DEF Next
<1>3. QueueStep => [Queue!Next]_(Queue!queue)
  BY DEF QueueStep, DueNow, Queue!queue
<1> QED
  BY <1>1, <1>2, <1>3, TypesCorrect, PTL DEF Spec, QueueUsed, Queue!Spec

-----------------------------------------------------------------------------
(* What a pass has read still holds when it commits, in a run that is not  *)
(* cancelled: the attempts of the tasks it retries or quarantines, and all *)
(* that it counted of the run it closes.                                   *)
Decided ==
  /\ phase = "retryCommit" => \A t \in batch : attempt[t] < snapshot
  /\ phase = "quarantineCommit" => \A t \in batch : attempt[t] >= snapshot
  /\ closing # NoRun /\ closing \notin cancelled => Settled(closing) /\ tally = TallyOf(closing)

(* Only runs that exist are cancelled.                                     *)
Begun == \A r \in cancelled : runStatus[r] # "none"

LEMMA BegunKept ==
  ASSUME SafetyInv, SafetyInv', Begun, [Next]_vars
  PROVE  Begun'
<1> USE DEF runVars, tickVars
<1>0. TypeOK
  BY DEF SafetyInv
<1>1. ASSUME NEW r \in Run, runStatus[r] # "none" PROVE runStatus'[r] # "none"
  <2>1. CASE UNCHANGED runStatus
    BY <1>1, <2>1
  <2>2. ASSUME NEW q \in Run, NEW n \in Nat, NEW list \in [1..n -> Case], CreateRun(q, n, list)
        PROVE  runStatus'[r] # "none"
    BY <1>0, <1>1, <2>2 DEF CreateRun, TypeOK
  <2>3. CASE CompleteCommit
    <3>1. runStatus' = [runStatus EXCEPT ![closing] = Verdict(tally)] /\ tally \in Stats
      BY <1>0, <2>3 DEF CompleteCommit, TypeOK
    <3>2. Verdict(tally) # "none"
      BY <3>1 DEF Verdict, Stats
    <3> QED
      BY <1>0, <1>1, <3>1, <3>2 DEF TypeOK
  <2>4. CASE (TickStep \/ TickError) /\ ~CompleteCommit
    BY <1>1, <2>4 DEF TickStep, TickError, TickStart, TickEnd, RecoverRequeue, RetryPush,
       RecoverCommit, WatchdogRead, WatchdogCommit, RetryRead, RetryCommit, QuarantineRead,
       QuarantineCommit, CompleteSkip, CompleteRead
  <2>5. ASSUME NEW p \in Process, Crash(p) PROVE UNCHANGED runStatus
    BY <2>5 DEF Crash
  <2> QED
    BY <1>0, <2>1, <2>2, <2>3, <2>4, <2>5, RunFrame DEF vars
<1>2. \A r \in cancelled' : r \in cancelled \/ runStatus[r] = "running"
  <2>1. ASSUME NEW r \in Run, CancelRead(r) PROVE \A q \in cancelled' : q \in cancelled \/ q = r
    BY <2>1 DEF CancelRead
  <2>2. ASSUME NEW r \in Run, CancelRead(r) PROVE runStatus[r] = "running"
    BY <2>2 DEF CancelRead
  <2> QED
    BY <1>0, <2>1, <2>2, UserCancels
<1>3. cancelled' \subseteq Run
  BY DEF SafetyInv, TypeOK
<1> QED
  BY <1>1, <1>2, <1>3 DEF Begun

(* A step that commits nothing of what a pass has read.                    *)
LEMMA DecidedStays ==
  ASSUME TypeOK, Decided, UNCHANGED <<phase, batch, snapshot, closing, tally>>,
         cancelled \subseteq cancelled',
         \A t \in batch : attempt'[t] = attempt[t],
         \A t \in Task : closing # NoRun /\ closing \notin cancelled
                           /\ (runOf[t] = closing \/ runOf'[t] = closing)
                         => runOf'[t] = runOf[t] /\ status'[t] = status[t]
  PROVE  Decided'
<1>1. ASSUME closing' # NoRun, closing' \notin cancelled'
      PROVE  Settled(closing)' /\ tally' = TallyOf(closing)'
  <2>1. closing # NoRun /\ closing \notin cancelled /\ closing' = closing
    BY <1>1
  <2>2. /\ TasksOf(closing)' = TasksOf(closing)
        /\ \A t \in TasksOf(closing) : status'[t] = status[t]
    BY <2>1 DEF TasksOf
  <2>3. Settled(closing)'
    BY <2>1, <2>2 DEF Decided, Settled
  <2>4. ASSUME NEW st
        PROVE  {t \in TasksOf(closing)' : status'[t] = st}
                 = {t \in TasksOf(closing) : status[t] = st}
    BY <2>2
  <2>5. TallyOf(closing)' = TallyOf(closing)
    BY <2>2, <2>4 DEF TallyOf
  <2> QED
    BY <2>1, <2>3, <2>5 DEF Decided
<1> QED
  BY <1>1 DEF Decided

LEMMA WorkerDecided ==
  ASSUME SafetyInv, DeliveryInv, StatsInv, Decided,
         NEW w \in Worker, WorkerStep(w) \/ WorkerError(w) \/ ErrorAckFails(w)
  PROVE  Decided'
<1>0. TypeOK /\ CancelOnlyOnRequest /\ StatusWritten /\ NoRun \notin Run
  BY DEF SafetyInv, Requested, StatsInv, Run, NoRun
<1>1. UNCHANGED <<attempt, runOf, cancelled, phase, batch, snapshot, closing, tally>>
  BY <1>0, WorkerFrame DEF tickVars
<1>2. ASSUME NEW t \in Task, closing # NoRun, closing \notin cancelled, runOf[t] = closing
      PROVE  status'[t] = status[t]
  <2>1. t \in Rows /\ status[t] \notin TaskActive /\ status[t] # "skipped"
    BY <1>0, <1>2 DEF Decided, Settled, TasksOf, Rows, CancelOnlyOnRequest
  <2>2. status[t] \in {"passed", "failed", "quarantined"}
    BY <1>0, <2>1 DEF StatusWritten, TypeOK, TaskStatus, TaskActive, TaskTerminal
  <2> QED
    BY <1>0, <2>2, WorkerLeavesEnded
<1> QED
  BY <1>0, <1>1, <1>2, DecidedStays

LEMMA TickDecided ==
  ASSUME TypeOK, Decided, TickStep \/ TickError
  PROVE  Decided'
<1> USE DEF taskVars
<1>1. closing # NoRun <=> phase = "completeCommit"
  BY DEF TypeOK
<1>2. CASE RetryRead
  <2>1. /\ phase' \in {"retryCommit", "quarantine"} /\ closing' = NoRun
        /\ batch' = Retryable /\ UNCHANGED <<attempt, snapshot>>
    BY <1>1, <1>2 DEF RetryRead
  <2> QED
    BY <2>1 DEF Retryable, Decided
<1>3. CASE QuarantineRead
  <2>1. /\ phase' \in {"quarantineCommit", "complete"} /\ closing' = NoRun
        /\ batch' = Hopeless /\ UNCHANGED <<attempt, snapshot>>
    BY <1>1, <1>3 DEF QuarantineRead
  <2> QED
    BY <2>1 DEF Hopeless, Decided
<1>4. ASSUME NEW r \in Run, CompleteRead(r) PROVE Decided'
  <2>1. /\ phase' = "completeCommit" /\ closing' = r /\ Settled(r) /\ tally' = TallyOf(r)
        /\ UNCHANGED <<status, runOf>>
    BY <1>4 DEF CompleteRead
  <2>2. Settled(r)' /\ TallyOf(r)' = TallyOf(r)
    BY <2>1 DEF Settled, TallyOf, TasksOf
  <2>3. Settled(closing)' /\ TallyOf(closing)' = TallyOf(r)'
    BY <2>1, <2>2 DEF Settled, TallyOf, TasksOf
  <2> QED
    BY <2>1, <2>2, <2>3 DEF Decided
<1>5. CASE ~RetryRead /\ ~QuarantineRead /\ ~\E r \in Run : CompleteRead(r)
  <2>1. closing' = NoRun /\ phase' \notin {"retryCommit", "quarantineCommit"}
    <3>1. CASE TickStart \/ TickEnd \/ TickError \/ RecoverCommit \/ WatchdogRead
               \/ WatchdogCommit \/ RetryCommit
      BY <3>1, <1>1 DEF TickStart, TickEnd, TickError, RecoverCommit, WatchdogRead,
         WatchdogCommit, RetryCommit
    <3>2. CASE \/ \E t \in Task : RecoverRequeue(t) \/ RetryPush(t)
               \/ QuarantineCommit \/ CompleteCommit \/ \E r \in Run : CompleteSkip(r)
      BY <3>2, <1>1 DEF RecoverRequeue, RetryPush, QuarantineCommit, CompleteCommit, CompleteSkip
    <3> QED
      BY <1>5, <3>1, <3>2 DEF TickStep
  <2> QED
    BY <2>1 DEF Decided
<1> QED
  BY <1>2, <1>3, <1>4, <1>5

LEMMA OtherDecided ==
  ASSUME SafetyInv, Decided,
         \/ UserStep \/ HandlerStep \/ Elapse \/ UNCHANGED vars
         \/ \E r \in Run : HandlerError(r)
         \/ \E p \in Process : Crash(p)
  PROVE  Decided'
<1> USE DEF taskVars, apiVars, tickVars
<1>0. TypeOK /\ Known /\ OpenRuns /\ Requested /\ NoRun \notin Run
  BY DEF SafetyInv, Run, NoRun
<1>1. cancelled \subseteq cancelled'
  BY UserCancels DEF CancelRead, Next
<1>2. ASSUME NEW t \in Task, closing # NoRun, closing \notin cancelled,
             runOf[t] = closing \/ runOf'[t] = closing
      PROVE  runOf'[t] = runOf[t] /\ status'[t] = status[t]
  <2>1. closing \in Run /\ runStatus[closing] # "none"
    BY <1>0, <1>2 DEF TypeOK, OpenRuns
  <2>2. ASSUME NEW r \in Run, NEW n \in Nat, NEW list \in [1..n -> Case], CreateRun(r, n, list)
        PROVE  runOf'[t] = runOf[t]
    <3> DEFINE new == {u \in Task \ Rows : Place(u) <= n}
    <3>1. /\ new \subseteq Task \ Rows /\ runStatus[r] = "none"
          /\ runOf'[t] = (IF t \in new THEN r ELSE runOf[t])
      BY <2>2 DEF CreateRun
    <3> HIDE DEF new
    <3> QED
      BY <1>2, <2>1, <3>1 DEF Rows
  <2>3. runOf'[t] = runOf[t]
    BY <1>0, <2>2, RowsCreated DEF Next
  <2>4. t \in Rows
    BY <1>0, <1>2, <2>1, <2>3 DEF Rows
  <2> QED
    BY <1>0, <1>2, <2>3, <2>4, OtherLeavesRows
<1>3. ASSUME NEW r \in Run, NEW n \in Nat, NEW list \in [1..n -> Case], CreateRun(r, n, list)
      PROVE  Decided'
  <2>1. \A t \in batch : attempt'[t] = attempt[t]
    BY <1>0, <1>3 DEF Known, CreateRun, Rows
  <2> QED
    BY <1>0, <1>1, <1>2, <1>3, <2>1, DecidedStays DEF CreateRun
<1>4. CASE \/ \E r \in Run : CancelRead(r) \/ CancelCommit(r) \/ HandlerError(r)
           \/ \E m \in AttemptLimits : SetPolicy(m)
           \/ \E c \in Case : DeleteCase(c)
           \/ \E u \in Task : PushSubmitted(u)
           \/ Elapse \/ UNCHANGED vars
  <2>1. UNCHANGED <<attempt, phase, batch, snapshot, closing, tally>>
    BY <1>4 DEF CancelRead, CancelCommit, HandlerError, SetPolicy, DeleteCase, PushSubmitted,
       Elapse, vars
  <2> QED
    BY <1>0, <1>1, <1>2, <2>1, DecidedStays
<1>5. ASSUME NEW p \in Process, Crash(p) PROVE Decided'
  <2>1. CASE p = Api
    BY <1>5, <2>1 DEF Crash, Decided
  <2>2. CASE p # Api
    <3>1. UNCHANGED <<attempt, phase, batch, snapshot, closing, tally>>
      BY <1>5, <2>2 DEF Crash
    <3> QED
      BY <1>0, <1>1, <1>2, <3>1, DecidedStays
  <2> QED
    BY <2>1, <2>2
<1> QED
  BY <1>0, <1>3, <1>4, <1>5, SubmissionCreates DEF UserStep, HandlerStep

-----------------------------------------------------------------------------
(* The steps of Dispatch as steps of the ledger.                           *)
LedgerStep ==
  [Ledger!Next]_<<ledgerStatus, ledgerAttempt, ledgerSessions, runOf, ledgerRuns, ledgerStats>>

LEMMA LedgerStutters ==
  ASSUME UNCHANGED <<attempt, runOf, runStatus, stats, cancelled>>,
         \A t \in Task : ~Withdrawn(t) => status'[t] = status[t] /\ sessions'[t] = sessions[t]
  PROVE  LedgerStep
<1>1. \A t \in Task : Withdrawn(t)' = Withdrawn(t)
  BY DEF Withdrawn
<1>2. UNCHANGED <<ledgerStatus, ledgerAttempt, ledgerSessions, ledgerRuns, ledgerStats>>
  BY <1>1 DEF ledgerStatus, ledgerAttempt, ledgerSessions, ledgerRuns, ledgerStats
<1> QED
  BY <1>2 DEF LedgerStep

(* Tasks whose status is written, where nothing else of them changes.      *)
LEMMA LedgerWrites ==
  ASSUME TypeOK, UNCHANGED <<runOf, cancelled>>, NEW S \in SUBSET Task, NEW st,
         \A t \in Task : ~Withdrawn(t) => status'[t] = (IF t \in S THEN st ELSE status[t])
  PROVE  ledgerStatus' = Ledger!Written({t \in S : ~Withdrawn(t)}, st)
<1>1. \A t \in Task : Withdrawn(t)' = Withdrawn(t)
  BY DEF Withdrawn
<1> QED
  BY <1>1 DEF ledgerStatus, Ledger!Written

LEMMA LedgerFrame ==
  ASSUME UNCHANGED <<runOf, cancelled>>
  PROVE  /\ UNCHANGED attempt => UNCHANGED ledgerAttempt
         /\ UNCHANGED sessions => UNCHANGED ledgerSessions
         /\ UNCHANGED runStatus => UNCHANGED ledgerRuns
         /\ UNCHANGED stats => UNCHANGED ledgerStats
<1>1. \A t \in Task : Withdrawn(t)' = Withdrawn(t)
  BY DEF Withdrawn
<1> QED
  BY <1>1 DEF ledgerAttempt, ledgerSessions, ledgerRuns, ledgerStats

(* A worker begins, gives up or ends the task it holds.                    *)
LEMMA WorkerRecords ==
  ASSUME SafetyInv, DeliveryInv,
         NEW w \in Worker, WorkerStep(w) \/ WorkerError(w) \/ ErrorAckFails(w)
  PROVE  LedgerStep
<1> USE DEF taskVars, runVars
<1>0. TypeOK /\ CancelOnlyOnRequest
  BY DEF SafetyInv, Requested
<1>1. UNCHANGED <<attempt, runOf, cancelled>>
  BY <1>0, WorkerFrame
<1>2. UNCHANGED <<runStatus, stats>>
  BY DEF WorkerStep, WorkerError, ErrorAckFails, Pop, Discard, Orphan, Admit,
     AcquireLock, LockTimeout, FailWithoutRun, SkipCancelled, StartRead, StartCommit,
     AgentStops, FinishRead, FinishCommit, CureFails, AckAndRelease, ErrorAck
<1>3. \A u \in Task : cur[w] # u => status'[u] = status[u] /\ sessions'[u] = sessions[u]
  BY <1>0, WorkerFrame
<1>4. CASE FailWithoutRun(w) \/ StartCommit(w) \/ FinishCommit(w)
  <2>1. PICK t \in Task : t = cur[w]
    BY <1>0, <1>4 DEF FailWithoutRun, StartCommit, FinishCommit, Goto, TypeOK
  <2>2. CASE Withdrawn(t)
    BY <1>1, <1>2, <1>3, <2>1, <2>2, LedgerStutters
  <2>3. CASE ~Withdrawn(t)
    <3>0. t \in Rows /\ status[t] # "skipped"
      <4>1. t \in Rows
        BY <1>0, <2>1 DEF SafetyInv, Known, Task, NoTask
      <4> QED
        BY <4>1, <1>0, <2>3 DEF CancelOnlyOnRequest, Withdrawn
    <3>1. ASSUME NEW st, st \in {"running", "passed", "failed"},
                 SaveStatus(t, seen[w], st), seen[w] # st
          PROVE  ledgerStatus' = Ledger!Written({t}, st)
      <4>1. \A u \in Task : status'[u] = (IF u \in {t} THEN st ELSE status[u])
        BY <1>0, <3>1 DEF SaveStatus, TypeOK
      <4>2. ledgerStatus' = Ledger!Written({u \in {t} : ~Withdrawn(u)}, st)
        BY <1>0, <1>1, <4>1, LedgerWrites
      <4>3. {u \in {t} : ~Withdrawn(u)} = {t}
        BY <2>3
      <4> QED
        BY <4>2, <4>3
    <3>2. /\ ledgerStatus[t] = status[t]
          /\ ledgerAttempt[t] = attempt[t] /\ ledgerSessions[t] = sessions[t]
      BY <2>3 DEF ledgerStatus, ledgerAttempt, ledgerSessions
    <3>3. UNCHANGED <<ledgerAttempt, ledgerRuns, ledgerStats>>
      BY <1>1, <1>2, LedgerFrame
    <3>4. CASE StartCommit(w)
      <4>1. /\ SaveStatus(t, seen[w], "running") /\ sessions' = [sessions EXCEPT ![t] = @ + 1]
            /\ pc[w] = "start"
        BY <2>1, <3>4 DEF StartCommit, Goto
      <4>2. /\ seen[w] # "running" /\ status[t] \in {"queued", "retrying"}
            /\ sessions[t] < attempt[t]
        BY <2>1, <3>0, <4>1 DEF DeliveryInv, RowFits, RowAtWork, Early, Startable, AttemptsLeft
      <4>3. ledgerSessions' = [ledgerSessions EXCEPT ![t] = @ + 1]
        <5>1. \A u \in Task : Withdrawn(u)' = Withdrawn(u)
          BY <1>1 DEF Withdrawn
        <5>2. \A u \in Task : sessions'[u] = (IF u = t THEN sessions[u] + 1 ELSE sessions[u])
          BY <1>0, <4>1 DEF TypeOK
        <5>3. \A u \in Task : ledgerSessions'[u]
                 = (IF u = t THEN ledgerSessions[u] + 1 ELSE ledgerSessions[u])
          BY <2>3, <5>1, <5>2 DEF ledgerSessions
        <5> QED
          BY <5>3 DEF ledgerSessions
      <4>4. Ledger!Begin(t)
        BY <1>1, <3>1, <3>2, <3>3, <4>1, <4>2, <4>3 DEF Ledger!Begin
      <4> QED
        BY <4>4 DEF LedgerStep, Ledger!Next
    <3>5. CASE FailWithoutRun(w)
      <4>1. SaveStatus(t, seen[w], "failed") /\ pc[w] = "failing" /\ UNCHANGED sessions
        BY <2>1, <3>5 DEF FailWithoutRun, Goto
      <4>2. seen[w] # "failed" /\ status[t] \in {"queued", "retrying"}
        BY <2>1, <3>0, <4>1 DEF DeliveryInv, RowFits, RowAtWork, Early, Startable
      <4>3. UNCHANGED ledgerSessions
        BY <1>1, <4>1, LedgerFrame
      <4>4. Ledger!GiveUp(t)
        BY <1>1, <3>1, <3>2, <3>3, <4>1, <4>2, <4>3 DEF Ledger!GiveUp
      <4> QED
        BY <4>4 DEF LedgerStep, Ledger!Next
    <3>6. CASE FinishCommit(w)
      <4>1. PICK st \in {"passed", "failed", "skipped"} : st = verdict[w]
        BY <1>0, <3>6 DEF FinishCommit, Goto, TypeOK
      <4>2. SaveStatus(t, seen[w], st) /\ pc[w] = "finish" /\ UNCHANGED sessions
        BY <2>1, <3>6, <4>1 DEF FinishCommit, Goto
      <4>3. st # "skipped"
        BY <2>1, <2>3, <4>1, <4>2 DEF SafetyInv, Requested, Withdrawn
      <4>4. seen[w] = "running" /\ status[t] = "running"
        BY <2>1, <3>0, <4>2 DEF DeliveryInv, RowFits, RowAtWork
      <4>5. UNCHANGED ledgerSessions
        BY <1>1, <4>2, LedgerFrame
      <4>6. ledgerStatus' = Ledger!Written({t}, st)
        BY <3>1, <4>2, <4>3, <4>4
      <4>7. Ledger!End(t, st)
        BY <1>1, <3>2, <3>3, <4>4, <4>5, <4>6 DEF Ledger!End
      <4> QED
        BY <4>3, <4>7 DEF LedgerStep, Ledger!Next
    <3> QED
      BY <1>4, <3>4, <3>5, <3>6
  <2> QED
    BY <2>2, <2>3
<1>5. CASE ~FailWithoutRun(w) /\ ~StartCommit(w) /\ ~FinishCommit(w)
  <2>1. UNCHANGED <<status, sessions>>
    BY <1>5 DEF WorkerStep, WorkerError, ErrorAckFails, Pop, Discard, Orphan, Admit,
       AcquireLock, LockTimeout, SkipCancelled, StartRead, AgentStops, FinishRead, CureFails,
       AckAndRelease, ErrorAck
  <2> QED
    BY <1>1, <1>2, <2>1, LedgerStutters
<1> QED
  BY <1>4, <1>5

(* A tick retries, quarantines and closes by what is still so.             *)
LEMMA BatchRecords ==
  ASSUME SafetyInv, DeliveryInv, Decided, RetryCommit \/ QuarantineCommit
  PROVE  LedgerStep
<1> USE DEF taskVars, runVars, apiVars
<1> DEFINE S == {t \in batch : ~Withdrawn(t)}
<1>0. /\ TypeOK /\ CancelOnlyOnRequest
      /\ batch \subseteq Task /\ S \in SUBSET Task /\ snapshot \in AttemptLimits
  BY DEF SafetyInv, Requested, TypeOK
<1>1. UNCHANGED <<sessions, runOf, runStatus, stats, cancelled>>
  BY DEF RetryCommit, QuarantineCommit
<1>2. UNCHANGED <<ledgerSessions, ledgerRuns, ledgerStats>>
  BY <1>1, LedgerFrame
<1>3. ASSUME NEW t \in S
      PROVE  /\ ledgerStatus[t] = "failed" /\ ledgerAttempt[t] = attempt[t]
             /\ phase = "retryCommit" => attempt[t] < snapshot
             /\ phase = "quarantineCommit" => attempt[t] >= snapshot
  <2>1. t \in Task /\ t \in batch /\ t \in Rows /\ ~Withdrawn(t)
    BY <1>0, <1>3 DEF SafetyInv, Known
  <2>2. status[t] = "failed"
    BY <1>0, <2>1 DEF DeliveryInv, RowFits, CancelOnlyOnRequest, Withdrawn, RetryCommit,
       QuarantineCommit
  <2> QED
    BY <2>1, <2>2 DEF ledgerStatus, ledgerAttempt, Decided
<1>4. ASSUME NEW st, SetStatus(batch, st) PROVE ledgerStatus' = Ledger!Written(S, st)
  BY <1>0, <1>1, <1>4, LedgerWrites DEF SetStatus
<1>5. \A t \in Task : Withdrawn(t)' = Withdrawn(t)
  BY <1>1 DEF Withdrawn
<1>6. CASE RetryCommit
  <2>1. phase = "retryCommit" /\ ledgerStatus' = Ledger!Written(S, "retrying")
    BY <1>4, <1>6 DEF RetryCommit
  <2>2. ledgerAttempt' = [t \in Task |-> IF t \in S THEN ledgerAttempt[t] + 1 ELSE ledgerAttempt[t]]
    BY <1>5, <1>6 DEF RetryCommit, ledgerAttempt
  <2> HIDE DEF S
  <2>3. Ledger!Retry(S, snapshot)
    BY <1>1, <1>2, <1>3, <2>1, <2>2 DEF Ledger!Retry
  <2> QED
    BY <1>0, <2>3 DEF LedgerStep, Ledger!Next
<1>7. CASE QuarantineCommit
  <2>1. /\ phase = "quarantineCommit" /\ ledgerStatus' = Ledger!Written(S, "quarantined")
        /\ UNCHANGED attempt
    BY <1>4, <1>7 DEF QuarantineCommit
  <2>2. UNCHANGED ledgerAttempt
    BY <1>1, <2>1, LedgerFrame
  <2> HIDE DEF S
  <2>3. Ledger!Quarantine(S, snapshot)
    BY <1>1, <1>2, <1>3, <2>1, <2>2 DEF Ledger!Quarantine
  <2> QED
    BY <1>0, <2>3 DEF LedgerStep, Ledger!Next
<1> QED
  BY <1>6, <1>7

(* The verdict on a run that was not cancelled, task by task.              *)
LEMMA VerdictSays ==
  ASSUME TypeOK, NEW r \in Run, \A t \in TasksOf(r) : status[t] # "skipped"
  PROVE  LET some(st) == \E t \in TasksOf(r) : status[t] = st
         IN /\ TallyOf(r).skipped = 0
            /\ Verdict(TallyOf(r)) = IF ~(some("failed") \/ some("quarantined")) THEN "passed"
                                     ELSE IF some("passed") THEN "partial" ELSE "failed"
<1> DEFINE With(st) == {t \in TasksOf(r) : status[t] = st}
           some(st) == \E t \in TasksOf(r) : status[t] = st
<1>1. ASSUME NEW st
      PROVE  Cardinality(With(st)) \in Nat /\ (Cardinality(With(st)) > 0 <=> some(st))
  <2>1. With(st) \in SUBSET Task
    BY DEF TasksOf
  <2>2. IsFiniteSet(With(st)) /\ Cardinality(With(st)) \in Nat
    BY <2>1, TasksFinite
  <2>3. Cardinality(With(st)) = 0 <=> With(st) = {}
    BY <2>2, FS_EmptySet
  <2>4. With(st) = {} <=> ~some(st)
    OBVIOUS
  <2> QED
    BY <2>2, <2>3, <2>4
<1>2. /\ TallyOf(r).passed = Cardinality(With("passed"))
      /\ TallyOf(r).failed = Cardinality(With("failed"))
      /\ TallyOf(r).quarantined = Cardinality(With("quarantined"))
      /\ TallyOf(r).skipped = Cardinality(With("skipped"))
  BY DEF TallyOf
<1>3. ~some("skipped")
  OBVIOUS
<1> HIDE DEF With, some
<1>4. TallyOf(r).skipped = 0
  BY <1>1, <1>2, <1>3
<1>5. PICK p \in Nat, f \in Nat, q \in Nat :
        /\ TallyOf(r).passed = p /\ TallyOf(r).failed = f /\ TallyOf(r).quarantined = q
        /\ p > 0 <=> some("passed")
        /\ f + q > 0 <=> some("failed") \/ some("quarantined")
  BY <1>1, <1>2
<1>6. Verdict(TallyOf(r)) = IF ~(some("failed") \/ some("quarantined")) THEN "passed"
                            ELSE IF some("passed") THEN "partial" ELSE "failed"
  BY <1>4, <1>5 DEF Verdict
<1> QED
  BY <1>4, <1>6 DEF some

LEMMA SameCount ==
  ASSUME NEW S
  PROVE  Ledger!Cardinality(S) = Cardinality(S)
BY DEF Ledger!Cardinality, Cardinality

LEMMA CloseRecords ==
  ASSUME SafetyInv, StatsInv, Decided, CompleteCommit
  PROVE  LedgerStep
<1> USE DEF taskVars, runVars, apiVars
<1>0. TypeOK /\ CancelOnlyOnRequest /\ OpenRuns /\ StatusWritten /\ NoRun \notin Run
  BY DEF SafetyInv, Requested, StatsInv, Run, NoRun
<1>1. PICK r \in Run : r = closing
  BY <1>0 DEF TypeOK, CompleteCommit
<1>2. /\ runStatus' = [runStatus EXCEPT ![r] = Verdict(tally)]
      /\ stats' = [stats EXCEPT ![r] = tally]
      /\ UNCHANGED <<status, attempt, sessions, runOf, cancelled>>
  BY <1>1 DEF CompleteCommit
<1>3. UNCHANGED <<ledgerStatus, ledgerAttempt, ledgerSessions>>
  BY <1>2 DEF ledgerStatus, ledgerAttempt, ledgerSessions, Withdrawn
<1>4. CASE r \in cancelled
  <2>1. UNCHANGED <<ledgerRuns, ledgerStats>>
    BY <1>0, <1>2, <1>4 DEF ledgerRuns, ledgerStats, TypeOK
  <2> QED
    BY <1>2, <1>3, <2>1 DEF LedgerStep
<1>5. CASE r \notin cancelled
  <2>1. Settled(r) /\ tally = TallyOf(r) /\ runStatus[r] = "running"
    BY <1>0, <1>1, <1>5 DEF Decided, OpenRuns
  <2>2. TasksOf(r) # {} /\ Ledger!TasksOf(r) = TasksOf(r)
    BY <2>1 DEF Settled, TasksOf, Ledger!TasksOf
  <2>3. ASSUME NEW t \in TasksOf(r)
        PROVE  status[t] \in {"passed", "failed", "quarantined"} /\ ledgerStatus[t] = status[t]
    <3>1. t \in Task /\ t \in Rows /\ ~Withdrawn(t)
      BY <1>0, <1>5 DEF TasksOf, Rows, Withdrawn
    <3>2. status[t] # "skipped" /\ status[t] # "none" /\ status[t] \notin TaskActive
      BY <1>0, <2>1, <3>1 DEF CancelOnlyOnRequest, Withdrawn, StatusWritten, Settled
    <3> QED
      BY <1>0, <3>1, <3>2 DEF TypeOK, TaskStatus, TaskActive, TaskTerminal, ledgerStatus
  <2>4. ASSUME NEW st
        PROVE  Ledger!Count(r, st) = Cardinality({t \in TasksOf(r) : status[t] = st})
    <3>1. {t \in Ledger!TasksOf(r) : ledgerStatus[t] = st} = {t \in TasksOf(r) : status[t] = st}
      BY <2>2, <2>3
    <3> QED
      BY <3>1, SameCount DEF Ledger!Count
  <2>5. TallyOf(r).skipped = 0
    BY <1>0, <2>3, VerdictSays
  <2>6. tally = [total |-> Ledger!Cardinality(Ledger!TasksOf(r)),
                 passed |-> Ledger!Count(r, "passed"),
                 failed |-> Ledger!Count(r, "failed"),
                 quarantined |-> Ledger!Count(r, "quarantined"), skipped |-> 0]
    BY <2>1, <2>2, <2>4, <2>5, SameCount DEF TallyOf
  <2>7. Verdict(tally) = IF ~(\/ \E t \in Ledger!TasksOf(r) : ledgerStatus[t] = "failed"
                              \/ \E t \in Ledger!TasksOf(r) : ledgerStatus[t] = "quarantined")
                           THEN "passed"
                         ELSE IF \E t \in Ledger!TasksOf(r) : ledgerStatus[t] = "passed"
                           THEN "partial" ELSE "failed"
    <3>1. Verdict(tally) = IF ~(\/ \E t \in TasksOf(r) : status[t] = "failed"
                                \/ \E t \in TasksOf(r) : status[t] = "quarantined") THEN "passed"
                           ELSE IF \E t \in TasksOf(r) : status[t] = "passed" THEN "partial"
                           ELSE "failed"
      BY <1>0, <2>1, <2>3, VerdictSays
    <3> QED
      BY <2>2, <2>3, <3>1
  <2>8. ledgerRuns[r] = "running" /\ ledgerRuns' = [ledgerRuns EXCEPT ![r] = Verdict(tally)]
    BY <1>0, <1>2, <1>5, <2>1 DEF ledgerRuns, TypeOK
  <2>9. ledgerStats' = [ledgerStats EXCEPT ![r] = tally]
    BY <1>0, <1>2, <1>5 DEF ledgerStats, TypeOK
  <2>10. \A t \in Ledger!TasksOf(r) : ledgerStatus[t] \in {"passed", "failed", "quarantined"}
    BY <2>2, <2>3
  <2>11. ledgerRuns' = [ledgerRuns EXCEPT ![r] =
           IF ~(\/ \E t \in Ledger!TasksOf(r) : ledgerStatus[t] = "failed"
                \/ \E t \in Ledger!TasksOf(r) : ledgerStatus[t] = "quarantined") THEN "passed"
           ELSE IF \E t \in Ledger!TasksOf(r) : ledgerStatus[t] = "passed" THEN "partial"
           ELSE "failed"]
    BY <2>7, <2>8
  <2>12. ledgerStats' = [ledgerStats EXCEPT ![r] =
           [total |-> Ledger!Cardinality(Ledger!TasksOf(r)), passed |-> Ledger!Count(r, "passed"),
            failed |-> Ledger!Count(r, "failed"),
            quarantined |-> Ledger!Count(r, "quarantined"), skipped |-> 0]]
    BY <2>6, <2>9
  <2>13. Ledger!Close(r)
    BY <1>2, <1>3, <2>2, <2>8, <2>10, <2>11, <2>12 DEF Ledger!Close
  <2> QED
    BY <2>13 DEF LedgerStep, Ledger!Next
<1> QED
  BY <1>4, <1>5

LEMMA TickRecords ==
  ASSUME SafetyInv, DeliveryInv, StatsInv, Decided, TickStep \/ TickError
  PROVE  LedgerStep
<1> USE DEF taskVars, runVars, apiVars
<1>1. phase \notin {"recover", "watchdogCommit"}
  BY DEF DeliveryInv, NothingLate
<1>2. CASE \/ TickError \/ TickStart \/ TickEnd \/ WatchdogRead \/ RetryRead \/ QuarantineRead
           \/ \E t \in Task : RetryPush(t)
           \/ \E r \in Run : CompleteSkip(r) \/ CompleteRead(r)
  <2>1. UNCHANGED <<status, attempt, sessions, runOf, runStatus, stats, cancelled>>
    BY <1>2 DEF TickError, TickStart, TickEnd, WatchdogRead, RetryRead, QuarantineRead, RetryPush,
       CompleteSkip, CompleteRead
  <2> QED
    BY <2>1, LedgerStutters
<1>3. CASE \/ RecoverCommit \/ WatchdogCommit \/ \E t \in Task : RecoverRequeue(t)
  BY <1>1, <1>3 DEF RecoverCommit, WatchdogCommit, RecoverRequeue
<1> QED
  BY <1>2, <1>3, BatchRecords, CloseRecords DEF TickStep

(* A handler submits a run, or withdraws it.                               *)
LEMMA OtherRecords ==
  ASSUME SafetyInv, Begun,
         \/ UserStep \/ HandlerStep \/ Elapse \/ UNCHANGED vars
         \/ \E r \in Run : HandlerError(r)
         \/ \E p \in Process : Crash(p)
  PROVE  LedgerStep
<1> USE DEF taskVars, runVars, apiVars
<1>0. TypeOK /\ Known /\ Requested /\ cancelled \subseteq Run /\ NoRun \notin Run
  BY DEF SafetyInv, TypeOK, Run, NoRun
<1>1. ASSUME NEW r \in Run, NEW n \in Nat, NEW list \in [1..n -> Case], CreateRun(r, n, list)
      PROVE  LedgerStep
  <2> DEFINE new == {t \in Task \ Rows : Place(t) <= n}
  <2>1. /\ new \subseteq Task \ Rows /\ runStatus[r] = "none"
        /\ runStatus' = [runStatus EXCEPT ![r] = "running"]
        /\ runOf' = [t \in Task |-> IF t \in new THEN r ELSE runOf[t]]
        /\ attempt' = [t \in Task |-> IF t \in new THEN 1 ELSE attempt[t]]
        /\ \A t \in Task : status'[t] = (IF t \in new THEN "queued" ELSE status[t])
        /\ UNCHANGED <<sessions, stats, cancelled>>
    BY <1>1 DEF CreateRun, SetStatus
  <2> HIDE DEF new
  <2>2. r \notin cancelled
    BY <2>1 DEF Begun
  <2>3. \A t \in new : t \in Task /\ runOf[t] = NoRun /\ ~Withdrawn(t)
    BY <1>0, <2>1 DEF Rows, Withdrawn
  <2>4. \A t \in Task : Withdrawn(t)' = Withdrawn(t)
    BY <2>1, <2>2, <2>3 DEF Withdrawn
  <2>5. ledgerStatus' = Ledger!Written(new, "queued")
    BY <2>1, <2>3, <2>4 DEF ledgerStatus, Ledger!Written
  <2>6. ledgerAttempt' = [t \in Task |-> IF t \in new THEN 1 ELSE ledgerAttempt[t]]
    BY <2>1, <2>3, <2>4 DEF ledgerAttempt
  <2>7. UNCHANGED <<ledgerSessions, ledgerStats>>
    BY <2>1, <2>4 DEF ledgerSessions, ledgerStats
  <2>8. ledgerRuns[r] = "none" /\ ledgerRuns' = [ledgerRuns EXCEPT ![r] = "running"]
    BY <1>0, <2>1, <2>2 DEF ledgerRuns, TypeOK
  <2>9. Ledger!Submit(r, new) /\ new \in SUBSET Task
    BY <2>1, <2>3, <2>5, <2>6, <2>7, <2>8 DEF Ledger!Submit
  <2> QED
    BY <2>9 DEF LedgerStep, Ledger!Next
<1>2. ASSUME NEW r \in Run, CancelRead(r) PROVE LedgerStep
  <2>1. /\ runStatus[r] = "running" /\ r \notin cancelled /\ cancelled' = cancelled \cup {r}
        /\ UNCHANGED <<status, attempt, sessions, runOf, runStatus, stats>>
    BY <1>2 DEF CancelRead
  <2>2. \A t \in Task : Withdrawn(t)' <=> Withdrawn(t) \/ t \in Ledger!TasksOf(r)
    BY <2>1 DEF Withdrawn, Ledger!TasksOf
  <2>3. ledgerStatus' = Ledger!Written(Ledger!TasksOf(r), "withdrawn")
    BY <2>1, <2>2 DEF ledgerStatus, Ledger!Written
  <2>4. ledgerAttempt' = [t \in Task |-> IF t \in Ledger!TasksOf(r) THEN 0 ELSE ledgerAttempt[t]]
    BY <2>1, <2>2 DEF ledgerAttempt
  <2>5. ledgerSessions' = [t \in Task |-> IF t \in Ledger!TasksOf(r) THEN 0 ELSE ledgerSessions[t]]
    BY <2>1, <2>2 DEF ledgerSessions
  <2>6. ledgerRuns[r] = "running" /\ ledgerRuns' = [ledgerRuns EXCEPT ![r] = "withdrawn"]
    BY <2>1 DEF ledgerRuns
  <2>7. ledgerStats' = [ledgerStats EXCEPT ![r] = Ledger!NoStats]
    BY <2>1 DEF ledgerStats, NoStats, Ledger!NoStats
  <2>8. Ledger!Withdraw(r)
    BY <2>1, <2>3, <2>4, <2>5, <2>6, <2>7 DEF Ledger!Withdraw
  <2> QED
    BY <2>8 DEF LedgerStep, Ledger!Next
<1>3. ASSUME NEW r \in Run, CancelCommit(r) PROVE LedgerStep
  <2>1. /\ toSkip[r] \subseteq TasksOf(r) /\ r \in cancelled
        /\ UNCHANGED <<attempt, sessions, runOf, runStatus, stats, cancelled>>
        /\ \A t \in Task : t \notin toSkip[r] => status'[t] = status[t]
    BY <1>0, <1>3 DEF CancelCommit, SetStatus, Known, Requested
  <2>2. \A t \in Task : ~Withdrawn(t) => t \notin toSkip[r]
    BY <2>1 DEF TasksOf, Withdrawn
  <2> QED
    BY <2>1, <2>2, LedgerStutters
<1>4. CASE \/ \E r \in Run : HandlerError(r)
           \/ \E m \in AttemptLimits : SetPolicy(m)
           \/ \E c \in Case : DeleteCase(c)
           \/ \E u \in Task : PushSubmitted(u)
           \/ \E p \in Process : Crash(p)
           \/ Elapse \/ UNCHANGED vars
  <2>1. UNCHANGED <<status, attempt, sessions, runOf, runStatus, stats, cancelled>>
    BY <1>4 DEF HandlerError, SetPolicy, DeleteCase, PushSubmitted, Crash, Elapse, vars
  <2> QED
    BY <2>1, LedgerStutters
<1> QED
  BY <1>0, <1>1, <1>2, <1>3, <1>4, SubmissionCreates DEF UserStep, HandlerStep

(* As long as no task timeout goes by, whatever fails, crashes, is retried *)
(* or cancelled: every run lives as RunLedger says until its cancellation. *)
THEOREM RunsKeepTheLedger == InTime => (Spec => LedgerKept)
<1> SUFFICES ASSUME InTime PROVE Spec => LedgerKept
  OBVIOUS
<1>1. Init => Ledger!Init /\ Decided /\ Begun
  <2> SUFFICES ASSUME Init PROVE Ledger!Init /\ Decided /\ Begun
    OBVIOUS
  <2>1. Decided /\ Begun
    BY DEF Init, Decided, Begun
  <2>2. /\ ledgerStatus = [t \in Task |-> "none"] /\ ledgerAttempt = [t \in Task |-> 0]
        /\ ledgerSessions = [t \in Task |-> 0]
        /\ ledgerRuns = [r \in Run |-> "none"] /\ ledgerStats = [r \in Run |-> NoStats]
    BY DEF Init, ledgerStatus, ledgerAttempt, ledgerSessions, ledgerRuns, ledgerStats, Withdrawn
  <2>3. Ledger!Init
    BY <2>2 DEF Init, Ledger!Init, NoStats, Ledger!NoStats
  <2> QED
    BY <2>1, <2>3
<1>2. Init => StatsInv
  BY DEF Init, StatsInv, StatusWritten, Rows, Finished, RunTerminal
<1>3. SafetyInv /\ StatsInv /\ [Next]_vars => StatsInv'
  BY StatsKept
<1>4. SafetyInv /\ DeliveryInv /\ StatsInv /\ Decided /\ [Next]_vars => Decided'
  BY WorkerDecided, TickDecided, OtherDecided DEF Next, SafetyInv
<1>5. SafetyInv /\ SafetyInv' /\ Begun /\ [Next]_vars => Begun'
  BY BegunKept
<1>6. SafetyInv /\ DeliveryInv /\ StatsInv /\ Decided /\ Begun /\ [Next]_vars
        => [Ledger!Next]_(Ledger!ledger)
  <2>1. ASSUME SafetyInv, DeliveryInv, StatsInv, Decided, Begun, [Next]_vars
        PROVE  LedgerStep
    BY <2>1, WorkerRecords, TickRecords, OtherRecords DEF Next
  <2> QED
    BY <2>1 DEF LedgerStep, Ledger!ledger
<1> QED
  BY <1>1, <1>2, <1>3, <1>4, <1>5, <1>6, SafetyHolds, DeliveredOnce, PTL
     DEF Spec, LedgerKept, Ledger!Spec
=============================================================================
