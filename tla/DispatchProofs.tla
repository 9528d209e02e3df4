--------------------------- MODULE DispatchProofs ---------------------------
(***************************************************************************)
(* What TLAPS proves of Dispatch for every number of tasks, runs, workers *)
(* and processes, every policy and every number of timeouts, failing calls*)
(* and crashes.                                                            *)
(***************************************************************************)
EXTENDS Dispatch, FiniteSetTheorems, TLAPS

(* The finite sets of task ids and how they are counted.                   *)
LEMMA TasksFinite ==
  ASSUME NEW S \in SUBSET Task
  PROVE  IsFiniteSet(S) /\ Cardinality(S) \in Nat
<1>1. IsFiniteSet(1..MaxTasks)
  BY PlatformAssumption, FS_Interval
<1>2. IsFiniteSet(S)
  BY <1>1, FS_Subset DEF Task
<1> QED
  BY <1>2, FS_CardinalityType

(* A row to be created has a place from 1 on in the list of its cases.     *)
LEMMA PlacePositive ==
  ASSUME NEW t \in Task \ Rows
  PROVE  Place(t) \in Nat /\ Place(t) >= 1
<1> DEFINE S == {u \in Task \ Rows : u <= t}
<1>1. IsFiniteSet(S) /\ Cardinality(S) \in Nat
  BY TasksFinite
<1>2. t \in S
  BY DEF Task
<1>3. Cardinality(S) # 0
  BY <1>1, <1>2, FS_EmptySet
<1> QED
  BY <1>1, <1>3 DEF Place

(* The tally of a run is a record of counts.                               *)
LEMMA TallyType ==
  ASSUME NEW r \in Run
  PROVE  TallyOf(r) \in Stats
<1>1. TasksOf(r) \subseteq Task
  BY DEF TasksOf
<1>2. \A st : Cardinality({t \in TasksOf(r) : status[t] = st}) \in Nat
  <2> TAKE st
  <2> QED
    BY <1>1, TasksFinite
<1> QED
  BY <1>1, <1>2, TasksFinite DEF TallyOf, Stats

-----------------------------------------------------------------------------
(* Every step of a worker keeps the types.                                 *)
LEMMA WorkerTypes ==
  ASSUME TypeOK, NEW w \in Worker,
         WorkerStep(w) \/ WorkerError(w) \/ ErrorAckFails(w)
  PROVE  TypeOK'
<1> USE PlatformAssumption DEF TypeOK, Goto, taskVars, runVars, queueVars, workerVars,
        apiVars, tickVars, faultVars
<1>1. ASSUME NEW t \in Task, Pop(w, t) PROVE TypeOK'
  <2>1. ready' \in [Task -> Nat] /\ claim' \in [Task -> Claim]
    BY <1>1 DEF Pop, Take, Claim
  <2>2. /\ cur' \in [Worker -> Task \cup {NoTask}]
        /\ pc' \in [Worker -> WorkerPc]
    BY <1>1 DEF Pop, WorkerPc
  <2>3. t # NoTask
    BY PlatformAssumption DEF Task, NoTask
  <2>4. \A v \in Worker : cur'[v] = NoTask <=> pc'[v] \in {"idle", "dead"}
    BY <1>1, <2>3 DEF Pop
  <2>5. \A v \in Worker : pc'[v] = "finish" => verdict'[v] # "none"
    BY <1>1 DEF Pop
  <2> QED
    BY <1>1, <2>1, <2>2, <2>4, <2>5 DEF Pop
<1>2. ASSUME Discard(w) PROVE TypeOK'
  BY <1>2 DEF Discard, WorkerPc
<1>3. ASSUME Orphan(w) PROVE TypeOK'
  BY <1>3, SMTT(30) DEF Orphan, WorkerPc
<1>4. ASSUME Admit(w) PROVE TypeOK'
  BY <1>4 DEF Admit, WorkerPc
<1>5. ASSUME AcquireLock(w) PROVE TypeOK'
  BY <1>5 DEF AcquireLock, LockOf, WorkerPc
<1>6. ASSUME LockTimeout(w) PROVE TypeOK'
  BY <1>6 DEF LockTimeout, WorkerPc
<1>7. ASSUME FailWithoutRun(w) PROVE TypeOK'
  <2>1. cur[w] \in Task
    BY <1>7 DEF FailWithoutRun
  <2>2. "failed" \in TaskStatus /\ "none" \in TaskStatus /\ 0 \in 0..IdleBound
    BY <1>7 DEF FailWithoutRun, TaskStatus, TaskActive, TaskTerminal, IdleBound
  <2>3. status' \in [Task -> TaskStatus] /\ idle' \in [Task -> 0..IdleBound]
    BY <1>7, <2>1, <2>2 DEF FailWithoutRun, SaveStatus
  <2>4. /\ pc' \in [Worker -> WorkerPc]
        /\ \A v \in Worker : cur'[v] = NoTask <=> pc'[v] \in {"idle", "dead"}
        /\ \A v \in Worker : pc'[v] = "finish" => verdict'[v] # "none"
    BY <1>7 DEF FailWithoutRun, WorkerPc
  <2> QED
    BY <1>7, <2>1, <2>2, <2>3, <2>4 DEF FailWithoutRun
<1>8. ASSUME SkipCancelled(w) PROVE TypeOK'
  BY <1>8 DEF SkipCancelled, WorkerPc
<1>9. ASSUME StartRead(w) PROVE TypeOK'
  BY <1>9 DEF StartRead, WorkerPc
<1>10. ASSUME StartCommit(w) PROVE TypeOK'
  <2>1. cur[w] \in Task
    BY <1>10 DEF StartCommit
  <2>2. "running" \in TaskStatus /\ "none" \in TaskStatus /\ 0 \in 0..IdleBound
    BY <1>10 DEF StartCommit, TaskStatus, TaskActive, TaskTerminal, IdleBound
  <2>3. status' \in [Task -> TaskStatus] /\ idle' \in [Task -> 0..IdleBound]
    BY <1>10, <2>1, <2>2 DEF StartCommit, SaveStatus
  <2>4. /\ pc' \in [Worker -> WorkerPc]
        /\ \A v \in Worker : cur'[v] = NoTask <=> pc'[v] \in {"idle", "dead"}
        /\ \A v \in Worker : pc'[v] = "finish" => verdict'[v] # "none"
    BY <1>10 DEF StartCommit, WorkerPc
  <2>5. sessions' \in [Task -> Nat] /\ seen' \in [Worker -> TaskStatus]
    BY <1>10, <2>1, <2>2 DEF StartCommit
  <2> QED
    BY <1>10, <2>3, <2>4, <2>5 DEF StartCommit
<1>11. ASSUME AgentStops(w) PROVE TypeOK'
  BY <1>11 DEF AgentStops, WorkerPc
<1>12. ASSUME FinishCommit(w) PROVE TypeOK'
  <2>1. cur[w] \in Task
    BY <1>12 DEF FinishCommit
  <2>2. verdict[w] \in TaskStatus /\ "none" \in TaskStatus /\ 0 \in 0..IdleBound
    BY <1>12 DEF FinishCommit, TaskStatus, TaskActive, TaskTerminal, IdleBound
  <2>3. status' \in [Task -> TaskStatus] /\ idle' \in [Task -> 0..IdleBound]
    BY <1>12, <2>1, <2>2 DEF FinishCommit, SaveStatus
  <2>4. /\ pc' \in [Worker -> WorkerPc]
        /\ \A v \in Worker : cur'[v] = NoTask <=> pc'[v] \in {"idle", "dead"}
        /\ \A v \in Worker : pc'[v] = "finish" => verdict'[v] # "none"
    BY <1>12 DEF FinishCommit, WorkerPc
  <2> QED
    BY <1>12, <2>1, <2>2, <2>3, <2>4 DEF FinishCommit
<1>13. ASSUME AckAndRelease(w) PROVE TypeOK'
  BY <1>13 DEF AckAndRelease, Ack, Release, Claim, WorkerPc
<1>14. ASSUME ErrorAck(w) PROVE TypeOK'
  BY <1>14 DEF ErrorAck, Ack, Claim, WorkerPc
<1>15. ASSUME WorkerError(w) PROVE TypeOK'
  BY <1>15 DEF WorkerError, Release, WorkerPc, TaskStatus
<1>16. ASSUME ErrorAckFails(w) PROVE TypeOK'
  BY <1>16 DEF ErrorAckFails, WorkerPc
<1>17. ASSUME NEW outcome \in {"passed", "failed", "skipped"}, FinishRead(w, outcome)
       PROVE  TypeOK'
  BY <1>17 DEF FinishRead, WorkerPc
<1>18. ASSUME CureFails(w) PROVE TypeOK'
  BY <1>18 DEF CureFails, Release, WorkerPc, TaskStatus
<1> QED
  BY <1>1, <1>2, <1>3, <1>4, <1>5, <1>6, <1>7, <1>8, <1>9, <1>10, <1>11, <1>12, <1>13,
     <1>14, <1>15, <1>16, <1>17, <1>18 DEF WorkerStep

(* Every step of a tick keeps the types.                                   *)
LEMMA TickTypes ==
  ASSUME TypeOK, TickStep \/ TickError
  PROVE  TypeOK'
<1> USE PlatformAssumption DEF TypeOK, taskVars, runVars, queueVars, workerVars, apiVars,
        tickVars, faultVars
<1>a. ASSUME NEW S \in SUBSET Task, NEW st \in TaskStatus, SetStatus(S, st)
      PROVE  status' \in [Task -> TaskStatus] /\ idle' \in [Task -> 0..IdleBound]
  BY <1>a DEF SetStatus, IdleBound
<1>b. {"queued", "failed", "retrying", "quarantined"} \subseteq TaskStatus
  BY DEF TaskStatus, TaskActive, TaskTerminal
<1>1. ASSUME TickStart PROVE TypeOK'
  BY <1>1 DEF TickStart, Late, Phase
<1>2. ASSUME TickEnd PROVE TypeOK'
  BY <1>2 DEF TickEnd, Phase
<1>3. ASSUME NEW t \in Task, RecoverRequeue(t) PROVE TypeOK'
  BY <1>3 DEF RecoverRequeue, Requeue, Ack, Push, Claim, Phase
<1>4. ASSUME NEW t \in Task, RetryPush(t) PROVE TypeOK'
  BY <1>4 DEF RetryPush, Push, Phase
<1>5. ASSUME RecoverCommit PROVE TypeOK'
  <2>1. status' \in [Task -> TaskStatus] /\ idle' \in [Task -> 0..IdleBound]
    BY <1>5, <1>a, <1>b DEF RecoverCommit
  <2> QED
    BY <1>5, <2>1 DEF RecoverCommit, Phase
<1>6. ASSUME WatchdogCommit PROVE TypeOK'
  <2>1. status' \in [Task -> TaskStatus] /\ idle' \in [Task -> 0..IdleBound]
    BY <1>6, <1>a, <1>b DEF WatchdogCommit
  <2> QED
    BY <1>6, <2>1 DEF WatchdogCommit, Phase
<1>7. ASSUME QuarantineCommit PROVE TypeOK'
  <2>1. status' \in [Task -> TaskStatus] /\ idle' \in [Task -> 0..IdleBound]
    BY <1>7, <1>a, <1>b DEF QuarantineCommit
  <2> QED
    BY <1>7, <2>1 DEF QuarantineCommit, Phase
<1>8. ASSUME RetryCommit PROVE TypeOK'
  <2>1. status' \in [Task -> TaskStatus] /\ idle' \in [Task -> 0..IdleBound]
    BY <1>8, <1>a, <1>b DEF RetryCommit
  <2> QED
    BY <1>8, <2>1 DEF RetryCommit, Phase
<1>9. ASSUME WatchdogRead PROVE TypeOK'
  BY <1>9 DEF WatchdogRead, TimedOut, Claim, Phase
<1>10. ASSUME RetryRead PROVE TypeOK'
  BY <1>10 DEF RetryRead, Retryable, Phase
<1>11. ASSUME QuarantineRead PROVE TypeOK'
  BY <1>11 DEF QuarantineRead, Hopeless, Phase
<1>12. ASSUME CompleteCommit PROVE TypeOK'
  <2>1. Verdict(tally) \in RunStatus
    BY DEF Verdict, RunStatus, RunTerminal, Stats
  <2>2. NoStats \in Stats
    BY DEF NoStats, Stats
  <2> QED
    BY <1>12, <2>1, <2>2 DEF CompleteCommit, Phase, NoRun, Run
<1>13. ASSUME NEW r \in Run, CompleteSkip(r) PROVE TypeOK'
  BY <1>13 DEF CompleteSkip, Phase
<1>14. ASSUME NEW r \in Run, CompleteRead(r) PROVE TypeOK'
  <2>1. TallyOf(r) \in Stats
    BY TallyType
  <2>2. r # NoRun
    BY DEF Run, NoRun
  <2> QED
    BY <1>14, <2>1, <2>2 DEF CompleteRead, TasksOf, Phase
<1>15. ASSUME TickError PROVE TypeOK'
  <2>1. NoStats \in Stats
    BY DEF NoStats, Stats
  <2> QED
    BY <1>15, <2>1 DEF TickError, Phase
<1> QED
  BY <1>1, <1>2, <1>3, <1>4, <1>5, <1>6, <1>7, <1>8, <1>9, <1>10, <1>11, <1>12, <1>13, <1>14, <1>15 DEF TickStep

(* A transaction that creates a run keeps the types.                       *)
LEMMA CreateTypes ==
  ASSUME TypeOK, NEW r \in Run, NEW n \in Nat, NEW list \in [1..n -> Case],
         CreateRun(r, n, list)
  PROVE  TypeOK'
<1> DEFINE new == {t \in Task \ Rows : Place(t) <= n}
<1> USE PlatformAssumption DEF TypeOK, taskVars, runVars, queueVars, workerVars, apiVars,
        tickVars, faultVars
<1>1. new \subseteq Task
  OBVIOUS
<1>2. \A t \in new : Place(t) \in 1..n
  BY PlacePositive
<1>3. caseOf' \in [Task -> Case]
  BY <1>1, <1>2 DEF CreateRun
<1>4. status' \in [Task -> TaskStatus] /\ idle' \in [Task -> 0..IdleBound]
  BY <1>1 DEF CreateRun, SetStatus, TaskStatus, TaskActive, IdleBound
<1>5. runStatus' \in [Run -> RunStatus] /\ runOf' \in [Task -> Run \cup {NoRun}]
  BY <1>1 DEF CreateRun, RunStatus
<1>6. attempt' \in [Task -> Nat] /\ unpushed' \subseteq Task
  BY <1>1 DEF CreateRun
<1> QED
  BY <1>3, <1>4, <1>5, <1>6 DEF CreateRun

(* A listing of a set of numbers is a finite sequence of its elements.     *)
LEMMA ListingType ==
  ASSUME NEW S, IsFiniteSet(S), NEW f \in Listings(S)
  PROVE  /\ f \in [1..Cardinality(S) -> S]
         /\ Cardinality(DOMAIN f) = Cardinality(S)
         /\ Cardinality(S) \in Nat
         /\ DOMAIN f = 1..Cardinality(S)
<1>1. Cardinality(S) \in Nat
  BY FS_CardinalityType
<1>2. f \in [1..Cardinality(S) -> S] /\ DOMAIN f = 1..Cardinality(S)
  BY DEF Listings
<1>3. Cardinality(1..Cardinality(S)) = Cardinality(S)
  BY <1>1, FS_Interval
<1> QED
  BY <1>1, <1>2, <1>3

(* Each of the three submissions is one such transaction.                  *)
LEMMA SubmissionCreates ==
  ASSUME TypeOK, NEW r \in Run,
         \/ \E c \in Case : SubmitCase(r, c)
         \/ \E p \in Plan : SubmitPlan(r, p)
         \/ \E src \in Run : RerunFailed(r, src)
  PROVE  \E n \in Nat : \E list \in [1..n -> Case] : CreateRun(r, n, list)
<1>1. ASSUME NEW c \in Case, SubmitCase(r, c)
      PROVE  \E n \in Nat : \E list \in [1..n -> Case] : CreateRun(r, n, list)
  <2>1. CreateRun(r, 1, [i \in 1..1 |-> c])
    BY <1>1 DEF SubmitCase
  <2> QED
    BY <2>1
<1>2. ASSUME NEW p \in Plan, SubmitPlan(r, p)
      PROVE  \E n \in Nat : \E list \in [1..n -> Case] : CreateRun(r, n, list)
  <2> DEFINE S == {i \in DOMAIN PlanCases[p] : PlanCases[p][i] \in cases}
  <2>1. PICK f \in Listings(S) :
          CreateRun(r, Cardinality(DOMAIN f), [i \in DOMAIN f |-> PlanCases[p][f[i]]])
    BY <1>2 DEF SubmitPlan
  <2>2. PlanCases[p] \in Seq(Case)
    BY PlatformAssumption
  <2>3. IsFiniteSet(DOMAIN PlanCases[p])
    BY <2>2, FS_Interval
  <2>4. IsFiniteSet(S)
    BY <2>3, FS_Subset
  <2>5. \A i \in S : PlanCases[p][i] \in Case
    BY DEF TypeOK
  <2>6. /\ f \in [1..Cardinality(S) -> S] /\ DOMAIN f = 1..Cardinality(S)
        /\ Cardinality(S) \in Nat /\ Cardinality(DOMAIN f) = Cardinality(S)
    BY <2>4, ListingType
  <2> HIDE DEF S
  <2>7. \A i \in DOMAIN f : PlanCases[p][f[i]] \in Case
    BY <2>5, <2>6
  <2>8. [i \in DOMAIN f |-> PlanCases[p][f[i]]] \in [1..Cardinality(S) -> Case]
    BY <2>6, <2>7
  <2> QED
    BY <2>1, <2>6, <2>8
<1>3. ASSUME NEW src \in Run, RerunFailed(r, src)
      PROVE  \E n \in Nat : \E list \in [1..n -> Case] : CreateRun(r, n, list)
  <2> DEFINE S == {t \in TasksOf(src) : status[t] \in {"failed", "quarantined"}}
  <2>1. PICK f \in Listings(S) :
          CreateRun(r, Cardinality(DOMAIN f), [i \in DOMAIN f |-> caseOf[f[i]]])
    BY <1>3 DEF RerunFailed
  <2>2. S \subseteq Task
    BY DEF TasksOf
  <2>3. IsFiniteSet(S)
    BY <2>2, TasksFinite
  <2>4. /\ f \in [1..Cardinality(S) -> S] /\ DOMAIN f = 1..Cardinality(S)
        /\ Cardinality(S) \in Nat /\ Cardinality(DOMAIN f) = Cardinality(S)
    BY <2>3, ListingType
  <2> HIDE DEF S
  <2>5. \A i \in DOMAIN f : caseOf[f[i]] \in Case
    BY <2>2, <2>4 DEF TypeOK
  <2>6. [i \in DOMAIN f |-> caseOf[f[i]]] \in [1..Cardinality(S) -> Case]
    BY <2>4, <2>5
  <2> QED
    BY <2>1, <2>4, <2>6
<1> QED
  BY <1>1, <1>2, <1>3

(* Every step of the API, of its users, of time and of the faults keeps    *)
(* the types.                                                              *)
LEMMA OtherTypes ==
  ASSUME TypeOK,
         \/ UserStep \/ HandlerStep \/ Elapse
         \/ \E r \in Run : HandlerError(r)
         \/ \E p \in Process : Crash(p)
  PROVE  TypeOK'
<1> USE PlatformAssumption
<1>1. ASSUME NEW r \in Run,
             \/ \E c \in Case : SubmitCase(r, c)
             \/ \E p \in Plan : SubmitPlan(r, p)
             \/ \E src \in Run : RerunFailed(r, src)
      PROVE  TypeOK'
  BY <1>1, SubmissionCreates, CreateTypes
<1> USE DEF TypeOK, taskVars, runVars, queueVars, workerVars, apiVars, tickVars, faultVars
<1>2. ASSUME NEW r \in Run, CancelRead(r) PROVE TypeOK'
  BY <1>2 DEF CancelRead, TasksOf
<1>3. ASSUME NEW m \in AttemptLimits, SetPolicy(m) PROVE TypeOK'
  BY <1>3 DEF SetPolicy
<1>4. ASSUME NEW c \in Case, DeleteCase(c) PROVE TypeOK'
  BY <1>4 DEF DeleteCase
<1>5. ASSUME NEW t \in Task, PushSubmitted(t) PROVE TypeOK'
  BY <1>5 DEF PushSubmitted, Push
<1>6. ASSUME NEW r \in Run, CancelCommit(r) PROVE TypeOK'
  <2>1. status' \in [Task -> TaskStatus] /\ idle' \in [Task -> 0..IdleBound]
    BY <1>6 DEF CancelCommit, SetStatus, TaskStatus, TaskTerminal, IdleBound
  <2> QED
    BY <1>6, <2>1 DEF CancelCommit
<1>7. ASSUME NEW r \in Run, HandlerError(r) PROVE TypeOK'
  BY <1>7 DEF HandlerError
<1>8. ASSUME NEW p \in Process, Crash(p) PROVE TypeOK'
  <2>1. NoStats \in Stats
    BY DEF NoStats, Stats
  <2>2. /\ pc' \in [Worker -> WorkerPc] /\ cur' \in [Worker -> Task \cup {NoTask}]
        /\ seen' \in [Worker -> TaskStatus]
        /\ verdict' \in [Worker -> {"none", "passed", "failed", "skipped"}]
    BY <1>8 DEF Crash, WorkerPc, TaskStatus
  <2>3. /\ \A w \in Worker : cur'[w] = NoTask <=> pc'[w] \in {"idle", "dead"}
        /\ \A w \in Worker : pc'[w] = "finish" => verdict'[w] # "none"
    BY <1>8 DEF Crash
  <2>4. holder' \in [Process \X Key -> Worker \cup {NoWorker}]
    BY <1>8 DEF Crash
  <2>5. ready' \in [Task -> Nat] /\ claim' \in [Task -> Claim]
    BY <1>8 DEF Crash, Claim
  <2>6. /\ registry' \subseteq Task /\ unpushed' \subseteq Task
        /\ toSkip' \in [Run -> SUBSET Task]
    BY <1>8 DEF Crash
  <2>7. /\ phase' \in Phase /\ batch' \subseteq Task /\ due' \subseteq Task
        /\ open' \subseteq Run /\ closing' \in Run \cup {NoRun}
        /\ closing' # NoRun <=> phase' = "completeCommit"
        /\ tally' \in Stats /\ analyzed' \subseteq Task
    BY <1>8, <2>1 DEF Crash, Phase
  <2> QED
    BY <1>8, <2>2, <2>3, <2>4, <2>5, <2>6, <2>7 DEF Crash
<1>9. ASSUME Elapse PROVE TypeOK'
  <2>1. claim' \in [Task -> Claim] /\ idle' \in [Task -> 0..IdleBound]
    BY <1>9 DEF Elapse, Claim, IdleBound
  <2> QED
    BY <1>9, <2>1 DEF Elapse
<1> QED
  BY <1>1, <1>2, <1>3, <1>4, <1>5, <1>6, <1>7, <1>8, <1>9 DEF UserStep, HandlerStep

(* The initial state has its types, and every step keeps them.             *)
LEMMA InitTypes ==
  ASSUME Init
  PROVE  TypeOK
<1>1. NoStats \in Stats /\ (CHOOSE c \in Case : TRUE) \in Case
  BY PlatformAssumption DEF NoStats, Stats
<1> QED
  BY <1>1, PlatformAssumption DEF Init, TypeOK, TaskStatus, RunStatus, Claim, WorkerPc,
       Phase, IdleBound, NoRun, NoTask

(* Every step of the system keeps the types.                               *)
LEMMA TypesKept ==
  ASSUME TypeOK, [Next]_vars
  PROVE  TypeOK'
<1>1. CASE Next
  BY <1>1, WorkerTypes, TickTypes, OtherTypes DEF Next
<1>2. CASE UNCHANGED vars
  BY <1>2 DEF vars, TypeOK, taskVars, runVars, queueVars, workerVars, apiVars, tickVars,
       faultVars
<1> QED
  BY <1>1, <1>2

(* Every reachable state is well typed, and a worker has a task exactly    *)
(* when its program counter says so.                                       *)
THEOREM TypesCorrect == Spec => []TypeOK
<1>1. Init => TypeOK
  BY InitTypes
<1>2. TypeOK /\ [Next]_vars => TypeOK'
  BY TypesKept
<1> QED
  BY <1>1, <1>2, PTL DEF Spec

-----------------------------------------------------------------------------
(* Only the passing of time makes a row time out: whoever writes a row     *)
(* starts its clock anew.                                                  *)
LEMMA WorkerLeavesTimedOut ==
  ASSUME TypeOK, NEW w \in Worker, WorkerStep(w) \/ WorkerError(w) \/ ErrorAckFails(w)
  PROVE  TimedOut' \subseteq TimedOut /\ UNCHANGED tickVars
<1> USE DEF TimedOut, IdleBound, SaveStatus, taskVars
<1>1. CASE FailWithoutRun(w)
  BY <1>1 DEF FailWithoutRun, TypeOK
<1>2. CASE StartCommit(w)
  BY <1>2 DEF StartCommit, TypeOK
<1>3. CASE FinishCommit(w)
  BY <1>3 DEF FinishCommit, TypeOK
<1>4. CASE ~(FailWithoutRun(w) \/ StartCommit(w) \/ FinishCommit(w))
  <2>1. UNCHANGED <<taskVars, tickVars>>
    BY <1>4 DEF WorkerStep, WorkerError, ErrorAckFails, Pop, Discard, Orphan, Admit,
       AcquireLock, LockTimeout, SkipCancelled, StartRead, AgentStops, FinishRead,
       CureFails, AckAndRelease, ErrorAck
  <2> QED
    BY <2>1
<1> QED
  BY <1>1, <1>2, <1>3, <1>4

LEMMA ApiLeavesTimedOut ==
  ASSUME TypeOK, UserStep \/ HandlerStep \/ \E r \in Run : HandlerError(r)
  PROVE  TimedOut' \subseteq TimedOut /\ UNCHANGED tickVars
<1> USE DEF TimedOut, IdleBound
<1>1. ASSUME NEW S \in SUBSET Task, NEW st \in {"queued", "skipped"}, SetStatus(S, st)
      PROVE  TimedOut' \subseteq TimedOut
  BY <1>1 DEF SetStatus, TypeOK
<1>2. ASSUME NEW r \in Run, CancelCommit(r)
      PROVE  TimedOut' \subseteq TimedOut /\ UNCHANGED tickVars
  BY <1>2, <1>1 DEF CancelCommit, TypeOK
<1>3. ASSUME NEW r \in Run, NEW n, NEW list, CreateRun(r, n, list)
      PROVE  TimedOut' \subseteq TimedOut /\ UNCHANGED tickVars
  BY <1>3, <1>1 DEF CreateRun
<1>4. ASSUME UNCHANGED <<taskVars, tickVars>>
      PROVE  TimedOut' \subseteq TimedOut /\ UNCHANGED tickVars
  BY <1>4 DEF taskVars
<1>5. CASE UserStep
  BY <1>5, <1>3, <1>4 DEF UserStep, SubmitCase, SubmitPlan, RerunFailed, CancelRead,
     SetPolicy, DeleteCase
<1>6. CASE HandlerStep
  BY <1>6, <1>2, <1>4 DEF HandlerStep, PushSubmitted
<1> QED
  BY <1>4, <1>5, <1>6 DEF HandlerError

(* What the watchdog is about to fail includes all that has timed out.     *)
Reaping == WatchdogReaps /\ (phase = "watchdogCommit" => TimedOut \subseteq batch)

LEMMA NothingTimedOut ==
  ASSUME TypeOK
  PROVE  (TimedOut = {}) <=> \A t \in Task : ~(status[t] = "running" /\ idle[t] = IdleBound)
BY DEF TypeOK, TimedOut, IdleBound

LEMMA TickReaps ==
  ASSUME TypeOK, TypeOK', Reaping, TickStep \/ TickError
  PROVE  Reaping'
<1> USE DEF Reaping, WatchdogReaps
<1>1. CASE WatchdogRead
  <2>1. TimedOut' = TimedOut
    BY <1>1 DEF WatchdogRead, TimedOut, taskVars
  <2> QED
    BY <1>1, <2>1, NothingTimedOut DEF WatchdogRead, taskVars
<1>2. CASE WatchdogCommit
  <2>1. \A t \in Task : ~(status'[t] = "running" /\ idle'[t] = IdleBound)
    BY <1>2 DEF WatchdogCommit, SetStatus, TimedOut, IdleBound, TypeOK
  <2> QED
    BY <1>2, <2>1 DEF WatchdogCommit
<1>3. ASSUME NEW S \in SUBSET Task, NEW st \in {"retrying", "quarantined"}, SetStatus(S, st),
             \A t \in Task : ~(status[t] = "running" /\ idle[t] = IdleBound)
      PROVE  \A t \in Task : ~(status'[t] = "running" /\ idle'[t] = IdleBound)
  BY <1>3 DEF SetStatus, IdleBound, TypeOK
<1>4. CASE RetryCommit \/ QuarantineCommit
  <2>1. batch \in SUBSET Task
    BY DEF TypeOK
  <2> QED
    BY <1>3, <1>4, <2>1 DEF RetryCommit, QuarantineCommit
<1>5. CASE TickStart \/ TickEnd \/ RecoverCommit \/ TickError
           \/ \E t \in Task : RecoverRequeue(t)
  BY <1>5 DEF TickStart, TickEnd, RecoverCommit, TickError, RecoverRequeue
<1>6. CASE \/ RetryRead \/ QuarantineRead \/ CompleteCommit
           \/ \E t \in Task : RetryPush(t)
           \/ \E r \in Run : CompleteSkip(r) \/ CompleteRead(r)
  <2>1. /\ UNCHANGED <<status, idle>>
        /\ phase \in {"retry", "quarantine", "completeCommit", "push", "complete"}
        /\ phase' \notin {"watchdog", "watchdogCommit"}
    BY <1>6 DEF RetryRead, QuarantineRead, CompleteCommit, RetryPush, CompleteSkip,
       CompleteRead, taskVars
  <2> QED
    BY <2>1
<1> QED
  BY <1>1, <1>2, <1>4, <1>5, <1>6 DEF TickStep

LEMMA ReapingKept ==
  ASSUME TypeOK, TypeOK', Reaping, [Next]_vars
  PROVE  Reaping'
<1>1. ASSUME TimedOut' \subseteq TimedOut, UNCHANGED tickVars PROVE Reaping'
  <2>1. phase' = phase /\ batch' = batch
    BY <1>1 DEF tickVars
  <2>2. TimedOut = {} => TimedOut' = {}
    BY <1>1
  <2>3. WatchdogReaps'
    BY <2>1, <2>2, NothingTimedOut DEF Reaping, WatchdogReaps, TimedOut, TypeOK, IdleBound
  <2> QED
    BY <1>1, <2>1, <2>3 DEF Reaping
<1>2. CASE UNCHANGED vars
  BY <1>2, <1>1 DEF vars, taskVars, TimedOut
<1>3. CASE \E w \in Worker : WorkerStep(w) \/ WorkerError(w) \/ ErrorAckFails(w)
  BY <1>3, <1>1, WorkerLeavesTimedOut
<1>4. CASE UserStep \/ HandlerStep \/ \E r \in Run : HandlerError(r)
  BY <1>4, <1>1, ApiLeavesTimedOut
<1>5. CASE Elapse
  BY <1>5 DEF Elapse, Reaping, WatchdogReaps, tickVars
<1>6. ASSUME NEW p \in Process, Crash(p) PROVE Reaping'
  <2>1. CASE p = Api
    BY <1>6, <2>1 DEF Crash, Reaping, WatchdogReaps
  <2>2. CASE p # Api
    BY <1>6, <2>2 DEF Crash, Reaping, WatchdogReaps, TimedOut, taskVars
  <2> QED
    BY <2>1, <2>2
<1> QED
  BY <1>2, <1>3, <1>4, <1>5, <1>6, TickReaps DEF Next

(* After the watchdog's pass nothing is running that has been idle for     *)
(* twice the timeout, in any system and under any fault.                   *)
THEOREM WatchdogIsThorough == Spec => []WatchdogReaps
<1>1. Init => Reaping
  BY DEF Init, Reaping, WatchdogReaps
<1>2. TypeOK /\ TypeOK' /\ Reaping /\ [Next]_vars => Reaping'
  BY ReapingKept
<1>3. Reaping => WatchdogReaps
  BY DEF Reaping
<1> QED
  BY <1>1, <1>2, <1>3, TypesCorrect, PTL DEF Spec
=============================================================================
