-------------------------- MODULE DispatchDelivery --------------------------
(***************************************************************************)
(* How often a task is delivered, as long as no whole task timeout goes by:*)
(* whatever is retried, cancelled, raises or crashes, a task is on its way *)
(* to one worker at most, and nobody else writes its row.                  *)
(***************************************************************************)
EXTENDS DispatchSafety

InTime == MaxTimeouts = 0

(* The queue never finds a claim to be late, nor the watchdog a task.      *)
NothingLate ==
  /\ timeouts = 0
  /\ \A t \in Task : claim[t] # "late" /\ idle[t] = 0
  /\ phase \notin {"recover", "watchdogCommit"}
  /\ phase # "push" => due = {}

(* Where a task is that a worker is going to run, or is running.           *)
OnItsWay(t) == t \in unpushed \/ t \in due \/ ready[t] > 0
Early(w) == pc[w] \in {"popped", "locking", "failing", "starting", "start"}
Delivered(t) == OnItsWay(t) \/ \E w \in Worker : AtWork(w) /\ cur[w] = t

(* There is one delivery of a task at any time.                            *)
OneDelivery ==
  /\ \A t \in Task :
       /\ ready[t] <= 1
       /\ t \in unpushed => ready[t] = 0 /\ t \notin due
       /\ t \in due => ready[t] = 0
       /\ OnItsWay(t) => \A w \in Worker : AtWork(w) => cur[w] # t
  /\ \A v, w \in Worker : AtWork(v) /\ AtWork(w) /\ cur[v] = cur[w] => v = w

(* What the row says in the meantime: only a cancellation writes it.       *)
Startable == {"queued", "retrying", "skipped"}
RowAtWork(w) ==
  /\ Early(w) => status[cur[w]] \in Startable
  /\ pc[w] = "start" => seen[w] \in {"queued", "retrying"}
  /\ pc[w] = "failing" => seen[w] \in Startable
  /\ pc[w] \in {"run", "stopped", "finish"} => status[cur[w]] \in {"running", "skipped"}
  /\ pc[w] = "finish" => seen[w] \in {"running", status[cur[w]]}
RowFits ==
  /\ \A t \in Task : OnItsWay(t) => status[t] \in Startable
  /\ \A w \in Worker : RowAtWork(w)
  /\ phase \in {"retryCommit", "quarantineCommit"} =>
       \A t \in batch : status[t] \in {"failed", "skipped"} /\ ~Delivered(t)

(* A delivery is an attempt without a session.                             *)
AttemptsLeft ==
  /\ \A t \in Task : /\ sessions[t] <= attempt[t]
                     /\ t \notin Rows => sessions[t] = 0
                     /\ OnItsWay(t) => sessions[t] < attempt[t]
  /\ \A w \in Worker : Early(w) => sessions[cur[w]] < attempt[cur[w]]

DeliveryInv == NothingLate /\ OneDelivery /\ RowFits /\ AttemptsLeft

-----------------------------------------------------------------------------
(* A worker touches nothing but its own state, its row, its claim, and the *)
(* queue when it pops.                                                     *)
LEMMA WorkerFrame ==
  ASSUME TypeOK, NEW w \in Worker, WorkerStep(w) \/ WorkerError(w) \/ ErrorAckFails(w)
  PROVE  /\ UNCHANGED <<attempt, runOf, unpushed, toSkip, cancelled, registry, tickVars, timeouts>>
         /\ UNCHANGED <<phase, batch, due, snapshot, closing>>
         /\ \A v \in Worker \ {w} : pc'[v] = pc[v] /\ cur'[v] = cur[v] /\ seen'[v] = seen[v]
         /\ \A t \in Task : claim'[t] \in {claim[t], "none", "fresh"} /\ idle'[t] \in {idle[t], 0}
         /\ \A t \in Task : cur[w] # t => status'[t] = status[t] /\ sessions'[t] = sessions[t]
<1> USE DEF TypeOK, Goto, taskVars, runVars, queueVars, workerVars, apiVars, tickVars, faultVars
<1>1. ASSUME NEW t \in Task, Pop(w, t)
      PROVE  \A u \in Task : claim'[u] \in {claim[u], "fresh"}
  BY <1>1 DEF Pop, Take
<1>2. CASE \/ \E t \in Task : Pop(w, t)
           \/ Discard(w) \/ Orphan(w) \/ Admit(w) \/ AcquireLock(w) \/ LockTimeout(w)
           \/ SkipCancelled(w) \/ StartRead(w) \/ AgentStops(w)
           \/ \E o \in {"passed", "failed", "skipped"} : FinishRead(w, o)
  BY <1>1, <1>2 DEF Pop, Discard, Orphan, Admit, AcquireLock, LockTimeout, SkipCancelled,
     StartRead, AgentStops, FinishRead
<1>3. CASE FailWithoutRun(w) \/ StartCommit(w) \/ FinishCommit(w)
  BY <1>3 DEF FailWithoutRun, StartCommit, FinishCommit, SaveStatus
<1>4. CASE CureFails(w) \/ AckAndRelease(w) \/ ErrorAck(w) \/ WorkerError(w) \/ ErrorAckFails(w)
  BY <1>4 DEF CureFails, AckAndRelease, ErrorAck, WorkerError, ErrorAckFails, Ack
<1> QED
  BY <1>2, <1>3, <1>4 DEF WorkerStep

(* A worker that pops takes the delivery over from the queue.              *)
LEMMA PopDelivers ==
  ASSUME TypeOK, Known, DeliveryInv, NEW w \in Worker, NEW t \in Task, Pop(w, t)
  PROVE  DeliveryInv'
<1> USE DEF DeliveryInv
<1>1. /\ pc[w] = "idle" /\ pc'[w] = "popped" /\ cur'[w] = t /\ ready[t] > 0
      /\ ready' = [ready EXCEPT ![t] = @ - 1]
      /\ UNCHANGED <<status, sessions>>
  BY DEF Pop, Take, Goto, TypeOK, taskVars
<1>2. /\ UNCHANGED <<attempt, runOf, unpushed, phase, batch, due, timeouts>>
      /\ \A v \in Worker \ {w} : pc'[v] = pc[v] /\ cur'[v] = cur[v] /\ seen'[v] = seen[v]
      /\ \A u \in Task : claim'[u] \in {claim[u], "none", "fresh"} /\ idle'[u] \in {idle[u], 0}
  BY WorkerFrame DEF WorkerStep
<1>3. NothingLate'
  BY <1>2 DEF NothingLate, tickVars
<1>4. ready[t] = 1 /\ t \notin unpushed /\ t \notin due /\ \A v \in Worker : AtWork(v) => cur[v] # t
  BY <1>1 DEF OneDelivery, OnItsWay, TypeOK
<1>5. \A u \in Task : OnItsWay(u)' <=> OnItsWay(u) /\ u # t
  BY <1>1, <1>2, <1>4 DEF OnItsWay, TypeOK, tickVars
<1>6. \A v \in Worker : AtWork(v)' <=> AtWork(v) \/ v = w
  BY <1>1, <1>2 DEF AtWork
<1>7. OneDelivery'
  <2>1. \A u \in Task :
          /\ ready'[u] <= 1
          /\ u \in unpushed' => ready'[u] = 0 /\ u \notin due'
          /\ u \in due' => ready'[u] = 0
    BY <1>1, <1>2, <1>4 DEF OneDelivery, TypeOK
  <2>2. ASSUME NEW u \in Task, OnItsWay(u)', NEW v \in Worker, AtWork(v)' PROVE cur'[v] # u
    <3>1. CASE v = w
      BY <3>1, <2>2, <1>1, <1>5
    <3>2. CASE v # w
      BY <3>2, <2>2, <1>2, <1>5, <1>6 DEF OneDelivery
    <3> QED
      BY <3>1, <3>2
  <2>3. ASSUME NEW v \in Worker, NEW x \in Worker, AtWork(v)', AtWork(x)', cur'[v] = cur'[x]
        PROVE  v = x
    <3>1. CASE v # w /\ x # w
      BY <3>1, <2>3, <1>2, <1>6 DEF OneDelivery
    <3>2. CASE v # w \/ x # w
      BY <3>2, <3>1, <2>3, <1>1, <1>2, <1>4, <1>6
    <3> QED
      BY <3>2
  <2> QED
    BY <2>1, <2>2, <2>3 DEF OneDelivery
<1>8. \A u \in Task : Delivered(u)' <=> Delivered(u)
  BY <1>1, <1>2, <1>5, <1>6 DEF Delivered, OnItsWay, AtWork
<1>9. RowFits'
  <2>1. \A u \in Task : OnItsWay(u)' => status'[u] \in Startable
    BY <1>1, <1>5 DEF RowFits
  <2>2. ASSUME NEW v \in Worker PROVE RowAtWork(v)'
    <3>1. CASE v = w
      BY <3>1, <1>1 DEF RowAtWork, RowFits, OnItsWay, Early
    <3>2. CASE v # w
      BY <3>2, <1>1, <1>2 DEF RowAtWork, RowFits, Early
    <3> QED
      BY <3>1, <3>2
  <2>3. (phase \in {"retryCommit", "quarantineCommit"} =>
           \A u \in batch : status[u] \in {"failed", "skipped"} /\ ~Delivered(u))'
    BY <1>1, <1>2, <1>8 DEF RowFits, TypeOK
  <2> QED
    BY <2>1, <2>2, <2>3 DEF RowFits
<1>10. AttemptsLeft'
  BY <1>1, <1>2, <1>5 DEF AttemptsLeft, Early, Rows, OnItsWay
<1> QED
  BY <1>3, <1>7, <1>9, <1>10

(* What a worker does from the pop to the end of the agent's work.         *)
LEMMA WorkDelivers ==
  ASSUME TypeOK, Known, DeliveryInv, NEW w \in Worker,
         \/ Discard(w) \/ Orphan(w) \/ Admit(w) \/ AcquireLock(w) \/ LockTimeout(w)
         \/ SkipCancelled(w) \/ StartRead(w) \/ AgentStops(w) \/ CureFails(w)
         \/ \E o \in {"passed", "failed", "skipped"} : FinishRead(w, o)
         \/ AckAndRelease(w) \/ ErrorAck(w) \/ WorkerError(w) \/ ErrorAckFails(w)
  PROVE  DeliveryInv'
<1> USE DEF DeliveryInv
<1>1. UNCHANGED <<status, sessions, ready>>
  BY DEF Discard, Orphan, Admit, AcquireLock, LockTimeout, SkipCancelled, StartRead, AgentStops,
     CureFails, FinishRead, AckAndRelease, ErrorAck, WorkerError, ErrorAckFails, taskVars, queueVars
<1>2. /\ UNCHANGED <<attempt, runOf, unpushed, phase, batch, due, timeouts>>
      /\ \A v \in Worker \ {w} : pc'[v] = pc[v] /\ cur'[v] = cur[v] /\ seen'[v] = seen[v]
      /\ \A u \in Task : claim'[u] \in {claim[u], "none", "fresh"} /\ idle'[u] \in {idle[u], 0}
  BY WorkerFrame DEF WorkerStep
<1>3. NothingLate'
  BY <1>2 DEF NothingLate, tickVars
<1>4. \A u \in Task : OnItsWay(u)' <=> OnItsWay(u)
  BY <1>1, <1>2 DEF OnItsWay, tickVars
<1>5. /\ AtWork(w)' => AtWork(w) /\ cur'[w] = cur[w]
      /\ Early(w)' => Early(w)
  BY DEF AtWork, Early, Goto, TypeOK, Discard, Orphan, Admit, AcquireLock, LockTimeout,
     SkipCancelled, StartRead, AgentStops, CureFails, FinishRead, AckAndRelease, ErrorAck,
     WorkerError, ErrorAckFails
<1>6. \A v \in Worker : AtWork(v)' => AtWork(v) /\ cur'[v] = cur[v]
  BY <1>2, <1>5 DEF AtWork
<1>7. OneDelivery'
  BY <1>1, <1>2, <1>4, <1>6 DEF OneDelivery, tickVars
<1>8. \A u \in Task : Delivered(u)' => Delivered(u)
  BY <1>4, <1>6 DEF Delivered
<1>9. RowFits'
  <2>1. \A u \in Task : OnItsWay(u)' => status'[u] \in Startable
    BY <1>1, <1>4 DEF RowFits
  <2>2. ASSUME NEW v \in Worker, v # w PROVE RowAtWork(v)'
    BY <2>2, <1>1, <1>2 DEF RowAtWork, RowFits, Early
  <2>3. RowAtWork(w)'
    <3>1. CASE \/ Orphan(w) \/ LockTimeout(w) \/ StartRead(w)
               \/ \E o \in {"passed", "failed", "skipped"} : FinishRead(w, o)
      BY <3>1, <1>1 DEF RowFits, RowAtWork, Early, Startable, Orphan, LockTimeout, StartRead,
         FinishRead, Goto, TypeOK
    <3>2. CASE Discard(w) \/ Admit(w) \/ AcquireLock(w) \/ SkipCancelled(w) \/ AgentStops(w)
      BY <3>2, <1>1 DEF RowFits, RowAtWork, Early, Goto, TypeOK, Discard, Admit, AcquireLock,
         SkipCancelled, AgentStops
    <3>3. CASE \/ CureFails(w) \/ AckAndRelease(w) \/ ErrorAck(w) \/ WorkerError(w)
               \/ ErrorAckFails(w)
      BY <3>3 DEF RowAtWork, Early, Goto, TypeOK, CureFails, AckAndRelease, ErrorAck,
         WorkerError, ErrorAckFails
    <3> QED
      BY <3>1, <3>2, <3>3
  <2>4. (phase \in {"retryCommit", "quarantineCommit"} =>
           \A u \in batch : status[u] \in {"failed", "skipped"} /\ ~Delivered(u))'
    BY <1>1, <1>2, <1>8 DEF RowFits, TypeOK
  <2> QED
    BY <2>1, <2>2, <2>3, <2>4 DEF RowFits
<1>10. AttemptsLeft'
  BY <1>1, <1>2, <1>4, <1>5, <1>6 DEF AttemptsLeft, Early, AtWork, Rows
<1> QED
  BY <1>3, <1>7, <1>9, <1>10

(* A worker writes its row: that of nobody else's delivery.                *)
LEMMA SaveDelivers ==
  ASSUME TypeOK, Known, DeliveryInv, NEW w \in Worker,
         FailWithoutRun(w) \/ StartCommit(w) \/ FinishCommit(w)
  PROVE  DeliveryInv'
<1> USE DEF DeliveryInv
<1>1. /\ UNCHANGED <<attempt, runOf, unpushed, phase, batch, due, timeouts>>
      /\ \A v \in Worker \ {w} : pc'[v] = pc[v] /\ cur'[v] = cur[v] /\ seen'[v] = seen[v]
      /\ \A u \in Task : claim'[u] \in {claim[u], "none", "fresh"} /\ idle'[u] \in {idle[u], 0}
      /\ \A u \in Task : cur[w] # u => status'[u] = status[u] /\ sessions'[u] = sessions[u]
  BY WorkerFrame DEF WorkerStep
<1>2. AtWork(w) /\ cur[w] \in Task /\ UNCHANGED <<ready, cur>>
  BY DEF AtWork, FailWithoutRun, StartCommit, FinishCommit, Goto, TypeOK, queueVars
<1>3. NothingLate'
  BY <1>1 DEF NothingLate, tickVars
<1>4. \A u \in Task : OnItsWay(u)' <=> OnItsWay(u)
  BY <1>1, <1>2 DEF OnItsWay, tickVars
<1>5. \A v \in Worker : AtWork(v)' => AtWork(v)
  BY <1>1, <1>2 DEF AtWork
<1>6. OneDelivery'
  BY <1>1, <1>2, <1>4, <1>5 DEF OneDelivery, tickVars
<1>7. \A u \in Task : Delivered(u)' => Delivered(u)
  BY <1>2, <1>4, <1>5 DEF Delivered
<1>8. Delivered(cur[w]) /\ ~OnItsWay(cur[w]) /\ \A v \in Worker \ {w} : AtWork(v) => cur[v] # cur[w]
  BY <1>2 DEF Delivered, OneDelivery
<1>9. /\ pc'[w] = "run" => status'[cur[w]] = "running" /\ Early(w)
      /\ pc'[w] \in {"run", "ack"}
  <2>1. CASE StartCommit(w)
    <3>1. pc[w] = "start" /\ pc' = [pc EXCEPT ![w] = "run"] /\ SaveStatus(cur[w], seen[w], "running")
      BY <2>1 DEF StartCommit, Goto
    <3>2. seen[w] # "running"
      BY <3>1 DEF RowFits, RowAtWork
    <3> QED
      BY <3>1, <3>2, <1>2 DEF SaveStatus, TypeOK, Early
  <2>2. CASE FailWithoutRun(w) \/ FinishCommit(w)
    BY <2>2 DEF FailWithoutRun, FinishCommit, Goto, TypeOK
  <2> QED
    BY <2>1, <2>2
<1>10. RowFits'
  <2>1. \A u \in Task : OnItsWay(u)' => status'[u] \in Startable
    BY <1>1, <1>4, <1>8 DEF RowFits
  <2>2. ASSUME NEW v \in Worker PROVE RowAtWork(v)'
    <3>1. CASE v = w
      BY <3>1, <1>2, <1>9 DEF RowAtWork, Early
    <3>2. CASE v # w /\ AtWork(v)
      <4>1. cur[v] # cur[w] /\ cur[v] \in Task
        BY <3>2, <1>8 DEF TypeOK, AtWork
      <4> QED
        BY <3>2, <4>1, <1>1 DEF RowAtWork, RowFits, Early
    <3>3. CASE v # w /\ ~AtWork(v)
      BY <3>3, <1>1 DEF RowAtWork, Early, AtWork
    <3> QED
      BY <3>1, <3>2, <3>3
  <2>3. (phase \in {"retryCommit", "quarantineCommit"} =>
           \A u \in batch : status[u] \in {"failed", "skipped"} /\ ~Delivered(u))'
    BY <1>1, <1>2, <1>7, <1>8 DEF RowFits, TypeOK
  <2> QED
    BY <2>1, <2>2, <2>3 DEF RowFits
<1>11. AttemptsLeft'
  <2>1. sessions'[cur[w]] \in {sessions[cur[w]], sessions[cur[w]] + 1}
        /\ (sessions'[cur[w]] = sessions[cur[w]] \/ Early(w))
    BY <1>2 DEF FailWithoutRun, StartCommit, FinishCommit, Goto, TypeOK, Early
  <2>2. sessions'[cur[w]] <= attempt[cur[w]]
    BY <2>1, <1>2 DEF AttemptsLeft, TypeOK
  <2>3. ~Early(w)'
    BY <1>9 DEF Early
  <2> QED
    <3>1. \A u \in Task : sessions'[u] <= attempt'[u]
      BY <1>1, <2>2 DEF AttemptsLeft
    <3>2. \A u \in Task : u \notin Rows' => sessions'[u] = 0
      BY <1>1, <1>2 DEF AttemptsLeft, Rows, Known, TypeOK, AtWork
    <3>3. \A u \in Task : OnItsWay(u)' => sessions'[u] < attempt'[u]
      BY <1>1, <1>4, <1>8 DEF AttemptsLeft
    <3>4. ASSUME NEW v \in Worker, Early(v)' PROVE sessions'[cur'[v]] < attempt'[cur'[v]]
      <4>1. v # w /\ Early(v) /\ AtWork(v) /\ cur'[v] = cur[v]
        BY <3>4, <2>3, <1>1 DEF Early, AtWork
      <4>2. cur[v] # cur[w] /\ cur[v] \in Task
        BY <4>1, <1>8 DEF TypeOK, AtWork
      <4> QED
        BY <4>1, <4>2, <1>1 DEF AttemptsLeft
    <3> QED
      BY <3>1, <3>2, <3>3, <3>4 DEF AttemptsLeft
<1> QED
  BY <1>3, <1>6, <1>10, <1>11

LEMMA WorkerDelivers ==
  ASSUME TypeOK, Known, DeliveryInv,
         NEW w \in Worker, WorkerStep(w) \/ WorkerError(w) \/ ErrorAckFails(w)
  PROVE  DeliveryInv'
BY PopDelivers, WorkDelivers, SaveDelivers DEF WorkerStep

-----------------------------------------------------------------------------
(* A task whose row has come to its end is in nobody's hands.              *)
LEMMA EndedInNoHands ==
  ASSUME TypeOK, DeliveryInv, NEW t \in Task, status[t] \in {"passed", "failed", "quarantined"}
  PROVE  ~Delivered(t)
<1>1. ~OnItsWay(t)
  BY DEF DeliveryInv, RowFits, Startable
<1>2. ASSUME NEW w \in Worker, AtWork(w) PROVE cur[w] # t
  BY <1>2 DEF DeliveryInv, RowFits, RowAtWork, Startable, AtWork, Early, TypeOK, WorkerPc
<1> QED
  BY <1>1, <1>2 DEF Delivered

(* What the reads, the verdicts and the end of a tick leave alone.         *)
LEMMA QuietDelivers ==
  ASSUME TypeOK, DeliveryInv,
         UNCHANGED <<status, sessions, attempt, idle, runOf, ready, unpushed, due, pc, cur, seen,
                     timeouts>>,
         \A t \in Task : claim'[t] = claim[t],
         phase' \notin {"recover", "watchdogCommit"}, phase' # "push" => due = {},
         phase' \in {"retryCommit", "quarantineCommit"} =>
           \/ \A t \in batch' : status[t] = "failed" /\ t \in Task
           \/ phase' = phase /\ batch' = batch
  PROVE  DeliveryInv'
<1>1. \A t \in Task : OnItsWay(t)' = OnItsWay(t) /\ Delivered(t)' = Delivered(t)
  BY DEF OnItsWay, Delivered, AtWork
<1>2. NothingLate'
  BY DEF DeliveryInv, NothingLate
<1>3. OneDelivery'
  BY <1>1 DEF DeliveryInv, OneDelivery, AtWork
<1>4. RowFits'
  <2>1. phase' \in {"retryCommit", "quarantineCommit"} =>
          \A t \in batch' : status'[t] \in {"failed", "skipped"} /\ ~Delivered(t)'
    BY <1>1, EndedInNoHands DEF DeliveryInv, RowFits, TypeOK
  <2>2. \A w \in Worker : RowAtWork(w)'
    BY DEF DeliveryInv, RowFits, RowAtWork, Early
  <2>3. \A t \in Task : OnItsWay(t)' => status'[t] \in Startable
    BY <1>1 DEF DeliveryInv, RowFits
  <2> QED
    BY <2>1, <2>2, <2>3 DEF RowFits
<1>5. AttemptsLeft'
  BY <1>1 DEF DeliveryInv, AttemptsLeft, Early, Rows
<1> QED
  BY <1>2, <1>3, <1>4, <1>5 DEF DeliveryInv

(* The retry puts tasks on their way that nobody has in hand.              *)
LEMMA RetryDelivers ==
  ASSUME TypeOK, Known, DeliveryInv, RetryCommit
  PROVE  DeliveryInv'
<1> USE DEF DeliveryInv
<1>1. /\ UNCHANGED <<sessions, runOf, ready, claim, unpushed, pc, cur, seen, timeouts>>
      /\ phase = "retryCommit" /\ phase' = "push" /\ due = {} /\ due' = batch
      /\ \A t \in Task : idle[t] = 0 => idle'[t] = 0
      /\ \A t \in Task : /\ status'[t] = (IF t \in batch THEN "retrying" ELSE status[t])
                         /\ attempt'[t] = (IF t \in batch THEN attempt[t] + 1 ELSE attempt[t])
  BY DEF RetryCommit, SetStatus, NothingLate, queueVars, apiVars, workerVars, faultVars
<1>2. \A t \in batch : t \in Rows /\ ~Delivered(t) /\ ~OnItsWay(t)
  BY <1>1 DEF RowFits, Delivered, Known
<1>3. \A t \in Task : OnItsWay(t)' <=> OnItsWay(t) \/ t \in batch
  BY <1>1 DEF OnItsWay
<1>4. NothingLate'
  BY <1>1 DEF NothingLate
<1>5. OneDelivery'
  <2>1. \A t \in Task :
          /\ ready'[t] <= 1
          /\ t \in unpushed' => ready'[t] = 0 /\ t \notin due'
          /\ t \in due' => ready'[t] = 0
    BY <1>1, <1>2 DEF OneDelivery, OnItsWay, TypeOK
  <2>2. \A t \in Task : OnItsWay(t)' => \A w \in Worker : AtWork(w)' => cur'[w] # t
    BY <1>1, <1>2, <1>3 DEF OneDelivery, Delivered, AtWork
  <2> QED
    BY <1>1, <2>1, <2>2 DEF OneDelivery, AtWork
<1>6. RowFits'
  <2>1. \A t \in Task : OnItsWay(t)' => status'[t] \in Startable
    BY <1>1, <1>3 DEF RowFits, Startable
  <2>2. ASSUME NEW w \in Worker PROVE RowAtWork(w)'
    <3>1. CASE AtWork(w)
      <4>1. cur[w] \in Task /\ cur[w] \notin batch
        BY <3>1, <1>2 DEF TypeOK, AtWork, Delivered
      <4> QED
        BY <4>1, <1>1 DEF RowFits, RowAtWork, Early
    <3>2. CASE ~AtWork(w)
      BY <3>2, <1>1 DEF RowAtWork, Early, AtWork
    <3> QED
      BY <3>1, <3>2
  <2> QED
    BY <1>1, <2>1, <2>2 DEF RowFits
<1>7. AttemptsLeft'
  <2>1. \A t \in Task : sessions'[t] <= attempt'[t] /\ (OnItsWay(t)' => sessions'[t] < attempt'[t])
    BY <1>1, <1>3 DEF AttemptsLeft, TypeOK
  <2>2. ASSUME NEW w \in Worker, Early(w)' PROVE sessions'[cur'[w]] < attempt'[cur'[w]]
    BY <2>2, <1>1 DEF AttemptsLeft, Early, TypeOK
  <2> QED
    BY <1>1, <2>1, <2>2 DEF AttemptsLeft, Rows
<1> QED
  BY <1>4, <1>5, <1>6, <1>7

(* A push hands a task that is on its way over to the queue.               *)
LEMMA PushDelivers ==
  ASSUME TypeOK, DeliveryInv, NEW t \in Task, RetryPush(t) \/ PushSubmitted(t)
  PROVE  DeliveryInv'
<1> USE DEF DeliveryInv
<1>1. /\ UNCHANGED <<status, sessions, attempt, idle, runOf, claim, batch, pc, cur, seen, timeouts>>
      /\ ready' = [ready EXCEPT ![t] = @ + 1]
      /\ \/ t \in due /\ due' = due \ {t} /\ UNCHANGED unpushed
         \/ t \in unpushed /\ unpushed' = unpushed \ {t} /\ UNCHANGED due
      /\ phase' = phase \/ phase' = "quarantine"
      /\ phase' # "push" => due' = {}
  BY DEF RetryPush, PushSubmitted, Push, taskVars, apiVars, workerVars, tickVars, faultVars,
     NothingLate
<1>2. ready[t] = 0 /\ ~(t \in unpushed /\ t \in due)
  BY <1>1 DEF OneDelivery
<1>3. \A u \in Task : OnItsWay(u)' <=> OnItsWay(u)
  BY <1>1, <1>2 DEF OnItsWay, TypeOK
<1>4. \A u \in Task : Delivered(u)' <=> Delivered(u)
  BY <1>1, <1>3 DEF Delivered, AtWork
<1>5. NothingLate'
  BY <1>1 DEF NothingLate
<1>6. OneDelivery'
  <2>1. \A u \in Task :
          /\ ready'[u] <= 1
          /\ u \in unpushed' => ready'[u] = 0 /\ u \notin due'
          /\ u \in due' => ready'[u] = 0
    BY <1>1, <1>2 DEF OneDelivery, TypeOK
  <2> QED
    BY <1>1, <1>3, <2>1 DEF OneDelivery, AtWork
<1>7. RowFits'
  <2>1. \A w \in Worker : RowAtWork(w)'
    BY <1>1 DEF RowFits, RowAtWork, Early
  <2>2. (phase \in {"retryCommit", "quarantineCommit"} =>
           \A u \in batch : status[u] \in {"failed", "skipped"} /\ ~Delivered(u))'
    BY <1>1, <1>4 DEF RowFits, TypeOK
  <2> QED
    BY <1>1, <1>3, <2>1, <2>2 DEF RowFits
<1>8. AttemptsLeft'
  BY <1>1, <1>3 DEF AttemptsLeft, Early, Rows
<1> QED
  BY <1>5, <1>6, <1>7, <1>8

(* The quarantine writes rows that nobody has in hand.                     *)
LEMMA QuarantineDelivers ==
  ASSUME TypeOK, Known, DeliveryInv, QuarantineCommit
  PROVE  DeliveryInv'
<1> USE DEF DeliveryInv
<1>1. /\ UNCHANGED <<sessions, attempt, runOf, ready, claim, unpushed, due, pc, cur, seen, timeouts>>
      /\ phase = "quarantineCommit" /\ phase' = "complete"
      /\ \A t \in Task : idle[t] = 0 => idle'[t] = 0
      /\ \A t \in Task : t \notin batch => status'[t] = status[t]
  BY DEF QuarantineCommit, SetStatus, NothingLate, queueVars, apiVars, workerVars, faultVars
<1>2. \A t \in batch : ~Delivered(t) /\ ~OnItsWay(t)
  BY <1>1 DEF RowFits, Delivered
<1>3. \A t \in Task : OnItsWay(t)' <=> OnItsWay(t)
  BY <1>1 DEF OnItsWay
<1>4. NothingLate'
  BY <1>1 DEF NothingLate
<1>5. OneDelivery'
  BY <1>1, <1>3 DEF OneDelivery, AtWork
<1>6. RowFits'
  <2>1. ASSUME NEW w \in Worker PROVE RowAtWork(w)'
    <3>1. CASE AtWork(w)
      <4>1. cur[w] \in Task /\ cur[w] \notin batch
        BY <3>1, <1>2 DEF TypeOK, AtWork, Delivered
      <4> QED
        BY <4>1, <1>1 DEF RowFits, RowAtWork, Early
    <3>2. CASE ~AtWork(w)
      BY <3>2, <1>1 DEF RowAtWork, Early, AtWork
    <3> QED
      BY <3>1, <3>2
  <2> QED
    BY <1>1, <1>2, <1>3, <2>1 DEF RowFits
<1>7. AttemptsLeft'
  BY <1>1, <1>3 DEF AttemptsLeft, Early, Rows
<1> QED
  BY <1>4, <1>5, <1>6, <1>7

(* Whoever dies or gives up takes tasks off the way, and writes nothing.   *)
LEMMA LossDelivers ==
  ASSUME TypeOK, DeliveryInv,
         UNCHANGED <<status, sessions, attempt, idle, runOf, timeouts>>,
         unpushed' \subseteq unpushed, due' \subseteq due,
         \A t \in Task : ready'[t] \in {ready[t], 0} /\ claim'[t] \in {claim[t], "none"},
         \A w \in Worker : \/ pc'[w] = "idle"
                           \/ pc'[w] = pc[w] /\ cur'[w] = cur[w] /\ seen'[w] = seen[w],
         \/ phase' = phase /\ batch' = batch
         \/ phase' = "sleep" /\ due' = {}
  PROVE  DeliveryInv'
<1> USE DEF DeliveryInv
<1>1. \A u \in Task : OnItsWay(u)' => OnItsWay(u)
  BY DEF OnItsWay, TypeOK
<1>2. \A w \in Worker : AtWork(w)' => AtWork(w) /\ cur'[w] = cur[w]
  BY DEF AtWork
<1>3. NothingLate'
  BY DEF NothingLate
<1>4. OneDelivery'
  <2>1. \A u \in Task :
          /\ ready'[u] <= 1
          /\ u \in unpushed' => ready'[u] = 0 /\ u \notin due'
          /\ u \in due' => ready'[u] = 0
    BY DEF OneDelivery, TypeOK
  <2> QED
    BY <1>1, <1>2, <2>1 DEF OneDelivery
<1>5. RowFits'
  <2>1. ASSUME NEW w \in Worker PROVE RowAtWork(w)'
    BY DEF RowFits, RowAtWork, Early
  <2>2. \A u \in Task : Delivered(u)' => Delivered(u)
    BY <1>1, <1>2 DEF Delivered
  <2>3. (phase \in {"retryCommit", "quarantineCommit"} =>
           \A u \in batch : status[u] \in {"failed", "skipped"} /\ ~Delivered(u))'
    BY <2>2 DEF RowFits, TypeOK
  <2> QED
    BY <1>1, <2>1, <2>3 DEF RowFits
<1>6. AttemptsLeft'
  BY <1>1 DEF AttemptsLeft, Early, Rows
<1> QED
  BY <1>3, <1>4, <1>5, <1>6

(* A tick that finds nothing late and nothing timed out.                   *)
LEMMA TickDelivers ==
  ASSUME TypeOK, Known, DeliveryInv, TickStep \/ TickError
  PROVE  DeliveryInv'
<1> USE DEF taskVars, runVars, queueVars, workerVars, apiVars, tickVars, faultVars
<1>1. phase \notin {"recover", "watchdogCommit"} /\ Late = {} /\ TimedOut = {}
  BY DEF DeliveryInv, NothingLate, Late, TimedOut, IdleBound
<1>2. phase # "push" => due = {}
  BY DEF DeliveryInv, NothingLate
<1>3. CASE TickStart \/ TickEnd
  BY <1>1, <1>2, <1>3, QuietDelivers DEF TickStart, TickEnd
<1>4. CASE WatchdogRead
  BY <1>1, <1>2, <1>4, QuietDelivers DEF WatchdogRead, TypeOK
<1>5. CASE RetryRead
  BY <1>2, <1>5, QuietDelivers DEF RetryRead, Retryable
<1>6. CASE QuarantineRead
  BY <1>2, <1>6, QuietDelivers DEF QuarantineRead, Hopeless
<1>7. CASE CompleteCommit \/ \E r \in Run : CompleteSkip(r) \/ CompleteRead(r)
  BY <1>2, <1>7, QuietDelivers DEF CompleteCommit, CompleteSkip, CompleteRead
<1>8. CASE \E t \in Task : RecoverRequeue(t)
  BY <1>1, <1>8 DEF RecoverRequeue
<1>9. CASE RecoverCommit \/ WatchdogCommit
  BY <1>1, <1>9 DEF RecoverCommit, WatchdogCommit
<1>10. CASE TickError
  BY <1>10, LossDelivers DEF TickError
<1> QED
  BY <1>3, <1>4, <1>5, <1>6, <1>7, <1>8, <1>9, <1>10, RetryDelivers, PushDelivers,
     QuarantineDelivers DEF TickStep

-----------------------------------------------------------------------------
(* The rows of a new run are nobody's yet.                                 *)
LEMMA CreateDelivers ==
  ASSUME TypeOK, Known, DeliveryInv, NEW r \in Run, NEW n \in Nat,
         NEW list \in [1..n -> Case], CreateRun(r, n, list)
  PROVE  DeliveryInv'
<1> DEFINE new == {t \in Task \ Rows : Place(t) <= n}
<1> USE DEF DeliveryInv
<1>1. /\ new \subseteq Task \ Rows
      /\ UNCHANGED <<sessions, ready, claim, pc, cur, seen, phase, batch, due, timeouts>>
      /\ unpushed' = unpushed \cup new
      /\ \A t \in Task : /\ runOf'[t] = (IF t \in new THEN r ELSE runOf[t])
                         /\ status'[t] = (IF t \in new THEN "queued" ELSE status[t])
                         /\ attempt'[t] = (IF t \in new THEN 1 ELSE attempt[t])
                         /\ idle[t] = 0 => idle'[t] = 0
  BY DEF CreateRun, SetStatus, queueVars, workerVars, tickVars, faultVars
<1> HIDE DEF new
<1>2. /\ \A t \in new : /\ t \in Task /\ ready[t] = 0 /\ sessions[t] = 0
                        /\ t \notin unpushed /\ t \notin due /\ t \notin batch
      /\ \A w \in Worker : cur[w] \notin new
  <2>1. \A w \in Worker : cur[w] \notin new
    <3>1. NoTask \notin Task
      BY PlatformAssumption DEF Task, NoTask
    <3> QED
      BY <1>1, <3>1 DEF Known
  <2> QED
    BY <1>1, <2>1 DEF Known, AttemptsLeft, TypeOK
<1>3. \A t \in Task : OnItsWay(t)' <=> OnItsWay(t) \/ t \in new
  BY <1>1 DEF OnItsWay
<1>4. \A t \in Task : Delivered(t)' <=> Delivered(t) \/ t \in new
  BY <1>1, <1>3 DEF Delivered, AtWork
<1>5. NothingLate'
  <2>1. timeouts' = 0
    BY <1>1 DEF NothingLate
  <2>2. \A t \in Task : claim'[t] # "late"
    BY <1>1 DEF NothingLate
  <2>3. \A t \in Task : idle'[t] = 0
    BY <1>1 DEF NothingLate
  <2>4. phase' \notin {"recover", "watchdogCommit"} /\ (phase' # "push" => due' = {})
    BY <1>1 DEF NothingLate
  <2> QED
    BY <2>1, <2>2, <2>3, <2>4 DEF NothingLate
<1>6. OneDelivery'
  <2>1. \A t \in Task :
          /\ ready'[t] <= 1
          /\ t \in unpushed' => ready'[t] = 0 /\ t \notin due'
          /\ t \in due' => ready'[t] = 0
    BY <1>1, <1>2 DEF OneDelivery
  <2>2. \A t \in Task : OnItsWay(t)' => \A w \in Worker : AtWork(w)' => cur'[w] # t
    BY <1>1, <1>2, <1>3 DEF OneDelivery, AtWork
  <2> QED
    BY <1>1, <2>1, <2>2 DEF OneDelivery, AtWork
<1>7. RowFits'
  <2>1. \A t \in Task : OnItsWay(t)' => status'[t] \in Startable
    BY <1>1, <1>3 DEF RowFits, Startable
  <2>2. ASSUME NEW w \in Worker PROVE RowAtWork(w)'
    <3>1. CASE AtWork(w)
      <4>1. cur[w] \in Task /\ cur[w] \notin new
        BY <3>1, <1>2 DEF TypeOK, AtWork
      <4> QED
        BY <4>1, <1>1 DEF RowFits, RowAtWork, Early
    <3>2. CASE ~AtWork(w)
      BY <3>2, <1>1 DEF RowAtWork, Early, AtWork
    <3> QED
      BY <3>1, <3>2
  <2>3. (phase \in {"retryCommit", "quarantineCommit"} =>
           \A t \in batch : status[t] \in {"failed", "skipped"} /\ ~Delivered(t))'
    BY <1>1, <1>2, <1>4 DEF RowFits, TypeOK
  <2> QED
    BY <2>1, <2>2, <2>3 DEF RowFits
<1>8. AttemptsLeft'
  <2>1. \A t \in Task : /\ sessions'[t] <= attempt'[t]
                        /\ t \notin Rows' => sessions'[t] = 0
                        /\ OnItsWay(t)' => sessions'[t] < attempt'[t]
    BY <1>1, <1>2, <1>3 DEF AttemptsLeft, TypeOK, Rows
  <2>2. ASSUME NEW w \in Worker, Early(w)' PROVE sessions'[cur'[w]] < attempt'[cur'[w]]
    BY <2>2, <1>1, <1>2 DEF AttemptsLeft, Early, TypeOK
  <2> QED
    BY <2>1, <2>2 DEF AttemptsLeft
<1> QED
  BY <1>5, <1>6, <1>7, <1>8

(* A cancellation writes rows that may be on their way or at work.         *)
LEMMA CancelDelivers ==
  ASSUME TypeOK, DeliveryInv, NEW r \in Run, CancelCommit(r)
  PROVE  DeliveryInv'
<1> USE DEF DeliveryInv
<1>1. /\ UNCHANGED <<sessions, attempt, runOf, ready, claim, unpushed, pc, cur, seen, phase, batch,
                     due, timeouts>>
      /\ \A t \in Task : idle[t] = 0 => idle'[t] = 0
      /\ \A t \in Task : status'[t] \in {status[t], "skipped"}
  BY DEF CancelCommit, SetStatus, queueVars, workerVars, tickVars, faultVars
<1>2. \A t \in Task : /\ OnItsWay(t)' <=> OnItsWay(t)
                      /\ Delivered(t)' <=> Delivered(t)
  BY <1>1 DEF OnItsWay, Delivered, AtWork
<1>3. NothingLate' /\ OneDelivery'
  BY <1>1, <1>2 DEF NothingLate, OneDelivery, AtWork
<1>4. RowFits'
  <2>1. ASSUME NEW w \in Worker PROVE RowAtWork(w)'
    <3>1. CASE AtWork(w)
      <4>1. cur[w] \in Task
        BY <3>1 DEF TypeOK, AtWork
      <4> QED
        BY <4>1, <1>1 DEF RowFits, RowAtWork, Early, Startable
    <3>2. CASE ~AtWork(w)
      BY <3>2, <1>1 DEF RowAtWork, Early, AtWork
    <3> QED
      BY <3>1, <3>2
  <2>2. (phase \in {"retryCommit", "quarantineCommit"} =>
           \A t \in batch : status[t] \in {"failed", "skipped"} /\ ~Delivered(t))'
    BY <1>1, <1>2 DEF RowFits, TypeOK
  <2> QED
    BY <1>1, <1>2, <2>1, <2>2 DEF RowFits, Startable
<1>5. AttemptsLeft'
  BY <1>1, <1>2 DEF AttemptsLeft, Early, Rows
<1> QED
  BY <1>3, <1>4, <1>5

(* Users, handlers and faults.                                             *)
LEMMA OtherDelivers ==
  ASSUME InTime, TypeOK, Known, DeliveryInv,
         \/ UserStep \/ HandlerStep \/ Elapse
         \/ \E r \in Run : HandlerError(r)
         \/ \E p \in Process : Crash(p)
  PROVE  DeliveryInv'
<1> USE DEF taskVars, runVars, queueVars, workerVars, apiVars, tickVars, faultVars
<1>1. ASSUME NEW r \in Run,
             \/ \E c \in Case : SubmitCase(r, c)
             \/ \E p \in Plan : SubmitPlan(r, p)
             \/ \E src \in Run : RerunFailed(r, src)
      PROVE  DeliveryInv'
  BY <1>1, SubmissionCreates, CreateDelivers
<1>2. CASE \/ \E r \in Run : CancelRead(r) \/ HandlerError(r)
           \/ \E m \in AttemptLimits : SetPolicy(m)
           \/ \E c \in Case : DeleteCase(c)
  BY <1>2, LossDelivers DEF CancelRead, HandlerError, SetPolicy, DeleteCase
<1>3. ASSUME NEW p \in Process, Crash(p) PROVE DeliveryInv'
  <2>1. UNCHANGED <<status, sessions, attempt, idle, runOf, timeouts>>
    BY <1>3 DEF Crash
  <2>2. /\ unpushed' \subseteq unpushed /\ due' \subseteq due
        /\ \/ phase' = phase /\ batch' = batch
           \/ phase' = "sleep" /\ due' = {}
    BY <1>3 DEF Crash
  <2>3. \A t \in Task : ready'[t] \in {ready[t], 0} /\ claim'[t] \in {claim[t], "none"}
    <3>1. CASE InMemory
      BY <3>1, <1>3 DEF Crash
    <3>2. CASE ~InMemory
      BY <3>2, <1>3 DEF Crash
    <3> QED
      BY <3>1, <3>2
  <2>4. \A w \in Worker : \/ pc'[w] = "idle"
                          \/ pc'[w] = pc[w] /\ cur'[w] = cur[w] /\ seen'[w] = seen[w]
    <3>1. /\ pc' = [w \in Worker |-> IF ProcOf[w] = p THEN "idle" ELSE pc[w]]
          /\ cur' = [w \in Worker |-> IF ProcOf[w] = p THEN NoTask ELSE cur[w]]
          /\ seen' = [w \in Worker |-> IF ProcOf[w] = p THEN "none" ELSE seen[w]]
      BY <1>3 DEF Crash
    <3> QED
      BY <3>1
  <2> QED
    BY <2>1, <2>2, <2>3, <2>4, LossDelivers
<1>4. CASE Elapse
  BY <1>4 DEF Elapse, InTime, DeliveryInv, NothingLate
<1> QED
  BY <1>1, <1>2, <1>3, <1>4, CancelDelivers, PushDelivers DEF UserStep, HandlerStep

(* DeliveryInv is inductive as long as no task timeout goes by.            *)
LEMMA DeliveryKept ==
  ASSUME InTime, SafetyInv, DeliveryInv, [Next]_vars
  PROVE  DeliveryInv'
<1>1. CASE UNCHANGED vars
  BY <1>1, LossDelivers DEF vars, SafetyInv, taskVars, queueVars, workerVars, apiVars, tickVars,
     faultVars
<1> QED
  BY <1>1, WorkerDelivers, TickDelivers, OtherDelivers DEF Next, SafetyInv

LEMMA DeliveryInit ==
  ASSUME Init
  PROVE  DeliveryInv
BY DEF Init, DeliveryInv, NothingLate, OneDelivery, RowFits, RowAtWork, AttemptsLeft, OnItsWay,
   AtWork, Early, Delivered, Rows, NoRun, NoTask

(* In time, a task is in one place on its way to one worker.               *)
THEOREM DeliveredOnce == InTime => (Spec => []DeliveryInv)
<1> SUFFICES ASSUME InTime PROVE Spec => []DeliveryInv
  OBVIOUS
<1>1. SafetyInv /\ DeliveryInv /\ [Next]_vars => DeliveryInv'
  BY DeliveryKept
<1> QED
  BY DeliveryInit, <1>1, SafetyHolds, PTL DEF Spec

(* An attempt opens one session at most, whatever is retried, cancelled,   *)
(* raises or crashes, unless a task timeout goes by.                       *)
THEOREM AttemptsRunOnce == InTime => (Spec => []OneSessionPerAttempt)
<1>1. DeliveryInv => OneSessionPerAttempt
  BY DEF DeliveryInv, AttemptsLeft, OneSessionPerAttempt
<1> QED
  BY <1>1, DeliveredOnce, PTL

-----------------------------------------------------------------------------
(* A task that waits to be run is delivered, as long as nothing raises and *)
(* nothing crashes.                                                        *)
NoFaults == MaxErrors = 0 /\ MaxCrashes = 0
Waiting == {"queued", "retrying"}
WaitersDelivered == \A t \in Task : status[t] \in Waiting => Delivered(t)

(* A worker gives a delivery up only after the row has come to its end.    *)
LEMMA WorkerWaits ==
  ASSUME TypeOK, Known, DeliveryInv, WaitersDelivered,
         NEW w \in Worker, WorkerStep(w) \/ ErrorAckFails(w)
  PROVE  WaitersDelivered'
<1>1. /\ UNCHANGED <<unpushed, due>>
      /\ \A v \in Worker \ {w} : AtWork(v)' = AtWork(v) /\ cur'[v] = cur[v]
      /\ \A u \in Task : cur[w] # u => status'[u] = status[u]
  BY WorkerFrame DEF AtWork
<1>2. ASSUME NEW t \in Task, Pop(w, t) PROVE WaitersDelivered'
  <2>1. /\ pc[w] = "idle" /\ pc'[w] = "popped" /\ cur'[w] = t
        /\ ready' = [ready EXCEPT ![t] = @ - 1] /\ UNCHANGED status
    BY <1>2 DEF Pop, Take, Goto, TypeOK, taskVars
  <2>2. \A u \in Task : OnItsWay(u) /\ u # t => OnItsWay(u)'
    BY <1>1, <2>1 DEF OnItsWay, TypeOK
  <2>3. \A v \in Worker : AtWork(v) => AtWork(v)' /\ cur'[v] = cur[v]
    BY <1>1, <2>1 DEF AtWork
  <2>4. Delivered(t)'
    BY <2>1 DEF Delivered, AtWork
  <2> QED
    BY <2>1, <2>2, <2>3, <2>4 DEF WaitersDelivered, Delivered
<1>3. ASSUME UNCHANGED ready, AtWork(w) => AtWork(w)' /\ cur'[w] = cur[w],
             \A u \in Task : status'[u] \in Waiting => status[u] \in Waiting
      PROVE  WaitersDelivered'
  <2>1. \A u \in Task : OnItsWay(u) => OnItsWay(u)'
    BY <1>1, <1>3 DEF OnItsWay
  <2> QED
    BY <1>1, <1>3, <2>1 DEF WaitersDelivered, Delivered
<1>4. ASSUME UNCHANGED ready, AtWork(w), status'[cur[w]] \notin Waiting PROVE WaitersDelivered'
  <2>1. \A u \in Task : OnItsWay(u) => OnItsWay(u)'
    BY <1>1, <1>4 DEF OnItsWay
  <2> QED
    BY <1>1, <1>4, <2>1 DEF WaitersDelivered, Delivered
<1>5. CASE \/ Orphan(w) \/ Admit(w) \/ AcquireLock(w) \/ LockTimeout(w) \/ StartRead(w)
           \/ AgentStops(w) \/ \E o \in {"passed", "failed", "skipped"} : FinishRead(w, o)
           \/ AckAndRelease(w) \/ ErrorAck(w) \/ ErrorAckFails(w)
  <2>1. UNCHANGED <<ready, status>>
    BY <1>5 DEF Orphan, Admit, AcquireLock, LockTimeout, StartRead, AgentStops, FinishRead,
       AckAndRelease, ErrorAck, ErrorAckFails, taskVars, queueVars
  <2>2. AtWork(w) => AtWork(w)' /\ cur'[w] = cur[w]
    BY <1>5 DEF Orphan, Admit, AcquireLock, LockTimeout, StartRead, AgentStops, FinishRead,
       AckAndRelease, ErrorAck, ErrorAckFails, Goto, AtWork, TypeOK
  <2> QED
    BY <1>3, <2>1, <2>2
<1>6. CASE Discard(w) \/ SkipCancelled(w) \/ CureFails(w)
  <2>1. UNCHANGED <<ready, status>> /\ AtWork(w) /\ status[cur[w]] \notin Waiting
    BY <1>6 DEF Discard, SkipCancelled, CureFails, Goto, AtWork, Waiting, DeliveryInv, RowFits,
       RowAtWork, taskVars, queueVars
  <2> QED
    BY <1>4, <2>1
<1>7. CASE FailWithoutRun(w)
  <2>1. pc[w] = "failing" /\ SaveStatus(cur[w], seen[w], "failed") /\ UNCHANGED ready
    BY <1>7 DEF FailWithoutRun, Goto, queueVars
  <2>2. AtWork(w) /\ cur[w] \in Task /\ seen[w] \in Startable
    BY <2>1 DEF AtWork, TypeOK, DeliveryInv, RowFits, RowAtWork
  <2>3. status'[cur[w]] = "failed"
    BY <2>1, <2>2 DEF SaveStatus, TypeOK, Startable
  <2> QED
    BY <1>4, <2>1, <2>2, <2>3 DEF Waiting
<1>8. CASE StartCommit(w)
  <2>1. /\ pc[w] = "start" /\ pc'[w] = "run" /\ cur' = cur
        /\ SaveStatus(cur[w], seen[w], "running") /\ UNCHANGED ready
    BY <1>8 DEF StartCommit, Goto, queueVars, TypeOK
  <2>2. cur[w] \in Task /\ AtWork(w)'
    BY <2>1 DEF AtWork, TypeOK
  <2>3. \A u \in Task : status'[u] \in {status[u], "running"}
    BY <2>1, <2>2 DEF SaveStatus, TypeOK
  <2> QED
    BY <1>3, <2>1, <2>2, <2>3 DEF Waiting
<1>9. CASE FinishCommit(w)
  <2>1. pc[w] = "finish" /\ SaveStatus(cur[w], seen[w], verdict[w]) /\ UNCHANGED ready
    BY <1>9 DEF FinishCommit, Goto, queueVars
  <2>2. /\ AtWork(w) /\ cur[w] \in Task /\ status[cur[w]] \in {"running", "skipped"}
        /\ verdict[w] \in {"passed", "failed", "skipped"}
    BY <2>1 DEF AtWork, TypeOK, DeliveryInv, RowFits, RowAtWork
  <2>3. status'[cur[w]] \in {status[cur[w]], verdict[w]}
    BY <2>1, <2>2 DEF SaveStatus, TypeOK
  <2> QED
    BY <1>4, <2>1, <2>2, <2>3 DEF Waiting
<1> QED
  BY <1>2, <1>5, <1>6, <1>7, <1>8, <1>9 DEF WorkerStep

(* The other steps that succeed drop no delivery, and put what they let    *)
(* wait on its way.                                                        *)
LEMMA OtherWaits ==
  ASSUME TypeOK, Known, DeliveryInv, WaitersDelivered, InTime,
         UserStep \/ HandlerStep \/ TickStep \/ UNCHANGED vars
  PROVE  WaitersDelivered'
<1> USE DEF taskVars, runVars, queueVars, workerVars, apiVars, tickVars, faultVars
<1>1. ASSUME UNCHANGED <<pc, cur>>, \A t \in Task : OnItsWay(t) => OnItsWay(t)',
             \A t \in Task : status'[t] \in Waiting => status[t] \in Waiting \/ OnItsWay(t)'
      PROVE  WaitersDelivered'
  BY <1>1 DEF WaitersDelivered, Delivered, AtWork
<1>2. phase \notin {"recover", "watchdogCommit"} /\ (phase # "push" => due = {})
  BY DEF DeliveryInv, NothingLate
<1>3. ASSUME NEW r \in Run, NEW n \in Nat, NEW list \in [1..n -> Case], CreateRun(r, n, list)
      PROVE  WaitersDelivered'
  <2> DEFINE new == {t \in Task \ Rows : Place(t) <= n}
  <2>1. /\ UNCHANGED <<ready, due, pc, cur>> /\ unpushed' = unpushed \cup new
        /\ \A t \in Task : status'[t] = (IF t \in new THEN "queued" ELSE status[t])
    BY <1>3 DEF CreateRun, SetStatus
  <2> HIDE DEF new
  <2> QED
    BY <1>1, <2>1 DEF OnItsWay
<1>4. CASE \/ \E r \in Run : CancelRead(r)
           \/ \E m \in AttemptLimits : SetPolicy(m)
           \/ \E c \in Case : DeleteCase(c)
           \/ UNCHANGED vars
  BY <1>1, <1>4 DEF CancelRead, SetPolicy, DeleteCase, OnItsWay, vars
<1>5. ASSUME NEW r \in Run, CancelCommit(r) PROVE WaitersDelivered'
  <2>1. /\ UNCHANGED <<ready, unpushed, due, pc, cur>>
        /\ \A t \in Task : status'[t] \in {status[t], "skipped"}
    BY <1>5 DEF CancelCommit, SetStatus
  <2> QED
    BY <1>1, <2>1 DEF OnItsWay, Waiting
<1>6. ASSUME NEW t \in Task, PushSubmitted(t) \/ RetryPush(t) PROVE WaitersDelivered'
  <2>1. /\ UNCHANGED <<status, pc, cur>>
        /\ ready' = [ready EXCEPT ![t] = @ + 1]
        /\ unpushed \ {t} \subseteq unpushed' /\ due \ {t} \subseteq due'
    BY <1>6 DEF PushSubmitted, RetryPush, Push
  <2>2. \A u \in Task : ready'[u] >= ready[u] /\ ready'[t] > 0
    BY <2>1 DEF TypeOK
  <2>3. \A u \in Task : OnItsWay(u) => OnItsWay(u)'
    BY <2>1, <2>2 DEF OnItsWay, TypeOK
  <2> QED
    BY <1>1, <2>1, <2>3
<1>7. CASE \/ TickStart \/ TickEnd \/ WatchdogRead \/ RetryRead \/ QuarantineRead
           \/ CompleteCommit \/ \E r \in Run : CompleteSkip(r) \/ CompleteRead(r)
  <2>1. UNCHANGED <<ready, unpushed, status, pc, cur>> /\ due \subseteq due'
    BY <1>2, <1>7 DEF TickStart, TickEnd, WatchdogRead, RetryRead, QuarantineRead,
       CompleteCommit, CompleteSkip, CompleteRead
  <2> QED
    BY <1>1, <2>1 DEF OnItsWay
<1>8. CASE RetryCommit
  <2>1. /\ UNCHANGED <<ready, unpushed, pc, cur>> /\ due = {} /\ due' = batch
        /\ \A t \in Task : status'[t] = (IF t \in batch THEN "retrying" ELSE status[t])
    BY <1>2, <1>8 DEF RetryCommit, SetStatus
  <2> QED
    BY <1>1, <2>1 DEF OnItsWay
<1>9. CASE QuarantineCommit
  <2>1. /\ UNCHANGED <<ready, unpushed, due, pc, cur>>
        /\ \A t \in Task : status'[t] \in {status[t], "quarantined"}
    BY <1>9 DEF QuarantineCommit, SetStatus
  <2> QED
    BY <1>1, <2>1 DEF OnItsWay, Waiting
<1>10. CASE RecoverCommit \/ WatchdogCommit \/ \E t \in Task : RecoverRequeue(t)
  BY <1>2, <1>10 DEF RecoverCommit, WatchdogCommit, RecoverRequeue
<1> QED
  BY <1>3, <1>4, <1>5, <1>6, <1>7, <1>8, <1>9, <1>10, SubmissionCreates DEF UserStep,
     HandlerStep, TickStep

(* No task is stranded as long as nothing raises, nothing crashes and no   *)
(* task timeout goes by: retry, cancellation and a lock that is not to be  *)
(* had strand nothing.                                                     *)
THEOREM NothingStranded == InTime /\ NoFaults => (Spec => []NoTaskStranded)
<1> SUFFICES ASSUME InTime, NoFaults PROVE Spec => []NoTaskStranded
  OBVIOUS
<1>1. Init => WaitersDelivered
  BY DEF Init, WaitersDelivered, Waiting
<1>2. SafetyInv /\ DeliveryInv /\ WaitersDelivered /\ [Next]_vars => WaitersDelivered'
  <2> SUFFICES ASSUME SafetyInv, DeliveryInv, WaitersDelivered, [Next]_vars
               PROVE  WaitersDelivered'
    OBVIOUS
  <2>1. TypeOK /\ Known
    BY DEF SafetyInv
  <2>2. /\ ~TickError /\ ~Elapse
        /\ \A w \in Worker : ~WorkerError(w)
        /\ \A r \in Run : ~HandlerError(r)
        /\ \A p \in Process : ~Crash(p)
    BY <2>1 DEF TypeOK, InTime, NoFaults, TickError, Elapse, WorkerError, HandlerError, Crash
  <2> QED
    BY <2>1, <2>2, WorkerWaits, OtherWaits DEF Next
<1>3. SafetyInv /\ DeliveryInv /\ WaitersDelivered => NoTaskStranded
  <2> SUFFICES ASSUME SafetyInv, DeliveryInv, WaitersDelivered,
                      NEW t \in Task, status[t] \in Waiting
               PROVE  Carried(t)
    BY DEF NoTaskStranded, Waiting
  <2>1. CASE OnItsWay(t)
    BY <2>1 DEF OnItsWay, Carried, DeliveryInv, NothingLate
  <2>2. CASE \E w \in Worker : AtWork(w) /\ cur[w] = t
    BY <2>2 DEF AtWork, Carried
  <2> QED
    BY <2>1, <2>2 DEF WaitersDelivered, Delivered
<1> QED
  BY <1>1, <1>2, <1>3, SafetyHolds, DeliveredOnce, PTL DEF Spec


-----------------------------------------------------------------------------
(* Who may write the row of a passed task: no worker (nor that of one that *)
(* failed), no pass of a tick, and no handler but that of a cancellation,  *)
(* the only one to write any row.                                          *)
LEMMA WorkerLeavesEnded ==
  ASSUME TypeOK, DeliveryInv,
         NEW w \in Worker, WorkerStep(w) \/ WorkerError(w) \/ ErrorAckFails(w),
         NEW t \in Task, status[t] \in {"passed", "failed", "quarantined"}
  PROVE  status'[t] = status[t]
<1>1. CASE cur[w] # t
  BY <1>1, WorkerFrame
<1>2. CASE cur[w] = t
  <2>1. ~AtWork(w)
    BY <1>2, EndedInNoHands DEF Delivered
  <2>2. ~FailWithoutRun(w) /\ ~StartCommit(w) /\ ~FinishCommit(w)
    BY <2>1 DEF AtWork, FailWithoutRun, StartCommit, FinishCommit, Goto
  <2>3. UNCHANGED status
    BY <2>2 DEF WorkerStep, WorkerError, ErrorAckFails, Pop, Discard, Orphan, Admit,
       AcquireLock, LockTimeout, SkipCancelled, StartRead, AgentStops, FinishRead, CureFails,
       AckAndRelease, ErrorAck, taskVars
  <2> QED
    BY <2>3
<1> QED
  BY <1>1, <1>2

LEMMA TickLeavesPassed ==
  ASSUME TypeOK, DeliveryInv, TickStep \/ TickError, NEW t \in Task, status[t] = "passed"
  PROVE  status'[t] = "passed"
<1>1. phase \notin {"recover", "watchdogCommit"}
  BY DEF DeliveryInv, NothingLate
<1>2. phase \in {"retryCommit", "quarantineCommit"} => t \notin batch
  BY DEF DeliveryInv, RowFits
<1>3. CASE RetryCommit \/ QuarantineCommit
  BY <1>2, <1>3 DEF RetryCommit, QuarantineCommit, SetStatus
<1>4. CASE RecoverCommit \/ WatchdogCommit
  BY <1>1, <1>4 DEF RecoverCommit, WatchdogCommit
<1>5. CASE ~(RetryCommit \/ QuarantineCommit \/ RecoverCommit \/ WatchdogCommit)
  BY <1>5 DEF TickStep, TickError, TickStart, TickEnd, RecoverRequeue, RetryPush, WatchdogRead,
     RetryRead, QuarantineRead, CompleteSkip, CompleteRead, CompleteCommit, taskVars
<1> QED
  BY <1>3, <1>4, <1>5

LEMMA OtherLeavesRows ==
  ASSUME TypeOK, Known, Requested,
         \/ UserStep \/ HandlerStep \/ Elapse \/ UNCHANGED vars
         \/ \E r \in Run : HandlerError(r)
         \/ \E p \in Process : Crash(p),
         NEW t \in Rows, runOf[t] \notin cancelled
  PROVE  status'[t] = status[t]
<1>1. t \in Task
  BY DEF Rows
<1>2. ASSUME NEW r \in Run, NEW n \in Nat, NEW list \in [1..n -> Case], CreateRun(r, n, list)
      PROVE  status'[t] = status[t]
  BY <1>1, <1>2 DEF CreateRun, SetStatus
<1>3. ASSUME NEW r \in Run, CancelCommit(r) PROVE status'[t] = status[t]
  <2>1. t \notin toSkip[r]
    BY DEF Known, Requested, TasksOf
  <2> QED
    BY <1>1, <1>3, <2>1 DEF CancelCommit, SetStatus
<1>4. CASE \/ \E r \in Run : CancelRead(r) \/ HandlerError(r)
           \/ \E m \in AttemptLimits : SetPolicy(m)
           \/ \E c \in Case : DeleteCase(c)
           \/ \E u \in Task : PushSubmitted(u)
           \/ \E p \in Process : Crash(p)
           \/ Elapse \/ UNCHANGED vars
  BY <1>4 DEF CancelRead, HandlerError, SetPolicy, DeleteCase, PushSubmitted, Crash, Elapse, vars,
     taskVars
<1> QED
  BY <1>2, <1>3, <1>4, SubmissionCreates DEF UserStep, HandlerStep

(* A result stands in a run that nobody cancels.                           *)
LEMMA PassedKept ==
  ASSUME SafetyInv, DeliveryInv, [Next]_vars,
         NEW t \in Task, status[t] = "passed", runOf[t] \notin cancelled
  PROVE  status'[t] = "passed"
<1>1. t \in Rows
  BY DEF SafetyInv, Known
<1> QED
  BY <1>1, WorkerLeavesEnded, TickLeavesPassed, OtherLeavesRows DEF Next, SafetyInv

(* Who cancels.                                                            *)
LEMMA UserCancels ==
  ASSUME [Next]_vars
  PROVE  UNCHANGED cancelled \/ \E r \in Run : CancelRead(r)
<1> USE DEF apiVars
<1>1. ASSUME NEW w \in Worker, WorkerStep(w) \/ WorkerError(w) \/ ErrorAckFails(w)
      PROVE  UNCHANGED cancelled
  BY <1>1 DEF WorkerStep, WorkerError, ErrorAckFails, Pop, Discard, Orphan, Admit,
     AcquireLock, LockTimeout, FailWithoutRun, SkipCancelled, StartRead, StartCommit,
     AgentStops, FinishRead, FinishCommit, CureFails, AckAndRelease, ErrorAck
<1>2. ASSUME TickStep \/ TickError PROVE UNCHANGED cancelled
  BY <1>2, TickFrame
<1>3. ASSUME \/ HandlerStep \/ Elapse \/ UNCHANGED vars
             \/ \E r \in Run : HandlerError(r)
             \/ \E p \in Process : Crash(p)
             \/ \E m \in AttemptLimits : SetPolicy(m)
             \/ \E c \in Case : DeleteCase(c)
      PROVE  UNCHANGED cancelled
  BY <1>3 DEF HandlerStep, PushSubmitted, CancelCommit, Elapse, HandlerError, Crash, SetPolicy,
     DeleteCase, vars
<1>4. ASSUME NEW r \in Run,
             \/ \E c \in Case : SubmitCase(r, c)
             \/ \E p \in Plan : SubmitPlan(r, p)
             \/ \E src \in Run : RerunFailed(r, src)
      PROVE  UNCHANGED cancelled
  BY <1>4 DEF SubmitCase, SubmitPlan, RerunFailed, CreateRun
<1> QED
  BY <1>1, <1>2, <1>3, <1>4 DEF Next, UserStep

(* Only the runs the user may cancel are cancelled.                        *)
CancelledAllowed == cancelled \subseteq Cancellable

LEMMA CancelledBounded ==
  ASSUME CancelledAllowed, [Next]_vars
  PROVE  CancelledAllowed'
BY UserCancels DEF CancelledAllowed, CancelRead

(* Whatever fails, crashes or is retried: a passed task of a run that is   *)
(* not cancelled stays passed, unless a task timeout goes by.              *)
THEOREM ResultsStand ==
  InTime => (Spec => [][\A t \in Task : status[t] = "passed" /\ runOf[t] \notin cancelled
                                         => status'[t] = "passed"]_vars)
<1>1. SafetyInv /\ DeliveryInv /\ [Next]_vars
        => [\A t \in Task : status[t] = "passed" /\ runOf[t] \notin cancelled
                              => status'[t] = "passed"]_vars
  BY PassedKept
<1> QED
  BY <1>1, SafetyHolds, DeliveredOnce, PTL DEF Spec

(* So without a cancellation every result stands.                          *)
THEOREM PassedTasksStand == InTime /\ Cancellable = {} => (Spec => PassedStands)
<1> SUFFICES ASSUME InTime, Cancellable = {} PROVE Spec => PassedStands
  OBVIOUS
<1>1. Init => CancelledAllowed
  BY DEF Init, CancelledAllowed
<1>2. CancelledAllowed /\ [Next]_vars => CancelledAllowed'
  BY CancelledBounded
<1>3. SafetyInv /\ DeliveryInv /\ CancelledAllowed /\ [Next]_vars
        => [\A t \in Task : status[t] = "passed" => status'[t] = "passed"]_vars
  BY PassedKept DEF CancelledAllowed
<1> QED
  BY <1>1, <1>2, <1>3, SafetyHolds, DeliveredOnce, PTL DEF Spec, PassedStands


-----------------------------------------------------------------------------
(* With a policy of one attempt there is no retry.                         *)
SingleAttempt == AttemptLimits = {1}
NoRetry == phase \notin {"retryCommit", "push"} /\ \A t \in Rows : attempt[t] >= 1

LEMMA NoRetryKept ==
  ASSUME SingleAttempt, InTime, SafetyInv, DeliveryInv, NoRetry, [Next]_vars
  PROVE  NoRetry'
<1> USE DEF taskVars, runVars, queueVars, workerVars, apiVars, tickVars, faultVars
<1>0. TypeOK /\ Known
  BY DEF SafetyInv
<1>1. Retryable = {}
  BY <1>0 DEF Retryable, TypeOK, Known, NoRetry, SingleAttempt
<1>2. ASSUME UNCHANGED <<runOf, attempt>>, phase' = phase \/ phase' \notin {"retryCommit", "push"}
      PROVE  NoRetry'
  BY <1>2 DEF NoRetry, Rows
<1>3. ASSUME NEW w \in Worker, WorkerStep(w) \/ WorkerError(w) \/ ErrorAckFails(w) PROVE NoRetry'
  BY <1>0, <1>2, <1>3, WorkerFrame
<1>4. ASSUME TickStep \/ TickError PROVE NoRetry'
  <2>1. phase \notin {"retryCommit", "push", "recover", "watchdogCommit"}
    BY DEF NoRetry, DeliveryInv, NothingLate
  <2>2. UNCHANGED <<runOf, attempt>> /\ phase' \notin {"retryCommit", "push"}
    BY <1>1, <1>4, <2>1 DEF TickStep, TickError, TickStart, TickEnd, RecoverRequeue, RetryPush,
       RecoverCommit, WatchdogRead, WatchdogCommit, RetryRead, RetryCommit, QuarantineRead,
       QuarantineCommit, CompleteSkip, CompleteRead, CompleteCommit
  <2> QED
    BY <1>2, <2>2
<1>5. ASSUME NEW r \in Run, NEW n \in Nat, NEW list \in [1..n -> Case], CreateRun(r, n, list)
      PROVE  NoRetry'
  <2> DEFINE new == {t \in Task \ Rows : Place(t) <= n}
  <2>1. /\ new \subseteq Task \ Rows /\ UNCHANGED phase
        /\ runOf' = [t \in Task |-> IF t \in new THEN r ELSE runOf[t]]
        /\ attempt' = [t \in Task |-> IF t \in new THEN 1 ELSE attempt[t]]
    BY <1>5 DEF CreateRun
  <2> HIDE DEF new
  <2> QED
    BY <2>1, <1>0 DEF NoRetry, Rows, TypeOK
<1>6. CASE \/ HandlerStep \/ Elapse \/ UNCHANGED vars
           \/ \E r \in Run : HandlerError(r) \/ CancelRead(r)
           \/ \E p \in Process : Crash(p)
           \/ \E m \in AttemptLimits : SetPolicy(m)
           \/ \E c \in Case : DeleteCase(c)
  BY <1>2, <1>6 DEF HandlerStep, PushSubmitted, CancelCommit, Elapse, HandlerError, CancelRead,
     Crash, SetPolicy, DeleteCase, vars
<1> QED
  BY <1>0, <1>3, <1>4, <1>5, <1>6, SubmissionCreates DEF Next, UserStep

LEMMA NoRetryInit ==
  ASSUME Init
  PROVE  NoRetry
BY DEF Init, NoRetry, Rows, NoRun

(* In its first attempt a task is in one worker's hands until its item is  *)
(* acknowledged, and its claim with it.                                    *)
OwnClaim ==
  /\ \A t \in Rows : attempt[t] >= 1
  /\ \A t \in Task : attempt[t] = 1 /\ OnItsWay(t) => \A w \in Worker : cur[w] # t
  /\ \A v, w \in Worker : cur[v] = cur[w] /\ cur[v] # NoTask /\ attempt[cur[v]] = 1 => v = w
  /\ \A w \in Worker : cur[w] # NoTask /\ attempt[cur[w]] = 1 => claim[cur[w]] # "none"

LEMMA WorkerOwnsClaim ==
  ASSUME TypeOK, Known, DeliveryInv, OwnClaim,
         NEW w \in Worker, WorkerStep(w) \/ WorkerError(w) \/ ErrorAckFails(w)
  PROVE  OwnClaim'
<1> USE DEF taskVars, runVars, queueVars, workerVars, apiVars, tickVars, faultVars
<1>0. NoTask \notin Task
  BY PlatformAssumption DEF Task, NoTask
<1>1. /\ UNCHANGED <<attempt, runOf, unpushed, due>>
      /\ \A v \in Worker \ {w} : cur'[v] = cur[v]
      /\ \A t \in Rows' : attempt'[t] >= 1
  BY WorkerFrame DEF OwnClaim, Rows
<1>2. ASSUME NEW t \in Task, Pop(w, t) PROVE OwnClaim'
  <2>1. /\ cur' = [cur EXCEPT ![w] = t] /\ cur'[w] = t /\ ready[t] = 1
        /\ ready' = [ready EXCEPT ![t] = @ - 1]
        /\ claim' = [claim EXCEPT ![t] = "fresh"]
    BY <1>2 DEF Pop, Take, TypeOK, DeliveryInv, OneDelivery
  <2>2. \A u \in Task : OnItsWay(u)' <=> OnItsWay(u) /\ u # t
    BY <1>1, <2>1 DEF OnItsWay, TypeOK, DeliveryInv, OneDelivery
  <2>3. OnItsWay(t) /\ (attempt[t] = 1 => \A v \in Worker : cur[v] # t)
    BY <2>1 DEF OnItsWay, OwnClaim
  <2>4. \A u \in Task : attempt'[u] = 1 /\ OnItsWay(u)' => \A v \in Worker : cur'[v] # u
    BY <1>1, <2>1, <2>2 DEF OwnClaim
  <2>5. \A v, x \in Worker : cur'[v] = cur'[x] /\ cur'[v] # NoTask /\ attempt'[cur'[v]] = 1
                              => v = x
    BY <1>1, <2>1, <2>3 DEF OwnClaim
  <2>6. \A v \in Worker : cur'[v] # NoTask /\ attempt'[cur'[v]] = 1 => claim'[cur'[v]] # "none"
    BY <1>1, <2>1, <2>3 DEF OwnClaim, TypeOK
  <2> QED
    BY <1>1, <2>4, <2>5, <2>6 DEF OwnClaim
<1>3. ASSUME Ack(cur[w]) \/ UNCHANGED claim, cur' = [cur EXCEPT ![w] = NoTask], UNCHANGED ready
      PROVE  OwnClaim'
  <2>1. \A u \in Task : OnItsWay(u)' <=> OnItsWay(u)
    BY <1>1, <1>3 DEF OnItsWay
  <2>2. cur'[w] = NoTask
    BY <1>3 DEF TypeOK
  <2>3. ASSUME NEW v \in Worker, cur'[v] # NoTask, attempt'[cur'[v]] = 1
        PROVE  claim'[cur'[v]] # "none"
    <3>1. v # w /\ cur'[v] = cur[v] /\ cur[v] \in Task /\ attempt[cur[v]] = 1 /\ cur[v] # cur[w]
      BY <1>1, <2>2, <2>3 DEF OwnClaim, TypeOK
    <3> QED
      <4>1. claim'[cur[v]] = claim[cur[v]]
        BY <1>3, <3>1 DEF Ack, TypeOK
      <4> QED
        BY <3>1, <4>1, <2>3 DEF OwnClaim
  <2>4. \A u \in Task : attempt'[u] = 1 /\ OnItsWay(u)' => \A v \in Worker : cur'[v] # u
    BY <1>0, <1>1, <2>1, <2>2 DEF OwnClaim
  <2>5. \A v, x \in Worker : cur'[v] = cur'[x] /\ cur'[v] # NoTask /\ attempt'[cur'[v]] = 1
                              => v = x
    BY <1>1, <2>2 DEF OwnClaim
  <2> QED
    BY <1>1, <2>3, <2>4, <2>5 DEF OwnClaim
<1>4. CASE AckAndRelease(w) \/ ErrorAck(w) \/ ErrorAckFails(w)
  BY <1>3, <1>4 DEF AckAndRelease, ErrorAck, ErrorAckFails
<1>5. CASE \/ Discard(w) \/ Orphan(w) \/ Admit(w) \/ AcquireLock(w) \/ LockTimeout(w)
           \/ FailWithoutRun(w) \/ SkipCancelled(w) \/ StartRead(w) \/ StartCommit(w)
           \/ AgentStops(w) \/ \E o \in {"passed", "failed", "skipped"} : FinishRead(w, o)
           \/ FinishCommit(w) \/ CureFails(w) \/ WorkerError(w)
  <2>1. UNCHANGED <<ready, claim, cur>>
    BY <1>5 DEF Discard, Orphan, Admit, AcquireLock, LockTimeout, FailWithoutRun, SkipCancelled,
       StartRead, StartCommit, AgentStops, FinishRead, FinishCommit, CureFails, WorkerError
  <2> QED
    BY <1>1, <2>1 DEF OwnClaim, OnItsWay
<1> QED
  BY <1>2, <1>4, <1>5 DEF WorkerStep

LEMMA OtherOwnsClaim ==
  ASSUME InTime, TypeOK, Known, DeliveryInv, OwnClaim,
         \/ UserStep \/ HandlerStep \/ TickStep \/ TickError \/ Elapse \/ UNCHANGED vars
         \/ \E r \in Run : HandlerError(r)
         \/ \E p \in Process : Crash(p)
  PROVE  OwnClaim'
<1> USE DEF taskVars, runVars, queueVars, workerVars, apiVars, tickVars, faultVars
<1>0. NoTask \notin Task
  BY PlatformAssumption DEF Task, NoTask
<1>1. /\ phase \notin {"recover", "watchdogCommit"} /\ TimedOut = {}
      /\ phase # "push" => due = {}
  BY DEF DeliveryInv, NothingLate, TimedOut, IdleBound
<1>2. ASSUME UNCHANGED <<attempt, runOf, cur, claim>>, \A t \in Task : OnItsWay(t)' => OnItsWay(t)
      PROVE  OwnClaim'
  BY <1>2 DEF OwnClaim, Rows
<1>3. ASSUME NEW t \in Task, PushSubmitted(t) \/ RetryPush(t) PROVE OwnClaim'
  <2>1. /\ UNCHANGED <<attempt, runOf, cur, claim>>
        /\ ready' = [ready EXCEPT ![t] = @ + 1]
        /\ \/ t \in due /\ due' = due \ {t} /\ UNCHANGED unpushed
           \/ t \in unpushed /\ unpushed' = unpushed \ {t} /\ UNCHANGED due
    BY <1>3 DEF PushSubmitted, RetryPush, Push
  <2>2. \A u \in Task : OnItsWay(u)' => OnItsWay(u)
    BY <2>1 DEF OnItsWay, TypeOK
  <2> QED
    BY <1>2, <2>1, <2>2
<1>4. CASE RetryCommit
  <2>1. /\ UNCHANGED <<runOf, cur, claim, ready, unpushed>> /\ due' = batch
        /\ attempt' = [t \in Task |-> IF t \in batch THEN attempt[t] + 1 ELSE attempt[t]]
    BY <1>4 DEF RetryCommit
  <2>2. /\ batch \subseteq Rows /\ Rows' = Rows /\ Rows \subseteq Task
        /\ \A t \in Rows : attempt[t] \in Nat /\ attempt[t] >= 1
    BY <2>1 DEF Known, OwnClaim, Rows, TypeOK
  <2>3. \A t \in Task : attempt'[t] = 1 => attempt[t] = 1 /\ t \notin batch
    BY <2>1, <2>2
  <2>4. \A t \in Rows' : attempt'[t] >= 1
    BY <2>1, <2>2
  <2>5. \A t \in Task : attempt'[t] = 1 /\ OnItsWay(t)' => OnItsWay(t)
    BY <2>1, <2>3 DEF OnItsWay
  <2>6. \A w \in Worker : cur[w] # NoTask => cur[w] \in Task
    BY DEF TypeOK
  <2> QED
    BY <2>1, <2>3, <2>4, <2>5, <2>6 DEF OwnClaim
<1>5. CASE TickStep \/ TickError
  <2>1. \/ UNCHANGED <<attempt, runOf, cur, claim, ready, unpushed>> /\ due' \subseteq due
        \/ RetryCommit \/ \E t \in Task : RetryPush(t)
    <3>1. CASE WatchdogRead
      BY <1>1, <3>1 DEF WatchdogRead, TypeOK
    <3>2. CASE TickStart \/ TickEnd \/ RetryRead \/ QuarantineRead \/ QuarantineCommit
      BY <1>1, <3>2 DEF TickStart, TickEnd, RetryRead, QuarantineRead, QuarantineCommit, Late,
         DeliveryInv, NothingLate
    <3>3. CASE TickError \/ CompleteCommit \/ \E r \in Run : CompleteSkip(r) \/ CompleteRead(r)
      BY <1>1, <3>3 DEF TickError, CompleteSkip, CompleteRead, CompleteCommit
    <3>4. CASE RecoverCommit \/ WatchdogCommit \/ \E t \in Task : RecoverRequeue(t)
      BY <1>1, <3>4 DEF RecoverCommit, WatchdogCommit, RecoverRequeue
    <3> QED
      BY <1>5, <3>1, <3>2, <3>3, <3>4 DEF TickStep
  <2>2. CASE UNCHANGED <<attempt, runOf, cur, claim, ready, unpushed>> /\ due' \subseteq due
    BY <1>2, <2>2 DEF OnItsWay
  <2> QED
    BY <1>3, <1>4, <2>1, <2>2
<1>6. ASSUME NEW r \in Run, NEW n \in Nat, NEW list \in [1..n -> Case], CreateRun(r, n, list)
      PROVE  OwnClaim'
  <2> DEFINE new == {t \in Task \ Rows : Place(t) <= n}
  <2>1. /\ new \subseteq Task \ Rows /\ UNCHANGED <<cur, claim, ready, due>>
        /\ unpushed' = unpushed \cup new
        /\ runOf' = [t \in Task |-> IF t \in new THEN r ELSE runOf[t]]
        /\ attempt' = [t \in Task |-> IF t \in new THEN 1 ELSE attempt[t]]
    BY <1>6 DEF CreateRun
  <2> HIDE DEF new
  <2>2. \A w \in Worker : cur[w] # NoTask => cur[w] \in Task \ new
    BY <2>1 DEF Known, TypeOK
  <2>3. \A t \in Rows' : attempt'[t] >= 1
    BY <2>1 DEF OwnClaim, Rows, TypeOK
  <2>4. \A t \in Task : OnItsWay(t)' => OnItsWay(t) \/ t \in new
    BY <2>1 DEF OnItsWay
  <2>5. \A t \in Task \ new : attempt'[t] = attempt[t]
    BY <2>1
  <2>6. \A w \in Worker : cur[w] \notin new
    BY <1>0, <2>1, <2>2
  <2>7. \A t \in Task : attempt'[t] = 1 /\ OnItsWay(t)' => \A w \in Worker : cur'[w] # t
    BY <2>1, <2>4, <2>5, <2>6 DEF OwnClaim
  <2>8. \A w \in Worker : cur'[w] # NoTask => cur'[w] = cur[w] /\ attempt'[cur[w]] = attempt[cur[w]]
    BY <2>1, <2>2, <2>5
  <2> QED
    BY <2>1, <2>3, <2>7, <2>8 DEF OwnClaim
<1>7. CASE \/ \E r \in Run : CancelCommit(r) \/ HandlerError(r) \/ CancelRead(r)
           \/ \E m \in AttemptLimits : SetPolicy(m)
           \/ \E c \in Case : DeleteCase(c)
           \/ UNCHANGED vars
  BY <1>2, <1>7 DEF CancelCommit, HandlerError, CancelRead, SetPolicy, DeleteCase, OnItsWay, vars
<1>8. ASSUME NEW p \in Process, Crash(p) PROVE OwnClaim'
  <2>1. /\ cur' = [w \in Worker |-> IF ProcOf[w] = p THEN NoTask ELSE cur[w]]
        /\ UNCHANGED <<attempt, runOf>>
    BY <1>8 DEF Crash
  <2>2. unpushed' \subseteq unpushed /\ due' \subseteq due
    BY <1>8 DEF Crash
  <2>3. \A t \in Rows' : attempt'[t] >= 1
    BY <2>1 DEF OwnClaim, Rows
  <2>4. CASE InMemory
    <3>1. \A w \in Worker : cur'[w] = NoTask
      BY <2>1, <2>4, PlatformAssumption
    <3> QED
      BY <1>0, <2>3, <3>1 DEF OwnClaim
  <2>5. CASE ~InMemory
    <3>1. UNCHANGED <<ready, claim>>
      BY <1>8, <2>5 DEF Crash
    <3>2. \A u \in Task : OnItsWay(u)' => OnItsWay(u)
      BY <2>2, <3>1 DEF OnItsWay
    <3> QED
      BY <1>0, <2>1, <2>3, <3>1, <3>2 DEF OwnClaim
  <2> QED
    BY <2>4, <2>5
<1>9. CASE Elapse
  BY <1>9 DEF Elapse, InTime, DeliveryInv, NothingLate
<1> QED
  BY <1>3, <1>5, <1>6, <1>7, <1>8, <1>9, SubmissionCreates DEF UserStep, HandlerStep

(* In time, whatever is retried, cancelled, raises or crashes, a worker    *)
(* has its item's claim as long as it works on a first attempt, so that a  *)
(* crash leaves a claim behind to be recovered; no acknowledgement by      *)
(* another worker takes it away.                                           *)
THEOREM ClaimsCoverWork == InTime => (Spec => []ClaimCoversWork)
<1> SUFFICES ASSUME InTime PROVE Spec => []ClaimCoversWork
  OBVIOUS
<1>1. Init => OwnClaim
  BY DEF Init, OwnClaim, OnItsWay, Rows, NoRun
<1>2. SafetyInv /\ DeliveryInv /\ OwnClaim /\ [Next]_vars => OwnClaim'
  BY WorkerOwnsClaim, OtherOwnsClaim DEF SafetyInv, Next
<1>3. SafetyInv /\ OwnClaim => ClaimCoversWork
  BY DEF SafetyInv, TypeOK, OwnClaim, ClaimCoversWork, AtWork
<1> QED
  BY <1>1, <1>2, <1>3, SafetyHolds, DeliveredOnce, PTL DEF Spec


-----------------------------------------------------------------------------
(* The tasks of a run that is finished, or about to be, have come to their *)
(* end.                                                                    *)
Quiet ==
  \A t \in Rows : Finished(runOf[t]) \/ runOf[t] = closing => status[t] \notin TaskActive

(* Without a cancellation nothing is skipped.                              *)
LEMMA NothingSkipped ==
  ASSUME SafetyInv, CancelledAllowed, Cancellable = {}
  PROVE  /\ \A t \in Task : status[t] # "skipped"
         /\ \A r \in Run : toSkip[r] = {}
BY DEF SafetyInv, CancelledAllowed, Requested, CancelOnlyOnRequest, Known

(* A step that makes no task active and finishes no run.                   *)
LEMMA QuietStays ==
  ASSUME Quiet, UNCHANGED <<runOf, runStatus>>, closing' \in {closing, NoRun},
         \A t \in Task : status'[t] \in TaskActive => status[t] \in TaskActive
  PROVE  Quiet'
BY DEF Quiet, Rows, Finished

(* A worker only starts what is waiting.                                   *)
LEMMA WorkerQuiet ==
  ASSUME SafetyInv, DeliveryInv, Quiet, CancelledAllowed, Cancellable = {},
         NEW w \in Worker, WorkerStep(w) \/ WorkerError(w) \/ ErrorAckFails(w)
  PROVE  Quiet'
<1> USE DEF taskVars, runVars, queueVars, workerVars, apiVars, tickVars, faultVars
<1>0. TypeOK /\ Known
  BY DEF SafetyInv
<1>1. UNCHANGED <<runOf, closing>>
  BY <1>0, WorkerFrame
<1>2. UNCHANGED runStatus
  BY DEF WorkerStep, WorkerError, ErrorAckFails, Pop, Discard, Orphan, Admit,
     AcquireLock, LockTimeout, FailWithoutRun, SkipCancelled, StartRead, StartCommit,
     AgentStops, FinishRead, FinishCommit, CureFails, AckAndRelease, ErrorAck
<1>3. CASE StartCommit(w)
  <2>1. pc[w] = "start" /\ SaveStatus(cur[w], seen[w], "running")
    BY <1>3 DEF StartCommit, Goto
  <2>2. cur[w] \in Task /\ status[cur[w]] \in TaskActive
    BY <1>0, <2>1, NothingSkipped DEF DeliveryInv, RowFits, RowAtWork, Early, Startable,
       TaskActive, TypeOK
  <2>3. \A t \in Task : status'[t] = status[t] \/ t = cur[w]
    BY <1>0, <2>1, <2>2 DEF SaveStatus, TypeOK
  <2> QED
    BY <1>1, <1>2, <2>2, <2>3, QuietStays
<1>4. CASE FailWithoutRun(w) \/ FinishCommit(w)
  <2>1. PICK st \in {"passed", "failed", "skipped"} : SaveStatus(cur[w], seen[w], st)
    BY <1>0, <1>4 DEF FailWithoutRun, FinishCommit, Goto, TypeOK
  <2>2. cur[w] \in Task
    BY <1>0, <1>4 DEF FailWithoutRun, FinishCommit, Goto, TypeOK
  <2>3. \A t \in Task : status'[t] \in {status[t], st}
    BY <1>0, <2>1, <2>2 DEF SaveStatus, TypeOK
  <2> QED
    BY <1>1, <1>2, <2>3, QuietStays DEF TaskActive
<1>5. CASE ~StartCommit(w) /\ ~FailWithoutRun(w) /\ ~FinishCommit(w)
  <2>1. UNCHANGED status
    BY <1>5 DEF WorkerStep, WorkerError, ErrorAckFails, Pop, Discard, Orphan, Admit,
       AcquireLock, LockTimeout, SkipCancelled, StartRead, AgentStops, FinishRead, CureFails,
       AckAndRelease, ErrorAck
  <2> QED
    BY <1>1, <1>2, <2>1, QuietStays
<1> QED
  BY <1>3, <1>4, <1>5

(* A tick retries nothing, and closes a run only when it is settled.       *)
LEMMA TickQuiet ==
  ASSUME SafetyInv, DeliveryInv, NoRetry, Quiet, TickStep \/ TickError
  PROVE  Quiet'
<1> USE DEF taskVars, runVars, queueVars, workerVars, apiVars, tickVars, faultVars
<1>0. TypeOK /\ phase \notin {"recover", "watchdogCommit", "retryCommit", "push"}
  BY DEF SafetyInv, DeliveryInv, NothingLate, NoRetry
<1>1. CASE QuarantineCommit
  <2>1. \A t \in Task : status'[t] \in {status[t], "quarantined"}
    BY <1>1 DEF QuarantineCommit, SetStatus
  <2> QED
    BY <1>1, <2>1, QuietStays DEF QuarantineCommit, TaskActive
<1>2. ASSUME NEW r \in Run, CompleteRead(r) PROVE Quiet'
  <2>1. \A t \in TasksOf(r) : status[t] \notin TaskActive
    BY <1>2 DEF CompleteRead, Settled
  <2> QED
    BY <1>2, <2>1 DEF CompleteRead, Quiet, Rows, TasksOf, Finished
<1>3. CASE CompleteCommit
  <2>1. \A r \in Run : Finished(r)' => Finished(r) \/ r = closing
    BY <1>0, <1>3 DEF CompleteCommit, Finished, TypeOK
  <2>2. UNCHANGED <<status, runOf>> /\ closing' = NoRun
    BY <1>3 DEF CompleteCommit
  <2> QED
    BY <1>0, <2>1, <2>2 DEF Quiet, Rows, TypeOK
<1>4. CASE \/ TickStart \/ TickEnd \/ WatchdogRead \/ RetryRead \/ QuarantineRead \/ TickError
           \/ \E r \in Run : CompleteSkip(r)
  <2>1. UNCHANGED <<status, runOf, runStatus>> /\ closing' \in {closing, NoRun}
    BY <1>4 DEF TickStart, TickEnd, WatchdogRead, RetryRead, QuarantineRead, TickError,
       CompleteSkip
  <2> QED
    BY <2>1, QuietStays
<1>5. CASE \/ RecoverCommit \/ WatchdogCommit \/ RetryCommit
           \/ \E t \in Task : RecoverRequeue(t) \/ RetryPush(t)
  BY <1>0, <1>5 DEF RecoverCommit, WatchdogCommit, RetryCommit, RecoverRequeue, RetryPush
<1> QED
  BY <1>1, <1>2, <1>3, <1>4, <1>5 DEF TickStep

(* A new run is neither finished nor being closed, and an old one gets no  *)
(* tasks.                                                                  *)
LEMMA OtherQuiet ==
  ASSUME SafetyInv, Quiet, CancelledAllowed, Cancellable = {},
         \/ UserStep \/ HandlerStep \/ Elapse \/ UNCHANGED vars
         \/ \E r \in Run : HandlerError(r)
         \/ \E p \in Process : Crash(p)
  PROVE  Quiet'
<1> USE DEF taskVars, runVars, queueVars, workerVars, apiVars, tickVars, faultVars
<1>0. TypeOK /\ OpenRuns
  BY DEF SafetyInv
<1>1. ASSUME NEW r \in Run, NEW n \in Nat, NEW list \in [1..n -> Case], CreateRun(r, n, list)
      PROVE  Quiet'
  <2> DEFINE new == {t \in Task \ Rows : Place(t) <= n}
  <2>1. /\ new \subseteq Task \ Rows /\ UNCHANGED closing /\ runStatus[r] = "none"
        /\ runStatus' = [runStatus EXCEPT ![r] = "running"]
        /\ \A t \in Task : /\ runOf'[t] = (IF t \in new THEN r ELSE runOf[t])
                           /\ status'[t] = (IF t \in new THEN "queued" ELSE status[t])
    BY <1>1 DEF CreateRun, SetStatus
  <2> HIDE DEF new
  <2>2. r # closing /\ ~Finished(r)'
    BY <1>0, <2>1 DEF OpenRuns, NoRun, Run, TypeOK, Finished, RunTerminal
  <2>3. ASSUME NEW t \in Rows', Finished(runOf[t])' \/ (runOf[t] = closing)'
        PROVE  status'[t] \notin TaskActive
    <3>1. t \notin new
      BY <2>1, <2>2, <2>3 DEF Finished
    <3>2. t \in Rows /\ runOf'[t] = runOf[t] /\ status'[t] = status[t]
      BY <2>1, <2>3, <3>1 DEF Rows
    <3>3. Finished(runOf[t]) \/ runOf[t] = closing
      BY <1>0, <2>1, <2>3, <3>2 DEF Finished, TypeOK, RunTerminal
    <3> QED
      BY <3>2, <3>3 DEF Quiet
  <2> QED
    BY <2>3 DEF Quiet
<1>2. ASSUME NEW r \in Run, CancelCommit(r) PROVE FALSE
  BY <1>2, NothingSkipped DEF CancelCommit
<1>3. CASE \/ \E r \in Run : CancelRead(r) \/ HandlerError(r)
           \/ \E m \in AttemptLimits : SetPolicy(m)
           \/ \E c \in Case : DeleteCase(c)
           \/ \E u \in Task : PushSubmitted(u)
           \/ \E p \in Process : Crash(p)
           \/ Elapse \/ UNCHANGED vars
  <2>1. UNCHANGED <<status, runOf, runStatus>> /\ closing' \in {closing, NoRun}
    BY <1>3 DEF CancelRead, HandlerError, SetPolicy, DeleteCase, PushSubmitted, Crash, Elapse,
       vars
  <2> QED
    BY <2>1, QuietStays
<1> QED
  BY <1>0, <1>1, <1>2, <1>3, SubmissionCreates DEF UserStep, HandlerStep

(* In time, without retries and cancellations, a finished run is finished: *)
(* none of its tasks waits or runs, whatever fails or crashes.             *)
THEOREM FinishedRunsAreQuiet ==
  InTime /\ SingleAttempt /\ Cancellable = {} => (Spec => []FinishedRunIsQuiet)
<1> SUFFICES ASSUME InTime, SingleAttempt, Cancellable = {} PROVE Spec => []FinishedRunIsQuiet
  OBVIOUS
<1>1. Init => Quiet /\ CancelledAllowed
  BY DEF Init, Quiet, Rows, CancelledAllowed
<1>2. CancelledAllowed /\ [Next]_vars => CancelledAllowed'
  BY CancelledBounded
<1>3. SafetyInv /\ DeliveryInv /\ NoRetry /\ [Next]_vars => NoRetry'
  BY NoRetryKept
<1>4. SafetyInv /\ DeliveryInv /\ NoRetry /\ CancelledAllowed /\ Quiet /\ [Next]_vars => Quiet'
  BY WorkerQuiet, TickQuiet, OtherQuiet DEF Next
<1>5. Quiet => FinishedRunIsQuiet
  BY DEF Quiet, FinishedRunIsQuiet
<1> QED
  BY NoRetryInit, <1>1, <1>2, <1>3, <1>4, <1>5, SafetyHolds, DeliveredOnce, PTL DEF Spec

=============================================================================
