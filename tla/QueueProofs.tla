---------------------------- MODULE QueueProofs ----------------------------
(***************************************************************************)
(* Both queues keep the promise of TaskQueue, for any number of items,     *)
(* workers and hosts, any time and any number of faults, punctually if no  *)
(* worker's clock is behind the scheduler's. What each may lose.           *)
(***************************************************************************)
EXTENDS Queues, FiniteSetTheorems, SequenceTheorems, TLAPS

(* The commands of Redis keep the types.                                   *)
LEMMA RemovedType ==
  ASSUME RedisTypeOK, NEW t \in Item
  PROVE  Removed(t) \in [Item -> Nat]
BY DEF RedisTypeOK, Removed

LEMMA WorkerRedisTypes ==
  ASSUME RedisTypeOK, NEW w \in Client, Move(w) \/ Stamp(w) \/ AckByWorker(w) \/ WorkerDies(w)
  PROVE  RedisTypeOK'
<1> USE ClientsAssumption, HostAssumption DEF RedisTypeOK, clientVars, stuckVars, countVars
<1>1. CASE Move(w)
  <2>1. Len(list) \in 1 .. Len(list)
    BY <1>1 DEF Move
  <2>2. list[Len(list)] \in Item
    BY <2>1, ElementOfSeq
  <2>3. \A i \in 1 .. Len(list) - 1 : list[i] \in Item
    BY ElementOfSeq
  <2>4. list' \in Seq(Item)
    BY <1>1, <2>1, <2>3, SubSeqProperties, SMTT(60) DEF Move
  <2>5. held' \in [Client -> Item \cup {NoItem}] /\ processing' \in [Item -> Nat]
    BY <1>1, <2>2 DEF Move
  <2>6. rpc' \in [Client -> {"idle", "moved", "working"}]
        /\ \A v \in Client : held'[v] = NoItem <=> rpc'[v] = "idle"
    BY <1>1, <2>2 DEF Move
  <2> QED
    BY <1>1, <2>4, <2>5, <2>6 DEF Move
<1>2. CASE Stamp(w)
  <2>1. held[w] \in Item
    BY <1>2 DEF Stamp
  <2>2. clock + Offset[HostOf[w]] \in Int /\ clock \in Nat
    OBVIOUS
  <2>3. /\ ts' = [ts EXCEPT ![held[w]] = clock + Offset[HostOf[w]]]
        /\ since' = [since EXCEPT ![held[w]] = clock]
    BY <1>2 DEF Stamp
  <2>4. ts' \in [Item -> Int \cup {NoStamp}] /\ since' \in [Item -> Nat \cup {NoStamp}]
    BY <2>1, <2>2, <2>3
  <2>5. \A t \in Item : since'[t] = NoStamp <=> ts'[t] = NoStamp
    BY <2>1, <2>2, <2>3
  <2> QED
    BY <1>2, <2>4, <2>5 DEF Stamp
<1>3. CASE AckByWorker(w)
  <2>1. held[w] \in Item
    BY <1>3 DEF AckByWorker
  <2> QED
    BY <1>3, <2>1, RemovedType DEF AckByWorker, Acknowledge, HdelStamp
<1>4. CASE WorkerDies(w)
  BY <1>4 DEF WorkerDies
<1> QED
  BY <1>1, <1>2, <1>3, <1>4

LEMMA StuckTypes ==
  ASSUME RedisTypeOK, StuckStep \/ StuckFails
  PROVE  RedisTypeOK'
<1> USE ClientsAssumption, HostAssumption
    DEF RedisTypeOK, clientVars, stuckVars, countVars, Zero
<1>1. CASE AskTime \/ Lrange \/ StuckFails
  BY <1>1 DEF AskTime, Lrange, StuckFails
<1>2. CASE Hgetall
  BY <1>2 DEF Hgetall
<1>3. ASSUME NEW t \in Item, RequeueNext(t) PROVE RedisTypeOK'
  <2>1. todo' \in [Item -> Nat]
    BY <1>3 DEF RequeueNext
  <2>2. list' \in Seq(Item) /\ processing' \in [Item -> Nat]
    BY <1>3, RemovedType, AppendProperties DEF RequeueNext
  <2> QED
    BY <1>3, <2>1, <2>2 DEF RequeueNext, HdelStamp
<1> QED
  BY <1>1, <1>2, <1>3 DEF StuckStep

(* The type invariant of the queue of production.                          *)
THEOREM RedisTypesCorrect == RedisSpec => []RedisTypeOK
<1>1. RedisInit => RedisTypeOK
  BY ClientsAssumption, HostAssumption DEF RedisInit, RedisTypeOK, Zero
<1>2. RedisTypeOK /\ [RedisNext]_redisVars => RedisTypeOK'
  <2> SUFFICES ASSUME RedisTypeOK, [RedisNext]_redisVars PROVE RedisTypeOK'
    OBVIOUS
  <2>1. ASSUME NEW t \in Item, RedisPush(t) PROVE RedisTypeOK'
    BY <2>1, AppendProperties DEF RedisPush, RedisTypeOK, clientVars, stuckVars
  <2>2. ASSUME NEW t \in Item, AckByWatchdog(t) PROVE RedisTypeOK'
    BY <2>2, RemovedType
    DEF AckByWatchdog, Acknowledge, HdelStamp, RedisTypeOK, clientVars, stuckVars
  <2>3. CASE TimePasses
    BY <2>3, HostAssumption DEF TimePasses, RedisTypeOK, clientVars, stuckVars, countVars
  <2>4. CASE UNCHANGED redisVars
    BY <2>4 DEF redisVars, RedisTypeOK
  <2> QED
    BY <2>1, <2>2, <2>3, <2>4, WorkerRedisTypes, StuckTypes DEF RedisNext
<1> QED
  BY <1>1, <1>2, PTL DEF RedisSpec

-----------------------------------------------------------------------------
(* How often an item can be popped, and how its changes are counted.       *)
Ready == [t \in Item |-> Cardinality(Waiting(t)) + Cardinality(Moving(t))]
Claims == [t \in Item |-> ClaimOf(t)]

LEMMA CountsFinite ==
  ASSUME RedisTypeOK, NEW t
  PROVE  /\ IsFiniteSet(Waiting(t)) /\ Cardinality(Waiting(t)) \in Nat
         /\ IsFiniteSet(Moving(t)) /\ Cardinality(Moving(t)) \in Nat
<1>1. IsFiniteSet(1 .. Len(list)) /\ Waiting(t) \subseteq 1 .. Len(list)
  BY FS_Interval DEF Waiting, RedisTypeOK
<1>2. Moving(t) \subseteq Client
  BY DEF Moving
<1> QED
  BY <1>1, <1>2, FS_Subset, FS_CardinalityType, ClientsAssumption

(* An item is put at the left end ...                                      *)
LEMMA WaitingAppended ==
  ASSUME RedisTypeOK, NEW t \in Item, list' = Append(list, t), UNCHANGED clientVars
  PROVE  Ready' = [Ready EXCEPT ![t] = @ + 1]
<1>1. \A u \in Item : Moving(u)' = Moving(u)
  BY DEF Moving, clientVars
<1>2. \A u \in Item : Waiting(u)' = IF u = t THEN Waiting(u) \cup {Len(list) + 1}
                                            ELSE Waiting(u)
  <2>1. Len(list') = Len(list) + 1 /\ Len(list) \in Nat /\ list'[Len(list) + 1] = t
        /\ \A i \in 1 .. Len(list) : list'[i] = list[i]
    BY AppendProperties DEF RedisTypeOK
  <2> QED
    BY <2>1 DEF Waiting
<1>3. Len(list) + 1 \notin Waiting(t)
  BY DEF Waiting, RedisTypeOK
<1>4. \A u \in Item : Cardinality(Waiting(u)') =
                       IF u = t THEN Cardinality(Waiting(u)) + 1 ELSE Cardinality(Waiting(u))
  BY <1>2, <1>3, CountsFinite, FS_AddElement
<1>5. Ready' = [u \in Item |-> IF u = t THEN Ready[u] + 1 ELSE Ready[u]]
  BY <1>1, <1>4, CountsFinite DEF Ready
<1> QED
  BY <1>5 DEF Ready

(* ... and taken from there: the worker that moves it may still lose it.   *)
LEMMA ReadyMoved ==
  ASSUME RedisTypeOK, NEW w \in Client, Move(w)
  PROVE  Ready' = Ready
<1> DEFINE n == Len(list)  t == list[n]
<1>1. n \in Nat \ {0} /\ t \in Item
  BY ElementOfSeq DEF Move, RedisTypeOK
<1>2. Len(list') = n - 1 /\ \A i \in 1 .. n - 1 : list'[i] = list[i]
  <2>1. \A i \in 1 .. n - 1 : list[i] \in Item
    BY ElementOfSeq, <1>1 DEF RedisTypeOK
  <2>2. list' = SubSeq(list, 1, n - 1)
    BY DEF Move
  <2>3. /\ Len(SubSeq(list, 1, n - 1)) = IF 1 <= n - 1 THEN n - 1 - 1 + 1 ELSE 0
        /\ \A i \in 1 .. n - 1 - 1 + 1 : SubSeq(list, 1, n - 1)[i] = list[1 + i - 1]
    <3>1. n - 1 \in Int /\ 1 \in Int
      BY <1>1
    <3> HIDE DEF n
    <3> QED
      BY ONLY <2>1, <3>1, SubSeqProperties
  <2> HIDE DEF n
  <2> QED
    BY <1>1, <2>2, <2>3
<1>3. \A u \in Item : Waiting(u)' = IF u = t THEN Waiting(u) \ {n} ELSE Waiting(u)
  BY <1>1, <1>2 DEF Waiting
<1>4. n \in Waiting(t)
  BY <1>1 DEF Waiting
<1>5. rpc[w] = "idle" /\ rpc' = [rpc EXCEPT ![w] = "moved"] /\ held' = [held EXCEPT ![w] = t]
  BY DEF Move
<1>6. \A u \in Item : Moving(u)' = IF u = t THEN Moving(u) \cup {w} ELSE Moving(u)
  BY <1>5 DEF Moving, RedisTypeOK
<1>7. w \notin Moving(t)
  BY <1>5 DEF Moving
<1> HIDE DEF n, t
<1>8. \A u \in Item : Cardinality(Waiting(u)') =
                       IF u = t THEN Cardinality(Waiting(u)) - 1 ELSE Cardinality(Waiting(u))
  BY <1>3, <1>4, CountsFinite, FS_RemoveElement
<1>9. \A u \in Item : Cardinality(Moving(u)') =
                       IF u = t THEN Cardinality(Moving(u)) + 1 ELSE Cardinality(Moving(u))
  BY <1>6, <1>7, CountsFinite, FS_AddElement
<1>10. \A u \in Item : Cardinality(Waiting(u)') + Cardinality(Moving(u)')
                        = Cardinality(Waiting(u)) + Cardinality(Moving(u))
  BY <1>8, <1>9, CountsFinite
<1> QED
  BY <1>10 DEF Ready

(* A worker that stops moving an item has taken it away.                   *)
LEMMA ReadyTaken ==
  ASSUME RedisTypeOK, NEW w \in Client, rpc[w] = "moved", UNCHANGED list,
         rpc'[w] # "moved", \A v \in Client \ {w} : rpc'[v] = rpc[v] /\ held'[v] = held[v]
  PROVE  /\ held[w] \in Item /\ Ready[held[w]] > 0
         /\ Ready' = [Ready EXCEPT ![held[w]] = @ - 1]
<1> DEFINE t == held[w]
<1>1. t \in Item /\ w \in Moving(t)
  BY DEF RedisTypeOK, Moving
<1>2. \A u \in Item : Moving(u)' = IF u = t THEN Moving(u) \ {w} ELSE Moving(u)
  BY DEF Moving
<1>3. \A u \in Item : Waiting(u)' = Waiting(u)
  BY DEF Waiting
<1> HIDE DEF t
<1>4. \A u \in Item : Cardinality(Moving(u)') =
                       IF u = t THEN Cardinality(Moving(u)) - 1 ELSE Cardinality(Moving(u))
  BY <1>1, <1>2, CountsFinite, FS_RemoveElement
<1>5. Cardinality(Moving(t)) > 0
  BY <1>1, CountsFinite, FS_EmptySet
<1>6. Ready[t] > 0 /\ Ready' = [u \in Item |-> IF u = t THEN Ready[u] - 1 ELSE Ready[u]]
  BY <1>1, <1>3, <1>4, <1>5, CountsFinite DEF Ready
<1> QED
  BY <1>1, <1>6 DEF Ready, t

(* Nobody moves an item or stops moving one.                               *)
LEMMA ReadyKept ==
  ASSUME UNCHANGED list,
         \A v \in Client : \/ rpc'[v] = rpc[v] /\ held'[v] = held[v]
                           \/ rpc[v] # "moved" /\ rpc'[v] # "moved"
  PROVE  Ready' = Ready
<1>1. \A u \in Item : Waiting(u)' = Waiting(u) /\ Moving(u)' = Moving(u)
  BY DEF Waiting, Moving
<1> QED
  BY <1>1 DEF Ready

-----------------------------------------------------------------------------
(* Each command is an operation of the abstract queue, or nothing.         *)
AbstractStep == [Abstract!Next]_<<Ready, Claims, todo, lost>>

LEMMA ClaimsKept ==
  ASSUME RedisTypeOK, UNCHANGED <<since, clock>>
  PROVE  Claims' = Claims
BY DEF Claims, ClaimOf

(* An item loses its stamp.                                                *)
LEMMA ClaimEnded ==
  ASSUME RedisTypeOK, NEW t \in Item, HdelStamp(t), UNCHANGED clock
  PROVE  /\ Claims' = [u \in Item |-> IF u \in {t} THEN "none" ELSE Claims[u]]
         /\ Claims' = [Claims EXCEPT ![t] = "none"]
<1>1. \A u \in Item : ClaimOf(u)' = IF u = t THEN "none" ELSE ClaimOf(u)
  BY DEF ClaimOf, HdelStamp, RedisTypeOK
<1> QED
  BY <1>1 DEF Claims

LEMMA AckIsAbstract ==
  ASSUME RedisTypeOK, NEW t \in Item, Acknowledge(t), Ready' = Ready
  PROVE  AbstractStep
<1>1. Claims' = [u \in Item |-> IF u \in {t} THEN "none" ELSE Claims[u]]
  BY ClaimEnded DEF Acknowledge
<1>2. Abstract!Ack({t})
  BY <1>1 DEF Abstract!Ack, Acknowledge, stuckVars, Ready, Claims
<1> QED
  BY <1>2 DEF AbstractStep, Abstract!Next

(* A time stamp is what the clock of some worker's host showed.            *)
Stamped ==
  \A t \in Item : ts[t] # NoStamp => \E w \in Client : ts[t] = since[t] + Offset[HostOf[w]]

LEMMA StampedKept ==
  ASSUME RedisTypeOK, Stamped, [RedisNext]_redisVars
  PROVE  Stamped'
<1>1. ASSUME NEW w \in Client, Stamp(w) PROVE Stamped'
  <2>1. held[w] \in Item
    BY <1>1 DEF Stamp, RedisTypeOK, Moving
  <2>2. /\ ts' = [ts EXCEPT ![held[w]] = clock + Offset[HostOf[w]]]
        /\ since' = [since EXCEPT ![held[w]] = clock]
        /\ DOMAIN ts = Item /\ DOMAIN since = Item
    BY <1>1 DEF Stamp, RedisTypeOK
  <2>3. ts'[held[w]] = since'[held[w]] + Offset[HostOf[w]]
    BY <2>1, <2>2
  <2>4. \A t \in Item \ {held[w]} : ts'[t] = ts[t] /\ since'[t] = since[t]
    BY <2>2
  <2> QED
    BY <2>3, <2>4 DEF Stamped
<1>2. ASSUME NEW t \in Item, HdelStamp(t) PROVE Stamped'
  <2>1. /\ ts'[t] = NoStamp
        /\ \A u \in Item \ {t} : ts'[u] = ts[u] /\ since'[u] = since[u]
    BY <1>2 DEF HdelStamp, RedisTypeOK
  <2> QED
    BY <2>1 DEF Stamped
<1>3. ASSUME UNCHANGED <<ts, since>> PROVE Stamped'
  BY <1>3 DEF Stamped
<1>4. ASSUME NEW w \in Client, Move(w) \/ AckByWorker(w) \/ WorkerDies(w) PROVE Stamped'
  <2>1. CASE AckByWorker(w)
    <3>1. held[w] \in Item
      BY <2>1 DEF AckByWorker, RedisTypeOK
    <3> QED
      BY <1>2, <2>1, <3>1 DEF AckByWorker, Acknowledge
  <2> QED
    BY <1>3, <1>4, <2>1 DEF Move, WorkerDies
<1>5. ASSUME NEW t \in Item, RedisPush(t) \/ AckByWatchdog(t) \/ RequeueNext(t)
      PROVE  Stamped'
  BY <1>2, <1>3, <1>5 DEF RedisPush, AckByWatchdog, Acknowledge, RequeueNext
<1>6. CASE AskTime \/ Lrange \/ Hgetall \/ StuckFails \/ TimePasses \/ UNCHANGED redisVars
  BY <1>3, <1>6 DEF AskTime, Lrange, Hgetall, StuckFails, TimePasses, redisVars
<1> QED
  BY <1>1, <1>4, <1>5, <1>6 DEF RedisNext, StuckStep

LEMMA StampsAreClocks == RedisSpec => []Stamped
<1>1. RedisInit => Stamped
  BY DEF RedisInit, Stamped
<1> QED
  BY <1>1, StampedKept, RedisTypesCorrect, PTL DEF RedisSpec

(* What stuck() takes for old is old, if no clock is behind its own.       *)
LEMMA StaleIsLate ==
  ASSUME RedisTypeOK, Stamped, NoneBehind, tick = "hash", NEW t \in Item, Stale(t)
  PROVE  ClaimOf(t) = "late"
<1>1. ts[t] # NoStamp /\ ts[t] < asked - Older /\ since[t] \in Nat /\ since[t] # NoStamp
  BY DEF Stale, RedisTypeOK
<1>2. PICK w \in Client : ts[t] = since[t] + Offset[HostOf[w]]
  BY <1>1 DEF Stamped
<1>3. PICK o \in Int : o = Offset[HostOf[w]]
  BY HostAssumption
<1>4. PICK p \in Int : p = Offset[Api] /\ p <= o
  BY <1>3, HostAssumption DEF NoneBehind
<1>5. asked <= clock + p /\ asked \in Int /\ clock \in Nat /\ Older \in Nat
  BY <1>4, ClientsAssumption DEF RedisTypeOK
<1>6. clock - since[t] > Older
  BY <1>1, <1>2, <1>3, <1>4, <1>5
<1> QED
  BY <1>1, <1>6 DEF ClaimOf

LEMMA WorkerImplements ==
  ASSUME RedisTypeOK, NEW w \in Client,
         Move(w) \/ Stamp(w) \/ AckByWorker(w) \/ WorkerDies(w)
  PROVE  AbstractStep
<1> USE DEF stuckVars, countVars
<1>1. CASE Move(w)
  BY <1>1, ReadyMoved, ClaimsKept DEF Move, AbstractStep
<1>2. CASE Stamp(w)
  <2>1. /\ held[w] \in Item /\ Ready[held[w]] > 0
        /\ Ready' = [Ready EXCEPT ![held[w]] = @ - 1]
    BY <1>2, ReadyTaken DEF Stamp, RedisTypeOK
  <2>2. since'[held[w]] = clock /\ clock \in Nat /\ clock' = clock
    BY <1>2, <2>1 DEF Stamp, RedisTypeOK
  <2>3. clock # NoStamp /\ ~(clock - clock > Older)
    BY <2>2, ClientsAssumption
  <2>4. ClaimOf(held[w])' = "fresh"
    BY <1>2, <2>1, <2>2, <2>3 DEF ClaimOf, Stamp
  <2>5. \A u \in Item \ {held[w]} : ClaimOf(u)' = ClaimOf(u)
    BY <1>2 DEF ClaimOf, Stamp, RedisTypeOK
  <2>6. Claims' = [Claims EXCEPT ![held[w]] = "fresh"]
    BY <1>2, <2>1, <2>4, <2>5 DEF Claims, Stamp
  <2>7. Abstract!Pop(held[w])
    BY <1>2, <2>1, <2>6 DEF Abstract!Pop, Ready, Claims, Stamp
  <2> QED
    BY <2>1, <2>7 DEF AbstractStep, Abstract!Next
<1>3. CASE AckByWorker(w)
  <2>1. held[w] \in Item
    BY <1>3 DEF AckByWorker, RedisTypeOK
  <2>2. Ready' = Ready
    BY <1>3, ReadyKept DEF AckByWorker, Acknowledge, RedisTypeOK
  <2> QED
    BY <1>3, <2>1, <2>2, AckIsAbstract DEF AckByWorker
<1>4. CASE WorkerDies(w) /\ rpc[w] # "moved"
  <2>1. Ready' = Ready
    BY <1>4, ReadyKept DEF WorkerDies, RedisTypeOK
  <2> QED
    BY <1>4, <2>1, ClaimsKept DEF WorkerDies, AbstractStep
<1>5. CASE WorkerDies(w) /\ rpc[w] = "moved"
  <2>1. /\ held[w] \in Item /\ Ready[held[w]] > 0
        /\ Ready' = [Ready EXCEPT ![held[w]] = @ - 1]
    BY <1>5, ReadyTaken DEF WorkerDies, RedisTypeOK
  <2>2. Claims' = Claims
    BY <1>5, ClaimsKept DEF WorkerDies
  <2>3. Abstract!Lose(held[w])
    BY <1>5, <2>1, <2>2 DEF Abstract!Lose, WorkerDies, Ready, Claims
  <2> QED
    BY <2>1, <2>3 DEF AbstractStep, Abstract!Next
<1> QED
  BY <1>1, <1>2, <1>3, <1>4, <1>5

LEMMA StuckImplements ==
  ASSUME RedisTypeOK, Stamped, StuckStep \/ StuckFails
  PROVE  AbstractStep
<1> USE DEF clientVars, countVars
<1>1. CASE AskTime \/ Lrange
  <2>1. Ready' = Ready /\ Claims' = Claims
    BY <1>1, ReadyKept, ClaimsKept DEF AskTime, Lrange
  <2> QED
    BY <1>1, <2>1 DEF AskTime, Lrange, AbstractStep
<1>2. CASE Hgetall
  <2>1. Ready' = Ready /\ Claims' = Claims
    BY <1>2, ReadyKept, ClaimsKept DEF Hgetall
  <2>2. todo' \in [Item -> Nat]
    BY <1>2 DEF Hgetall, RedisTypeOK
  <2>3. \A t \in Item : todo'[t] > 0 => Claims[t] \in Abstract!Recoverable
    <3>1. \A t \in Item : todo'[t] > 0 => Stale(t)
      BY <1>2 DEF Hgetall
    <3>2. \A t \in Item : Stale(t) => ClaimOf(t) \in {"fresh", "late"}
      BY DEF Stale, ClaimOf, RedisTypeOK
    <3>3. NoneBehind => \A t \in Item : Stale(t) => ClaimOf(t) = "late"
      BY <1>2, StaleIsLate DEF Hgetall
    <3> QED
      BY <3>1, <3>2, <3>3 DEF Abstract!Recoverable, Claims
  <2>4. Abstract!Scan
    BY <1>2, <2>1, <2>2, <2>3 DEF Abstract!Scan, Hgetall, Ready, Claims
  <2> QED
    BY <2>4 DEF AbstractStep, Abstract!Next
<1>3. ASSUME NEW t \in Item, RequeueNext(t) PROVE AbstractStep
  <2>1. Ready' = [Ready EXCEPT ![t] = @ + 1]
    BY <1>3, WaitingAppended DEF RequeueNext
  <2>2. Claims' = [Claims EXCEPT ![t] = "none"]
    BY <1>3, ClaimEnded DEF RequeueNext
  <2>3. Abstract!Recover(t)
    BY <1>3, <2>1, <2>2 DEF Abstract!Recover, RequeueNext, Ready, Claims
  <2> QED
    BY <2>3 DEF AbstractStep, Abstract!Next
<1>4. CASE StuckFails
  <2>1. Ready' = Ready /\ Claims' = Claims
    BY <1>4, ReadyKept, ClaimsKept DEF StuckFails
  <2>2. Abstract!GiveUp
    BY <1>4, <2>1 DEF Abstract!GiveUp, Abstract!Nothing, StuckFails, Zero, Ready, Claims
  <2> QED
    BY <2>2 DEF AbstractStep, Abstract!Next
<1> QED
  BY <1>1, <1>2, <1>3, <1>4 DEF StuckStep

(* Time makes claims late and never fresh.                                 *)
LEMMA TimeImplements ==
  ASSUME RedisTypeOK, TimePasses
  PROVE  AbstractStep
<1>1. Ready' = Ready
  BY ReadyKept DEF TimePasses, clientVars
<1> DEFINE S == {t \in Item : ClaimOf(t)' # ClaimOf(t)}
<1>2. \A t \in Item : ClaimOf(t)' # ClaimOf(t) => ClaimOf(t) = "fresh" /\ ClaimOf(t)' = "late"
  BY HostAssumption, ClientsAssumption DEF TimePasses, ClaimOf, RedisTypeOK
<1>3. Claims' = [t \in Item |-> IF t \in S /\ Claims[t] = "fresh" THEN "late" ELSE Claims[t]]
  BY <1>2 DEF Claims
<1>4. S \in SUBSET Item /\ Abstract!Overdue(S)
  BY <1>1, <1>3 DEF Abstract!Overdue, TimePasses, stuckVars, Ready, Claims
<1> QED
  BY <1>4 DEF AbstractStep, Abstract!Next

(* The queue of production implements TaskQueue, whatever the clocks of    *)
(* the machines show; the punctual one, if none is behind the scheduler's  *)
(* (redisq.py, base.py).                                                   *)
THEOREM RedisQueueImplements == RedisSpec => RedisImplements
<1>1. RedisInit => Abstract!Init
  <2> SUFFICES ASSUME RedisInit PROVE Abstract!Init
    OBVIOUS
  <2>1. \A t \in Item : Waiting(t) = {} /\ Moving(t) = {} /\ ClaimOf(t) = "none"
    BY DEF RedisInit, Waiting, Moving, ClaimOf
  <2>2. \A t \in Item : Cardinality(Waiting(t)) + Cardinality(Moving(t)) = 0
    BY <2>1, FS_EmptySet
  <2>3. [t \in Item |-> Cardinality(Waiting(t)) + Cardinality(Moving(t))] = [t \in Item |-> 0]
    BY <2>2
  <2>4. [t \in Item |-> ClaimOf(t)] = [t \in Item |-> "none"]
    BY <2>1
  <2> QED
    BY <2>3, <2>4 DEF RedisInit, Abstract!Init, Abstract!Nothing, Zero
<1>2. RedisTypeOK /\ Stamped /\ [RedisNext]_redisVars => AbstractStep
  <2> SUFFICES ASSUME RedisTypeOK, Stamped, [RedisNext]_redisVars PROVE AbstractStep
    OBVIOUS
  <2>1. ASSUME NEW t \in Item, RedisPush(t) PROVE AbstractStep
    <3>1. Ready' = [Ready EXCEPT ![t] = @ + 1] /\ Claims' = Claims
      BY <2>1, WaitingAppended, ClaimsKept DEF RedisPush
    <3>2. Abstract!Push(t)
      BY <2>1, <3>1 DEF Abstract!Push, RedisPush, stuckVars, Ready, Claims
    <3> QED
      BY <3>2 DEF AbstractStep, Abstract!Next
  <2>2. ASSUME NEW t \in Item, AckByWatchdog(t) PROVE AbstractStep
    <3>1. Ready' = Ready
      BY <2>2, ReadyKept DEF AckByWatchdog, Acknowledge, clientVars
    <3> QED
      BY <2>2, <3>1, AckIsAbstract DEF AckByWatchdog
  <2>3. CASE UNCHANGED redisVars
    BY <2>3, ReadyKept, ClaimsKept DEF redisVars, AbstractStep
  <2> QED
    BY <2>1, <2>2, <2>3, WorkerImplements, StuckImplements, TimeImplements DEF RedisNext
<1>3. AbstractStep => [Abstract!Next]_(Abstract!queue)
  BY DEF AbstractStep, Abstract!queue, Ready, Claims
<1> QED
  BY <1>1, <1>2, <1>3, RedisTypesCorrect, StampsAreClocks, PTL
  DEF RedisSpec, RedisImplements, Abstract!Spec

(* stuck() puts back only what has been claimed for longer than the        *)
(* threshold (base.py:47), if no worker's clock is behind the scheduler's, *)
(* as on a single machine (redisq.py, pop and stuck).                      *)
THEOREM RecoveryIsPunctual == NoneBehind => (RedisSpec => OnlyOldRecovered)
<1> SUFFICES ASSUME NoneBehind PROVE RedisSpec => OnlyOldRecovered
  OBVIOUS
<1>1. RedisTypeOK /\ Stamped /\ [RedisNext]_redisVars
        => [\A t \in Item : todo'[t] > todo[t] => ClaimOf(t) = "late"]_redisVars
  <2> SUFFICES ASSUME RedisTypeOK, Stamped, RedisNext, NEW t \in Item, todo'[t] > todo[t]
               PROVE  ClaimOf(t) = "late"
    OBVIOUS
  <2>1. CASE Hgetall
    <3>1. Stale(t)
      BY <2>1 DEF Hgetall, RedisTypeOK
    <3> QED
      BY <2>1, <3>1, StaleIsLate DEF Hgetall
  <2>2. ASSUME NEW u \in Item, RequeueNext(u) PROVE FALSE
    BY <2>2 DEF RequeueNext, RedisTypeOK
  <2>3. CASE StuckFails
    BY <2>3 DEF StuckFails, Zero, RedisTypeOK
  <2>4. ASSUME todo' = todo PROVE FALSE
    BY <2>4 DEF RedisTypeOK
  <2>5. ASSUME NEW w \in Client, Move(w) \/ Stamp(w) \/ AckByWorker(w) \/ WorkerDies(w)
        PROVE  FALSE
    BY <2>4, <2>5 DEF Move, Stamp, AckByWorker, Acknowledge, WorkerDies, stuckVars
  <2>6. ASSUME NEW u \in Item, RedisPush(u) \/ AckByWatchdog(u) PROVE FALSE
    BY <2>4, <2>6 DEF RedisPush, AckByWatchdog, Acknowledge, stuckVars
  <2>7. CASE AskTime \/ Lrange \/ TimePasses
    BY <2>4, <2>7 DEF AskTime, Lrange, TimePasses, stuckVars
  <2> QED
    BY <2>1, <2>2, <2>3, <2>5, <2>6, <2>7 DEF RedisNext, StuckStep
<1> QED
  BY <1>1, RedisTypesCorrect, StampsAreClocks, PTL DEF RedisSpec, OnlyOldRecovered

-----------------------------------------------------------------------------
(* What is lost. An item without an acknowledgement is in one of the two   *)
(* lists, whatever copies the requeues remove; it goes out of sight when a *)
(* worker dies between BLMOVE and HSET, and by nothing else.               *)
Unseen == {t \in Item : pushed[t] > 0 /\ t \notin acked /\ ~InSight(t)}
InSomeList ==
  \A t \in Item : pushed[t] > 0 /\ t \notin acked => Waiting(t) # {} \/ processing[t] > 0

LEMMA AppendedWaits ==
  ASSUME RedisTypeOK, NEW t \in Item, list' = Append(list, t)
  PROVE  /\ Waiting(t)' # {}
         /\ \A u \in Item : Waiting(u) # {} => Waiting(u)' # {}
<1>1. /\ Len(list') = Len(list) + 1 /\ Len(list) \in Nat /\ list'[Len(list) + 1] = t
      /\ \A i \in 1 .. Len(list) : list'[i] = list[i]
  BY AppendProperties DEF RedisTypeOK
<1>2. Len(list) + 1 \in Waiting(t)'
  BY <1>1 DEF Waiting
<1>3. \A u \in Item : Waiting(u) \subseteq Waiting(u)'
  BY <1>1 DEF Waiting
<1> QED
  BY <1>2, <1>3

(* The item that BLMOVE takes is moved by the worker.                      *)
LEMMA MovedItem ==
  ASSUME RedisTypeOK, NEW w \in Client, Move(w)
  PROVE  \E t \in Item :
           /\ Moving(t)' # {} /\ processing' = [processing EXCEPT ![t] = @ + 1]
           /\ \A u \in Item : Moving(u) # {} => Moving(u)' # {}
           /\ \A u \in Item \ {t} : Waiting(u) # {} => Waiting(u)' # {}
<1> DEFINE n == Len(list)
<1>1. n \in Nat \ {0} /\ list[n] \in Item
  BY ElementOfSeq DEF Move, RedisTypeOK
<1>2. /\ rpc[w] = "idle" /\ rpc' = [rpc EXCEPT ![w] = "moved"]
      /\ held' = [held EXCEPT ![w] = list[n]]
      /\ processing' = [processing EXCEPT ![list[n]] = @ + 1]
      /\ list' = SubSeq(list, 1, n - 1)
  BY DEF Move
<1>3. \A t \in Item : t = list[n] => Moving(t)' # {}
  <2>1. rpc'[w] = "moved" /\ held'[w] = list[n]
    BY <1>2 DEF RedisTypeOK
  <2>2. \A t \in Item : t = list[n] => w \in Moving(t)'
    BY <2>1 DEF Moving
  <2> QED
    BY <2>2
<1>4. \A u \in Item : Moving(u) # {} => Moving(u)' # {}
  <2>1. \A v \in Client \ {w} : rpc'[v] = rpc[v] /\ held'[v] = held[v]
    BY <1>2 DEF RedisTypeOK
  <2>2. \A u \in Item : Moving(u) \subseteq Moving(u)'
    BY <1>2, <2>1 DEF Moving
  <2> QED
    BY <2>2
<1>5. Len(list') = n - 1 /\ \A i \in 1 .. n - 1 : list'[i] = list[i]
  <2>1. \A i \in 1 .. n - 1 : list[i] \in Item
    BY ElementOfSeq, <1>1 DEF RedisTypeOK
  <2>2. n - 1 \in Int /\ 1 \in Int
    BY <1>1
  <2> HIDE DEF n
  <2>3. /\ Len(SubSeq(list, 1, n - 1)) = IF 1 <= n - 1 THEN n - 1 - 1 + 1 ELSE 0
        /\ \A i \in 1 .. n - 1 - 1 + 1 : SubSeq(list, 1, n - 1)[i] = list[1 + i - 1]
    BY ONLY <2>1, <2>2, SubSeqProperties
  <2> QED
    BY <1>1, <1>2, <2>3
<1>6. \A u \in Item \ {list[n]} : Waiting(u) # {} => Waiting(u)' # {}
  <2>1. \A u \in Item \ {list[n]} : Waiting(u) \subseteq Waiting(u)'
    BY <1>1, <1>5 DEF Waiting
  <2> QED
    BY <2>1
<1> HIDE DEF n
<1> QED
  BY <1>1, <1>2, <1>3, <1>4, <1>6

LEMMA InitiallyInSight == RedisInit => InSomeList /\ NothingLost
<1> SUFFICES ASSUME RedisInit PROVE InSomeList /\ NothingLost
  OBVIOUS
<1>1. Unseen = {} /\ InSomeList
  BY DEF RedisInit, Zero, Unseen, InSomeList
<1>2. Cardinality(Unseen) = 0 /\ lost = 0
  BY <1>1, FS_EmptySet DEF RedisInit
<1>3. NothingLost
  BY <1>2 DEF NothingLost, Unseen
<1> QED
  BY <1>1, <1>3

LEMMA ListsKept ==
  ASSUME RedisTypeOK, InSomeList, [RedisNext]_redisVars
  PROVE  InSomeList'
<1> USE DEF RedisTypeOK
<1>1. ASSUME NEW t \in Item, RedisPush(t) \/ RequeueNext(t) PROVE InSomeList'
  <2>1. /\ Waiting(t)' # {} /\ \A u \in Item : Waiting(u) # {} => Waiting(u)' # {}
    BY <1>1, AppendedWaits DEF RedisPush, RequeueNext
  <2>2. acked' = acked /\ \A u \in Item \ {t} : pushed'[u] = pushed[u] /\ processing'[u] = processing[u]
    BY <1>1 DEF RedisPush, RequeueNext, Removed, countVars
  <2> QED
    BY <2>1, <2>2 DEF InSomeList
<1>2. ASSUME NEW w \in Client, Move(w) PROVE InSomeList'
  <2>1. PICK t \in Item :
          /\ processing' = [processing EXCEPT ![t] = @ + 1]
          /\ \A u \in Item \ {t} : Waiting(u) # {} => Waiting(u)' # {}
    BY <1>2, MovedItem
  <2>2. UNCHANGED <<pushed, acked>>
    BY <1>2 DEF Move, countVars
  <2>3. processing'[t] > 0 /\ \A u \in Item \ {t} : processing'[u] = processing[u]
    BY <2>1
  <2> QED
    BY <2>1, <2>2, <2>3 DEF InSomeList
<1>3. ASSUME NEW t \in Item, Acknowledge(t) PROVE InSomeList'
  BY <1>3 DEF InSomeList, Acknowledge, Removed, Waiting
<1>4. ASSUME NEW w \in Client, Stamp(w) \/ WorkerDies(w) PROVE InSomeList'
  <2>1. UNCHANGED <<list, processing, pushed, acked>>
    BY <1>4 DEF Stamp, WorkerDies, countVars
  <2> QED
    BY <2>1 DEF InSomeList, Waiting
<1>5. CASE AskTime \/ Lrange \/ Hgetall \/ StuckFails \/ TimePasses \/ UNCHANGED redisVars
  BY <1>5 DEF InSomeList, AskTime, Lrange, Hgetall, StuckFails, TimePasses, redisVars, Waiting,
     countVars
<1>6. ASSUME NEW w \in Client, AckByWorker(w) PROVE InSomeList'
  BY <1>3, <1>6 DEF AckByWorker
<1> QED
  BY <1>1, <1>2, <1>3, <1>4, <1>5, <1>6 DEF RedisNext, StuckStep, AckByWatchdog

(* No step but the death of a worker that moves an item loses one.         *)
LEMMA SightKept ==
  ASSUME RedisTypeOK, InSomeList, [RedisNext]_redisVars,
         ~\E w \in Client : WorkerDies(w) /\ rpc[w] = "moved"
  PROVE  Unseen' \subseteq Unseen /\ lost' = lost
<1> USE DEF RedisTypeOK
<1>1. ASSUME NEW t \in Item, RedisPush(t) \/ RequeueNext(t)
      PROVE  Unseen' \subseteq Unseen /\ lost' = lost
  <2>1. /\ Waiting(t)' # {} /\ \A u \in Item : Waiting(u) # {} => Waiting(u)' # {}
    BY <1>1, AppendedWaits DEF RedisPush, RequeueNext
  <2>2. /\ acked' = acked /\ UNCHANGED <<clientVars, lost>>
        /\ \A u \in Item \ {t} : pushed'[u] = pushed[u] /\ processing'[u] = processing[u]
                                 /\ ts'[u] = ts[u]
    BY <1>1 DEF RedisPush, RequeueNext, Removed, HdelStamp, countVars
  <2>3. \A u \in Item : Moving(u)' = Moving(u)
    BY <2>2 DEF Moving, clientVars
  <2>4. \A u \in Item : InSight(u) => InSight(u)'
    BY <2>1, <2>2, <2>3 DEF InSight
  <2>5. InSight(t)'
    BY <2>1 DEF InSight
  <2> QED
    BY <2>2, <2>4, <2>5 DEF Unseen
<1>2. ASSUME NEW w \in Client, Move(w)
      PROVE  Unseen' \subseteq Unseen /\ lost' = lost
  <2>1. PICK t \in Item :
          /\ Moving(t)' # {} /\ processing' = [processing EXCEPT ![t] = @ + 1]
          /\ \A u \in Item : Moving(u) # {} => Moving(u)' # {}
          /\ \A u \in Item \ {t} : Waiting(u) # {} => Waiting(u)' # {}
    BY <1>2, MovedItem
  <2>2. UNCHANGED <<ts, lost, pushed, acked>>
    BY <1>2 DEF Move, countVars
  <2>3. \A u \in Item : InSight(u) => InSight(u)'
    BY <2>1, <2>2 DEF InSight
  <2> QED
    BY <2>2, <2>3 DEF Unseen
<1>3. ASSUME NEW w \in Client, Stamp(w)
      PROVE  Unseen' \subseteq Unseen /\ lost' = lost
  <2> DEFINE t == held[w]
  <2>1. /\ t \in Item /\ ts' = [ts EXCEPT ![t] = clock + Offset[HostOf[w]]]
        /\ clock + Offset[HostOf[w]] \in Int
    <3>1. t \in Item
      BY <1>3, ClientsAssumption DEF Stamp
    <3>2. ts' = [ts EXCEPT ![t] = clock + Offset[HostOf[w]]]
      BY <1>3 DEF Stamp
    <3>3. clock + Offset[HostOf[w]] \in Int
      BY HostAssumption
    <3> QED
      BY <3>1, <3>2, <3>3
  <2>2. ts'[t] # NoStamp /\ \A u \in Item \ {t} : ts'[u] = ts[u]
    BY <2>1, ClientsAssumption
  <2>3. \A u \in Item : Waiting(u)' = Waiting(u)
    BY <1>3 DEF Stamp, Waiting
  <2>4. \A u \in Item \ {t} : Moving(u)' = Moving(u)
    BY <1>3 DEF Stamp, Moving
  <2>5. UNCHANGED <<processing, lost, pushed, acked>>
    BY <1>3 DEF Stamp, countVars
  <2> HIDE DEF t
  <2> QED
    BY <2>1, <2>2, <2>3, <2>4, <2>5 DEF Unseen, InSight, InSomeList
<1>4. ASSUME NEW t \in Item, Acknowledge(t),
             \A u \in Item \ {t} : Moving(u)' = Moving(u)
      PROVE  Unseen' \subseteq Unseen /\ lost' = lost
  <2>1. /\ acked' = acked \cup {t} /\ pushed' = pushed /\ lost' = lost
        /\ \A u \in Item \ {t} : processing'[u] = processing[u] /\ ts'[u] = ts[u]
    BY <1>4 DEF Acknowledge, Removed, HdelStamp
  <2>2. \A u \in Item : Waiting(u)' = Waiting(u)
    BY <1>4 DEF Acknowledge, Waiting
  <2> QED
    BY <1>4, <2>1, <2>2 DEF Unseen, InSight
<1>5. ASSUME NEW w \in Client, AckByWorker(w)
      PROVE  Unseen' \subseteq Unseen /\ lost' = lost
  <2>1. held[w] \in Item /\ Acknowledge(held[w])
    BY <1>5 DEF AckByWorker
  <2>2. \A u \in Item : Moving(u)' = Moving(u)
    BY <1>5 DEF AckByWorker, Moving
  <2> QED
    BY <1>4, <2>1, <2>2
<1>6. ASSUME NEW t \in Item, AckByWatchdog(t)
      PROVE  Unseen' \subseteq Unseen /\ lost' = lost
  <2>1. \A u \in Item : Moving(u)' = Moving(u)
    BY <1>6 DEF AckByWatchdog, Moving, clientVars
  <2> QED
    BY <1>4, <1>6, <2>1 DEF AckByWatchdog
<1>7. ASSUME NEW w \in Client, WorkerDies(w), rpc[w] # "moved"
      PROVE  Unseen' \subseteq Unseen /\ lost' = lost
  <2>1. \A u \in Item : Waiting(u)' = Waiting(u) /\ Moving(u)' = Moving(u)
    BY <1>7 DEF WorkerDies, Waiting, Moving
  <2> QED
    BY <1>7, <2>1 DEF WorkerDies, Unseen, InSight
<1>8. CASE AskTime \/ Lrange \/ Hgetall \/ StuckFails \/ TimePasses \/ UNCHANGED redisVars
  <2>1. UNCHANGED <<list, processing, ts, rpc, held, lost, pushed, acked>>
    BY <1>8 DEF AskTime, Lrange, Hgetall, StuckFails, TimePasses, redisVars, clientVars, countVars
  <2> QED
    BY <2>1 DEF Unseen, InSight, Waiting, Moving
<1> QED
  BY <1>1, <1>2, <1>3, <1>5, <1>6, <1>7, <1>8 DEF RedisNext, StuckStep

(* Delivery at least once: the items that were pushed, never acknowledged  *)
(* and are out of sight are no more than the workers that died between     *)
(* BLMOVE and HSET (redisq.py, pop), whatever the clocks show.             *)
THEOREM NothingElseLost == RedisSpec => []NothingLost
<1> DEFINE Inv == InSomeList /\ NothingLost
<1>1. RedisInit => Inv
  BY InitiallyInSight
<1>2. RedisTypeOK /\ Inv /\ [RedisNext]_redisVars => Inv'
  <2> SUFFICES ASSUME RedisTypeOK, InSomeList, NothingLost, [RedisNext]_redisVars
               PROVE  Inv'
    OBVIOUS
  <2>1. /\ IsFiniteSet(Unseen) /\ Cardinality(Unseen) \in Nat
        /\ Cardinality(Unseen) <= lost /\ lost \in Nat
    BY ClientsAssumption, FS_Subset, FS_CardinalityType DEF Unseen, NothingLost, RedisTypeOK
  <2>2. CASE \E w \in Client : WorkerDies(w) /\ rpc[w] = "moved"
    <3>1. PICK w \in Client : WorkerDies(w) /\ rpc[w] = "moved"
      BY <2>2
    <3>2. lost' = lost + 1
      BY <3>1 DEF WorkerDies
    <3>3. \A u \in Item \ {held[w]} : Moving(u)' = Moving(u) /\ Waiting(u)' = Waiting(u)
      BY <3>1 DEF WorkerDies, Moving, Waiting, RedisTypeOK
    <3>4. Unseen' \subseteq Unseen \cup {held[w]}
      BY <3>1, <3>3 DEF WorkerDies, Unseen, InSight
    <3>5. /\ IsFiniteSet(Unseen \cup {held[w]})
          /\ Cardinality(Unseen \cup {held[w]}) <= Cardinality(Unseen) + 1
      <4>1. /\ IsFiniteSet(Unseen \cup {held[w]})
            /\ Cardinality(Unseen \cup {held[w]})
                 = IF held[w] \in Unseen THEN Cardinality(Unseen) ELSE Cardinality(Unseen) + 1
        BY <2>1, FS_AddElement
      <4> QED
        BY <2>1, <4>1
    <3>6. Cardinality(Unseen') <= Cardinality(Unseen \cup {held[w]})
      BY <3>4, <3>5, FS_Subset
    <3>7. Cardinality(Unseen') \in Nat /\ Cardinality(Unseen \cup {held[w]}) \in Nat
      BY <3>4, <3>5, FS_Subset, FS_CardinalityType
    <3>8. Cardinality(Unseen') <= lost'
      BY <2>1, <3>2, <3>5, <3>6, <3>7
    <3> QED
      BY <3>8, ListsKept DEF NothingLost, Unseen
  <2>3. CASE ~\E w \in Client : WorkerDies(w) /\ rpc[w] = "moved"
    <3>1. Unseen' \subseteq Unseen /\ lost' = lost
      BY <2>3, SightKept
    <3>2. Cardinality(Unseen') <= Cardinality(Unseen) /\ Cardinality(Unseen') \in Nat
      BY <2>1, <3>1, FS_Subset, FS_CardinalityType
    <3>3. Cardinality(Unseen') <= lost'
      BY <2>1, <3>1, <3>2
    <3> QED
      BY <3>3, ListsKept DEF NothingLost, Unseen
  <2> QED
    BY <2>2, <2>3
<1> QED
  BY <1>1, <1>2, RedisTypesCorrect, PTL DEF RedisSpec

-----------------------------------------------------------------------------
(* The queue of development. What stuck() puts back has each of the old    *)
(* claims once.                                                            *)
LEMMA OldClaimsBack ==
  ASSUME MemoryTypeOK, NEW back \in SetToSeqs(OldClaims), fifo' = fifo \o back
  PROVE  /\ fifo' \in Seq(Item)
         /\ Len(fifo') = Len(fifo) + Cardinality(OldClaims)
         /\ Cardinality(OldClaims) \in Nat
         /\ \A i \in 1 .. Len(fifo) : fifo'[i] = fifo[i]
         /\ \A i \in 1 .. Cardinality(OldClaims) :
              fifo'[Len(fifo) + i] = back[i] /\ back[i] \in OldClaims
         /\ \A t \in OldClaims : \E i \in 1 .. Cardinality(OldClaims) : back[i] = t
         /\ \A i, j \in 1 .. Cardinality(OldClaims) : back[i] = back[j] => i = j
<1> DEFINE n == Cardinality(OldClaims)
<1>1. OldClaims \subseteq Item /\ IsFiniteSet(OldClaims) /\ n \in Nat
  BY ClientsAssumption, FS_Subset, FS_CardinalityType DEF OldClaims
<1>2. back \in [1 .. n -> OldClaims] /\ \A i, j \in 1 .. n : i # j => back[i] # back[j]
  BY DEF SetToSeqs
<1>3. IsFiniteSet(1 .. n) /\ Cardinality(1 .. n) = n
  <2>1. 1 \in Int /\ n \in Int
    BY <1>1
  <2> HIDE DEF n
  <2>2. IsFiniteSet(1 .. n) /\ Cardinality(1 .. n) = IF 1 > n THEN 0 ELSE n - 1 + 1
    BY <2>1, FS_Interval
  <2> QED
    BY <1>1, <2>2
<1>4. \A t \in OldClaims : \E i \in 1 .. n : back[i] = t
  <2>1. back \in Injection(1 .. n, OldClaims)
    BY <1>2 DEF Injection, IsInjective
  <2>2. back \in Surjection(1 .. n, OldClaims)
    BY <1>1, <1>3, <2>1, FS_Injection
  <2> QED
    BY <2>2 DEF Surjection
<1> HIDE DEF n
<1>5. back \in Seq(Item) /\ Len(back) = n
  BY <1>1, <1>2
<1>6. /\ fifo' \in Seq(Item) /\ Len(fifo') = Len(fifo) + n
      /\ \A i \in 1 .. Len(fifo) + n :
           fifo'[i] = IF i <= Len(fifo) THEN fifo[i] ELSE back[i - Len(fifo)]
  BY <1>5, ConcatProperties, ZenonT(60) DEF MemoryTypeOK
<1>7. Len(fifo) \in Nat
  BY DEF MemoryTypeOK
<1>8. \A i \in 1 .. n : Len(fifo) + i \in 1 .. Len(fifo) + n /\ ~(Len(fifo) + i <= Len(fifo))
                        /\ Len(fifo) + i - Len(fifo) = i
  BY <1>1, <1>7
<1>9. /\ \A i \in 1 .. Len(fifo) : fifo'[i] = fifo[i]
      /\ \A i \in 1 .. n : fifo'[Len(fifo) + i] = back[i]
  BY <1>1, <1>6, <1>7, <1>8
<1> QED
  BY <1>1, <1>2, <1>4, <1>6, <1>9 DEF n

LEMMA MemoryTypesKept ==
  ASSUME MemoryTypeOK, [MemoryNext]_memoryVars
  PROVE  MemoryTypeOK'
<1> USE ClientsAssumption DEF MemoryTypeOK
<1>1. ASSUME NEW t \in Item, MemPush(t) PROVE MemoryTypeOK'
  BY <1>1, AppendProperties DEF MemPush
<1>2. ASSUME NEW w \in Client, Get(w) PROVE MemoryTypeOK'
  <2>1. Head(fifo) \in Item /\ Tail(fifo) \in Seq(Item)
    BY <1>2, HeadTailProperties DEF Get
  <2> QED
    BY <1>2, <2>1 DEF Get
<1>3. ASSUME NEW w \in Client, MemStamp(w) PROVE MemoryTypeOK'
  <2>1. mheld[w] \in Item
    BY <1>3 DEF MemStamp
  <2> QED
    BY <1>3, <2>1 DEF MemStamp
<1>4. ASSUME NEW w \in Client, MemAckByWorker(w) PROVE MemoryTypeOK'
  <2>1. mheld[w] \in Item
    BY <1>4 DEF MemAckByWorker
  <2> QED
    BY <1>4, <2>1 DEF MemAckByWorker, MemAcknowledge
<1>5. ASSUME NEW t \in Item, MemAckByWatchdog(t) PROVE MemoryTypeOK'
  BY <1>5 DEF MemAckByWatchdog, MemAcknowledge
<1>6. CASE MemStuck
  BY <1>6, OldClaimsBack DEF MemStuck
<1>7. CASE MemTimePasses \/ UNCHANGED memoryVars
  BY <1>7 DEF MemTimePasses, memoryVars
<1>8. CASE Close \/ ProcessEnds
  <2>1. /\ mpc' = [w \in Client |-> "idle"] /\ mheld' = [w \in Client |-> NoItem]
        /\ fifo' \in {fifo, <<>>} /\ claimed' \in {claimed, [t \in Item |-> NoStamp]}
    BY <1>8 DEF Close, ProcessEnds
  <2>2. /\ mpc' \in [Client -> {"idle", "got", "working"}]
        /\ mheld' \in [Client -> Item \cup {NoItem}]
        /\ \A w \in Client : mheld'[w] = NoItem <=> mpc'[w] = "idle"
    BY <2>1
  <2>3. fifo' \in Seq(Item)
    <3>1. fifo' = fifo \/ fifo' = <<>>
      BY <2>1
    <3>2. fifo \in Seq(Item) /\ <<>> \in Seq(Item)
      OBVIOUS
    <3> QED
      BY <3>1, <3>2, Zenon
  <2>4. claimed' \in [Item -> Nat \cup {NoStamp}]
    BY <2>1
  <2>5. now' \in Nat /\ macked' \subseteq Item /\ ends' \in Nat
    BY <1>8 DEF Close, ProcessEnds
  <2>6. closed' \in BOOLEAN
    BY <1>8, Zenon DEF Close, ProcessEnds
  <2>7. mpushed' \in [Item -> Nat]
    BY <1>8 DEF Close, ProcessEnds
  <2> QED
    BY <2>2, <2>3, <2>4, <2>5, <2>6, <2>7
<1> QED
  BY <1>8, <1>1, <1>2, <1>3, <1>4, <1>5, <1>6, <1>7 DEF MemoryNext

LEMMA MemoryTypesCorrect == MemorySpec => []MemoryTypeOK
<1>1. MemoryInit => MemoryTypeOK
  <2> SUFFICES ASSUME MemoryInit PROVE MemoryTypeOK
    OBVIOUS
  <2>1. mheld = [w \in Client |-> NoItem] /\ mpc = [w \in Client |-> "idle"]
    BY DEF MemoryInit
  <2>2. /\ mpc \in [Client -> {"idle", "got", "working"}]
        /\ mheld \in [Client -> Item \cup {NoItem}]
        /\ \A w \in Client : mheld[w] = NoItem <=> mpc[w] = "idle"
    BY <2>1
  <2>3. closed \in BOOLEAN
    BY Zenon DEF MemoryInit
  <2>4. fifo \in Seq(Item)
    BY DEF MemoryInit
  <2>5. claimed \in [Item -> Nat \cup {NoStamp}]
    BY DEF MemoryInit
  <2>6. now \in Nat /\ mpushed \in [Item -> Nat] /\ macked \subseteq Item /\ ends \in Nat
    BY DEF MemoryInit
  <2> QED
    BY <2>2, <2>3, <2>4, <2>5, <2>6 DEF MemoryTypeOK
<1>2. MemoryTypeOK /\ [MemoryNext]_memoryVars => MemoryTypeOK'
  BY MemoryTypesKept
<1> QED
  BY <1>1, <1>2, PTL DEF MemorySpec

(* The queue that get_queue did not build stays as it is.                  *)
LEMMA OneOfTheQueues == QueuesSpec => RedisSpec /\ MemorySpec
<1>1. QueuesInit => RedisInit /\ MemoryInit
  BY DEF QueuesInit
<1>2. [QueuesNext]_queuesVars => [RedisNext]_redisVars /\ [MemoryNext]_memoryVars
  BY DEF QueuesNext, queuesVars, OnRedis, InProcess
<1> QED
  BY <1>1, <1>2, PTL DEF QueuesSpec, RedisSpec, MemorySpec

(* The type invariant of whichever queue a deployment has.                 *)
THEOREM QueuesTypesCorrect == QueuesSpec => []QueuesTypeOK
<1>1. RedisTypeOK /\ MemoryTypeOK => QueuesTypeOK
  BY DEF QueuesTypeOK
<1> QED
  BY <1>1, OneOfTheQueues, RedisTypesCorrect, MemoryTypesCorrect, PTL

-----------------------------------------------------------------------------
(* Each step leaves the items where stuck() or a pop finds them.           *)
LEMMA KeptByStep ==
  ASSUME MemoryTypeOK, MemoryKeeps, [MemoryNext]_memoryVars
  PROVE  MemoryKeeps'
<1> USE DEF MemoryTypeOK
<1>1. ASSUME NEW t \in Item, MemPush(t) PROVE MemoryKeeps'
  <2>1. /\ Len(fifo') = Len(fifo) + 1 /\ Len(fifo) \in Nat /\ fifo'[Len(fifo) + 1] = t
        /\ fifo' \in Seq(Item) /\ \A i \in 1 .. Len(fifo) : fifo'[i] = fifo[i]
    BY <1>1, AppendProperties DEF MemPush
  <2>2. \A u \in Item : Queued(u) \subseteq Queued(u)'
    <3>1. DOMAIN fifo = 1 .. Len(fifo) /\ DOMAIN fifo' = 1 .. Len(fifo')
      BY <2>1
    <3> QED
      BY <2>1, <3>1 DEF Queued
  <2>3. Queued(t)' # {}
    <3>1. Len(fifo) + 1 \in DOMAIN fifo'
      BY <2>1
    <3> QED
      BY <2>1, <3>1 DEF Queued
  <2>4. \A u \in Item : Holding(u, "got")' = Holding(u, "got")
    BY <1>1 DEF MemPush, Holding
  <2> QED
    BY <1>1, <2>2, <2>3, <2>4 DEF MemPush, MemoryKeeps
<1>2. ASSUME NEW w \in Client, Get(w) PROVE MemoryKeeps'
  <2>1. /\ Head(fifo) = fifo[1] /\ Len(fifo) \in Nat \ {0}
        /\ Tail(fifo) \in Seq(Item) /\ Len(Tail(fifo)) = Len(fifo) - 1
        /\ \A i \in 1 .. Len(fifo) - 1 : Tail(fifo)[i] = fifo[i + 1]
    BY <1>2, HeadTailProperties DEF Get
  <2>2. \A u \in Item : Holding(u, "got") \subseteq Holding(u, "got")'
    BY <1>2 DEF Get, Holding
  <2>3. \A u \in Item : u = fifo[1] => w \in Holding(u, "got")'
    BY <1>2, <2>1 DEF Get, Holding
  <2>4. \A u \in Item : \A i \in Queued(u) : i = 1 \/ i - 1 \in Queued(u)'
    BY <1>2, <2>1 DEF Get, Queued
  <2>5. \A u \in Item : Queued(u) # {} => Queued(u)' # {} \/ u = fifo[1]
    BY <2>4 DEF Queued
  <2> QED
    BY <1>2, <2>2, <2>3, <2>5 DEF Get, MemoryKeeps
<1>3. ASSUME NEW w \in Client, MemStamp(w) PROVE MemoryKeeps'
  <2>1. mheld[w] \in Item /\ claimed'[mheld[w]] # NoStamp
    BY <1>3, ClientsAssumption DEF MemStamp
  <2>2. \A u \in Item : Queued(u)' = Queued(u)
    BY <1>3 DEF MemStamp, Queued
  <2>3. \A u \in Item \ {mheld[w]} : /\ Holding(u, "got") \subseteq Holding(u, "got")'
                                     /\ claimed'[u] = claimed[u]
    BY <1>3 DEF MemStamp, Holding
  <2> QED
    BY <1>3, <2>1, <2>2, <2>3 DEF MemStamp, MemoryKeeps
<1>4. ASSUME NEW t \in Item, MemAcknowledge(t),
             \A u \in Item : Holding(u, "got") \subseteq Holding(u, "got")'
      PROVE  MemoryKeeps'
  BY <1>4 DEF MemAcknowledge, MemoryKeeps, Queued
<1>5. ASSUME NEW w \in Client, MemAckByWorker(w) PROVE MemoryKeeps'
  <2>1. mheld[w] \in Item /\ MemAcknowledge(mheld[w])
    BY <1>5 DEF MemAckByWorker
  <2>2. \A u \in Item : Holding(u, "got") \subseteq Holding(u, "got")'
    BY <1>5 DEF MemAckByWorker, Holding
  <2> QED
    BY <1>4, <2>1, <2>2
<1>6. ASSUME NEW t \in Item, MemAckByWatchdog(t) PROVE MemoryKeeps'
  <2>1. \A u \in Item : Holding(u, "got") \subseteq Holding(u, "got")'
    BY <1>6 DEF MemAckByWatchdog, Holding
  <2> QED
    BY <1>4, <1>6, <2>1 DEF MemAckByWatchdog
<1>7. CASE MemStuck
  <2>1. PICK back \in SetToSeqs(OldClaims) : fifo' = fifo \o back
    BY <1>7 DEF MemStuck
  <2>2. /\ fifo' \in Seq(Item) /\ Len(fifo') = Len(fifo) + Cardinality(OldClaims)
        /\ Cardinality(OldClaims) \in Nat /\ Len(fifo) \in Nat
        /\ \A i \in 1 .. Len(fifo) : fifo'[i] = fifo[i]
        /\ \A i \in 1 .. Cardinality(OldClaims) : fifo'[Len(fifo) + i] = back[i]
        /\ \A t \in OldClaims : \E i \in 1 .. Cardinality(OldClaims) : back[i] = t
    BY <2>1, OldClaimsBack
  <2>3. \A u \in Item : Queued(u) \subseteq Queued(u)'
    BY <2>2 DEF Queued
  <2>4. ASSUME NEW u \in OldClaims PROVE Queued(u)' # {}
    <3>1. PICK i \in 1 .. Cardinality(OldClaims) : back[i] = u
      BY <2>2
    <3>2. Len(fifo) + i \in DOMAIN fifo' /\ fifo'[Len(fifo) + i] = u
      BY <2>2, <3>1
    <3> QED
      BY <3>2 DEF Queued
  <2>5. \A u \in Item : Holding(u, "got")' = Holding(u, "got")
    BY <1>7 DEF MemStuck, Holding
  <2> QED
    BY <1>7, <2>3, <2>4, <2>5 DEF MemStuck, MemoryKeeps
<1>8. CASE ProcessEnds
  BY <1>8 DEF ProcessEnds, MemoryKeeps
<1>9. CASE Close
  <2>1. \A u \in Item : Holding(u, "got") = {}
    BY <1>9 DEF Close, Holding
  <2> QED
    BY <1>9, <2>1 DEF Close, MemoryKeeps, Queued
<1>10. CASE MemTimePasses \/ UNCHANGED memoryVars
  BY <1>10 DEF MemTimePasses, memoryVars, MemoryKeeps, Queued, Holding
<1> QED
  BY <1>1, <1>2, <1>3, <1>5, <1>6, <1>7, <1>8, <1>9, <1>10 DEF MemoryNext

(* In memory nothing is lost while the process lives (memory.py): an item  *)
(* that was pushed and not acknowledged waits, is being popped or is       *)
(* claimed.                                                                *)
THEOREM MemoryLosesNothing == MemorySpec => []MemoryKeeps
<1>1. MemoryInit => MemoryKeeps
  BY DEF MemoryInit, MemoryKeeps
<1>2. MemoryTypeOK /\ MemoryKeeps /\ [MemoryNext]_memoryVars => MemoryKeeps'
  BY KeptByStep
<1> QED
  BY <1>1, <1>2, MemoryTypesCorrect, PTL DEF MemorySpec

-----------------------------------------------------------------------------
(* The queue of development implements TaskQueue too.                      *)
MemoryReady == [t \in Item |-> Cardinality(Queued(t)) + Cardinality(Holding(t, "got"))]
MemoryClaim(t) == IF claimed[t] = NoStamp THEN "none"
                  ELSE IF now - claimed[t] > Older THEN "late" ELSE "fresh"
MemoryClaims == [t \in Item |-> MemoryClaim(t)]
MemoryStep ==
  [AbstractMemory!Next]_<<MemoryReady, MemoryClaims, [t \in Item |-> 0], 0>>

LEMMA MemoryCountsFinite ==
  ASSUME MemoryTypeOK, NEW t
  PROVE  /\ IsFiniteSet(Queued(t)) /\ Cardinality(Queued(t)) \in Nat
         /\ IsFiniteSet(Holding(t, "got")) /\ Cardinality(Holding(t, "got")) \in Nat
<1>1. DOMAIN fifo = 1 .. Len(fifo) /\ Len(fifo) \in Nat
  BY DEF MemoryTypeOK
<1>2. IsFiniteSet(1 .. Len(fifo)) /\ Queued(t) \subseteq 1 .. Len(fifo)
  BY <1>1, FS_Interval DEF Queued
<1>3. Holding(t, "got") \subseteq Client
  BY DEF Holding
<1> QED
  BY <1>2, <1>3, FS_Subset, FS_CardinalityType, ClientsAssumption

(* The places of an item in a longer queue.                                *)
LEMMA QueuedAppended ==
  ASSUME MemoryTypeOK, fifo' \in Seq(Item), NEW t \in Item,
         Len(fifo') = Len(fifo) + 1, fifo'[Len(fifo) + 1] = t,
         \A i \in 1 .. Len(fifo) : fifo'[i] = fifo[i]
  PROVE  \A u \in Item : Cardinality(Queued(u)') =
                           IF u = t THEN Cardinality(Queued(u)) + 1 ELSE Cardinality(Queued(u))
<1>1. /\ DOMAIN fifo = 1 .. Len(fifo) /\ Len(fifo) \in Nat
      /\ DOMAIN fifo' = 1 .. Len(fifo) + 1
  BY DEF MemoryTypeOK
<1>2. \A u \in Item : Queued(u)' = IF u = t THEN Queued(u) \cup {Len(fifo) + 1} ELSE Queued(u)
  BY <1>1 DEF Queued
<1>3. Len(fifo) + 1 \notin Queued(t)
  BY <1>1 DEF Queued
<1> QED
  BY <1>2, <1>3, MemoryCountsFinite, FS_AddElement

(* The first item goes to the worker: the places of the others move up by  *)
(* one.                                                                    *)
LEMMA ReadyGot ==
  ASSUME MemoryTypeOK, NEW w \in Client, Get(w)
  PROVE  MemoryReady' = MemoryReady
<1>1. /\ Head(fifo) = fifo[1] /\ Len(fifo) \in Nat \ {0} /\ fifo[1] \in Item
      /\ fifo' \in Seq(Item) /\ Len(fifo') = Len(fifo) - 1
      /\ \A i \in 1 .. Len(fifo) - 1 : fifo'[i] = fifo[i + 1]
  BY HeadTailProperties DEF Get, MemoryTypeOK
<1>2. /\ DOMAIN fifo = 1 .. Len(fifo) /\ DOMAIN fifo' = 1 .. Len(fifo) - 1
  BY <1>1 DEF MemoryTypeOK
<1> DEFINE h == fifo[1]
<1>3. ASSUME NEW u \in Item
      PROVE  Cardinality(Queued(u)') =
               IF u = h THEN Cardinality(Queued(u)) - 1 ELSE Cardinality(Queued(u))
  <2> DEFINE rest == Queued(u) \ {1}  up == [i \in rest |-> i - 1]
  <2>1. /\ IsFiniteSet(rest)
        /\ Cardinality(rest) = IF 1 \in Queued(u) THEN Cardinality(Queued(u)) - 1
                                                 ELSE Cardinality(Queued(u))
    BY MemoryCountsFinite, FS_RemoveElement
  <2>2. 1 \in Queued(u) <=> u = h
    BY <1>1, <1>2 DEF Queued
  <2>3. up \in Bijection(rest, Queued(u)')
    <3>1. up \in [rest -> Queued(u)']
      BY <1>1, <1>2 DEF Queued
    <3>2. \A i, j \in rest : up[i] = up[j] => i = j
      BY <1>1, <1>2 DEF Queued
    <3>3. \A k \in Queued(u)' : k + 1 \in rest /\ up[k + 1] = k
      BY <1>1, <1>2 DEF Queued
    <3> HIDE DEF up, rest
    <3> QED
      BY <3>1, <3>2, <3>3 DEF Bijection, Injection, Surjection, IsInjective
  <2> HIDE DEF up, rest
  <2>4. Cardinality(Queued(u)') = Cardinality(rest)
    BY <2>1, <2>3, FS_Bijection DEF ExistsBijection
  <2> QED
    BY <2>1, <2>2, <2>4
<1>4. mpc[w] = "idle" /\ mpc' = [mpc EXCEPT ![w] = "got"] /\ mheld' = [mheld EXCEPT ![w] = h]
  BY <1>1 DEF Get
<1>5. \A u \in Item : Holding(u, "got")' =
                       IF u = h THEN Holding(u, "got") \cup {w} ELSE Holding(u, "got")
  BY <1>4 DEF Holding, MemoryTypeOK
<1>6. w \notin Holding(h, "got")
  BY <1>4 DEF Holding
<1>7. 1 \in Queued(h)
  BY <1>1, <1>2 DEF Queued
<1> HIDE DEF h
<1>8. \A u \in Item : Cardinality(Holding(u, "got")') =
                       IF u = h THEN Cardinality(Holding(u, "got")) + 1
                                ELSE Cardinality(Holding(u, "got"))
  BY <1>5, <1>6, MemoryCountsFinite, FS_AddElement
<1>9. \A u \in Item : Cardinality(Queued(u)') + Cardinality(Holding(u, "got")')
                       = Cardinality(Queued(u)) + Cardinality(Holding(u, "got"))
  BY <1>3, <1>8, MemoryCountsFinite
<1> QED
  BY <1>9 DEF MemoryReady

LEMMA MemoryReadyTaken ==
  ASSUME MemoryTypeOK, NEW w \in Client, MemStamp(w)
  PROVE  /\ mheld[w] \in Item /\ MemoryReady[mheld[w]] > 0
         /\ MemoryReady' = [MemoryReady EXCEPT ![mheld[w]] = @ - 1]
<1> DEFINE t == mheld[w]
<1>1. t \in Item /\ w \in Holding(t, "got")
  BY DEF MemStamp, MemoryTypeOK, Holding
<1>2. \A u \in Item : Holding(u, "got")' =
                       IF u = t THEN Holding(u, "got") \ {w} ELSE Holding(u, "got")
  BY DEF MemStamp, MemoryTypeOK, Holding
<1>3. \A u \in Item : Queued(u)' = Queued(u)
  BY DEF MemStamp, Queued
<1> HIDE DEF t
<1>4. \A u \in Item : Cardinality(Holding(u, "got")') =
                       IF u = t THEN Cardinality(Holding(u, "got")) - 1
                                ELSE Cardinality(Holding(u, "got"))
  BY <1>1, <1>2, MemoryCountsFinite, FS_RemoveElement
<1>5. Cardinality(Holding(t, "got")) > 0
  BY <1>1, MemoryCountsFinite, FS_EmptySet
<1>6. /\ MemoryReady[t] > 0
      /\ MemoryReady' = [u \in Item |-> IF u = t THEN MemoryReady[u] - 1 ELSE MemoryReady[u]]
  BY <1>1, <1>3, <1>4, <1>5, MemoryCountsFinite DEF MemoryReady
<1> QED
  BY <1>1, <1>6 DEF MemoryReady, t

LEMMA MemoryReadyKept ==
  ASSUME UNCHANGED fifo,
         \A v \in Client : \/ mpc'[v] = mpc[v] /\ mheld'[v] = mheld[v]
                           \/ mpc[v] # "got" /\ mpc'[v] # "got"
  PROVE  MemoryReady' = MemoryReady
<1>1. \A u \in Item : Queued(u)' = Queued(u) /\ Holding(u, "got")' = Holding(u, "got")
  BY DEF Queued, Holding
<1> QED
  BY <1>1 DEF MemoryReady

(* stuck() makes each item with an old claim ready once more.              *)
LEMMA OldClaimsReady ==
  ASSUME MemoryTypeOK, MemStuck
  PROVE  MemoryReady' = [t \in Item |-> IF t \in OldClaims THEN MemoryReady[t] + 1
                                                           ELSE MemoryReady[t]]
<1>1. PICK back \in SetToSeqs(OldClaims) : fifo' = fifo \o back
  BY DEF MemStuck
<1> DEFINE n == Cardinality(OldClaims)  m == Len(fifo)
<1>2. /\ fifo' \in Seq(Item) /\ Len(fifo') = m + n /\ n \in Nat /\ m \in Nat
      /\ \A i \in 1 .. m : fifo'[i] = fifo[i]
      /\ \A i \in 1 .. n : fifo'[m + i] = back[i] /\ back[i] \in OldClaims
      /\ \A t \in OldClaims : \E i \in 1 .. n : back[i] = t
      /\ \A i, j \in 1 .. n : back[i] = back[j] => i = j
  <2>1. Len(fifo) \in Nat
    BY DEF MemoryTypeOK
  <2> QED
    BY <1>1, <2>1, OldClaimsBack
<1>3. DOMAIN fifo = 1 .. m /\ DOMAIN fifo' = 1 .. m + n
  BY <1>2 DEF MemoryTypeOK
<1> HIDE DEF n, m
<1>4. ASSUME NEW t \in Item, t \notin OldClaims PROVE Queued(t)' = Queued(t)
  <2>1. \A i \in 1 .. m + n : i \in 1 .. m \/ (i - m \in 1 .. n /\ m + (i - m) = i)
    BY <1>2
  <2>2. \A i \in 1 .. m + n : fifo'[i] = t => i \in 1 .. m
    BY <1>2, <1>4, <2>1
  <2> QED
    BY <1>2, <1>3, <2>2 DEF Queued
<1>5. ASSUME NEW t \in OldClaims
      PROVE  Cardinality(Queued(t)') = Cardinality(Queued(t)) + 1
  <2>1. PICK i \in 1 .. n : back[i] = t
    BY <1>2
  <2>2. \A j \in 1 .. m + n : j \in 1 .. m \/ (j - m \in 1 .. n /\ m + (j - m) = j)
    BY <1>2
  <2>3. ASSUME NEW j \in 1 .. m + n, fifo'[j] = t, j \notin 1 .. m
        PROVE  j - m = i
    <3>1. j - m \in 1 .. n /\ m + (j - m) = j
      BY <2>2, <2>3
    <3>2. fifo'[m + (j - m)] = back[j - m]
      BY <1>2, <3>1
    <3> QED
      BY <1>2, <2>1, <2>3, <3>1, <3>2
  <2>4. \A j \in 1 .. m + n : fifo'[j] = t => j \in 1 .. m \/ j = m + i
    BY <1>2, <2>3
  <2>5. Queued(t)' = Queued(t) \cup {m + i}
    BY <1>2, <1>3, <2>1, <2>4 DEF Queued
  <2>6. m + i \notin Queued(t)
    BY <1>2, <1>3 DEF Queued
  <2> QED
    BY <2>5, <2>6, MemoryCountsFinite, FS_AddElement
<1>6. \A t \in Item : Holding(t, "got")' = Holding(t, "got")
  BY DEF MemStuck, Holding
<1> QED
  BY <1>4, <1>5, <1>6, MemoryCountsFinite DEF MemoryReady

LEMMA MemoryClaimsKept ==
  ASSUME UNCHANGED <<claimed, now>>
  PROVE  MemoryClaims' = MemoryClaims
BY DEF MemoryClaims, MemoryClaim

LEMMA MemoryAckIsAbstract ==
  ASSUME MemoryTypeOK, NEW t \in Item, MemAcknowledge(t), MemoryReady' = MemoryReady
  PROVE  MemoryStep
<1>1. \A u \in Item : MemoryClaim(u)' = IF u \in {t} THEN "none" ELSE MemoryClaim(u)
  BY DEF MemAcknowledge, MemoryClaim, MemoryTypeOK
<1>2. MemoryClaims' = [u \in Item |-> IF u \in {t} THEN "none" ELSE MemoryClaims[u]]
  BY <1>1 DEF MemoryClaims
<1>3. AbstractMemory!Ack({t})
  BY <1>2 DEF AbstractMemory!Ack, MemoryReady, MemoryClaims, MemoryClaim
<1> QED
  BY <1>3 DEF MemoryStep, AbstractMemory!Next

LEMMA MemoryStampIsAbstract ==
  ASSUME MemoryTypeOK, NEW w \in Client, MemStamp(w)
  PROVE  MemoryStep
<1>1. PICK t \in Item : /\ t = mheld[w] /\ MemoryReady[t] > 0
                       /\ MemoryReady' = [MemoryReady EXCEPT ![t] = @ - 1]
  BY MemoryReadyTaken
<1>2. claimed' = [claimed EXCEPT ![t] = now] /\ now' = now /\ now \in Nat
  BY <1>1 DEF MemStamp, MemoryTypeOK
<1>3. \A u \in Item : MemoryClaim(u)' = IF u = t THEN "fresh" ELSE MemoryClaim(u)
  BY <1>1, <1>2, ClientsAssumption DEF MemoryClaim, MemoryTypeOK
<1>4. MemoryClaims' = [MemoryClaims EXCEPT ![t] = "fresh"]
  BY <1>1, <1>3 DEF MemoryClaims
<1>5. AbstractMemory!Pop(t)
  BY <1>1, <1>4 DEF AbstractMemory!Pop, MemoryReady, MemoryClaims, MemoryClaim
<1>6. AbstractMemory!Next
  BY <1>1, <1>5, Zenon DEF AbstractMemory!Next
<1> QED
  BY <1>6 DEF MemoryStep

LEMMA MemoryStuckIsAbstract ==
  ASSUME MemoryTypeOK, MemStuck
  PROVE  MemoryStep
<1>1. MemoryReady' = [t \in Item |-> IF t \in OldClaims THEN MemoryReady[t] + 1
                                                        ELSE MemoryReady[t]]
  BY OldClaimsReady
<1>2. \A t \in Item : /\ MemoryClaim(t)' = IF t \in OldClaims THEN "none" ELSE MemoryClaim(t)
                      /\ t \in OldClaims => MemoryClaim(t) = "late"
  BY DEF MemStuck, MemoryClaim, OldClaims, MemoryTypeOK
<1>3. MemoryClaims' = [t \in Item |-> IF t \in OldClaims THEN "none" ELSE MemoryClaims[t]]
  BY <1>2 DEF MemoryClaims
<1>4. PICK S \in SUBSET Item : S = OldClaims
  BY DEF OldClaims
<1>5. AbstractMemory!Sweep(S)
  <2>1. \A t \in S : MemoryClaims[t] = "late"
    BY <1>2, <1>4 DEF MemoryClaims
  <2> QED
    BY <1>1, <1>3, <1>4, <2>1 
    DEF AbstractMemory!Sweep, AbstractMemory!Recoverable, MemoryReady, MemoryClaims, MemoryClaim
<1>6. AbstractMemory!Next
  BY <1>4, <1>5, Zenon DEF AbstractMemory!Next
<1> QED
  BY <1>6 DEF MemoryStep

LEMMA MemoryTimeIsAbstract ==
  ASSUME MemoryTypeOK, MemTimePasses
  PROVE  MemoryStep
<1>1. MemoryReady' = MemoryReady
  BY MemoryReadyKept DEF MemTimePasses
<1>2. \A t \in Item : \/ MemoryClaim(t)' = MemoryClaim(t)
                      \/ MemoryClaim(t) = "fresh" /\ MemoryClaim(t)' = "late"
  BY ClientsAssumption DEF MemTimePasses, MemoryClaim, MemoryTypeOK
<1>3. PICK S \in SUBSET Item : S = {t \in Item : MemoryClaims'[t] # MemoryClaims[t]}
  OBVIOUS
<1>4. MemoryClaims' = [t \in Item |-> IF t \in S /\ MemoryClaims[t] = "fresh" THEN "late"
                                                                        ELSE MemoryClaims[t]]
  BY <1>2, <1>3 DEF MemoryClaims
<1>5. AbstractMemory!Overdue(S)
  BY <1>1, <1>4 DEF AbstractMemory!Overdue, MemoryReady, MemoryClaims, MemoryClaim
<1>6. AbstractMemory!Next
  BY <1>3, <1>5, Zenon DEF AbstractMemory!Next
<1> QED
  BY <1>6 DEF MemoryStep

(* The process ends: nothing is left.                                      *)
LEMMA EndIsWipe ==
  ASSUME MemoryTypeOK, ProcessEnds
  PROVE  MemoryStep
<1>1. \A t \in Item : Queued(t)' = {} /\ Holding(t, "got")' = {} /\ MemoryClaim(t)' = "none"
  BY DEF ProcessEnds, Queued, Holding, MemoryClaim
<1>2. \A t \in Item : Cardinality(Queued(t)') + Cardinality(Holding(t, "got")') = 0
  BY <1>1, FS_EmptySet
<1>3. MemoryReady' = [t \in Item |-> 0] /\ MemoryClaims' = [t \in Item |-> "none"]
  BY <1>1, <1>2 DEF MemoryReady, MemoryClaims
<1>4. AbstractMemory!Wipe
  BY <1>3 DEF AbstractMemory!Wipe, AbstractMemory!Nothing, MemoryReady, MemoryClaims, MemoryClaim
<1> QED
  BY <1>4 DEF MemoryStep, AbstractMemory!Next

(* The queue of development keeps the same promise as that of production,  *)
(* but for the items that are gone with their process (memory.py).         *)
THEOREM MemoryQueueImplements == MemorySpec => MemoryImplements
<1>1. MemoryInit => AbstractMemory!Init
  <2> SUFFICES ASSUME MemoryInit PROVE AbstractMemory!Init
    OBVIOUS
  <2>1. \A t \in Item : Queued(t) = {} /\ Holding(t, "got") = {} /\ MemoryClaim(t) = "none"
    BY DEF MemoryInit, Queued, Holding, MemoryClaim
  <2>2. \A t \in Item : Cardinality(Queued(t)) + Cardinality(Holding(t, "got")) = 0
    BY <2>1, FS_EmptySet
  <2>3. MemoryReady = [t \in Item |-> 0] /\ MemoryClaims = [t \in Item |-> "none"]
    BY <2>1, <2>2 DEF MemoryReady, MemoryClaims
  <2> QED
    BY <2>3 DEF AbstractMemory!Init, AbstractMemory!Nothing, MemoryReady, MemoryClaims, MemoryClaim
<1>2. MemoryTypeOK /\ [MemoryNext]_memoryVars => MemoryStep
  <2> SUFFICES ASSUME MemoryTypeOK, [MemoryNext]_memoryVars PROVE MemoryStep
    OBVIOUS
  <2>1. ASSUME NEW t \in Item, MemPush(t) PROVE MemoryStep
    <3>1. /\ fifo' \in Seq(Item) /\ Len(fifo') = Len(fifo) + 1 /\ fifo'[Len(fifo) + 1] = t
          /\ \A i \in 1 .. Len(fifo) : fifo'[i] = fifo[i]
      BY <2>1, AppendProperties DEF MemPush, MemoryTypeOK
    <3>2. \A u \in Item : Cardinality(Queued(u)') =
                           IF u = t THEN Cardinality(Queued(u)) + 1 ELSE Cardinality(Queued(u))
      BY <3>1, QueuedAppended
    <3>3. \A u \in Item : Holding(u, "got")' = Holding(u, "got")
      BY <2>1 DEF MemPush, Holding
    <3>4. MemoryReady' = [u \in Item |-> IF u = t THEN MemoryReady[u] + 1 ELSE MemoryReady[u]]
      BY <3>2, <3>3, MemoryCountsFinite DEF MemoryReady
    <3>5. MemoryReady' = [MemoryReady EXCEPT ![t] = @ + 1] /\ MemoryClaims' = MemoryClaims
      BY <2>1, <3>4, MemoryClaimsKept DEF MemoryReady, MemPush
    <3>6. AbstractMemory!Push(t)
      BY <3>5 DEF AbstractMemory!Push, MemoryReady, MemoryClaims, MemoryClaim
    <3> QED
      BY <3>6 DEF MemoryStep, AbstractMemory!Next
  <2>2. ASSUME NEW w \in Client, Get(w) PROVE MemoryStep
    BY <2>2, ReadyGot, MemoryClaimsKept DEF Get, MemoryStep
  <2>3. ASSUME NEW t \in Item, MemAckByWatchdog(t) PROVE MemoryStep
    <3>1. MemoryReady' = MemoryReady
      BY <2>3, MemoryReadyKept DEF MemAckByWatchdog, MemAcknowledge
    <3> QED
      BY <2>3, <3>1, MemoryAckIsAbstract DEF MemAckByWatchdog
  <2>4. ASSUME NEW w \in Client, MemAckByWorker(w) PROVE MemoryStep
    <3>1. mheld[w] \in Item
      BY <2>4 DEF MemAckByWorker, MemoryTypeOK
    <3>2. MemoryReady' = MemoryReady
      BY <2>4, MemoryReadyKept DEF MemAckByWorker, MemAcknowledge, MemoryTypeOK
    <3> QED
      BY <2>4, <3>1, <3>2, MemoryAckIsAbstract DEF MemAckByWorker
  <2>5. CASE Close
    <3>1. MemoryReady' = MemoryReady
      BY <2>5, MemoryReadyKept DEF Close
    <3> QED
      BY <2>5, <3>1, MemoryClaimsKept DEF Close, MemoryStep
  <2>6. CASE UNCHANGED memoryVars
    BY <2>6, MemoryReadyKept, MemoryClaimsKept DEF memoryVars, MemoryStep
  <2> QED
    BY <2>1, <2>2, <2>3, <2>4, <2>5, <2>6, MemoryStampIsAbstract, MemoryStuckIsAbstract,
       MemoryTimeIsAbstract, EndIsWipe
    DEF MemoryNext
<1>3. MemoryStep => [AbstractMemory!Next]_(AbstractMemory!queue)
  BY DEF MemoryStep, AbstractMemory!queue, MemoryReady, MemoryClaims, MemoryClaim
<1> QED
  BY <1>1, <1>2, <1>3, MemoryTypesCorrect, PTL DEF MemorySpec, MemoryImplements,
     AbstractMemory!Spec
=============================================================================
