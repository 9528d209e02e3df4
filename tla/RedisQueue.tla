----------------------------- MODULE RedisQueue -----------------------------
(***************************************************************************)
(* The queue of production: two Redis lists and a hash of time stamps,     *)
(* one action per command or MULTI block of queue/redisq.py, with the     *)
(* workers that pop from several hosts, crashes between two commands, and  *)
(* the monotonic clocks of the hosts, which are Offset apart.              *)
(***************************************************************************)
EXTENDS QueueClients

CONSTANTS Host, HostOf,  \* the machines the workers run on
          Api,           \* the machine of the scheduler
          Offset         \* monotonic clock of a host minus the model's time

ASSUME HostAssumption ==
  HostOf \in [Client -> Host] /\ Api \in Host /\ Offset \in [Host -> Int]

VARIABLES
  list,        \* READY, its left end last
  processing,  \* PROCESSING: how often an item is in it
  ts,          \* TS
  since,       \* when an item was claimed (history)
  clock,       \* time
  rpc, held,   \* what a worker is at: "idle", "moved" (popping), "working"
  tick,        \* what stuck() is at: "idle", "list", "hash", "requeue"
  asked,       \* its now
  listed,      \* its items
  todo,        \* what is left of its recovered
  lost,        \* workers that died while popping
  pushed, acked, faults  \* how often pushed; ever acknowledged; faults so far

redisVars == <<list, processing, ts, since, clock, rpc, held, tick, asked, listed, todo, lost,
               pushed, acked, faults>>
clientVars == <<rpc, held>>
stuckVars == <<tick, asked, listed, todo>>
countVars == <<pushed, acked, faults>>

Zero == [t \in Item |-> 0]

RedisInit ==
  /\ list = <<>> /\ processing = Zero /\ ts = [t \in Item |-> NoStamp]
  /\ since = [t \in Item |-> NoStamp] /\ clock = 0
  /\ rpc = [w \in Client |-> "idle"] /\ held = [w \in Client |-> NoItem]
  /\ tick = "idle" /\ asked = 0 /\ listed = Zero /\ todo = Zero
  /\ lost = 0 /\ pushed = Zero /\ acked = {} /\ faults = 0

(* LREM with a count of one. Mutant: the item need not be there.           *)
RemovedUnchecked(t) == [processing EXCEPT ![t] = @ - 1]

Removed(t) == IF processing[t] > 0 THEN [processing EXCEPT ![t] = @ - 1] ELSE processing

(* LPUSH.                                                                  *)
RedisPush(t) ==
  /\ pushed[t] < MaxPush
  /\ list' = Append(list, t)
  /\ pushed' = [pushed EXCEPT ![t] = @ + 1]
  /\ UNCHANGED <<processing, ts, since, clock, clientVars, stuckVars, lost, acked, faults>>

(* pop: BLMOVE takes from the left end, where push put the item ...        *)
Move(w) ==
  /\ rpc[w] = "idle" /\ list # <<>>
  /\ list' = SubSeq(list, 1, Len(list) - 1)
  /\ processing' = [processing EXCEPT ![list[Len(list)]] = @ + 1]
  /\ rpc' = [rpc EXCEPT ![w] = "moved"]
  /\ held' = [held EXCEPT ![w] = list[Len(list)]]
  /\ UNCHANGED <<ts, since, clock, stuckVars, lost, countVars>>

(* ... and HSET stamps the claim with the clock of the worker's host.      *)
Stamp(w) ==
  /\ rpc[w] = "moved"
  /\ ts' = [ts EXCEPT ![held[w]] = clock + Offset[HostOf[w]]]
  /\ since' = [since EXCEPT ![held[w]] = clock]
  /\ rpc' = [rpc EXCEPT ![w] = "working"]
  /\ UNCHANGED <<list, processing, clock, held, stuckVars, lost, countVars>>

HdelStamp(t) ==
  /\ ts' = [ts EXCEPT ![t] = NoStamp]
  /\ since' = [since EXCEPT ![t] = NoStamp]

(* MULTI of ack: one copy less, and no stamp, however many are left.       *)
Acknowledge(t) ==
  /\ processing' = Removed(t)
  /\ HdelStamp(t)
  /\ acked' = acked \cup {t}
  /\ UNCHANGED <<list, clock, stuckVars, lost, pushed, faults>>

AckByWorker(w) ==
  /\ rpc[w] = "working"
  /\ Acknowledge(held[w])
  /\ rpc' = [rpc EXCEPT ![w] = "idle"]
  /\ held' = [held EXCEPT ![w] = NoItem]

(* The watchdog acknowledges items it does not hold.                       *)
AckByWatchdog(t) ==
  /\ Acknowledge(t)
  /\ UNCHANGED clientVars

(* stuck() reads its clock, the list, the hash ...                         *)
AskTime ==
  /\ tick = "idle"
  /\ tick' = "list" /\ asked' = clock + Offset[Api]
  /\ UNCHANGED <<list, processing, ts, since, clock, clientVars, listed, todo, lost, countVars>>

Lrange ==
  /\ tick = "list"
  /\ tick' = "hash" /\ listed' = processing
  /\ UNCHANGED <<list, processing, ts, since, clock, clientVars, asked, todo, lost, countVars>>

Stale(t) == ts[t] # NoStamp /\ ts[t] < asked - Older

(* Mutant: stuck() reports what it found and puts nothing back.            *)
HgetallOnly ==
  /\ tick = "hash"
  /\ tick' = "idle" /\ listed' = Zero /\ asked' = 0
  /\ UNCHANGED <<list, processing, ts, since, clock, clientVars, todo, lost, countVars>>

Hgetall ==
  /\ tick = "hash"
  /\ todo' = [t \in Item |-> IF Stale(t) THEN listed[t] ELSE 0]
  /\ tick' = IF todo' = Zero THEN "idle" ELSE "requeue"
  /\ listed' = Zero /\ asked' = 0
  /\ UNCHANGED <<list, processing, ts, since, clock, clientVars, lost, countVars>>

(* ... and requeues what it found, one MULTI block after the other.        *)
(* Mutant: the item is removed and not pushed.                             *)
RequeueNextUnpushed(t) ==
  /\ tick = "requeue" /\ todo[t] > 0
  /\ processing' = Removed(t)
  /\ HdelStamp(t)
  /\ todo' = [todo EXCEPT ![t] = @ - 1]
  /\ tick' = IF todo' = Zero THEN "idle" ELSE "requeue"
  /\ UNCHANGED <<list, clock, clientVars, asked, listed, lost, countVars>>

(* Mutant: the item is pushed and keeps its stamp.                         *)
RequeueNextStamped(t) ==
  /\ tick = "requeue" /\ todo[t] > 0
  /\ processing' = Removed(t)
  /\ list' = Append(list, t)
  /\ todo' = [todo EXCEPT ![t] = @ - 1]
  /\ tick' = IF todo' = Zero THEN "idle" ELSE "requeue"
  /\ UNCHANGED <<ts, since, clock, clientVars, asked, listed, lost, countVars>>

RequeueNext(t) ==
  /\ tick = "requeue" /\ todo[t] > 0
  /\ processing' = Removed(t)
  /\ list' = Append(list, t)
  /\ HdelStamp(t)
  /\ todo' = [todo EXCEPT ![t] = @ - 1]
  /\ tick' = IF todo' = Zero THEN "idle" ELSE "requeue"
  /\ UNCHANGED <<clock, clientVars, asked, listed, lost, countVars>>

(* A worker dies or gives its item up without an acknowledgement.          *)
WorkerDies(w) ==
  /\ rpc[w] # "idle" /\ faults < MaxFaults
  /\ rpc' = [rpc EXCEPT ![w] = "idle"]
  /\ held' = [held EXCEPT ![w] = NoItem]
  /\ lost' = IF rpc[w] = "moved" THEN lost + 1 ELSE lost
  /\ faults' = faults + 1
  /\ UNCHANGED <<list, processing, ts, since, clock, stuckVars, pushed, acked>>

(* A call of stuck() raises, or its process dies.                          *)
StuckFails ==
  /\ tick # "idle" /\ faults < MaxFaults
  /\ tick' = "idle" /\ asked' = 0 /\ listed' = Zero /\ todo' = Zero
  /\ faults' = faults + 1
  /\ UNCHANGED <<list, processing, ts, since, clock, clientVars, lost, pushed, acked>>

TimePasses ==
  /\ clock < MaxTime
  /\ clock' = clock + 1
  /\ UNCHANGED <<list, processing, ts, since, clientVars, stuckVars, lost, countVars>>

StuckStep == AskTime \/ Lrange \/ Hgetall \/ \E t \in Item : RequeueNext(t)

RedisNext ==
  \/ \E t \in Item : RedisPush(t) \/ AckByWatchdog(t)
  \/ \E w \in Client : Move(w) \/ Stamp(w) \/ AckByWorker(w) \/ WorkerDies(w)
  \/ StuckStep \/ StuckFails \/ TimePasses

RedisSpec == RedisInit /\ [][RedisNext]_redisVars

-----------------------------------------------------------------------------
RedisTypeOK ==
  /\ list \in Seq(Item)
  /\ processing \in [Item -> Nat]
  /\ ts \in [Item -> Int \cup {NoStamp}]
  /\ since \in [Item -> Nat \cup {NoStamp}]
  /\ \A t \in Item : since[t] = NoStamp <=> ts[t] = NoStamp
  /\ clock \in Nat
  /\ rpc \in [Client -> {"idle", "moved", "working"}]
  /\ held \in [Client -> Item \cup {NoItem}]
  /\ \A w \in Client : held[w] = NoItem <=> rpc[w] = "idle"
  /\ tick \in {"idle", "list", "hash", "requeue"}
  /\ asked \in Int
  /\ tick \in {"list", "hash"} => asked <= clock + Offset[Api]
  /\ listed \in [Item -> Nat]
  /\ todo \in [Item -> Nat]
  /\ tick # "requeue" => todo = Zero
  /\ lost \in Nat /\ faults \in Nat
  /\ pushed \in [Item -> Nat] /\ acked \subseteq Item

Waiting(t) == {i \in 1..Len(list) : list[i] = t}
Moving(t) == {w \in Client : rpc[w] = "moved" /\ held[w] = t}
ClaimOf(t) == IF since[t] = NoStamp THEN "none"
              ELSE IF clock - since[t] > Older THEN "late" ELSE "fresh"

(* No worker's clock is behind the scheduler's. On one machine all clocks  *)
(* are one; those of two machines count from when each was started.        *)
NoneBehind == \A w \in Client : Offset[Api] <= Offset[HostOf[w]]

(* The commands of RedisQueue amount to the operations of TaskQueue: a pop *)
(* takes effect with its HSET, stuck() with its HGETALL. It is punctual if *)
(* the clocks are; if not, it may put back what has just been claimed.     *)
Abstract == INSTANCE TaskQueue WITH
  Volatile <- FALSE, Punctual <- NoneBehind,
  ready <- [t \in Item |-> Cardinality(Waiting(t)) + Cardinality(Moving(t))],
  claim <- [t \in Item |-> ClaimOf(t)],
  due <- todo
RedisImplements == Abstract!Spec

(* What stuck() puts back has been claimed for longer than the threshold   *)
(* (base.py:47: recovers the tasks claimed for more than the threshold).   *)
OnlyOldRecovered ==
  [][\A t \in Item : todo'[t] > todo[t] => ClaimOf(t) = "late"]_redisVars

(* Delivery at least once, but for the gap between BLMOVE and HSET: an     *)
(* item that was pushed and never acknowledged can be popped, is being     *)
(* popped or is under a claim that stuck() sees; every exception is a      *)
(* worker that died while popping.                                         *)
InSight(t) == \/ Waiting(t) # {} \/ Moving(t) # {}
              \/ processing[t] > 0 /\ ts[t] # NoStamp
NothingLost ==
  Cardinality({t \in Item : pushed[t] > 0 /\ t \notin acked /\ ~InSight(t)}) <= lost

(* A claim that is too old by the scheduler's clock is ended, by stuck()   *)
(* or an acknowledgement, or renewed, even if the worker that held it is   *)
(* gone and stuck() failed.                                                *)
SeenLate(t) ==
  processing[t] > 0 /\ ts[t] # NoStamp /\ ts[t] < clock + Offset[Api] - Older
LateClaimsEnd == \A t \in Item : SeenLate(t) ~> ~SeenLate(t)
=============================================================================
