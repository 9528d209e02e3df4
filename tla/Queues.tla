------------------------------- MODULE Queues -------------------------------
(***************************************************************************)
(* The queue of a deployment: get_queue builds one of the two.             *)
(***************************************************************************)
EXTENDS RedisQueue, MemoryQueue

VARIABLE built   \* what get_queue returned

queuesVars == <<built, redisVars, memoryVars>>

QueuesInit == built \in {"redis", "memory"} /\ RedisInit /\ MemoryInit

OnRedis(A) == built = "redis" /\ A /\ UNCHANGED <<built, memoryVars>>
InProcess(A) == built = "memory" /\ A /\ UNCHANGED <<built, redisVars>>

QueuesNext == OnRedis(RedisNext) \/ InProcess(MemoryNext)

(* The tick calls stuck() every two seconds, and a call of Redis ends.     *)
QueuesSpec ==
  QueuesInit /\ [][QueuesNext]_queuesVars /\ WF_queuesVars(OnRedis(StuckStep))

QueuesTypeOK == RedisTypeOK /\ MemoryTypeOK
=============================================================================
