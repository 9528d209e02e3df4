SPECIFICATION QueuesSpec
CONSTANTS
  h1 = h1 h2 = h2 q1 = q1 q2 = q2 v1 = v1 v2 = v2
  Item = {q1, q2} NoItem = NoItem Client = {v1, v2}
  Host = {h1, h2} HostOf <- Hosts Api = h1 Offset <- Offsets NoStamp = NoStamp
  Older = 1 MaxTime = 3 MaxPush = 1 MaxFaults = 1
CHECK_DEADLOCK FALSE
INVARIANTS QueuesTypeOK NothingLost MemoryKeeps
PROPERTIES RedisImplements LateClaimsEnd MemoryImplements
