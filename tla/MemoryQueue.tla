----------------------------- MODULE MemoryQueue -----------------------------
(***************************************************************************)
(* The queue of development (queue/memory.py): an asyncio.Queue and a dict *)
(* of claims inside the API process, which is gone when the process ends.  *)
(* A coroutine is interrupted only where it waits: push, ack and the whole *)
(* of stuck() are one step, since put() of an unbounded queue never waits. *)
(* Before Python 3.12 wait_for runs get() in a task of its own, and others *)
(* may run between the item's removal and the claim.                       *)
(***************************************************************************)
EXTENDS QueueClients, SequencesExt

VARIABLES
  fifo,         \* _ready, its oldest item first
  claimed,      \* _processing
  now,          \* time.monotonic()
  mpc, mheld,   \* what a worker is at: "idle", "got" (in pop), "working"
  closed,       \* _closed
  mpushed, macked, ends   \* how often pushed; acknowledged; ends of the process

memoryVars == <<fifo, claimed, now, mpc, mheld, closed, mpushed, macked, ends>>

MemoryInit ==
  /\ fifo = <<>> /\ claimed = [t \in Item |-> NoStamp] /\ now = 0
  /\ mpc = [w \in Client |-> "idle"] /\ mheld = [w \in Client |-> NoItem]
  /\ closed = FALSE
  /\ mpushed = [t \in Item |-> 0] /\ macked = {} /\ ends = 0

MemPush(t) ==
  /\ ~closed /\ mpushed[t] < MaxPush
  /\ fifo' = Append(fifo, t)
  /\ mpushed' = [mpushed EXCEPT ![t] = @ + 1]
  /\ UNCHANGED <<claimed, now, mpc, mheld, closed, macked, ends>>

Get(w) ==
  /\ ~closed /\ mpc[w] = "idle" /\ fifo # <<>>
  /\ fifo' = Tail(fifo)
  /\ mpc' = [mpc EXCEPT ![w] = "got"]
  /\ mheld' = [mheld EXCEPT ![w] = Head(fifo)]
  /\ UNCHANGED <<claimed, now, closed, mpushed, macked, ends>>

MemStamp(w) ==
  /\ mpc[w] = "got"
  /\ claimed' = [claimed EXCEPT ![mheld[w]] = now]
  /\ mpc' = [mpc EXCEPT ![w] = "working"]
  /\ UNCHANGED <<fifo, now, mheld, closed, mpushed, macked, ends>>

MemAcknowledge(t) ==
  /\ claimed' = [claimed EXCEPT ![t] = NoStamp]
  /\ macked' = macked \cup {t}
  /\ UNCHANGED <<fifo, now, closed, mpushed, ends>>

MemAckByWorker(w) ==
  /\ mpc[w] = "working"
  /\ MemAcknowledge(mheld[w])
  /\ mpc' = [mpc EXCEPT ![w] = "idle"]
  /\ mheld' = [mheld EXCEPT ![w] = NoItem]

MemAckByWatchdog(t) == ~closed /\ MemAcknowledge(t) /\ UNCHANGED <<mpc, mheld>>

(* Mutant: a claim is stuck when it has just reached the threshold.        *)
OldClaimsEarly == {t \in Item : claimed[t] # NoStamp /\ now - claimed[t] >= Older}

OldClaims == {t \in Item : claimed[t] # NoStamp /\ now - claimed[t] > Older}

(* Mutant: stuck() ends the claims and puts nothing back.                  *)
MemStuckDrops ==
  /\ ~closed /\ OldClaims # {}
  /\ claimed' = [t \in Item |-> IF t \in OldClaims THEN NoStamp ELSE claimed[t]]
  /\ UNCHANGED <<fifo, now, mpc, mheld, closed, mpushed, macked, ends>>

(* The items come back in the order of the dict, any order here.           *)
MemStuck ==
  /\ ~closed /\ OldClaims # {}
  /\ \E back \in SetToSeqs(OldClaims) : fifo' = fifo \o back
  /\ claimed' = [t \in Item |-> IF t \in OldClaims THEN NoStamp ELSE claimed[t]]
  /\ UNCHANGED <<now, mpc, mheld, closed, mpushed, macked, ends>>

(* The life cycle cancels workers and orchestrator, and waits for them,    *)
(* before it closes; a pop that has its item does not notice (3.11).       *)
Close ==
  /\ ~closed /\ \A w \in Client : mpc[w] # "got"
  /\ closed' = TRUE
  /\ mpc' = [w \in Client |-> "idle"] /\ mheld' = [w \in Client |-> NoItem]
  /\ UNCHANGED <<fifo, claimed, now, mpushed, macked, ends>>

(* The process ends, by a shutdown or a crash, and a new one is started.   *)
ProcessEnds ==
  /\ ends < MaxFaults
  /\ ends' = ends + 1
  /\ fifo' = <<>> /\ claimed' = [t \in Item |-> NoStamp]
  /\ mpc' = [w \in Client |-> "idle"] /\ mheld' = [w \in Client |-> NoItem]
  /\ closed' = FALSE
  /\ mpushed' = [t \in Item |-> 0] /\ macked' = {}
  /\ UNCHANGED now

MemTimePasses ==
  /\ now < MaxTime
  /\ now' = now + 1
  /\ UNCHANGED <<fifo, claimed, mpc, mheld, closed, mpushed, macked, ends>>

MemoryNext ==
  \/ \E t \in Item : MemPush(t) \/ MemAckByWatchdog(t)
  \/ \E w \in Client : Get(w) \/ MemStamp(w) \/ MemAckByWorker(w)
  \/ MemStuck \/ Close \/ ProcessEnds \/ MemTimePasses

MemorySpec == MemoryInit /\ [][MemoryNext]_memoryVars

-----------------------------------------------------------------------------
MemoryTypeOK ==
  /\ fifo \in Seq(Item)
  /\ claimed \in [Item -> Nat \cup {NoStamp}]
  /\ now \in Nat
  /\ mpc \in [Client -> {"idle", "got", "working"}]
  /\ mheld \in [Client -> Item \cup {NoItem}]
  /\ \A w \in Client : mheld[w] = NoItem <=> mpc[w] = "idle"
  /\ closed \in BOOLEAN
  /\ mpushed \in [Item -> Nat] /\ macked \subseteq Item /\ ends \in Nat

Queued(t) == {i \in DOMAIN fifo : fifo[i] = t}
Holding(t, at) == {w \in Client : mpc[w] = at /\ mheld[w] = t}

(* The steps of MemoryQueue amount to the operations of TaskQueue: an item *)
(* can be popped until it is claimed, and stuck() is done at once.         *)
AbstractMemory == INSTANCE TaskQueue WITH
  Volatile <- TRUE, Punctual <- TRUE,
  ready <- [t \in Item |-> Cardinality(Queued(t)) + Cardinality(Holding(t, "got"))],
  claim <- [t \in Item |-> IF claimed[t] = NoStamp THEN "none"
                           ELSE IF now - claimed[t] > Older THEN "late" ELSE "fresh"],
  due <- [t \in Item |-> 0],
  lost <- 0
MemoryImplements == AbstractMemory!Spec

(* As long as the process lives nothing is lost: an item that was pushed   *)
(* and never acknowledged is waiting, being popped or claimed, whatever    *)
(* stuck() and late acknowledgements do to the claims of others.           *)
MemoryKeeps ==
  \A t \in Item : mpushed[t] > 0 /\ t \notin macked =>
    Queued(t) # {} \/ Holding(t, "got") # {} \/ claimed[t] # NoStamp
=============================================================================
