---------------------------- MODULE QueueClients ----------------------------
(***************************************************************************)
(* What the two queues have in common: the items, the worker coroutines    *)
(* that pop them and the threshold of stuck(), the task timeout.           *)
(***************************************************************************)
EXTENDS Integers, Sequences, FiniteSets

CONSTANTS Item, NoItem,
          Client,    \* the worker coroutines
          NoStamp,   \* instead of a time: an item has no claim
          Older,     \* the threshold
          MaxTime, MaxPush, MaxFaults   \* bounds of an exploration

ASSUME ClientsAssumption ==
  /\ NoItem \notin Item /\ IsFiniteSet(Item) /\ IsFiniteSet(Client) /\ NoStamp \notin Int
  /\ Older \in Nat /\ MaxTime \in Nat /\ MaxPush \in Nat /\ MaxFaults \in Nat
=============================================================================
