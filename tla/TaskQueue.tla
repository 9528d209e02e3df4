------------------------------ MODULE TaskQueue ------------------------------
(***************************************************************************)
(* What a task queue promises (TaskQueue of queue/base.py): an item that   *)
(* is popped is claimed at once, an acknowledgement ends its claim, and    *)
(* stuck() puts back what has been claimed for too long - only that, if    *)
(* the queue is punctual. Claims are kept by item, whoever holds them.     *)
(* RedisQueue and MemoryQueue implement it, and Dispatch uses nothing else *)
(* of a queue.                                                             *)
(***************************************************************************)
EXTENDS Naturals

CONSTANTS Item,
          Volatile, \* the items are lost with the process that keeps them
          Punctual  \* stuck() tells how old a claim is

VARIABLES ready,    \* how often an item can be popped
          claim,    \* "none", or "fresh", or "late": longer than the threshold
          due,      \* how often a running stuck() is still to put it back
          lost      \* pops that ended before the item was claimed

queue == <<ready, claim, due, lost>>

Nothing == [t \in Item |-> 0]

Init ==
  /\ ready = Nothing
  /\ claim = [t \in Item |-> "none"]
  /\ due = Nothing
  /\ lost = 0

Push(t) ==
  /\ ready' = [ready EXCEPT ![t] = @ + 1]
  /\ UNCHANGED <<claim, due, lost>>

Pop(t) ==
  /\ ready[t] > 0
  /\ ready' = [ready EXCEPT ![t] = @ - 1]
  /\ claim' = [claim EXCEPT ![t] = "fresh"]
  /\ UNCHANGED <<due, lost>>

Ack(S) ==
  /\ claim' = [t \in Item |-> IF t \in S THEN "none" ELSE claim[t]]
  /\ UNCHANGED <<ready, due, lost>>

Recoverable == IF Punctual THEN {"late"} ELSE {"fresh", "late"}

(* Time goes by.                                                           *)
Overdue(S) ==
  /\ claim' = [t \in Item |-> IF t \in S /\ claim[t] = "fresh" THEN "late" ELSE claim[t]]
  /\ UNCHANGED <<ready, due, lost>>

(* stuck() looks at the claims, then puts the items back one by one. By    *)
(* then a claim may have been ended or renewed: the item comes back all    *)
(* the same. The call may also end early.                                  *)
Scan ==
  /\ due' \in [Item -> Nat]
  /\ \A t \in Item : due'[t] > 0 => claim[t] \in Recoverable
  /\ UNCHANGED <<ready, claim, lost>>

Recover(t) ==
  /\ due[t] > 0
  /\ due' = [due EXCEPT ![t] = @ - 1]
  /\ ready' = [ready EXCEPT ![t] = @ + 1]
  /\ claim' = [claim EXCEPT ![t] = "none"]
  /\ UNCHANGED lost

(* A queue in memory looks at the claims and puts the items back at once.  *)
Sweep(S) ==
  /\ \A t \in S : claim[t] \in Recoverable
  /\ ready' = [t \in Item |-> IF t \in S THEN ready[t] + 1 ELSE ready[t]]
  /\ claim' = [t \in Item |-> IF t \in S THEN "none" ELSE claim[t]]
  /\ UNCHANGED <<due, lost>>

GiveUp ==
  /\ due' = Nothing
  /\ UNCHANGED <<ready, claim, lost>>

(* A pop is cut short between taking the item and claiming it.             *)
Lose(t) ==
  /\ ready[t] > 0
  /\ ready' = [ready EXCEPT ![t] = @ - 1]
  /\ lost' = lost + 1
  /\ UNCHANGED <<claim, due>>

Wipe ==
  /\ Volatile
  /\ ready' = Nothing
  /\ claim' = [t \in Item |-> "none"]
  /\ due' = Nothing
  /\ UNCHANGED lost

Next ==
  \/ \E t \in Item : Push(t) \/ Pop(t) \/ Recover(t) \/ Lose(t)
  \/ \E S \in SUBSET Item : Ack(S) \/ Overdue(S) \/ Sweep(S)
  \/ Scan \/ GiveUp \/ Wipe

Spec == Init /\ [][Next]_queue
=============================================================================
