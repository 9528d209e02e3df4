------------------------------ MODULE MCQueues ------------------------------
(* Two items, two workers on two hosts: that of the scheduler, and one     *)
(* that was started later, by more than the threshold.                     *)
EXTENDS Queues, TLC

CONSTANTS h1, h2, q1, q2, v1, v2

Hosts == (v1 :> h1) @@ (v2 :> h2)
Offsets == (h1 :> 0) @@ (h2 :> -2)
=============================================================================
