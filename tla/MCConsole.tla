----------------------------- MODULE MCConsole -----------------------------
(* Two runs of two tasks and of one, clients that watch one task and all   *)
(* of a run; a policy of two keys, each with values in its range, and one  *)
(* with a value above it; three cases, one of them old; a process that     *)
(* starts.                                                                 *)
EXTENDS Console, TLC

CONSTANTS t1, t2, t3, r1, r2, k1, k2, c1, c2, c3

Runs == (t1 :> r1) @@ (t2 :> r1) @@ (t3 :> r2)
Watchers == {{t1}, {t1, t2}}
Lows == (k1 :> 1) @@ (k2 :> 1)
Highs == (k1 :> 1) @@ (k2 :> 2)
Values == {1, 2}
Defaults == (k1 :> 1) @@ (k2 :> 2)
Ages == (c1 :> 2) @@ (c2 :> 1) @@ (c3 :> 3)
=============================================================================
