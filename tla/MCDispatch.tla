----------------------------- MODULE MCDispatch -----------------------------
(* The small instances of Dispatch that TLC explores.                      *)
EXTENDS Dispatch, TLC

CONSTANTS c1, c2, account, w1, w2, p1, p2, pl

TwoCases == {c1, c2}

\* Both cases log in with one account, or they need no resource.
SharedKey == [c \in Case |-> account]
NoKeys == [c \in Case |-> NoKey]

\* The plan, if there is one, runs both cases.
BothCases == [p \in Plan |-> <<c1, c2>>]

\* Both workers inside the API process, or both on a worker node of its own.
OneProcess == [w \in Worker |-> p1]
NodeProcess == [w \in Worker |-> p2]

WorkerSymmetry == Permutations(Worker)
=============================================================================
