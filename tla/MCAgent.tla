------------------------------ MODULE MCAgent ------------------------------
(* A case with an assertion bound to step 1, one bound to step 2 and one   *)
(* of the end, a click, a wait and navigations to two addresses.           *)
EXTENDS CodeGen, TLC

CONSTANTS a1, a2, a3, c, nav, open, click, wait, blank, home, list

MCAfter == (a1 :> 1) @@ (a2 :> 2) @@ (a3 :> 0)
OneCheck == (c :> 2)

(* Sites of two pages: one address is home, the other the list, waiting    *)
(* brings up the list, clicking swaps the two. a1 and a3 hold on one of    *)
(* them, the line exported for a1 on the same one or on home.              *)
Effect ==
  [x \in Page \X Action |->
     CASE x[2] = nav -> home
       [] x[2] = open -> list
       [] x[2] = click -> IF x[1] = home THEN list ELSE IF x[1] = list THEN home ELSE Broken
       [] x[2] = wait -> IF x[1] = home THEN list ELSE x[1]]
Shows ==
  {(a1 :> {p}) @@ (a2 :> {home, list}) @@ (a3 :> {q}) @@ (c :> {r}) :
     p, q, r \in {home, list}}
Codes(f) ==
  {[a \in {a1, a2, a3} |-> IF a = a1 THEN s ELSE f[a]] : s \in {f[a1], {home}}}
Sites ==
  UNION {{[effect |-> Effect, shows |-> f, code |-> l] : l \in Codes(f)} : f \in Shows}

(* No healing, and one round of it.                                        *)
Policy(n, m) == [heal_attempts |-> n, max_steps |-> m]
BothPolicies == {Policy(0, 4), Policy(1, 2)}
TwoRounds == {Policy(2, 2)}

Scripts == {<<>>, <<Odd, Mark(1), Mark(1), Act(click)>>, <<Act(nav), Mark(2), Mark(0)>>}
=============================================================================
