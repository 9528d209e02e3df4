------------------------------ MODULE CodeGen ------------------------------
(***************************************************************************)
(* The Playwright script that export_case_code writes for a recording      *)
(* (codegen.py), and what it does on the site. That the locator of a line  *)
(* finds the element which the index meant is assumed.                     *)
(***************************************************************************)
EXTENDS AgentReplay

CONSTANTS CaseUrl,   \* the navigation to case.target_url, or else example.com
          Unwritten, \* actions without a line: browser_click_link
          Wordless,  \* assertions without one: their type or operator
          Garbled,   \* those whose line is no Python: "= 5", "> 007"
          Reread,    \* value_compare and element_text
          PlainName  \* the name of the case ends no string of the script

(* Two lines look for their text in another way than the platform: for a   *)
(* number behind its first place on the page, for the element that has it. *)
ASSUME CodeAssumption ==
  /\ CaseUrl \in Navigations /\ Unwritten \subseteq Action \ Navigations
  /\ Wordless \subseteq Assertion /\ Garbled \subseteq Assertion \ Wordless
  /\ Reread \subseteq Assertion /\ PlainName \in BOOLEAN
  /\ \A s \in Site : \A a \in Assertion \ Reread : s.code[a] = s.shows[a]

(* The lines of the assertions S, one below the other.                     *)
Expect(S) == <<"assert", S \ Wordless>>

(* What an entry is written as: an action as its own line; a mark as the   *)
(* lines of the assertions bound to it. All navigations are left out, the  *)
(* first of them comes in front of everything.                             *)
Line(x) ==
  IF x[1] = "mark" THEN Expect(Bound(x[2]))
  ELSE IF x[2] \in Unwritten \union Navigations THEN Expect({}) ELSE x

Start(s) ==
  LET places == {i \in DOMAIN s : IsNavigation(s[i])}
  IN  IF places = {} THEN Act(CaseUrl)
      ELSE s[CHOOSE i \in places : \A j \in places : i <= j]

(* Mutant: the assertions of the marked steps come at the end.             *)
ScriptAssertsLast(s) ==
  <<Start(s)>>
    \o [i \in DOMAIN s |-> IF s[i][1] = "act" THEN Line(s[i]) ELSE Expect({})]
    \o [i \in DOMAIN s |-> IF s[i][1] = "mark" THEN Line(s[i]) ELSE Expect({})]
    \o <<Expect(Bound(0))>>

Script(s) ==
  <<Start(s)>> \o [i \in DOMAIN s |-> Line(s[i])] \o <<Expect(Bound(0))>>

Asserts(line, a) == line[1] = "assert" /\ a \in line[2]

(* A line on a page p of a steady site: it raises, or leads to a page.     *)
PlayLine(p, line) ==
  IF p = Broken THEN Broken
  ELSE IF line[1] = "act" THEN site.effect[p, line[2]]
  ELSE IF \A a \in line[2] : p \in site.code[a] THEN p ELSE Broken

(* Where the lines lead a new browser, one after the other.                *)
Played(code) ==
  LET at[i \in 0 .. Len(code)] ==
        IF i = 0 THEN Blank ELSE PlayLine(at[i - 1], code[i])
  IN  at[Len(code)]

(* A script with a garbled line is not even begun, nor one whose docstring *)
(* or last line the name of the case breaks off.                           *)
Parses(code) ==
  PlainName /\ \A a \in Garbled : \A i \in DOMAIN code : ~Asserts(code[i], a)

(* A recording whose actions all have a line, or are the navigation that   *)
(* begins it.                                                              *)
Exportable(s) ==
  /\ s # <<>> /\ IsNavigation(Head(s))
  /\ \A a \in Unwritten \union Navigations : \A i \in 2 .. Len(s) : s[i] # Act(a)

-----------------------------------------------------------------------------
(* The case passed on a site that answers a script as it did, and nothing  *)
(* of what it did is missing from its recording.                           *)
Faithful == pc = "passed" /\ site # Flaky /\ heals = 0 /\ Exportable(actions)

(* Assertions of Reread whose lines do not hold wherever they do.          *)
Strict == {a \in Assertion \ Wordless : ~(site.shows[a] \subseteq site.code[a])}

(* What a run that passed without healing did, its script does, if it is a *)
(* program: it ends on the page of the run, so that each assertion that    *)
(* was bound to a marked step holds where its line was put, unless it has  *)
(* a line for which the site is stricter (one of Reread); and none of      *)
(* these, nor of the unbound ones, is missing or there twice.              *)
ScriptReplays ==
  Faithful =>
    LET code == Script(actions) IN
    /\ Parses(code) =>
         Played(code) = page \/ \E a \in Strict, i \in DOMAIN code : Asserts(code[i], a)
    /\ \A a \in Assertion \ Wordless :
         (After[a] = 0 \/ \E i \in DOMAIN actions : actions[i] = Mark(After[a])) =>
           \E i \in DOMAIN code :
             \A j \in DOMAIN code : Asserts(code[j], a) <=> j = i
=============================================================================
