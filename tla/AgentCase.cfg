SPECIFICATION FairSpec
CONSTANTS
  a1 = a1 a2 = a2 a3 = a3 c = c nav = nav open = open click = click wait = wait
  blank = blank home = home list = list
  Assertion = {a1, a2, a3} After <- MCAfter Check = {c} MinSteps <- OneCheck
  Action = {nav, open, click, wait} Exempt = {wait} Navigations = {nav, open}
  Page = {blank, home, list} Blank = blank Broken = Broken
  Site <- Sites Flaky = Flaky
  Policies <- BothPolicies HealBudget = 2 MaxNoopRepeats = 1
  MaxSkippedRepeats = 1 MaxMark = 2 Handmade <- Scripts NoTarget = NoTarget
  CaseUrl = nav Unwritten = {} Reread = {a1} PlainName = TRUE Wordless = {a2} Garbled = {}
CHECK_DEADLOCK FALSE
INVARIANTS ReplayTypeOK AssertionsDecide CancelHeeded CallsBounded RepeatsBounded
  RecordingReplays ReplayJudgesEachOnce ScriptReplays
PROPERTIES CaseEnds
