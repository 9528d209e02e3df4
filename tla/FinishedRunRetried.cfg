SPECIFICATION Spec
CONSTANTS
  c1 = c1 c2 = c2 account = account w1 = w1 w2 = w2 p1 = p1 p2 = p2 pl = pl
  Key = {account} NoKey = NoKey
  PlanCases <- BothCases Agentic = {}
  Worker = {w1, w2} NoWorker = NoWorker Api = p1
  Case <- TwoCases Plan = {pl} MaxTasks = 2 MaxRuns = 1 KeyOf <- SharedKey
  Process = {p1} ProcOf <- OneProcess InMemory = TRUE
  AttemptLimits = {2} QuarantineThreshold = 3
  OnDemand = {} Cancellable = {} Rerunnable = {} Deletable = {}
  MaxTimeouts = 0 MaxErrors = 0 MaxCrashes = 0 Faulty = {} Crashing = {}
INVARIANT FinishedRunIsQuiet
