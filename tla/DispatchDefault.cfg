SPECIFICATION Spec
CONSTANTS
  c1 = c1 c2 = c2 account = account w1 = w1 w2 = w2 p1 = p1 p2 = p2 pl = pl
  Key = {account} NoKey = NoKey
  PlanCases <- BothCases Agentic = {c2}
  Worker = {w1, w2} NoWorker = NoWorker Api = p1
  Case <- TwoCases Plan = {pl} MaxTasks = 4 MaxRuns = 2 KeyOf <- NoKeys
  Process = {p1} ProcOf <- OneProcess InMemory = TRUE
  AttemptLimits = {1} QuarantineThreshold = 2
  OnDemand = {c1} Cancellable = {} Rerunnable = {1} Deletable = {c2}
  MaxTimeouts = 0 MaxErrors = 0 MaxCrashes = 0 Faulty = {} Crashing = {}
SYMMETRY WorkerSymmetry
INVARIANTS FinishedRunIsQuiet
PROPERTIES PassedStands
