SPECIFICATION Spec
CONSTANTS
  c1 = c1 c2 = c2 account = account w1 = w1 w2 = w2 p1 = p1 p2 = p2 pl = pl
  Key = {account} NoKey = NoKey
  PlanCases <- BothCases Agentic = {}
  Worker = {w1, w2} NoWorker = NoWorker Api = p1
  Case = {c1} Plan = {} MaxTasks = 1 MaxRuns = 1 KeyOf <- SharedKey
  Process = {p1, p2} ProcOf <- NodeProcess InMemory = FALSE
  AttemptLimits = {2} QuarantineThreshold = 1
  OnDemand = {c1} Cancellable = {1} Rerunnable = {} Deletable = {}
  MaxTimeouts = 2 MaxErrors = 1 MaxCrashes = 1
  Faulty = {"worker", "orchestrator", "api"} Crashing = {p1, p2}
SYMMETRY WorkerSymmetry
INVARIANTS ResourceExclusive WatchdogReaps CancelOnlyOnRequest
PROPERTIES RunIsFinal QueueUsed
