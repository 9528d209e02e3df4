SPECIFICATION ConsoleSpec
CONSTANTS
  t1 = t1 t2 = t2 t3 = t3 r1 = r1 r2 = r2
  Task = {t1, t2, t3} Run = {r1, r2} RunOf <- Runs Watcher <- Watchers
  Limit = 1 MaxSeq = 3 MaxAsks = 2 MaxFaults = 1 MaxRewrites = 1 Analysed = {r1}
  k1 = k1 k2 = k2
  Client = {p1, p2} Key = {k1, k2} Low <- Lows High <- Highs Value <- Values
  Default <- Defaults Url = {u1} None = None
  c1 = c1 c2 = c2 c3 = c3
  Case = {c1, c2, c3} Ancient = {c1} Age <- Ages Node = {n1}
  Session = {s1, s2} NoCase = NoCase MaxChanges = 2
CHECK_DEADLOCK FALSE
INVARIANTS NothingSkipped DeletionComplete AnalysedOnce PolicyAsAsked ChangesKept
PROPERTIES FailureExplained UndisturbedStart
