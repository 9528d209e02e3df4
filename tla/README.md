# EasyRun in TLA+

EasyRun runs UI test cases with LLM agents. Users submit a case or a plan, an
orchestrator keeps the tasks moving, workers take them from a queue and let an
agent drive a browser. This directory models the program, checks the model with
TLC and proves part of what it checks with TLAPS. Paths below are relative to
`src/easyrun/` unless they say otherwise.

## 1. The system

| Component | State | Operations | Talks to |
|---|---|---|---|
| Run API (`api/runs.py`, `orchestrator.py` 60-201) | none of its own; rows of `test_run`, `test_task`; `cancel_registry` in memory | `submit_case`, `submit_plan`, `rerun_failed`, `cancel_run`, delete | commits rows, then pushes task ids |
| Orchestrator (`orchestrator.py` 203-368) | `_policy` snapshot, `_analyzed` | a tick every 2 s: recover stuck claims, watchdog, retry, quarantine, complete runs | tables, queue |
| Worker (`worker.py`) | local variables, `LockManager` of its process | `run_forever`, `process`, `_run_task` | queue, tables, locks, agent |
| Queue (`queue/`) | ready items, claims with time stamps | `push`, `pop`, `ack`, `requeue`, `stuck` | memory of the API process, or Redis |
| Policy and settings (`execution_policy.py`, `api/settings.py`, `platform_settings.py`) | rows of `platform_setting` | get, set, validate | read by the tick and at the start of a task |
| Cases and plans (`api/cases.py`, `api/plans.py`) | `test_case`, `test_plan` | create, update, delete, cure | read by submissions and workers |
| Agent (`agent.py`) | messages, `_done_steps`, outcome | action loop, step assertions, healing, replay | LLM, browser, events |
| Assertions (`assertions.py`) | none | normalise, evaluate | browser |
| LLM client (`llm.py`) | none | chat with retries, JSON extraction | HTTP |
| Events, reports (`events.py`, `reporter.py`) | `step_event`, `failure_analysis` | emit, poll by cursor, report, Allure | tables, files |
| Code generation (`codegen.py`) | none | cured actions to a script | files |
| Browser (`browser.py`) | a Playwright page | click, type, snapshot | pure I/O |
| Database (`db.py`, `models.py`) | tables | migration, backfill of case numbers | - |
| Application (`main.py`, `cli.py`, `config.py`) | the coroutines of a process | start, stop | - |

**What is hard.** Everything that moves a task shares nothing but the tables and
the queue. A database session is a read, some awaits and a commit, without
isolation beyond the statement, so every actor may write back what another has
just overwritten. Rows and queue items change in separate steps, in one order
when a task is submitted or retried (row first, item second) and in the other
when it is recovered (item first). Claims and running rows are timed out while
their worker may be alive. Exceptions are caught at the top of two loops and
leave half of a pass done. Processes crash, and the in-memory queue with them.
The agent is sequential, but its calls nest: a loop marks a step, whose failing
assertions start a healing loop, which marks another step, and one exception
(`CaseFailed`) stands for a failure, an exhausted budget and a cancellation.

**What must hold**, component by component:

- *Worker and locks*: inside a process a resource is used by one worker; an
  attempt is executed once; the claim of a first attempt covers the work until
  the result is written.
- *Orchestrator*: a finished run keeps its verdict and statistics, they count
  every task once, and none of its tasks goes on; the watchdog leaves no task
  running past twice the timeout; a result stands.
- *Queue and tables together*: a waiting task is in somebody's hands.
- *Cancellation*: only what the user cancelled is skipped, and what is skipped
  does not run.
- *Agent*: a case passes only if its assertions hold; healing, which nests, has
  a bounded cost and an end; a cancellation stops it at any depth; what an
  accepted run recorded can be replayed.
- *Queues*: what is pushed is delivered at least once, a claim that is too old
  ends, a fresh one is left alone if the clocks agree, and both implementations
  promise the same.
- *Records*: a client that polls misses no event, a deleted run leaves nothing
  behind, every task that had failed when its run was closed is analysed, once.
- *Settings and cases*: whatever requests overlap, the policy stays in its
  ranges; a process that starts undisturbed numbers every old row; no session
  undoes another's columns.
- *Scripts*: an exported script passes where the run did.
- *All of it*: every run finishes.

The hazards with their lines are in `PROJECT.json`.

## 2. The modules

| Module | What it is |
|---|---|
| `Platform` | constants, the shared variables, statuses, how a session writes rows, the effect of the queue's operations |
| `WorkerAgent` | one worker coroutine: `run_forever`, `process`, `_run_task` |
| `Orchestrator` | the tick, every pass a read and a commit, queue calls one by one |
| `RunApi` | submissions, rerun, cancellation, policy change, deletion of a case |
| `Dispatch` | the composition with time, failing calls and crashes; the properties |
| `RunLedger` | the abstract life of the runs: every change one step on the rows as they are |
| `MCDispatch` | the small instances TLC explores |
| `TaskQueue` | the abstract queue: what `queue/base.py` promises |
| `QueueClients` | items, workers and threshold, common to the two queues |
| `RedisQueue` | `queue/redisq.py` command by command, with several hosts, clocks and crashes |
| `MemoryQueue` | `queue/memory.py` with the life of its process |
| `Queues`, `MCQueues` | the queue of a deployment (`get_queue`), and the instance |
| `RunRecords` | events and their polling cursor, deletion of runs |
| `FailureAnalysis` | the analysis of failed tasks and the LLM client's retries |
| `PolicyStore` | settings and execution policy under overlapping requests |
| `CaseBook` | the table of cases: numbers, edits, cure, recordings, deletion, and the processes that start and number old rows |
| `Console`, `MCConsole` | the last four beside one another, and the instance |
| `CodeGen` | the exported script of a recording, and what it does on the site |
| `DispatchProofs` | type correctness for every instance; the watchdog is thorough |
| `DispatchSafety` | the inductive invariant and the safety theorems |
| `DispatchDelivery` | a task has one delivery at a time, and what follows while no claim gets late |
| `DispatchRefines` | the dispatch keeps to `TaskQueue` and to `RunLedger` |
| `QueueProofs` | both queues keep their types and their items, and implement `TaskQueue` |
| `ConsoleProofs` | the promises of the parts of `Console` |
| `CaseRun` | what a run of a case works on: assertions, completion checks, the site and its pages |
| `AgentLoop` | the agentic mode of `agent.py`: action loop, step marks, healing, end of the run |
| `AgentReplay` | the deterministic mode, and the two modes of a case together |
| `MCAgent` | the case and the sites TLC explores |
| `AgentProofs` | the agentic mode keeps its types and the shape of its stack |
| `AgentSafety` | the invariants and theorems of a case run |

`Dispatch` composes the first four. `AgentReplay` stands beside it: to the
dispatch a run of the agent is one choice between passed, failed and stopped
(`FinishRead`, `AgentStops`), and `AgentReplay` is what happens in that moment;
`CodeGen` extends it by the script. `TaskQueue` is the seam between the dispatch
and the queues: `Dispatch` refines it (`QueueUsed`: the effect of `push`, `pop`,
`ack` and `stuck` in `Platform` is what the abstract queue allows), and so do
`RedisQueue` (`RedisImplements`) and `MemoryQueue` (`MemoryImplements`).
`RunLedger` is what a user of the tables may rely on: in `Dispatch` a session
reads first and commits later, and its commit has to be one step of the ledger
(`StartCommit` is `Begin`, `FinishCommit` is `End`, `CompleteCommit` is `Close`),
while the reads, the queue and the locks are steps of it that change nothing.
The parts of `Console` share no variable with the dispatch: what they take from it
(a task begins, ends, its run is closed) are actions of their own.

### State

`status`, `attempt`, `idle`, `runOf`, `caseOf` are the columns of `test_task`
(`idle` stands for `updated_at`: whole timeouts since the last write, counted
while the row is running); `sessions` counts its `agent_session` rows.
`runStatus` and `stats` are the columns of `test_run`, `cases` the rows of
`test_case`, `policy` the value of `max_attempts`. A task is a number in the
order of creation, and rows not created yet have status `"none"`.
`ready[t]` says how often `t` is in the queue and `claim[t]` whether it is
claimed, freshly or for longer than `task_timeout_seconds`. Claims are keyed by
the task id as both queues do it (`memory.py` 14, `redisq.py` 36), so one worker
can drop the claim of another.

A worker has a program counter, the task in hand, the status it read (`seen`)
and the verdict it is about to commit. `holder` is the `LockManager` of every
process. The API process has the `cancel_registry`, the tasks a handler has
committed and not yet pushed (`unpushed`) and the rows a cancellation is about
to write (`toSkip`). The tick has its phase and the rows loaded by the current
pass.

The agent keeps a stack `loops` of the action loops that are open, the innermost
last: the main one, the healing of a marked step above whatever loop marked it,
or the closing healing. A loop has its remaining iterations, its two counters
per action and, when it heals, its round and the assertions it aims at (the
arguments and locals of `_heal`). `pc` says where the innermost call is; `raise`
is a `CaseFailed` on its way out. `done` is `_done_steps`, `actions` the
recording of the outcome, `last` the latest verdict on each assertion as the
events report it. The replay has its own variables, as
`_run_deterministic` has its own locals: the list, the position, `rdone`, its
page and its count of steps; `target` is the `target_url` of the task that
replays, which need not be that of the recording. A site says where an action
leads (`effect`), on which pages an assertion holds (`shows`), and on which its
exported line does (`code`). `late`, `rounds`, `ran` and `judged` are history.

`RedisQueue` has the two lists (`list` in its order, `processing` as counts, of
which only membership and number matter to `LREM`), the hash `ts`, what every
worker is at between BLMOVE, HSET and its acknowledgement, and the locals of a
running `stuck()` (`asked`, `listed`, `todo`). `MemoryQueue` has the
`asyncio.Queue` and the dict. `pushed`, `acked`, `lost`, `since` (the true moment
of a claim) and their like are history. The refinement mapping lets an item be ready from its push to the HSET
of the pop (or the dict's entry) and derives a claim from the stamp.

In `RunRecords` an event carries the set of clients that have got it, `inserting`
is the number of an event whose transaction is open, `cursor` the `after` a
client will send next. A `result` is not final, whether its run is closed or not:
`rewrites` counts the changes that come from elsewhere than the agent.
`FailureAnalysis` adds for every task the stage of `analyze_task_failure` and its
requests; `toExplain` are the tasks that had failed when their run was closed,
`excuse` those that have no analysis for a reason the code does not claim to
handle. `PolicyStore` has the rows and, of each request, the keys and the default
URL it names and the rows its two sessions have loaded (`loadedUrl`, `loaded`);
`before`, `urlBefore` and `alone` are history. `CaseBook` has three columns that
stand for all (`steps` for what users edit, `recording` for `cured_actions`, and
`mode`), contents being numbers, and of each session the row it has read; of a
process that starts, how far it has come (`boot`), the rows without a number and
the highest number it has found. `quiet` and `latest` are history.

### Actions

A session is two actions, the read and the commit (`StartRead`/`StartCommit`,
`RetryRead`/`RetryCommit`, `CancelRead`/`CancelCommit`, ...), and everything
another actor can do fits between them. The ORM writes a column only when it
differs from the value it loaded: `SaveStatus` leaves a row alone that was
loaded with the status it is to get, even if somebody changed it since. The
statements that name their rows without loading them (`RecoverCommit`) write
whatever the rows hold.

Queue calls of a loop are actions of their own (`RecoverRequeue`, `RetryPush`,
`PushSubmitted`), because each of them awaits. The watchdog's acks are done
with its read: they precede the commit, and nobody else drops or renews the
claim of a row that has not been written for two timeouts while the loop runs.
`WorkerError`, `TickError` and `HandlerError` are a failing database or queue
call; what the `except` and `finally` clauses then do is part of the action or
of the one that follows it (`ErrorAck`, `ErrorAckFails`).

`Elapse` lets one `task_timeout_seconds` pass. It happens while the tick sleeps,
no handler is half-way and every worker waits for an item or for its agent:
everything else is a matter of seconds, except for the wait for a lock, and
`lock_wait_seconds` (300) is below `task_timeout_seconds` (600) in `config.py`.

In the agent an iteration is `Ask`, the request, and one action per kind of answer
(`Unknown`, `Finish`, `Fail`, `MarkAgain`, `MarkStep`, `Skip`, `Execute`), so
that a cancellation or an exception can come while the answer is awaited. An
assertion phase is one step: nothing else touches the page, and the phase does
not look at the cancellation. `BeginRound`, `GiveUp`, `Reassert` and `Unwind`
are the round of `_heal`; `WrapUp` is the closing assertions.

A command of Redis or a MULTI block is an action (`Move`, `Stamp`,
`Acknowledge`, `Lrange`, `Hgetall`, `RequeueNext`). The queue in memory gives
way only where it awaits something that may block: `push`, `ack` and all of
`stuck()` are one action each, `pop` is two, since `wait_for` runs `get()` in a
task of its own before Python 3.12. An INSERT of an event and its commit are two
actions; SQLite has one writer at a time and numbers a row one above the highest
in the table, PostgreSQL draws numbers that are never used again. A session of
the settings or of the cases is a read and a commit that writes only the columns
it changed; a commit that meets a row it did not expect fails as a whole. A
request that names the default URL has two such sessions, one after the other
(`LoadUrl`/`SetUrl`, `Load`/`Store`), and either may fail. The start of a process
is `SelectMissing`, `SelectHighest` and then `NumberFound`, the UPDATEs with the
index and the commit, or `StartFails`, when one of them meets a number that is
taken. A request to the language model is one action with its outcome (`Unavailable` for
429, 5xx and the transport, `Replied`, `Garbled`, `NoApiKey`). `PutBack`, `Fail` and
`Skip` are what the dispatch writes into results behind the agents' back.

### What is abstracted

- Which ready item a pop returns is open. `MemoryQueue` is first-in first-out;
  `RedisQueue` pushes and pops on the same end and is last-in first-out.
- The agent's outcome is a choice between passed and failed at any moment, so
  also for a case that is deleted or edited while it runs. Errors of the agent
  are caught in `_run_task` (198) and are a failed outcome.
- The resource of a case (`resource_key`) is fixed; editing it is not modelled.
- `WorkerError` strikes before the failing call has had an effect. A commit or
  an ack that took effect and then raised is not modelled.
- In `Dispatch`, `_maybe_cure` is `CureFails`: it raises when the agentic case of
  a passed task has been deleted (`worker.py` 250), which `Agentic` says of a
  case; when it succeeds it changes nothing the dispatch looks at. What it
  writes is in `CaseBook`. The tokens of a run are left out; `analyzed` keeps
  what `_analyzed` keeps, the analysis itself is `FailureAnalysis`.
- Rows of runs and tasks are never deleted in `Dispatch`; `DELETE /runs` is in
  `RunRecords`, for one run at a time.
- `RedisQueue` keeps no order in `processing`, and a call of Redis that fails
  has had no effect. Time is a counter; the clocks of hosts differ by any fixed
  `Offset`. A reboot of a host, which resets its monotonic clock, is not
  modelled.
- `Dispatch` lets `stuck()` recover late claims only (`QueueUsed` asks for a
  punctual queue). With Redis and hosts whose clocks differ the code also recovers
  claims that are fresh (`ClocksDisagree`): what `Dispatch` shows without timeouts
  is then void. With a timeout it recovers claims of living workers, too.
- Results in `RunRecords` change in ways the dispatch has (put back, failed,
  skipped), at any time and in closed runs; `MaxRewrites` bounds how often.
- The policy's defaults lie in the ranges. `config.py` does not check what the
  environment gives, and `LimitsInForce` may fail if it gives something else.
- `failure_analysis` is a key like the others in `PolicyStore` (its range takes
  every value), and a switch in `FailureAnalysis`.
- A task has one emitter of events at a time. With a duplicate delivery it has
  two, and on PostgreSQL a client may then miss an event of a single task too.
- All UPDATEs of a backfill, the index and the commit are one step, since nobody
  sees a part of them; the INSERT of a case whose process dies is none. A fresh
  installation has no row without a number, so that no start creates the index.
- An edit of a case changes `steps` and possibly `mode`; a refused edit (400)
  changes nothing and is no action. `version` is incremented by every session
  from the value it read and may miss an increment; nothing depends on it.
- The script is the sequence of its lines' effects. That the locator written
  for an index finds the element the index meant is assumed (`locator_line`
  guesses by text, link or placeholder). The lines of the assertions that belong
  to one place are one element of it, and an entry without a line is an empty
  one. `Garbled` are the assertions whose line is no Python (`codegen.py`
  107-113); a script with one of these does not begin, nor one whose docstring or
  last line a quote in the name of the case breaks off (25, 63; `PlainName`).
  What a line asserts is not what the platform asserts: `value_after` (44-52)
  takes the first occurrence of the label in the text of the body, `browser.py`
  135-164 looks for it in the elements; `element_text` is `get_by_text` in the
  script (104-113) and the text of the page in `assertions.py` 215-218. These two
  kinds are `Reread`, and a site may answer their lines as it likes (`code`); the
  others ask the platform's question.
- A replay goes to the `target_url` of its task at its first navigation
  (`agent.py` 519-521), or before a list that does not begin with one (467);
  `target` is any address or none.
- The visual assertion is an assertion like the others, without a line in the
  script; its screenshot and its baseline (`assertions.py` 272-283) are file I/O.
- The language model answers anything at any time. The page is one value of a
  small set. A steady site answers as its page says, `Flaky` as it likes; the
  completion checks and the actions of a recording are those of the case.
- The conversation, its trimming, screenshots, `healed_locators` and the texts
  are left out. An exception other than `CaseFailed` ends a run from anywhere.
- Step numbers are those up to `MaxMark`; a mark that is no number from 1 on is
  a `Fail`.
- Graceful shutdown (`stop`) is not modelled; a crash covers what it may lose.

## 3. What TLC checks

| Run | Instance | Properties |
|---|---|---|
| `DispatchNormal` | one process, two workers, a plan of two cases with a shared account, `max_attempts` 1 or 2 changing at any time, a case deleted at any time, under fairness | `TypeOK`, `OneSessionPerAttempt`, `NoTaskStranded`, `StatsCoverRun`, `ClaimCoversWork`, `LedgerKept`, `EveryRunFinishes` |
| `DispatchFaults` | API process without workers and a node with two, Redis, one task with `max_attempts` 2, cancellation, two timeouts, one failing call of anybody, one crash of either process | `ResourceExclusive`, `WatchdogReaps`, `CancelOnlyOnRequest`, `RunIsFinal`, `QueueUsed` |
| `DispatchDefault` | the default `max_attempts` 1; two runs, a plan of two cases, a single submission, a rerun, a deleted case, quarantine after 2 | `FinishedRunIsQuiet`, `PassedStands` |
| `FinishedRunRetried` | `max_attempts` 2, no cancellation | `FinishedRunIsQuiet` is violated |
| `CancelledTaskRuns` | one cancellation | `SkippedStands` is violated |
| `ErrorStrandsTask` | one failing call of a worker | `NoTaskStranded` is violated |
| `RecoveryStrandsTask` | a crash of the worker node and one timeout | `NoTaskStranded` is violated |
| `AgentCase` | assertions on step 1, on step 2 and at the end, a check with `min_steps` 2, a click, a wait and navigations to two addresses, either of which, or none, may be the target of the replay; no healing with 4 iterations, or one round with 2; a flaky site and steady ones, on which the exported line of one assertion may be stricter than the assertion | `ReplayTypeOK`, `AssertionsDecide`, `CancelHeeded`, `CallsBounded`, `RepeatsBounded`, `RecordingReplays`, `ScriptReplays`, `ReplayJudgesEachOnce`, `CaseEnds` |
| `Queues` | two items, a worker on the scheduler's host and one on a host whose clock is behind by more than the threshold; each item pushed once, one fault; either queue | `QueuesTypeOK`, `NothingLost`, `MemoryKeeps`, `RedisImplements`, `LateClaimsEnd`, `MemoryImplements` |
| `Console` | two runs of two tasks and one, clients that watch a task and a run, pages of one event; one result rewritten; two overlapping requests for two keys and the URL; three cases, one of them of an older version, two sessions and a process that starts; one failing session or restart | `NothingSkipped`, `DeletionComplete`, `AnalysedOnce`, `PolicyAsAsked`, `ChangesKept`, `FailureExplained`, `UndisturbedStart` |
| `HealForgetsStep` | two rounds of healing, a flaky site | `AssertionsDecide` is violated |
| `ClocksDisagree` | the instance of `Queues` | `OnlyOldRecovered` is violated |

**Bounds.** Two tasks, two workers and one resource make the pairs every
interleaving property speaks of; the hazards listed need two actors and at most
one repetition. `MaxTasks` and `MaxRuns` bound the tables (`CreateRun`),
`MaxTimeouts`, `MaxErrors` and `MaxCrashes` how often time passes and things
fail. Two timeouts are what the watchdog needs, and one failing call or crash
what each of the recovery paths starts from. `IdleBound` cuts the age of a row
where `_watchdog` stops distinguishing; `HistoryLimit` is the `limit(10)` of
`_quarantine`. Deadlock is checked in every run: the tick never stops. The
workers are symmetric (the symmetry is off in `DispatchNormal`, which checks
liveness). A cancellation in `DispatchNormal` would make its liveness check too
large; what its other properties say with cancellations is proved (section 4).

For the agent, two steps with assertions are what nested healing needs, and two
iterations of a healing loop (`HealBudget`, 6 in `_heal`) let it mark a step and
finish. One repetition of an action and one skip (`MaxNoopRepeats` 1 as by
default, `MaxSkippedRepeats` 1 instead of 2) reach both guards within four
iterations. `heal_attempts` is 0 by default and 1 in the second policy; 2 is
`HealForgetsStep`. The lists users write (`Scripts`) mark a step twice, leave
steps out, and contain an unknown tool and a mark of 0. Deadlock is not checked
in these two runs, because a case run ends; that it does is `CaseEnds`.

For the queues one fault is enough to lose a worker between BLMOVE and HSET or
to end a recovery half-way, and the clock runs to three times the threshold
(`Older` 1, `MaxTime` 3), so that claims get late, are recovered, claimed again
and get late again; each item is pushed once, and comes back by recoveries. At
these bounds a behaviour may stop, so deadlock is not checked. In `Console` a page holds
one event (`Limit`, 500 in `api/runs.py` 94), so that every client needs several;
two requests (`MaxAsks`, 4 in `llm.py` 149) tell "try again" from "give up"; one
rewrite (`MaxRewrites`) meets a result before, during and after its analysis; two
changes are what a pair of overlapping sessions commits. `Age` is the order of
creation. One process starts (`Node`), as often as it likes; the theorem is about
any number of them. To save states, results in the part of the events are never
`failed` (an event does not tell), and in the part of the analyses agents
work in one of the two runs (`Analysed`); both runs can be deleted. A behaviour of `Console` shows one part (`part`)
and leaves the others as they start: they share no variable, every property of
the run speaks of one part only, and a step of another part stutters for it.
Its users may stop, so deadlock is not checked. In `AgentCase` one assertion has
no line in the script (`Wordless`), one is `Reread`, none is `Garbled`, and every
action has a line.

**Fairness.** `FairSpec` asks weak fairness of the handlers, of the tick and of
each worker. They are coroutines of an event loop, and each of their waits ends:
`pop` after 20 s, the lock after `lock_wait_seconds`, the tick's sleep after
2 s, the agent by its step budget and the time limits of the LLM client and the
browser. Nothing is asked of users, of time or of faults. No strong fairness is
needed for the lock, because a worker that waits in vain fails its task. For the
agent, `FairSpec` asks weak fairness of the two modes (`run` is one coroutine
whose waits have time limits), and nothing of the user or of exceptions.
`QueuesSpec` asks it of `stuck()`, which the tick calls every two seconds and
whose calls of Redis end; `ConsoleSpec` of each coroutine that analyses a task,
whose requests have a time limit (120 s) and a bounded number. Nothing is asked
of workers, users, sessions that fail or restarts.

**What the runs show.** Without faults no attempt is executed twice, no task is
lost and the statistics add up, with retries and a policy that changes; the
claim of a first attempt stands until its result is written, although earlier
acks come late; what a pass or a worker has read still holds when it commits, so that
the tables go through the steps of `RunLedger` only, each run until it is
cancelled (`LedgerKept`; of a cancelled run the ledger promises nothing, since
`CancelledTaskRuns` shows what becomes of it); and every run finishes. With faults
the locks of a process, the finality of a run and the watchdog hold, and only what
the user cancelled is skipped. (That the watchdog reaps nothing *before* its limit
is its guard and not checked again.) With the default policy of a single
attempt nothing touches a finished run. `FinishedRunIsQuiet` is checked for the
default policy without cancellation only, `PassedStands` without cancellation,
`OneSessionPerAttempt`, `ClaimCoversWork`, `LedgerKept` and `NoTaskStranded`
without timeouts and faults: beyond that the code breaks them, as the last
paragraphs of this section say (crashes and failing calls alone break none of
these but `NoTaskStranded`: section 4).

A case with at most one round of healing passes only when its assertions held at
the last run of each; one answer at most follows a cancellation; although healing
nests, the bill grows by one budget per step that has assertions, not with the
depth, because no step is healed twice; a recording replays on a site that
behaves as before, if it begins where the run did (`SameStart`: the task that
replays has no target, or that of the navigation the recording begins with); and
run and replay end. The exported script passes there too,
and ends on the page of the run, if Python can read it, every action of the
recording has a line, it navigates only once, at its beginning, and none of its
lines is stricter than the platform (`Strict`: only an assertion of `Reread` can
be); and it has every assertion once, apart from those of steps that were
never marked.

Both queues promise what `TaskQueue` says, and the dispatch relies on no more. A
recovery may put back an item whose claim has been renewed since `stuck()` read
it, which the abstract queue admits (`Scan`, `Recover`) and the dispatch survives.
Redis loses an item only when a worker dies between its two commands. Stamps are
`time.monotonic()` of the worker's host (`redisq.py` 35) and compared with that of
the scheduler's (53), which count from different moments. Where a worker's clock
may be behind, `RedisImplements` promises an abstract queue that recovers any
claim (`Punctual` is false), as `ClocksDisagree` confirms; where none is behind,
late claims only. `LateClaimsEnd` speaks of claims that are late by the
scheduler's clock: if that is behind, a dead worker's claim stays for longer.

A polling client misses no event on SQLite, nor on PostgreSQL if it watches a
single task; one that watches a run on PostgreSQL may, since commits need not
come in the order of the numbers. A deleted run leaves nothing unless an agent
or an analysis was under way. Every task that had failed when its run was closed
is analysed once or has an excuse: switched off, run deleted, a body that is no
completion, a failing session, a restart, after which nobody begins again. When
it is written the task may have been put back and have passed; it is about the
failure that closed the run. A failure that is written into
a run that is closed already, as the lock timeout does after a cancellation
(`worker.py` 127-133), is never analysed, since `_complete_runs` looks at running
runs only. The policy is always in its ranges; of a refused request the default
URL stays changed; a request that meets no other does not fail.

A process that starts gives every old row a number of its own if no case is
created and no other start ends meanwhile, and no two rows shared a number.
Otherwise it may fail (its transaction is rolled back), or number rows again
that another start has just numbered: a case created between SELECT MAX and the
UPDATEs has the number the first old row is to get (`db.py` 54-66), and as long
as there is no index two creations may share one (`api/cases.py` 63), after which
every start that finds an old row fails. Edits, cures and recordings keep one another's columns.

**Where code and documents disagree.**

1. `FinishedRunRetried`: a task that fails between the retry pass and the
   completion pass closes its run, and is retried in the next tick.
2. `CancelledTaskRuns`: a queued task cancelled while a worker starts it is
   executed; the commit of RUNNING overwrites SKIPPED. A cancellation can
   likewise overwrite PASSED, and a lock timeout SKIPPED.
3. `ErrorStrandsTask`: the ack after an exception leaves a QUEUED row that the
   scheduler never retries.
4. `RecoveryStrandsTask`: recovery pushes the item before it resets the row.
5. `HealForgetsStep`: with two rounds of healing or more, a step marked in a round
   that fails is never asserted again, and the case may pass although that
   assertion failed the last time it was run.
6. `ClocksDisagree`: on two machines `stuck()` puts back what has just been
   claimed, against "认领超过阈值的任务" (`queue/base.py` 47).

Seen in the model and not kept as runs of their own: `stuck()` recovers the task
of a worker that is merely slow, which then has two sessions of one attempt
(`OneSessionPerAttempt` with two timeouts); the late ack of a worker drops the
claim of the retry that follows it, so that `ClaimCoversWork` speaks of first
attempts; a crash or an exception between the commit of rows and their pushes
(`orchestrator.py` 122, 271) strands them; `cancel_run` may write SKIPPED over a
result that comes in between its read and its commit (187); a
run whose cases are all deleted never finishes; quarantine rewrites tasks of
finished runs, so that the rows and the stored statistics part. In the agent, a
round of healing may cost more than the 6 calls of `src/README.md` 456, as it may
start others; an action is executed once per loop, not once per case (`agent.py`
329); and `min_steps` counts evaluated assertions as well as actions (603). In
the cases, an edit of the mode and a cure that overlap leave the steps of one and
the mode of the other (`api/cases.py` 106, 164). The replay goes to the target of
its task first, since exploration had begun there, says `agent.py` 466; but it
begins on a blank page (141-157), so that a recording that does not begin with a
navigation replays elsewhere. In the export, `value_after` is not "与平台
value_compare 断言同语义" (`codegen.py` 45), as said in section 2; later
navigations (`codegen.py` 158-162), `browser_click_link` and the assertions bound
to a step without a mark (185-191) have no line; and a case that passes with an
assertion that compares by `=` or with `007` (taken for `==` and 7 by the
platform, `assertions.py` 259-266) is exported as a program Python cannot read
(`codegen.py` 107-113), although `src/README.md` 518 says that scripts run on
their own: TLC finds one as soon as `Garbled` is not empty.

## 4. What TLAPS proves

The theorems hold for every number of tasks, runs, workers and processes, every
plan and policy, every bound on timeouts, failing calls and crashes, from
`PlatformAssumption` and `RunApiAssumption` (the shapes of the constants).

- `TypesCorrect`: `Spec => []TypeOK`, one lemma per actor and a step per action.
  `SubmissionCreates` reduces the three submissions to
  `CreateRun`.
- `SafetyHolds`: `Spec => []SafetyInv`. The safety properties are not inductive;
  `SafetyInv` adds to `TypeOK` what they silently rely on:
  - `Known`: what queue, workers, tick and handlers hold are existing rows, so
    that the rows a submission creates are in nobody's hands (`RowsKept`);
  - `Locked`: a worker at work on a task with a resource holds the lock of its
    process, whatever the row says by then;
  - `OpenRuns`: the runs the completion pass has yet to see are running, and
    the one it is about to close is not among them;
  - `Requested`: wherever a cancellation is in the making (registry, rows about
    to be skipped, a stopped agent, a tally with skipped tasks) the user asked
    for it.
- `ResourcesExclusive`, `RunsAreFinal`, `CancellationsRequested`: the properties
  `ResourceExclusive`, `RunIsFinal` and `CancelOnlyOnRequest` from it.
- `StatsCoverRuns`: `Spec => []StatsCoverRun`, without any hypothesis. What the
  completion pass counts is a partition of the run's tasks at the moment it
  looks (`CountedApart`, `SettledCounted`), and a finished run gets no task. That a task may be
  retried after it was counted does not contradict it: the statistics are those
  of the verdict.

`DispatchDelivery` proves what holds while the program works as it is meant to.
Its hypotheses are on the constants: the runs that expect a violation and the
paragraphs after them show what happens without.
`InTime` (`MaxTimeouts = 0`) says that no task runs for longer than
`task_timeout_seconds`; calls may fail, processes crash, users cancel and the
policy change as often as they like. `NoFaults` excludes failing calls and
crashes, `SingleAttempt` is the default policy, `Cancellable = {}` says that
nobody cancels.

- `DeliveredOnce`: under `InTime`, `DeliveryInv`. The core is `OneDelivery`: a
  task is at one place at most, committed and not pushed, due for its push, in
  the queue once, or in one worker's hands. `RowFits` says which statuses its row
  may have there (a cancellation writes it at any time, so a worker may meet
  `skipped`), and that rows the tick is about to retry or quarantine are in
  nobody's hands; `AttemptsLeft` that every delivery is an attempt without a
  session. `NothingLate` is what `InTime` gives: neither `stuck()` nor the
  watchdog finds anything.
- `AttemptsRunOnce`: `OneSessionPerAttempt` under `InTime`.
- `NothingStranded`: `NoTaskStranded` under `InTime` and `NoFaults`, by
  `WaitersDelivered`.
- `ResultsStand`: under `InTime` the result PASSED of a run that is not cancelled
  is not overwritten; `PassedTasksStand`: `PassedStands`, if nobody cancels.
- `ClaimsCoverWork`: `ClaimCoversWork` under `InTime`, with retries, crashes and
  failing calls, by `OwnClaim`: a worker in whose hands a task is in its first
  attempt has it alone and claimed, and until then nobody has it. An ack that
  comes late, when the task has been retried and popped again, can therefore only
  drop the claim of a later attempt. That it can is what the restriction to first
  attempts says.
- `FinishedRunsAreQuiet`: `FinishedRunIsQuiet` under `InTime`, `SingleAttempt` and
  without cancellation, by `Quiet`, which speaks of the run that is about to be
  closed as well.

- `RunsKeepTheLedger`: under `InTime`, `Spec => LedgerKept`: the dispatch
  implements `RunLedger`, with failing calls, crashes, retries, cancellations and
  changes of the policy. The mapping shows a cancelled run and its tasks as
  withdrawn and every other row as it is. It rests on `DeliveryInv`, on `Decided`
  (what a pass or a worker has read of the rows it is about to write still holds:
  the tasks to be retried or quarantined are failed, with the attempts they had,
  and those of the run to be closed have ended, as counted) and on `Begun` (only
  a run that exists is cancelled). `WorkerRecords`, `BatchRecords`,
  `CloseRecords` and `OtherRecords` map the steps of each actor; most change no
  row (`LedgerStutters`), or only rows of cancelled runs. Without `InTime` the
  theorem is false: a task recovered from a slow worker has two sessions of one
  attempt.
- `QueueIsUsed`: `Spec => QueueUsed`, one lemma per operation of the abstract
  queue (`PushIsPush`, `AckIsAck`, `TakeIsPop`, ...), one per actor. It needs no
  hypothesis.
- `WatchdogIsThorough`: `WatchdogReaps`, by `Reaping`: while the pass has rows
  to write, every row idle for too long is among those it has loaded.

About the two queues, for any items, workers, hosts, clocks, faults and bounds,
from `ClientsAssumption` and `HostAssumption`:

- `RedisTypesCorrect`: `RedisSpec => []RedisTypeOK`.
- `RedisQueueImplements`: `RedisSpec => RedisImplements`, without a hypothesis on
  the clocks: which claims the abstract queue may recover depends on them
  (`NoneBehind`). The lemmas `WaitingAppended`, `ReadyMoved`, `ReadyTaken` and `ReadyKept` say what
  LPUSH, BLMOVE and HSET do to the number of times an item is ready, which is a
  sum of two cardinalities; `ClaimsKept` and `ClaimEnded` do it for the claims,
  and one lemma per actor maps its steps. Time needs `TimeImplements`: claims
  become late and never fresh. A claim's age is that of `since`, its true moment, and a
  stamp is that moment by the worker's clock (`Stamped`): if none is behind, a stamp
  older than the threshold belongs to a claim that is.
- `RecoveryIsPunctual`: `NoneBehind => (RedisSpec => OnlyOldRecovered)`, the
  complement of `ClocksDisagree`: on one machine only late claims are recovered,
  whatever comes between the three reads of `stuck()`.
- `NothingElseLost`: `RedisSpec => []NothingLost`. It needs `InSomeList`, because
  an item out of sight is counted against `lost` only if a worker had it; the
  lemmas say of every command how the set `Unseen` grows, by one item where a
  worker dies between BLMOVE and HSET and by none anywhere else.
- `MemoryLosesNothing`: `MemorySpec => []MemoryKeeps`, and `MemoryQueueImplements`:
  `MemorySpec => MemoryImplements`, with the same counts of an item's places and
  the end of the process as the loss the abstract queue admits (`Volatile`).
- `QueuesTypesCorrect`: `QueuesSpec => []QueuesTypeOK`, since a deployment has one
  of the two.

About the settings, for any keys, ranges, values and clients, from
`PolicyAssumption`: `PolicyIsAsAsked`, `PolicySpec => []PolicyAsAsked`. By
`Progress`: a request that is about to write has passed the check; as long as it
is alone the rows are as it found them, and those its session has loaded are
still current, of the default URL as of the policy; therefore it cannot fail.

About the cases, for any sessions, cases, starting processes, orders of creation
and bounds:

- `EditsAreKept`: `BookSpec => []ChangesKept`. A session that is about to commit
  has read contents no newer than the row (`ReadsNotNewer`), so that a column it
  thinks it changed gets what is new, and a column it leaves alone keeps what
  others wrote (`ColumnsLatest`).
- `StartsNumberAll`: `BookSpec => UndisturbedStart`, by what a start knows while it
  is undisturbed (`StillFound`): every row without a number is among those it has
  found, and every number is at most the highest it has found. The numbers it gives
  are distinct and above (`NumbersGiven`, `HighestBounds`); so no UPDATE and no
  index refuses them, unless two rows shared a number before.

About the records of runs, for any tasks, runs, watchers, page sizes and bounds,
from `RecordsAssumption` and `AnalysisAssumption`; `FailureSpec` lets events and
analyses interleave, of which the two parts of `Console` are restrictions:

- `PollingMissesNothing`: `FailureSpec => []NothingSkipped`. It needs
  `NumbersAhead` (a number on its way to a commit is above those of the events a
  watcher may have passed: all of them in SQLite, which has one writer, those of
  the same task in PostgreSQL) and `CursorsOnEvents` (a cursor stands on an
  event that exists as long as the watched run does, so that SQLite never uses
  a number again below it). `MaxOfBounded` and `PageIsPrefix` are the lemmas
  about the highest number and the pages.
- `DeletionLeavesNothing`: `DeletionComplete`, by `AgentsAtWork` and
  `StagesInOrder`: who may still write is at work on a task that exists or that
  the deletion has met at work.
- `FailuresAnalysedOnce`: `AnalysedOnce`, by `StagesInOrder`, which ties the
  stage of an analysis to the requests, the row, the run that is closed and to
  what it found failed; results may be rewritten at any time.

About a case run, for every case, site, list of steps and budget, from
`CaseAssumption`, `LoopAssumption` and `ReplayAssumption`:

- `AgentTypes`: `Spec => [](ReplayTypeOK /\ Stack)`. The types alone are not
  inductive: that the innermost loop exists where the code uses it is `Stack`,
  the shape of the nested calls. The lemmas `StackUpdated`, `StackPopped` and
  `StackPushed` say what the three kinds of step do to it.
- `CancellationHeeded`: `CancelHeeded`, by `AtMostOneLate`: while an answer is
  awaited no late one has been handled, and nothing asks after a cancellation.
- `OneRoundDecides`: `AssertionsDecide`, assuming that no policy asks for more
  than one round. By `Covered`: either a failure is on its way that nobody can
  swallow (`Doomed`), or every marked assertion that does not hold is among the
  aims of an open healing (`Pending`). It is the assumption that makes a
  `CaseFailed` in a round final.
- `ReplayJudges`: `ReplayJudgesEachOnce`, by `ReplayJudged`: at any point of a
  replay exactly the assertions of the marked steps have been run, once, and held.
- `RepeatsAreBounded` and `CallsAreBounded`: `RepeatsBounded` and `CallsBounded`,
  for any depth of nesting. Each open loop is worth what it may still spend
  (`Room`: executions of an action; `Cost`: calls of the model), the stack is
  worth their sum, and what is spent plus that sum never exceeds what is granted
  (`RepeatsSpent`, `CallsCovered`). `Worth` states the sum by partial sums that
  exist from the bottom of the stack up, so that pushing, popping and updating
  the innermost loop (`WorthPushed`, `WorthPopped`, `WorthSet`) need no induction.
  For the calls a healing is paid for when its step is marked, and `Reserve`
  keeps the closing healing's share until it opens.
- `RecordingsReplay`: `RecordingReplays`, for every target of the replay that
  `SameStart` admits. `Recorded`: as
  long as nothing was healed, the recording of the main loop is a trail
  (`Trail`), points of page, step count and marked steps from the blank page on,
  where each entry leads to the next point in one way only, with its assertions
  holding and no completion check cutting in, and the trail ends where the run
  is. It matters here that a healing loop that fails takes the main loop with
  it, and one that succeeds counts as a heal. `ReplayTracks`: the replay stands
  on that trail at its position, so that none of its steps can fail.

- `ScriptsReplay`: `ScriptReplays`, for every name, every assertion without a line
  or with an unreadable one, and every site, which may answer the lines of
  `Reread` as it likes. Unless one of the lines is stricter there than its
  assertion (`Strict`, the exception in the property), the trail of the
  recording is also that of its script (`ScriptFollowsTrail`): entry by entry the
  line leads from the page of a point to that of the next (`LeadReplayed`), and
  what the lines compute one after the other is what the trail has
  (`PlayedFollows`). That an assertion has one place rests on `MarkedOnce`: a
  trail forgets no mark. Both are inductions along a list. The induction theorems
  of the library take the statement as an operator, which the provers cannot
  instantiate; `Climb` says the same of a set of positions and follows from the
  smallest number outside of it (`Smallest`, from `WFMin`).

While the invariants were being found TLC checked `SafetyInv`, `DeliveryInv`,
`Decided`, `WaitersDelivered`, `OwnClaim`, `Quiet`,
`InSomeList`, and `RepeatsSpent`, `CallsCovered`, `Recorded` and `ReplayTracks`
with their sums and trails computed by recursion, on instances of the runs.

**Model-checked only.** Liveness under fairness (`EveryRunFinishes`, `CaseEnds`,
`LateClaimsEnd`, `FailureExplained`) and `ENABLED` are beyond this prover. Every
invariant and every action property of a passing run has a theorem; where the
theorem has a hypothesis on the constants, the runs show what happens without
it. No module declares a RECURSIVE operator: counts are cardinalities, and what a
list of lines does is a recursive function.

## 5. Plan

Done: the dispatch core with its theorems; the agent, its replay and the
exported script; the two queues, their abstract specification and the seam to
the dispatch; the ledger of runs, implemented by the dispatch; events, analyses,
settings, cases and the start of processes.

What would add most from here:

1. An abstract specification of a case run (assertions, verdict, bill) that the
   worker of `Dispatch` can be composed with.
2. The deletion of runs in `Dispatch` and in `RunLedger`; and a weaker ledger that
   holds with timeouts, in which an attempt may be begun again.
3. Graceful shutdown: the cancellation of the coroutines in `lifespan` while
   they hold items, locks and sessions.

**Not modelled.** The browser, the console, reports, trends and the Allure
export, HTTP and file I/O, whose behaviour lies outside this code or is
formatting; the normalisation of assertions and their extraction from text, the
conversation of the agent and the wording of scripts, which work on strings and
keep no state; the rows of plans and of healed locators, which are written once
and read as they are; configuration and schemas.
