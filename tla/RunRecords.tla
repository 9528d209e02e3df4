----------------------------- MODULE RunRecords -----------------------------
(***************************************************************************)
(* What is kept of the runs, and who reads it: agents emit events          *)
(* (events.py), clients poll them by a cursor and users delete runs        *)
(* (api/runs.py). A session of the database that inserts an event gets its *)
(* seq first and commits later.                                            *)
(***************************************************************************)
EXTENDS Naturals, FiniteSets, FiniteSetsExt

CONSTANTS Task, Run, RunOf,
          Watcher,   \* polling clients, each by the set of tasks it asks for
          Limit,     \* events in an answer (500)
          MaxSeq,    \* bound on the numbers given to events
          MaxRewrites  \* bound on the results that others than agents write

ASSUME RecordsAssumption ==
  /\ IsFiniteSet(Task) /\ RunOf \in [Task -> Run]
  /\ Watcher \subseteq SUBSET Task \ {{}}
  /\ \A W \in Watcher : \E r \in Run : \A t \in W : RunOf[t] = r
  /\ Limit \in Nat \ {0} /\ MaxSeq \in Nat /\ MaxRewrites \in Nat

VARIABLES
  engine,     \* "sqlite" or "postgres"
  live,       \* the runs whose rows exist
  agents,     \* the tasks whose agent is at work
  result,     \* "none" (to be executed), "done" (passed, skipped) or "failed"
  rewrites,   \* how often somebody else than an agent has changed a result
  events,     \* step_event, each event with the watchers that have got it
  inserting,  \* the seq of an event not committed yet, 0 for none
  serial,     \* the last number of the sequence of PostgreSQL
  cursor,     \* the after of each watcher
  busy        \* tasks at work, or being analysed, when their run was deleted

recordsVars == <<engine, live, agents, result, rewrites, events, inserting, serial, cursor, busy>>

TasksOf(r) == {t \in Task : RunOf[t] = r}
Exists(t) == RunOf[t] \in live

RecordsInit ==
  /\ engine \in {"sqlite", "postgres"}
  /\ live = Run /\ agents = {} /\ result = [t \in Task |-> "none"] /\ rewrites = 0
  /\ events = {} /\ inserting = [t \in Task |-> 0] /\ serial = 0
  /\ cursor = [W \in Watcher |-> 0] /\ busy = {}

(* A worker whose task is gone does not get past its first session. A task *)
(* may be executed again after it was put back, its run closed or not.     *)
StartAgent(t) ==
  /\ Exists(t) /\ result[t] = "none" /\ t \notin agents
  /\ agents' = agents \cup {t}
  /\ UNCHANGED <<engine, live, result, rewrites, events, inserting, serial, cursor, busy>>

(* Results are not final, and nobody asks whether the run is closed. The   *)
(* recovery puts back whatever it finds and the retry what failed; a       *)
(* worker without the lock and the watchdog write FAILED over what there   *)
(* is, and a cancellation SKIPPED, which it may have decided long before.  *)
Rewrite(t, to) ==
  /\ Exists(t) /\ rewrites < MaxRewrites /\ result[t] # to
  /\ result' = [result EXCEPT ![t] = to]
  /\ rewrites' = rewrites + 1
  /\ UNCHANGED <<engine, live, agents, events, inserting, serial, cursor, busy>>
PutBack(t) == Rewrite(t, "none")
Fail(t) == Rewrite(t, "failed")
Skip(t) == Rewrite(t, "done")

(* SQLite numbers a row one above the highest in the table, and has one    *)
(* writer at a time, until its commit. PostgreSQL counts on by itself.     *)
Writing == \E t \in Task : inserting[t] # 0
NextSeq == IF engine = "sqlite" THEN Max({e.seq : e \in events} \cup {0}) + 1
                                ELSE serial + 1

(* emit: the INSERT, and the commit or a failure.                          *)
Insert(t) ==
  /\ t \in agents /\ inserting[t] = 0
  /\ engine = "sqlite" => ~Writing
  /\ NextSeq <= MaxSeq
  /\ inserting' = [inserting EXCEPT ![t] = NextSeq]
  /\ serial' = IF engine = "postgres" THEN NextSeq ELSE serial
  /\ UNCHANGED <<engine, live, agents, result, rewrites, events, cursor, busy>>

Commit(t) ==
  /\ inserting[t] # 0
  /\ events' = events \cup {[seq |-> inserting[t], task |-> t, got |-> {}]}
  /\ inserting' = [inserting EXCEPT ![t] = 0]
  /\ UNCHANGED <<engine, live, agents, result, rewrites, serial, cursor, busy>>

EmitFails(t) ==
  /\ inserting[t] # 0
  /\ inserting' = [inserting EXCEPT ![t] = 0]
  /\ UNCHANGED <<engine, live, agents, result, rewrites, events, serial, cursor, busy>>

(* The closing session of the worker, which raises if the task is gone.    *)
EndAgent(t, outcome) ==
  /\ t \in agents /\ inserting[t] = 0
  /\ agents' = agents \ {t}
  /\ result' = IF Exists(t) THEN [result EXCEPT ![t] = outcome] ELSE result
  /\ UNCHANGED <<engine, live, rewrites, events, inserting, serial, cursor, busy>>

(* get_events: the next events after the cursor, which then stands on the  *)
(* last of them. Mutant: the latest events are sent.                       *)
After(W) == {e \in events : e.task \in W /\ e.seq > cursor[W]}
PageLatest(W) == {e \in After(W) : Cardinality({f \in After(W) : f.seq > e.seq}) < Limit}
Page(W) == {e \in After(W) : Cardinality({f \in After(W) : f.seq < e.seq}) < Limit}

Poll(W) ==
  /\ \E t \in W : Exists(t)
  /\ Page(W) # {}
  /\ cursor' = [cursor EXCEPT ![W] = Max({e.seq : e \in Page(W)})]
  /\ events' = (events \ Page(W)) \cup {[e EXCEPT !.got = @ \cup {W}] : e \in Page(W)}
  /\ UNCHANGED <<engine, live, agents, result, rewrites, inserting, serial, busy>>

(* _delete_runs: one transaction over all tables.                          *)
DeleteRecords(r, analysing) ==
  /\ r \in live
  /\ engine = "sqlite" => ~Writing
  /\ live' = live \ {r}
  /\ events' = {e \in events : RunOf[e.task] # r}
  /\ busy' = busy \cup (TasksOf(r) \cap (agents \cup analysing))
  /\ UNCHANGED <<engine, agents, result, rewrites, inserting, serial, cursor>>

RecordsStep ==
  \/ \E t \in Task : \/ StartAgent(t) \/ Insert(t) \/ Commit(t) \/ EmitFails(t)
                     \/ \E outcome \in {"done", "failed"} : EndAgent(t, outcome)
                     \/ PutBack(t) \/ Fail(t) \/ Skip(t)
  \/ \E W \in Watcher : Poll(W)

-----------------------------------------------------------------------------
RecordsTypeOK ==
  /\ engine \in {"sqlite", "postgres"}
  /\ live \subseteq Run /\ agents \subseteq Task
  /\ result \in [Task -> {"none", "done", "failed"}] /\ rewrites \in Nat
  /\ events \subseteq [seq : Nat \ {0}, task : Task, got : SUBSET Watcher]
  /\ inserting \in [Task -> Nat] /\ serial \in Nat
  /\ cursor \in [Watcher -> Nat] /\ busy \subseteq Task

(* A polling client misses nothing: every event its cursor has passed was  *)
(* sent to it, though events are numbered before they are committed and    *)
(* SQLite uses the numbers of deleted events again. PostgreSQL commits in  *)
(* any order, so there it holds for a client that watches a single task.   *)
NothingSkipped ==
  \A e \in events : \A W \in Watcher :
    /\ e.task \in W /\ e.seq <= cursor[W] /\ Exists(e.task)
    /\ engine = "sqlite" \/ Cardinality(W) = 1
    => W \in e.got
=============================================================================
