---------------------------- MODULE ConsoleProofs ----------------------------
(***************************************************************************)
(* What the parts of the console promise, for any number of tasks, runs,   *)
(* watchers, keys, cases and overlapping requests and for any bounds: the  *)
(* records of runs (what a deletion leaves, what a client that polls has   *)
(* got, how often a failure is analysed), the policy and the table of      *)
(* cases. Each is about the specification of its part.                     *)
(***************************************************************************)
EXTENDS Console, FiniteSetTheorems, WellFoundedInduction, TLAPS

(* The events as they are kept. Their numbers are bounded, those on their  *)
(* way to a commit too.                                                    *)
Event == [seq : 1..MaxSeq, task : Task, got : SUBSET Watcher]
EventsTyped ==
  /\ events \subseteq Event /\ IsFiniteSet(events)
  /\ inserting \in [Task -> 0..MaxSeq] /\ serial \in 0..MaxSeq

(* An agent that inserts is at work, and the task it is at work on exists  *)
(* unless the deletion of its run has noted it.                            *)
AgentsAtWork ==
  \A t \in Task :
    /\ inserting[t] # 0 => t \in agents
    /\ t \in agents => Exists(t) \/ t \in busy

(* A number that is not committed is above those a watcher may have passed *)
(* already: above all of them in SQLite, which has one writer at a time,   *)
(* and above those of the same task in PostgreSQL.                         *)
Ahead(t, e) == engine = "sqlite" \/ e.task = t => e.seq < inserting[t]
NumbersAhead ==
  /\ engine = "sqlite" =>
       \A t, u \in Task : inserting[t] # 0 /\ inserting[u] # 0 => t = u
  /\ engine = "postgres" => /\ \A t \in Task : inserting[t] <= serial
                            /\ \A e \in events : e.seq <= serial
  /\ \A t \in Task : inserting[t] # 0 => \A e \in events : Ahead(t, e)

(* A cursor stands on an event, as long as there are any for the watcher.  *)
StandsOnEvent(W) ==
  \/ cursor[W] = 0
  \/ \E e \in events : e.task \in W /\ e.seq = cursor[W]
  \/ \A t \in W : ~Exists(t)
CursorsOnEvents == \A W \in Watcher : StandsOnEvent(W)

(* What the stage of an analysis says of its requests and its row.         *)
StagesInOrder ==
  \A t \in Task :
    /\ stage[t] # "none" => t \in toExplain /\ RunOf[t] \in finished
    /\ stage[t] \in {"none", "started"} => asks[t] = 0
    /\ stage[t] = "asking" => asks[t] < MaxAsks
    /\ stage[t] # "ended" => analyses[t] = 0
    /\ stage[t] \in {"asking", "writing"} => Exists(t) \/ t \in busy
    /\ analyses[t] > 0 => stage[t] = "ended"

EventsInv == /\ RecordsTypeOK /\ EventsTyped /\ AgentsAtWork
             /\ NumbersAhead /\ CursorsOnEvents /\ NothingSkipped
AnalysesInv == /\ AnalysisTypeOK /\ StagesInOrder /\ AnalysedOnce
RecordsInv == EventsInv /\ AnalysesInv /\ DeletionComplete

-----------------------------------------------------------------------------
(* A set of numbers below a bound has a maximum.                           *)
LEMMA MaxOfBounded ==
  ASSUME NEW n \in Nat, NEW S \in SUBSET (0..n), S # {}
  PROVE  Max(S) \in S /\ \A y \in S : Max(S) >= y
<1> DEFINE T == {n - x : x \in S}
<1>1. T \subseteq Nat /\ T # {}
  OBVIOUS
<1>2. PICK m \in T : \A y \in T : <<y, m>> \notin OpToRel(<, Nat)
  BY <1>1, NatLessThanWellFounded, WFMin, Zenon
<1>3. PICK x \in S : m = n - x
  OBVIOUS
<1>4. ASSUME NEW y \in S PROVE x >= y
  <2>1. n - y \in T /\ n - y \in Nat /\ m \in Nat
    BY <1>1
  <2>2. ~(n - y < m)
    BY <1>2, <2>1 DEF OpToRel
  <2> QED
    BY <1>3, <2>2
<1>5. \E z \in S : \A y \in S : z >= y
  BY <1>4
<1> QED
  BY <1>5 DEF Max

LEMMA InitialRecords == FailureInit => RecordsInv
<1> SUFFICES ASSUME FailureInit PROVE RecordsInv
  OBVIOUS
<1> USE RecordsAssumption, AnalysisAssumption DEF FailureInit, RecordsInit, AnalysisInit
<1>1. RecordsTypeOK /\ EventsTyped
  BY FS_EmptySet DEF RecordsTypeOK, EventsTyped
<1>2. AgentsAtWork /\ NumbersAhead /\ CursorsOnEvents /\ NothingSkipped
  BY DEF AgentsAtWork, NumbersAhead, CursorsOnEvents, StandsOnEvent, NothingSkipped
<1>3. AnalysisTypeOK /\ StagesInOrder /\ AnalysedOnce
  BY DEF AnalysisTypeOK, Stage, StagesInOrder, AnalysedOnce
<1>4. DeletionComplete
  BY DEF DeletionComplete
<1> QED
  BY <1>1, <1>2, <1>3, <1>4 DEF RecordsInv, EventsInv, AnalysesInv

-----------------------------------------------------------------------------
(* The steps of the agents.                                                *)
LEMMA StartAgentKeeps ==
  ASSUME EventsInv, NEW t \in Task, StartAgent(t)
  PROVE  EventsInv'
<1> USE DEF EventsInv, StartAgent
<1>1. RecordsTypeOK' /\ EventsTyped'
  BY DEF RecordsTypeOK, EventsTyped
<1>2. AgentsAtWork'
  BY DEF AgentsAtWork, Exists, RecordsTypeOK
<1>3. NumbersAhead'
  BY DEF NumbersAhead, Ahead
<1>4. CursorsOnEvents' /\ NothingSkipped'
  BY DEF CursorsOnEvents, StandsOnEvent, NothingSkipped, Exists
<1> QED
  BY <1>1, <1>2, <1>3, <1>4

(* The number of an insert is above the numbers it has to be above.        *)
LEMMA NextSeqAhead ==
  ASSUME EventsInv
  PROVE  /\ NextSeq \in Nat \ {0}
         /\ \A e \in events : e.seq < NextSeq
         /\ engine = "postgres" => NextSeq = serial + 1
<1>0. MaxSeq \in Nat
  BY RecordsAssumption
<1>1. CASE engine = "sqlite"
  <2> DEFINE S == {e.seq : e \in events} \cup {0}
  <2>1. S \in SUBSET (0..MaxSeq) /\ S # {}
    BY <1>0 DEF EventsInv, EventsTyped, Event
  <2>2. Max(S) \in S /\ \A y \in S : Max(S) >= y
    BY <1>0, <2>1, MaxOfBounded
  <2>3. NextSeq = Max(S) + 1
    BY <1>1 DEF NextSeq
  <2>4. \A e \in events : e.seq \in S
    OBVIOUS
  <2> HIDE DEF S
  <2>5. Max(S) \in 0..MaxSeq /\ \A e \in events : e.seq \in 0..MaxSeq
    BY <2>1, <2>2, <2>4
  <2>6. ASSUME NEW e \in events PROVE e.seq < NextSeq
    <3>1. Max(S) >= e.seq
      BY <2>2, <2>4
    <3> QED
      BY <1>0, <2>3, <2>5, <3>1
  <2> QED
    BY <1>0, <1>1, <2>3, <2>5, <2>6
<1>2. CASE engine = "postgres"
  BY <1>0, <1>2 DEF NextSeq, EventsInv, EventsTyped, Event, NumbersAhead
<1> QED
  BY <1>1, <1>2 DEF EventsInv, RecordsTypeOK

LEMMA InsertKeeps ==
  ASSUME EventsInv, NEW t \in Task, Insert(t)
  PROVE  EventsInv'
<1> USE DEF EventsInv
<1>0. MaxSeq \in Nat /\ NextSeq \in 1..MaxSeq
  BY RecordsAssumption, NextSeqAhead DEF Insert
<1>1. RecordsTypeOK' /\ EventsTyped'
  BY <1>0 DEF RecordsTypeOK, EventsTyped, Insert
<1>2. AgentsAtWork'
  BY DEF AgentsAtWork, Exists, EventsTyped, Insert
<1>3. NumbersAhead'
  <2>1. ASSUME engine = "sqlite", NEW u \in Task, NEW v \in Task,
               inserting'[u] # 0, inserting'[v] # 0
        PROVE  u = v
    BY <2>1 DEF Insert, Writing, EventsTyped
  <2>2. ASSUME engine = "postgres"
        PROVE  /\ \A u \in Task : inserting'[u] <= serial'
               /\ \A e \in events : e.seq <= serial'
    BY <1>0, <2>2, NextSeqAhead DEF Insert, NumbersAhead, EventsTyped, Event
  <2>3. ASSUME NEW u \in Task, inserting'[u] # 0, NEW e \in events
        PROVE  Ahead(u, e)'
    <3>1. CASE u = t
      BY <3>1, NextSeqAhead DEF Insert, Ahead, EventsTyped
    <3>2. CASE u # t
      BY <2>3, <3>2 DEF Insert, Ahead, EventsTyped, NumbersAhead
    <3> QED
      BY <3>1, <3>2
  <2> QED
    BY <2>1, <2>2, <2>3 DEF NumbersAhead, Insert
<1>4. CursorsOnEvents' /\ NothingSkipped'
  BY DEF CursorsOnEvents, StandsOnEvent, NothingSkipped, Exists, Insert
<1> QED
  BY <1>1, <1>2, <1>3, <1>4

LEMMA EmitFailsKeeps ==
  ASSUME EventsInv, NEW t \in Task, EmitFails(t)
  PROVE  EventsInv'
<1> USE DEF EventsInv, EmitFails
<1>1. RecordsTypeOK' /\ EventsTyped'
  BY RecordsAssumption DEF RecordsTypeOK, EventsTyped
<1>2. AgentsAtWork'
  BY DEF AgentsAtWork, Exists, EventsTyped
<1>3. NumbersAhead'
  BY DEF NumbersAhead, Ahead, EventsTyped
<1>4. CursorsOnEvents' /\ NothingSkipped'
  BY DEF CursorsOnEvents, StandsOnEvent, NothingSkipped, Exists
<1> QED
  BY <1>1, <1>2, <1>3, <1>4

(* Results are of no concern to the events.                                *)
LEMMA ResultKeeps ==
  ASSUME EventsInv, NEW t \in Task, NEW to \in {"none", "done", "failed"},
         EndAgent(t, to) \/ Rewrite(t, to)
  PROVE  EventsInv'
<1> USE DEF EventsInv, EndAgent, Rewrite
<1>1. RecordsTypeOK' /\ EventsTyped'
  BY DEF RecordsTypeOK, EventsTyped
<1>2. AgentsAtWork'
  BY DEF AgentsAtWork, Exists, RecordsTypeOK
<1>3. NumbersAhead'
  BY DEF NumbersAhead, Ahead
<1>4. CursorsOnEvents' /\ NothingSkipped'
  BY DEF CursorsOnEvents, StandsOnEvent, NothingSkipped, Exists
<1> QED
  BY <1>1, <1>2, <1>3, <1>4

(* A commit: no watcher that asks for the task has passed the number.      *)
LEMMA CommitKeeps ==
  ASSUME EventsInv, NEW t \in Task, Commit(t)
  PROVE  EventsInv'
<1> USE DEF EventsInv
<1> DEFINE new == [seq |-> inserting[t], task |-> t, got |-> {}]
<1>0. /\ MaxSeq \in Nat /\ inserting[t] \in 1..MaxSeq /\ new \in Event
      /\ events' = events \cup {new}
  BY RecordsAssumption DEF Commit, EventsTyped, Event
<1>1. RecordsTypeOK' /\ EventsTyped'
  <2>1. IsFiniteSet(events')
    BY <1>0, FS_AddElement DEF EventsTyped
  <2>2. events' \subseteq Event
    BY <1>0 DEF EventsTyped
  <2>3. events' \subseteq [seq : Nat \ {0}, task : Task, got : SUBSET Watcher]
    BY <1>0, <2>2 DEF Event
  <2> QED
    BY <1>0, <2>1, <2>2, <2>3 DEF Commit, RecordsTypeOK, EventsTyped
<1>2. AgentsAtWork'
  BY DEF AgentsAtWork, Exists, EventsTyped, Commit
<1>3. NumbersAhead'
  <2>1. \A u, v \in Task : engine = "sqlite" /\ inserting'[u] # 0 /\ inserting'[v] # 0 => u = v
    BY DEF NumbersAhead, EventsTyped, Commit
  <2>2. engine = "postgres" => /\ \A u \in Task : inserting'[u] <= serial
                               /\ \A e \in events' : e.seq <= serial
    BY <1>0 DEF NumbersAhead, EventsTyped, Commit
  <2>3. ASSUME NEW u \in Task, inserting'[u] # 0, NEW e \in events'
        PROVE  Ahead(u, e)'
    <3>1. u # t /\ inserting'[u] = inserting[u] /\ engine' = engine
      BY <2>3 DEF EventsTyped, Commit
    <3>2. CASE e = new
      <4>1. engine # "sqlite" /\ e.task # u
        BY <2>3, <3>1, <3>2, <1>0 DEF NumbersAhead
      <4> QED
        BY <3>1, <4>1 DEF Ahead
    <3>3. CASE e \in events
      BY <2>3, <3>1, <3>3 DEF NumbersAhead, Ahead
    <3> QED
      BY <1>0, <3>2, <3>3
  <2> QED
    BY <2>1, <2>2, <2>3 DEF NumbersAhead, Commit
<1>4. CursorsOnEvents'
  BY <1>0 DEF CursorsOnEvents, StandsOnEvent, Exists, Commit
<1>5. NothingSkipped'
  <2> SUFFICES ASSUME NEW e \in events', NEW W \in Watcher,
                      e.task \in W, e.seq <= cursor[W], Exists(e.task),
                      engine = "sqlite" \/ Cardinality(W) = 1
               PROVE  W \in e.got
    BY DEF NothingSkipped, Commit, Exists
  <2>1. CASE e \in events
    BY <2>1 DEF NothingSkipped
  <2>2. CASE e = new
    <3>1. PICK f \in events : f.task \in W /\ f.seq = cursor[W]
      <4>1. cursor[W] # 0
        BY <1>0, <2>2 DEF RecordsTypeOK
      <4> QED
        BY <4>1 DEF CursorsOnEvents, StandsOnEvent
    <3>2. CASE engine = "sqlite"
      BY <1>0, <2>2, <3>1, <3>2 DEF NumbersAhead, Ahead, EventsTyped, Event
    <3>3. CASE Cardinality(W) = 1
      <4>1. IsFiniteSet(W)
        BY RecordsAssumption, FS_Subset
      <4>2. f.task = t
        BY <2>2, <3>1, <3>3, <4>1, FS_Singleton
      <4> QED
        BY <1>0, <2>2, <3>1, <4>2 DEF NumbersAhead, Ahead, EventsTyped, Event
    <3> QED
      BY <3>2, <3>3
  <2> QED
    BY <1>0, <2>1, <2>2
<1> QED
  BY <1>1, <1>2, <1>3, <1>4, <1>5

-----------------------------------------------------------------------------
(* A poll. An event of the watcher up to the last of a page is in the page.*)
LEMMA PageIsPrefix ==
  ASSUME EventsInv, NEW W \in Watcher, NEW e \in After(W), NEW f \in Page(W), e.seq <= f.seq
  PROVE  e \in Page(W)
<1> DEFINE Below(g) == {h \in After(W) : h.seq < g.seq}
<1>1. After(W) \subseteq events /\ IsFiniteSet(After(W))
  BY FS_Subset DEF After, EventsInv, EventsTyped
<1>2. f \in After(W) /\ Cardinality(Below(f)) < Limit
  BY DEF Page
<1>3. \A h \in After(W) : h.seq \in Nat
  BY <1>1, RecordsAssumption DEF EventsInv, RecordsTypeOK
<1>4. IsFiniteSet(Below(f))
  BY <1>1, FS_Subset
<1>5. Below(e) \in SUBSET Below(f)
  BY <1>2, <1>3
<1>6. IsFiniteSet(Below(e)) /\ Cardinality(Below(e)) <= Cardinality(Below(f))
  BY <1>4, <1>5, FS_Subset
<1>7. Cardinality(Below(e)) \in Nat /\ Cardinality(Below(f)) \in Nat
  BY <1>4, <1>6, FS_CardinalityType
<1>8. Cardinality(Below(e)) < Limit
  BY <1>2, <1>6, <1>7, RecordsAssumption
<1> QED
  BY <1>8 DEF Page

LEMMA PollKeeps ==
  ASSUME EventsInv, NEW W \in Watcher, Poll(W)
  PROVE  EventsInv'
<1> USE DEF EventsInv
<1> DEFINE P == Page(W)
           sent == [e \in P |-> [e EXCEPT !.got = @ \cup {W}]]
           Sent == {sent[e] : e \in P}
           m == Max({e.seq : e \in P})
<1>0. /\ P \subseteq After(W) /\ After(W) \subseteq events /\ P # {}
      /\ \A e \in P : e.task \in W
  BY DEF Poll, Page, After
<1>1. MaxSeq \in Nat /\ events \subseteq Event
  BY RecordsAssumption DEF EventsTyped
<1>2. \A e \in P : /\ sent[e] \in Event /\ sent[e].seq = e.seq /\ sent[e].task = e.task
                   /\ sent[e].got = e.got \cup {W}
  BY <1>0, <1>1 DEF Event
<1>3. events' = (events \ P) \cup Sent
  BY DEF Poll
<1>4. PICK last \in P : last.seq = m /\ \A e \in P : e.seq <= m
  <2> DEFINE S == {e.seq : e \in P}
  <2>1. S \in SUBSET (0..MaxSeq) /\ S # {}
    BY <1>0, <1>1 DEF Event
  <2>2. Max(S) \in S /\ \A y \in S : Max(S) >= y
    BY <1>1, <2>1, MaxOfBounded
  <2>3. \A e \in P : e.seq \in S /\ e.seq \in Nat
    BY <1>0, <1>1 DEF Event
  <2>4. PICK e \in P : e.seq = Max(S)
    BY <2>2
  <2>5. m = Max(S)
    OBVIOUS
  <2> HIDE DEF m, S
  <2> QED
    BY <2>2, <2>3, <2>4, <2>5
<1> HIDE DEF m, sent
<1>5. m \in 1..MaxSeq /\ cursor' = [cursor EXCEPT ![W] = m]
  BY <1>0, <1>1, <1>4 DEF Event, Poll, m
<1>6. /\ \A e \in events : \E f \in events' : f.task = e.task /\ f.seq = e.seq
      /\ \A f \in events' : \E e \in events : f.task = e.task /\ f.seq = e.seq
  BY <1>0, <1>2, <1>3
<1>7. RecordsTypeOK' /\ EventsTyped'
  <2>1. events' \subseteq Event
    BY <1>0, <1>1, <1>2, <1>3
  <2>2. IsFiniteSet(Sent)
    <3>1. IsFiniteSet(P)
      BY <1>0, FS_Subset DEF EventsTyped
    <3>2. sent \in Surjection(P, Sent)
      BY DEF Surjection, sent
    <3> QED
      BY <3>1, <3>2, FS_Surjection
  <2>3. IsFiniteSet(events')
    <3>1. IsFiniteSet(events \ P)
      BY FS_Subset DEF EventsTyped
    <3> QED
      BY <1>3, <2>2, <3>1, FS_Union
  <2>4. events' \subseteq [seq : Nat \ {0}, task : Task, got : SUBSET Watcher]
    BY <1>1, <2>1 DEF Event
  <2> QED
    BY <1>5, <2>1, <2>3, <2>4 DEF Poll, RecordsTypeOK, EventsTyped
<1>8. AgentsAtWork'
  BY DEF Poll, AgentsAtWork, Exists
<1>9. NumbersAhead'
  <2>1. ASSUME NEW t \in Task, inserting[t] # 0, NEW f \in events'
        PROVE  Ahead(t, f)'
    <3>1. PICK e \in events : f.task = e.task /\ f.seq = e.seq
      BY <1>6
    <3> QED
      BY <2>1, <3>1 DEF NumbersAhead, Ahead, Poll
  <2> QED
    BY <1>6, <2>1 DEF NumbersAhead, Poll
<1>10. CursorsOnEvents'
  <2> SUFFICES ASSUME NEW V \in Watcher PROVE StandsOnEvent(V)'
    BY DEF CursorsOnEvents
  <2>1. CASE V = W
    <3>1. last \in events /\ last.task \in W /\ last.seq = cursor'[W]
      BY <1>0, <1>4, <1>5 DEF RecordsTypeOK
    <3> QED
      BY <1>6, <2>1, <3>1 DEF StandsOnEvent
  <2>2. CASE V # W
    <3>1. cursor'[V] = cursor[V] /\ live' = live /\ StandsOnEvent(V)
      BY <1>5, <2>2 DEF CursorsOnEvents, Poll, RecordsTypeOK
    <3>2. CASE \E e \in events : e.task \in V /\ e.seq = cursor[V]
      BY <1>6, <3>1, <3>2 DEF StandsOnEvent
    <3> QED
      BY <3>1, <3>2 DEF StandsOnEvent, Exists
  <2> QED
    BY <2>1, <2>2
<1>11. NothingSkipped'
  <2> SUFFICES ASSUME NEW f \in events', NEW V \in Watcher,
                      f.task \in V, f.seq <= cursor'[V], Exists(f.task),
                      engine = "sqlite" \/ Cardinality(V) = 1
               PROVE  V \in f.got
    BY DEF NothingSkipped, Poll, Exists
  <2>1. CASE V # W
    <3>1. cursor'[V] = cursor[V]
      BY <1>5, <2>1 DEF RecordsTypeOK
    <3> QED
      BY <1>0, <1>2, <1>3, <3>1 DEF NothingSkipped
  <2>2. CASE V = W /\ f \in events \ P
    <3>1. f.seq <= last.seq /\ last \in Page(W)
      BY <1>4, <1>5, <2>2 DEF RecordsTypeOK
    <3>2. f \notin After(W)
      BY <2>2, <3>1, PageIsPrefix
    <3>3. f.seq <= cursor[W]
      BY <1>1, <2>2, <3>2 DEF After, Event, RecordsTypeOK
    <3> QED
      BY <2>2, <3>3 DEF NothingSkipped
  <2>3. CASE V = W /\ f \in Sent
    BY <1>2, <2>3
  <2> QED
    BY <1>3, <2>1, <2>2, <2>3
<1> QED
  BY <1>7, <1>8, <1>9, <1>10, <1>11

(* A deletion: in SQLite no number is on its way to a commit then.         *)
LEMMA DeleteKeeps ==
  ASSUME EventsInv, NEW r \in Run, DeleteRecords(r, Analysing)
  PROVE  EventsInv'
<1> USE DEF EventsInv
<1>0. events' \in SUBSET events /\ \A e \in events : e \in events' <=> RunOf[e.task] # r
  BY DEF DeleteRecords
<1>1. RecordsTypeOK' /\ EventsTyped'
  BY <1>0, FS_Subset DEF DeleteRecords, RecordsTypeOK, EventsTyped, TasksOf
<1>2. AgentsAtWork'
  BY DEF DeleteRecords, AgentsAtWork, Exists, TasksOf
<1>3. NumbersAhead'
  BY <1>0 DEF DeleteRecords, NumbersAhead, Ahead
<1>4. CursorsOnEvents'
  <2> SUFFICES ASSUME NEW W \in Watcher PROVE StandsOnEvent(W)'
    BY DEF CursorsOnEvents
  <2>1. PICK s \in Run : \A t \in W : RunOf[t] = s
    BY RecordsAssumption
  <2>2. CASE s = r
    BY <2>1, <2>2 DEF DeleteRecords, StandsOnEvent, Exists
  <2>3. CASE s # r
    BY <1>0, <2>1, <2>3 DEF DeleteRecords, CursorsOnEvents, StandsOnEvent, Exists
  <2> QED
    BY <2>2, <2>3
<1>5. NothingSkipped'
  BY <1>0 DEF DeleteRecords, NothingSkipped, Exists
<1> QED
  BY <1>1, <1>2, <1>3, <1>4, <1>5

-----------------------------------------------------------------------------
(* The coroutines that analyse leave the events alone, and the agents the  *)
(* analyses: EventsInv and AnalysesInv share result, live and busy.        *)
LEMMA RecordsStepKeeps ==
  ASSUME RecordsInv, RecordsStep, UNCHANGED analysisVars
  PROVE  RecordsInv'
<1> USE DEF RecordsInv
<1>1. EventsInv'
  BY StartAgentKeeps, InsertKeeps, CommitKeeps, EmitFailsKeeps, ResultKeeps, PollKeeps
  DEF RecordsStep, PutBack, Fail, Skip
<1>2. live' = live /\ busy' = busy
  BY DEF RecordsStep, StartAgent, Insert, Commit, EmitFails, EndAgent, PutBack, Fail, Skip,
         Rewrite, Poll
<1>4. AnalysesInv'
  <2>1. AnalysisTypeOK'
    BY DEF AnalysesInv, AnalysisTypeOK, analysisVars
  <2>2. StagesInOrder'
    BY <1>2 DEF AnalysesInv, StagesInOrder, Exists, analysisVars
  <2>3. AnalysedOnce'
    BY DEF AnalysesInv, AnalysedOnce, analysisVars
  <2> QED
    BY <2>1, <2>2, <2>3 DEF AnalysesInv
<1>5. DeletionComplete'
  <2>1. \A e \in events' : \/ \E f \in events : f.task = e.task
                           \/ (inserting[e.task] # 0 /\ e.task \in Task)
    <3>1. ASSUME NEW t \in Task, Commit(t), NEW e \in events'
          PROVE  e \in events \/ (inserting[e.task] # 0 /\ e.task \in Task)
      <4>1. e \in events \/ e = [seq |-> inserting[t], task |-> t, got |-> {}]
        BY <3>1 DEF Commit
      <4>2. e \in events \/ e.task = t
        BY <4>1
      <4>3. inserting[t] # 0
        BY <3>1 DEF Commit
      <4> QED
        BY <4>2, <4>3
    <3>2. ASSUME NEW W \in Watcher, Poll(W), NEW e \in events'
          PROVE  \E f \in events : f.task = e.task
      <4>1. \A f \in Page(W) : f \in events /\ [f EXCEPT !.got = @ \cup {W}].task = f.task
        BY DEF Page, After, EventsInv, RecordsTypeOK
      <4> QED
        BY <3>2, <4>1 DEF Poll
    <3> QED
      BY <3>1, <3>2 DEF RecordsStep, StartAgent, Insert, EmitFails, EndAgent, PutBack, Fail, Skip,
         Rewrite
  <2> QED
    BY <1>2, <2>1 DEF DeletionComplete, EventsInv, AgentsAtWork, Exists, analysisVars
<1> QED
  BY <1>1, <1>4, <1>5

LEMMA EventsUntouched ==
  ASSUME EventsInv, UNCHANGED recordsVars
  PROVE  EventsInv'
<1> USE DEF EventsInv, recordsVars
<1>1. RecordsTypeOK' /\ EventsTyped'
  BY DEF RecordsTypeOK, EventsTyped
<1>2. AgentsAtWork' /\ NumbersAhead'
  BY DEF AgentsAtWork, NumbersAhead, Ahead, Exists
<1>3. CursorsOnEvents' /\ NothingSkipped'
  BY DEF CursorsOnEvents, StandsOnEvent, NothingSkipped, Exists
<1> QED
  BY <1>1, <1>2, <1>3

(* The steps of an analysis.                                               *)
LEMMA AnalysisStepKeeps ==
  ASSUME RecordsInv, NEW t \in Task, AnalysisStep(t) \/ SessionFails(t)
  PROVE  RecordsInv'
<1> USE DEF RecordsInv
<1>0. UNCHANGED <<recordsVars, finished, toExplain>>
  BY DEF AnalysisStep, SwitchedOff, ReadTask, NoApiKey, Unavailable, Replied, Garbled,
         WriteAnalysis, SessionFails
<1>1. EventsInv'
  BY <1>0, EventsUntouched
<1>2. MaxAsks \in Nat \ {0}
  BY AnalysisAssumption
<1>3. AnalysisTypeOK'
  BY <1>0 DEF AnalysesInv, AnalysisTypeOK, Stage, AnalysisStep, SwitchedOff, ReadTask, NoApiKey,
     Unavailable, Replied, Garbled, WriteAnalysis, SessionFails, Advance, Request
<1>4. StagesInOrder'
  <2> SUFFICES ASSUME NEW u \in Task
               PROVE  /\ stage'[u] # "none" => u \in toExplain /\ RunOf[u] \in finished
                      /\ stage'[u] \in {"none", "started"} => asks'[u] = 0
                      /\ stage'[u] = "asking" => asks'[u] < MaxAsks
                      /\ stage'[u] # "ended" => analyses'[u] = 0
                      /\ stage'[u] \in {"asking", "writing"} => Exists(u) \/ u \in busy
                      /\ analyses'[u] > 0 => stage'[u] = "ended"
    BY <1>0 DEF StagesInOrder, Exists, recordsVars
  <2>1. /\ stage \in [Task -> Stage] /\ asks \in [Task -> Nat] /\ analyses \in [Task -> Nat]
        /\ StagesInOrder
    BY DEF AnalysesInv, AnalysisTypeOK
  <2>2. CASE u # t
    <3>1. stage'[u] = stage[u] /\ asks'[u] = asks[u] /\ analyses'[u] = analyses[u]
      BY <2>1, <2>2 DEF AnalysisStep, SwitchedOff, ReadTask, NoApiKey,
         Unavailable, Replied, Garbled, WriteAnalysis, SessionFails, Advance, Request
    <3> QED
      BY <2>1, <3>1 DEF StagesInOrder
  <2>3. CASE u = t
    <3>1. CASE SwitchedOff(t) \/ ReadTask(t) \/ WriteAnalysis(t) \/ SessionFails(t)
      BY <1>2, <2>1, <2>3, <3>1
      DEF StagesInOrder, SwitchedOff, ReadTask, WriteAnalysis, SessionFails, Advance
    <3>2. CASE NoApiKey(t) \/ Unavailable(t) \/ Replied(t) \/ Garbled(t)
      BY <1>2, <2>1, <2>3, <3>2
      DEF StagesInOrder, NoApiKey, Unavailable, Replied, Garbled, Advance, Request
    <3> QED
      BY <3>1, <3>2 DEF AnalysisStep
  <2> QED
    BY <2>2, <2>3
<1>5. \A u \in Task : analyses'[u] <= 1 /\ asks'[u] <= MaxAsks
  <2> SUFFICES ASSUME NEW u \in Task PROVE analyses'[u] <= 1 /\ asks'[u] <= MaxAsks
    OBVIOUS
  <2>1. /\ asks \in [Task -> Nat] /\ analyses \in [Task -> Nat]
        /\ StagesInOrder /\ AnalysedOnce
    BY DEF AnalysesInv, AnalysisTypeOK
  <2>2. CASE WriteAnalysis(t)
    BY <1>2, <2>1, <2>2 DEF StagesInOrder, AnalysedOnce, WriteAnalysis, Advance
  <2>3. CASE Unavailable(t) \/ Replied(t) \/ Garbled(t)
    BY <1>2, <2>1, <2>3
    DEF StagesInOrder, AnalysedOnce, Unavailable, Replied, Garbled, Advance, Request
  <2>4. CASE SwitchedOff(t) \/ ReadTask(t) \/ NoApiKey(t) \/ SessionFails(t)
    BY <2>1, <2>4 DEF AnalysedOnce, SwitchedOff, ReadTask, NoApiKey, SessionFails
  <2> QED
    BY <2>2, <2>3, <2>4 DEF AnalysisStep
<1>6. AnalysedOnce'
  BY <1>4, <1>5, <1>3 DEF AnalysedOnce, StagesInOrder
<1>7. DeletionComplete'
  <2>1. \A u \in Task : analyses'[u] > 0 => analyses[u] > 0 \/ stage[u] = "writing"
    BY DEF AnalysesInv, AnalysisTypeOK, AnalysisStep, SwitchedOff, ReadTask, NoApiKey,
       Unavailable, Replied, Garbled, WriteAnalysis, SessionFails, Advance
  <2> QED
    BY <1>0, <2>1 DEF DeletionComplete, AnalysesInv, StagesInOrder, Exists, recordsVars
<1> QED
  BY <1>1, <1>3, <1>4, <1>6, <1>7 DEF AnalysesInv

LEMMA OtherStepsKeep ==
  ASSUME RecordsInv,
         \/ \E switch \in BOOLEAN : ReadPolicy(switch)
         \/ \E r \in Run : CloseRun(r)
         \/ Restart
         \/ UNCHANGED allRecordsVars
  PROVE  RecordsInv'
<1> USE DEF RecordsInv
<1>0. UNCHANGED <<recordsVars, asks, analyses>>
  BY DEF ReadPolicy, CloseRun, Restart, allRecordsVars, analysisVars
<1>1. EventsInv'
  BY <1>0, EventsUntouched
<1>2. AnalysisTypeOK'
  BY <1>0, RecordsAssumption DEF AnalysesInv, AnalysisTypeOK, Stage, ReadPolicy, CloseRun, Restart,
     FailedOf, TasksOf, Pending, Analysing, allRecordsVars, analysisVars
<1>3. StagesInOrder'
  <2>1. ASSUME NEW r \in Run, CloseRun(r) PROVE StagesInOrder'
    BY <1>0, <2>1, RecordsAssumption
    DEF AnalysesInv, AnalysisTypeOK, StagesInOrder, CloseRun, FailedOf, TasksOf, Exists, recordsVars
  <2>2. CASE Restart
    BY <1>0, <2>2
    DEF AnalysesInv, AnalysisTypeOK, Stage, StagesInOrder, Restart, Pending, Analysing, Exists,
        recordsVars
  <2>3. ASSUME NEW switch \in BOOLEAN, ReadPolicy(switch) PROVE StagesInOrder'
    BY <1>0, <2>3 DEF AnalysesInv, StagesInOrder, ReadPolicy, Exists, recordsVars
  <2>4. CASE UNCHANGED allRecordsVars
    BY <2>4 DEF AnalysesInv, StagesInOrder, Exists, allRecordsVars, recordsVars, analysisVars
  <2> QED
    BY <2>1, <2>2, <2>3, <2>4
<1>4. AnalysedOnce'
  BY <1>0 DEF AnalysesInv, AnalysedOnce, ReadPolicy, CloseRun, Restart, allRecordsVars,
     recordsVars, analysisVars
<1>5. DeletionComplete'
  BY <1>0 DEF DeletionComplete, Exists, recordsVars
<1> QED
  BY <1>1, <1>2, <1>3, <1>4, <1>5 DEF AnalysesInv

LEMMA DeleteRunKeeps ==
  ASSUME RecordsInv, NEW r \in Run, DeleteRun(r)
  PROVE  RecordsInv'
<1> USE DEF RecordsInv, DeleteRun
<1>1. EventsInv'
  BY DeleteKeeps
<1>2. /\ live' = live \ {r} /\ result' = result
      /\ busy' = busy \cup (TasksOf(r) \cap (agents \cup Analysing))
  BY DEF DeleteRecords
<1>3. AnalysisTypeOK'
  BY DEF AnalysesInv, AnalysisTypeOK
<1>4. StagesInOrder'
  BY <1>2 DEF AnalysesInv, AnalysisTypeOK, StagesInOrder, Exists, TasksOf, Analysing
<1>5. AnalysedOnce'
  BY <1>2 DEF AnalysesInv, AnalysisTypeOK, AnalysedOnce
<1>6. DeletionComplete'
  BY <1>2 DEF DeleteRecords, DeletionComplete, Exists, AnalysesInv, AnalysisTypeOK,
     EventsInv, RecordsTypeOK
<1> QED
  BY <1>1, <1>3, <1>4, <1>5, <1>6 DEF AnalysesInv

LEMMA NextKeepsRecords ==
  ASSUME RecordsInv, [FailureNext]_allRecordsVars
  PROVE  RecordsInv'
<1>1. CASE RecordsStep /\ UNCHANGED analysisVars
  BY <1>1, RecordsStepKeeps
<1>2. ASSUME NEW r \in Run, DeleteRun(r) PROVE RecordsInv'
  BY <1>2, DeleteRunKeeps
<1>3. ASSUME NEW t \in Task, AnalysisStep(t) \/ SessionFails(t) PROVE RecordsInv'
  BY <1>3, AnalysisStepKeeps
<1>4. CASE \/ \E switch \in BOOLEAN : ReadPolicy(switch)
           \/ \E r \in Run : CloseRun(r)
           \/ Restart
           \/ UNCHANGED allRecordsVars
  BY <1>4, OtherStepsKeep
<1> QED
  BY <1>1, <1>2, <1>3, <1>4 DEF FailureNext

LEMMA RecordsStayInOrder == FailureSpec => []RecordsInv
<1>1. RecordsInv /\ [FailureNext]_allRecordsVars => RecordsInv'
  BY NextKeepsRecords
<1> QED
  BY InitialRecords, <1>1, PTL DEF FailureSpec

(* A client that polls (get_events) misses no event its cursor has passed. *)
THEOREM PollingMissesNothing == FailureSpec => []NothingSkipped
<1>1. RecordsInv => NothingSkipped
  BY DEF RecordsInv, EventsInv
<1> QED
  BY RecordsStayInOrder, <1>1, PTL

(* Of a deleted run (_delete_runs) nothing is left or comes back, but what *)
(* agents and analyses at work at the deletion write.                      *)
THEOREM DeletionLeavesNothing == FailureSpec => []DeletionComplete
<1>1. RecordsInv => DeletionComplete
  BY DEF RecordsInv
<1> QED
  BY RecordsStayInOrder, <1>1, PTL

(* A task has at most one analysis, for at most MaxAsks requests, and only *)
(* if it had failed when its run was closed (_trigger_analysis, chat),     *)
(* whoever writes results afterwards.                                      *)
THEOREM FailuresAnalysedOnce == FailureSpec => []AnalysedOnce
<1>1. RecordsInv => AnalysedOnce
  BY DEF RecordsInv, AnalysesInv
<1> QED
  BY RecordsStayInOrder, <1>1, PTL

-----------------------------------------------------------------------------
(* The policy (PolicyStore). How far a request has come when no key is     *)
(* written, and when it is done with the default URL.                      *)
NoKeyYet == {"url", "urlLoaded", "validate", "loaded", "refused"}
UrlDone == {"validate", "loaded", "stored", "refused"}

(* The inductive invariant. A request that goes on to write has passed the *)
(* check, and as long as it is alone what it has read is what there is.    *)
AloneSoFar(c) ==
  /\ rstep[c] \in NoKeyYet => stored = before[c]
  /\ rstep[c] = "loaded" => \A k \in DOMAIN body[c] : loaded[c][k] = stored[k]
  /\ rstep[c] = "stored" =>
       stored = [k \in Key |-> IF k \in DOMAIN body[c] THEN body[c][k] ELSE before[c][k]]
  /\ rstep[c] = "url" => asked[c] # None
  /\ rstep[c] = "urlLoaded" => asked[c] # None /\ loadedUrl[c] = url
  /\ rstep[c] \in UrlDone => url = IF asked[c] # None THEN asked[c] ELSE urlBefore[c]
  /\ rstep[c] # "failed"
Progress(c) ==
  /\ rstep[c] = "loaded" => Acceptable(body[c])
  /\ alone[c] => AloneSoFar(c)
PolicyInv == PolicyTypeOK /\ LimitsInForce /\ \A c \in Client : Progress(c)

-----------------------------------------------------------------------------
LEMMA BodiesOfKeys ==
  ASSUME NEW b \in Bodies
  PROVE  DOMAIN b \subseteq Key /\ \A k \in DOMAIN b : b[k] \in Value \cup {None}
  BY DEF Bodies

LEMMA EmptyBody == NoBody \in Bodies
<1>1. NoBody \in [{} -> Value \cup {None}]
  BY DEF NoBody
<1> QED
  BY <1>1 DEF Bodies

LEMMA InitialPolicy == PolicyInit => PolicyInv
  BY PolicyAssumption, EmptyBody
  DEF PolicyInit, PolicyInv, PolicyTypeOK, LimitsInForce, Progress, AloneSoFar, InForce, Blank,
      Row, NoKeyYet, UrlDone

(* What the write makes of a row.                                          *)
LEMMA WrittenRows ==
  ASSUME PolicyInv, NEW c \in Client, Store(c)
  PROVE  /\ stored' \in Row
         /\ \A k \in Key : \/ stored'[k] = stored[k]
                           \/ k \in DOMAIN body[c] /\ stored'[k] = body[c][k]
<1>1. body[c] \in Bodies /\ stored \in Row
  BY DEF PolicyInv, PolicyTypeOK
<1>2. \A k \in DOMAIN body[c] : body[c][k] \in Value \cup {None}
  BY <1>1, BodiesOfKeys
<1> QED
  BY <1>1, <1>2 DEF Store, Row

LEMMA StorePreserves ==
  ASSUME PolicyInv, NEW c \in Client, Store(c)
  PROVE  PolicyInv'
<1>0. /\ before' \in [Client -> Row] /\ urlBefore' \in [Client -> Url \cup {None}]
      /\ alone' \in [Client -> BOOLEAN]
      /\ alone'[c] = alone[c] /\ before'[c] = before[c] /\ urlBefore'[c] = urlBefore[c]
  <2>1. CASE UNCHANGED beganVars
    BY <2>1 DEF beganVars, PolicyInv, PolicyTypeOK
  <2>2. CASE Others(c)
    BY <2>2 DEF Others, PolicyInv, PolicyTypeOK, Blank, Row
  <2> QED
    BY <2>1, <2>2 DEF Store
<1>1. PolicyTypeOK'
  BY <1>0, WrittenRows
  DEF PolicyInv, PolicyTypeOK, Store, To, Forget, Blank, Row, requestVars
<1>2. LimitsInForce'
  <2>1. Acceptable(body[c])
    BY DEF PolicyInv, Progress, Store, To
  <2> SUFFICES ASSUME NEW k \in Key
               PROVE  Low[k] <= InForce(k)' /\ InForce(k)' <= High[k]
    BY DEF LimitsInForce
  <2>2. CASE stored'[k] = stored[k]
    BY <2>2 DEF PolicyInv, LimitsInForce, InForce
  <2>3. CASE k \in DOMAIN body[c] /\ stored'[k] = body[c][k]
    BY <2>1, <2>3, PolicyAssumption DEF Acceptable, InRange, InForce
  <2> QED
    BY <2>2, <2>3, WrittenRows
<1>3. ASSUME NEW d \in Client PROVE Progress(d)'
  <2>1. CASE d # c
    <3>1. /\ rstep'[d] = rstep[d] /\ loaded'[d] = loaded[d]
          /\ UNCHANGED <<url, body, asked, loadedUrl>>
      BY <2>1 DEF Store, To, Forget, PolicyInv, PolicyTypeOK, requestVars
    <3>2. ~alone'[d] \/ (UNCHANGED <<stored, before, urlBefore, alone>>)
      BY <2>1 DEF Store, Others, beganVars
    <3> QED
      BY <3>1, <3>2 DEF PolicyInv, Progress, AloneSoFar, Acceptable, InRange
  <2>2. CASE d = c
    <3>1. /\ rstep'[c] = "stored" /\ rstep[c] = "loaded"
          /\ UNCHANGED <<url, body, asked>>
      BY DEF Store, To, PolicyInv, PolicyTypeOK, requestVars
    <3>2. ASSUME alone[c]
          PROVE  stored' = [k \in Key |->
                   IF k \in DOMAIN body[c] THEN body[c][k] ELSE before[c][k]]
      <4>1. /\ stored = before[c] /\ stored \in Row
            /\ \A k \in DOMAIN body[c] : loaded[c][k] = stored[k]
        BY <3>1, <3>2 DEF PolicyInv, PolicyTypeOK, Progress, AloneSoFar, NoKeyYet
      <4>2. \A k \in Key : stored'[k] = IF k \in DOMAIN body[c] THEN body[c][k] ELSE before[c][k]
        BY <4>1 DEF Store, Inserts, Updates, Deletes, Row
      <4> QED
        BY <4>2 DEF Store
    <3>3. alone[c] => url = IF asked[c] # None THEN asked[c] ELSE urlBefore[c]
      BY <3>1 DEF PolicyInv, Progress, AloneSoFar, UrlDone
    <3> QED
      BY <1>0, <2>2, <3>1, <3>2, <3>3 DEF Progress, AloneSoFar, NoKeyYet, UrlDone
  <2> QED
    BY <2>1, <2>2
<1> QED
  BY <1>1, <1>2, <1>3 DEF PolicyInv

(* The URL is written, or is as asked already.                             *)
LEMMA SetUrlPreserves ==
  ASSUME PolicyInv, NEW c \in Client, SetUrl(c)
  PROVE  PolicyInv'
<1>0. /\ before' \in [Client -> Row] /\ urlBefore' \in [Client -> Url \cup {None}]
      /\ alone' \in [Client -> BOOLEAN] /\ url' \in Url \cup {None}
      /\ alone'[c] = alone[c] /\ before'[c] = before[c] /\ urlBefore'[c] = urlBefore[c]
  <2>1. CASE UNCHANGED <<url, beganVars>>
    BY <2>1 DEF beganVars, PolicyInv, PolicyTypeOK
  <2>2. CASE url' = asked[c] /\ Others(c)
    BY <2>2 DEF Others, PolicyInv, PolicyTypeOK, Blank, Row
  <2> QED
    BY <2>1, <2>2 DEF SetUrl
<1>1. PolicyTypeOK'
  <2> USE DEF PolicyInv, PolicyTypeOK, SetUrl, To, ForgetUrl, requestVars
  <2>1. /\ rstep' \in [Client -> {"idle", "url", "urlLoaded", "validate", "loaded", "stored",
                                  "refused", "failed"}]
        /\ loadedUrl' \in [Client -> Url \cup {None}]
    OBVIOUS
  <2> QED
    BY <1>0, <2>1
<1>2. LimitsInForce'
  BY DEF PolicyInv, LimitsInForce, InForce, SetUrl
<1>3. ASSUME NEW d \in Client PROVE Progress(d)'
  <2>1. CASE d # c
    <3>1. /\ rstep'[d] = rstep[d] /\ loadedUrl'[d] = loadedUrl[d]
          /\ UNCHANGED <<stored, body, asked, loaded>>
      BY <2>1 DEF SetUrl, To, ForgetUrl, PolicyInv, PolicyTypeOK, requestVars
    <3>2. ~alone'[d] \/ (UNCHANGED <<url, before, urlBefore, alone>>)
      BY <2>1 DEF SetUrl, Others, beganVars
    <3> QED
      BY <3>1, <3>2 DEF PolicyInv, Progress, AloneSoFar, Acceptable, InRange
  <2>2. CASE d = c
    <3>1. /\ rstep'[c] = "validate" /\ rstep[c] = "urlLoaded"
          /\ UNCHANGED <<stored, body, asked>>
      BY DEF SetUrl, To, PolicyInv, PolicyTypeOK, requestVars
    <3>2. alone[c] => asked[c] # None /\ loadedUrl[c] = url /\ stored = before[c]
      BY <3>1 DEF PolicyInv, Progress, AloneSoFar, NoKeyYet
    <3>3. alone[c] => url' = asked[c]
      BY <3>2 DEF SetUrl
    <3> QED
      BY <1>0, <2>2, <3>1, <3>2, <3>3 DEF Progress, AloneSoFar, NoKeyYet, UrlDone
  <2> QED
    BY <2>1, <2>2
<1> QED
  BY <1>1, <1>2, <1>3 DEF PolicyInv

LEMMA PutPreserves ==
  ASSUME PolicyInv, NEW c \in Client, NEW b \in Bodies, NEW u \in Url \cup {None}, Put(c, b, u)
  PROVE  PolicyInv'
<1>1. PolicyTypeOK' /\ LimitsInForce'
  <2>1. LimitsInForce'
    BY DEF PolicyInv, LimitsInForce, InForce, Put
  <2>2. PolicyTypeOK'
    BY DEF PolicyInv, PolicyTypeOK, Put, To, readVars
  <2> QED
    BY <2>1, <2>2
<1>2. ASSUME NEW d \in Client PROVE Progress(d)'
  <2>1. CASE d # c
    BY <2>1 DEF PolicyInv, PolicyTypeOK, Progress, AloneSoFar, Put, To, Acceptable, InRange, readVars
  <2>2. CASE d = c
    BY <2>2 DEF PolicyInv, PolicyTypeOK, Progress, AloneSoFar, NoKeyYet, UrlDone, Put, To, readVars
  <2> QED
    BY <2>1, <2>2
<1> QED
  BY <1>1, <1>2 DEF PolicyInv

LEMMA LoadPreserves ==
  ASSUME PolicyInv, NEW c \in Client, Load(c)
  PROVE  PolicyInv'
<1>1. body[c] \in Bodies /\ stored \in Row
  BY DEF PolicyInv, PolicyTypeOK
<1>2. DOMAIN body[c] \subseteq Key
  BY <1>1, BodiesOfKeys
<1>3. PolicyTypeOK' /\ LimitsInForce'
  <2>1. LimitsInForce'
    BY DEF PolicyInv, LimitsInForce, InForce, Load
  <2>2. PolicyTypeOK'
    BY <1>1 DEF PolicyInv, PolicyTypeOK, Load, To, Row, requestVars, beganVars
  <2> QED
    BY <2>1, <2>2
<1>4. ASSUME NEW d \in Client PROVE Progress(d)'
  <2> USE DEF requestVars, beganVars
  <2>1. CASE d # c
    BY <2>1 DEF PolicyInv, PolicyTypeOK, Progress, AloneSoFar, Load, To, Acceptable, InRange
  <2>2. CASE d = c
    BY <1>2, <2>2 DEF PolicyInv, PolicyTypeOK, Progress, AloneSoFar, NoKeyYet, UrlDone, Load, To,
       Acceptable, InRange
  <2> QED
    BY <2>1, <2>2
<1> QED
  BY <1>3, <1>4 DEF PolicyInv

(* The other steps write nothing; a request that is alone does not fail.   *)
LEMMA OthersPreserve ==
  ASSUME PolicyInv, NEW c \in Client,
         LoadUrl(c) \/ UrlFails(c) \/ Refuse(c) \/ StoreFails(c) \/ Answered(c)
  PROVE  PolicyInv'
<1> USE DEF requestVars, readVars, beganVars
<1>1. PolicyTypeOK'
  <2> USE DEF PolicyInv, PolicyTypeOK, To, Blank, Row
  <2>1. CASE LoadUrl(c)
    BY <2>1 DEF LoadUrl
  <2>2. CASE UrlFails(c)
    BY <2>2 DEF UrlFails, ForgetUrl
  <2>3. CASE Refuse(c)
    BY <2>3 DEF Refuse
  <2>4. CASE StoreFails(c)
    BY <2>4 DEF StoreFails, Forget
  <2>5. CASE Answered(c)
    BY <2>5, EmptyBody DEF Answered
  <2> QED
    BY <2>1, <2>2, <2>3, <2>4, <2>5
<1>2. LimitsInForce'
  BY DEF PolicyInv, LimitsInForce, InForce, LoadUrl, UrlFails, Refuse, StoreFails, Answered
<1>3. ASSUME NEW d \in Client PROVE Progress(d)'
  <2> USE DEF PolicyInv, PolicyTypeOK, Progress, AloneSoFar, To, Acceptable, InRange
  <2>1. CASE d # c
    BY <2>1 DEF LoadUrl, UrlFails, Refuse, StoreFails, Answered, Forget, ForgetUrl
  <2>2. CASE d = c /\ (LoadUrl(c) \/ Refuse(c) \/ Answered(c))
    BY <2>2 DEF LoadUrl, Refuse, Answered, NoKeyYet, UrlDone
  <2>3. CASE d = c /\ (UrlFails(c) \/ StoreFails(c))
    <3>1. ~alone[c]
      BY <2>3 DEF UrlFails, UrlConflict, StoreFails, Conflict, Inserts, Updates
    <3> QED
      BY <2>3, <3>1 DEF UrlFails, StoreFails
  <2> QED
    BY <2>1, <2>2, <2>3
<1> QED
  BY <1>1, <1>2, <1>3 DEF PolicyInv

(* The policy in force is always one that the orchestrator and the agent   *)
(* can work with, and a request that nobody else interferes with is done   *)
(* as a whole or refused before a key has changed, the default URL being   *)
(* as asked either way (update_settings, save_policy).                     *)
THEOREM PolicyIsAsAsked == PolicySpec => []PolicyAsAsked
<1>1. PolicyInv /\ [PolicyNext]_policyVars => PolicyInv'
  <2> SUFFICES ASSUME PolicyInv, [PolicyNext]_policyVars PROVE PolicyInv'
    OBVIOUS
  <2>1. CASE UNCHANGED policyVars
    BY <2>1 DEF policyVars, requestVars, readVars, beganVars, PolicyInv, PolicyTypeOK, LimitsInForce,
                InForce, Progress, AloneSoFar, Acceptable, InRange
  <2>2. CASE PolicyNext
    BY <2>2, PutPreserves, SetUrlPreserves, LoadPreserves, StorePreserves, OthersPreserve
    DEF PolicyNext
  <2> QED
    BY <2>1, <2>2
<1>2. PolicyInv => PolicyAsAsked
  BY DEF PolicyInv, PolicyAsAsked, AllOrNothing, Progress, AloneSoFar, NoKeyYet, UrlDone
<1> QED
  BY InitialPolicy, <1>1, <1>2, PTL DEF PolicySpec

-----------------------------------------------------------------------------
(* The table of cases (CaseBook). What sessions have read is no newer than *)
(* the table; a case without a row and never deleted has no number; the    *)
(* numbers have a bound, so that there is a highest; what a start that is  *)
(* not disturbed has found, it still finds.                                *)
RowRead == [number : Nat, steps : Nat, recording : Nat, mode : Mode]
BookTyped ==
  /\ BookTypeOK
  /\ read \in [Session -> RowRead] /\ latest \in [Case -> [steps : Nat, recording : Nat]]
  /\ \A s \in Session : job[s] # "none" => on[s] \in Case
UnusedBlank == \A c \in Case \ (rows \cup gone) : number[c] = 0
NumbersBounded ==
  \E n \in Nat : /\ \A c \in Case : number[c] <= n
                 /\ \A s \in Session : read[s].number <= n
ReadsNotNewer ==
  /\ \A c \in Case : steps[c] <= changes /\ recording[c] <= changes
  /\ \A s \in Session : read[s].steps <= changes /\ read[s].recording <= changes
ColumnsLatest ==
  \A c \in Case : steps[c] = latest[c].steps /\ recording[c] = latest[c].recording
StillFound ==
  \A n \in Node : quiet[n] =>
    /\ boot[n] \in {"selected", "counted"} => Missing \subseteq found[n]
    /\ boot[n] = "counted" => \A c \in rows : number[c] <= highest[n]
BookInv == /\ BookTyped /\ UnusedBlank /\ NumbersBounded /\ ReadsNotNewer
           /\ ColumnsLatest /\ StillFound

(* The numbers of old rows are above all others and differ.                *)
LEMMA HighestBounds ==
  ASSUME BookTypeOK, NumbersBounded
  PROVE  Highest \in Nat /\ \A c \in rows : number[c] <= Highest
<1>1. PICK n \in Nat : \A c \in Case : number[c] <= n
  BY DEF NumbersBounded
<1> DEFINE S == {number[c] : c \in rows} \cup {0}
<1>2. S \in SUBSET (0..n) /\ S # {}
  BY <1>1 DEF BookTypeOK
<1>3. Max(S) \in S /\ \A y \in S : Max(S) >= y
  BY <1>2, MaxOfBounded
<1>4. Highest = Max(S) /\ \A c \in rows : number[c] \in S
  BY DEF Highest
<1> HIDE DEF S
<1>5. Max(S) \in Nat
  <2>1. Max(S) \in 0..n
    BY <1>2, <1>3, Zenon
  <2> QED
    BY <2>1
<1> QED
  BY <1>3, <1>4, <1>5

(* The numbers a start gives: above the highest it has found, and all      *)
(* different.                                                              *)
LEMMA NumbersGiven ==
  ASSUME BookTypeOK, NEW n \in Node, NEW f \in Numbering(n)
  PROVE  /\ DOMAIN f = found[n] /\ found[n] \subseteq Case
         /\ Cardinality(found[n]) \in Nat /\ highest[n] \in Nat
         /\ \A c \in found[n] : /\ f[c] \in Nat /\ f[c] > highest[n]
                               /\ f[c] <= highest[n] + Cardinality(found[n])
         /\ \A c, d \in found[n] : f[c] = f[d] => c = d
<1>1. found[n] \in SUBSET Case /\ highest[n] \in Nat
  BY DEF BookTypeOK
<1>2. Cardinality(found[n]) \in Nat
  BY <1>1, BookAssumption, FS_Subset, FS_CardinalityType
<1>3. PICK g \in Ranks(found[n]) : f = [c \in found[n] |-> highest[n] + g[c]]
  BY DEF Numbering
<1>4. /\ \A c \in found[n] : g[c] \in 1 .. Cardinality(found[n])
      /\ \A c, d \in found[n] : g[c] = g[d] => c = d
  BY <1>3 DEF Ranks
<1> QED
  BY <1>1, <1>2, <1>3, <1>4

(* They suit the table if it has no duplicates and nobody disturbed.       *)
LEMMA NumbersFit ==
  ASSUME BookInv, NEW n \in Node, boot[n] = "counted", quiet[n], NEW f \in Numbering(n),
         Distinct(number)
  PROVE  Accepted(f)
<1> USE DEF BookInv, BookTyped
<1>1. /\ DOMAIN f = found[n] /\ found[n] \subseteq Case /\ highest[n] \in Nat
      /\ \A c \in found[n] : f[c] \in Nat /\ f[c] > highest[n]
      /\ \A c, d \in found[n] : f[c] = f[d] => c = d
  BY NumbersGiven
<1>2. \A c \in rows : c \in Case /\ number[c] \in Nat /\ number[c] <= highest[n]
  BY DEF BookTypeOK, StillFound
<1>3. \A c \in found[n], d \in rows : number[d] # f[c]
  <2> SUFFICES ASSUME NEW c \in found[n], NEW d \in rows PROVE number[d] # f[c]
    OBVIOUS
  <2> QED
    BY <1>1, <1>2
<1>4. Distinct(Numbered(f))
  <2> SUFFICES ASSUME NEW c \in rows, NEW d \in rows, Numbered(f)[c] = Numbered(f)[d],
                      Numbered(f)[c] # 0
               PROVE  c = d
    BY DEF Distinct
  <2>1. \A x \in rows : Numbered(f)[x] = IF x \in found[n] THEN f[x] ELSE number[x]
    BY <1>1, <1>2 DEF Numbered
  <2> QED
    BY <1>1, <1>3, <2>1 DEF Distinct
<1> QED
  BY <1>1, <1>3, <1>4 DEF Accepted

-----------------------------------------------------------------------------
LEMMA InitialBook == BookInit => BookInv
<1> SUFFICES ASSUME BookInit PROVE BookInv
  OBVIOUS
<1> USE DEF BookInit
<1>1. BookTyped
  BY DEF BookTyped, BookTypeOK, RowRead, NoRead, Mode
<1>2. UnusedBlank /\ ReadsNotNewer /\ ColumnsLatest /\ StillFound
  BY DEF UnusedBlank, ReadsNotNewer, ColumnsLatest, StillFound, NoRead
<1>3. NumbersBounded
  <2>1. /\ \A c \in Case : number[c] <= 0
        /\ \A s \in Session : read[s].number <= 0
    BY DEF NoRead
  <2> QED
    BY <2>1 DEF NumbersBounded
<1> QED
  BY <1>1, <1>2, <1>3 DEF BookInv

LEMMA RowsAppear ==
  ASSUME BookInv, NEW c \in Case, CreateAncient(c)
  PROVE  BookInv'
<1> USE DEF BookInv, BookTyped, BookTypeOK, CreateAncient, NobodyQuiet, columns, sessionVars,
            historyVars
<1>1. c \notin rows /\ c \notin gone /\ number[c] = 0
  BY DEF Unused, UnusedBlank
<1>2. BookTyped'
  OBVIOUS
<1>3. UnusedBlank' /\ StillFound'
  BY <1>1 DEF UnusedBlank, StillFound
<1>4. NumbersBounded'
  BY DEF NumbersBounded
<1>5. ReadsNotNewer' /\ ColumnsLatest'
  BY DEF ReadsNotNewer, ColumnsLatest
<1> QED
  BY <1>2, <1>3, <1>4, <1>5

(* A start that reads, and one that fails, change nothing but themselves.  *)
LEMMA StartsRead ==
  ASSUME BookInv, NEW n \in Node, SelectMissing(n) \/ SelectHighest(n) \/ StartFails(n)
  PROVE  BookInv'
<1> USE DEF BookInv, columns, sessionVars, historyVars
<1>1. UNCHANGED <<rows, gone, number, indexed, columns, sessionVars, historyVars>>
  BY DEF SelectMissing, SelectHighest, StartFails
<1>2. Highest \in Nat /\ \A c \in rows : number[c] <= Highest
  BY HighestBounds DEF BookTyped
<1>3. /\ boot' \in [Node -> {"off", "selected", "counted"}]
      /\ found' \in [Node -> SUBSET Case] /\ highest' \in [Node -> Nat]
      /\ quiet' \in [Node -> BOOLEAN]
  <2> USE DEF BookTyped, BookTypeOK
  <2>1. Missing \in SUBSET Case
    BY DEF Missing
  <2>2. CASE SelectMissing(n)
    BY <2>1, <2>2 DEF SelectMissing
  <2>3. CASE SelectHighest(n)
    BY <1>2, <2>3 DEF SelectHighest
  <2>4. CASE StartFails(n)
    BY <2>4 DEF StartFails
  <2> QED
    BY <2>2, <2>3, <2>4
<1>4. BookTyped'
  BY <1>1, <1>3 DEF BookTyped, BookTypeOK
<1>5. UnusedBlank' /\ ReadsNotNewer' /\ ColumnsLatest'
  BY <1>1 DEF UnusedBlank, ReadsNotNewer, ColumnsLatest
<1>6. NumbersBounded'
  BY <1>1 DEF NumbersBounded
<1>7. StillFound'
  <2> SUFFICES ASSUME NEW m \in Node, quiet'[m]
               PROVE  /\ boot'[m] \in {"selected", "counted"} => Missing \subseteq found'[m]
                      /\ boot'[m] = "counted" => \A c \in rows : number[c] <= highest'[m]
    BY <1>1 DEF StillFound, Missing
  <2>1. CASE m # n
    BY <2>1 DEF StillFound, SelectMissing, SelectHighest, StartFails, BookTyped, BookTypeOK
  <2>2. CASE m = n
    BY <1>2, <2>2 DEF StillFound, SelectMissing, SelectHighest, StartFails, BookTyped, BookTypeOK
  <2> QED
    BY <2>1, <2>2
<1> QED
  BY <1>4, <1>5, <1>6, <1>7

LEMMA RowsAreNumbered ==
  ASSUME BookInv, NEW n \in Node, NumberFound(n)
  PROVE  BookInv'
<1> USE DEF BookInv, columns, sessionVars, historyVars
<1>1. PICK f \in Numbering(n) : number' = Numbered(f)
  BY DEF NumberFound
<1> DEFINE K == Cardinality(found[n])
<1>2. /\ DOMAIN f = found[n] /\ K \in Nat /\ highest[n] \in Nat
      /\ \A c \in found[n] : f[c] \in Nat /\ f[c] <= highest[n] + K
  BY NumbersGiven DEF BookTyped
<1> HIDE DEF K
<1>3. \A c \in Case : number'[c] = IF c \in found[n] /\ c \in rows THEN f[c] ELSE number[c]
  BY <1>1, <1>2 DEF Numbered
<1>4. number' \in [Case -> Nat]
  <2>1. \A c \in Case : number'[c] \in Nat
    BY <1>2, <1>3 DEF BookTyped, BookTypeOK
  <2> QED
    BY <1>1, <2>1 DEF Numbered
<1>5. BookTyped'
  <2>1. /\ boot' \in [Node -> {"off", "selected", "counted"}]
        /\ found' \in [Node -> SUBSET Case] /\ highest' \in [Node -> Nat]
    BY DEF NumberFound, BookTyped, BookTypeOK
  <2>2. quiet' \in [Node -> BOOLEAN] /\ indexed' \in BOOLEAN
    BY Zenon DEF NumberFound, NobodyQuiet
  <2> QED
    BY <1>4, <2>1, <2>2 DEF NumberFound, BookTyped, BookTypeOK
<1>6. UnusedBlank'
  BY <1>3 DEF NumberFound, UnusedBlank
<1>7. StillFound'
  BY DEF NumberFound, NobodyQuiet, StillFound
<1>8. NumbersBounded'
  <2>1. PICK b \in Nat : /\ \A c \in Case : number[c] <= b
                         /\ \A s \in Session : read[s].number <= b
    BY DEF NumbersBounded
  <2> DEFINE m == b + highest[n] + K
  <2>2. m \in Nat /\ b <= m /\ highest[n] + K <= m
    BY <1>2
  <2>3. \A c \in Case : number'[c] <= m
    <3> SUFFICES ASSUME NEW c \in Case PROVE number'[c] <= m
      OBVIOUS
    <3>1. number[c] \in Nat /\ number[c] <= b
      BY <2>1 DEF BookTyped, BookTypeOK
    <3> HIDE DEF m
    <3> QED
      BY <1>2, <1>3, <2>2, <3>1
  <2>4. \A s \in Session : read'[s].number <= m
    <3> SUFFICES ASSUME NEW s \in Session PROVE read'[s].number <= m
      OBVIOUS
    <3>1. read'[s].number = read[s].number /\ read[s].number \in Nat
      BY DEF NumberFound, BookTyped, RowRead
    <3> HIDE DEF m
    <3> QED
      BY <2>1, <2>2, <3>1
  <2> HIDE DEF m
  <2> QED
    BY <2>2, <2>3, <2>4 DEF NumbersBounded
<1>9. ReadsNotNewer' /\ ColumnsLatest'
  BY DEF NumberFound, ReadsNotNewer, ColumnsLatest
<1> QED
  BY <1>5, <1>6, <1>7, <1>8, <1>9

(* A session begins: what it reads is in the table.                        *)
LEMMA SessionsRead ==
  ASSUME BookInv, NEW s \in Session, NEW c \in Case,
         \/ CreateRead(s, c)
         \/ \E what \in {"edit", "cure", "record", "delete"} : Read(s, what, c)
  PROVE  BookInv'
<1> USE DEF BookInv, columns, historyVars
<1>1. Highest \in Nat
  BY HighestBounds DEF BookTyped
<1>2. PICK what \in {"create", "edit", "cure", "record", "delete"}, r \in RowRead :
        /\ Open(s, what, c, r)
        /\ r.number \in {0, Highest + 1}
        /\ r.steps <= changes /\ r.recording <= changes
  <2>1. /\ [NoRead EXCEPT !.number = Highest + 1] \in RowRead
        /\ RowOf(c) \in RowRead
    <3>1. [NoRead EXCEPT !.number = Highest + 1]
            = [number |-> Highest + 1, steps |-> 0, recording |-> 0, mode |-> "agentic"]
      BY DEF NoRead
    <3>2. steps[c] \in Nat /\ recording[c] \in Nat /\ mode[c] \in Mode /\ "agentic" \in Mode
      BY DEF Mode, BookTyped, BookTypeOK
    <3>3. NoRead \in RowRead
      BY <3>2 DEF NoRead, RowRead
    <3>4. RowOf(c) \in RowRead
      BY <3>2, <3>3 DEF RowOf, RowRead
    <3> QED
      BY <1>1, <3>1, <3>2, <3>4 DEF RowRead
  <2>2. /\ [NoRead EXCEPT !.number = Highest + 1].number = Highest + 1
        /\ [NoRead EXCEPT !.number = Highest + 1].steps <= changes
        /\ [NoRead EXCEPT !.number = Highest + 1].recording <= changes
    BY DEF NoRead, BookTyped, BookTypeOK
  <2>3. RowOf(c).number = 0 /\ RowOf(c).steps <= changes /\ RowOf(c).recording <= changes
    BY DEF RowOf, NoRead, ReadsNotNewer
  <2> QED
    BY <2>1, <2>2, <2>3 DEF CreateRead, Read
<1>3. UNCHANGED <<rows, gone, number, indexed, startVars, steps, recording, mode, changes, latest>>
  BY DEF CreateRead, Read
<1>4. /\ job' = [job EXCEPT ![s] = what] /\ on' = [on EXCEPT ![s] = c]
      /\ read' = [read EXCEPT ![s] = r]
  BY <1>2 DEF Open
<1>5. BookTyped'
  BY <1>3, <1>4 DEF BookTyped, BookTypeOK, startVars
<1>6. UnusedBlank' /\ StillFound' /\ ColumnsLatest'
  BY <1>3 DEF UnusedBlank, StillFound, Missing, ColumnsLatest, startVars
<1>7. NumbersBounded'
  <2>1. PICK n \in Nat : /\ \A d \in Case : number[d] <= n
                         /\ \A u \in Session : read[u].number <= n
    BY DEF NumbersBounded
  <2> DEFINE m == n + Highest + 1
  <2>2. m \in Nat /\ n <= m /\ Highest + 1 <= m
    BY <1>1
  <2>3. \A d \in Case : number[d] \in Nat
    BY DEF BookTyped, BookTypeOK
  <2>4. \A u \in Session : read'[u].number = IF u = s THEN r.number ELSE read[u].number
    BY <1>4 DEF BookTyped
  <2>5. \A u \in Session : read[u].number \in Nat
    BY DEF BookTyped, RowRead
  <2> HIDE DEF m
  <2>6. /\ \A d \in Case : number'[d] <= m
        /\ \A u \in Session : read'[u].number <= m
    BY <1>2, <1>3, <2>1, <2>2, <2>3, <2>4, <2>5
  <2> QED
    BY <2>2, <2>6 DEF NumbersBounded
<1>8. ReadsNotNewer'
  BY <1>2, <1>3, <1>4 DEF ReadsNotNewer, BookTyped
<1> QED
  BY <1>5, <1>6, <1>7, <1>8

(* The end of a session that does not write: its variables are blank.      *)
LEMMA SessionEnds ==
  ASSUME BookInv, NEW s \in Session, NEW what, End(s, what)
  PROVE  /\ job' \in [Session -> {"none", "create", "edit", "cure", "record", "delete"}]
         /\ on' \in [Session -> Case \cup {NoCase}]
         /\ read' \in [Session -> RowRead]
         /\ \A u \in Session : job'[u] # "none" => on'[u] \in Case
         /\ \A u \in Session : read'[u] = read[u] \/ read'[u] = NoRead
<1>1. NoRead \in RowRead
  BY DEF NoRead, RowRead, Mode
<1> QED
  BY <1>1 DEF BookInv, BookTyped, BookTypeOK, End

LEMMA BoundStays ==
  ASSUME BookInv, number' \in [Case -> Nat],
         \A c \in Case : number'[c] = number[c] \/ \E s \in Session : number'[c] = read[s].number,
         \A u \in Session : read'[u] = read[u] \/ read'[u] = NoRead
  PROVE  NumbersBounded'
<1>1. PICK n \in Nat : /\ \A c \in Case : number[c] <= n
                       /\ \A s \in Session : read[s].number <= n
  BY DEF BookInv, NumbersBounded
<1>2. \A c \in Case : number'[c] <= n
  BY <1>1
<1>3. \A s \in Session : read'[s].number <= n
  BY <1>1 DEF NoRead
<1> QED
  BY <1>1, <1>2, <1>3 DEF NumbersBounded

LEMMA SessionsEnd ==
  ASSUME BookInv, NEW s \in Session,
         CreateCommit(s) \/ Refused(s) \/ DeleteCommit(s) \/ Stale(s)
  PROVE  BookInv'
<1> USE DEF BookInv, columns, historyVars
<1>1. /\ \E what : End(s, what)
      /\ UNCHANGED <<indexed, boot, found, highest, steps, recording, mode, changes, latest>>
      /\ quiet' \in [Node -> BOOLEAN]
  BY DEF CreateCommit, Refused, DeleteCommit, Stale, NobodyQuiet, startVars, BookTyped, BookTypeOK
<1>2. /\ job' \in [Session -> {"none", "create", "edit", "cure", "record", "delete"}]
      /\ on' \in [Session -> Case \cup {NoCase}]
      /\ read' \in [Session -> RowRead]
      /\ \A u \in Session : job'[u] # "none" => on'[u] \in Case
      /\ \A u \in Session : read'[u] = read[u] \/ read'[u] = NoRead
  BY <1>1, SessionEnds
<1>3. ReadsNotNewer' /\ ColumnsLatest'
  BY <1>1, <1>2 DEF ReadsNotNewer, ColumnsLatest, NoRead, BookTyped, BookTypeOK
<1>4. CASE CreateCommit(s)
  <2>1. /\ on[s] \in Case /\ read[s].number \in Nat
        /\ rows' = rows \cup {on[s]} /\ gone' = gone
        /\ number' = [number EXCEPT ![on[s]] = read[s].number]
    BY <1>4 DEF CreateCommit, End, BookTyped, RowRead
  <2>2. number' \in [Case -> Nat]
    BY <2>1 DEF BookTyped, BookTypeOK
  <2>3. BookTyped'
    BY <1>1, <1>2, <2>1, <2>2 DEF BookTyped, BookTypeOK
  <2>4. UnusedBlank'
    BY <2>1 DEF UnusedBlank, BookTyped, BookTypeOK
  <2>5. StillFound'
    BY <1>4 DEF StillFound, CreateCommit, NobodyQuiet
  <2>6. NumbersBounded'
    <3>1. \A c \in Case : number'[c] = number[c] \/ \E u \in Session : number'[c] = read[u].number
      BY <2>1 DEF BookTyped, BookTypeOK
    <3> QED
      BY <1>2, <2>2, <3>1, BoundStays
  <2> QED
    BY <1>3, <2>3, <2>4, <2>5, <2>6
<1>5. CASE Refused(s) \/ DeleteCommit(s) \/ Stale(s)
  <2>1. /\ rows' \subseteq rows /\ rows \cup gone \subseteq rows' \cup gone'
        /\ gone' \subseteq Case /\ number' = number /\ quiet' = quiet
    BY <1>5 DEF Refused, DeleteCommit, Stale, startVars, BookTyped, BookTypeOK
  <2>2. BookTyped'
    BY <1>1, <1>2, <2>1 DEF BookTyped, BookTypeOK
  <2>3. UnusedBlank' /\ StillFound'
    BY <1>1, <2>1 DEF UnusedBlank, StillFound, Missing
  <2>4. NumbersBounded'
    BY <1>2, <2>1, BoundStays DEF BookTyped, BookTypeOK
  <2> QED
    BY <1>3, <2>2, <2>3, <2>4
<1> QED
  BY <1>4, <1>5

(* A session writes the columns that it changed, over whatever others have *)
(* written since it read the row, and what it writes is the latest.        *)
LEMMA ColumnsWritten ==
  ASSUME BookInv, NEW s \in Session,
         \/ \E m \in Mode : EditCommit(s, m)
         \/ CureCommit(s)
         \/ RecordCommit(s)
  PROVE  /\ steps' \in [Case -> Nat] /\ recording' \in [Case -> Nat] /\ mode' \in [Case -> Mode]
         /\ latest' \in [Case -> [steps : Nat, recording : Nat]]
         /\ \A c \in Case : steps'[c] <= changes' /\ recording'[c] <= changes'
         /\ changes' = changes + 1 /\ ColumnsLatest'
         /\ UNCHANGED <<rows, gone, number, indexed, startVars>>
         /\ \E what : End(s, what)
<1> DEFINE c == on[s]
<1>1. c \in Case /\ \E what : End(s, what)
  BY DEF BookInv, BookTyped, BookTypeOK, EditCommit, CureCommit, RecordCommit
<1>2. /\ steps \in [Case -> Nat] /\ recording \in [Case -> Nat] /\ mode \in [Case -> Mode]
      /\ latest \in [Case -> [steps : Nat, recording : Nat]] /\ changes \in Nat
      /\ read[s] \in RowRead
  BY DEF BookInv, BookTyped, BookTypeOK
<1>3. /\ \A d \in Case : steps[d] <= changes /\ recording[d] <= changes
      /\ read[s].steps <= changes /\ read[s].recording <= changes
      /\ read[s].steps \in Nat /\ read[s].recording \in Nat /\ read[s].mode \in Mode
  BY <1>2 DEF BookInv, ReadsNotNewer, RowRead
<1>4. ASSUME NEW m \in Mode, EditCommit(s, m)
      PROVE  /\ UNCHANGED <<rows, gone, number, indexed, startVars, recording>> /\ changes' = changes + 1
             /\ steps' = [steps EXCEPT ![c] = changes + 1]
             /\ mode' = mode \/ mode' = [mode EXCEPT ![c] = m]
             /\ latest' = [latest EXCEPT ![c].steps = changes + 1]
  <2>1. read[s].steps # changes + 1
    BY <1>2, <1>3
  <2> QED
    BY <1>2, <1>4, <2>1 DEF EditCommit, Save, Wrote, Content, RowRead
<1>5. ASSUME CureCommit(s)
      PROVE  /\ UNCHANGED <<rows, gone, number, indexed, startVars, recording>> /\ changes' = changes + 1
             /\ \/ steps' = steps /\ latest' = latest
                \/ /\ steps' = [steps EXCEPT ![c] = read[s].recording]
                   /\ latest' = [latest EXCEPT ![c].steps = read[s].recording]
             /\ mode' = mode \/ mode' = [mode EXCEPT ![c] = "deterministic"]
  BY <1>2, <1>5 DEF CureCommit, Save, Wrote, Content, RowRead
<1>6. ASSUME RecordCommit(s)
      PROVE  /\ UNCHANGED <<rows, gone, number, indexed, startVars, steps, mode>> /\ changes' = changes + 1
             /\ recording' = [recording EXCEPT ![c] = changes + 1]
             /\ latest' = [latest EXCEPT ![c].recording = changes + 1]
  <2>1. read[s].recording # changes + 1
    BY <1>2, <1>3
  <2> QED
    BY <1>2, <1>6, <2>1 DEF RecordCommit, Save, Wrote, Content, RowRead
<1> HIDE DEF c
<1>7. ASSUME UNCHANGED recording, changes' = changes + 1, NEW x \in Nat, x <= changes + 1,
             steps' = [steps EXCEPT ![c] = x], latest' = [latest EXCEPT ![c].steps = x]
      PROVE  /\ steps' \in [Case -> Nat] /\ recording' \in [Case -> Nat]
             /\ latest' \in [Case -> [steps : Nat, recording : Nat]]
             /\ \A d \in Case : steps'[d] <= changes' /\ recording'[d] <= changes'
             /\ ColumnsLatest'
  <2>1. \A d \in Case : /\ steps'[d] = IF d = c THEN x ELSE steps[d]
                        /\ latest'[d].steps = IF d = c THEN x ELSE latest[d].steps
                        /\ latest'[d].recording = latest[d].recording
                        /\ latest'[d] \in [steps : Nat, recording : Nat]
    BY <1>1, <1>2, <1>7
  <2>2. steps' \in [Case -> Nat] /\ latest' \in [Case -> [steps : Nat, recording : Nat]]
    BY <1>1, <1>2, <1>7, <2>1
  <2>3. \A d \in Case : steps'[d] <= changes' /\ recording'[d] <= changes'
    BY <1>2, <1>3, <1>7, <2>1
  <2>4. ColumnsLatest'
    BY <1>7, <2>1 DEF BookInv, ColumnsLatest
  <2> QED
    BY <1>2, <1>7, <2>2, <2>3, <2>4
<1>8. ASSUME NEW m \in Mode, EditCommit(s, m)
      PROVE  /\ steps' \in [Case -> Nat] /\ recording' \in [Case -> Nat]
             /\ latest' \in [Case -> [steps : Nat, recording : Nat]]
             /\ \A d \in Case : steps'[d] <= changes' /\ recording'[d] <= changes'
             /\ ColumnsLatest'
  <2>1. /\ recording' = recording /\ changes' = changes + 1
        /\ steps' = [steps EXCEPT ![c] = changes + 1]
        /\ latest' = [latest EXCEPT ![c].steps = changes + 1]
    BY <1>4, <1>8
  <2>2. changes + 1 \in Nat /\ changes + 1 <= changes + 1
    BY <1>2
  <2> QED
    BY <1>7, <2>1, <2>2
<1>9. ASSUME CureCommit(s)
      PROVE  /\ steps' \in [Case -> Nat] /\ recording' \in [Case -> Nat]
             /\ latest' \in [Case -> [steps : Nat, recording : Nat]]
             /\ \A d \in Case : steps'[d] <= changes' /\ recording'[d] <= changes'
             /\ ColumnsLatest'
  <2>1. CASE steps' = steps /\ latest' = latest
    BY <1>2, <1>3, <1>5, <1>9, <2>1 DEF BookInv, ColumnsLatest
  <2>2. CASE /\ steps' = [steps EXCEPT ![c] = read[s].recording]
             /\ latest' = [latest EXCEPT ![c].steps = read[s].recording]
    <3>1. /\ read[s].recording \in Nat /\ read[s].recording <= changes + 1
          /\ recording' = recording /\ changes' = changes + 1
      BY <1>2, <1>3, <1>5, <1>9
    <3> QED
      BY <1>7, <2>2, <3>1
  <2> QED
    BY <1>5, <1>9, <2>1, <2>2
<1>10. ASSUME RecordCommit(s)
       PROVE  /\ steps' \in [Case -> Nat] /\ recording' \in [Case -> Nat]
              /\ latest' \in [Case -> [steps : Nat, recording : Nat]]
              /\ \A d \in Case : steps'[d] <= changes' /\ recording'[d] <= changes'
              /\ ColumnsLatest'
  <2> DEFINE x == changes + 1
  <2>1. \A d \in Case : /\ recording'[d] = IF d = c THEN x ELSE recording[d]
                        /\ latest'[d].recording = IF d = c THEN x ELSE latest[d].recording
                        /\ latest'[d].steps = latest[d].steps
                        /\ latest'[d] \in [steps : Nat, recording : Nat]
    BY <1>1, <1>2, <1>6, <1>10
  <2>2. recording' \in [Case -> Nat] /\ latest' \in [Case -> [steps : Nat, recording : Nat]]
    BY <1>1, <1>2, <1>6, <1>10, <2>1
  <2>3. \A d \in Case : steps'[d] <= changes' /\ recording'[d] <= changes'
    BY <1>2, <1>3, <1>6, <1>10, <2>1
  <2>4. ColumnsLatest'
    BY <1>6, <1>10, <2>1 DEF BookInv, ColumnsLatest
  <2> QED
    BY <1>2, <1>6, <1>10, <2>2, <2>3, <2>4
<1>11. mode' \in [Case -> Mode]
  <2>1. "deterministic" \in Mode
    BY DEF Mode
  <2> QED
    BY <1>1, <1>2, <1>4, <1>5, <1>6, <2>1
<1> QED
  BY <1>1, <1>4, <1>5, <1>6, <1>8, <1>9, <1>10, <1>11

LEMMA SessionsWrite ==
  ASSUME BookInv, NEW s \in Session,
         \/ \E m \in Mode : EditCommit(s, m)
         \/ CureCommit(s)
         \/ RecordCommit(s)
  PROVE  BookInv'
<1> USE DEF BookInv
<1>1. /\ steps' \in [Case -> Nat] /\ recording' \in [Case -> Nat] /\ mode' \in [Case -> Mode]
      /\ latest' \in [Case -> [steps : Nat, recording : Nat]]
      /\ \A c \in Case : steps'[c] <= changes' /\ recording'[c] <= changes'
      /\ changes' = changes + 1 /\ ColumnsLatest'
      /\ UNCHANGED <<rows, gone, number, indexed, startVars>>
      /\ \E what : End(s, what)
  BY ColumnsWritten
<1>2. /\ job' \in [Session -> {"none", "create", "edit", "cure", "record", "delete"}]
      /\ on' \in [Session -> Case \cup {NoCase}]
      /\ read' \in [Session -> RowRead]
      /\ \A u \in Session : job'[u] # "none" => on'[u] \in Case
      /\ \A u \in Session : read'[u] = read[u] \/ read'[u] = NoRead
  BY <1>1, SessionEnds
<1>3. BookTyped'
  BY <1>1, <1>2 DEF BookTyped, BookTypeOK, startVars
<1>4. UnusedBlank' /\ StillFound'
  BY <1>1 DEF UnusedBlank, StillFound, Missing, startVars
<1>5. NumbersBounded'
  BY <1>1, <1>2, BoundStays DEF BookTyped, BookTypeOK
<1>6. ReadsNotNewer'
  <2>1. \A u \in Session : /\ read[u].steps \in Nat /\ read[u].recording \in Nat
                           /\ read[u].steps <= changes /\ read[u].recording <= changes
    BY DEF BookTyped, RowRead, ReadsNotNewer
  <2>2. \A u \in Session : read'[u].steps <= changes' /\ read'[u].recording <= changes'
    BY <1>1, <1>2, <2>1 DEF NoRead, BookTyped, BookTypeOK
  <2> QED
    BY <1>1, <2>2 DEF ReadsNotNewer
<1> QED
  BY <1>1, <1>3, <1>4, <1>5, <1>6

LEMMA NextKeepsBook ==
  ASSUME BookInv, [BookNext]_bookVars
  PROVE  BookInv'
<1>1. CASE UNCHANGED bookVars
  <2> USE DEF bookVars, columns, sessionVars, historyVars, startVars, BookInv
  <2>1. BookTyped' /\ UnusedBlank' /\ ReadsNotNewer' /\ ColumnsLatest'
    BY <1>1 DEF BookTyped, BookTypeOK, UnusedBlank, ReadsNotNewer, ColumnsLatest
  <2>2. StillFound' /\ NumbersBounded'
    BY <1>1 DEF StillFound, Missing, NumbersBounded
  <2> QED
    BY <2>1, <2>2
<1>2. ASSUME NEW n \in Node,
             SelectMissing(n) \/ SelectHighest(n) \/ NumberFound(n) \/ StartFails(n)
      PROVE  BookInv'
  BY <1>2, StartsRead, RowsAreNumbered
<1> QED
  BY <1>1, <1>2, RowsAppear, SessionsRead, SessionsEnd, SessionsWrite DEF BookNext

(* Whatever sessions overlap: nobody's commit undoes the last edit, cure   *)
(* or recording of a case (update_case, cure_case, _maybe_cure).           *)
THEOREM EditsAreKept == BookSpec => []ChangesKept
<1>1. BookInv /\ [BookNext]_bookVars => BookInv'
  BY NextKeepsBook
<1>2. BookInv => ChangesKept
  BY DEF BookInv, BookTyped, BookTypeOK, ColumnsLatest, ChangesKept
<1> QED
  BY InitialBook, <1>1, <1>2, PTL DEF BookSpec

(* A start during which no row is added or numbered by others numbers all  *)
(* old rows, unless two had the same number before (_backfill_case_no).    *)
THEOREM StartsNumberAll == BookSpec => UndisturbedStart
<1>1. BookInv /\ [BookNext]_bookVars => BookInv'
  BY NextKeepsBook
<1>2. ASSUME BookInv, [BookNext]_bookVars, NEW n \in Node,
             boot[n] = "counted", quiet[n], boot'[n] = "off"
      PROVE  Missing' = {} \/ ~Distinct(number)
  <2>1. NumberFound(n) \/ StartFails(n)
    <3>1. \A m \in Node : boot[m] \in {"off", "selected", "counted"}
      BY <1>2 DEF BookInv, BookTyped, BookTypeOK
    <3>2. boot \in [Node -> {"off", "selected", "counted"}] /\ boot' # boot
      BY <1>2 DEF BookInv, BookTyped, BookTypeOK
    <3>3. PICK m \in Node :
            SelectMissing(m) \/ SelectHighest(m) \/ NumberFound(m) \/ StartFails(m)
      BY <1>2, <3>2
      DEF BookNext, bookVars, startVars, CreateAncient, CreateRead, Read, CreateCommit, Refused,
          EditCommit, CureCommit, RecordCommit, DeleteCommit, Stale, Save
    <3>4. m = n
      BY <1>2, <3>2, <3>3 DEF SelectMissing, SelectHighest, NumberFound, StartFails
    <3> QED
      BY <1>2, <3>2, <3>3, <3>4 DEF SelectMissing, SelectHighest
  <2>2. CASE StartFails(n)
    BY <1>2, <2>2, NumbersFit DEF StartFails
  <2>3. CASE NumberFound(n)
    <3>1. PICK f \in Numbering(n) : number' = Numbered(f)
      BY <2>3 DEF NumberFound
    <3>2. /\ DOMAIN f = found[n] /\ highest[n] \in Nat
          /\ \A c \in found[n] : f[c] \in Nat /\ f[c] > highest[n]
      BY <1>2, NumbersGiven DEF BookInv, BookTyped
    <3>3. rows' = rows /\ rows \subseteq Case /\ Missing \subseteq found[n]
      BY <1>2, <2>3 DEF NumberFound, BookInv, BookTyped, BookTypeOK, StillFound
    <3>4. ASSUME NEW c \in rows PROVE number'[c] # 0
      <4>1. c \in Case /\ number'[c] = IF c \in found[n] THEN f[c] ELSE number[c]
        BY <3>1, <3>2, <3>3 DEF Numbered
      <4>2. CASE c \in found[n]
        BY <3>2, <4>1, <4>2
      <4>3. CASE c \notin found[n]
        BY <3>3, <4>1, <4>3 DEF Missing
      <4> QED
        BY <4>2, <4>3
    <3> QED
      BY <3>3, <3>4 DEF Missing
  <2> QED
    BY <2>1, <2>2, <2>3
<1>3. BookInv /\ [BookNext]_bookVars =>
        [\A n \in Node : boot[n] = "counted" /\ quiet[n] /\ boot'[n] = "off"
                        => Missing' = {} \/ ~Distinct(number)]_bookVars
  BY <1>2
<1> QED
  BY InitialBook, <1>1, <1>3, PTL DEF BookSpec, UndisturbedStart
=============================================================================
