-------------------------- MODULE SchedulerProofs ---------------------------
(***************************************************************************)
(* For any number of ticks, any gaps and any pattern of failures: the      *)
(* scheduler's substitutes decay from the latest genuine evaluation, no    *)
(* task runs without its upstream results, and no completed tick misses an *)
(* agent.                                                                  *)
(***************************************************************************)
EXTENDS Scheduler, TLAPS

\* The level an agent belongs to, and that it belongs to no other.
lvl(a) == IF a = "worker_exposure" THEN 3
          ELSE IF a = "permit_intelligence" THEN 2 ELSE 1

\* An agent is in one level of the plan.
LEMMA OneLevel ==
  ASSUME NEW a \in Agents, NEW l \in 1..3
  PROVE  (a \in Level(l)) <=> (lvl(a) = l)
<1>1. CASE l = 1
  BY <1>1 DEF Level, lvl, Agents
<1>2. CASE l = 2
  BY <1>2 DEF Level, lvl, Agents
<1>3. CASE l = 3
  BY <1>3 DEF Level, lvl, Agents
<1>4. QED
  BY <1>1, <1>2, <1>3

\* A level consists of agents.
LEMMA LevelInPlan ==
  ASSUME NEW l \in 1..3
  PROVE  Level(l) \subseteq Agents
BY DEF Level, Agents

\* The agents of earlier levels.
LEMMA EarlierLevels ==
  ASSUME NEW a \in Agents, NEW m \in 1..3
  PROVE  (\E l \in 1..m - 1 : a \in Level(l)) <=> lvl(a) < m
<1>1. lvl(a) \in 1..3
  BY DEF lvl
<1>2. \A l \in 1..3 : (a \in Level(l)) <=> (lvl(a) = l)
  BY OneLevel
<1>3. QED
  BY <1>1, <1>2

\* An agent is done when its level is.
LEMMA DoneByLevel ==
  ASSUME TypeOK, NEW a \in Agents
  PROVE  Done(a) <=> (lvl(a) < level \/ (pc = "idle" /\ ticks > 0))
<1>1. level \in 1..3 /\ lvl(a) \in 1..3
  BY DEF TypeOK, lvl, LevelCount
<1>2. (\E l \in 1..level - 1 : a \in Level(l)) <=> lvl(a) < level
  BY <1>1, EarlierLevels
<1>3. QED
  BY <1>2 DEF Done

\* Upstream agents run in strictly earlier levels.
LEMMA UpstreamIsEarlier ==
  ASSUME NEW a \in Agents, NEW d \in upstream(a)
  PROVE  d \in Agents /\ lvl(d) < lvl(a)
<1>1. CASE a = "permit_intelligence"
  BY <1>1 DEF upstream, lvl, Agents
<1>2. CASE a = "worker_exposure"
  BY <1>2 DEF upstream, lvl, Agents
<1>3. CASE a \notin {"permit_intelligence", "worker_exposure"}
  BY <1>3 DEF upstream, lvl, Agents
<1>4. QED
  BY <1>1, <1>2, <1>3

\* The inductive invariant holds before the first tick.
LEMMA InitIInv == Init => IInv
<1> SUFFICES ASSUME Init PROVE IInv
  OBVIOUS
<1>1. TypeOK
  BY SchedulerAssumption
  DEF Init, TypeOK, Nothing, OptionalResult, LevelCount
<1>2. \A a \in Agents : last[a] = NoResult /\ cache[a] = NoResult
                        /\ results[a] = NoResult /\ outcome[a] = Pending
  BY DEF Init, Nothing
<1>3. \A a \in Agents : ~InFlight(a)
  BY DEF Init, InFlight
<1>4. CacheIsGenuine
  BY <1>2, <1>3 DEF CacheIsGenuine
<1>5. \A a \in Agents : ~Done(a)
  <2> TAKE a \in Agents
  <2>1. lvl(a) \in 1..3
    BY DEF lvl
  <2>2. Done(a) <=> (lvl(a) < level \/ (pc = "idle" /\ ticks > 0))
    BY <1>1, DoneByLevel
  <2>3. level = 1 /\ ticks = 0
    BY DEF Init
  <2>4. QED
    BY <2>1, <2>2, <2>3
<1>6. LevelByLevel
  BY <1>2, <1>3, <1>5 DEF LevelByLevel, Init
<1>7. DecaysFromTheLastSuccess /\ AbortsOnlyWithoutHistory
  BY <1>2 DEF DecaysFromTheLastSuccess, AbortsOnlyWithoutHistory, Init
<1>8. QED
  BY <1>1, <1>4, <1>6, <1>7 DEF IInv

\* Starting a tick keeps the inductive invariant.
LEMMA StartTickStep == IInv /\ StartTick => IInv'
<1> SUFFICES ASSUME IInv, StartTick PROVE IInv'
  OBVIOUS
<1> USE DEF IInv
<1>1. PICK gap \in 0..MaxGap : sim_time' = sim_time + gap
  BY DEF StartTick
<1>2. sim_time' \in Nat /\ sim_time <= sim_time'
  BY <1>1, SchedulerAssumption DEF TypeOK
<1>3. TypeOK'
  BY <1>2, SchedulerAssumption
  DEF StartTick, TypeOK, Nothing, OptionalResult, LevelCount
<1>4. \A a \in Agents : results'[a] = NoResult /\ outcome'[a] = Pending
  BY DEF StartTick, Nothing
<1>5. \A a \in Agents : ~InFlight(a) /\ ~InFlight(a)'
  BY <1>4, SchedulerAssumption DEF InFlight, StartTick
<1>6. CacheIsGenuine'
  <2> SUFFICES ASSUME NEW a \in Agents
               PROVE  /\ cache[a] = last[a]
                      /\ last[a] # NoResult =>
                            /\ last[a].staleness = 0
                            /\ last[a].original = last[a].computed_at
                            /\ last[a].computed_at <= sim_time'
    BY <1>5 DEF CacheIsGenuine, StartTick
  <2>1. cache[a] = last[a]
    BY <1>5 DEF CacheIsGenuine
  <2>2. last[a] # NoResult => /\ last[a].staleness = 0
                              /\ last[a].original = last[a].computed_at
                              /\ last[a].computed_at <= sim_time
    BY DEF CacheIsGenuine
  <2>3. last[a] # NoResult => last[a].computed_at \in Nat
    BY DEF TypeOK, OptionalResult, Result
  <2>4. sim_time \in Nat
    BY DEF TypeOK
  <2>5. QED
    BY <1>2, <2>1, <2>2, <2>3, <2>4
<1>7. \A a \in Agents : ~Done(a)'
  BY DEF Done, StartTick
<1>8. LevelByLevel'
  <2>1. pc' # "idle" /\ ticks' > 0
    BY DEF StartTick, TypeOK
  <2>2. QED
    BY <1>4, <1>5, <1>7, <2>1 DEF LevelByLevel
<1>9. DecaysFromTheLastSuccess' /\ AbortsOnlyWithoutHistory'
  BY <1>4 DEF DecaysFromTheLastSuccess, AbortsOnlyWithoutHistory, StartTick
<1>10. QED
  BY <1>3, <1>6, <1>8, <1>9

\* What Return and Raise have in common: nothing is collected.
LEMMA TaskFrame ==
  ASSUME IInv, NEW a \in Agents, Started(a),
         UNCHANGED <<sim_time, ticks, pc, level, results, cache>>,
         NEW o, outcome' = [outcome EXCEPT ![a] = o]
  PROVE  /\ pc = "running" /\ lvl(a) = level
         /\ results[a] = NoResult
         /\ \A b \in Agents : Done(b)' <=> Done(b)
         /\ \A b \in Agents : b # a => outcome'[b] = outcome[b]
         /\ outcome'[a] = o
         /\ \A b \in Agents : b # a => (InFlight(b)' <=> InFlight(b))
         /\ ~InFlight(a)
<1> USE DEF IInv
<1>1. pc = "running" /\ a \in Level(level) /\ outcome[a] = Pending
  BY DEF Started
<1>2. level \in 1..3 /\ DOMAIN outcome = Agents
  BY DEF TypeOK, LevelCount
<1>3. lvl(a) = level
  BY <1>1, <1>2, OneLevel
<1>4. ~Done(a)
  BY <1>1, <1>2, <1>3, DoneByLevel
<1>5. results[a] = NoResult
  BY <1>4 DEF LevelByLevel
<1>6. \A b \in Agents : Done(b)' <=> Done(b)
  BY DEF Done
<1>7. /\ \A b \in Agents : b # a => outcome'[b] = outcome[b]
      /\ outcome'[a] = o
  BY <1>2
<1>8. \A b \in Agents : b # a => (InFlight(b)' <=> InFlight(b))
  BY <1>7 DEF InFlight
<1>9. ~InFlight(a)
  BY <1>1, SchedulerAssumption DEF InFlight
<1>10. QED
  BY <1>1, <1>3, <1>5, <1>6, <1>7, <1>8, <1>9

\* The return of an agent's task keeps it.
LEMMA ReturnStep == ASSUME NEW a \in Agents PROVE IInv /\ Return(a) => IInv'
<1> SUFFICES ASSUME IInv, Return(a) PROVE IInv'
  OBVIOUS
<1> USE DEF IInv
<1>1. PICK r \in Risk : /\ outcome' = [outcome EXCEPT ![a] = Fresh(r)]
                        /\ last' = [last EXCEPT ![a] = Fresh(r)]
  BY DEF Return
<1> DEFINE f == Fresh(r)
<1>2. Started(a) /\ UNCHANGED <<sim_time, ticks, pc, level, results, cache>>
  BY DEF Return
<1>3. /\ f \in Result
      /\ f.computed_at = sim_time /\ f.staleness = 0 /\ f.original = sim_time
  BY DEF Fresh, Result, TypeOK
<1> HIDE DEF f
<1>4. /\ pc = "running" /\ lvl(a) = level
      /\ results[a] = NoResult
      /\ \A b \in Agents : Done(b)' <=> Done(b)
      /\ \A b \in Agents : b # a => outcome'[b] = outcome[b]
      /\ outcome'[a] = f
      /\ \A b \in Agents : b # a => (InFlight(b)' <=> InFlight(b))
      /\ ~InFlight(a)
  BY <1>1, <1>2, TaskFrame DEF f
<1>5. last'[a] = f /\ \A b \in Agents : b # a => last'[b] = last[b]
  BY <1>1 DEF TypeOK, f
<1>6. f # NoResult /\ f # Pending /\ f # Raised
  BY <1>3, SchedulerAssumption
<1>7. TypeOK'
  <2>1. outcome' \in [Agents -> Result \cup {Pending, Raised}]
    BY <1>1, <1>3 DEF TypeOK, f
  <2>2. last' \in [Agents -> OptionalResult]
    BY <1>1, <1>3 DEF TypeOK, OptionalResult, f
  <2>3. QED
    BY <1>2, <2>1, <2>2 DEF TypeOK
<1>8. sim_time \in Nat
  BY DEF TypeOK
<1>9. CacheIsGenuine'
  <2> SUFFICES ASSUME NEW b \in Agents
               PROVE  /\ InFlight(b)' => last'[b] = outcome'[b]
                      /\ ~InFlight(b)' => cache[b] = last'[b]
                      /\ cache[b] # NoResult => last'[b] # NoResult
                      /\ last'[b] # NoResult =>
                            /\ last'[b].staleness = 0
                            /\ last'[b].original = last'[b].computed_at
                            /\ last'[b].computed_at <= sim_time
    BY <1>2 DEF CacheIsGenuine
  <2>1. CASE b = a
    <3>1. InFlight(a)'
      BY <1>2, <1>3, <1>4 DEF InFlight, Started
    <3>2. QED
      BY <2>1, <3>1, <1>3, <1>4, <1>5, <1>6, <1>8
  <2>2. CASE b # a
    BY <2>2, <1>4, <1>5 DEF CacheIsGenuine
  <2>3. QED
    BY <2>1, <2>2
<1>10. LevelByLevel'
  <2>1. /\ pc' = "idle" => level' = IF ticks' > 0 THEN LevelCount ELSE 1
        /\ pc' # "idle" => ticks' > 0
    BY <1>2 DEF LevelByLevel
  <2>2. ASSUME NEW b \in Agents
        PROVE  /\ (results'[b] # NoResult) <=> Done(b)'
               /\ outcome'[b] # Pending => Done(b)' \/ b \in Level(level')
               /\ InFlight(b)' => outcome'[b].computed_at = sim_time'
                                  /\ outcome'[b].staleness = 0
                                  /\ outcome'[b].original = sim_time'
    <3>1. CASE b = a
      BY <3>1, <1>2, <1>3, <1>4 DEF LevelByLevel, Started
    <3>2. CASE b # a
      BY <3>2, <1>2, <1>4 DEF LevelByLevel
    <3>3. QED
      BY <3>1, <3>2
  <2>3. QED
    BY <2>1, <2>2 DEF LevelByLevel
<1>11. DecaysFromTheLastSuccess'
  BY <1>2, <1>4, <1>5 DEF DecaysFromTheLastSuccess
<1>12. AbortsOnlyWithoutHistory'
  BY <1>2, <1>4 DEF AbortsOnlyWithoutHistory
<1>13. QED
  BY <1>7, <1>9, <1>10, <1>11, <1>12

\* The failure of an agent's task keeps it.
LEMMA RaiseStep == ASSUME NEW a \in Agents PROVE IInv /\ Raise(a) => IInv'
<1> SUFFICES ASSUME IInv, Raise(a) PROVE IInv'
  OBVIOUS
<1> USE DEF IInv
<1>1. /\ Started(a) /\ UNCHANGED <<sim_time, ticks, pc, level, results, cache, last>>
      /\ outcome' = [outcome EXCEPT ![a] = Raised]
  BY DEF Raise
<1>2. /\ pc = "running" /\ lvl(a) = level
      /\ results[a] = NoResult
      /\ \A b \in Agents : Done(b)' <=> Done(b)
      /\ \A b \in Agents : b # a => outcome'[b] = outcome[b]
      /\ outcome'[a] = Raised
      /\ \A b \in Agents : b # a => (InFlight(b)' <=> InFlight(b))
      /\ ~InFlight(a)
  BY <1>1, TaskFrame
<1>3. ~InFlight(a)'
  BY <1>2, SchedulerAssumption DEF InFlight
<1>4. TypeOK'
  BY <1>1 DEF TypeOK
<1>5. CacheIsGenuine'
  <2> SUFFICES ASSUME NEW b \in Agents
               PROVE  /\ InFlight(b)' => last[b] = outcome'[b]
                      /\ ~InFlight(b)' => cache[b] = last[b]
    BY <1>1 DEF CacheIsGenuine
  <2>1. QED
    BY <1>2, <1>3 DEF CacheIsGenuine
<1>6. LevelByLevel'
  <2>1. /\ pc' = "idle" => level' = IF ticks' > 0 THEN LevelCount ELSE 1
        /\ pc' # "idle" => ticks' > 0
    BY <1>1 DEF LevelByLevel
  <2>2. ASSUME NEW b \in Agents
        PROVE  /\ (results'[b] # NoResult) <=> Done(b)'
               /\ outcome'[b] # Pending => Done(b)' \/ b \in Level(level')
               /\ InFlight(b)' => outcome'[b].computed_at = sim_time'
                                  /\ outcome'[b].staleness = 0
                                  /\ outcome'[b].original = sim_time'
    <3>1. CASE b = a
      BY <3>1, <1>1, <1>2, <1>3 DEF LevelByLevel, Started
    <3>2. CASE b # a
      BY <3>2, <1>1, <1>2 DEF LevelByLevel
    <3>3. QED
      BY <3>1, <3>2
  <2>3. QED
    BY <2>1, <2>2 DEF LevelByLevel
<1>7. DecaysFromTheLastSuccess' /\ AbortsOnlyWithoutHistory'
  BY <1>1, <1>2 DEF DecaysFromTheLastSuccess, AbortsOnlyWithoutHistory
<1>8. QED
  BY <1>4, <1>5, <1>6, <1>7

\* Collecting a level keeps it.
LEMMA CollectStep == IInv /\ Collect => IInv'
<1> SUFFICES ASSUME IInv, Collect PROVE IInv'
  OBVIOUS
<1> USE DEF IInv
<1>1. /\ pc = "running" /\ ticks > 0 /\ level \in 1..3 /\ sim_time \in Nat
      /\ UNCHANGED <<sim_time, ticks, outcome, last>>
  BY DEF Collect, Gathered, TypeOK, LevelCount, LevelByLevel
<1>2. \A a \in Level(level) : outcome[a] # Pending
  BY DEF Collect, Gathered
<1>3. Level(level) \subseteq Agents
  BY <1>1, LevelInPlan
<1>4. ASSUME NEW a \in Level(level), a \notin Failed
      PROVE  /\ outcome[a] \in Result /\ outcome[a] # NoResult
             /\ results'[a] = outcome[a] /\ cache'[a] = outcome[a]
             /\ last[a] = outcome[a]
             /\ outcome[a].computed_at = sim_time
             /\ outcome[a].staleness = 0 /\ outcome[a].original = sim_time
  <2>1. outcome[a] # Pending /\ outcome[a] # Raised
    BY <1>2, <1>4 DEF Failed
  <2>2. outcome[a] \in Result
    BY <1>3, <1>4, <2>1 DEF TypeOK
  <2>3. InFlight(a)
    BY <1>1, <1>4, <2>2 DEF InFlight
  <2>4. /\ last[a] = outcome[a]
        /\ outcome[a].computed_at = sim_time
        /\ outcome[a].staleness = 0 /\ outcome[a].original = sim_time
    BY <1>3, <1>4, <2>3 DEF CacheIsGenuine, LevelByLevel
  <2>5. results'[a] = outcome[a] /\ cache'[a] = outcome[a]
    BY <1>3, <1>4 DEF Collect, collected, with_results
  <2>6. QED
    BY <2>2, <2>4, <2>5, SchedulerAssumption
<1>5. ASSUME NEW a \in Failed
      PROVE  /\ a \in Level(level) /\ a \in Agents
             /\ cache[a] \in Result /\ cache[a] = last[a] /\ cache'[a] = cache[a]
             /\ last[a].staleness = 0 /\ last[a].computed_at \in Nat
             /\ last[a].computed_at <= sim_time
             /\ results'[a] = [risk |-> last[a].risk,
                               computed_at |-> sim_time,
                               staleness |-> sim_time - last[a].computed_at,
                               original |-> last[a].computed_at]
             /\ results'[a] \in Result
  <2>1. a \in Level(level) /\ outcome[a] = Raised
    BY <1>5 DEF Failed
  <2>2. a \in Agents
    BY <1>3, <2>1
  <2>3. cache[a] # NoResult
    BY <1>5 DEF Collect, Unknown
  <2>4. cache[a] \in Result
    BY <2>2, <2>3 DEF TypeOK, OptionalResult
  <2>5. ~InFlight(a)
    BY <2>1, SchedulerAssumption DEF InFlight
  <2>6. cache[a] = last[a]
    BY <2>2, <2>5 DEF CacheIsGenuine
  <2>7. last[a] # NoResult /\ last[a] \in Result
    BY <2>3, <2>4, <2>6
  <2>8. last[a].staleness = 0 /\ last[a].computed_at <= sim_time
    BY <2>2, <2>7 DEF CacheIsGenuine
  <2>9. last[a].risk \in Risk /\ last[a].computed_at \in Nat
    BY <2>7 DEF Result
  <2>10. cache'[a] = cache[a]
    BY <1>5, <2>2 DEF Collect, with_results
  <2>11. results'[a] = decay_confidence_for_staleness(last[a])
    BY <1>5, <2>1, <2>2, <2>6 DEF Collect, collected
  <2>12. sim_time - last[a].computed_at \in Nat
         /\ 0 + (sim_time - last[a].computed_at) = sim_time - last[a].computed_at
    BY <1>1, <2>8, <2>9
  <2>13. results'[a] = [risk |-> last[a].risk,
                        computed_at |-> sim_time,
                        staleness |-> sim_time - last[a].computed_at,
                        original |-> last[a].computed_at]
    BY <2>8, <2>11, <2>12 DEF decay_confidence_for_staleness
  <2>14. results'[a] \in Result
    BY <1>1, <2>9, <2>12, <2>13 DEF Result
  <2>15. QED
    BY <2>1, <2>2, <2>4, <2>6, <2>8, <2>9, <2>10, <2>13, <2>14
<1>6. ASSUME NEW a \in Agents, a \notin Level(level)
      PROVE  results'[a] = results[a] /\ cache'[a] = cache[a]
  <2>1. a \notin Failed
    BY <1>6 DEF Failed
  <2>2. QED
    BY <1>6, <2>1 DEF Collect, collected, with_results
<1>7. ASSUME NEW a \in Agents
      PROVE  results'[a] \in OptionalResult /\ cache'[a] \in OptionalResult
  <2>1. CASE a \in Failed
    BY <1>5, <2>1 DEF OptionalResult
  <2>2. CASE a \in Level(level) /\ a \notin Failed
    BY <1>4, <2>2 DEF OptionalResult
  <2>3. CASE a \notin Level(level)
    BY <1>6, <2>3 DEF TypeOK
  <2>4. QED
    BY <2>1, <2>2, <2>3
<1>8. TypeOK'
  <2>1. results' \in [Agents -> OptionalResult] /\ cache' \in [Agents -> OptionalResult]
    BY <1>7 DEF Collect, collected, with_results
  <2>2. level' \in 1..3 /\ pc' \in {"idle", "running", "aborted"}
    BY <1>1 DEF Collect, LevelCount
  <2>3. QED
    BY <1>1, <2>1, <2>2 DEF TypeOK, LevelCount
<1>9. \A a \in Agents : Done(a)' <=> (Done(a) \/ a \in Level(level))
  <2> TAKE a \in Agents
  <2>1. lvl(a) \in 1..3
    BY DEF lvl
  <2>2. Done(a) <=> lvl(a) < level
    BY <1>1, DoneByLevel
  <2>3. (a \in Level(level)) <=> (lvl(a) = level)
    BY <1>1, OneLevel
  <2>4. Done(a)' <=> (lvl(a) < level' \/ (pc' = "idle" /\ ticks' > 0))
    <3>1. level' \in 1..3
      BY <1>8 DEF TypeOK, LevelCount
    <3>2. (\E l \in 1..level' - 1 : a \in Level(l)) <=> lvl(a) < level'
      BY <3>1, EarlierLevels
    <3>3. QED
      BY <3>2 DEF Done
  <2>5. CASE level = 3
    BY <1>1, <2>1, <2>2, <2>3, <2>4, <2>5 DEF Collect, LevelCount
  <2>6. CASE level # 3
    BY <1>1, <2>1, <2>2, <2>3, <2>4, <2>6 DEF Collect, LevelCount
  <2>7. QED
    BY <2>5, <2>6
<1>10. \A a \in Agents : ~InFlight(a)'
  <2> SUFFICES ASSUME NEW a \in Agents, InFlight(a)'
               PROVE  FALSE
    OBVIOUS
  <2>1. level # 3 /\ level' = level + 1 /\ a \in Level(level + 1) /\ outcome[a] \in Result
    BY <1>1 DEF InFlight, Collect, LevelCount
  <2>2. outcome[a] # Pending
    BY <2>1, SchedulerAssumption
  <2>3. Done(a) \/ a \in Level(level)
    BY <2>2 DEF LevelByLevel
  <2>4. lvl(a) = level + 1
    BY <1>1, <2>1, OneLevel
  <2>5. ~Done(a)
    BY <1>1, <2>4, DoneByLevel
  <2>6. a \notin Level(level)
    BY <1>1, <2>4, OneLevel
  <2>7. QED
    BY <2>3, <2>5, <2>6
<1>11. CacheIsGenuine'
  <2> SUFFICES ASSUME NEW a \in Agents
               PROVE  cache'[a] = last[a]
    BY <1>1, <1>10 DEF CacheIsGenuine
  <2>1. CASE a \in Failed
    BY <1>5, <2>1
  <2>2. CASE a \in Level(level) /\ a \notin Failed
    BY <1>4, <2>2
  <2>3. CASE a \notin Level(level)
    <3>1. ~InFlight(a)
      BY <2>3 DEF InFlight
    <3>2. QED
      BY <1>6, <2>3, <3>1 DEF CacheIsGenuine
  <2>4. QED
    BY <2>1, <2>2, <2>3
<1>12. LevelByLevel'
  <2>1. /\ pc' = "idle" => level' = IF ticks' > 0 THEN LevelCount ELSE 1
        /\ pc' # "idle" => ticks' > 0
    BY <1>1 DEF Collect
  <2>2. ASSUME NEW a \in Agents
        PROVE  (results'[a] # NoResult) <=> Done(a)'
    <3>1. CASE a \in Failed
      BY <1>5, <1>9, <3>1, SchedulerAssumption
    <3>2. CASE a \in Level(level) /\ a \notin Failed
      BY <1>4, <1>9, <3>2
    <3>3. CASE a \notin Level(level)
      BY <1>6, <1>9, <3>3 DEF LevelByLevel
    <3>4. QED
      BY <3>1, <3>2, <3>3
  <2>3. ASSUME NEW a \in Agents
        PROVE  outcome'[a] # Pending => Done(a)'
    BY <1>1, <1>9 DEF LevelByLevel
  <2>4. QED
    BY <1>10, <2>1, <2>2, <2>3 DEF LevelByLevel
<1>13. DecaysFromTheLastSuccess'
  <2> SUFFICES ASSUME NEW a \in Agents, results'[a] # NoResult
               PROVE  /\ last[a] # NoResult
                      /\ results'[a].risk = last[a].risk
                      /\ results'[a].staleness = sim_time - last[a].computed_at
                      /\ results'[a].original = last[a].computed_at
                      /\ results'[a].computed_at = sim_time
    BY <1>1 DEF DecaysFromTheLastSuccess
  <2>1. CASE a \in Failed
    <3>1. cache[a] \in Result /\ cache[a] = last[a]
      BY <1>5, <2>1
    <3>2. last[a] # NoResult
      BY <3>1, SchedulerAssumption
    <3>3. results'[a] = [risk |-> last[a].risk,
                         computed_at |-> sim_time,
                         staleness |-> sim_time - last[a].computed_at,
                         original |-> last[a].computed_at]
      BY <1>5, <2>1
    <3>4. QED
      BY <3>2, <3>3
  <2>2. CASE a \in Level(level) /\ a \notin Failed
    BY <1>1, <1>4, <2>2
  <2>3. CASE a \notin Level(level)
    BY <1>6, <2>3 DEF DecaysFromTheLastSuccess
  <2>4. QED
    BY <2>1, <2>2, <2>3
<1>14. AbortsOnlyWithoutHistory'
  BY <1>1 DEF Collect, AbortsOnlyWithoutHistory
<1>15. QED
  BY <1>8, <1>11, <1>12, <1>13, <1>14

\* Aborting a tick keeps it.
LEMMA AbortStep == IInv /\ Abort => IInv'
<1> SUFFICES ASSUME IInv, Abort PROVE IInv'
  OBVIOUS
<1> USE DEF IInv
<1>1. /\ pc = "running" /\ pc' = "aborted"
      /\ UNCHANGED <<sim_time, ticks, level, results, cache, outcome, last>>
  BY DEF Abort, Gathered
<1>2. TypeOK'
  BY <1>1 DEF TypeOK
<1>3. \A a \in Agents : (InFlight(a)' <=> InFlight(a)) /\ (Done(a)' <=> Done(a))
  BY <1>1 DEF InFlight, Done
<1>4. CacheIsGenuine'
  BY <1>1, <1>3 DEF CacheIsGenuine
<1>5. LevelByLevel'
  BY <1>1, <1>3 DEF LevelByLevel
<1>6. DecaysFromTheLastSuccess'
  BY <1>1 DEF DecaysFromTheLastSuccess
<1>7. AbortsOnlyWithoutHistory'
  <2>1. PICK a \in Unknown : TRUE
    BY DEF Abort
  <2>2. a \in Level(level) /\ outcome[a] = Raised /\ cache[a] = NoResult
    BY DEF Unknown, Failed
  <2>3. a \in Agents
    BY <2>2, LevelInPlan DEF TypeOK, LevelCount
  <2>4. ~InFlight(a)
    BY <2>2, SchedulerAssumption DEF InFlight
  <2>5. last[a] = NoResult
    BY <2>2, <2>3, <2>4 DEF CacheIsGenuine
  <2>6. QED
    BY <1>1, <2>2, <2>3, <2>5 DEF AbortsOnlyWithoutHistory
<1>8. QED
  BY <1>2, <1>4, <1>5, <1>6, <1>7

-----------------------------------------------------------------------------

\* The inductive invariant holds of every replay.
THEOREM SchedulerInvariant == Spec => []IInv
<1>1. Init => IInv
  BY InitIInv
<1>2. IInv /\ [Next]_vars => IInv'
  <2>1. ASSUME IInv, UNCHANGED vars PROVE IInv'
    BY <2>1 DEF IInv, TypeOK, CacheIsGenuine, LevelByLevel, InFlight, Done,
       DecaysFromTheLastSuccess, AbortsOnlyWithoutHistory, vars
  <2>2. QED
    BY <2>1, StartTickStep, ReturnStep, RaiseStep, CollectStep, AbortStep DEF Next
<1>3. QED
  BY <1>1, <1>2, PTL DEF Spec

\* Type correctness of the scheduler's results, cache and outcomes.
THEOREM SchedulerTypeOK == Spec => []TypeOK
<1>1. IInv => TypeOK
  BY DEF IInv
<1>2. QED
  BY <1>1, SchedulerInvariant, PTL

(***************************************************************************)
(* A substitute decays from the agent's latest genuine evaluation, however *)
(* long the run of failures: AgentCache never holds a decayed result.      *)
(***************************************************************************)
THEOREM SchedulerDecay == Spec => []DecaysFromTheLastSuccess
<1>1. IInv => DecaysFromTheLastSuccess
  BY DEF IInv
<1>2. QED
  BY <1>1, SchedulerInvariant, PTL

\* Every agent's task finds its upstream results: three levels suffice.
THEOREM SchedulerUpstream == Spec => []UpstreamIsPresent
<1>1. IInv => UpstreamIsPresent
  <2> SUFFICES ASSUME IInv, NEW a \in Agents, outcome[a] # Pending,
                      NEW d \in upstream(a)
               PROVE  results[d] # NoResult
    BY DEF UpstreamIsPresent
  <2>1. d \in Agents /\ lvl(d) < lvl(a) /\ lvl(a) \in 1..3 /\ lvl(d) \in 1..3
    BY UpstreamIsEarlier DEF lvl
  <2>2. Done(a) \/ a \in Level(level)
    BY DEF IInv, LevelByLevel
  <2>3. level \in 1..3
    BY DEF IInv, TypeOK, LevelCount
  <2>4. Done(a) => Done(d)
    BY <2>1, <2>3, DoneByLevel DEF IInv
  <2>5. a \in Level(level) => Done(d)
    BY <2>1, <2>3, OneLevel, DoneByLevel DEF IInv
  <2>6. QED
    BY <2>1, <2>2, <2>4, <2>5 DEF IInv, LevelByLevel
<1>2. QED
  BY <1>1, SchedulerInvariant, PTL

\* A completed tick has a result of every agent for fuse() to weigh.
THEOREM SchedulerComplete == Spec => []CompletedTickHasEveryAgent
<1>1. IInv => CompletedTickHasEveryAgent
  BY DEF IInv, LevelByLevel, Done, CompletedTickHasEveryAgent
<1>2. QED
  BY <1>1, SchedulerInvariant, PTL

\* NoLastKnownResultError needs an agent that was never evaluated.
THEOREM SchedulerAborts == Spec => []AbortsOnlyWithoutHistory
<1>1. IInv => AbortsOnlyWithoutHistory
  BY DEF IInv
<1>2. QED
  BY <1>1, SchedulerInvariant, PTL
=============================================================================
