----------------------------- MODULE Scheduler ------------------------------
(***************************************************************************)
(* run_tick of src/domain/orchestrator/scheduler.py, tick after tick for   *)
(* one zone: the tasks of a level in any order, each returning or raising, *)
(* then the collection loop that substitutes an agent's last known result  *)
(* for a failure.  A result keeps its risk, the sim time it claims, the    *)
(* minutes its confidence has been decayed for (confidence is the agent's  *)
(* own times exp(-lambda * staleness)) and the time its evidence names.    *)
(***************************************************************************)
EXTENDS AgentPlan

CONSTANTS
    Risk,       \* the risks an agent may compute
    NoResult,   \* an agent absent from a mapping
    Pending,    \* the task of an agent has not finished
    Raised,     \* the task of an agent ended with an exception
    MaxTicks,   \* bound: ticks of a replay
    MaxGap      \* bound: minutes between consecutive ticks (0: a duplicate)

Result == [risk : Risk, computed_at : Nat, staleness : Nat, original : Nat]

ASSUME SchedulerAssumption ==
    /\ MaxTicks \in Nat
    /\ MaxGap \in Nat
    /\ {NoResult, Pending, Raised} \cap Result = {}
    /\ NoResult # Pending /\ NoResult # Raised /\ Pending # Raised

VARIABLES
    sim_time,   \* the tick's sim_time, in minutes
    ticks,      \* ticks started
    pc,         \* "idle", "running", or "aborted" (NoLastKnownResultError)
    level,      \* the level being run
    results,    \* run_tick's results so far
    cache,      \* AgentCache.last_known_results
    outcome,    \* what gather has of the current tick's tasks
    last        \* observation: each agent's latest genuine evaluation

vars == <<sim_time, ticks, pc, level, results, cache, outcome, last>>

Nothing == [a \in Agents |-> NoResult]

Fresh(r) == [risk |-> r, computed_at |-> sim_time, staleness |-> 0, original |-> sim_time]

(***************************************************************************)
(* risk carried forward, confidence decayed by the minutes since           *)
(* computed_at (never negative here: ticks run in timestamp order).        *)
(***************************************************************************)
decay_confidence_for_staleness(last_known) ==
    [risk |-> last_known.risk,
     computed_at |-> sim_time,
     staleness |-> last_known.staleness + (sim_time - last_known.computed_at),
     original |-> last_known.computed_at]

Init ==
    /\ sim_time = 0
    /\ ticks = 0
    /\ pc = "idle"
    /\ level = 1
    /\ results = Nothing
    /\ cache = Nothing
    /\ outcome = [a \in Agents |-> Pending]
    /\ last = Nothing

\* The executor calls run_tick for the next timestamp.
StartTick ==
    /\ pc = "idle"
    /\ ticks < MaxTicks
    /\ \E gap \in 0..MaxGap : sim_time' = sim_time + gap
    /\ ticks' = ticks + 1
    /\ pc' = "running"
    /\ level' = 1
    /\ results' = Nothing
    /\ outcome' = [a \in Agents |-> Pending]
    /\ UNCHANGED <<cache, last>>

Started(a) == pc = "running" /\ a \in Level(level) /\ outcome[a] = Pending

\* _run_agent: the context builder and evaluate() succeed.
Return(a) ==
    /\ Started(a)
    /\ \A d \in upstream(a) : results[d] # NoResult
    /\ \E r \in Risk :
          /\ outcome' = [outcome EXCEPT ![a] = Fresh(r)]
          /\ last' = [last EXCEPT ![a] = Fresh(r)]
    /\ UNCHANGED <<sim_time, ticks, pc, level, results, cache>>

\* _run_agent: either raises, a KeyError for a missing upstream included.
Raise(a) ==
    /\ Started(a)
    /\ outcome' = [outcome EXCEPT ![a] = Raised]
    /\ UNCHANGED <<sim_time, ticks, pc, level, results, cache, last>>

Gathered == pc = "running" /\ \A a \in Level(level) : outcome[a] # Pending

Failed == {a \in Level(level) : outcome[a] = Raised}

\* Mutant: a failure always ends the replay.
Unknown_AnyFailure == Failed

Unknown == {a \in Failed : cache[a] = NoResult}

\* Mutant: exceptions are cached like results.
with_results_Raised ==
    [a \in Agents |-> IF a \in Level(level) THEN outcome[a] ELSE cache[a]]

\* Mutant: the substitute is cached as if it had been evaluated.
with_results_Substitutes ==
    [a \in Agents |-> IF a \notin Level(level) THEN cache[a]
                      ELSE IF a \in Failed THEN decay_confidence_for_staleness(cache[a])
                      ELSE outcome[a]]

\* AgentCache.with_result for every agent of the level that returned.
with_results ==
    [a \in Agents |-> IF a \in Level(level) \ Failed THEN outcome[a] ELSE cache[a]]

\* Mutant: a failed agent is left out of the results.
collected_Excluding ==
    [a \in Agents |-> IF a \in Level(level) \ Failed THEN outcome[a] ELSE results[a]]

collected ==
    [a \in Agents |-> IF a \notin Level(level) THEN results[a]
                      ELSE IF a \in Failed THEN decay_confidence_for_staleness(cache[a])
                      ELSE outcome[a]]

\* The zip loop after gather, for a level it can complete.
Collect ==
    /\ Gathered
    /\ Unknown = {}
    /\ results' = collected
    /\ cache' = with_results
    /\ IF level = LevelCount
       THEN pc' = "idle" /\ level' = level
       ELSE pc' = pc /\ level' = level + 1
    /\ UNCHANGED <<sim_time, ticks, outcome, last>>

\* NoLastKnownResultError leaves run_tick and ends the replay.
Abort ==
    /\ Gathered
    /\ Unknown # {}
    /\ pc' = "aborted"
    /\ UNCHANGED <<sim_time, ticks, level, results, cache, outcome, last>>

Next ==
    \/ StartTick
    \/ \E a \in Agents : Return(a) \/ Raise(a)
    \/ Collect
    \/ Abort

Spec == Init /\ [][Next]_vars

-----------------------------------------------------------------------------

OptionalResult == Result \cup {NoResult}

TypeOK ==
    /\ sim_time \in Nat
    /\ ticks \in 0..MaxTicks
    /\ pc \in {"idle", "running", "aborted"}
    /\ level \in 1..LevelCount
    /\ results \in [Agents -> OptionalResult]
    /\ cache \in [Agents -> OptionalResult]
    /\ outcome \in [Agents -> Result \cup {Pending, Raised}]
    /\ last \in [Agents -> OptionalResult]

(***************************************************************************)
(* Staleness never compounds and never resets: however many ticks in a row *)
(* an agent fails, and whichever fail beside it, the result used for it    *)
(* carries the risk of its latest genuine evaluation, decayed for exactly  *)
(* the minutes since, and its evidence names that evaluation.              *)
(***************************************************************************)
DecaysFromTheLastSuccess ==
    \A a \in Agents : results[a] # NoResult =>
        /\ last[a] # NoResult
        /\ results[a].risk = last[a].risk
        /\ results[a].staleness = sim_time - last[a].computed_at
        /\ results[a].original = last[a].computed_at
        /\ results[a].computed_at = sim_time

(***************************************************************************)
(* An agent's task never runs before the results it indexes are there, so  *)
(* upstream_results["gas_risk"] cannot raise KeyError and worker exposure  *)
(* never reads a missing permit result as "no coverage".                   *)
(***************************************************************************)
UpstreamIsPresent ==
    \A a \in Agents : outcome[a] # Pending =>
        \A d \in upstream(a) : results[d] # NoResult

(***************************************************************************)
(* A tick that ends hands fuse() a result of every agent: a failing agent  *)
(* is never excluded.                                                      *)
(***************************************************************************)
CompletedTickHasEveryAgent ==
    pc = "idle" /\ ticks > 0 => \A a \in Agents : results[a] # NoResult

(***************************************************************************)
(* NoLastKnownResultError is for first ticks only: a replay is given up    *)
(* only when an agent failed that has never been evaluated in it.          *)
(***************************************************************************)
AbortsOnlyWithoutHistory ==
    pc = "aborted" => \E a \in Agents : outcome[a] = Raised /\ last[a] = NoResult

-----------------------------------------------------------------------------

\* A result of the current level that gather holds and the loop has not seen.
InFlight(a) == pc # "idle" /\ a \in Level(level) /\ outcome[a] \in Result

\* The agents whose results the current tick has collected.
Done(a) ==
    \/ \E l \in 1..level - 1 : a \in Level(l)
    \/ pc = "idle" /\ ticks > 0

(***************************************************************************)
(* Why the properties hold: the cache is the latest genuine evaluation of  *)
(* every agent, but for results still in flight, and a tick's results are  *)
(* those of the levels behind it.                                          *)
(***************************************************************************)
CacheIsGenuine ==
    \A a \in Agents :
        /\ InFlight(a) => last[a] = outcome[a]
        /\ ~InFlight(a) => cache[a] = last[a]
        /\ cache[a] # NoResult => last[a] # NoResult
        /\ last[a] # NoResult =>
              /\ last[a].staleness = 0
              /\ last[a].original = last[a].computed_at
              /\ last[a].computed_at <= sim_time

LevelByLevel ==
    /\ pc = "idle" => level = IF ticks > 0 THEN LevelCount ELSE 1
    /\ pc # "idle" => ticks > 0
    /\ \A a \in Agents :
          /\ (results[a] # NoResult) <=> Done(a)
          /\ outcome[a] # Pending => Done(a) \/ a \in Level(level)
          /\ InFlight(a) => outcome[a].computed_at = sim_time
                             /\ outcome[a].staleness = 0
                             /\ outcome[a].original = sim_time

IInv ==
    /\ TypeOK
    /\ CacheIsGenuine
    /\ LevelByLevel
    /\ DecaysFromTheLastSuccess
    /\ AbortsOnlyWithoutHistory
=============================================================================
