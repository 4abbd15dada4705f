------------------------- MODULE ScenarioExecution --------------------------
(***************************************************************************)
(* execute_builder_scenario (src/services/scenario_builder.py) and         *)
(* run_zone_tick (src/services/risk_pipeline.py): requests that share one  *)
(* event loop and one database.  A request persists its readings and       *)
(* permits in one transaction, then runs its ticks; a tick reads the       *)
(* database level by level and gives up the loop between levels, so other  *)
(* requests and ingested readings come between.  Queries run READ          *)
(* COMMITTED: each sees what is committed when it runs.                    *)
(***************************************************************************)
EXTENDS Tiering, Fusion, Generator, PermitIntelligence

CONSTANTS
    Runs,           \* requests to execute a scenario
    Scenarios,      \* the scenarios they may carry
    Adjacent,       \* zone_adjacency: a function from zones to sets of zones
    Headcount,      \* workers currently in each zone
    Degraded,       \* degraded equipment types of each zone, in halves
    Times,          \* timestamps, in quarters of an hour
    IngestValues,   \* values REST clients ingest, in half alarm thresholds
    MaxIngest,      \* bound: ingested readings
    Ingested        \* observation: the writer of an ingested reading

VARIABLES
    readings,       \* sensor_readings: [id, ts, zone, value, by]
    permits,        \* permits: a set of rows
    assessments,    \* risk_assessments by (zone, timestamp), or NoRow
    run,            \* per request: where it is and what its frames hold
    ingested,       \* readings ingested so far
    scores          \* observation: the scores each request has committed

\* The scenarios are scenarios, and Times holds the stamps of their readings.
ASSUME ScenariosAssumption ==
    /\ Times \subseteq Int
    /\ \A s \in Scenarios : IsScenario(s)
    /\ \A s \in Scenarios : \A x \in ToSet(generate_sensor_readings(s)) : x.ts \in Times

\* None: no row of this key.
NoRow == [none |-> TRUE]

db == <<readings, permits, assessments>>

vars == <<readings, permits, assessments, run, ingested, scores>>

Idle == [pc |-> "new", scenario |-> NoRow, ticks |-> <<>>, pos |-> 1, poisoned |-> FALSE,
         tier_state |-> InitialTierState,
         gas |-> 0, evidence |-> NoRow, permit |-> 0, worker |-> 0, sources |-> {}]

Init ==
    /\ readings = {}
    /\ permits = {}
    /\ assessments = [k \in Zones \X Times |-> NoRow]
    /\ run = [r \in Runs |-> Idle]
    /\ ingested = 0
    /\ scores = [r \in Runs |-> <<>>]

(***************************************************************************)
(* session.merge, row after row: a row replaces the row of the same        *)
(* primary key, so the last row of a key stays.                            *)
(***************************************************************************)
Lasting(rows, keys) ==
    {rows[i] : i \in {i \in DOMAIN rows :
        \A j \in DOMAIN rows : keys[j] = keys[i] => j <= i}}

reading_keys(rows) == [i \in DOMAIN rows |-> <<rows[i].id, rows[i].ts>>]

merge_readings(table, rows) ==
    {x \in table : \A i \in DOMAIN rows : reading_keys(rows)[i] # <<x.id, x.ts>>}
      \cup Lasting(rows, reading_keys(rows))

\* Every column but status is set on the new object, so a status survives.
merge_permits(table, rows) ==
    LET ids == [i \in DOMAIN rows |-> rows[i].id]
        kept(row) == {x \in table : x.id = row.id}
    IN  {x \in table : \A i \in DOMAIN rows : ids[i] # x.id}
          \cup {[row EXCEPT !.status = IF kept(row) = {} THEN @ ELSE (CHOOSE x \in kept(row) : TRUE).status] :
                  row \in Lasting(rows, ids)}

\* The rows a request stores, with their writer.
reading_rows(r, s) ==
    LET rows == generate_sensor_readings(s)
    IN  [i \in DOMAIN rows |->
           [id |-> rows[i].id, ts |-> rows[i].ts, zone |-> rows[i].zone, value |-> rows[i].value, by |-> r]]

permit_rows(r, s) ==
    LET rows == generate_permits(s)
    IN  [i \in DOMAIN rows |-> rows[i] @@ ("by" :> r)]

ticks(r) == run[r].ticks

tick(r) == ticks(r)[run[r].pos]

FirstOfZone(r) == run[r].pos = 1 \/ ticks(r)[run[r].pos - 1].zone # tick(r).zone

\* What a request keeps once its tick is over.
Between(r, pc) ==
    [Idle EXCEPT !.scenario = run[r].scenario, !.ticks = ticks(r), !.pos = run[r].pos,
                 !.tier_state = run[r].tier_state, !.poisoned = run[r].poisoned, !.pc = pc]

-----------------------------------------------------------------------------
(* The request: validate, persist, start the first tick.                   *)

Execute(r, s) ==
    /\ run[r].pc = "new"
    /\ validate_builder_scenario(s)
    /\ readings' = merge_readings(readings, reading_rows(r, s))
    /\ permits' = merge_permits(permits, permit_rows(r, s))
    /\ run' = [run EXCEPT ![r] = [Idle EXCEPT
                 !.scenario = s, !.ticks = schedule(s),
                 !.pc = IF schedule(s) = <<>> THEN "finished" ELSE "gas"]]
    /\ UNCHANGED <<assessments, ingested, scores>>

\* Validation errors are returned and nothing is written.
Reject(r, s) ==
    /\ run[r].pc = "new"
    /\ ~validate_builder_scenario(s)
    /\ run' = [run EXCEPT ![r].pc = "rejected", ![r].scenario = s]
    /\ UNCHANGED <<db, ingested, scores>>

\* The persisting transaction fails and is rolled back.
PersistFails(r, s) ==
    /\ run[r].pc = "new"
    /\ validate_builder_scenario(s)
    /\ run' = [run EXCEPT ![r].pc = "failed", ![r].scenario = s]
    /\ UNCHANGED <<db, ingested, scores>>

-----------------------------------------------------------------------------
(* run_zone_tick: the three levels, then the write.                        *)

\* Mutant: the latest reading ever, whatever the tick's sim_time.
recent_Latest(zone, sim_time) ==
    LET rows == {x \in readings : x.zone = zone}
    IN  {x \in rows : \A y \in rows : y.ts <= x.ts}

\* The newest of SensorReadingRepository.recent: equal timestamps in any order.
recent(zone, sim_time) ==
    LET rows == {x \in readings : x.zone = zone /\ x.ts <= sim_time}
    IN  {x \in rows : \A y \in rows : y.ts <= x.ts}

\* Level 1: Gas Risk over the readings, beside Equipment Status.
EvaluateGas(r) ==
    /\ run[r].pc = "gas" /\ ~run[r].poisoned
    /\ LET z == tick(r).zone
           t == tick(r).ts
       IN  \/ /\ recent(z, t) = {}
              /\ run' = [run EXCEPT ![r].pc = "permit",
                           ![r].gas = gas_calculate_risk(FALSE, 0, 0),
                           ![r].evidence = NoRow, ![r].sources = {}]
           \/ \E x \in recent(z, t) :
                 run' = [run EXCEPT ![r].pc = "permit",
                           ![r].gas = gas_calculate_risk(TRUE, x.value, t - x.ts),
                           ![r].evidence = x, ![r].sources = {x.by}]
    /\ UNCHANGED <<db, ingested, scores>>

list_open_by_zone(z) == {p \in permits : p.zone = z /\ p.status # "closed"}

latest_by_zone(z) ==
    LET rows == {t \in Times : assessments[<<z, t>>] # NoRow}
    IN  IF rows = {} THEN NoRow ELSE assessments[<<z, Max(rows)>>]

\* The adjacent zones that have an assessment: its gas risk, their permits.
adjacent_zones(z) ==
    {[gas |-> latest_by_zone(n).gas,
      types |-> {p.permit_type : p \in list_open_by_zone(n)}] :
        n \in {m \in Adjacent[z] : latest_by_zone(m) # NoRow}}

\* Level 2: Permit Intelligence over open permits and adjacent zones.
EvaluatePermit(r) ==
    /\ run[r].pc = "permit" /\ ~run[r].poisoned
    /\ LET z == tick(r).zone
           own == list_open_by_zone(z)
           neighbours == {m \in Adjacent[z] : latest_by_zone(m) # NoRow}
       IN  run' = [run EXCEPT ![r].pc = "worker",
                     ![r].permit = permit_risk(own, run[r].gas, adjacent_zones(z)),
                     ![r].sources = @ \cup {p.by : p \in own}
                                      \cup {latest_by_zone(m).by : m \in neighbours}]
    /\ UNCHANGED <<db, ingested, scores>>

\* Level 3: Worker Exposure.
EvaluateWorker(r) ==
    /\ run[r].pc = "worker" /\ ~run[r].poisoned
    /\ run' = [run EXCEPT ![r].pc = "write",
                 ![r].worker = worker_calculate_risk(Headcount[tick(r).zone], run[r].gas)]
    /\ UNCHANGED <<db, ingested, scores>>

next_level(pc) ==
    CASE pc = "gas" -> "permit" [] pc = "permit" -> "worker" [] pc = "worker" -> "write"

(***************************************************************************)
(* A query of a level fails.  PostgreSQL refuses every later statement of  *)
(* the transaction.  With nothing cached (the zone's first tick) the       *)
(* scheduler raises NoLastKnownResultError; otherwise it substitutes and   *)
(* goes on, and each later level's queries fail as well.                   *)
(***************************************************************************)
QueryFails(r) ==
    /\ run[r].pc \in {"gas", "permit", "worker"}
    /\ run' = IF FirstOfZone(r)
              THEN [run EXCEPT ![r] = Between(r, "failed")]
              ELSE [run EXCEPT ![r].pc = next_level(@), ![r].poisoned = TRUE]
    /\ UNCHANGED <<db, ingested, scores>>

agent_risks(r) ==
    [a \in Agents |->
       CASE a = "gas_risk" -> run[r].gas
         [] a = "permit_intelligence" -> run[r].permit
         [] a = "worker_exposure" -> run[r].worker
         [] OTHER -> equipment_calculate_risk(Degraded[tick(r).zone])]

\* Mutant: the tier state is carried over from one zone to the next.
threaded_AcrossZones(r) == run[r].tier_state

\* The state the executor passes in: fresh at the first tick of a zone.
threaded(r) == IF FirstOfZone(r) THEN InitialTierState ELSE run[r].tier_state

(***************************************************************************)
(* build_counterfactual_readings with no as_of, and evaluate: does the     *)
(* latest reading ever stored for the zone reach its alarm threshold (two  *)
(* halves)?                                                                *)
(***************************************************************************)
counterfactual_alerts(z) ==
    IF recent_Latest(z, 0) = {} THEN {FALSE}
    ELSE {x.value >= 2 : x \in recent_Latest(z, 0)}

\* The stored row, and beside it what _log_comparison logs and observations.
assessment(r, state, alert) ==
    [tier |-> state.current_tier, score |-> fuse(agent_risks(r)),
     gas |-> run[r].gas, permit |-> run[r].permit, alert |-> alert,
     evidence |-> run[r].evidence, sources |-> run[r].sources, by |-> r]

\* Mutant: the loop skips a tick when it moves on.
after_tick_Skips(r) == run[r].pos + 2

after_tick(r) == run[r].pos + 1

(***************************************************************************)
(* Fusion, tiering, the row and its commit, then the counterfactual in a   *)
(* session of its own; outcome is where the request goes from there.       *)
(***************************************************************************)
Commit(r, outcome) ==
    LET state == transition(threaded(r), fuse(agent_risks(r)))
        z == tick(r).zone
    IN  /\ run[r].pc = "write" /\ ~run[r].poisoned
        /\ \E alert \in counterfactual_alerts(z) :
              assessments' = [assessments EXCEPT ![<<z, tick(r).ts>>] =
                                assessment(r, state, alert)]
        /\ scores' = [scores EXCEPT ![r] = Append(@, fuse(agent_risks(r)))]
        /\ run' = [run EXCEPT ![r] = [Between(r, outcome) EXCEPT
                     !.tier_state = state, !.pos = after_tick(r)]]
        /\ UNCHANGED <<readings, permits, ingested>>

\* The comparison is logged and the loop goes on to the next tick.
WriteAssessment(r) ==
    Commit(r, IF after_tick(r) > Len(ticks(r)) THEN "finished" ELSE "gas")

\* The counterfactual's session fails after the commit.
CounterfactualFails(r) == Commit(r, "failed")

\* create() or the commit fails, always so in a poisoned transaction.
WriteFails(r) ==
    /\ run[r].pc = "write"
    /\ run' = [run EXCEPT ![r] = Between(r, "failed")]
    /\ UNCHANGED <<db, ingested, scores>>

-----------------------------------------------------------------------------

\* POST /ingest/reading, on a thread of its own: a random id, any timestamp.
Ingest(z, v, t) ==
    /\ ingested < MaxIngest
    /\ ingested' = ingested + 1
    /\ readings' = readings \cup
         {[id |-> <<Ingested, ingested>>, ts |-> t, zone |-> z, value |-> v, by |-> Ingested]}
    /\ UNCHANGED <<permits, assessments, run, scores>>

Step(r) ==
    \/ QueryFails(r) \/ WriteFails(r)
    \/ EvaluateGas(r) \/ EvaluatePermit(r) \/ EvaluateWorker(r)
    \/ WriteAssessment(r) \/ CounterfactualFails(r)

Next ==
    \/ \E r \in Runs, s \in Scenarios : Execute(r, s) \/ Reject(r, s) \/ PersistFails(r, s)
    \/ \E r \in Runs : Step(r)
    \/ \E z \in Zones, v \in IngestValues, t \in Times : Ingest(z, v, t)

Spec == Init /\ [][Next]_vars

\* The event loop runs every ready task in turn, and queries return or raise.
FairSpec == Spec /\ \A r \in Runs : WF_vars(Step(r))

-----------------------------------------------------------------------------

Ended == {"finished", "rejected", "failed"}

TypeOK ==
    /\ \A x \in readings : x.zone \in Zones /\ x.ts \in Times /\ x.value \in Nat
    /\ \A p \in permits : p.zone \in Zones /\ p.baseline \in 0..MaxRisk
    /\ \A k \in Zones \X Times :
          assessments[k] # NoRow =>
             /\ assessments[k].tier \in Tiers
             /\ assessments[k].gas \in 0..MaxRisk
             /\ assessments[k].score \in 0..MaxRisk * ScoreScale
    /\ \A r \in Runs : run[r].pc \in {"new", "gas", "permit", "worker", "write"} \cup Ended
    /\ ingested \in 0..MaxIngest

\* The caller chooses the seed, and the builder's drafts begin with the same one, so
\* nothing keeps two scenarios from sharing it: request q carried another scenario than
\* r, with a reading of the id and the time of one of r's.
Displaces(q, r) ==
    /\ run[r].pc # "new"
    /\ ticks(q) # <<>> /\ run[q].scenario # run[r].scenario
    /\ \E x \in ToSet(generate_sensor_readings(run[r].scenario)),
          y \in ToSet(generate_sensor_readings(run[q].scenario)) : y.id = x.id /\ y.ts = x.ts

(***************************************************************************)
(* Every assessment stored for (zone, t) was computed from a reading of    *)
(* that zone taken at t: never from a later one, though the whole scenario *)
(* is persisted before its first tick, and from an older one or none only  *)
(* where another scenario displaces readings of the request that wrote it. *)
(***************************************************************************)
EvidenceIsOfTheTick ==
    \A k \in Zones \X Times : assessments[k] # NoRow =>
        LET row == assessments[k]
        IN  /\ row.evidence # NoRow => row.evidence.zone = k[1] /\ row.evidence.ts <= k[2]
            /\ \/ row.evidence # NoRow /\ row.evidence.ts = k[2]
               \/ \E q \in Runs : Displaces(q, row.by)

(***************************************************************************)
(* Executions commit tick by tick and in order: whatever failed and        *)
(* whoever ran beside it, the ticks before a request's position have their *)
(* rows, and a finished request has all of them.                           *)
(***************************************************************************)
CommittedPrefix ==
    \A r \in Runs : run[r].pc \notin {"new", "rejected"} =>
        /\ \A i \in 1..run[r].pos - 1 :
              assessments[<<ticks(r)[i].zone, ticks(r)[i].ts>>] # NoRow
        /\ Len(scores[r]) = run[r].pos - 1
        /\ run[r].pc = "finished" => Len(scores[r]) = Len(ticks(r))

\* The scores request r committed for the zone of its latest tick.
ZoneScores(r) ==
    LET last == Len(scores[r])
        zone == ticks(r)[last].zone
    IN  [i \in 1..Cardinality({j \in 1..last : ticks(r)[j].zone = zone}) |->
           scores[r][i + Cardinality({j \in 1..last : ticks(r)[j].zone # zone})]]

\* The tier state after a sequence of scores, from the initial one.
replayed(zs) ==
    LET state[i \in 0..Len(zs)] ==
          IF i = 0 THEN InitialTierState ELSE transition(state[i - 1], zs[i])
    IN  state[Len(zs)]

(***************************************************************************)
(* Tier state is a request's own: the state it threads is what transition  *)
(* makes of the scores it computed for this zone in this request, one      *)
(* after another, whatever other requests write for the zone meanwhile.    *)
(***************************************************************************)
TierFollowsOwnScores ==
    \A r \in Runs : scores[r] # <<>> => run[r].tier_state = replayed(ZoneScores(r))

(***************************************************************************)
(* No stored reading of an accepted scenario is lost or moved, but by      *)
(* another scenario that displaces it, whose row then has its place: the   *)
(* ids come from the seed, the event's name and the sample, not from the   *)
(* zone, so within a scenario it is the uniqueness of names that keeps one *)
(* event's rows from replacing another's.                                  *)
(***************************************************************************)
ReadingsAreKept ==
    \A r \in Runs : run[r].pc \in {"gas", "permit", "worker", "write", "finished"} =>
        \A x \in ToSet(generate_sensor_readings(run[r].scenario)) :
            \E y \in readings :
                /\ y.id = x.id /\ y.ts = x.ts
                /\ \/ y.zone = x.zone /\ y.value = x.value
                   \/ y.by \in Runs /\ Displaces(y.by, r)

\* A request that was sent has neither finished nor failed.
Executing == \E r \in Runs : run[r].pc \notin Ended \cup {"new"}

-----------------------------------------------------------------------------
(* Statements of the repository's documentation.                           *)

(***************************************************************************)
(* docs/architecture/pipeline.md: the counterfactual says whether a naive  *)
(* alarm would "have alerted on the identical tick".                       *)
(***************************************************************************)
CounterfactualIsOfTheTick ==
    \A k \in Zones \X Times :
        LET row == assessments[k]
        IN  row # NoRow /\ row.evidence # NoRow => row.alert = (row.evidence.value >= 2)

(***************************************************************************)
(* src/domain/simulation/clock.py: a scenario run is "byte-for-byte        *)
(* replayable regardless of when or how fast it's actually executed".      *)
(***************************************************************************)
ReplayReproduces ==
    \A q, r \in Runs :
        /\ run[q].pc = "finished" /\ run[r].pc = "finished"
        /\ run[q].scenario = run[r].scenario
        => scores[q] = scores[r]
=============================================================================
