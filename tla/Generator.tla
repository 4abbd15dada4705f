----------------------------- MODULE Generator ------------------------------
(***************************************************************************)
(* What a scenario becomes: the readings and permits of                    *)
(* src/domain/simulation/generator.py, the checks a builder scenario must  *)
(* pass, the baseline a permit is issued with, and the ticks its execution *)
(* runs.  A scenario is a record                                           *)
(*   [seed, start, sensor_events, permit_events]                           *)
(* with sequences of [name, zone, sim_time, values] (one value per sample, *)
(* a quarter of an hour apart: the curve, tabulated) and of                *)
(* [name, zone, sim_time, permit_type, officer].                           *)
(***************************************************************************)
EXTENDS AgentRisk, SequencesExt

CONSTANTS
    Zones,      \* zones with a sensor
    Officers    \* workers that exist and are assigned to a zone

\* What a scenario is, its names and references unchecked.
IsScenario(s) ==
    /\ s.start \in Int
    /\ s.sensor_events \in Seq(ToSet(s.sensor_events))
    /\ s.permit_events \in Seq(ToSet(s.permit_events))
    /\ \A e \in ToSet(s.sensor_events) : e.sim_time \in Int /\ e.values \in Seq(Int)

\* The ids of resolve_id(f"...{seed}:{name}:{index}"): they name no zone.
reading_id(s, e, i) == <<s.seed, e.name, i>>

permit_id(s, e) == <<s.seed, e.name>>

(***************************************************************************)
(* External: Python's sorted and list.sort, key[i] being the key of the    *)
(* i-th element.  They are stable: among equal keys the order stays.       *)
(***************************************************************************)
place(key, i) ==
    Cardinality({j \in DOMAIN key : key[j] < key[i] \/ (key[j] = key[i] /\ j <= i)})

sorted(seq, key) ==
    [n \in DOMAIN seq |-> seq[CHOOSE i \in DOMAIN seq : place(key, i) = n]]

sim_times(events) == [k \in DOMAIN events |-> events[k].sim_time]

\* A GeneratedReading: sample i of an event, a quarter of an hour apart.
sample(s, e, i) ==
    [id    |-> reading_id(s, e, i),
     ts    |-> s.start + e.sim_time + i - 1,
     zone  |-> e.zone,
     value |-> e.values[i]]

\* generate_sensor_readings: events by sim_time, their samples in order.
generate_sensor_readings(s) ==
    LET events == sorted(s.sensor_events, sim_times(s.sensor_events))
    IN  FlattenSeq([k \in DOMAIN events |->
          [i \in DOMAIN events[k].values |-> sample(s, events[k], i)]])

names(s) ==
    [i \in DOMAIN s.sensor_events |-> s.sensor_events[i].name]
      \o [i \in DOMAIN s.permit_events |-> s.permit_events[i].name]

\* Mutant: names are not checked for duplicates.
validate_builder_scenario_NoNames(s) ==
    /\ \A e \in ToSet(s.sensor_events) : e.zone \in Zones
    /\ \A e \in ToSet(s.permit_events) : e.zone \in Zones /\ e.officer \in Officers
    /\ \A r \in ToSet(generate_sensor_readings(s)) : r.value >= 0

\* validate_structure, the reference checks, and no negative concentration.
validate_builder_scenario(s) ==
    /\ IsInjective(names(s))
    /\ \A e \in ToSet(s.sensor_events) : e.zone \in Zones
    /\ \A e \in ToSet(s.permit_events) : e.zone \in Zones /\ e.officer \in Officers
    /\ \A r \in ToSet(generate_sensor_readings(s)) : r.value >= 0

(***************************************************************************)
(* _compute_baseline_snapshot: the gas risk of the scenario's own readings *)
(* of the zone up to issued_at; the floor when there is none.              *)
(***************************************************************************)
baseline_snapshot(s, zone, issued_at) ==
    LET known == SelectSeq(generate_sensor_readings(s),
                           LAMBDA r : r.zone = zone /\ r.ts <= issued_at)
        latest == CHOOSE i \in DOMAIN known : \A j \in DOMAIN known :
                     \/ known[j].ts < known[i].ts
                     \/ known[j].ts = known[i].ts /\ j <= i
    IN  IF known = <<>> THEN gas_calculate_risk(FALSE, 0, 0)
        ELSE gas_calculate_risk(TRUE, known[latest].value, issued_at - known[latest].ts)

\* generate_permits, with the row execute_builder_scenario stores for each.
generate_permits(s) ==
    [i \in DOMAIN s.permit_events |->
       LET e == s.permit_events[i]
           issued_at == s.start + e.sim_time
       IN  [id          |-> permit_id(s, e),
            zone        |-> e.zone,
            permit_type |-> e.permit_type,
            status      |-> "active",
            baseline    |-> baseline_snapshot(s, e.zone, issued_at)]]

(***************************************************************************)
(* The tick loop of execute_builder_scenario: one group per zone (a zone   *)
(* has one monitored gas), groups in order of first appearance, each in    *)
(* timestamp order.                                                        *)
(***************************************************************************)
timestamps(readings) == [i \in DOMAIN readings |-> readings[i].ts]

\* Where the zone of each of the ticks first appears among the readings.
groups(readings, ticks) ==
    [n \in DOMAIN ticks |->
       Min({i \in DOMAIN readings : readings[i].zone = ticks[n].zone})]

schedule(s) ==
    LET readings == generate_sensor_readings(s)
        timed == sorted(readings, timestamps(readings))
    IN  sorted(timed, groups(readings, timed))
=============================================================================
