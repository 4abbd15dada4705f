-------------------------- MODULE BuilderValidation --------------------------
(***************************************************************************)
(* The scenario builder's draft and what is computed from it: the client's *)
(* own checks (lib/scenarioBuilderValidation.ts), the backend's, the       *)
(* preview (lib/scenarioBuilderPreview.ts).  Times are minutes; an event   *)
(* is [name, zone_id, gas_type, sim_time, duration_minutes,                *)
(* sample_interval_minutes, curve, params] or [name, zone_id, sim_time,    *)
(* authorizing_officer_id, duration_minutes], params a function on the     *)
(* parameters that were filled in.  An error is its event and its kind.    *)
(***************************************************************************)
EXTENDS Integers, Sequences, FiniteSets, SequencesExt

\* What the plant knows, as the page has loaded it or as the backend sees it:
\* [zones, workers, unassigned, gasTypes], gasTypes a function on zones.
knownGas(ctx, zone) == IF zone \in DOMAIN ctx.gasTypes THEN ctx.gasTypes[zone] ELSE {}

CURVE_REQUIRED_PARAMS ==
    [linear_ramp |-> {"start_value", "slope"},
     exponential_rise |-> {"start_value", "rate"},
     step |-> {"baseline", "step_value", "step_time"}]

CURVES == DOMAIN CURVE_REQUIRED_PARAMS

\* The exponential keeps the sign of its start value, all that is asked of it here.
evaluateCurve(curve, t, params) ==
    CASE curve = "linear_ramp" -> params["start_value"] + params["slope"] * t
      [] curve = "exponential_rise" -> params["start_value"]
      [] curve = "step" -> IF t >= params["step_time"] THEN params["step_value"] ELSE params["baseline"]

Samples(e) == {i * e.sample_interval_minutes : i \in 0 .. e.duration_minutes \div e.sample_interval_minutes}

Error(e, kind, holds) == IF holds THEN {<<e.name, kind>>} ELSE {}

TimeErrors(e) == Error(e, "sim_time", e.sim_time < 0) \cup Error(e, "duration", e.duration_minutes <= 0)

validateSensorEvent(e, ctx) ==
    LET missing == CURVE_REQUIRED_PARAMS[e.curve] \ DOMAIN e.params
        known == e.curve \in CURVES
        sampled == known /\ missing = {} /\ e.duration_minutes > 0 /\ e.sample_interval_minutes > 0
    IN  TimeErrors(e)
        \cup Error(e, "interval", e.sample_interval_minutes <= 0)
        \cup Error(e, "curve", ~known)
        \cup Error(e, "params", known /\ missing # {})
        \cup Error(e, "negative", sampled /\ \E t \in Samples(e) : evaluateCurve(e.curve, t, e.params) < 0)
        \cup Error(e, "zone", e.zone_id \notin ctx.zones)
        \cup Error(e, "sensor", e.zone_id \in ctx.zones /\ e.gas_type \notin knownGas(ctx, e.zone_id))

validatePermitEvent(e, ctx) ==
    TimeErrors(e)
    \cup Error(e, "zone", e.zone_id \notin ctx.zones)
    \cup Error(e, "officer", e.authorizing_officer_id \notin ctx.workers)
    \cup Error(e, "unassigned", e.authorizing_officer_id \in ctx.unassigned)

eventNames(draft) ==
    [i \in DOMAIN draft.sensor_events |-> draft.sensor_events[i].name]
        \o [i \in DOMAIN draft.permit_events |-> draft.permit_events[i].name]

duplicates(draft) ==
    {<<eventNames(draft)[i], "duplicate">> : i \in {k \in DOMAIN eventNames(draft) :
        \E j \in 1 .. k - 1 : eventNames(draft)[j] = eventNames(draft)[k]}}


validateScenarioDraft(draft, ctx) ==
    duplicates(draft)
    \cup (UNION {validateSensorEvent(e, ctx) : e \in ToSet(draft.sensor_events)})
    \cup (UNION {validatePermitEvent(e, ctx) : e \in ToSet(draft.permit_events)})
-----------------------------------------------------------------------------
(* The backend: the request schema, then the checks in their order. *)

\* ScenarioDefinitionInput: an integral seed and numbers in their range.
Unprocessable(draft) ==
    \/ ~draft.integralSeed
    \/ \E e \in ToSet(draft.sensor_events) : e.sim_time < 0 \/ e.duration_minutes <= 0 \/ e.sample_interval_minutes <= 0
    \/ \E e \in ToSet(draft.permit_events) : e.sim_time < 0 \/ e.duration_minutes <= 0

validate_structure(draft) ==
    duplicates(draft)
    \cup (UNION {Error(e, "curve", e.curve \notin CURVES) : e \in ToSet(draft.sensor_events)})
    \cup (UNION {Error(e, "params", e.curve \in CURVES /\ ~(CURVE_REQUIRED_PARAMS[e.curve] \subseteq DOMAIN e.params)) :
                   e \in ToSet(draft.sensor_events)})

References(draft, plant) ==
    (UNION {IF e.zone_id \notin plant.zones THEN {<<e.name, "zone">>}
            ELSE Error(e, "sensor", e.gas_type \notin knownGas(plant, e.zone_id)) : e \in ToSet(draft.sensor_events)})
    \cup (UNION {Error(e, "zone", e.zone_id \notin plant.zones)
                 \cup Error(e, "officer", e.authorizing_officer_id \notin plant.workers)
                 \cup Error(e, "unassigned", e.authorizing_officer_id \in plant.unassigned) : e \in ToSet(draft.permit_events)})

Negative(draft) ==
    UNION {Error(e, "negative", \E i \in 0 .. e.duration_minutes \div e.sample_interval_minutes :
                    evaluateCurve(e.curve, i * e.sample_interval_minutes, e.params) < 0) : e \in ToSet(draft.sensor_events)}

\* validate_builder_scenario: structure, then references, then the readings.
\* The first finding of a stage keeps the later stages from being looked at.
validate_builder_scenario(draft, plant) ==
    IF validate_structure(draft) # {} THEN validate_structure(draft)
    ELSE IF References(draft, plant) # {} THEN References(draft, plant)
    ELSE Negative(draft)

Accepted(draft, plant) == ~Unprocessable(draft) /\ validate_builder_scenario(draft, plant) = {}
-----------------------------------------------------------------------------
(* The preview. *)

ends(draft) ==
    {e.sim_time + e.duration_minutes : e \in ToSet(draft.sensor_events) \cup ToSet(draft.permit_events)}

summarizeScenario(draft) ==
    [sensorEventCount |-> Len(draft.sensor_events),
     permitEventCount |-> Len(draft.permit_events),
     totalDurationMinutes |-> IF ends(draft) = {} THEN 0 ELSE Max(ends(draft)),
     affectedZoneIds |-> {e.zone_id : e \in ToSet(draft.sensor_events) \cup ToSet(draft.permit_events)}]

Step(kind, e) ==
    [kind |-> kind, name |-> e.name, zoneId |-> e.zone_id, simTime |-> e.sim_time, durationMinutes |-> e.duration_minutes]

steps(draft) ==
    [i \in DOMAIN draft.sensor_events |-> Step("sensor", draft.sensor_events[i])]
        \o [i \in DOMAIN draft.permit_events |-> Step("permit", draft.permit_events[i])]

\* Array.prototype.sort is stable: equal start times keep their order.
buildExpectedSequence(draft) ==
    LET s == steps(draft)
        before(i, j) == s[i].simTime < s[j].simTime \/ (s[i].simTime = s[j].simTime /\ i < j)
        order == SetToSortSeq(DOMAIN s, before)
    IN  [k \in DOMAIN order |-> s[order[k]]]
=============================================================================
