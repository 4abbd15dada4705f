----------------------------- MODULE BuilderForms -----------------------------
(***************************************************************************)
(* The two forms of ScenarioBuilderPage.tsx and the plant data they choose *)
(* from, which arrives in any order: zones, workers, each zone's sensors.  *)
(* `added` is what the last press of an Add button gave the page.          *)
(***************************************************************************)
EXTENDS BuilderValidation

CONSTANTS
    Facility,       \* the plant: a context of BuilderValidation
    Name,           \* a name typed into a form
    SimTimes, Durations, Intervals, ParamValues     \* numbers typed

\* What the constants are assumed to be: a plant that knows the gases of its zones, and
\* number fields with whole minutes.
FormsAssumption ==
    /\ DOMAIN Facility = {"zones", "workers", "unassigned", "gasTypes"}
    /\ DOMAIN Facility.gasTypes = Facility.zones
    /\ SimTimes \subseteq Int /\ Durations \subseteq Int /\ Intervals \subseteq Int

VARIABLES ctx, sensorForm, permitForm, added

formVars == <<ctx, sensorForm, permitForm, added>>

Unset == ""
NoParams == [p \in {} |-> 0]
Nothing == [kind |-> "none"]

\* availableGasTypes: what the sensors of the chosen zone measure, once they are known.
availableGasTypes(zone) == IF zone = Unset THEN {} ELSE knownGas(ctx, zone)
requiredParams(curve) == IF ctx.options THEN CURVE_REQUIRED_PARAMS[curve] ELSE {}

FormsInit ==
    /\ ctx = [zones |-> {}, workers |-> {}, unassigned |-> {}, gasTypes |-> [z \in {} |-> {}], options |-> FALSE]
    /\ sensorForm = [zone |-> Unset, gas |-> Unset, curve |-> "linear_ramp", params |-> NoParams]
    /\ permitForm = [zone |-> Unset, officer |-> Unset]
    /\ added = Nothing

Loads(c) == c # ctx /\ ctx' = c /\ UNCHANGED <<sensorForm, permitForm, added>>

useZones == Loads([ctx EXCEPT !.zones = Facility.zones])
useWorkers == Loads([ctx EXCEPT !.workers = Facility.workers, !.unassigned = Facility.unassigned])
useBuilderOptions == Loads([ctx EXCEPT !.options = TRUE])

useAllZoneSensors(z) ==
    /\ z \in ctx.zones
    /\ Loads([ctx EXCEPT !.gasTypes = [y \in DOMAIN @ \cup {z} |-> IF y = z THEN Facility.gasTypes[z] ELSE @[y]]])

Fills(form) == sensorForm' = form /\ added' = Nothing /\ UNCHANGED <<ctx, permitForm>>

\* Mutant: the gas type stays with another zone.
KeepsGas(z) == z \in ctx.zones \cup {Unset} /\ Fills([sensorForm EXCEPT !.zone = z])

setZoneId(z) == z \in ctx.zones \cup {Unset} /\ Fills([sensorForm EXCEPT !.zone = z, !.gas = Unset])

setGasType(g) ==
    /\ sensorForm.zone # Unset /\ g \in availableGasTypes(sensorForm.zone) \cup {Unset}
    /\ Fills([sensorForm EXCEPT !.gas = g])

setCurve(c) == ctx.options /\ c \in CURVES /\ Fills([sensorForm EXCEPT !.curve = c, !.params = NoParams])

setParams(p, v) ==
    /\ p \in requiredParams(sensorForm.curve)
    /\ Fills([sensorForm EXCEPT !.params = [q \in DOMAIN @ \cup {p} |-> IF q = p THEN v ELSE @[q]]])

AddSensorEvent(name, sim, dur, step) ==
    /\ name # Unset /\ sensorForm.zone # Unset /\ sensorForm.gas # Unset
    /\ added' = [kind |-> "sensor", event |->
            [name |-> name, zone_id |-> sensorForm.zone, gas_type |-> sensorForm.gas, sim_time |-> sim,
             duration_minutes |-> dur, sample_interval_minutes |-> step,
             curve |-> sensorForm.curve, params |-> sensorForm.params]]
    /\ UNCHANGED <<ctx, sensorForm, permitForm>>

setPermitForm(zone, officer) ==
    /\ zone \in ctx.zones \cup {Unset} /\ officer \in ctx.workers \cup {Unset}
    /\ permitForm' = [zone |-> zone, officer |-> officer] /\ permitForm' # permitForm
    /\ added' = Nothing
    /\ UNCHANGED <<ctx, sensorForm>>

AddPermitEvent(name, sim, dur) ==
    /\ name # Unset /\ permitForm.zone # Unset /\ permitForm.officer # Unset
    /\ added' = [kind |-> "permit", event |->
            [name |-> name, zone_id |-> permitForm.zone, sim_time |-> sim,
             authorizing_officer_id |-> permitForm.officer, duration_minutes |-> dur]]
    /\ UNCHANGED <<ctx, sensorForm, permitForm>>

FormsNext ==
    \/ useZones \/ useWorkers \/ useBuilderOptions
    \/ \E z \in Facility.zones : useAllZoneSensors(z)
    \/ \E z \in Facility.zones \cup {Unset} : setZoneId(z)
    \/ \E g \in (UNION {Facility.gasTypes[z] : z \in Facility.zones}) \cup {Unset} : setGasType(g)
    \/ \E c \in CURVES : setCurve(c)
    \/ \E p \in UNION {CURVE_REQUIRED_PARAMS[c] : c \in CURVES}, v \in ParamValues : setParams(p, v)
    \/ \E sim \in SimTimes, dur \in Durations, step \in Intervals : AddSensorEvent(Name, sim, dur, step)
    \/ \E z \in Facility.zones \cup {Unset}, w \in Facility.workers \cup {Unset} : setPermitForm(z, w)
    \/ \E sim \in SimTimes, dur \in Durations : AddPermitEvent(Name, sim, dur)

FormsSpec == FormsInit /\ [][FormsNext]_formVars

Only(event) ==
    [sensor_events |-> IF event.kind = "sensor" THEN <<event.event>> ELSE <<>>,
     permit_events |-> IF event.kind = "permit" THEN <<event.event>> ELSE <<>>,
     integralSeed |-> TRUE]

AsTheBackend == [f \in DOMAIN Facility |-> ctx[f]]
-----------------------------------------------------------------------------
\* The forms hold zones that are listed and parameters of the curve that is chosen.
FormsTypeOK ==
    /\ {sensorForm.zone, permitForm.zone} \subseteq ctx.zones \cup {Unset}
    /\ DOMAIN sensorForm.params \subseteq CURVE_REQUIRED_PARAMS[sensorForm.curve]

\* "The builder never lets a user author a sensor event with no matching sensor":
\* whatever order the lists arrive and the fields change in, an added sensor event
\* names a zone, a sensor and a curve that exist.
OnlyRealSensors ==
    added # Nothing /\ added.kind = "sensor" =>
        \A kind \in {"zone", "sensor", "curve"} : <<Name, kind>> \notin validateSensorEvent(added.event, Facility)

\* "Independent client-side mirror of the same checks": with the plant loaded, the
\* client finds no error exactly when the backend accepts, and reports at once
\* whatever the backend, which stops at its first stage, reports.
ClientMirrorsBackend ==
    added # Nothing /\ AsTheBackend = Facility =>
        LET draft == Only(added)
            errors == validateScenarioDraft(draft, ctx)
        IN  /\ errors = {} <=> Accepted(draft, Facility)
            /\ ~Unprocessable(draft) => validate_builder_scenario(draft, Facility) \subseteq errors

\* SensorEventForm and PermitEventForm as a whole: a form holds what is listed, and what
\* it adds exists in the plant and is found wanting by the client exactly when by the
\* backend.
FormsAreSound == FormsTypeOK /\ OnlyRealSensors /\ ClientMirrorsBackend
=============================================================================
