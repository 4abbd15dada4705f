---------------------------- MODULE MCScenario ------------------------------
(***************************************************************************)
(* Two adjacent zones, one worker in each, and small scenarios.  The       *)
(* FusionConfig, TieringConfig and agent parameters are the shipped ones.  *)
(***************************************************************************)
EXTENDS ScenarioExecution

MCMaxRisk == 100 * Point
MCFloor == 40 * Point
MCWatch == 40 * Point * ScoreScale
MCElevated == 65 * Point * ScoreScale
MCCritical == 85 * Point * ScoreScale
MCMargin == 10 * Point * ScoreScale

MCZones == {"tank", "pump"}
MCAdjacent == [z \in MCZones |-> MCZones \ {z}]
MCHeadcount == [z \in MCZones |-> 1]
MCDegraded == [z \in MCZones |-> IF z = "tank" THEN 1 ELSE 0]
MCOfficers == {"officer"}

Sensor(n, z, t, v) == [name |-> n, zone |-> z, sim_time |-> t, values |-> v]
Work(n, z, t, p) ==
    [name |-> n, zone |-> z, sim_time |-> t, permit_type |-> p, officer |-> "officer"]
Scenario(seed, start, se, pe) ==
    [seed |-> seed, start |-> start, sensor_events |-> se, permit_events |-> pe]

\* A rise to critical in one zone; two zones with incompatible work; one with the seed
\* and an event's name of the first, elsewhere; a bad one.
Rise == Scenario(1, 0, <<Sensor("rise", "tank", 0, <<1, 4, 4>>)>>,
                       <<Work("weld", "tank", 0, "hot_work")>>)
Both == Scenario(2, 0, <<Sensor("late", "pump", 1, <<3>>), Sensor("early", "tank", 0, <<2, 0>>)>>,
                       <<Work("entry", "pump", 1, "confined_space")>>)
Twin == Scenario(1, 0, <<Sensor("rise", "pump", 0, <<2>>)>>, <<>>)
Bad == Scenario(3, 0, <<Sensor("same", "tank", 0, <<1>>), Sensor("same", "pump", 0, <<2>>)>>, <<>>)

MCScenarios == {Rise, Both, Twin, Bad}

\* One zone, gas that rises and falls while hot work goes on.
Excursion == Scenario(1, 0, <<Sensor("spike", "tank", 0, <<0, 3, 0>>)>>,
                            <<Work("weld", "tank", 0, "hot_work")>>)
OneExcursion == {Excursion}

\* Incompatible work in adjacent zones; gas is high in the zone run second.
Simops == Scenario(1, 0, <<Sensor("calm", "tank", 0, <<0>>), Sensor("gas", "pump", 1, <<4>>)>>,
                         <<Work("weld", "tank", 0, "hot_work"),
                           Work("entry", "pump", 0, "confined_space")>>)
OneSimops == {Simops}

\* Interchangeable requests.
MCSymmetry == Permutations(Runs)
=============================================================================
