--------------------------- MODULE ReplayComparison ---------------------------
(***************************************************************************)
(* pages/ReplayComparisonPage.tsx: two incidents side by side, scrubbed    *)
(* together by one fraction of their own durations.  Each side has a       *)
(* scenario, a zone of it, the scenario's own query and the zone's history *)
(* query, which keeps the data of the zone before while it is pending.     *)
(*                                                                         *)
(* The fraction is counted in steps of 1 / ScrubSteps; times are minutes   *)
(* times ScrubSteps, so that every fraction of a duration is a whole       *)
(* number.                                                                 *)
(***************************************************************************)
EXTENDS Integers, SequencesExt

CONSTANTS
    Catalogue,      \* sequence of [key, zones, start, end], as GET /scenarios lists them
    Persisted,      \* zone -> set of the times of its assessments
    HISTORY_LIMIT,  \* newest assessments a history query returns
    SCRUB_STEPS,
    SPEED_OPTIONS,
    Moves           \* bound on the user's moves of the slider, the speed and the pickers

PersistedZones == DOMAIN Persisted

\* What the constants are assumed to be: scenarios have distinct keys, a zone at
\* least, and do not end before they start.
ComparisonAssumption ==
    /\ Catalogue # <<>> /\ Catalogue \in Seq(Range(Catalogue))
    /\ \A i, j \in DOMAIN Catalogue : Catalogue[i].key = Catalogue[j].key => i = j
    /\ \A i \in DOMAIN Catalogue :
          LET sc == Catalogue[i]
          IN  /\ sc.zones # <<>> /\ sc.zones \in Seq(Range(sc.zones)) /\ sc.key # ""
              /\ sc.start \in Nat /\ sc.end \in Nat /\ sc.start <= sc.end
    /\ Persisted \in [PersistedZones -> SUBSET Nat] /\ "" \notin PersistedZones
    /\ SCRUB_STEPS \in Nat \ {0} /\ SPEED_OPTIONS \subseteq Nat \ {0} /\ 1 \in SPEED_OPTIONS

VARIABLES
    listed,     \* useScenarios has answered
    side,       \* side[s]: [key, zone]; "" before the list has answered
    detail,     \* keys whose useScenario has answered
    answered,   \* zones whose history is in the cache
    kept,       \* kept[s]: the zone whose data the side's history query last had
    fraction, playing, speed,
    moves

comparisonVars == <<listed, side, detail, answered, kept, fraction, playing, speed, moves>>

Sides == {"current", "historical"}
None == -1
Keys == {Catalogue[i].key : i \in DOMAIN Catalogue}
Scenario(key) == Catalogue[CHOOSE i \in DOMAIN Catalogue : Catalogue[i].key = key]

---------------------------------------------------------------------------
(* What a side shows. *)

\* GET /risk/history: the newest HISTORY_LIMIT rows.
History(zone) == {t \in Persisted[zone] : Cardinality({u \in Persisted[zone] : u > t}) < HISTORY_LIMIT}

timeAtFraction(start, end, f) ==
    start + (Min({SCRUB_STEPS, Max({0, f})}) * (end - start)) \div SCRUB_STEPS

assessmentAtOrBefore(rows, at) ==
    LET before == {t \in rows : t <= at} IN IF before = {} THEN None ELSE Max(before)

\* keepPreviousData: the zone whose rows a side looks at, or "".
ShownZone(s) == IF side[s].zone \in answered THEN side[s].zone ELSE kept[s]

\* The row a side shows at the cursor.
atCursor(s) ==
    IF side[s].key \notin detail \/ ShownZone(s) = "" THEN None
    ELSE LET sc == Scenario(side[s].key)
             inWindow == {t \in History(ShownZone(s)) : sc.start <= t /\ t <= sc.end}
         IN  assessmentAtOrBefore(inWindow, timeAtFraction(sc.start, sc.end, fraction))

---------------------------------------------------------------------------
ComparisonInit ==
    /\ listed = FALSE
    /\ side = [s \in Sides |-> [key |-> "", zone |-> ""]]
    /\ detail = {}
    /\ answered = {}
    /\ kept = [s \in Sides |-> ""]
    /\ fraction = 0 /\ playing = FALSE /\ speed = 1
    /\ moves = 0

\* The list arrives and the effect takes its first two scenarios, or one twice.
ListArrives ==
    /\ ~listed
    /\ listed' = TRUE
    /\ side' = [s \in Sides |->
                    LET sc == IF s = "current" \/ Len(Catalogue) = 1 THEN Catalogue[1]
                              ELSE Catalogue[2]
                    IN  [key |-> sc.key, zone |-> sc.zones[1]]]
    /\ UNCHANGED <<detail, answered, kept, fraction, playing, speed, moves>>

ScenarioArrives ==
    /\ \E s \in Sides : side[s].key \in Keys \ detail /\ detail' = detail \cup {side[s].key}
    /\ UNCHANGED <<listed, side, answered, kept, fraction, playing, speed, moves>>

\* A history arrives: every side that asks for it has its data from now on.
HistoryArrives ==
    /\ \E s \in Sides :
        /\ side[s].zone \in PersistedZones \ answered
        /\ answered' = answered \cup {side[s].zone}
        /\ kept' = [r \in Sides |-> IF side[r].zone = side[s].zone THEN side[s].zone ELSE kept[r]]
    /\ UNCHANGED <<listed, side, detail, fraction, playing, speed, moves>>

\* The side's query moves on to another zone; what it had stays until then.
Moved(s, key, zone) ==
    /\ side' = [side EXCEPT ![s] = [key |-> key, zone |-> zone]]
    /\ kept' = [kept EXCEPT ![s] = IF zone \in answered THEN zone ELSE @]

\* Mutant: the zone picked before stays with another scenario.
KeepsZone(s, key) == Moved(s, key, side[s].zone)

\* The zone starts at the scenario's first one.
onScenarioChange(s, key) == Moved(s, key, Scenario(key).zones[1])

Pick ==
    /\ listed /\ moves < Moves
    /\ moves' = moves + 1
    /\ \E s \in Sides :
        \/ \E key \in Keys \ {side[s].key} : onScenarioChange(s, key)
        \/ /\ side[s].key \in detail
           /\ \E zone \in ToSet(Scenario(side[s].key).zones) \ {side[s].zone} :
                 Moved(s, side[s].key, zone)
    /\ UNCHANGED <<listed, detail, answered, fraction, playing, speed>>

PlayPause ==
    /\ listed
    /\ playing' = ~playing
    /\ UNCHANGED <<listed, side, detail, answered, kept, fraction, speed, moves>>

Scrub ==
    /\ listed /\ moves < Moves
    /\ \E f \in 0..SCRUB_STEPS : fraction' = f
    /\ moves' = moves + 1
    /\ UNCHANGED <<listed, side, detail, answered, kept, playing, speed>>

\* Another speed starts the interval anew.
SetSpeed ==
    /\ listed /\ moves < Moves
    /\ \E n \in SPEED_OPTIONS \ {speed} : speed' = n
    /\ moves' = moves + 1
    /\ UNCHANGED <<listed, side, detail, answered, kept, fraction, playing>>

\* The interval: a step of the speed, and the end at 1.
PlaybackTick ==
    /\ playing
    /\ LET next == fraction + speed
       IN  IF next >= SCRUB_STEPS THEN fraction' = SCRUB_STEPS /\ playing' = FALSE
           ELSE fraction' = next /\ playing' = TRUE
    /\ UNCHANGED <<listed, side, detail, answered, kept, speed, moves>>

ComparisonNext ==
    \/ ListArrives \/ ScenarioArrives \/ HistoryArrives
    \/ Pick \/ PlayPause \/ Scrub \/ SetSpeed
    \/ PlaybackTick

\* The interval fires while playback is on.
ComparisonSpec == ComparisonInit /\ [][ComparisonNext]_comparisonVars /\ WF_comparisonVars(PlaybackTick)

---------------------------------------------------------------------------
(* Properties *)

(* Once asked for, every picker names a scenario and one of its own zones. *)
ComparisonTypeOK ==
    /\ listed => \A s \in Sides :
            side[s].key \in Keys /\ side[s].zone \in ToSet(Scenario(side[s].key).zones)
    /\ ~listed => \A s \in Sides : side[s].key = ""
    /\ detail \subseteq Keys /\ answered \subseteq PersistedZones
    /\ fraction \in 0..SCRUB_STEPS /\ playing \in BOOLEAN /\ speed \in SPEED_OPTIONS

(* Scrubbed to the end, a side whose data is there shows the last assessment of
   its incident that the history query returns: the step that would pass the end
   lands on it.  At the start it shows nothing that came later than the start. *)
EndsAreEnds ==
    \A s \in Sides :
        /\ side[s].key \in detail
        /\ side[s].zone \in answered
        => LET sc == Scenario(side[s].key)
               rows == {t \in History(side[s].zone) : sc.start <= t /\ t <= sc.end}
           IN  /\ rows # {} /\ fraction = SCRUB_STEPS => atCursor(s) = Max(rows)
               /\ fraction = 0 => atCursor(s) \in {None, sc.start}

(* Playback alone never takes a side back in time, and leaves no side whose
   end it has not reached when it stops. *)
PlaybackMovesOn ==
    [][PlaybackTick =>
            /\ \A s \in Sides : atCursor(s)' >= atCursor(s)
            /\ ~playing' => fraction' = SCRUB_STEPS]_comparisonVars

\* ReplayComparisonPage as a whole: every picker names a zone of its scenario, the
\* ends of the scrubber are the ends of either incident, and playback moves on.
SidesStayAligned == [](ComparisonTypeOK /\ EndsAreEnds) /\ PlaybackMovesOn
=============================================================================
