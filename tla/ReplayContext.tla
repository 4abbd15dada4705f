--------------------------- MODULE ReplayContext ----------------------------
(***************************************************************************)
(* The shared replay cursor (frontend/src/context/ReplayContext.tsx), the  *)
(* controls that drive it (ReplayController, BookmarksPanel,               *)
(* ScenarioPicker, the pages' clickable timelines) and the views that read *)
(* it.  One step is one event handler together with the renders and the    *)
(* effects it causes: React runs them before the next event of the user.   *)
(* Time stamps are integers; tick i of the code is element i + 1 here.     *)
(***************************************************************************)
EXTENDS Integers, Sequences, FiniteSets, FiniteSetsExt

CONSTANTS
    Targets,        \* replay targets: scenarios and explicit windows
    Zones,          \* zone ids, as naturals: replay.zoneIds lists them in order
    Timeline,       \* Timeline[t][z]: the stamps executing t persists for zone z
    Tier,           \* Tier[z][s]: rank of the tier persisted for z at s
    Instants,       \* instants the jump form offers
    SPEED_OPTIONS,
    MaxBookmarks,   \* bound: custom bookmarks
    NoTarget

\* What the constants are assumed to be.
TimelineAssumption ==
    /\ NoTarget \notin Targets /\ SPEED_OPTIONS # {}
    /\ Zones \subseteq Nat /\ IsFiniteSet(Zones) /\ Instants \subseteq Int
    /\ Timeline \in [Targets -> [Zones -> SUBSET Nat]]
    /\ \A t \in Targets, z \in Zones :
          IsFiniteSet(Timeline[t][z]) /\ \A s \in Timeline[t][z] : Tier[z][s] \in 0 .. 3

VARIABLES
    executed,       \* server: the targets whose scenario has been executed
    query,          \* query cache by target: idle, pending, error or success
    payload,        \* the zone timelines the cache holds
    target,
    currentIndex,
    playing,
    speed,
    customBookmarks

cache == <<query, payload>>
player == <<target, currentIndex, playing, speed, customBookmarks>>
vars == <<executed, cache, player>>

Nothing == [z \in Zones |-> {}]

\* What GET /replay answers: the assessments persisted in the window.
getReplay(t) == IF t \in executed THEN Timeline[t] ELSE Nothing

\* `data` of the query of the current target; no data is no timeline.
zone_timelines ==
    IF target # NoTarget /\ query[target] = "success" THEN payload[target] ELSE Nothing

\* The stamps of all zones in ascending order, each once: the n-th has n at or
\* before it.
mergeTimestamps(timelines) ==
    LET stamps == UNION {timelines[z] : z \in Zones}
    IN  [n \in 1 .. Cardinality(stamps) |->
            CHOOSE s \in stamps : Cardinality({u \in stamps : u <= s}) = n]

allTimestamps == mergeTimestamps(zone_timelines)

Ticks == Len(allTimestamps)

HasCursor == currentIndex \in 0 .. Ticks - 1

currentTimestamp == allTimestamps[currentIndex + 1]

Distance(a, b) == IF a < b THEN b - a ELSE a - b

\* The first of the indices closest to the instant; 0 for an empty axis.
findNearestTimestampIndex(stamps, instant) ==
    IF stamps = <<>> THEN 0
    ELSE LET delta(i) == Distance(stamps[i], instant)
             best == CHOOSE i \in DOMAIN stamps :
                       \A j \in DOMAIN stamps : delta(i) < delta(j) \/ (delta(i) = delta(j) /\ i <= j)
         IN  best - 1

\* The stamp of the newest assessment at or before an instant, as a set of at
\* most one.
assessmentAtOrBefore(history, instant) ==
    LET past == {s \in history : s <= instant}
    IN  IF past = {} THEN {} ELSE {Max(past)}

assessmentAt(z) ==
    IF HasCursor THEN assessmentAtOrBefore(zone_timelines[z], currentTimestamp) ELSE {}
-----------------------------------------------------------------------------
Init ==
    /\ executed \in SUBSET Targets
    /\ query = [t \in Targets |-> "idle"]
    /\ payload = [t \in Targets |-> Nothing]
    /\ target = NoTarget
    /\ currentIndex = 0
    /\ playing = FALSE
    /\ speed = CHOOSE s \in SPEED_OPTIONS : TRUE
    /\ customBookmarks = {}

\* Someone executes a scenario (or executes it again).
Execute(t) ==
    /\ executed' = executed \cup {t}
    /\ UNCHANGED <<cache, player>>

\* A query whose data never goes stale fetches only when it has no data.
Fetch(t) == [query EXCEPT ![t] = IF @ = "success" THEN @ ELSE "pending"]

KeepCursor ==
    /\ playing' = FALSE
    /\ customBookmarks' = {}
    /\ UNCHANGED currentIndex

\* The effect of a new target object.
TargetEffect ==
    /\ currentIndex' = 0
    /\ playing' = FALSE
    /\ customBookmarks' = {}

startReplay(t) ==
    /\ target' = t
    /\ query' = Fetch(t)
    /\ TargetEffect
    /\ UNCHANGED <<executed, payload, speed>>

exitReplay ==
    /\ target # NoTarget
    /\ target' = NoTarget
    /\ TargetEffect
    /\ UNCHANGED <<executed, cache, speed>>

\* The answer lands in the cache whether or not it is still looked at.
Answer(t) ==
    /\ query[t] = "pending"
    /\ query' = [query EXCEPT ![t] = "success"]
    /\ payload' = [payload EXCEPT ![t] = getReplay(t)]

Arrive(t) == Answer(t) /\ UNCHANGED <<executed, player>>

\* The request and its one retry failed.
Fail(t) ==
    /\ query[t] = "pending"
    /\ query' = [query EXCEPT ![t] = "error"]
    /\ UNCHANGED <<executed, payload, player>>

\* External: React Query refetches a query without data when the window gets
\* the focus, and drops a query nobody observes after five minutes.
WindowFocus ==
    /\ target # NoTarget /\ query[target] = "error"
    /\ query' = [query EXCEPT ![target] = "pending"]
    /\ UNCHANGED <<executed, payload, player>>

GarbageCollect(t) ==
    /\ t # target /\ query[t] \in {"success", "error"}
    /\ query' = [query EXCEPT ![t] = "idle"]
    /\ payload' = [payload EXCEPT ![t] = Nothing]
    /\ UNCHANGED <<executed, player>>

StuckTick ==
    /\ playing /\ Ticks > 0
    /\ currentIndex < Ticks - 1
    /\ currentIndex' = currentIndex + 1
    /\ UNCHANGED <<executed, cache, target, playing, speed, customBookmarks>>

\* The interval: it runs only while playing over a non-empty axis.
Tick ==
    /\ playing /\ Ticks > 0
    /\ IF currentIndex >= Ticks - 1
         THEN playing' = FALSE /\ UNCHANGED currentIndex
         ELSE currentIndex' = currentIndex + 1 /\ UNCHANGED playing
    /\ UNCHANGED <<executed, cache, target, speed, customBookmarks>>

MoveTo(index) ==
    /\ playing' = FALSE
    /\ currentIndex' = index
    /\ UNCHANGED <<executed, cache, target, speed, customBookmarks>>

reset == MoveTo(0)
next == MoveTo(IF currentIndex + 1 < Ticks - 1 THEN currentIndex + 1 ELSE Ticks - 1)
previous == MoveTo(IF currentIndex - 1 > 0 THEN currentIndex - 1 ELSE 0)
scrubToIndex(i) == MoveTo(LET low == IF i < Ticks - 1 THEN i ELSE Ticks - 1
                          IN  IF low > 0 THEN low ELSE 0)
jumpToTimestamp(s) == MoveTo(findNearestTimestampIndex(allTimestamps, s))

SetPlaying(on) ==
    /\ playing' = on
    /\ UNCHANGED <<executed, cache, target, currentIndex, speed, customBookmarks>>

setSpeed(s) ==
    /\ speed' = s
    /\ UNCHANGED <<executed, cache, target, currentIndex, playing, customBookmarks>>

addCustomBookmark ==
    /\ HasCursor
    /\ customBookmarks' = customBookmarks \cup {currentTimestamp}
    /\ UNCHANGED <<executed, cache, target, currentIndex, playing, speed>>
-----------------------------------------------------------------------------
\* ReplayController renders its buttons only over a loaded, non-empty axis.
ControllerShown == target # NoTarget /\ query[target] = "success" /\ Ticks > 0

ReplayController ==
    /\ ControllerShown
    /\ \/ reset
       \/ currentIndex # 0 /\ previous
       \/ IF playing THEN SetPlaying(FALSE) ELSE currentIndex < Ticks - 1 /\ SetPlaying(TRUE)
       \/ currentIndex < Ticks - 1 /\ next
       \/ \E s \in SPEED_OPTIONS : setSpeed(s)
       \/ \E s \in Instants : jumpToTimestamp(s)
       \/ exitReplay
       \/ \E i \in 0 .. Ticks - 1 : scrubToIndex(i)

\* Server bookmarks and Decision Timeline nodes carry stamps of the payload.
PayloadStamps == UNION {zone_timelines[z] : z \in Zones}

BookmarksPanel ==
    /\ target # NoTarget /\ Ticks > 0
    /\ \/ Cardinality(customBookmarks) < MaxBookmarks /\ addCustomBookmark
       \/ \E s \in PayloadStamps \cup customBookmarks : jumpToTimestamp(s)

ScenarioPicker == target = NoTarget /\ \E t \in Targets : startReplay(t)

\* DemoTimelinePage brings its own copy of the picker.
ScenarioLauncher == ScenarioPicker

\* ... and a card per tick, shown like the controller.
DemoTimelinePage == ControllerShown /\ \E i \in 0 .. Ticks - 1 : scrubToIndex(i)

\* Challenge Mode's "New Random Scenario": a replay started over an open one.
Relaunch == target # NoTarget /\ \E t \in Targets : startReplay(t)

Environment ==
    \/ \E t \in Targets : Execute(t) \/ Arrive(t) \/ Fail(t) \/ GarbageCollect(t)
    \/ WindowFocus

Next ==
    \/ ReplayController
    \/ BookmarksPanel
    \/ ScenarioLauncher
    \/ DemoTimelinePage
    \/ Relaunch
    \/ Tick
    \/ Environment

Spec == Init /\ [][Next]_vars

\* The browser's interval fires, and a request is answered or fails.
Fairness == WF_vars(Tick) /\ \A t \in Targets : WF_vars(Arrive(t) \/ Fail(t))

FairSpec == Spec /\ Fairness
-----------------------------------------------------------------------------
(* The views that follow the cursor. *)

\* DecisionEvolution: the ticks of a zone so far. The code compares the ISO texts,
\* here and in the replay's timelines; texts of one format, to the same fraction of a
\* second, compare as the times they name, which is what the integers stand for.
upToCursor(z) == IF HasCursor THEN {s \in zone_timelines[z] : s <= currentTimestamp} ELSE {}

\* ExecutiveStoryPanel: one line per zone and tick so far.
StoryLines == UNION {{z} \X upToCursor(z) : z \in Zones}

\* DemoTimelinePage: the worst zone of every tick, the first one on a tie.
EventZone(i) ==
    LET at(z) == assessmentAtOrBefore(zone_timelines[z], allTimestamps[i + 1])
        seen == {z \in Zones : at(z) # {}}
        rank(z) == Tier[z][CHOOSE s \in at(z) : TRUE]
    IN  IF seen = {} THEN {}
        ELSE {CHOOSE z \in seen : \A y \in seen : rank(z) > rank(y) \/ (rank(z) = rank(y) /\ z <= y)}

\* TimeMachinePage and ChallengeModePage: the plant tier at the cursor.
assessmentsAtCursor == {z \in Zones : assessmentAt(z) # {}}
rankAtCursor(z) == Tier[z][CHOOSE s \in assessmentAt(z) : TRUE]
worstTier == IF assessmentsAtCursor = {} THEN -1 ELSE Max({rankAtCursor(z) : z \in assessmentsAtCursor})

\* TimeMachinePage opens the first zone with an assessment, unless one is focused.
displayZone == IF assessmentsAtCursor = {} THEN {} ELSE {Min(assessmentsAtCursor)}

\* TimeMachinePage shows its board once the axis is not empty.
boardShown == target # NoTarget /\ Ticks > 0

\* TimeMachinePage: the assessment before the one shown, for "What Changed?".
previousAssessment(z) ==
    LET before == {s \in zone_timelines[z] : \E now \in assessmentAt(z) : s < now}
    IN  IF before = {} THEN {} ELSE {Max(before)}
-----------------------------------------------------------------------------
TypeOK ==
    /\ executed \subseteq Targets
    /\ query \in [Targets -> {"idle", "pending", "error", "success"}]
    /\ payload \in [Targets -> [Zones -> SUBSET Nat]]
    /\ target \in Targets \cup {NoTarget}
    /\ currentIndex \in Int
    /\ playing \in BOOLEAN
    /\ speed \in SPEED_OPTIONS
    /\ customBookmarks \subseteq Nat

\* The cursor always names a tick of the loaded replay, and is 0 when there is
\* none: nextTick computes -1 over an empty axis, and only the controller's own
\* early returns keep it from being called there.
CursorInRange == IF Ticks = 0 THEN currentIndex = 0 ELSE HasCursor

\* The bookmarks a user sets belong to the replay that is open: none survives
\* into the replay of another target, where its stamp would name another tick.
BookmarksOnAxis == customBookmarks \subseteq PayloadStamps

\* Every synchronized view tells the same story at the cursor: the assessment
\* shown for a zone is the newest one of its Decision Evolution, and the zone
\* DemoTimelinePage marks at the current tick has the plant tier Time Machine
\* shows, although each computes it in its own way; an open board has a zone to
\* show at every tick.
ViewsAgree ==
    /\ \A z \in Zones : IF upToCursor(z) = {} THEN assessmentAt(z) = {}
                        ELSE assessmentAt(z) = {Max(upToCursor(z))}
    /\ HasCursor => worstTier = (IF EventZone(currentIndex) = {} THEN -1
                                 ELSE rankAtCursor(CHOOSE z \in EventZone(currentIndex) : TRUE))
    /\ \A z \in displayZone : previousAssessment(z) \subseteq upToCursor(z) \ assessmentAt(z)
    /\ boardShown => displayZone # {}
    /\ {line[1] : line \in StoryLines} = assessmentsAtCursor

\* A click on a bookmark or on a Decision Timeline node lands on that very tick.
JumpLandsOnStamp ==
    [][\A s \in PayloadStamps : jumpToTimestamp(s) => allTimestamps[currentIndex' + 1] = s]_vars

\* The shared replay as a whole: its cursor names a tick of the replay that is open,
\* the bookmarks are that replay's, the views that follow the cursor tell one story,
\* and a click on a stamp lands on it.
ReplayIsCoherent == [](TypeOK /\ CursorInRange /\ BookmarksOnAxis /\ ViewsAgree) /\ JumpLandsOnStamp
=============================================================================
