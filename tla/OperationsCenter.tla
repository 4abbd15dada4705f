-------------------------- MODULE OperationsCenter --------------------------
(***************************************************************************)
(* pages/OperationsCenterPage.tsx with its cards (components/operations)   *)
(* and pages/DigitalTwinPage.tsx: two pages that show the plant as it is   *)
(* now or, during a replay, as it was at the cursor, and link to each      *)
(* other.  The zones of a page and the zones that have an assessment are   *)
(* two lists; worker counts and sensors are asked for along the first and  *)
(* read along the second.                                                  *)
(*                                                                         *)
(* An assessment is its zone and its stamp; a worker count is the zone     *)
(* whose workers were counted.  The first answer of /risk/current is there *)
(* from the start.                                                         *)
(***************************************************************************)
EXTENDS Integers, Sequences, FiniteSets, SequencesExt

CONSTANTS
    ZoneIds,   \* the zones, naturals, in the order both endpoints list them
    Ticks,     \* Ticks[z]: the stamps of the zone in the replay
    Actions,   \* Actions[z][s]: ids of the actions recommended for z at s
    MaxStamp   \* bound on the stamps of live assessments

Zones == ToSet(ZoneIds)

\* What the constants are assumed to be.
OperationsAssumption ==
    /\ Zones \subseteq Nat \ {0}
    /\ Ticks \in [Zones -> SUBSET (1 .. MaxStamp)]

VARIABLES
    live,       \* live[z]: the stamp of the zone's current assessment, 0 for none
    replaying,  \* "off", "loading" or "on"
    cursor,     \* the stamp under the replay's cursor
    counts,     \* zones whose worker count has answered
    verdicts,   \* <<zone, stamp>> whose naive verdict has answered
    page,       \* "operations" or "twin"
    focused,    \* focusedZoneId, 0 for null
    param,      \* ?zone= of the address, 0 for none
    expanded,   \* ids of the action cards that are unfolded
    tracing,    \* the dependency graph plays its animation
    selected    \* selectedZoneId of the digital twin, 0 for null

data == <<live, replaying, cursor, counts, verdicts>>
operationsVars == <<data, page, focused, param, expanded, tracing, selected>>

---------------------------------------------------------------------------
isReplayMode == replaying # "off"

\* ReplayContext.assessmentAt: the newest tick at or before the cursor, 0 for null.
assessmentAt(z) ==
    LET past == {s \in Ticks[z] : s <= cursor} IN IF past = {} THEN 0 ELSE Max(past)

AssessmentOf(z) == IF isReplayMode THEN assessmentAt(z) ELSE live[z]

\* filter: the elements of the list that are in the set, in the list's order.
Among(list, S) == SelectSeq(list, LAMBDA z : z \in S)

\* While the payload is not there the replay has no zones.
zoneIds ==
    CASE replaying = "on" -> ZoneIds
      [] replaying = "loading" -> <<>>
      [] OTHER -> Among(ZoneIds, {z \in Zones : live[z] # 0})

entries == Among(zoneIds, {z \in Zones : AssessmentOf(z) # 0})

\* useZoneWorkerCounts(zoneIds): one query for each zone of the page.
workerCounts == [i \in DOMAIN zoneIds |-> IF zoneIds[i] \in counts THEN zoneIds[i] ELSE 0]

\* The zones of the map: entry i with count i.
mapZones ==
    LET workers == workerCounts
    IN  [i \in DOMAIN entries |->
            [zoneId |-> entries[i], timestamp |-> AssessmentOf(entries[i]), workerCount |-> workers[i]]]

\* Mutant: a zone without an assessment gives way to the first that has one.
FirstWithAssessment ==
    IF focused \in ToSet(entries) THEN focused ELSE IF entries = <<>> THEN 0 ELSE entries[1]

displayZoneId ==
    IF focused # 0 THEN focused ELSE IF entries = <<>> THEN 0 ELSE entries[1]

displayAssessment == IF displayZoneId \in ToSet(entries) THEN AssessmentOf(displayZoneId) ELSE 0
displayQueue == IF displayAssessment = 0 THEN {} ELSE Actions[displayZoneId][displayAssessment]
displayIndex == CHOOSE i \in DOMAIN entries : entries[i] = displayZoneId

\* useZoneCounterfactuals(entries)
counterfactuals ==
    [i \in DOMAIN entries |->
        LET tick == <<entries[i], AssessmentOf(entries[i])>> IN IF tick \in verdicts THEN tick ELSE <<>>]

\* Mutant: the verdict of the first zone, as for a page with no zone chosen.
FirstVerdict == IF displayAssessment = 0 THEN <<>> ELSE counterfactuals[1]

displayCounterfactual == IF displayAssessment = 0 THEN <<>> ELSE counterfactuals[displayIndex]

\* An unfolded card, in any zone: its tick, its zone's workers and the verdict.
ActionCard(id) ==
    [id |-> id, zone |-> displayZoneId, timestamp |-> displayAssessment,
     workers |-> mapZones[displayIndex].workerCount, comparison |-> displayCounterfactual]
ActionQueue == {ActionCard(id) : id \in displayQueue}

\* Bookmarks of the zone in a replay; live events have no jump.
timelineEntries == IF isReplayMode THEN Ticks[displayZoneId] ELSE {}

isLoading == replaying = "loading"

\* QueryResult around the content, which is only there for an assessment.
OperationsScreen ==
    IF isLoading THEN "loading"
    ELSE IF entries = <<>> THEN "empty"
    ELSE IF displayAssessment # 0 THEN "content"
    ELSE "blank"

\* The drawer of the twin is there for a selected zone that is on the map.
TwinDrawer == IF selected \in ToSet(entries) THEN selected ELSE 0

OnOperations == page = "operations"
CardsMounted == OnOperations /\ OperationsScreen = "content"

---------------------------------------------------------------------------
\* What a render keeps: a card by its action's id, the graph while it is mounted.
Rendered(cards, trace) ==
    /\ expanded' = IF CardsMounted' THEN cards \cap displayQueue' ELSE {}
    /\ tracing' = (trace /\ CardsMounted /\ CardsMounted')

Keep == Rendered(expanded, tracing)

OperationsInit ==
    /\ live = [z \in Zones |-> 0]
    /\ replaying = "off" /\ cursor = 0
    /\ counts = {} /\ verdicts = {}
    /\ page = "operations" /\ focused = 0 /\ param = 0
    /\ expanded = {} /\ tracing = FALSE
    /\ selected = 0

\* useCurrentRisk polls: a zone has a newer assessment.
LiveArrives ==
    /\ \E z \in Zones : live[z] < MaxStamp /\ live' = [live EXCEPT ![z] = @ + 1]
    /\ UNCHANGED <<replaying, cursor, counts, verdicts, page, focused, param, selected>> /\ Keep

LoadReplay ==
    /\ ~isReplayMode /\ replaying' = "loading"
    /\ UNCHANGED <<live, cursor, counts, verdicts, page, focused, param, selected>> /\ Keep

ReplayArrives ==
    /\ replaying = "loading" /\ replaying' = "on"
    /\ cursor' = Min(UNION {Ticks[z] : z \in Zones})
    /\ UNCHANGED <<live, counts, verdicts, page, focused, param, selected>> /\ Keep

MoveCursor ==
    /\ replaying = "on"
    /\ \E s \in UNION {Ticks[z] : z \in Zones} : s # cursor /\ cursor' = s
    /\ UNCHANGED <<live, replaying, counts, verdicts, page, focused, param, selected>> /\ Keep

ExitReplay ==
    /\ isReplayMode /\ replaying' = "off" /\ cursor' = 0
    /\ UNCHANGED <<live, counts, verdicts, page, focused, param, selected>> /\ Keep

CountAnswers ==
    /\ \E z \in ToSet(zoneIds) \ counts : counts' = counts \cup {z}
    /\ UNCHANGED <<live, replaying, cursor, verdicts, page, focused, param, selected>> /\ Keep

\* One verdict is remembered: of the others the page knows nothing.
VerdictAnswers ==
    /\ OnOperations
    /\ \E z \in ToSet(entries) : verdicts' = {<<z, AssessmentOf(z)>>}
    /\ UNCHANGED <<live, replaying, cursor, counts, page, focused, param, selected>> /\ Keep

\* A click on the map; the address is replaced, not pushed.
setFocusedZoneId ==
    /\ CardsMounted
    /\ \E z \in ToSet(entries) : focused' = z /\ param' = z
    /\ UNCHANGED <<data, page, selected>> /\ Keep

\* A click on a card folds or unfolds it and focuses its zone.
ToggleCard ==
    /\ CardsMounted
    /\ \E card \in ActionQueue :
        /\ focused' = card.zone /\ param' = card.zone
        /\ UNCHANGED <<data, page, selected>>
        /\ Rendered(IF card.id \in expanded THEN expanded \ {card.id} ELSE expanded \cup {card.id},
                    tracing)

Trace ==
    /\ CardsMounted /\ displayQueue # {} /\ ~tracing
    /\ UNCHANGED <<data, page, focused, param, selected>> /\ Rendered(expanded, TRUE)

\* setTimeout of the click, set whatever the queue has become.
TraceTimer ==
    /\ tracing
    /\ UNCHANGED <<data, page, focused, param, selected>> /\ Rendered(expanded, FALSE)

\* OperatorTimeline: onJump moves the shared cursor.
onJump ==
    /\ CardsMounted /\ replaying = "on"
    /\ \E s \in timelineEntries : cursor' = s
    /\ UNCHANGED <<live, replaying, counts, verdicts, page, focused, param, selected>> /\ Keep

\* "Operations Center" in the drawer of a zone.  On the twin the page mounts, and
\* reads ?zone= once; the same drawer is on the page itself, which is mounted already:
\* there the link changes the address and nothing else.
OpenOperations ==
    \/ /\ page = "twin" /\ TwinDrawer # 0
       /\ page' = "operations" /\ param' = TwinDrawer /\ focused' = TwinDrawer /\ selected' = 0
       /\ UNCHANGED data /\ Rendered({}, FALSE)
    \/ /\ CardsMounted
       /\ param' = displayZoneId
       /\ UNCHANGED <<data, page, focused, selected>> /\ Keep

\* "Open full Digital Twin": the twin does not read the address.
OpenTwin ==
    /\ CardsMounted
    /\ page' = "twin" /\ param' = displayZoneId /\ focused' = 0 /\ selected' = 0
    /\ UNCHANGED data /\ Rendered({}, FALSE)

setSelectedZoneId ==
    /\ page = "twin"
    /\ \E z \in ToSet(entries) \cup {0} : z # selected /\ selected' = z
    /\ UNCHANGED <<data, page, focused, param>> /\ Keep

\* The navigation bar, Back and Forward, over-approximated: any address.  The page
\* that is mounted does not read it; the other one mounts, and leaves this one.
Navigate ==
    \E p \in {"operations", "twin"}, z \in Zones \cup {0} :
        /\ <<p, z>> # <<page, param>>
        /\ page' = p /\ param' = z
        /\ \/ p = page /\ UNCHANGED <<data, focused, selected>> /\ Keep
           \/ /\ p # page
              /\ focused' = (IF p = "operations" THEN z ELSE 0) /\ selected' = 0
              /\ UNCHANGED data /\ Rendered({}, FALSE)

OperationsNext ==
    \/ LiveArrives \/ LoadReplay \/ ReplayArrives \/ MoveCursor \/ ExitReplay
    \/ CountAnswers \/ VerdictAnswers
    \/ setFocusedZoneId \/ ToggleCard \/ Trace \/ TraceTimer \/ onJump
    \/ OpenOperations \/ OpenTwin \/ setSelectedZoneId \/ Navigate
OperationsSpec == OperationsInit /\ [][OperationsNext]_operationsVars /\ WF_operationsVars(TraceTimer)

---------------------------------------------------------------------------
(* Properties *)

(* A zone the operator has chosen, by a click on the map, on a card or by a link,
   stays the zone of every card until the operator chooses another: no poll, no
   tick of the replay and no change of mode puts another zone's actions there. *)
ChosenZoneStays ==
    [][OnOperations /\ OnOperations' /\ focused # 0 /\ displayZoneId' # displayZoneId
            => focused' # focused]_operationsVars

(* The comparison on a card is the verdict of the very tick the card is about,
   though the answers are found by their place in a list. *)
ComparisonIsOfTheTick ==
    CardsMounted => \A card \in ActionQueue :
        card.comparison \in {<<>>, <<card.zone, card.timestamp>>}

(* An unfolded card is one of the queue that is shown, and the graph plays its
   animation only while it is on the screen: a timer that outlives its page, a tick
   or a poll that takes the queue away leave neither behind. *)
UnfoldedIsShown == expanded \subseteq displayQueue /\ (tracing => CardsMounted)

(* A choice of the operator, by a click on the map, on a card or by a link that opens
   the page, is in the address at once, so that a link copied then leads to the zone
   chosen.  (Later the two may part: the drawer's own link and Back change the
   address of a page that is mounted, which does not read it again.) *)
AddressFollowsTheChoice ==
    [][OnOperations' /\ focused' # focused => param' = focused']_operationsVars

(* OperationsCenterPage as a whole: its cards are of the zone and the tick they
   name, and the zone the operator chose stays the zone of the cards. *)
CardsStayInStep ==
    [](ComparisonIsOfTheTick /\ UnfoldedIsShown) /\ ChosenZoneStays /\ AddressFollowsTheChoice

(* OperationsCenterPage: an action card shows "the real workers/permits/equipment
   in this zone right now" (ActionCard.tsx), so the workers of its own zone. *)
WorkersAreOfTheZone ==
    CardsMounted => \A card \in ActionQueue : card.workers \in {0, card.zone}
=============================================================================
