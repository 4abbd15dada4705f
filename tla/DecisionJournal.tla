--------------------------- MODULE DecisionJournal ---------------------------
(***************************************************************************)
(* pages/DecisionJournalPage.tsx and lib/decisionJournal.ts: one timeline  *)
(* of the assessments of all zones.  Outside a replay it shows the last    *)
(* answer of one history query for each zone; during a replay, the         *)
(* replay's own assessments up to its cursor.  An assessment is its zone,  *)
(* its stamp, its tier and the rules that fired.                           *)
(***************************************************************************)
EXTENDS Naturals, Sequences, FiniteSets, SequencesExt

CONSTANTS
    ZoneIds,               \* zone ids, naturals that ascend in the order of GET /zones
    Name,                  \* Name[z]: the label of the zone
    Persisted,             \* Persisted[z]: what the backend persists for z, in order
    ReplayIds,             \* the zones of the replay, in its order
    Window,                \* the replay's stamps
    TierOptions,           \* tiers picked in the filter, "" (all) among them
    Searches,              \* texts typed into the search field, "" among them
    JOURNAL_HISTORY_LIMIT

Zones == ToSet(ZoneIds)

\* What the constants are assumed to be.
JournalAssumption ==
    /\ Zones \subseteq Nat \ {0} /\ ToSet(ReplayIds) \subseteq Zones /\ Window \subseteq Nat
    /\ \A z \in Zones : \A i, j \in DOMAIN Persisted[z] :
            i < j => Persisted[z][i].stamp < Persisted[z][j].stamp

VARIABLES
    ticks,      \* ticks[z]: how many of the zone's assessments are persisted
    answer,     \* answer[z]: the rows of the last answer, newest first
    status,     \* status[z]: pending, success or error
    replaying,  \* "off", "loading" or "on"
    cursor,     \* the stamp under the replay's cursor
    tierFilter, zoneFilter, search,
    expandedId  \* the row that is unfolded: <<zone, stamp>>, or <<>>

filters == <<tierFilter, zoneFilter, search>>
replay == <<replaying, cursor>>
vars == <<ticks, answer, status, replay, filters, expandedId>>

\* GET /risk/history/{zone}?limit: the newest rows.
getRiskHistory(z, limit) ==
    LET n == ticks[z]
        first == IF n > limit THEN n - limit + 1 ELSE 1
    IN  Reverse(SubSeq(Persisted[z], first, n))

Entries(z, rows) ==
    [i \in DOMAIN rows |-> [zoneId |-> z, stamp |-> rows[i].stamp, tier |-> rows[i].tier,
                            rules |-> rows[i].rules]]

OfZones(ids, rows(_)) ==
    LET upTo[n \in 0 .. Len(ids)] ==
            IF n = 0 THEN <<>> ELSE upTo[n - 1] \o Entries(ids[n], rows(ids[n]))
    IN  upTo[Len(ids)]

\* The replay's payload holds what was persisted in its window.
zoneTimeline(z) == SelectSeq(Persisted[z], LAMBDA r : r.stamp \in Window)
Stamps == UNION {{r.stamp : r \in ToSet(zoneTimeline(z))} : z \in ToSet(ReplayIds)}

isReplayMode == replaying # "off"

allEntries ==
    IF isReplayMode
    THEN IF replaying = "loading" THEN <<>>
         ELSE OfZones(ReplayIds, LAMBDA z : SelectSeq(zoneTimeline(z), LAMBDA r : r.stamp <= cursor))
    ELSE OfZones(ZoneIds, LAMBDA z : answer[z])

\* Mutant: the zones' rows one after the other.
Unsorted(entries) == entries

\* Array.prototype.sort is stable: rows of one stamp keep the order of the zones.
sortJournalEntriesByTimestampDesc(entries) ==
    SortSeq(entries, LAMBDA a, b : \/ a.stamp > b.stamp
                                   \/ a.stamp = b.stamp /\ a.zoneId < b.zoneId)

filterJournalEntries(entries) ==
    SelectSeq(entries, LAMBDA e :
        /\ tierFilter # "" => e.tier = tierFilter
        /\ zoneFilter # 0 => e.zoneId = zoneFilter
        /\ search # "" => search \in e.rules \cup {Name[e.zoneId]})

filtered == filterJournalEntries(sortJournalEntriesByTimestampDesc(allEntries))

isLoadingHistories ==
    IF isReplayMode THEN replaying = "loading" ELSE \E z \in Zones : status[z] = "pending"
historiesError == ~isReplayMode /\ \E z \in Zones : status[z] = "error"

\* QueryResult: the rows, or one notice in their place.
Screen ==
    IF isLoadingHistories THEN "loading"
    ELSE IF historiesError THEN "error"
    ELSE IF filtered # <<>> THEN "rows"
    ELSE IF allEntries = <<>> THEN "nothing recorded"
    ELSE "nothing matches"

---------------------------------------------------------------------------
JournalInit ==
    /\ ticks = [z \in Zones |-> 0]
    /\ answer = [z \in Zones |-> <<>>]
    /\ status = [z \in Zones |-> "pending"]
    /\ replaying = "off" /\ cursor = 0
    /\ tierFilter = "" /\ zoneFilter = 0 /\ search = ""
    /\ expandedId = <<>>

Assess ==
    /\ \E z \in Zones : ticks[z] < Len(Persisted[z]) /\ ticks' = [ticks EXCEPT ![z] = @ + 1]
    /\ UNCHANGED <<answer, status, replay, filters, expandedId>>

\* The queries do not poll: they run when the page is opened, when the window is
\* focused again and on Retry; a failure keeps the rows of the answer before.
HistoryAnswers ==
    /\ ~isReplayMode
    /\ \E z \in Zones :
        /\ answer' = [answer EXCEPT ![z] = getRiskHistory(z, JOURNAL_HISTORY_LIMIT)]
        /\ status' = [status EXCEPT ![z] = "success"]
    /\ UNCHANGED <<ticks, replay, filters, expandedId>>

HistoryFails ==
    /\ ~isReplayMode
    /\ \E z \in Zones : status' = [status EXCEPT ![z] = "error"]
    /\ UNCHANGED <<ticks, answer, replay, filters, expandedId>>

StartReplay ==
    /\ ~isReplayMode
    /\ replaying' = "loading"
    /\ UNCHANGED <<ticks, answer, status, cursor, filters, expandedId>>

ReplayArrives ==
    /\ replaying = "loading"
    /\ replaying' = "on" /\ cursor' = CHOOSE s \in Stamps : \A t \in Stamps : s <= t
    /\ UNCHANGED <<ticks, answer, status, filters, expandedId>>

MoveCursor ==
    /\ replaying = "on"
    /\ \E s \in Stamps \ {cursor} : cursor' = s
    /\ UNCHANGED <<ticks, answer, status, replaying, filters, expandedId>>

ExitReplay ==
    /\ isReplayMode
    /\ replaying' = "off" /\ cursor' = 0
    /\ UNCHANGED <<ticks, answer, status, filters, expandedId>>

SetFilter ==
    /\ \/ \E tier \in TierOptions : tierFilter' = tier /\ UNCHANGED <<zoneFilter, search>>
       \/ \E z \in Zones \cup {0} : zoneFilter' = z /\ UNCHANGED <<tierFilter, search>>
       \/ \E text \in Searches : search' = text /\ UNCHANGED <<tierFilter, zoneFilter>>
    /\ UNCHANGED <<ticks, answer, status, replay, expandedId>>

onToggle ==
    /\ Screen = "rows"
    /\ \E id \in {<<e.zoneId, e.stamp>> : e \in ToSet(filtered)} :
        expandedId' = IF id = expandedId THEN <<>> ELSE id
    /\ UNCHANGED <<ticks, answer, status, replay, filters>>

JournalNext ==
    \/ Assess \/ HistoryAnswers \/ HistoryFails
    \/ StartReplay \/ ReplayArrives \/ MoveCursor \/ ExitReplay \/ SetFilter \/ onToggle
JournalSpec == JournalInit /\ [][JournalNext]_vars

---------------------------------------------------------------------------
(* Properties *)

(* The journal is a log: newest first over all zones, no assessment twice, in
   both modes and whichever answers the zones' queries hold. *)
NewestFirst ==
    LET rows == filtered
    IN  \A i, j \in DOMAIN rows : i < j =>
            /\ rows[i].stamp >= rows[j].stamp
            /\ <<rows[i].zoneId, rows[i].stamp>> # <<rows[j].zoneId, rows[j].stamp>>

OnTop(new, old) == Len(old) <= Len(new) /\ SubSeq(new, Len(new) - Len(old) + 1, Len(new)) = old

(* "It grows in step as you scrub": moving the cursor forward puts entries on top
   of the journal, moving it back takes them off, and the rest stays in place. *)
GrowsWithTheCursor ==
    [][replaying = "on" /\ replaying' = "on" /\ UNCHANGED filters =>
            IF cursor <= cursor' THEN OnTop(filtered', filtered) ELSE OnTop(filtered, filtered')]_vars

(* The newest entry of a replay without filters is one of the tick under the
   cursor: the journal agrees with the other replay views on what is now. *)
TopIsTheCursor ==
    replaying = "on" /\ filters = <<"", 0, "">> =>
        filtered # <<>> /\ filtered[1].stamp = cursor
=============================================================================
