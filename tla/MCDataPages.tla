---------------------------- MODULE MCDataPages -----------------------------
(***************************************************************************)
(* The pages that show what their queries have answered, each over its own *)
(* small log.  The router mounts one page at a time: the page is chosen at *)
(* the start, and the others keep their initial state.                     *)
(***************************************************************************)
EXTENDS AuditPaging, ZoneQueries, DecisionWorkspace, DecisionComparison, TLC

CONSTANTS
    Pages       \* the pages a run visits

VARIABLES
    mounted,    \* the page the router mounts
    \* DecisionJournal
    ticks, answer, status, replaying, cursor, tierFilter, zoneFilter,
    search, expandedId,
    \* DecisionWorkspace (workspace-stages)
    stages_entries, stages_pos, stages_fetched, stages_ackNote,
    stages_typedFor, stages_storage, stages_ack

\* Two zones that share a stamp.
Row(stamp, tier, rules) == [stamp |-> stamp, tier |-> tier, rules |-> rules]
SharedStamp ==
    (1 :> <<Row(2, "normal", {}), Row(3, "critical", {"gas"})>>)
    @@ (2 :> <<Row(1, "normal", {}), Row(2, "critical", {"gas"})>>)
Names == (1 :> "furnace" @@ 2 :> "coke")

\* Two assessments, with and without a justification, a match and a scenario;
\* and every stage the address can name, one that there is not among them.
FactsOf(assessments) ==
    [a \in assessments |->
        [parsed |-> a = "a", match |-> a = "a", catalogued |-> a = "a",
         actions |-> a = "a", ticks |-> IF a = "a" THEN 2 ELSE 1]]
TwoFacts == FactsOf({"a", "b"})
AllStages ==
    {"situation", "understand", "evidence", "historical", "forecast", "business_impact", "options",
     "recommended_action", "approval", "monitoring", "export", "unknown"}

\* Two misses, an agreement above them, and a row whose compound verdict is gone.
Verdict(tier, score, alerts, compound) ==
    [compound |-> compound, tier |-> tier, score |-> score, alert |-> alerts, bonus |-> FALSE,
     ratio |-> TRUE, inScenario |-> TRUE]
TwoZones == <<"z1", "z2">>
FewVerdicts ==
    {Verdict("watch", 50, FALSE, TRUE),
     Verdict("elevated", 70, FALSE, TRUE), Verdict("critical", 90, TRUE, TRUE),
     Verdict("watch", 60, FALSE, FALSE)}

Journal == INSTANCE DecisionJournal WITH
    ZoneIds <- <<1, 2>>, Name <- Names, Persisted <- SharedStamp,
    ReplayIds <- <<1, 2>>, Window <- {1, 2, 3},
    TierOptions <- {"", "critical"}, Searches <- {"", "gas"},
    JOURNAL_HISTORY_LIMIT <- 1
Stages == INSTANCE DecisionWorkspace WITH
    Assessments <- {"a"}, Facts <- FactsOf({"a"}), Notes <- {"", "n"},
    Params <- AllStages, MaxHistory <- 2, entries <- stages_entries,
    pos <- stages_pos, fetched <- stages_fetched, ackNote <- stages_ackNote,
    typedFor <- stages_typedFor, storage <- stages_storage,
    ack <- stages_ack
-----------------------------------------------------------------------------
journalVars ==
    <<ticks, answer, status, replaying, cursor, tierFilter, zoneFilter,
      search, expandedId>>
stagesVars ==
    <<stages_entries, stages_pos, stages_fetched, stages_ackNote,
      stages_typedFor, stages_storage, stages_ack>>
vars ==
    <<mounted, queryVars, pagingVars, journalVars, workspaceVars, stagesVars, cardVars>>

Init ==
    /\ mounted \in Pages
    /\ QueriesInit
    /\ PagingInit
    /\ Journal!JournalInit
    /\ WorkspaceInit
    /\ Stages!WorkspaceInit
    /\ CardInit

\* The page named is the one that is mounted, and the only one that moves.
On(p) == mounted = p /\ UNCHANGED mounted

Next ==
    \/ On("zone") /\ QueriesNext
       /\ UNCHANGED <<pagingVars, journalVars, workspaceVars, stagesVars, cardVars>>
    \/ On("audit") /\ PagingNext
       /\ UNCHANGED <<queryVars, journalVars, workspaceVars, stagesVars, cardVars>>
    \/ On("journal") /\ Journal!JournalNext
       /\ UNCHANGED <<queryVars, pagingVars, workspaceVars, stagesVars, cardVars>>
    \/ On("workspace") /\ WorkspaceNext
       /\ UNCHANGED <<queryVars, pagingVars, journalVars, stagesVars, cardVars>>
    \/ On("workspace-stages") /\ Stages!WorkspaceNext
       /\ UNCHANGED <<queryVars, pagingVars, journalVars, workspaceVars, cardVars>>
    \/ On("decision-comparison") /\ CardNext
       /\ UNCHANGED <<queryVars, pagingVars, journalVars, workspaceVars, stagesVars>>

Spec == Init /\ [][Next]_vars
-----------------------------------------------------------------------------
ASSUME ConstantsAreLegal ==
    /\ QueriesAssumption /\ PagingAssumption /\ Journal!JournalAssumption
    /\ WorkspaceAssumption /\ Stages!WorkspaceAssumption /\ CardAssumption

\* What is stored is shown: the journal has every assessment once, newest first
\* over all zones, in a replay up to the cursor's tick, and grows and shrinks at its
\* top only (DecisionJournalPage); whatever stage the address names, an assessment
\* is shown in exactly one (DecisionWorkspacePage).
StoredIsShown ==
    /\ [](Journal!NewestFirst /\ Journal!TopIsTheCursor /\ Stages!OneStageShown)
    /\ Journal!GrowsWithTheCursor
=============================================================================
