-------------------------- MODULE DecisionWorkspace --------------------------
(***************************************************************************)
(* pages/DecisionWorkspacePage.tsx: one assessment worked through in       *)
(* eleven stages.  The assessment and the stage are in the address, so     *)
(* that links, the stepper and the browser's Back and Forward move between *)
(* them; the page's component stays mounted from one assessment to         *)
(* another.  An acknowledgment is kept in the session's storage            *)
(* (lib/decisionApproval.ts), which no render observes: the handlers force *)
(* a render after each write.                                              *)
(***************************************************************************)
EXTENDS Naturals, Sequences, SequencesExt

CONSTANTS
    Assessments,
    Facts,      \* Facts[a]: what the backend knows of a
    Notes,      \* the texts an operator types, "" among them
    Params,     \* values of ?stage= in the links the operator follows
    MaxHistory  \* bound on the browser's history

WORKSPACE_STAGES ==
    <<"situation", "understand", "evidence", "historical", "forecast", "business_impact",
      "options", "recommended_action", "approval", "monitoring", "export">>
DEFAULT_WORKSPACE_STAGE == "situation"

\* What the constants are assumed to be.
WorkspaceAssumption ==
    /\ Facts \in [Assessments -> [parsed : BOOLEAN, match : BOOLEAN, catalogued : BOOLEAN,
                                  actions : BOOLEAN, ticks : Nat]]
    /\ "" \in Notes
    /\ MaxHistory \in Nat \ {0}

VARIABLES
    entries,  \* the browser's history, one [id, param] per entry
    pos,      \* the entry shown
    fetched,  \* queries that have answered: <<query, assessment>>
    ackNote,  \* the text in the form
    typedFor, \* the assessment whose form the text was typed into
    storage,  \* sessionStorage, by key
    ack       \* the acknowledgment the last render read

workspaceVars == <<entries, pos, fetched, ackNote, typedFor, storage, ack>>

Elsewhere == [id |-> "elsewhere", param |-> "none"]
NoAck == [acknowledged |-> FALSE, note |-> ""]

---------------------------------------------------------------------------
(* lib/decisionWorkspace.ts *)

isWorkspaceStageId(value) == value \in ToSet(WORKSPACE_STAGES)

assessmentId == entries[pos].id
activeStage ==
    IF isWorkspaceStageId(entries[pos].param) THEN entries[pos].param
    ELSE DEFAULT_WORKSPACE_STAGE
Mounted == assessmentId # "elsewhere"
Loaded == Mounted /\ <<"assessment", assessmentId>> \in fetched

(* lib/decisionApproval.ts *)

storageKey(id) == id

\* What a render reads for the entry shown after the step.
getLocalAcknowledgment(stored, entry, answered) ==
    IF entry.id # "elsewhere" /\ <<"assessment", entry.id>> \in answered
    THEN stored[storageKey(entry.id)] ELSE NoAck

Rendered == ack' = getLocalAcknowledgment(storage', entries'[pos'], fetched')

---------------------------------------------------------------------------
(* The stages, each as its heading and whether it has something to tell. *)

bestMatch(a) == <<"matches", a>> \in fetched /\ Facts[a].match
scenarioKey(a) == <<"scenarios", a>> \in fetched /\ Facts[a].catalogued

Says(b) == IF b THEN "facts" ELSE "none"
Stage(heading, says) == [heading |-> heading, says |-> says]

ReadStages(stage) ==
    LET a == assessmentId
    IN  CASE stage = "situation" -> {Stage("Situation", "facts")}
          [] stage = "understand" -> {Stage("Understand", "facts")}
          [] stage = "evidence" -> {Stage("Evidence", Says(Facts[a].parsed))}
          [] stage = "historical" -> {Stage("Historical Context", "facts")}
          [] stage = "forecast" -> {Stage("Forecast", Says(scenarioKey(a)))}
          [] OTHER -> {}

ActStages(stage) ==
    LET a == assessmentId
    IN  CASE stage = "business_impact" -> {Stage("Business Impact", Says(bestMatch(a)))}
          [] stage = "options" -> {Stage("Available Options", Says(Facts[a].actions))}
          [] stage = "recommended_action" -> {Stage("Recommended Action", Says(Facts[a].actions))}
          [] stage = "approval" -> {Stage("Approval", Says(ack.acknowledged))}
          [] stage = "monitoring" ->
                {Stage("Monitoring", Says(<<"history", a>> \in fetched /\ Facts[a].ticks > 1))}
          [] stage = "export" -> {Stage("Export", "facts")}
          [] OTHER -> {}

\* QueryResult: nothing but a notice while the assessment is not there.
Content == IF Loaded THEN ReadStages(activeStage) \cup ActStages(activeStage) ELSE {}

\* The sections of the exported summary, with the note under "Approval".
exportedSections ==
    LET a == assessmentId
    IN  <<Stage("Situation", "facts"), Stage("Understand", "facts"),
          Stage("Historical Context", Says(bestMatch(a))),
          Stage("Business Impact", Says(bestMatch(a))),
          Stage("Recommended Action", Says(Facts[a].actions)),
          Stage("Approval", Says(ack.acknowledged))>>

---------------------------------------------------------------------------
WorkspaceInit ==
    /\ entries = <<Elsewhere>> /\ pos = 1
    /\ fetched = {}
    /\ ackNote = "" /\ typedFor = "nobody"
    /\ storage = [a \in Assessments |-> NoAck]
    /\ ack = NoAck

\* The page is unmounted when another one is shown, and only then.
KeptWhileMounted ==
    IF entries'[pos'].id = "elsewhere"
    THEN ackNote' = "" /\ typedFor' = "nobody"
    ELSE UNCHANGED <<ackNote, typedFor>>

Push(entry) ==
    /\ pos < MaxHistory
    /\ entries' = Append(SubSeq(entries, 1, pos), entry)
    /\ pos' = pos + 1

\* A link of another page, the search box or the address bar.
FollowLink ==
    /\ \E a \in Assessments, p \in Params \cup {"none"} : Push([id |-> a, param |-> p])
    /\ UNCHANGED <<fetched, storage>>
    /\ KeptWhileMounted /\ Rendered

LeavePage ==
    /\ Mounted /\ Push(Elsewhere)
    /\ UNCHANGED <<fetched, storage>>
    /\ KeptWhileMounted /\ Rendered

\* setSearchParams pushes an entry and drops every other parameter.
setStage ==
    /\ Loaded
    /\ \E stage \in ToSet(WORKSPACE_STAGES) \cap Params :
        Push([id |-> assessmentId, param |-> stage])
    /\ UNCHANGED <<fetched, storage>>
    /\ KeptWhileMounted /\ Rendered

BackOrForward ==
    /\ pos' \in {pos - 1, pos + 1} \cap DOMAIN entries
    /\ UNCHANGED <<entries, fetched, storage>>
    /\ KeptWhileMounted /\ Rendered

\* The session's storage outlives the page, its state and the query cache do not.
Reload ==
    /\ fetched' = {} /\ ackNote' = "" /\ typedFor' = "nobody"
    /\ UNCHANGED <<entries, pos, storage>>
    /\ Rendered

Answers ==
    /\ Mounted
    /\ \E q \in {"assessment", "matches", "scenarios", "history"} :
        /\ q # "assessment" /\ q # "scenarios" => Loaded
        /\ <<q, assessmentId>> \notin fetched
        /\ fetched' = fetched \cup {<<q, assessmentId>>}
    /\ UNCHANGED <<entries, pos, ackNote, typedFor, storage>>
    /\ Rendered

FormShown == Loaded /\ activeStage = "approval" /\ ~ack.acknowledged

setAckNote ==
    /\ FormShown
    /\ \E note \in Notes :
        /\ ackNote' = note
        /\ typedFor' = IF note = "" THEN "nobody" ELSE assessmentId
    /\ UNCHANGED <<entries, pos, fetched, storage>>
    /\ Rendered

\* Mutant: nothing makes the page render after the write.
NoRerender ==
    /\ FormShown
    /\ storage' = [storage EXCEPT ![storageKey(assessmentId)] =
                        [acknowledged |-> TRUE, note |-> ackNote]]
    /\ UNCHANGED <<entries, pos, fetched, ackNote, typedFor, ack>>

handleAcknowledge ==
    /\ FormShown
    /\ storage' = [storage EXCEPT ![storageKey(assessmentId)] =
                        [acknowledged |-> TRUE, note |-> ackNote]]
    /\ UNCHANGED <<entries, pos, fetched, ackNote, typedFor>>
    /\ Rendered

handleUndoAcknowledge ==
    /\ Loaded /\ activeStage = "approval" /\ ack.acknowledged
    /\ storage' = [storage EXCEPT ![storageKey(assessmentId)] = NoAck]
    /\ UNCHANGED <<entries, pos, fetched, ackNote, typedFor>>
    /\ Rendered

WorkspaceNext ==
    \/ FollowLink \/ LeavePage \/ setStage \/ BackOrForward \/ Reload \/ Answers
    \/ setAckNote \/ handleAcknowledge \/ handleUndoAcknowledge
WorkspaceSpec == WorkspaceInit /\ [][WorkspaceNext]_workspaceVars /\ WF_workspaceVars(Answers)

---------------------------------------------------------------------------
(* Properties *)

(* The acknowledgment on the screen, and in the exported summary, is the stored
   one of the assessment shown, though storage is only read when the page renders:
   after every write, every move through the browser's history and every reload. *)
ScreenIsStored ==
    Loaded =>
        /\ ack = storage[storageKey(assessmentId)]
        /\ Last(exportedSections).says = Says(storage[storageKey(assessmentId)].acknowledged)

(* No step writes the acknowledgment of an assessment other than the one shown
   ("one entry per assessment"), and only the approval stage writes one. *)
AckTouchesOneAssessment ==
    [][\A a \in Assessments : storage'[a] # storage[a] =>
            Loaded /\ a = assessmentId /\ activeStage = "approval"]_workspaceVars

(* Whatever ?stage= says, an assessment that is there is shown in exactly one
   stage, of which the stepper has a button: never an empty card. *)
OneStageShown ==
    Loaded => \E s \in ToSet(WORKSPACE_STAGES) : s = activeStage /\ \E c \in Content : Content = {c}

(* The page as a whole: what it shows is what is stored, and what it stores is of
   the assessment it shows. *)
WorkspaceIsTrue == [](ScreenIsStored /\ OneStageShown) /\ AckTouchesOneAssessment

(* The acknowledgment of an assessment carries a note written for it. *)
NoteIsOwn ==
    [][\A a \in Assessments :
            storage'[a].note \notin {storage[a].note, ""} => typedFor = a]_workspaceVars
=============================================================================
