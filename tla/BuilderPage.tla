------------------------------ MODULE BuilderPage ------------------------------
(***************************************************************************)
(* ScenarioBuilderPage.tsx around its forms: the draft, the timeline on    *)
(* which events are dragged, export and import, and the two requests that  *)
(* validate and execute the draft while it can still be edited.  A start   *)
(* time is a local hour; what is sent and exported is UTC.  The backend    *)
(* goes on with a request whose client has given up.                       *)
(***************************************************************************)
EXTENDS BuilderValidation

CONSTANTS
    Plant,                      \* the plant, already loaded by the page
    SensorForms, PermitForms,   \* events as the two forms add them
    Seeds,                      \* [value, integral]
    StartTimes, BadTime,        \* hours, and what no date is
    Offset,                     \* hours by which local time is ahead of UTC, the year round
    Files,                      \* foreign files: [kind, seed, start_time, sensor_events, permit_events]
    NoFile,
    MaxEvents, MaxTime, MaxPosts,   \* bounds: events, how far one is dragged, requests
    MaxIds,                     \* bound: ids given to events
    Deltas                      \* pointer movements, in minutes

\* What the constants are assumed to be: a start time is a number, or what no date is; a
\* foreign file has one or none.
BuilderAssumption ==
    /\ StartTimes \subseteq Int /\ StartTimes # {} /\ Offset \in Int
    /\ BadTime \notin Int /\ NoFile \notin Int /\ BadTime # NoFile /\ NoFile \notin Files
    /\ \A f \in Files : f.start_time \in Int \cup {BadTime, NoFile}

VARIABLES
    seed, startTime, sensorEvents, permitEvents,    \* the draft; events carry an id
    made,           \* ids given so far
    dragging,       \* [id, mode, simTime, duration] or NoDrag
    held,           \* for the properties: what the drag took hold of is still there
    file,           \* the last export
    reading,        \* the file being read, with the start time it will set
    validation, execution,      \* mutations: [status, draft]
    posts,          \* execute requests the backend is working on: [n, draft]
    crashed         \* a render threw

editVars == <<seed, startTime, sensorEvents, permitEvents, made>>
dragVars == <<dragging, held>>
requestVars == <<validation, execution, posts>>
builderVars == <<editVars, dragVars, file, reading, requestVars, crashed>>

NoDrag == [id |-> 0]
Idle == [status |-> "idle"]
Strip(events) == [i \in DOMAIN events |-> [f \in DOMAIN events[i] \ {"id"} |-> events[i][f]]]

\* The draft that is shown, validated, sent and exported.
Draft(s, t, sensors, permits) ==
    [seed |-> s.value, integralSeed |-> s.integral, start_time |-> IF t = BadTime THEN BadTime ELSE t - Offset,
     sensor_events |-> Strip(sensors), permit_events |-> Strip(permits)]

draft == Draft(seed, startTime, sensorEvents, permitEvents)
clientErrors == validateScenarioDraft(draft, Plant)
Preview == [summary |-> summarizeScenario(draft), sequence |-> buildExpectedSequence(draft)]
Count == Len(sensorEvents) + Len(permitEvents)
Events == ToSet(sensorEvents) \cup ToSet(permitEvents)
-----------------------------------------------------------------------------
BuilderInit ==
    /\ seed = [value |-> 1, integral |-> TRUE]
    /\ startTime = CHOOSE t \in StartTimes : TRUE
    /\ sensorEvents = <<>> /\ permitEvents = <<>>
    /\ made = 0
    /\ dragging = NoDrag /\ held = FALSE
    /\ file = NoFile /\ reading = NoFile
    /\ validation = Idle /\ execution = Idle /\ posts = {}
    /\ crashed = FALSE

\* new Date("").toISOString() throws while rendering and nothing catches it.
Renders(t) == crashed' = (t = BadTime)

setSeed(s) ==
    /\ s # seed /\ seed' = s
    /\ UNCHANGED <<startTime, sensorEvents, permitEvents, made, dragVars, file, reading, requestVars, crashed>>

setStartTime(t) ==
    /\ t # startTime /\ startTime' = t /\ Renders(t)
    /\ UNCHANGED <<seed, sensorEvents, permitEvents, made, dragVars, file, reading, requestVars>>

\* newId draws at random from so many that no id comes twice.
newId(k) == made + k

WithId(event, id) == [f \in DOMAIN event \cup {"id"} |-> IF f = "id" THEN id ELSE event[f]]

onAdd(sensors, permits) ==
    /\ Count < MaxEvents /\ made < MaxIds /\ made' = made + 1
    /\ sensorEvents' = sensorEvents \o [i \in DOMAIN sensors |-> WithId(sensors[i], newId(1))]
    /\ permitEvents' = permitEvents \o [i \in DOMAIN permits |-> WithId(permits[i], newId(1))]
    /\ UNCHANGED <<seed, startTime, dragVars, file, reading, requestVars, crashed>>

deleteEvent(id) ==
    /\ sensorEvents' = SelectSeq(sensorEvents, LAMBDA e : e.id # id)
    /\ permitEvents' = SelectSeq(permitEvents, LAMBDA e : e.id # id)
    /\ held' = (held /\ id # dragging.id)
    /\ UNCHANGED <<seed, startTime, made, dragging, file, reading, requestVars, crashed>>

handlePointerDown(e, mode) ==
    /\ held' = TRUE
    /\ dragging' = [id |-> e.id, mode |-> mode, simTime |-> e.sim_time, duration |-> e.duration_minutes]
    /\ UNCHANGED <<editVars, file, reading, requestVars, crashed>>

\* moveEvent and resizeEvent go through both lists.
MoveOrResize(events, id, field, value) ==
    [i \in DOMAIN events |-> IF events[i].id = id THEN [events[i] EXCEPT ![field] = value] ELSE events[i]]

Largest(a, b) == IF a > b THEN a ELSE b

handlePointerMove(delta) ==
    /\ dragging # NoDrag /\ Count > 0
    /\ LET field == IF dragging.mode = "move" THEN "sim_time" ELSE "duration_minutes"
           value == IF dragging.mode = "move" THEN Largest(0, dragging.simTime + delta)
                                              ELSE Largest(1, dragging.duration + delta)
       IN  /\ value <= MaxTime
           /\ sensorEvents' = MoveOrResize(sensorEvents, dragging.id, field, value)
           /\ permitEvents' = MoveOrResize(permitEvents, dragging.id, field, value)
    /\ UNCHANGED <<seed, startTime, made, dragVars, file, reading, requestVars, crashed>>

\* A cancelled pointer, or one over no track, does not get here.
handlePointerUp ==
    /\ dragging # NoDrag /\ Count > 0 /\ dragging' = NoDrag /\ held' = FALSE
    /\ UNCHANGED <<editVars, file, reading, requestVars, crashed>>

\* Bound: what an import made of an export is exported once more, and no further.
exportDraft ==
    /\ \E t \in StartTimes : startTime \in {t, t - Offset}
    /\ file' = [kind |-> "ok", seed |-> seed, start_time |-> draft.start_time,
                sensor_events |-> draft.sensor_events, permit_events |-> draft.permit_events]
    /\ UNCHANGED <<editVars, dragVars, reading, requestVars, crashed>>

\* A file without a start time gets the one the closure saw.  slice(0, 16) drops the Z:
\* the UTC hour becomes a local one.
importDraft(f) ==
    /\ reading = NoFile /\ f # NoFile
    /\ reading' = [file |-> f, startTime |-> IF f.start_time = NoFile THEN startTime ELSE f.start_time]
    /\ UNCHANGED <<editVars, dragVars, file, requestVars, crashed>>

\* Mutant: an imported event is called by its place in the file.
ByPlace(events, first) == [i \in DOMAIN events |-> WithId(events[i], first + i)]

WithIds(events, first) == [i \in DOMAIN events |-> WithId(events[i], newId(first + i))]

\* The ids an import gives.
Given(f) ==
    CASE f.kind = "badSensors" -> 0
      [] f.kind = "badPermits" -> Len(f.sensor_events)
      [] OTHER -> Len(f.sensor_events) + Len(f.permit_events)

\* The setters in their order; one that throws, on what is there but is no list, keeps
\* the rest from being called.  A list that is missing is an empty one, a seed that is
\* missing is 1.
Restores(f, t) ==
    /\ seed' = f.seed
    /\ startTime' = t
    /\ sensorEvents' = IF f.kind = "badSensors" THEN sensorEvents ELSE WithIds(f.sensor_events, 0)
    /\ permitEvents' = IF f.kind = "ok" THEN WithIds(f.permit_events, Len(f.sensor_events)) ELSE permitEvents
    /\ made' = made + Given(f)

\* What is dragged is still there only if its own list was not replaced.
Survives(f) ==
    CASE f.kind = "badSensors" -> TRUE
      [] f.kind = "badPermits" -> \E e \in ToSet(permitEvents) : e.id = dragging.id
      [] OTHER -> FALSE

onload ==
    /\ reading # NoFile /\ reading' = NoFile
    /\ IF reading.file.kind = "unparsable" THEN UNCHANGED <<editVars, held, crashed>>
       ELSE /\ made + Given(reading.file) <= MaxIds
            /\ Restores(reading.file, reading.startTime)
            /\ held' = (held /\ Survives(reading.file))
            /\ Renders(startTime')
    /\ UNCHANGED <<dragging, file, requestVars>>
-----------------------------------------------------------------------------
validate ==
    /\ validation.status # "pending"
    /\ validation' = [status |-> "pending", draft |-> draft]
    /\ UNCHANGED <<editVars, dragVars, file, reading, execution, posts, crashed>>

\* The answer, a refusal of the schema, or no answer in time.
Answered(mutation, answer) ==
    /\ mutation.status = "pending"
    /\ answer \in IF Unprocessable(mutation.draft) THEN {"error"} ELSE {"success", "error"}

ValidateAnswers(answer) ==
    /\ Answered(validation, answer)
    /\ validation' = [validation EXCEPT !.status = answer]
    /\ UNCHANGED <<editVars, dragVars, file, reading, execution, posts, crashed>>

execute ==
    /\ clientErrors = {} /\ execution.status # "pending"
    /\ execution' = [status |-> "pending", draft |-> draft]
    /\ \E n \in 1 .. MaxPosts : n \notin {p.n : p \in posts} /\ posts' = posts \cup {[n |-> n, draft |-> draft]}
    /\ UNCHANGED <<editVars, dragVars, file, reading, validation, crashed>>

\* With "error" the request timed out: the backend still works on it.
ExecuteAnswers(answer) ==
    /\ Answered(execution, answer)
    /\ execution' = [execution EXCEPT !.status = answer]
    /\ posts' = IF answer = "success" THEN {p \in posts : p.draft # execution.draft} ELSE posts
    /\ UNCHANGED <<editVars, dragVars, file, reading, validation, crashed>>

\* The backend is done with a request nobody waits for any more.
Finishes(p) ==
    /\ p \in posts /\ (execution.status = "pending" => p.draft # execution.draft)
    /\ posts' = posts \ {p}
    /\ UNCHANGED <<editVars, dragVars, file, reading, validation, execution, crashed>>

DraftNext ==
    \/ \E s \in Seeds : setSeed(s)
    \/ \E t \in StartTimes \cup {BadTime} : setStartTime(t)
    \/ \E e \in SensorForms : onAdd(<<e>>, <<>>)
    \/ \E e \in PermitForms : onAdd(<<>>, <<e>>)
    \/ \E e \in Events : deleteEvent(e.id)

DragNext ==
    \/ \E e \in Events, mode \in {"move", "resize"} : handlePointerDown(e, mode)
    \/ \E delta \in Deltas : handlePointerMove(delta)
    \/ handlePointerUp

FileNext ==
    \/ exportDraft
    \/ \E f \in Files \cup {file} : importDraft(f)
    \/ onload

AnswerNext ==
    \/ \E answer \in {"success", "error"} : ValidateAnswers(answer) \/ ExecuteAnswers(answer)
    \/ \E p \in posts : Finishes(p)

\* A page that threw is gone; what it sent is not.
BuilderNext ==
    \/ ~crashed /\ (DraftNext \/ DragNext \/ FileNext \/ validate \/ execute)
    \/ AnswerNext

\* Sessions that send nothing, and that only send requests.
Editing == ~crashed /\ (DraftNext \/ DragNext \/ FileNext)
Sending == (~crashed /\ (DraftNext \/ validate \/ execute)) \/ AnswerNext

\* A request is answered or times out.
BuilderSpec ==
    /\ BuilderInit /\ [][BuilderNext]_builderVars
    /\ WF_builderVars(\E answer \in {"success", "error"} : ExecuteAnswers(answer))
    /\ WF_builderVars(\E answer \in {"success", "error"} : ValidateAnswers(answer))
-----------------------------------------------------------------------------
BuilderTypeOK ==
    /\ Cardinality({e.id : e \in Events}) = Count
    /\ Len(sensorEvents) <= MaxEvents /\ Len(permitEvents) <= MaxEvents
    /\ Cardinality(posts) <= MaxPosts
    /\ \A e \in Events : e.sim_time >= 0 /\ e.duration_minutes >= 1

\* A pointer that moves changes no event but the one with the id it took hold of.
DragTouchesOneEvent ==
    [][\A delta \in Deltas : handlePointerMove(delta) =>
        /\ \A i \in DOMAIN sensorEvents :
            sensorEvents'[i] # sensorEvents[i] => sensorEvents[i].id = dragging.id
        /\ \A j \in DOMAIN permitEvents :
            permitEvents'[j] # permitEvents[j] => permitEvents[j].id = dragging.id]_builderVars

\* It changes nothing once that event was deleted, or an import has put others in the
\* place of all: no other event comes to have its id.
DragLetsGo ==
    [][dragging # NoDrag /\ ~held /\ dragging' = dragging
        => \A e \in Events' : e.id # dragging.id]_builderVars

\* Whatever was added, dragged, deleted and imported, of the drafts on which Execute is
\* enabled the backend refuses those whose seed is no integer, which the client does
\* not look at, and no other.
ClientAgrees == ~crashed /\ clientErrors = {} => (Accepted(draft, Plant) <=> seed.integral)

\* The preview is the timeline: every event once, in order of start, what starts
\* together in the order of the draft, and the total is when the last one ends.
SequenceIsTimeline ==
    LET sequence == Preview.sequence
        summary == Preview.summary
        place(k) == CHOOSE i \in DOMAIN steps(draft) : steps(draft)[i] = sequence[k]
    IN  /\ Len(sequence) = summary.sensorEventCount + summary.permitEventCount
        /\ ToSet(sequence) = ToSet(steps(draft))
        /\ duplicates(draft) = {} => \A i, j \in DOMAIN sequence : i < j =>
            \/ sequence[i].simTime < sequence[j].simTime
            \/ sequence[i].simTime = sequence[j].simTime /\ place(i) < place(j)
        /\ \A k \in DOMAIN sequence :
            /\ sequence[k].zoneId \in summary.affectedZoneIds
            /\ sequence[k].simTime + sequence[k].durationMinutes <= summary.totalDurationMinutes
        /\ sequence # <<>> => \E k \in DOMAIN sequence :
            sequence[k].simTime + sequence[k].durationMinutes = summary.totalDurationMinutes

\* "Exported JSON re-imported correctly restores form state and timeline": the seed and
\* the events, whatever was edited meanwhile; but the start time, written in UTC and
\* read as local time, comes back earlier by as much as local time is ahead.
ImportRestores ==
    [][reading # NoFile /\ onload /\ reading.file = file =>
        LET restored == Draft(seed', startTime', sensorEvents', permitEvents')
        IN  /\ seed' = file.seed
            /\ restored.start_time = file.start_time - Offset
            /\ restored.sensor_events = file.sensor_events
            /\ restored.permit_events = file.permit_events]_builderVars

\* An edit does what it names: a drag changes the event it took hold of and no other,
\* also when that is gone (TimelineEditor), and an import restores what was exported,
\* but for the start time of a browser that is not in UTC (ScenarioBuilderPage).
EditsAreFaithful == DragTouchesOneEvent /\ DragLetsGo /\ ImportRestores
=============================================================================
