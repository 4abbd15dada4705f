----------------------------- MODULE AuditPaging -----------------------------
(***************************************************************************)
(* The audit page (frontend/src/pages/AuditPage.tsx): a filter and a stack *)
(* of cursors over GET /audit, newest first, while entries keep coming and *)
(* the page that is shown is polled.  A page that has not answered yet     *)
(* shows the items of the page before it.  A cursor is the timestamp of    *)
(* the oldest item shown; the backend returns what is strictly older.      *)
(* The repository has no writer of the log yet: its entries come with any  *)
(* timestamp, equal ones and older ones included.                          *)
(***************************************************************************)
EXTENDS Integers, Sequences, FiniteSets, FiniteSetsExt

CONSTANTS
    EVENT_TYPES, AllEvents,     \* the filter; AllEvents: undefined
    Chosen,                     \* bound: the event types the user filters by
    PAGE_SIZE,
    Latest,                     \* bound: the last timestamp
    MaxEntries,                 \* bound: entries of the log
    MaxDepth                    \* bound: pages the walk goes down

\* What the constants are assumed to be.
PagingAssumption == PAGE_SIZE \in Nat \ {0} /\ Latest \in Nat /\ Chosen \subseteq EVENT_TYPES /\ AllEvents \notin EVENT_TYPES

VARIABLES
    log,            \* entries: [id, timestamp, type], ids in the order they came
    eventType,
    cursorStack,
    pageCache,      \* pageCache[q]: the answer to a query, a set; NoAnswer before it
    placeholder,    \* the items the observer last had
    seen,           \* entries this walk has shown
    edges           \* stamps of the last entries of the pages it has gone down from

pagingVars == <<log, eventType, cursorStack, pageCache, placeholder, seen, edges>>

Top == Latest + 1       \* undefined: no cursor
NoAnswer == {[id |-> 0, timestamp |-> 0, type |-> AllEvents]}
Filters == Chosen \cup {AllEvents}
Queries == [type : Filters, before : 0 .. Top]

before(stack) == stack[Len(stack)]
QueryOf(type, stack) == [type |-> type, before |-> before(stack)]
query == QueryOf(eventType, cursorStack)

Matching(q) == {e \in log : (q.type = AllEvents \/ e.type = q.type) /\ e.timestamp < q.before}

\* AuditLogRepository.list_all: the newest of them, in any order among equals.
list_all(q) ==
    {page \in SUBSET Matching(q) :
        /\ Cardinality(page) = Min({PAGE_SIZE, Cardinality(Matching(q))})
        /\ \A e \in page, other \in Matching(q) \ page : other.timestamp <= e.timestamp}

\* useAuditLog: the answer, or the previous data while there is none.
Items(q, answers, previous) == IF answers[q] = NoAnswer THEN previous ELSE answers[q]
items == Items(query, pageCache, placeholder)
oldest == Min({e.timestamp : e \in items})
-----------------------------------------------------------------------------
PagingInit ==
    /\ log = {}
    /\ eventType = AllEvents
    /\ cursorStack = <<Top>>
    /\ pageCache = [q \in Queries |-> NoAnswer]
    /\ placeholder = {} /\ seen = {} /\ edges = {}

\* What the page shows of an answer counts as seen; a placeholder does not.
Shows(type, stack, answers, walk) ==
    LET q == QueryOf(type, stack)
    IN  /\ placeholder' = Items(q, answers, placeholder)
        /\ seen' = walk \cup (IF answers[q] = NoAnswer THEN {} ELSE answers[q])

setEventType(type) ==
    /\ type # eventType
    /\ eventType' = type /\ cursorStack' = <<Top>>
    /\ edges' = {} /\ Shows(type, <<Top>>, pageCache, {})
    /\ UNCHANGED <<log, pageCache>>

SkipsOne ==
    /\ items # {} /\ Cardinality(items) >= PAGE_SIZE /\ Len(cursorStack) < MaxDepth
    /\ cursorStack' = Append(cursorStack, oldest - 1) /\ edges' = edges \cup {oldest}
    /\ Shows(eventType, cursorStack', pageCache, seen)
    /\ UNCHANGED <<log, eventType, pageCache>>

\* The buttons are part of the list: an empty page has none.
Older ==
    /\ items # {} /\ Cardinality(items) >= PAGE_SIZE /\ Len(cursorStack) < MaxDepth
    /\ cursorStack' = Append(cursorStack, oldest) /\ edges' = edges \cup {oldest}
    /\ Shows(eventType, cursorStack', pageCache, seen)
    /\ UNCHANGED <<log, eventType, pageCache>>

Newer ==
    /\ items # {} /\ Len(cursorStack) > 1
    /\ cursorStack' = SubSeq(cursorStack, 1, Len(cursorStack) - 1)
    /\ Shows(eventType, cursorStack', pageCache, seen)
    /\ UNCHANGED <<log, eventType, pageCache, edges>>

\* An answer, of the page shown or of one left before it came.
AuditArrives(q) ==
    /\ \E stack \in {SubSeq(cursorStack, 1, n) : n \in 1 .. Len(cursorStack)} : q = QueryOf(eventType, stack)
    /\ \E page \in list_all(q) : pageCache' = [pageCache EXCEPT ![q] = page]
    /\ Shows(eventType, cursorStack, pageCache', seen)
    /\ UNCHANGED <<log, eventType, cursorStack, edges>>

\* Whoever writes the log: an entry with any timestamp.
LogEntry(type) ==
    /\ Cardinality(log) < MaxEntries
    /\ \E t \in 1 .. Latest :
          log' = log \cup {[id |-> Cardinality(log) + 1, timestamp |-> t, type |-> type]}
    /\ UNCHANGED <<eventType, cursorStack, pageCache, placeholder, seen, edges>>

PagingNext ==
    \/ \E type \in Filters : setEventType(type)
    \/ Older
    \/ Newer
    \/ \E q \in Queries : AuditArrives(q)
    \/ \E type \in EVENT_TYPES : LogEntry(type)

PagingSpec == PagingInit /\ [][PagingNext]_pagingVars
-----------------------------------------------------------------------------
PagingTypeOK ==
    /\ eventType \in Filters
    /\ Len(cursorStack) >= 1 /\ cursorStack[1] = Top
    /\ \A q \in Queries : pageCache[q] # NoAnswer => pageCache[q] \subseteq log

\* An entry that came after a newer one.
Late(e) == \E other \in log : other.id < e.id /\ other.timestamp > e.timestamp

\* What the walk leaves out, between the newest entry it has shown and the oldest on
\* screen, came late or shares its timestamp with the last entry of a page it came
\* through, where the strict comparison of the query cuts; whatever else was
\* appended, polled or answered late on the way was on screen.
WalkMissesNothing ==
    pageCache[query] # NoAnswer /\ items # {} =>
        \A e \in Matching([type |-> eventType, before |-> Top]) \ seen :
            oldest < e.timestamp /\ e.timestamp < Max({s.timestamp : s \in seen})
                => Late(e) \/ e.timestamp \in edges

\* Cursors never go forward: Older never leads to a newer page.
StackDescends == \A i \in 1 .. Len(cursorStack) - 1 : cursorStack[i + 1] <= cursorStack[i]

\* AuditPage as a whole: cached pages are of the log, the cursors descend and the
\* walk leaves out what comes late or ties with the edge of a page, and nothing else.
WalkIsSound == PagingTypeOK /\ StackDescends /\ WalkMissesNothing
=============================================================================
