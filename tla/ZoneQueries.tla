----------------------------- MODULE ZoneQueries -----------------------------
(***************************************************************************)
(* How a page gets its data: api/client.ts (one request, its timeout, its  *)
(* errors), the query client (one request per key at a time, one retry,    *)
(* polling by PollingContext), the hooks that keep the previous data, and  *)
(* the pages that show the newest of a zone's history: ZonePage and        *)
(* CounterfactualPage.  A key is a zone, or Current for GET /risk/current. *)
(* The data of a key is how many of its assessments the answer held.       *)
(***************************************************************************)
EXTENDS Integers, FiniteSets

CONSTANTS
    Keys, Current,      \* query keys
    Nowhere,            \* no page of these is shown
    MaxTicks            \* bound: assessments persisted per key

\* What the constants are assumed to be.
QueriesAssumption == Current \in Keys /\ Nowhere \notin Keys /\ MaxTicks \in Nat

VARIABLES
    db,             \* db[k]: assessments persisted
    up,             \* the backend is reachable and answers in time
    cache,          \* cache[k]: [data, status, error] of the query cache
    requests,       \* requests under way: [key, slot, attempt, phase, seen]
    page,           \* the key of the page that is shown
    lastDefined,    \* the key this page's observer last had data of
    enabled         \* PollingContext

queryVars == <<db, up, cache, requests, page, lastDefined, enabled>>

None == -1
NoError == "none"
Codes == {"TIMEOUT", "NETWORK_ERROR", "MALFORMED_RESPONSE", "ENVELOPE"}

InFlight(k) == {r \in requests : r.key = k}
Fetching(k) == InFlight(k) # {}
Sent(k, slot) == [key |-> k, slot |-> slot, attempt |-> 0, phase |-> "sent", seen |-> None]

SecondRequest(k, reqs) == IF \E r \in reqs : r.key = k /\ r.slot = 2 THEN reqs ELSE reqs \cup {Sent(k, 2)}

\* A fetch joins the request that is under way for its key.
Fetch(k, reqs) == IF \E r \in reqs : r.key = k THEN reqs ELSE reqs \cup {Sent(k, 1)}

\* refetch() gives up the request that is under way when there is data already, and
\* sends another; without data it joins it.
Restart(k, reqs) == IF cache[k].data = None THEN Fetch(k, reqs) ELSE Fetch(k, reqs \ InFlight(k))

\* A fetch of a key without data is pending again, its error forgotten.
Refetched(k) ==
    IF cache[k].data = None THEN [cache[k] EXCEPT !.status = "pending", !.error = NoError] ELSE cache[k]
-----------------------------------------------------------------------------
(* What a page shows. *)

\* keepPreviousData: while a key is pending, the data of the key before it.
ShownKey == IF cache[page].status = "pending" /\ cache[page].data = None THEN lastDefined ELSE page

isLoading == cache[page].status = "pending" /\ ShownKey = Nowhere
shownData == IF ShownKey = Nowhere THEN None ELSE cache[ShownKey].data

\* The four-way branch of every page.
QueryResult(loading, error, empty) ==
    CASE loading -> "loading"
      [] ~loading /\ error # NoError -> "error"
      [] ~loading /\ error = NoError /\ empty -> "empty"
      [] OTHER -> "content"

View == QueryResult(isLoading, cache[page].error, shownData \in {None, 0})

-----------------------------------------------------------------------------
QueriesInit ==
    /\ db = [k \in Keys |-> 0]
    /\ up = TRUE
    /\ cache = [k \in Keys |-> [data |-> None, status |-> "pending", error |-> NoError]]
    /\ requests = {}
    /\ page = Nowhere /\ lastDefined = Nowhere
    /\ enabled = TRUE

\* Show(k): another zone under the same page, another page, or none.  A page
\* that stays keeps its observer and the data it last had; every key is stale
\* at once and fetched when it is shown.
Show(k) ==
    /\ k # page
    /\ page' = k
    /\ LET stays == k \in Keys \ {Current} /\ page \in Keys \ {Current}
       IN  lastDefined' = IF k # Nowhere /\ cache[k].data # None THEN k
                          ELSE IF stays THEN lastDefined ELSE Nowhere
    /\ requests' = IF k = Nowhere THEN requests ELSE Fetch(k, requests)
    /\ cache' = IF k = Nowhere \/ Fetching(k) THEN cache ELSE [cache EXCEPT ![k] = Refetched(k)]
    /\ UNCHANGED <<db, up, enabled>>

PollStopsOnError ==
    /\ enabled /\ page # Nowhere /\ ~Fetching(page) /\ cache[page].status # "error"
    /\ requests' = Fetch(page, requests)
    /\ cache' = [cache EXCEPT ![page] = Refetched(page)]
    /\ UNCHANGED <<db, up, page, lastDefined, enabled>>

PollAgain ==
    /\ enabled /\ page # Nowhere
    /\ requests' = SecondRequest(page, requests)
    /\ cache' = [cache EXCEPT ![page] = Refetched(page)]
    /\ UNCHANGED <<db, up, page, lastDefined, enabled>>

\* refetchInterval of the hooks.
Poll ==
    /\ enabled /\ page # Nowhere /\ ~Fetching(page)
    /\ requests' = Fetch(page, requests)
    /\ cache' = [cache EXCEPT ![page] = Refetched(page)]
    /\ UNCHANGED <<db, up, page, lastDefined, enabled>>

\* The Retry button of ErrorState, polling or not.
onRetry ==
    /\ page # Nowhere /\ View = "error"
    /\ requests' = Restart(page, requests)
    /\ cache' = [cache EXCEPT ![page] = Refetched(page)]
    /\ UNCHANGED <<db, up, page, lastDefined, enabled>>

Without(r) == requests \ {r}

Succeeds(r) ==
    /\ requests' = Without(r)
    /\ cache' = [cache EXCEPT ![r.key] = [data |-> r.seen, status |-> "success", error |-> NoError]]
    /\ lastDefined' = IF page = r.key THEN page ELSE lastDefined

\* retry: 1.  The second failure is the query's error; its data stays.
Fails(r, code) ==
    /\ code \in Codes
    /\ IF r.attempt = 0
         THEN requests' = Without(r) \cup {[r EXCEPT !.attempt = 1, !.phase = "waiting", !.seen = None]} /\ UNCHANGED cache
         ELSE /\ requests' = Without(r)
              /\ cache' = [cache EXCEPT ![r.key].status = "error", ![r.key].error = code]
    /\ UNCHANGED lastDefined

Backoff(r) ==
    /\ r.phase = "waiting"
    /\ requests' = Without(r) \cup {[r EXCEPT !.phase = "sent"]}
    /\ UNCHANGED <<db, up, cache, page, lastDefined, enabled>>

\* The backend answers: the timer is cleared, the body is still to be read.
Headers(r, phase) ==
    /\ r.phase = "sent" /\ phase \in {"ok", "refused"} /\ (phase = "refused" => ~up)
    /\ requests' = Without(r) \cup {[r EXCEPT !.phase = phase, !.seen = db[r.key]]}
    /\ UNCHANGED <<db, up, cache, page, lastDefined, enabled>>

\* handleResponse: an answer that is not ok carries an envelope or is malformed.
handleResponse(r) ==
    /\ \/ r.phase = "ok" /\ Succeeds(r)
       \/ r.phase = "ok" /\ ~up /\ Fails(r, "MALFORMED_RESPONSE")
       \/ r.phase = "refused" /\ \E code \in {"ENVELOPE", "MALFORMED_RESPONSE"} : Fails(r, code)
    /\ UNCHANGED <<db, up, page, enabled>>

ClearedTooSoon(r) ==
    /\ r.phase = "sent" /\ ~up /\ r.attempt = 0
    /\ Fails(r, "TIMEOUT")
    /\ UNCHANGED <<db, up, page, enabled>>

\* DEFAULT_TIMEOUT_MS without an answer.
TimesOut(r) ==
    /\ r.phase = "sent" /\ ~up
    /\ Fails(r, "TIMEOUT")
    /\ UNCHANGED <<db, up, page, enabled>>

NetworkError(r) ==
    /\ r.phase = "sent" /\ ~up
    /\ Fails(r, "NETWORK_ERROR")
    /\ UNCHANGED <<db, up, page, enabled>>

setEnabled == enabled' = ~enabled /\ UNCHANGED <<db, up, cache, requests, page, lastDefined>>

Persist(k) ==
    /\ db[k] < MaxTicks /\ db' = [db EXCEPT ![k] = @ + 1]
    /\ UNCHANGED <<up, cache, requests, page, lastDefined, enabled>>

Outage == up' = ~up /\ UNCHANGED <<db, cache, requests, page, lastDefined, enabled>>

QueriesNext ==
    \/ \E k \in Keys \cup {Nowhere} : Show(k)
    \/ Poll
    \/ onRetry
    \/ \E r \in requests :
        \/ Backoff(r)
        \/ \E phase \in {"ok", "refused"} : Headers(r, phase)
        \/ handleResponse(r)
        \/ TimesOut(r)
        \/ NetworkError(r)
    \/ setEnabled
    \/ \E k \in Keys : Persist(k)
    \/ Outage

QueriesSpec == QueriesInit /\ [][QueriesNext]_queryVars

OfKey(k, A(_)) == \E r \in requests : r.key = k /\ A(r)

AnswersOrTimesOut(r) == TimesOut(r) \/ (up /\ Headers(r, "ok"))

\* Timers fire; a backend that is up answers and its answers are read.
QueriesFairSpec ==
    /\ QueriesSpec
    /\ WF_queryVars(Poll)
    /\ \A k \in Keys :
        /\ WF_queryVars(OfKey(k, Backoff))
        /\ WF_queryVars(OfKey(k, AnswersOrTimesOut))
        /\ WF_queryVars(OfKey(k, handleResponse))
-----------------------------------------------------------------------------
QueriesTypeOK ==
    /\ db \in [Keys -> 0 .. MaxTicks] /\ {up, enabled} \subseteq BOOLEAN
    /\ page \in Keys \cup {Nowhere} /\ lastDefined \in Keys \cup {Nowhere}
    /\ \A k \in Keys :
        /\ cache[k].data \in None .. db[k]
        /\ cache[k].status = "error" <=> cache[k].error # NoError
        /\ cache[k].status = "success" => cache[k].data # None

\* An answer never replaces a newer one: the number of assessments known of a
\* zone never goes back, whatever polls, retries and remounts overlap.
NeverBackwards == [][\A k \in Keys : cache'[k].data >= cache[k].data]_queryVars

\* A page that is shown and has nothing to show is fetching, has failed, or has
\* had an answer: the skeleton is never left without a request behind it.
LoadingIsUnderWay == page # Nowhere /\ View = "loading" => Fetching(page)

\* The query cache as a whole: what it holds is of the database and never goes
\* back, and no page waits for an answer nobody has asked for.
CacheIsSound == [](QueriesTypeOK /\ LoadingIsUnderWay) /\ NeverBackwards

\* With polling on and the backend back, a page that stays open comes to show
\* everything that is persisted, whatever failed before, once its user leaves Retry
\* alone: each press gives up the request that is under way.
CatchesUp ==
    \A k \in Keys :
        <>[](up /\ enabled /\ page = k) /\ <>[][~onRetry]_queryVars
            => <>[](cache[k].error = NoError /\ cache[k].data = db[k])
=============================================================================
