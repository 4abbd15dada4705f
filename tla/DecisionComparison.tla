-------------------------- MODULE DecisionComparison --------------------------
(***************************************************************************)
(* A scenario's card on the Decision Comparison page                       *)
(* (pages/DecisionComparisonPage.tsx, lib/decisionComparison.ts): the      *)
(* histories of the scenario's zones, one counterfactual query per tick of *)
(* them, and the moment picked from what has arrived, with the sentence    *)
(* that explains it.                                                       *)
(*                                                                         *)
(* A moment is a zone and the number of a tick in it.  Ticks with          *)
(* inScenario = FALSE lie outside of the scenario's window.                *)
(***************************************************************************)
EXTENDS Integers, Sequences, FiniteSets

CONSTANTS
    ZoneIds,        \* scenario.zone_ids
    Verdicts,       \* what the two systems may say of a tick
    HISTORY_LIMIT,  \* newest assessments a history query returns
    MaxAssessed     \* bound on the ticks of all zones together

\* What the constants are assumed to be: no zone is listed twice, and a score is a
\* percentage.
CardAssumption ==
    /\ ZoneIds \in Seq({ZoneIds[i] : i \in DOMAIN ZoneIds})
    /\ \A i, j \in DOMAIN ZoneIds : ZoneIds[i] = ZoneIds[j] => i = j
    /\ \A v \in Verdicts : v.score \in 0 .. 100
    /\ MaxAssessed \in Nat

VARIABLES
    assessed,   \* assessed[z]: the zone's ticks, oldest first
    hist,       \* hist[z]: [status, upto, fetching]; upto: ticks of the last answer, or NoneYet
    cf          \* moment -> "loading", "ok" or "error"; absent if never asked for

cardVars == <<assessed, hist, cf>>

Nothing == [zone |-> "none", tick |-> 0]
NoneYet == -1

---------------------------------------------------------------------------
(* lib/decisionComparison.ts; a moment's verdict is                        *)
(* [compound, tier, score, alert, bonus, ratio, inScenario]                *)

Of(m) == assessed[m.zone][m.tick]

isMiss(v) == v.tier # "normal" /\ ~v.alert

\* reduce: the first of the highest scores, in the order of the moments.
Before(m, n) ==
    LET at(z) == CHOOSE i \in DOMAIN ZoneIds : ZoneIds[i] = z
    IN  at(m.zone) < at(n.zone) \/ (m.zone = n.zone /\ m.tick > n.tick)

pickComparisonMoment(moments) ==
    LET withCompound == {m \in moments : Of(m).compound}
        misses == {m \in withCompound : isMiss(Of(m))}
        pool == IF misses # {} THEN misses ELSE withCompound
    IN  IF pool = {} THEN Nothing
        ELSE CHOOSE m \in pool : \A n \in pool \ {m} :
                Of(n).score < Of(m).score \/ (Of(n).score = Of(m).score /\ Before(m, n))

explainComparison(v) ==
    CASE ~v.compound -> "no compound assessment"
      [] v.compound /\ ~isMiss(v) -> "both agree"
      [] v.compound /\ isMiss(v) /\ v.bonus -> "interaction bonus"
      [] v.compound /\ isMiss(v) /\ ~v.bonus /\ v.ratio -> "below the threshold"
      [] OTHER -> "no sensor data"

---------------------------------------------------------------------------
(* The card. *)

Moments == [zone : {ZoneIds[i] : i \in DOMAIN ZoneIds}, tick : 1..MaxAssessed]

\* The newest HISTORY_LIMIT ticks of an answer, those in the scenario's window.
tickPairs ==
    {m \in Moments :
        /\ m.tick <= hist[m.zone].upto
        /\ m.tick > hist[m.zone].upto - HISTORY_LIMIT
        /\ Of(m).inScenario}

Status(m) == IF m \in DOMAIN cf THEN cf[m] ELSE "loading"

\* Mutant: the card does not wait for the verdicts.
HistoriesOnly == \E z \in DOMAIN hist : hist[z].status = "loading"

cardIsLoading ==
    \/ \E z \in DOMAIN hist : hist[z].status = "loading"
    \/ \E m \in tickPairs : Status(m) = "loading"

hasError ==
    (\E z \in DOMAIN hist : hist[z].status = "error") \/ (\E m \in tickPairs : Status(m) = "error")

chosen == pickComparisonMoment({m \in tickPairs : Status(m) = "ok"})

\* QueryResult: loading, error, empty, or the moment.
Card ==
    IF cardIsLoading THEN "loading"
    ELSE IF hasError THEN "error"
    ELSE IF chosen = Nothing THEN "empty"
    ELSE "content"

---------------------------------------------------------------------------
CardInit ==
    /\ assessed = [z \in {ZoneIds[i] : i \in DOMAIN ZoneIds} |-> <<>>]
    /\ hist = [z \in {ZoneIds[i] : i \in DOMAIN ZoneIds} |->
                    [status |-> "loading", upto |-> NoneYet, fetching |-> TRUE]]
    /\ cf = << >>

Ticks == LET n[i \in 0..Len(ZoneIds)] == IF i = 0 THEN 0 ELSE n[i - 1] + Len(assessed[ZoneIds[i]])
         IN  n[Len(ZoneIds)]

\* The backend assesses a zone.
Assess ==
    /\ Ticks < MaxAssessed
    /\ \E z \in DOMAIN assessed, v \in Verdicts : assessed' = [assessed EXCEPT ![z] = Append(@, v)]
    /\ UNCHANGED <<hist, cf>>

\* A history answers: its ticks become counterfactual queries.
HistoryAnswers ==
    /\ \E z \in DOMAIN hist :
        /\ hist[z].fetching
        /\ hist' = [hist EXCEPT ![z] = [status |-> "ok", upto |-> Len(assessed[z]), fetching |-> FALSE]]
    /\ UNCHANGED <<assessed, cf>>

\* A failed request; what an earlier answer held is kept, the error is shown.
HistoryFails ==
    /\ \E z \in DOMAIN hist :
        /\ hist[z].fetching
        /\ hist' = [hist EXCEPT ![z].status = "error", ![z].fetching = FALSE]
    /\ UNCHANGED <<assessed, cf>>

With(m, status) == [n \in DOMAIN cf \cup {m} |-> IF n = m THEN status ELSE cf[n]]

VerdictAnswers ==
    /\ \E m \in tickPairs : Status(m) = "loading" /\ cf' = With(m, "ok")
    /\ UNCHANGED <<assessed, hist>>

VerdictFails ==
    /\ \E m \in tickPairs : Status(m) = "loading" /\ cf' = With(m, "error")
    /\ UNCHANGED <<assessed, hist>>

\* The window gets the focus and every query is asked again: one without data
\* is loading again, a verdict that is there answers what it did before.
Focus ==
    /\ hist' = [z \in DOMAIN hist |->
                    [hist[z] EXCEPT !.fetching = TRUE,
                                    !.status = IF hist[z].upto = NoneYet THEN "loading" ELSE @]]
    /\ cf' = [m \in {n \in DOMAIN cf : cf[n] # "error"} |-> cf[m]]
    /\ UNCHANGED assessed

CardNext ==
    \/ Assess \/ HistoryAnswers \/ HistoryFails
    \/ VerdictAnswers \/ VerdictFails \/ Focus

CardSpec == CardInit /\ [][CardNext]_cardVars

---------------------------------------------------------------------------
(* Properties *)

(* A moment is shown only when every tick of the card has its two verdicts,
   and then none of them is a higher miss: no answer still under way can
   replace what the card calls the most dramatic divergence, or refute its
   sentence that both systems agree. *)
ShownIsFinal ==
    Card = "content" =>
        \A m \in tickPairs : Of(m).compound =>
            /\ Status(m) = "ok"
            /\ isMiss(Of(m)) => /\ explainComparison(Of(chosen)) # "both agree"
                               /\ Of(m).score <= Of(chosen).score
=============================================================================
