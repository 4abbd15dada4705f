--------------------------- MODULE DemoModeProofs ---------------------------
(***************************************************************************)
(* For any catalogue, zones, assessments and history limit: the replay     *)
(* page of a scenario keeps its playhead in the window and shows the       *)
(* newest assessment at it, and the demo navigates by its own list only.   *)
(***************************************************************************)
EXTENDS DemoMode, FiniteSetTheorems, SequenceTheorems, WellFoundedInduction, TLAPS

-----------------------------------------------------------------------------
(* Numbers. *)

\* A set of natural numbers has a least element.
LEMMA LeastOf ==
  ASSUME NEW T, T \subseteq Nat, T # {}
  PROVE  \E m \in T : \A k \in T : m <= k
<1>1. \E m \in T : \A k \in T : ~(<<k, m>> \in OpToRel(<, Nat))
  BY WFMin, NatLessThanWellFounded
<1>2. PICK m \in T : \A k \in T : ~(<<k, m>> \in OpToRel(<, Nat))
  BY <1>1
<1>3. \A k \in T : ~(k < m)
  BY <1>2 DEF OpToRel
<1>4. QED
  BY <1>3

\* Natural numbers below a bound have a greatest.
LEMMA GreatestOf ==
  ASSUME NEW T, T # {}, NEW b \in Nat, T \subseteq 0 .. b
  PROVE  \E m \in T : \A k \in T : k <= m
<1> DEFINE U == {n \in 0 .. b : b - n \in T}
<1>1. U \subseteq Nat
  OBVIOUS
<1>2. U # {}
  <2>1. PICK t : t \in T
    OBVIOUS
  <2>2. b - t \in 0 .. b /\ b - (b - t) = t
    BY <2>1
  <2>3. QED
    BY <2>1, <2>2
<1>3. PICK u \in U : \A k \in U : u <= k
  BY <1>1, <1>2, LeastOf
<1>4. b - u \in T /\ \A k \in T : k <= b - u
  <2> SUFFICES ASSUME NEW k \in T PROVE k <= b - u
    BY <1>3
  <2>1. b - k \in 0 .. b /\ b - (b - k) = k
    OBVIOUS
  <2>2. b - k \in U
    BY <2>1
  <2>3. u <= b - k
    BY <1>3, <2>2
  <2>4. QED
    BY <1>3, <2>1, <2>3
<1>5. QED
  BY <1>4

\* The greater of two numbers.
LEMMA GreaterOf ==
  ASSUME NEW a \in Int, NEW b \in Int
  PROVE  Max({a, b}) \in {a, b} /\ a <= Max({a, b}) /\ b <= Max({a, b})
<1>1. \E m \in {a, b} : \A y \in {a, b} : m >= y
  OBVIOUS
<1>2. Max({a, b}) \in {a, b} /\ \A y \in {a, b} : Max({a, b}) >= y
  BY <1>1 DEF Max
<1>3. QED
  BY <1>2

\* A quotient and its multiples.
LEMMA QuotientIsNat ==
  ASSUME NEW a \in Nat, NEW b \in Nat \ {0}
  PROVE  a \div b \in Nat /\ (a \div b) * b <= a
OBVIOUS

LEMMA MultiplesFit ==
  ASSUME NEW a \in Nat, NEW b \in Nat \ {0}, NEW n \in 0 .. a \div b
  PROVE  n * b \in Nat /\ n * b <= a
<1>1. a \div b \in Nat /\ (a \div b) * b <= a
  BY QuotientIsNat
<1> DEFINE q == a \div b
<1>2. q \in Nat /\ n \in Nat /\ n <= q
  BY <1>1
<1> HIDE DEF q
<1>3. n * b <= q * b /\ n * b \in Nat /\ q * b \in Nat
  BY <1>2
<1>4. QED
  BY <1>1, <1>3 DEF q

-----------------------------------------------------------------------------
(* The page. *)

StoredOK ==
    /\ scenarioCache \subseteq Keys
    /\ persisted = [z \in zoneIds |-> persisted[z]] /\ history = [z \in zoneIds |-> history[z]]
    /\ \A z \in zoneIds :
          IsFiniteSet(persisted[z]) /\ persisted[z] \subseteq Stamps[z] /\ history[z] \subseteq persisted[z]

PlayheadOK ==
    /\ currentTime \in Nat \cup {Null} /\ replayPlaying \in BOOLEAN /\ replaySpeed \in SpeedOptions
    /\ replayPlaying => currentTime # Null /\ route \in ReplayRoutes
    /\ PlayheadInWindow

PageInv == StoredOK /\ PlayheadOK

\* A scenario that is shown is the route's, and of the catalogue.
LEMMA ScenarioFacts ==
  ASSUME ScenarioReplayAssumption, NEW r, NEW cache, cache \subseteq Keys
  PROVE  LET s == useScenario(r, cache)
         IN  /\ s # NoScenario <=> r \in ReplayRoutes /\ r.arg \in cache
             /\ s # NoScenario => s = r.arg /\ s \in Keys
BY DEF ScenarioReplayAssumption, useScenario

\* Its window.
LEMMA WindowFacts ==
  ASSUME ScenarioReplayAssumption, scenarioCache \subseteq Keys
  PROVE  /\ scenario # NoScenario =>
              /\ startMs = Window[scenario].start /\ endMs = Window[scenario].end
              /\ startMs \in Nat \ {0} /\ endMs \in Nat \ {0} /\ startMs < endMs
         /\ scenario = NoScenario => startMs = 0 /\ endMs = 0
         /\ stepMs \in Nat \ {0}
<1>1. scenario # NoScenario => scenario \in Keys
  BY ScenarioFacts DEF scenario
<1>2. /\ scenario # NoScenario =>
            /\ startMs = Window[scenario].start /\ endMs = Window[scenario].end
            /\ startMs \in Nat \ {0} /\ endMs \in Nat \ {0} /\ startMs < endMs
      /\ scenario = NoScenario => startMs = 0 /\ endMs = 0
  BY <1>1 DEF startMs, endMs, ScenarioReplayAssumption
<1>3. MIN_STEP \in Nat \ {0} /\ SCRUB_STEPS \in Nat \ {0}
  BY DEF ScenarioReplayAssumption
<1>4. CASE scenario = NoScenario
  BY <1>2, <1>3, <1>4 DEF stepMs
<1>5. CASE scenario # NoScenario
  <2> DEFINE width == 2 * (endMs - startMs) + SCRUB_STEPS
             q == width \div (2 * SCRUB_STEPS)
  <2>1. width \in Nat /\ 2 * SCRUB_STEPS \in Nat \ {0}
    BY <1>2, <1>3, <1>5
  <2>2. q \in Nat
    <3> HIDE DEF width
    <3>1. QED
      BY <2>1, QuotientIsNat
  <2>3. stepMs = Max({MIN_STEP, q})
    BY <1>5 DEF stepMs
  <2>4. Max({MIN_STEP, q}) \in {MIN_STEP, q} /\ MIN_STEP <= Max({MIN_STEP, q})
    <3> HIDE DEF q
    <3>1. QED
      BY <2>2, <1>3, GreaterOf
  <2>5. stepMs \in Nat \ {0}
    <3> HIDE DEF q
    <3>1. QED
      BY <2>2, <2>3, <2>4, <1>3
  <2>6. QED
    BY <2>5, <1>2, <1>5
<1>6. QED
  BY <1>4, <1>5

\* navigate, by the user or by the demo.
LEMMA NavigateKeeps ==
  ASSUME ScenarioReplayAssumption, PageInv, NEW r, navigate(r),
         UNCHANGED <<scenarioCache, persisted, history>>
  PROVE  PageInv'
<1> DEFINE s == useScenario(r, scenarioCache)
<1>1. scenarioCache \subseteq Keys /\ StoredOK'
  BY DEF PageInv, StoredOK
<1>2. scenario' = s /\ route' = r
  BY DEF navigate, scenario
<1>3. /\ s # NoScenario <=> r \in ReplayRoutes /\ r.arg \in scenarioCache
      /\ s # NoScenario => s = r.arg /\ s \in Keys
      /\ scenario # NoScenario => route \in ReplayRoutes
  BY <1>1, ScenarioFacts DEF scenario
<1>4. s # NoScenario => Window[s].start \in Nat \ {0} /\ Window[s].end \in Nat \ {0} /\ Window[s].start < Window[s].end
  BY <1>3 DEF ScenarioReplayAssumption
<1>5. /\ s # NoScenario => startMs' = Window[s].start /\ endMs' = Window[s].end
      /\ scenario # NoScenario => startMs = Window[scenario].start /\ endMs = Window[scenario].end
  BY <1>2 DEF startMs, endMs
<1>6. 1 \in SpeedOptions /\ PlayheadOK
  BY DEF ScenarioReplayAssumption, PageInv
<1> HIDE DEF s
<1>7. CASE r \in ReplayRoutes /\ route \in ReplayRoutes
  <2>1. route' = r /\ replaySpeed' = replaySpeed /\ ScenarioEffect(r, scenarioCache, scenario)
    BY <1>7 DEF navigate
  <2>2. CASE s \notin {NoScenario, scenario}
    <3>1. currentTime' = Window[s].start /\ replayPlaying' = r.autoplay
      BY <2>1, <2>2, <1>3 DEF ScenarioEffect, s
    <3>2. r.autoplay \in BOOLEAN
      BY <1>7 DEF ReplayRoutes, ReplayRoute
    <3>3. currentTime' \in Nat /\ currentTime' # Null
      BY <3>1, <1>4, <2>2 DEF Null
    <3>4. PlayheadInWindow'
      BY <3>1, <1>4, <1>5, <2>2 DEF PlayheadInWindow
    <3>5. PlayheadOK'
      BY <3>1, <3>2, <3>3, <3>4, <2>1, <1>6, <1>7 DEF PlayheadOK
    <3>6. QED
      BY <3>5, <1>1 DEF PageInv
  <2>3. CASE s \in {NoScenario, scenario}
    <3>1. currentTime' = currentTime /\ replayPlaying' = replayPlaying
      BY <2>1, <2>3 DEF ScenarioEffect, s
    <3>2. PlayheadInWindow'
      BY <3>1, <2>3, <1>2, <1>5, <1>6 DEF PlayheadOK, PlayheadInWindow
    <3>3. PlayheadOK'
      BY <3>1, <3>2, <2>1, <1>6, <1>7 DEF PlayheadOK
    <3>4. QED
      BY <3>3, <1>1 DEF PageInv
  <2>4. QED
    BY <2>2, <2>3
<1>8. CASE ~(r \in ReplayRoutes /\ route \in ReplayRoutes)
  <2>1. /\ replaySpeed' = 1
        /\ currentTime' = IF s = NoScenario THEN Null ELSE Window[r.arg].start
        /\ replayPlaying' = (s # NoScenario /\ r.autoplay)
    BY <1>8 DEF navigate, s
  <2>2. CASE s = NoScenario
    <3>1. currentTime' = Null /\ replayPlaying' = FALSE
      BY <2>1, <2>2
    <3>2. PlayheadInWindow'
      BY <1>2, <2>2 DEF PlayheadInWindow
    <3>3. PlayheadOK'
      BY <3>1, <3>2, <2>1, <1>6 DEF PlayheadOK
    <3>4. QED
      BY <3>3, <1>1 DEF PageInv
  <2>3. CASE s # NoScenario
    <3>1. currentTime' = Window[s].start /\ r \in ReplayRoutes
      BY <2>1, <2>3, <1>3
    <3>2. replayPlaying' \in BOOLEAN
      BY <2>1
    <3>3. currentTime' \in Nat /\ currentTime' # Null
      BY <3>1, <1>4, <2>3 DEF Null
    <3>4. PlayheadInWindow'
      BY <3>1, <1>4, <1>5, <2>3 DEF PlayheadInWindow
    <3>5. PlayheadOK'
      BY <3>1, <3>2, <3>3, <3>4, <2>1, <1>2, <1>6 DEF PlayheadOK
    <3>6. QED
      BY <3>5, <1>1 DEF PageInv
  <2>4. QED
    BY <2>2, <2>3
<1>9. QED
  BY <1>7, <1>8

\* The scenario's answer: its window opens at its start.
LEMMA ScenarioArrivesKeeps ==
  ASSUME ScenarioReplayAssumption, PageInv, ScenarioArrives
  PROVE  PageInv'
<1> DEFINE c == scenarioCache \cup {route.arg}
           s == useScenario(route, c)
<1>1. /\ route \in ReplayRoutes /\ route.arg \notin scenarioCache
      /\ scenarioCache' = c /\ ScenarioEffect(route, c, scenario)
      /\ route' = route /\ persisted' = persisted /\ history' = history /\ replaySpeed' = replaySpeed
  BY DEF ScenarioArrives
<1>2. route.arg \in Keys /\ route.autoplay \in BOOLEAN
  BY <1>1 DEF ReplayRoutes, ReplayRoute
<1>3. c \subseteq Keys /\ scenarioCache \subseteq Keys
  BY <1>2 DEF PageInv, StoredOK
<1>4. StoredOK'
  BY <1>1, <1>3 DEF PageInv, StoredOK
<1>5. scenario' = s
  BY <1>1 DEF scenario
<1>6. s # NoScenario /\ s = route.arg /\ s \in Keys /\ scenario = NoScenario
  <2>1. /\ s # NoScenario <=> route \in ReplayRoutes /\ route.arg \in c
        /\ s # NoScenario => s = route.arg /\ s \in Keys
    BY <1>3, ScenarioFacts
  <2>2. scenario # NoScenario => route.arg \in scenarioCache
    BY <1>3, ScenarioFacts DEF scenario
  <2>3. route.arg \in c
    OBVIOUS
  <2>4. QED
    BY <2>1, <2>2, <2>3, <1>1
<1>7. currentTime' = Window[s].start /\ replayPlaying' = route.autoplay
  BY <1>1, <1>6 DEF ScenarioEffect
<1>8. Window[s].start \in Nat \ {0} /\ Window[s].end \in Nat \ {0} /\ Window[s].start < Window[s].end
  BY <1>6 DEF ScenarioReplayAssumption
<1>9. startMs' = Window[s].start /\ endMs' = Window[s].end
  BY <1>5, <1>6 DEF startMs, endMs
<1> HIDE DEF c, s
<1>10. PlayheadInWindow'
  BY <1>7, <1>8, <1>9 DEF PlayheadInWindow
<1>11. currentTime' \in Nat /\ currentTime' # Null
  BY <1>7, <1>8 DEF Null
<1>12. PlayheadOK'
  BY <1>1, <1>2, <1>7, <1>10, <1>11 DEF PageInv, PlayheadOK
<1>13. QED
  BY <1>4, <1>12 DEF PageInv

\* What leaves the route and what is stored alone leaves the window alone.
LEMMA WindowStays ==
  ASSUME PageInv, UNCHANGED <<route, scenarioCache, persisted, history>>
  PROVE  StoredOK' /\ scenario' = scenario /\ startMs' = startMs /\ endMs' = endMs
<1>1. scenario' = scenario
  BY DEF scenario
<1>2. StoredOK'
  BY DEF PageInv, StoredOK
<1>3. QED
  BY <1>1, <1>2 DEF startMs, endMs

\* The interval: the playhead moves on and stops at the end.
LEMMA TickKeeps ==
  ASSUME ScenarioReplayAssumption, PageInv, PlaybackTick
  PROVE  PageInv'
<1> DEFINE next == currentTime + stepMs * replaySpeed
<1>1. /\ replayPlaying /\ currentTime # Null
      /\ currentTime' = IF next >= endMs THEN endMs ELSE next
      /\ replayPlaying' = (next < endMs)
      /\ UNCHANGED <<route, scenarioCache, persisted, history, replaySpeed>>
  BY DEF PlaybackTick
<1>2. StoredOK' /\ scenario' = scenario /\ startMs' = startMs /\ endMs' = endMs
  BY <1>1, WindowStays
<1>3. PlayheadOK /\ scenarioCache \subseteq Keys
  BY DEF PageInv, StoredOK
<1>4. /\ scenario # NoScenario => startMs \in Nat \ {0} /\ endMs \in Nat \ {0} /\ startMs < endMs
      /\ scenario = NoScenario => startMs = 0 /\ endMs = 0
      /\ stepMs \in Nat \ {0}
  BY <1>3, WindowFacts
<1>5. replaySpeed \in Nat \ {0} /\ currentTime \in Nat
  BY <1>1, <1>3 DEF PlayheadOK, ScenarioReplayAssumption
<1>6. stepMs * replaySpeed \in Nat
  BY <1>4, <1>5
<1>7. next \in Nat /\ currentTime <= next
  BY <1>5, <1>6
<1>8. endMs \in Nat
  BY <1>4
<1>9. currentTime' \in Nat /\ currentTime' # Null /\ replayPlaying' \in BOOLEAN
  <2> HIDE DEF next
  <2>1. QED
    BY <1>1, <1>7, <1>8 DEF Null
<1>10. PlayheadInWindow'
  <2> SUFFICES ASSUME scenario # NoScenario PROVE startMs <= currentTime' /\ currentTime' <= endMs
    BY <1>2 DEF PlayheadInWindow
  <2>1. startMs <= currentTime /\ startMs \in Nat /\ endMs \in Nat /\ startMs < endMs
    BY <1>3, <1>4 DEF PlayheadOK, PlayheadInWindow
  <2> HIDE DEF next
  <2>2. QED
    BY <2>1, <1>1, <1>5, <1>7
<1>11. PlayheadOK'
  BY <1>1, <1>3, <1>9, <1>10 DEF PlayheadOK
<1>12. QED
  BY <1>2, <1>11 DEF PageInv

\* Play, Reset and Speed.
LEMMA ControlsKeep ==
  ASSUME ScenarioReplayAssumption, PageInv, Play \/ Reset \/ Speed
  PROVE  PageInv'
<1>1. scenario # NoScenario /\ UNCHANGED <<route, scenarioCache, persisted, history>>
  BY DEF Play, Reset, Speed, Click
<1>2. StoredOK' /\ scenario' = scenario /\ startMs' = startMs /\ endMs' = endMs
  BY <1>1, WindowStays
<1>3. PlayheadOK /\ scenarioCache \subseteq Keys
  BY DEF PageInv, StoredOK
<1>4. startMs \in Nat \ {0} /\ endMs \in Nat \ {0} /\ startMs < endMs
  BY <1>1, <1>3, WindowFacts
<1>5. route \in ReplayRoutes
  BY <1>1, <1>3, ScenarioFacts DEF scenario
<1>6. startMs <= currentTime /\ currentTime <= endMs /\ currentTime # Null
  BY <1>1, <1>3, <1>4 DEF PlayheadOK, PlayheadInWindow, Null
<1>7. CASE Play
  <2>1. replayPlaying' \in BOOLEAN /\ currentTime' = currentTime /\ replaySpeed' = replaySpeed
    BY <1>7 DEF Play
  <2>2. PlayheadInWindow'
    BY <2>1, <1>2, <1>6 DEF PlayheadInWindow
  <2>3. PlayheadOK'
    BY <2>1, <2>2, <1>1, <1>3, <1>5, <1>6 DEF PlayheadOK
  <2>4. QED
    BY <2>3, <1>2 DEF PageInv
<1>8. CASE Reset
  <2>1. replayPlaying' = FALSE /\ currentTime' = startMs /\ replaySpeed' = replaySpeed
    BY <1>8 DEF Reset
  <2>2. PlayheadInWindow'
    BY <2>1, <1>2, <1>4 DEF PlayheadInWindow
  <2>3. PlayheadOK'
    BY <2>1, <2>2, <1>3, <1>4 DEF PlayheadOK
  <2>4. QED
    BY <2>3, <1>2 DEF PageInv
<1>9. CASE Speed
  <2>1. replayPlaying' = replayPlaying /\ currentTime' = currentTime /\ replaySpeed' \in SpeedOptions
    BY <1>9 DEF Speed
  <2>2. PlayheadInWindow'
    BY <2>1, <1>2, <1>6 DEF PlayheadInWindow
  <2>3. PlayheadOK'
    BY <2>1, <2>2, <1>1, <1>3, <1>5, <1>6 DEF PlayheadOK
  <2>4. QED
    BY <2>3, <1>2 DEF PageInv
<1>10. QED
  BY <1>7, <1>8, <1>9

\* The slider's positions lie in the window.
LEMMA SliderKeeps ==
  ASSUME ScenarioReplayAssumption, PageInv, Slider
  PROVE  PageInv'
<1>1. scenario # NoScenario /\ UNCHANGED <<route, scenarioCache, persisted, history, replaySpeed>> /\ replayPlaying' = FALSE
  BY DEF Slider, Click
<1>2. StoredOK' /\ scenario' = scenario /\ startMs' = startMs /\ endMs' = endMs
  BY <1>1, WindowStays
<1>3. PlayheadOK /\ scenarioCache \subseteq Keys
  BY DEF PageInv, StoredOK
<1>4. startMs \in Nat \ {0} /\ endMs \in Nat \ {0} /\ startMs < endMs /\ stepMs \in Nat \ {0}
  BY <1>1, <1>3, WindowFacts
<1> DEFINE width == endMs - startMs
<1>5. PICK n \in 0 .. width \div stepMs : currentTime' = startMs + n * stepMs
  BY DEF Slider
<1>6. width \in Nat
  BY <1>4
<1>7. n * stepMs \in Nat /\ n * stepMs <= width
  <2> HIDE DEF width
  <2>1. QED
    BY <1>4, <1>6, MultiplesFit
<1>8. startMs <= currentTime' /\ currentTime' <= endMs /\ currentTime' \in Nat
  BY <1>4, <1>5, <1>7
<1>9. PlayheadInWindow'
  BY <1>2, <1>8 DEF PlayheadInWindow
<1>10. PlayheadOK'
  BY <1>1, <1>3, <1>8, <1>9 DEF PlayheadOK
<1>11. QED
  BY <1>2, <1>10 DEF PageInv

\* An answer of /risk/history, and a tick that is persisted.
LEMMA ServerKeeps ==
  ASSUME ScenarioReplayAssumption, PageInv, NEW z \in zoneIds, RiskHistoryArrives(z) \/ Persist(z)
  PROVE  PageInv'
<1>1. StoredOK /\ PlayheadOK
  BY DEF PageInv
<1>2. UNCHANGED <<route, scenarioCache, playhead>>
  BY DEF RiskHistoryArrives, Persist
<1>3. scenario' = scenario /\ startMs' = startMs /\ endMs' = endMs
  BY <1>2 DEF scenario, startMs, endMs
<1>4. PlayheadInWindow'
  BY <1>1, <1>2, <1>3 DEF playhead, PlayheadOK, PlayheadInWindow
<1>5. PlayheadOK'
  BY <1>1, <1>2, <1>4 DEF playhead, PlayheadOK
<1>6. CASE RiskHistoryArrives(z)
  <2>1. persisted' = persisted /\ history' = [history EXCEPT ![z] = getRiskHistory(persisted[z])]
    BY <1>6 DEF RiskHistoryArrives
  <2>2. getRiskHistory(persisted[z]) \subseteq persisted[z]
    BY DEF getRiskHistory
  <2>3. StoredOK'
    BY <2>1, <2>2, <1>1, <1>2 DEF StoredOK
  <2>4. QED
    BY <2>3, <1>5 DEF PageInv
<1>7. CASE Persist(z)
  <2>1. PICK t \in Stamps[z] \ persisted[z] : persisted' = [persisted EXCEPT ![z] = @ \cup {t}]
    BY <1>7 DEF Persist
  <2>2. history' = history
    BY <1>7 DEF Persist
  <2>3. IsFiniteSet(persisted[z] \cup {t})
    BY <1>1, FS_AddElement DEF StoredOK
  <2>4. persisted' = [k \in zoneIds |-> IF k = z THEN persisted[z] \cup {t} ELSE persisted[k]]
    BY <2>1, <1>1 DEF StoredOK
  <2>5. \A k \in zoneIds : /\ IsFiniteSet(persisted'[k]) /\ persisted'[k] \subseteq Stamps[k]
                         /\ persisted[k] \subseteq persisted'[k]
    BY <2>3, <2>4, <1>1 DEF StoredOK
  <2>6. persisted' = [k \in zoneIds |-> persisted'[k]]
    BY <2>4
  <2>7. StoredOK'
    BY <2>2, <2>5, <2>6, <1>1, <1>2 DEF StoredOK
  <2>8. QED
    BY <2>7, <1>5 DEF PageInv
<1>8. QED
  BY <1>6, <1>7

\* Before the first navigation.
LEMMA InitPageInv ==
  ASSUME ScenarioReplayAssumption, PageInit
  PROVE  PageInv
<1>1. StoredOK
  BY FS_EmptySet DEF PageInit, StoredOK
<1>2. scenario = NoScenario
  BY DEF PageInit, scenario, useScenario
<1>3. PlayheadOK
  BY <1>2 DEF PageInit, PlayheadOK, PlayheadInWindow, ScenarioReplayAssumption
<1>4. QED
  BY <1>1, <1>3 DEF PageInv

\* Every step of the page and of the server keeps it.
LEMMA PageStep ==
  ASSUME ScenarioReplayAssumption, PageInv, [PageNext]_pageVars
  PROVE  PageInv'
<1>1. CASE UserNavigates
  <2>1. PICK r : navigate(r)
    BY <1>1 DEF UserNavigates
  <2>2. UNCHANGED <<scenarioCache, persisted, history>>
    BY <1>1 DEF UserNavigates
  <2>3. QED
    BY <2>1, <2>2, NavigateKeeps
<1>2. CASE ReplayServer
  <2>1. PICK z \in zoneIds : RiskHistoryArrives(z) \/ Persist(z)
    BY <1>2 DEF ReplayServer
  <2>2. QED
    BY <2>1, ServerKeeps
<1>3. CASE UNCHANGED pageVars
  <2>1. UNCHANGED <<route, scenarioCache, persisted, history, currentTime, replayPlaying, replaySpeed>>
    BY <1>3 DEF pageVars, playhead
  <2>2. StoredOK' /\ scenario' = scenario /\ startMs' = startMs /\ endMs' = endMs
    BY <2>1, WindowStays
  <2>3. PlayheadOK'
    BY <2>1, <2>2 DEF PageInv, PlayheadOK, PlayheadInWindow
  <2>4. QED
    BY <2>2, <2>3 DEF PageInv
<1>4. QED
  BY <1>1, <1>2, <1>3, ScenarioArrivesKeeps, TickKeeps, ControlsKeep, SliderKeeps DEF PageNext

\* The invariant says what the page's type is.
LEMMA PageIsTyped ==
  ASSUME PageInv
  PROVE  PageTypeOK /\ PlayheadInWindow
BY DEF PageInv, StoredOK, PlayheadOK, PageTypeOK

\* The limit of /risk/history hides old assessments, never one in place of a newer.
LEMMA LimitHidesTheOldest ==
  ASSUME NEW P, IsFiniteSet(P), P \subseteq Nat, REPLAY_HISTORY_LIMIT \in Nat,
         NEW t \in P, NEW s \in getRiskHistory(P), t \notin getRiskHistory(P)
  PROVE  t <= s
<1> DEFINE newer(x) == {u \in P : u > x}
<1>1. s \in P /\ Cardinality(newer(s)) < REPLAY_HISTORY_LIMIT
  BY DEF getRiskHistory
<1>2. ~(Cardinality(newer(t)) < REPLAY_HISTORY_LIMIT)
  BY DEF getRiskHistory
<1>3. SUFFICES ASSUME s < t PROVE FALSE
  BY <1>1
<1>4. newer(t) \subseteq newer(s) /\ newer(s) \subseteq P
  <2> SUFFICES ASSUME NEW u \in P, u > t PROVE u > s
    OBVIOUS
  <2>1. u \in Nat /\ t \in Nat /\ s \in Nat
    BY <1>1
  <2>2. QED
    BY <2>1, <1>3
<1> HIDE DEF newer
<1>5. IsFiniteSet(newer(s)) /\ IsFiniteSet(newer(t))
  BY <1>4, FS_Subset
<1>6. Cardinality(newer(t)) <= Cardinality(newer(s)) /\ Cardinality(newer(s)) \in Nat /\ Cardinality(newer(t)) \in Nat
  BY <1>4, <1>5, FS_Subset, FS_CardinalityType
<1>7. QED
  BY <1>1, <1>2, <1>6

\* What the cards show.
LEMMA CardsShowTheNewest ==
  ASSUME ScenarioReplayAssumption, PageInv
  PROVE  ShownIsNewest
<1> SUFFICES ASSUME NEW z \in zoneIds, scenario # NoScenario, history[z] = getRiskHistory(persisted[z]),
                    NEW t \in persisted[z], startMs <= t, t <= currentTime
             PROVE  \/ \E s \in Cards[z] : t <= s
                    \/ Cards[z] = {} /\ Cardinality({u \in persisted[z] : u > t}) >= REPLAY_HISTORY_LIMIT
  BY DEF ShownIsNewest
<1> DEFINE P == persisted[z]
           before == {u \in inWindow(z) : u <= currentTime}
<1>1. scenarioCache \subseteq Keys /\ IsFiniteSet(P) /\ P \subseteq Nat /\ REPLAY_HISTORY_LIMIT \in Nat
  BY DEF PageInv, StoredOK, ScenarioReplayAssumption
<1>2. startMs \in Nat /\ endMs \in Nat
  BY <1>1, WindowFacts
<1>3. startMs <= currentTime /\ currentTime <= endMs /\ currentTime \in Nat /\ currentTime # Null
  BY <1>2 DEF PageInv, PlayheadOK, PlayheadInWindow, Null
<1>4. Cards[z] = {u \in before : \A v \in before : v <= u}
  BY <1>3 DEF Cards, atCursor, newestAtOrBefore
<1>5. before \subseteq getRiskHistory(P) /\ getRiskHistory(P) \subseteq P
  BY DEF inWindow, getRiskHistory
<1>6. t \in getRiskHistory(P) => t \in before
  <2>1. t \in Nat /\ t <= endMs
    BY <1>1, <1>2, <1>3
  <2>2. QED
    BY <2>1 DEF inWindow
<1>7. before \subseteq 0 .. currentTime
  BY <1>1, <1>3, <1>5
<1>8. CASE before # {}
  <2>1. PICK s \in before : \A v \in before : v <= s
    <3> HIDE DEF before
    <3>1. QED
      BY <1>3, <1>7, <1>8, GreatestOf
  <2>2. s \in Cards[z]
    BY <2>1, <1>4
  <2>3. CASE t \in getRiskHistory(P)
    BY <2>1, <2>2, <2>3, <1>6
  <2>4. CASE t \notin getRiskHistory(P)
    <3>1. t <= s
      <4> HIDE DEF before
      <4>1. QED
        BY <2>1, <2>4, <1>1, <1>5, LimitHidesTheOldest
    <3>2. QED
      BY <3>1, <2>2
  <2>5. QED
    BY <2>3, <2>4
<1>9. CASE before = {}
  <2>1. Cards[z] = {}
    BY <1>4, <1>9
  <2>2. t \notin getRiskHistory(P)
    BY <1>6, <1>9
  <2>3. ~(Cardinality({u \in P : u > t}) < REPLAY_HISTORY_LIMIT)
    BY <2>2 DEF getRiskHistory
  <2>4. Cardinality({u \in P : u > t}) \in Nat
    <3>1. {u \in P : u > t} \subseteq P
      OBVIOUS
    <3>2. QED
      BY <3>1, <1>1, FS_Subset, FS_CardinalityType
  <2>5. QED
    BY <2>1, <2>3, <2>4, <1>1
<1>10. QED
  BY <1>8, <1>9

\* ScenarioReplayPage, for any catalogue, zones, assessments, limit and speeds: the
\* playhead of the scenario that is shown lies in its window, whichever scenario the
\* page came from, and each card shows the newest persisted assessment at the
\* playhead: the limit of the history request may hide old ones, it never shows one
\* in place of a newer one.
THEOREM PageShowsWhatIsPersisted ==
  ASSUME ScenarioReplayAssumption
  PROVE  PageSpec => []PageShowsItsWindow
<1>1. PageInit => PageInv
  BY InitPageInv
<1>2. PageInv /\ [PageNext]_pageVars => PageInv'
  BY PageStep
<1>3. PageInv => PageShowsItsWindow
  BY PageIsTyped, CardsShowTheNewest DEF PageShowsItsWindow
<1>4. QED
  BY <1>1, <1>2, <1>3, PTL DEF PageSpec

-----------------------------------------------------------------------------
(* The moment and the pages of the demo. *)

Stampings == UNION Range(Stamps)
Moments == {NoMoment} \cup (zoneIds \X Stampings)

\* What the search looks through.
LEMMA PairFacts ==
  ASSUME ScenarioReplayAssumption, DemoAssumption, StoredOK
  PROVE  /\ tickPairs \subseteq zoneIds \X Stampings
         /\ \A m \in tickPairs : /\ m[1] \in Nat /\ m[2] \in Nat
                                 /\ m[2] <= Window[FLAGSHIP_SCENARIO_KEY].end
                                 /\ ScoreAt[m[1]][m[2]] \in 0 .. 100
<1>1. tickPairs \subseteq zoneIds \X Stampings
  BY DEF tickPairs, Stampings
<1>2. ASSUME NEW m \in tickPairs
      PROVE  /\ m[1] \in Nat /\ m[2] \in Nat
             /\ m[2] <= Window[FLAGSHIP_SCENARIO_KEY].end
             /\ ScoreAt[m[1]][m[2]] \in 0 .. 100
  <2>1. m[1] \in zoneIds /\ m[2] \in getRiskHistory(persisted[m[1]]) /\ m[2] <= Window[FLAGSHIP_SCENARIO_KEY].end
    BY DEF tickPairs
  <2>2. m[2] \in Stamps[m[1]] /\ Stamps[m[1]] \subseteq Nat
    BY <2>1 DEF getRiskHistory, StoredOK, ScenarioReplayAssumption
  <2>3. QED
    BY <2>1, <2>2 DEF DemoAssumption
<1>3. QED
  BY <1>1, <1>2

\* The first of the moments with the highest score.
IsFirstHighest(m, pool) ==
    \A n \in pool \ {m} :
        \/ ScoreAt[n[1]][n[2]] < ScoreAt[m[1]][m[2]]
        \/ /\ ScoreAt[n[1]][n[2]] = ScoreAt[m[1]][m[2]]
           /\ m[1] < n[1] \/ (m[1] = n[1] /\ m[2] > n[2])

\* Among moments there is one.
LEMMA FirstHighest ==
  ASSUME NEW pool, pool # {}, NEW Z, NEW T, pool \subseteq Z \X T, NEW end \in Nat,
         \A m \in pool : m[1] \in Nat /\ m[2] \in Nat /\ m[2] <= end /\ ScoreAt[m[1]][m[2]] \in 0 .. 100
  PROVE  \E m \in pool : IsFirstHighest(m, pool)
<1> DEFINE sc(m) == ScoreAt[m[1]][m[2]]
           scores == {sc(m) : m \in pool}
           highest == {m \in pool : \A n \in pool : sc(n) <= sc(m)}
           places == {m[1] : m \in highest}
           first == {m \in highest : \A n \in highest : m[1] <= n[1]}
           instants == {m[2] : m \in first}
<1>1. highest # {}
  <2>1. scores # {} /\ scores \subseteq 0 .. 100 /\ 100 \in Nat
    OBVIOUS
  <2> HIDE DEF scores
  <2>2. PICK b \in Nat : b = 100
    OBVIOUS
  <2>3. scores \subseteq 0 .. b
    BY <2>1, <2>2
  <2>4. \E s \in scores : \A k \in scores : k <= s
    BY <2>1, <2>3, GreatestOf
  <2>5. QED
    BY <2>4 DEF scores
<1>2. first # {}
  <2>1. places # {} /\ places \subseteq Nat
    BY <1>1
  <2> HIDE DEF places
  <2>2. \E s \in places : \A k \in places : s <= k
    BY <2>1, LeastOf
  <2>3. QED
    BY <2>2 DEF places
<1>3. \E m \in first : \A n \in first : n[2] <= m[2]
  <2>1. instants # {} /\ instants \subseteq 0 .. end
    BY <1>2
  <2> HIDE DEF instants
  <2>2. \E s \in instants : \A k \in instants : k <= s
    BY <2>1, GreatestOf
  <2>3. QED
    BY <2>2 DEF instants
<1>4. PICK m \in first : \A n \in first : n[2] <= m[2]
  BY <1>3
<1>5. m \in highest /\ m \in pool /\ m = <<m[1], m[2]>>
  BY <1>4
<1>6. ASSUME NEW n \in pool \ {m}
      PROVE  \/ sc(n) < sc(m)
             \/ sc(n) = sc(m) /\ (m[1] < n[1] \/ (m[1] = n[1] /\ m[2] > n[2]))
  <2>1. sc(n) <= sc(m) /\ sc(n) \in Nat /\ sc(m) \in Nat /\ n = <<n[1], n[2]>>
    BY <1>5
  <2>2. CASE sc(n) < sc(m)
    BY <2>2
  <2>3. CASE sc(n) = sc(m)
    <3>1. n \in highest
      BY <2>3, <1>5
    <3>2. m[1] <= n[1] /\ m[1] \in Nat /\ n[1] \in Nat /\ m[2] \in Nat /\ n[2] \in Nat
      BY <3>1, <1>4, <1>5
    <3>3. CASE m[1] = n[1]
      <4>1. n \in first
        BY <3>1, <3>3, <1>4
      <4>2. n[2] <= m[2] /\ n[2] # m[2]
        BY <4>1, <3>3, <2>1, <1>4, <1>5
      <4> HIDE DEF sc, first, highest
      <4>3. m[2] > n[2]
        BY <4>2, <3>2
      <4>4. QED
        BY <4>3, <3>3, <2>3
    <3>4. QED
      BY <3>2, <3>3, <2>3
  <2>4. QED
    BY <2>1, <2>2, <2>3
<1>7. QED
  BY <1>5, <1>6 DEF IsFirstHighest

\* The search finds a moment of the plant, or none.
LEMMA MomentIsFound ==
  ASSUME ScenarioReplayAssumption, DemoAssumption, StoredOK
  PROVE  findScenarioKeyMoment \in Moments
<1> DEFINE pool == IF misses(tickPairs) # {} THEN misses(tickPairs) ELSE tickPairs
<1>1. CASE tickPairs = {}
  BY <1>1 DEF findScenarioKeyMoment, pickComparisonMoment, Moments
<1>2. CASE tickPairs # {}
  <2>1. pool # {} /\ pool \subseteq tickPairs
    BY <1>2 DEF misses
  <2>2. findScenarioKeyMoment = CHOOSE m \in pool : IsFirstHighest(m, pool)
    BY <1>2 DEF findScenarioKeyMoment, pickComparisonMoment, IsFirstHighest
  <2>3. Window[FLAGSHIP_SCENARIO_KEY].end \in Nat
    BY DEF ScenarioReplayAssumption, DemoAssumption
  <2>4. /\ pool \subseteq zoneIds \X Stampings
        /\ \A m \in pool : /\ m[1] \in Nat /\ m[2] \in Nat
                           /\ m[2] <= Window[FLAGSHIP_SCENARIO_KEY].end /\ ScoreAt[m[1]][m[2]] \in 0 .. 100
    BY <2>1, PairFacts
  <2>5. \E m \in pool : IsFirstHighest(m, pool)
    <3> HIDE DEF pool
    <3>1. QED
      BY <2>1, <2>3, <2>4, FirstHighest
  <2>6. findScenarioKeyMoment \in pool
    <3> HIDE DEF pool
    <3>1. QED
      BY <2>2, <2>5, Zenon
  <2>7. QED
    BY <2>4, <2>6 DEF Moments
<1>3. QED
  BY <1>1, <1>2

PagesOfSteps == ReplayRoutes \cup {PageOf(page, m) : page \in {"explain", "research", "counterfactual", "executive"}, m \in Moments}

\* The list of a demo: two pages, or five.
LEMMA PathFacts ==
  ASSUME DemoAssumption, NEW path \in DemoPaths
  PROVE  path \in Seq(PagesOfSteps) /\ (Len(path) = 2 \/ Len(path) = 5) /\ path # <<>>
<1>1. PICK m \in Moments : path = builtSteps(m)
  BY DEF DemoPaths, Moments, Stampings
<1> DEFINE a == ReplayRoute(FLAGSHIP_SCENARIO_KEY, TRUE)
           b == PageOf("explain", m)
           c == PageOf("research", m)
           d == PageOf("counterfactual", m)
           e == PageOf("executive", NoMoment)
<1>2. b \in PagesOfSteps /\ c \in PagesOfSteps /\ d \in PagesOfSteps
  BY <1>1 DEF PagesOfSteps
<1>3. a \in PagesOfSteps /\ e \in PagesOfSteps
  <2>1. \A k \in Keys, p \in BOOLEAN : ReplayRoute(k, p) \in PagesOfSteps
    BY DEF ReplayRoutes, PagesOfSteps
  <2>2. FLAGSHIP_SCENARIO_KEY \in Keys /\ TRUE \in BOOLEAN
    BY DEF DemoAssumption
  <2>3. a \in PagesOfSteps
    BY <2>1, <2>2, Zenon
  <2>4. NoMoment \in Moments
    BY DEF Moments
  <2>5. e \in PagesOfSteps
    BY <2>4 DEF PagesOfSteps
  <2>6. QED
    BY <2>3, <2>5
<1> DEFINE middle == IF m = NoMoment THEN <<>> ELSE <<b, c, d>>
<1>4. path = <<a>> \o middle \o <<e>>
  BY <1>1 DEF builtSteps
<1>5. middle \in Seq(PagesOfSteps) /\ Len(middle) \in {0, 3}
  <2> HIDE DEF b, c, d
  <2>1. QED
    BY <1>2
<1> HIDE DEF a, e, middle
<1> DEFINE open == <<a>>
           end == <<e>>
           front == open \o middle
<1>6. open \in Seq(PagesOfSteps) /\ end \in Seq(PagesOfSteps) /\ Len(open) = 1 /\ Len(end) = 1
  BY <1>3
<1>7. path = front \o end
  BY <1>4
<1> HIDE DEF open, end
<1>8. front \in Seq(PagesOfSteps) /\ Len(front) = Len(open) + Len(middle)
  BY <1>5, <1>6, ConcatProperties
<1> HIDE DEF front
<1>9. path \in Seq(PagesOfSteps) /\ Len(path) = Len(front) + Len(end)
  BY <1>6, <1>7, <1>8, ConcatProperties
<1>10. Len(path) \in {2, 5}
  <2>1. Len(front) = 1 + Len(middle)
    BY <1>6, <1>8
  <2>2. Len(path) = Len(front) + 1
    BY <1>6, <1>9
  <2>3. CASE Len(middle) = 0
    <3>1. Len(front) = 1
      BY <2>1, <2>3
    <3>2. Len(path) = 2
      BY <2>2, <3>1
    <3>3. QED
      BY <3>2
  <2>4. CASE Len(middle) = 3
    <3>1. Len(front) = 4
      BY <2>1, <2>4
    <3>2. Len(path) = 5
      BY <2>2, <3>1
    <3>3. QED
      BY <3>2
  <2>5. QED
    BY <1>5, <2>3, <2>4
<1>11. Len(path) = 2 \/ Len(path) = 5
  BY <1>10
<1>12. path # <<>>
  BY <1>9, <1>11
<1>13. QED
  BY <1>9, <1>11, <1>12

\* A place on a list of two, or of five.
LEMMA PlaceOnList ==
  ASSUME NEW i \in Nat, NEW n, n = 2 \/ n = 5, ~(i >= n)
  PROVE  i < n /\ i + 1 \in 1 .. n /\ i \in 0 .. 4
OBVIOUS

\* The last of a sequence with one more.
LEMMA LastOfAppend ==
  ASSUME NEW S, NEW q \in Seq(S), NEW x \in S
  PROVE  Append(q, x) \in Seq(S) /\ Append(q, x) # <<>> /\ Append(q, x)[Len(Append(q, x))] = x
OBVIOUS

\* The pages visited, and the next of the list.
LEMMA NextOfPrefix ==
  ASSUME NEW S, NEW path \in Seq(S), NEW n \in 0 .. Len(path) - 1
  PROVE  /\ SubSeq(path, 1, n) \in Seq(S) /\ Len(SubSeq(path, 1, n)) = n
         /\ Append(SubSeq(path, 1, n), path[n + 1]) = SubSeq(path, 1, n + 1)
<1>1. Len(path) \in Nat /\ n \in Nat /\ n + 1 \in 1 .. Len(path)
  OBVIOUS
<1>2. SubSeq(path, 1, n) \in Seq(S) /\ Len(SubSeq(path, 1, n)) = n
  BY <1>1
<1>3. SubSeq(path, 1, n + 1) \in Seq(S) /\ Len(SubSeq(path, 1, n + 1)) = n + 1
  BY <1>1
<1>4. Append(SubSeq(path, 1, n), path[n + 1]) = SubSeq(path, 1, n + 1)
  BY <1>1, <1>2, <1>3
<1>5. QED
  BY <1>2, <1>4

-----------------------------------------------------------------------------
(* The demo. *)

Going == demoActive /\ steps # <<>>

\* A demo that is not shown is at its start; one that is shown is preparing, or on
\* the page of its step.
FlagsOK == demoActive \in BOOLEAN /\ loading \in BOOLEAN /\ armed \in BOOLEAN

StepOK ==
    /\ FlagsOK
    /\ stepIndex \in 0 .. 4
    /\ steps = <<>> \/ steps \in DemoPaths
    /\ visited \in Seq(PagesOfSteps)
    /\ armed <=> Going
    /\ ~demoActive => ~loading /\ stepIndex = 0
    /\ demoActive /\ ~Going => loading /\ stepIndex = 0 /\ visited = <<>>
    /\ Going => stepIndex < Len(steps) /\ visited # <<>> /\ visited[Len(visited)] = steps[stepIndex + 1]

CountsOK == pending \in Nat /\ starts \in Nat /\ pending <= starts /\ starts <= MaxStarts

VisitedIsPrefix == \E path \in DemoPaths : \E n \in 0 .. Len(path) : visited = SubSeq(path, 1, n)

\* A start that nothing of an earlier one disturbs has one search, and visits its
\* list from the first page on.
AloneOK ==
    /\ alone \in BOOLEAN
    /\ alone =>
          /\ pending \in {0, 1}
          /\ demoActive /\ ~Going => pending = 1
          /\ Going => pending = 0 /\ visited = SubSeq(steps, 1, stepIndex + 1)
          /\ ~demoActive /\ pending = 1 => visited = <<>> /\ steps = <<>>
          /\ VisitedIsPrefix

DemoInv == PageInv /\ StepOK /\ CountsOK /\ AloneOK

\* What an assignment of the demo's state and its effect lead to: the demo stops,
\* is left as it is, or goes to the page of its step.
LEMMA EffectIs ==
  ASSUME NEW a, NEW l, NEW i, NEW s, NEW trail, Effect(a, l, i, s, trail)
  PROVE  \/ /\ a /\ s # <<>> /\ i >= Len(s)
            /\ stopDemo /\ visited' = trail
         \/ /\ ~(a /\ s # <<>>)
            /\ demoActive' = a /\ loading' = l /\ stepIndex' = i /\ steps' = s
            /\ armed' = FALSE /\ visited' = trail
         \/ /\ a /\ s # <<>> /\ ~(i >= Len(s))
            /\ demoActive' = a /\ loading' = l /\ stepIndex' = i /\ steps' = s
            /\ armed' = TRUE /\ visited' = Append(trail, s[i + 1])
BY DEF Effect

\* A demo that has a list goes to a page of it; one that is not shown goes nowhere.
LEMMA EffectGoes ==
  ASSUME NEW a, a, NEW l, NEW i, NEW s, s # <<>>, ~(i >= Len(s)), NEW trail, Effect(a, l, i, s, trail)
  PROVE  demoActive' = a /\ stepIndex' = i /\ steps' = s /\ visited' = Append(trail, s[i + 1])
BY DEF Effect

LEMMA EffectIdles ==
  ASSUME NEW a, ~a, NEW l, NEW i, NEW s, NEW trail, Effect(a, l, i, s, trail)
  PROVE  demoActive' = a /\ stepIndex' = i /\ steps' = s /\ visited' = trail
BY DEF Effect

\* Whatever it is, the page stays legal.
LEMMA EffectKeepsPage ==
  ASSUME ScenarioReplayAssumption, PageInv, RestOfPage,
         NEW a, NEW l, NEW i, NEW s, NEW trail, Effect(a, l, i, s, trail)
  PROVE  PageInv'
<1>1. UNCHANGED <<scenarioCache, persisted, history>>
  BY DEF RestOfPage
<1>2. navigate(s[i + 1]) \/ UNCHANGED <<route, playhead>>
  BY DEF Effect
<1>3. CASE UNCHANGED <<route, playhead>>
  <2>1. StoredOK' /\ scenario' = scenario /\ startMs' = startMs /\ endMs' = endMs
    BY <1>1, <1>3, WindowStays
  <2>2. PlayheadOK'
    BY <2>1, <1>3 DEF PageInv, PlayheadOK, PlayheadInWindow, playhead
  <2>3. QED
    BY <2>1, <2>2 DEF PageInv
<1>4. QED
  BY <1>1, <1>2, <1>3, NavigateKeeps

\* ... and the step is the one of its list.
LEMMA EffectKeepsStep ==
  ASSUME DemoAssumption,
         NEW a \in BOOLEAN, NEW l \in BOOLEAN, NEW i \in Nat, NEW s, s = <<>> \/ s \in DemoPaths,
         NEW trail \in Seq(PagesOfSteps),
         a /\ s = <<>> => l /\ i = 0 /\ trail = <<>>,
         ~a => ~l /\ i = 0,
         Effect(a, l, i, s, trail)
  PROVE  StepOK'
<1>1. CASE stopDemo /\ visited' = trail
  <2>1. demoActive' = FALSE /\ loading' = FALSE /\ stepIndex' = 0 /\ steps' = <<>> /\ armed' = FALSE
    BY <1>1 DEF stopDemo
  <2>2. FlagsOK' /\ ~Going'
    BY <2>1, Zenon DEF FlagsOK, Going
  <2>3. QED
    BY <2>1, <2>2, <1>1 DEF StepOK
<1>2. CASE /\ ~(a /\ s # <<>>)
           /\ demoActive' = a /\ loading' = l /\ stepIndex' = i /\ steps' = s
           /\ armed' = FALSE /\ visited' = trail
  <2>1. i = 0
    BY <1>2
  <2>2. FlagsOK' /\ ~Going' /\ ~armed'
    BY <1>2, Zenon DEF FlagsOK, Going
  <2>3. stepIndex' \in 0 .. 4
    BY <2>1, <1>2
  <2>4. QED
    BY <2>1, <2>2, <2>3, <1>2 DEF StepOK
<1>3. CASE /\ a /\ s # <<>> /\ ~(i >= Len(s))
           /\ demoActive' = a /\ loading' = l /\ stepIndex' = i /\ steps' = s
           /\ armed' = TRUE /\ visited' = Append(trail, s[i + 1])
  <2>1. s \in DemoPaths /\ s \in Seq(PagesOfSteps) /\ (Len(s) = 2 \/ Len(s) = 5)
    BY <1>3, PathFacts
  <2>2. i < Len(s) /\ i + 1 \in 1 .. Len(s) /\ i \in 0 .. 4
    <3>1. ~(i >= Len(s))
      BY <1>3
    <3>2. Len(s) = 2 \/ Len(s) = 5
      BY <2>1
    <3>3. QED
      BY <3>1, <3>2, PlaceOnList
  <2>3. s[i + 1] \in PagesOfSteps
    BY <2>1, <2>2
  <2> DEFINE v == Append(trail, s[i + 1])
  <2>4. v \in Seq(PagesOfSteps) /\ v # <<>> /\ v[Len(v)] = s[i + 1]
    BY <2>3, LastOfAppend
  <2>5. visited' = v
    BY <1>3
  <2> HIDE DEF v
  <2>6. FlagsOK' /\ Going' /\ armed'
    BY <1>3, Zenon DEF FlagsOK, Going
  <2>7. stepIndex' < Len(steps') /\ visited'[Len(visited')] = steps'[stepIndex' + 1]
    BY <1>3, <2>2, <2>4, <2>5
  <2>8. QED
    BY <1>3, <2>1, <2>2, <2>4, <2>5, <2>6, <2>7 DEF StepOK, Going
<1>4. QED
  BY <1>1, <1>2, <1>3, EffectIs

\* A list that is gone through from its first page.
LEMMA FirstOfList ==
  ASSUME DemoAssumption, NEW path \in DemoPaths
  PROVE  /\ Append(<<>>, path[1]) = SubSeq(path, 1, 1)
         /\ \A n \in 0 .. Len(path) - 1 : Append(SubSeq(path, 1, n), path[n + 1]) = SubSeq(path, 1, n + 1)
         /\ 0 \in 0 .. Len(path) /\ 1 \in 0 .. Len(path) /\ SubSeq(path, 1, 0) = <<>>
<1>1. path \in Seq(PagesOfSteps) /\ (Len(path) = 2 \/ Len(path) = 5)
  BY PathFacts
<1>2. 0 \in 0 .. Len(path) - 1 /\ 0 \in 0 .. Len(path) /\ 1 \in 0 .. Len(path)
  BY <1>1
<1>3. \A n \in 0 .. Len(path) - 1 : Append(SubSeq(path, 1, n), path[n + 1]) = SubSeq(path, 1, n + 1)
  BY <1>1, NextOfPrefix
<1>4. SubSeq(path, 1, 0) = <<>>
  BY <1>1
<1>5. Append(SubSeq(path, 1, 0), path[0 + 1]) = SubSeq(path, 1, 0 + 1)
  BY <1>2, <1>3
<1>6. QED
  BY <1>2, <1>3, <1>4, <1>5

\* Start Demo.
LEMMA StartKeeps ==
  ASSUME ScenarioReplayAssumption, DemoAssumption, DemoInv, startDemo
  PROVE  DemoInv'
<1>1. /\ ~demoActive /\ ~loading /\ starts < MaxStarts /\ starts' = starts + 1
      /\ pending' = pending + 1
      /\ alone' = (pending = 0 /\ steps = <<>>)
      /\ Effect(TRUE, TRUE, 0, steps, <<>>) /\ RestOfPage
  BY DEF startDemo
<1>2. PageInv'
  BY <1>1, EffectKeepsPage DEF DemoInv
<1>3. steps = <<>> \/ steps \in DemoPaths
  BY DEF DemoInv, StepOK
<1>4. StepOK'
  <2>1. <<>> \in Seq(PagesOfSteps) /\ TRUE \in BOOLEAN /\ 0 \in Nat
    OBVIOUS
  <2>2. QED
    BY <2>1, <1>1, <1>3, EffectKeepsStep
<1>5. CountsOK'
  BY <1>1 DEF DemoInv, CountsOK, DemoAssumption
<1>6. AloneOK'
  <2>1. alone' \in BOOLEAN
    BY <1>1
  <2>2. SUFFICES ASSUME alone' PROVE AloneOK'
    BY <2>1 DEF AloneOK
  <2>3. pending = 0 /\ steps = <<>> /\ pending' = 1
    <3>1. pending = 0 /\ steps = <<>>
      BY <1>1, <2>2, Zenon
    <3>2. QED
      BY <3>1, <1>1
  <2>4. steps' = <<>> /\ visited' = <<>> /\ demoActive'
    BY <1>1, <2>3, EffectIs
  <2>5. VisitedIsPrefix'
    <3>1. builtSteps(NoMoment) \in DemoPaths
      BY DEF DemoPaths
    <3>2. QED
      BY <3>1, <2>4, FirstOfList DEF VisitedIsPrefix
  <2>6. ~Going'
    BY <2>4 DEF Going
  <2>7. QED
    BY <2>1, <2>3, <2>4, <2>5, <2>6 DEF AloneOK
<1>7. QED
  BY <1>2, <1>4, <1>5, <1>6 DEF DemoInv

\* The search answers.
LEMMA SearchKeeps ==
  ASSUME ScenarioReplayAssumption, DemoAssumption, DemoInv, SearchAnswers
  PROVE  DemoInv'
<1>1. PICK moment \in {findScenarioKeyMoment, NoMoment} : Effect(demoActive, FALSE, stepIndex, builtSteps(moment), visited)
  BY DEF SearchAnswers
<1>2. pending > 0 /\ pending' = pending - 1 /\ alone' = alone /\ starts' = starts /\ RestOfPage
  BY DEF SearchAnswers
<1> DEFINE path == builtSteps(moment)
<1>3. path \in DemoPaths
  <2>1. StoredOK
    BY DEF DemoInv, PageInv
  <2>2. moment \in Moments
    BY <1>1, <2>1, MomentIsFound DEF Moments
  <2>3. QED
    BY <2>2 DEF DemoPaths, Moments, Stampings
<1>4. Effect(demoActive, FALSE, stepIndex, path, visited)
  BY <1>1
<1> HIDE DEF path
<1>5. path # <<>> /\ (Len(path) = 2 \/ Len(path) = 5)
  BY <1>3, PathFacts
<1>6. PageInv'
  BY <1>2, <1>4, EffectKeepsPage DEF DemoInv
<1>7. StepOK'
  <2>1. demoActive \in BOOLEAN /\ FALSE \in BOOLEAN /\ stepIndex \in Nat /\ visited \in Seq(PagesOfSteps)
    BY DEF DemoInv, StepOK, FlagsOK
  <2>2. ~demoActive => ~FALSE /\ stepIndex = 0
    BY DEF DemoInv, StepOK
  <2>3. QED
    BY <2>1, <2>2, <1>3, <1>4, <1>5, EffectKeepsStep
<1>8. CountsOK'
  BY <1>2 DEF DemoInv, CountsOK
<1>9. AloneOK'
  <2>1. alone' \in BOOLEAN
    BY <1>2 DEF DemoInv, AloneOK
  <2>2. SUFFICES ASSUME alone PROVE AloneOK'
    BY <2>1, <1>2 DEF AloneOK
  <2>3. pending = 1 /\ pending' = 0
    BY <2>2, <1>2 DEF DemoInv, AloneOK
  <2>4. ~Going /\ visited = <<>> /\ stepIndex = 0
    <3>1. ~Going
      BY <2>2, <2>3 DEF DemoInv, AloneOK
    <3>2. QED
      BY <2>2, <2>3, <3>1 DEF DemoInv, AloneOK, StepOK
  <2>5. CASE demoActive
    <3>1. ~(stepIndex >= Len(path))
      BY <2>4, <1>5
    <3>2. steps' = path /\ demoActive' /\ stepIndex' = 0 /\ visited' = Append(<<>>, path[1])
      <4>1. /\ demoActive' = demoActive /\ stepIndex' = stepIndex /\ steps' = path
            /\ visited' = Append(visited, path[stepIndex + 1])
        BY <2>5, <3>1, <1>4, <1>5, EffectGoes
      <4>2. path[stepIndex + 1] = path[1] /\ visited = <<>> /\ stepIndex = 0
        BY <2>4
      <4>3. QED
        BY <4>1, <4>2, <2>5
    <3>3. visited' = SubSeq(path, 1, 1) /\ 1 \in 0 .. Len(path)
      BY <3>2, <1>3, FirstOfList
    <3>4. VisitedIsPrefix'
      BY <3>3, <1>3 DEF VisitedIsPrefix
    <3>5. visited' = SubSeq(steps', 1, stepIndex' + 1)
      BY <3>2, <3>3
    <3>6. Going'
      BY <3>2, <1>5 DEF Going
    <3>7. QED
      BY <2>1, <2>3, <3>2, <3>4, <3>5, <3>6 DEF AloneOK
  <2>6. CASE ~demoActive
    <3>1. visited' = <<>> /\ demoActive' = demoActive
      BY <2>4, <2>6, <1>4, EffectIdles
    <3>2. VisitedIsPrefix'
      BY <3>1, <1>3, FirstOfList DEF VisitedIsPrefix
    <3>3. ~demoActive' /\ ~Going'
      BY <3>1, <2>6 DEF Going
    <3>4. QED
      BY <2>1, <2>3, <3>2, <3>3 DEF AloneOK
  <2>7. QED
    BY <2>5, <2>6
<1>10. QED
  BY <1>6, <1>7, <1>8, <1>9 DEF DemoInv

\* The step's timer.
LEMMA TimeoutKeeps ==
  ASSUME ScenarioReplayAssumption, DemoAssumption, DemoInv, StepTimeout
  PROVE  DemoInv'
<1>1. /\ armed /\ Effect(demoActive, loading, stepIndex + 1, steps, visited)
      /\ UNCHANGED <<pending, alone, starts>> /\ RestOfPage
  BY DEF StepTimeout
<1>2. PageInv'
  BY <1>1, EffectKeepsPage DEF DemoInv
<1>3. demoActive /\ steps # <<>> /\ steps \in DemoPaths /\ Going
  BY <1>1 DEF DemoInv, StepOK, Going
<1>4. steps \in Seq(PagesOfSteps) /\ Len(steps) \in Nat
  BY <1>3, PathFacts
<1>5. stepIndex \in Nat /\ stepIndex < Len(steps) /\ stepIndex + 1 \in Nat
  BY <1>3 DEF DemoInv, StepOK
<1>6. StepOK'
  <2>1. demoActive \in BOOLEAN /\ loading \in BOOLEAN /\ visited \in Seq(PagesOfSteps)
    BY DEF DemoInv, StepOK, FlagsOK
  <2>2. (demoActive /\ steps = <<>>) = FALSE /\ (~demoActive) = FALSE
    BY <1>3
  <2>3. QED
    BY <2>1, <1>1, <1>3, <1>5, EffectKeepsStep
<1>7. CountsOK'
  BY <1>1 DEF DemoInv, CountsOK
<1>8. AloneOK'
  <2>1. alone' \in BOOLEAN
    BY <1>1 DEF DemoInv, AloneOK
  <2>2. SUFFICES ASSUME alone PROVE AloneOK'
    BY <2>1, <1>1 DEF AloneOK
  <2>3. pending' = 0 /\ visited = SubSeq(steps, 1, stepIndex + 1) /\ VisitedIsPrefix
    BY <2>2, <1>1, <1>3 DEF DemoInv, AloneOK
  <2>4. CASE stepIndex + 1 >= Len(steps)
    <3>1. demoActive' = FALSE /\ visited' = visited
      BY <2>4, <1>1, <1>3 DEF Effect, stopDemo
    <3>2. VisitedIsPrefix'
      BY <2>3, <3>1 DEF VisitedIsPrefix
    <3>3. ~Going' /\ ~demoActive'
      BY <3>1 DEF Going
    <3>4. QED
      BY <2>1, <2>3, <3>2, <3>3 DEF AloneOK
  <2>5. CASE ~(stepIndex + 1 >= Len(steps))
    <3>1. /\ demoActive' = demoActive /\ stepIndex' = stepIndex + 1 /\ steps' = steps
          /\ visited' = Append(visited, steps[stepIndex + 1 + 1])
      BY <2>5, <1>1, <1>3, EffectGoes
    <3>2. stepIndex + 1 \in 0 .. Len(steps) - 1 /\ stepIndex + 1 + 1 \in 0 .. Len(steps)
      BY <2>5, <1>4, <1>5
    <3>3. visited' = SubSeq(steps, 1, stepIndex + 1 + 1)
      BY <2>3, <3>1, <3>2, <1>3, FirstOfList
    <3>4. VisitedIsPrefix'
      BY <3>2, <3>3, <1>3 DEF VisitedIsPrefix
    <3>5. Going' /\ demoActive' /\ visited' = SubSeq(steps', 1, stepIndex' + 1)
      BY <3>1, <3>3, <1>3 DEF Going
    <3>6. QED
      BY <2>1, <2>3, <3>4, <3>5 DEF AloneOK
  <2>6. QED
    BY <2>4, <2>5
<1>9. QED
  BY <1>2, <1>6, <1>7, <1>8 DEF DemoInv

\* Exit Demo.
LEMMA ExitKeeps ==
  ASSUME ScenarioReplayAssumption, DemoAssumption, DemoInv, ExitDemo
  PROVE  DemoInv'
<1>1. /\ demoActive /\ stopDemo
      /\ UNCHANGED <<route, playhead, pending, visited, alone, starts>>
      /\ UNCHANGED <<scenarioCache, persisted, history, events>>
  BY DEF ExitDemo, RestOfPage, ghosts
<1>2. UNCHANGED pageVars
  BY <1>1 DEF pageVars
<1>3. PageInv'
  BY <1>2, PageStep DEF DemoInv
<1>4. demoActive' = FALSE /\ loading' = FALSE /\ stepIndex' = 0 /\ steps' = <<>> /\ armed' = FALSE
  BY <1>1 DEF stopDemo
<1>5. FlagsOK' /\ ~Going' /\ ~demoActive'
  BY <1>4, Zenon DEF FlagsOK, Going
<1>6. StepOK'
  BY <1>1, <1>4, <1>5 DEF DemoInv, StepOK
<1>7. CountsOK'
  BY <1>1 DEF DemoInv, CountsOK
<1>8. AloneOK'
  <2>1. alone' \in BOOLEAN
    BY <1>1 DEF DemoInv, AloneOK
  <2>2. SUFFICES ASSUME alone PROVE AloneOK'
    BY <2>1, <1>1 DEF AloneOK
  <2>3. VisitedIsPrefix'
    BY <2>2, <1>1 DEF DemoInv, AloneOK, VisitedIsPrefix
  <2>4. pending' \in {0, 1} /\ (pending' = 1 => visited' = <<>>)
    <3>1. pending \in {0, 1} /\ (Going => pending = 0) /\ (~Going => visited = <<>>)
      BY <2>2, <1>1 DEF DemoInv, AloneOK, StepOK
    <3>2. QED
      BY <3>1, <1>1
  <2>5. QED
    BY <2>1, <2>3, <2>4, <1>4, <1>5 DEF AloneOK
<1>9. QED
  BY <1>3, <1>6, <1>7, <1>8 DEF DemoInv

\* What leaves the demo alone keeps what is said of it.
LEMMA ElsewhereKeeps ==
  ASSUME ScenarioReplayAssumption, DemoInv, [PageNext]_pageVars, UNCHANGED <<demo, pending, ghosts, starts>>
  PROVE  DemoInv'
<1>1. PageInv'
  BY PageStep DEF DemoInv
<1>2. UNCHANGED <<demoActive, loading, stepIndex, steps, armed, pending, visited, alone, starts>>
  BY DEF demo, ghosts
<1>3. StepOK'
  BY <1>2 DEF DemoInv, StepOK, FlagsOK, Going
<1>4. CountsOK'
  BY <1>2 DEF DemoInv, CountsOK
<1>5. AloneOK'
  BY <1>2 DEF DemoInv, AloneOK, Going, VisitedIsPrefix
<1>6. QED
  BY <1>1, <1>3, <1>4, <1>5 DEF DemoInv

\* Before the first start.
LEMMA InitDemoInv ==
  ASSUME ScenarioReplayAssumption, DemoAssumption, DemoInit
  PROVE  DemoInv
<1>1. /\ PageInit
      /\ demoActive = FALSE /\ loading = FALSE /\ stepIndex = 0 /\ steps = <<>> /\ armed = FALSE
      /\ pending = 0 /\ visited = <<>> /\ alone = TRUE /\ starts = 0
  BY DEF DemoInit
<1>2. PageInv
  BY <1>1, InitPageInv
<1>3. FlagsOK /\ ~Going /\ ~demoActive
  BY <1>1, Zenon DEF FlagsOK, Going
<1>4. visited \in Seq(PagesOfSteps)
  BY <1>1
<1>5. StepOK
  BY <1>1, <1>3, <1>4 DEF StepOK
<1>6. CountsOK
  BY <1>1 DEF CountsOK, DemoAssumption
<1>7. VisitedIsPrefix
  <2>1. builtSteps(NoMoment) \in DemoPaths
    BY DEF DemoPaths
  <2>2. QED
    BY <2>1, <1>1, FirstOfList DEF VisitedIsPrefix
<1>8. AloneOK
  BY <1>1, <1>3, <1>7 DEF AloneOK
<1>9. QED
  BY <1>2, <1>5, <1>6, <1>8 DEF DemoInv

\* Every step of the demo keeps it.
LEMMA DemoStep ==
  ASSUME ScenarioReplayAssumption, DemoAssumption, DemoInv, [DemoNext]_demoVars
  PROVE  DemoInv'
<1>1. CASE Page
  BY <1>1, ElsewhereKeeps DEF Page
<1>2. CASE UNCHANGED demoVars
  BY <1>2, ElsewhereKeeps DEF demoVars
<1>3. QED
  BY <1>1, <1>2, StartKeeps, SearchKeeps, TimeoutKeeps, ExitKeeps DEF DemoNext

\* The invariant says what the demo promises.
LEMMA DemoInvSays ==
  ASSUME DemoAssumption, DemoInv
  PROVE  DemoIsInStep
<1>1. TimerBelongsToStep
  BY DEF DemoInv, StepOK, Going, TimerBelongsToStep
<1>2. BannerNamesThePage
  <2> SUFFICES ASSUME demoActive, ~loading PROVE visited # <<>> /\ Last(visited) = steps[stepIndex + 1]
    BY DEF BannerNamesThePage
  <2>1. Going
    BY DEF DemoInv, StepOK
  <2>2. QED
    BY <2>1 DEF DemoInv, StepOK, Last
<1>3. UndisturbedIsFixed
  <2> SUFFICES ASSUME alone PROVE \E path \in DemoPaths : IsPrefix(visited, path)
    BY DEF UndisturbedIsFixed
  <2>0. PICK path \in DemoPaths : \E n \in 0 .. Len(path) : visited = SubSeq(path, 1, n)
    BY DEF DemoInv, AloneOK, VisitedIsPrefix
  <2>1. PICK n \in 0 .. Len(path) : visited = SubSeq(path, 1, n)
    BY <2>0
  <2>2. path \in Seq(PagesOfSteps) /\ Len(path) \in Nat /\ n \in Nat /\ n <= Len(path)
    BY <2>1, PathFacts
  <2>3. Len(visited) = n
    BY <2>1, <2>2
  <2>4. SubSeq(visited, 1, Len(visited)) = visited
    BY <2>3, <2>2, <2>1
  <2>5. IsPrefix(visited, path)
    BY <2>1, <2>2, <2>3, <2>4 DEF IsPrefix
  <2>6. QED
    BY <2>5
<1>4. DemoTypeOK
  <2>1. PageTypeOK
    BY PageIsTyped DEF DemoInv
  <2>2. {demoActive, loading, armed, alone} \subseteq BOOLEAN
    BY DEF DemoInv, StepOK, FlagsOK, AloneOK
  <2>3. Len(steps) \in {0, 2, 5}
    BY PathFacts DEF DemoInv, StepOK
  <2>4. pending \in 0 .. MaxStarts /\ starts \in 0 .. MaxStarts
    BY DEF DemoInv, CountsOK, DemoAssumption
  <2>5. stepIndex \in 0 .. 4
    BY DEF DemoInv, StepOK
  <2>6. QED
    BY <2>1, <2>2, <2>3, <2>4, <2>5 DEF DemoTypeOK
<1>5. QED
  BY <1>1, <1>2, <1>3, <1>4 DEF DemoIsInStep

\* DemoModeContext, for any catalogue, zones, assessments and number of starts: a
\* demo that was stopped never navigates again, the banner names the page the demo
\* went to last, and with no answer of an earlier start under way it visits the
\* pages of its list in order.  The replay page keeps its promise under the demo.
THEOREM DemoStaysInStep ==
  ASSUME ScenarioReplayAssumption, DemoAssumption
  PROVE  DemoSpec => [](DemoIsInStep /\ PageShowsItsWindow)
<1>1. DemoInit => DemoInv
  BY InitDemoInv
<1>2. DemoInv /\ [DemoNext]_demoVars => DemoInv'
  BY DemoStep
<1>3. DemoInv => DemoIsInStep
  BY DemoInvSays
<1>4. DemoInv => PageShowsItsWindow
  BY PageIsTyped, CardsShowTheNewest DEF DemoInv, PageShowsItsWindow
<1>5. QED
  BY <1>1, <1>2, <1>3, <1>4, PTL DEF DemoSpec
=============================================================================
