------------------------ MODULE OperatorPagesProofs ------------------------
(***************************************************************************)
(* The pages an operator works on without the shared replay, for any       *)
(* catalogue, assessments, zones, actions, plant and files: the sides of a *)
(* comparison stay aligned with one fraction of their own incidents, the   *)
(* cards of the operations center stay those of the zone and the tick they *)
(* name, the scenario builder finds a draft wanting exactly when the       *)
(* backend does, and its edits change what they name.                      *)
(***************************************************************************)
EXTENDS ReplayComparison, OperationsCenter, BuilderForms, BuilderPage,
        WellFoundedInduction, TLAPS

-----------------------------------------------------------------------------
(* Arithmetic of the scrubber. *)

\* Natural numbers below a bound have a greatest.
LEMMA GreatestOf ==
  ASSUME NEW T, T # {}, NEW b \in Nat, T \subseteq 0 .. b
  PROVE  \E m \in T : \A k \in T : k <= m
<1> DEFINE U == {n \in 0 .. b : b - n \in T}
<1>1. U \subseteq Nat
  OBVIOUS
<1>2. U # {}
  <2>1. PICK t : t \in T
    OBVIOUS
  <2>2. b - t \in 0 .. b /\ b - (b - t) = t
    BY <2>1
  <2>3. QED
    BY <2>1, <2>2
<1>3. \E u \in U : \A k \in U : u <= k
  <2>1. \E u \in U : \A k \in U : ~(<<k, u>> \in OpToRel(<, Nat))
    BY <1>1, <1>2, WFMin, NatLessThanWellFounded
  <2>2. PICK u \in U : \A k \in U : ~(<<k, u>> \in OpToRel(<, Nat))
    BY <2>1
  <2>3. \A k \in U : ~(k < u)
    BY <1>1, <2>2 DEF OpToRel
  <2>4. QED
    BY <1>1, <2>3
<1>4. PICK u \in U : \A k \in U : u <= k
  BY <1>3
<1>5. b - u \in T /\ \A k \in T : k <= b - u
  <2> SUFFICES ASSUME NEW k \in T PROVE k <= b - u
    BY <1>4
  <2>1. b - k \in 0 .. b /\ b - (b - k) = k
    OBVIOUS
  <2>2. b - k \in U
    BY <2>1
  <2>3. u <= b - k
    BY <1>4, <2>2
  <2>4. QED
    BY <1>4, <2>1, <2>3
<1>6. QED
  BY <1>5

\* The greatest element is what Max returns.
LEMMA MaxIsGreatest ==
  ASSUME NEW T, T \subseteq Nat, T # {}, NEW b \in Nat, \A k \in T : k <= b
  PROVE  Max(T) \in T /\ \A k \in T : k <= Max(T)
<1>1. T \subseteq 0 .. b
  OBVIOUS
<1>2. \E m \in T : \A k \in T : m >= k
  BY <1>1, GreatestOf
<1>3. Max(T) \in T /\ \A k \in T : Max(T) >= k
  BY <1>2 DEF Max
<1>4. Max(T) \in Nat
  BY <1>3
<1>5. QED
  BY <1>3, <1>4

\* A fraction between 0 and all of it is taken as it is.
LEMMA FractionIsClamped ==
  ASSUME NEW n \in Nat, NEW f \in 0 .. n
  PROVE  Min({n, Max({0, f})}) = f
<1>1. Max({0, f}) = f
  <2>1. \E m \in {0, f} : \A k \in {0, f} : m >= k
    OBVIOUS
  <2>2. Max({0, f}) \in {0, f} /\ \A k \in {0, f} : Max({0, f}) >= k
    BY <2>1 DEF Max
  <2>3. QED
    BY <2>2
<1>2. \E m \in {n, f} : \A k \in {n, f} : m <= k
  OBVIOUS
<1>3. Min({n, f}) \in {n, f} /\ \A k \in {n, f} : Min({n, f}) <= k
  BY <1>2 DEF Min
<1>4. Min({n, f}) = f
  BY <1>3
<1>5. QED
  BY <1>1, <1>4

\* Quotients by the same number grow with what is divided.
LEMMA QuotientsGrow ==
  ASSUME NEW a \in Nat, NEW b \in Nat, a <= b, NEW n \in Nat \ {0}
  PROVE  a \div n \in Nat /\ b \div n \in Nat /\ a \div n <= b \div n
OBVIOUS

\* A multiple is divided without a rest.
LEMMA WholeQuotient ==
  ASSUME NEW d \in Nat, NEW n \in Nat \ {0}
  PROVE  (n * d) \div n = d /\ (0 * d) \div n = 0
OBVIOUS

\* Products grow with a factor.
LEMMA ProductsGrow ==
  ASSUME NEW a \in Nat, NEW b \in Nat, a <= b, NEW d \in Nat
  PROVE  a * d \in Nat /\ b * d \in Nat /\ a * d <= b * d
OBVIOUS

-----------------------------------------------------------------------------
(* The comparison. *)

\* What is known of a listed scenario, whatever the constants are.
LEMMA ScenarioIsListed ==
  ASSUME ComparisonAssumption, NEW i \in DOMAIN Catalogue
  PROVE  /\ Catalogue[i].key \in Keys /\ Scenario(Catalogue[i].key) = Catalogue[i]
         /\ Catalogue[i].key # "" /\ Catalogue[i].zones[1] \in ToSet(Catalogue[i].zones)
         /\ Catalogue[i].start \in Nat /\ Catalogue[i].end \in Nat
         /\ Catalogue[i].start <= Catalogue[i].end
<1>1. Catalogue[i].key \in Keys
  BY DEF Keys
<1>2. Scenario(Catalogue[i].key) = Catalogue[i]
  <2> DEFINE k == Catalogue[i].key
             j == CHOOSE x \in DOMAIN Catalogue : Catalogue[x].key = k
  <2>1. \E x \in DOMAIN Catalogue : Catalogue[x].key = k
    OBVIOUS
  <2>2. j \in DOMAIN Catalogue /\ Catalogue[j].key = k
    BY <2>1
  <2>3. j = i
    <3> HIDE DEF j
    <3>1. QED
      BY <2>2 DEF ComparisonAssumption
  <2>4. QED
    BY <2>3 DEF Scenario
<1>3. Catalogue[i].zones[1] \in ToSet(Catalogue[i].zones)
  <2> DEFINE zs == Catalogue[i].zones
  <2>1. zs # <<>> /\ zs \in Seq(Range(zs))
    BY DEF ComparisonAssumption
  <2> HIDE DEF zs
  <2>2. 1 \in DOMAIN zs
    BY <2>1
  <2>3. zs[1] \in ToSet(zs)
    BY <2>2 DEF ToSet
  <2>4. QED
    BY <2>3 DEF zs
<1>4. Catalogue[i].key # "" /\ Catalogue[i].start \in Nat /\ Catalogue[i].end \in Nat
      /\ Catalogue[i].start <= Catalogue[i].end
  BY DEF ComparisonAssumption
<1>5. QED
  BY <1>1, <1>2, <1>3, <1>4

\* The same of a key.
LEMMA KeyIsOfAScenario ==
  ASSUME ComparisonAssumption, NEW key \in Keys
  PROVE  /\ Scenario(key).zones[1] \in ToSet(Scenario(key).zones) /\ key # ""
         /\ Scenario(key).start \in Nat /\ Scenario(key).end \in Nat
         /\ Scenario(key).start <= Scenario(key).end
<1>1. PICK i \in DOMAIN Catalogue : Catalogue[i].key = key
  BY DEF Keys
<1>2. QED
  BY <1>1, ScenarioIsListed

\* The time a fraction stands for: it grows with the fraction, from the start of the
\* incident to its end.
LEMMA TimesGrow ==
  ASSUME ComparisonAssumption, NEW start \in Nat, NEW end \in Nat, start <= end,
         NEW f \in 0 .. SCRUB_STEPS, NEW g \in 0 .. SCRUB_STEPS, f <= g
  PROVE  /\ timeAtFraction(start, end, f) \in Nat /\ timeAtFraction(start, end, g) \in Nat
         /\ timeAtFraction(start, end, f) <= timeAtFraction(start, end, g)
         /\ timeAtFraction(start, end, 0) = start
         /\ timeAtFraction(start, end, SCRUB_STEPS) = end
<1> DEFINE d == end - start
<1>1. d \in Nat /\ start + d = end /\ start + 0 = start
  OBVIOUS
<1>2. SCRUB_STEPS \in Nat \ {0} /\ f \in Nat /\ g \in Nat
  <2>1. SCRUB_STEPS \in Nat \ {0}
    BY DEF ComparisonAssumption
  <2>2. QED
    BY <2>1
<1>3. /\ timeAtFraction(start, end, f) = start + (f * d) \div SCRUB_STEPS
      /\ timeAtFraction(start, end, g) = start + (g * d) \div SCRUB_STEPS
      /\ timeAtFraction(start, end, 0) = start + (0 * d) \div SCRUB_STEPS
      /\ timeAtFraction(start, end, SCRUB_STEPS) = start + (SCRUB_STEPS * d) \div SCRUB_STEPS
  <2>1. 0 \in 0 .. SCRUB_STEPS /\ SCRUB_STEPS \in 0 .. SCRUB_STEPS
    BY <1>2
  <2>2. \A h \in 0 .. SCRUB_STEPS : timeAtFraction(start, end, h) = start + (h * d) \div SCRUB_STEPS
    <3> SUFFICES ASSUME NEW h \in 0 .. SCRUB_STEPS
                 PROVE  timeAtFraction(start, end, h) = start + (h * d) \div SCRUB_STEPS
      OBVIOUS
    <3>1. Min({SCRUB_STEPS, Max({0, h})}) = h
      BY <1>2, FractionIsClamped
    <3>2. QED
      BY <3>1 DEF timeAtFraction
  <2>3. QED
    BY <2>1, <2>2
<1> HIDE DEF d
<1>4. (0 * d) \div SCRUB_STEPS = 0 /\ (SCRUB_STEPS * d) \div SCRUB_STEPS = d
  BY <1>1, <1>2, WholeQuotient
<1>5. f * d \in Nat /\ g * d \in Nat /\ f * d <= g * d
  BY <1>1, <1>2, ProductsGrow
<1>6. /\ (f * d) \div SCRUB_STEPS \in Nat /\ (g * d) \div SCRUB_STEPS \in Nat
      /\ (f * d) \div SCRUB_STEPS <= (g * d) \div SCRUB_STEPS
  BY <1>2, <1>5, QuotientsGrow
<1>7. QED
  BY <1>1, <1>3, <1>4, <1>6

\* The row at a cursor: one of the rows up to it, the newest, and newer at a later
\* cursor.
LEMMA RowIsTheNewest ==
  ASSUME NEW rows, rows \subseteq Nat, NEW at \in Nat
  PROVE  LET row == assessmentAtOrBefore(rows, at)
         IN  /\ row = None => \A t \in rows : ~(t <= at)
             /\ row # None => row \in rows /\ row <= at /\ \A t \in rows : t <= at => t <= row
<1> DEFINE before == {t \in rows : t <= at}
<1>1. CASE before = {}
  BY <1>1 DEF assessmentAtOrBefore
<1>2. CASE before # {}
  <2>1. assessmentAtOrBefore(rows, at) = Max(before)
    BY <1>2 DEF assessmentAtOrBefore
  <2>2. before \subseteq Nat /\ \A k \in before : k <= at
    OBVIOUS
  <2>3. Max(before) \in before /\ \A k \in before : k <= Max(before)
    <3> HIDE DEF before
    <3>1. QED
      BY <1>2, <2>2, MaxIsGreatest
  <2>4. Max(before) # None
    BY <2>3 DEF None
  <2>5. QED
    BY <2>1, <2>3, <2>4
<1>3. QED
  BY <1>1, <1>2

\* A later cursor has the same row or a newer one.
LEMMA RowsMoveOn ==
  ASSUME NEW rows, rows \subseteq Nat, NEW at \in Nat, NEW next \in Nat, at <= next
  PROVE  assessmentAtOrBefore(rows, next) >= assessmentAtOrBefore(rows, at)
<1> DEFINE r == assessmentAtOrBefore(rows, at)
           n == assessmentAtOrBefore(rows, next)
<1>1. /\ r = None => \A t \in rows : ~(t <= at)
      /\ r # None => r \in rows /\ r <= at /\ \A t \in rows : t <= at => t <= r
  BY RowIsTheNewest
<1>2. /\ n = None => \A t \in rows : ~(t <= next)
      /\ n # None => n \in rows /\ n <= next /\ \A t \in rows : t <= next => t <= n
  BY RowIsTheNewest
<1> HIDE DEF r, n
<1>3. r \in Nat \cup {-1} /\ n \in Nat \cup {-1}
  BY <1>1, <1>2 DEF None
<1>4. CASE r = None
  BY <1>3, <1>4 DEF None, r, n
<1>5. CASE r # None
  <2>1. r \in rows /\ r <= at /\ r \in Nat
    BY <1>1, <1>5
  <2>2. r <= next
    BY <2>1
  <2>3. n # None /\ r <= n
    BY <1>2, <2>1, <2>2
  <2>4. QED
    BY <1>3, <2>1, <2>3 DEF r, n
<1>6. QED
  BY <1>4, <1>5

\* The invariant: what the pickers and the caches hold besides their types, so that a
\* side looks at the rows of a zone that has some.
ComparisonInv ==
    /\ ComparisonTypeOK
    /\ listed \in BOOLEAN
    /\ side = [s \in Sides |-> side[s]]
    /\ kept = [s \in Sides |-> kept[s]]
    /\ \A s \in Sides : kept[s] \in PersistedZones \cup {""}

\* The invariant holds at the start.
LEMMA ComparisonStarts ==
  ASSUME ComparisonAssumption, ComparisonInit
  PROVE  ComparisonInv
<1>1. SCRUB_STEPS \in Nat \ {0} /\ 1 \in SPEED_OPTIONS
  BY DEF ComparisonAssumption
<1>2. listed = FALSE /\ detail = {} /\ answered = {} /\ fraction = 0 /\ playing = FALSE /\ speed = 1
  BY DEF ComparisonInit
<1>3. fraction \in 0 .. SCRUB_STEPS
  BY <1>1, <1>2
<1>4. /\ side = [s \in Sides |-> side[s]] /\ kept = [s \in Sides |-> kept[s]]
      /\ \A s \in Sides : side[s].key = "" /\ kept[s] \in PersistedZones \cup {""}
  BY DEF ComparisonInit
<1>5. QED
  BY <1>1, <1>2, <1>3, <1>4 DEF ComparisonInv, ComparisonTypeOK

\* A picker that moves to a zone of a scenario names a zone of its scenario.
LEMMA MovedKeepsTheRest ==
  ASSUME ComparisonInv, NEW s \in Sides, NEW key \in Keys, NEW zone \in ToSet(Scenario(key).zones),
         Moved(s, key, zone)
  PROVE  /\ side' = [r \in Sides |-> side'[r]]
         /\ kept' = [r \in Sides |-> kept'[r]]
         /\ \A r \in Sides : kept'[r] \in PersistedZones \cup {""}
         /\ \A r \in Sides : side'[r] \in {side[r], [key |-> key, zone |-> zone]}
<1>1. side = [r \in Sides |-> side[r]] /\ kept = [r \in Sides |-> kept[r]]
      /\ \A r \in Sides : kept[r] \in PersistedZones \cup {""}
  BY DEF ComparisonInv
<1>2. answered \subseteq PersistedZones
  BY DEF ComparisonInv, ComparisonTypeOK
<1>3. side' = [r \in Sides |-> IF r = s THEN [key |-> key, zone |-> zone] ELSE side[r]]
  BY <1>1 DEF Moved
<1>4. kept' = [r \in Sides |-> IF r = s THEN (IF zone \in answered THEN zone ELSE kept[s]) ELSE kept[r]]
  BY <1>1 DEF Moved
<1>5. \A r \in Sides : kept'[r] \in PersistedZones \cup {""}
  BY <1>1, <1>2, <1>4
<1>6. QED
  BY <1>3, <1>4, <1>5

\* The first answer of the list names its first scenarios and their first zones.
LEMMA ListNamesScenarios ==
  ASSUME ComparisonAssumption, ListArrives
  PROVE  /\ side' = [s \in Sides |-> side'[s]]
         /\ \A s \in Sides : \E i \in DOMAIN Catalogue :
                side'[s].key = Catalogue[i].key /\ side'[s].zone = Catalogue[i].zones[1]
<1>1. side' = [s \in Sides |->
                  LET sc == IF s = "current" \/ Len(Catalogue) = 1 THEN Catalogue[1] ELSE Catalogue[2]
                  IN  [key |-> sc.key, zone |-> sc.zones[1]]]
  BY DEF ListArrives
<1>2. Catalogue # <<>> /\ Catalogue \in Seq(Range(Catalogue))
  BY DEF ComparisonAssumption
<1>3. Len(Catalogue) \in Nat /\ DOMAIN Catalogue = 1 .. Len(Catalogue) /\ Len(Catalogue) # 0
  BY <1>2
<1>4. 1 \in DOMAIN Catalogue /\ (Len(Catalogue) # 1 => 2 \in DOMAIN Catalogue)
  BY <1>3
<1>5. ASSUME NEW s \in Sides
      PROVE  \E i \in DOMAIN Catalogue :
                 side'[s].key = Catalogue[i].key /\ side'[s].zone = Catalogue[i].zones[1]
  <2>1. CASE s = "current" \/ Len(Catalogue) = 1
    <3>1. side'[s] = [key |-> Catalogue[1].key, zone |-> Catalogue[1].zones[1]]
      BY <1>1, <2>1
    <3>2. QED
      BY <1>4, <3>1
  <2>2. CASE ~(s = "current" \/ Len(Catalogue) = 1)
    <3>1. side'[s] = [key |-> Catalogue[2].key, zone |-> Catalogue[2].zones[1]]
      BY <1>1, <2>2
    <3>2. QED
      BY <1>4, <2>2, <3>1
  <2>3. QED
    BY <2>1, <2>2
<1>6. side' = [s \in Sides |-> side'[s]]
  BY <1>1
<1>7. QED
  BY <1>5, <1>6

\* A step of the playback moves the fraction on, and not beyond its end.
LEMMA FractionMovesOn ==
  ASSUME ComparisonAssumption, ComparisonInv, PlaybackTick
  PROVE  fraction \in 0 .. SCRUB_STEPS /\ fraction' \in 0 .. SCRUB_STEPS /\ fraction <= fraction'
<1>1. SCRUB_STEPS \in Nat \ {0} /\ SPEED_OPTIONS \subseteq Nat \ {0}
  BY DEF ComparisonAssumption
<1>2. fraction \in 0 .. SCRUB_STEPS /\ speed \in SPEED_OPTIONS
  BY DEF ComparisonInv, ComparisonTypeOK
<1>3. fraction \in Nat /\ speed \in Nat /\ fraction <= SCRUB_STEPS
  BY <1>1, <1>2
<1>4. fraction' = IF fraction + speed >= SCRUB_STEPS THEN SCRUB_STEPS ELSE fraction + speed
  BY DEF PlaybackTick
<1>5. QED
  BY <1>1, <1>2, <1>3, <1>4

\* Every step keeps the invariant.
LEMMA ComparisonStepKeeps ==
  ASSUME ComparisonAssumption, ComparisonInv, [ComparisonNext]_comparisonVars
  PROVE  ComparisonInv'
<1>1. CASE ListArrives
  <2>1. listed' = TRUE /\ UNCHANGED <<detail, answered, kept, fraction, playing, speed>>
    BY <1>1 DEF ListArrives
  <2>2. /\ side' = [s \in Sides |-> side'[s]]
        /\ \A s \in Sides : \E i \in DOMAIN Catalogue :
               side'[s].key = Catalogue[i].key /\ side'[s].zone = Catalogue[i].zones[1]
    BY <1>1, ListNamesScenarios
  <2>3. \A s \in Sides : side'[s].key \in Keys /\ side'[s].zone \in ToSet(Scenario(side'[s].key).zones)
    BY <2>2, ScenarioIsListed
  <2>4. QED
    BY <2>1, <2>2, <2>3 DEF ComparisonInv, ComparisonTypeOK
<1>2. CASE ScenarioArrives
  BY <1>2 DEF ScenarioArrives, ComparisonInv, ComparisonTypeOK
<1>3. CASE HistoryArrives
  <2>1. PICK s \in Sides :
          /\ side[s].zone \in PersistedZones \ answered
          /\ answered' = answered \cup {side[s].zone}
          /\ kept' = [r \in Sides |-> IF side[r].zone = side[s].zone THEN side[s].zone ELSE kept[r]]
    BY <1>3 DEF HistoryArrives
  <2>2. UNCHANGED <<listed, side, detail, fraction, playing, speed>>
    BY <1>3 DEF HistoryArrives
  <2>3. \A r \in Sides : kept'[r] \in PersistedZones \cup {""}
    BY <2>1 DEF ComparisonInv
  <2>4. kept' = [r \in Sides |-> kept'[r]] /\ answered' \subseteq PersistedZones
    BY <2>1 DEF ComparisonInv, ComparisonTypeOK
  <2>5. QED
    BY <2>2, <2>3, <2>4 DEF ComparisonInv, ComparisonTypeOK
<1>4. CASE Pick
  <2>1. UNCHANGED <<listed, detail, answered, fraction, playing, speed>> /\ listed
    BY <1>4 DEF Pick
  <2>2. \A s \in Sides : side[s].key \in Keys /\ side[s].zone \in ToSet(Scenario(side[s].key).zones)
    BY <2>1 DEF ComparisonInv, ComparisonTypeOK
  <2>3. PICK s \in Sides :
          \/ \E key \in Keys \ {side[s].key} : onScenarioChange(s, key)
          \/ \E zone \in ToSet(Scenario(side[s].key).zones) \ {side[s].zone} :
                   Moved(s, side[s].key, zone)
    BY <1>4 DEF Pick
  <2>4. \E key \in Keys : \E zone \in ToSet(Scenario(key).zones) : Moved(s, key, zone)
    <3>1. CASE \E key \in Keys \ {side[s].key} : onScenarioChange(s, key)
      <4>1. PICK key \in Keys : onScenarioChange(s, key)
        BY <3>1
      <4>2. Scenario(key).zones[1] \in ToSet(Scenario(key).zones)
        BY KeyIsOfAScenario
      <4>3. Moved(s, key, Scenario(key).zones[1])
        BY <4>1 DEF onScenarioChange
      <4>4. QED
        BY <4>2, <4>3
    <3>2. CASE \E zone \in ToSet(Scenario(side[s].key).zones) \ {side[s].zone} :
                     Moved(s, side[s].key, zone)
      BY <2>2, <3>2
    <3>3. QED
      BY <2>3, <3>1, <3>2
  <2>5. PICK key \in Keys : \E zone \in ToSet(Scenario(key).zones) : Moved(s, key, zone)
    BY <2>4
  <2>6. PICK zone \in ToSet(Scenario(key).zones) : Moved(s, key, zone)
    BY <2>5
  <2>7. /\ side' = [r \in Sides |-> side'[r]]
        /\ kept' = [r \in Sides |-> kept'[r]]
        /\ \A r \in Sides : kept'[r] \in PersistedZones \cup {""}
        /\ \A r \in Sides : side'[r] \in {side[r], [key |-> key, zone |-> zone]}
    <3>1. Moved(s, key, zone) /\ s \in Sides /\ key \in Keys /\ zone \in ToSet(Scenario(key).zones)
      BY <2>6
    <3>2. side' = [r \in Sides |-> side'[r]]
      BY <3>1, MovedKeepsTheRest
    <3>3. kept' = [r \in Sides |-> kept'[r]]
      BY <3>1, MovedKeepsTheRest
    <3>4. \A r \in Sides : kept'[r] \in PersistedZones \cup {""}
      BY <3>1, MovedKeepsTheRest
    <3>5. \A r \in Sides : side'[r] \in {side[r], [key |-> key, zone |-> zone]}
      BY <3>1, MovedKeepsTheRest
    <3>6. QED
      BY <3>2, <3>3, <3>4, <3>5
  <2>8. ASSUME NEW r \in Sides
        PROVE  side'[r].key \in Keys /\ side'[r].zone \in ToSet(Scenario(side'[r].key).zones)
    <3>1. CASE side'[r] = side[r]
      BY <2>2, <3>1
    <3>2. CASE side'[r] = [key |-> key, zone |-> zone]
      <4>1. side'[r].key = key /\ side'[r].zone = zone
        BY <3>2
      <4>2. QED
        BY <4>1
    <3>3. QED
      BY <2>7, <3>1, <3>2
  <2>9. QED
    BY <2>1, <2>7, <2>8 DEF ComparisonInv, ComparisonTypeOK
<1>5. CASE PlayPause
  BY <1>5 DEF PlayPause, ComparisonInv, ComparisonTypeOK
<1>6. CASE Scrub
  BY <1>6 DEF Scrub, ComparisonInv, ComparisonTypeOK
<1>7. CASE SetSpeed
  BY <1>7 DEF SetSpeed, ComparisonInv, ComparisonTypeOK
<1>8. CASE PlaybackTick
  <2>1. fraction' \in 0 .. SCRUB_STEPS
    BY <1>8, FractionMovesOn
  <2>2. playing' \in BOOLEAN
    BY <1>8 DEF PlaybackTick
  <2>3. UNCHANGED <<listed, side, detail, answered, kept, speed>>
    BY <1>8 DEF PlaybackTick
  <2>4. QED
    BY <2>1, <2>2, <2>3 DEF ComparisonInv, ComparisonTypeOK
<1>9. CASE UNCHANGED comparisonVars
  BY <1>9 DEF comparisonVars, ComparisonInv, ComparisonTypeOK
<1>10. QED
  BY <1>1, <1>2, <1>3, <1>4, <1>5, <1>6, <1>7, <1>8, <1>9 DEF ComparisonNext

\* The rows a side looks at, and the incident it is in.
LEMMA SideHasRows ==
  ASSUME ComparisonAssumption, ComparisonInv, NEW s \in Sides, side[s].key \in detail, ShownZone(s) # ""
  PROVE  /\ side[s].key \in Keys /\ ShownZone(s) \in PersistedZones
         /\ History(ShownZone(s)) \subseteq Nat
<1>1. side[s].key \in Keys
  BY DEF ComparisonInv, ComparisonTypeOK
<1>2. answered \subseteq PersistedZones /\ kept[s] \in PersistedZones \cup {""}
  BY DEF ComparisonInv, ComparisonTypeOK
<1>3. ShownZone(s) \in PersistedZones
  BY <1>2 DEF ShownZone
<1>4. Persisted \in [PersistedZones -> SUBSET Nat]
  BY DEF ComparisonAssumption
<1>5. Persisted[ShownZone(s)] \subseteq Nat
  BY <1>3, <1>4
<1>6. QED
  BY <1>1, <1>3, <1>5 DEF History

\* The ends of the scrubber are the ends of either incident.
LEMMA EndsHold ==
  ASSUME ComparisonAssumption, ComparisonInv
  PROVE  EndsAreEnds
<1> SUFFICES ASSUME NEW s \in Sides, side[s].key \in detail, side[s].zone \in answered
             PROVE  LET sc == Scenario(side[s].key)
                        rows == {t \in History(side[s].zone) : sc.start <= t /\ t <= sc.end}
                    IN  /\ rows # {} /\ fraction = SCRUB_STEPS => atCursor(s) = Max(rows)
                        /\ fraction = 0 => atCursor(s) \in {None, sc.start}
  BY DEF EndsAreEnds
<1> DEFINE sc == Scenario(side[s].key)
           rows == {t \in History(side[s].zone) : sc.start <= t /\ t <= sc.end}
           at == timeAtFraction(sc.start, sc.end, fraction)
<1>1. "" \notin PersistedZones /\ answered \subseteq PersistedZones
  BY DEF ComparisonAssumption, ComparisonInv, ComparisonTypeOK
<1>2. ShownZone(s) = side[s].zone /\ ShownZone(s) # ""
  BY <1>1 DEF ShownZone
<1>3. side[s].key \in Keys /\ History(side[s].zone) \subseteq Nat
  BY <1>2, SideHasRows
<1>4. sc.start \in Nat /\ sc.end \in Nat /\ sc.start <= sc.end
  BY <1>3, KeyIsOfAScenario
<1>5. SCRUB_STEPS \in Nat \ {0} /\ fraction \in 0 .. SCRUB_STEPS
  BY DEF ComparisonAssumption, ComparisonInv, ComparisonTypeOK
<1>6. atCursor(s) = assessmentAtOrBefore(rows, at)
  BY <1>2 DEF atCursor
<1>7. /\ timeAtFraction(sc.start, sc.end, 0) = sc.start
      /\ timeAtFraction(sc.start, sc.end, SCRUB_STEPS) = sc.end
      /\ at \in Nat
  BY <1>4, <1>5, TimesGrow
<1>8. rows \subseteq Nat /\ \A t \in rows : sc.start <= t /\ t <= sc.end
  BY <1>3
<1> HIDE DEF sc, rows, at
<1>9. ASSUME rows # {}, fraction = SCRUB_STEPS PROVE atCursor(s) = Max(rows)
  <2>1. at = sc.end
    BY <1>7, <1>9 DEF at
  <2>2. {t \in rows : t <= at} = rows
    BY <1>8, <2>1
  <2>3. QED
    BY <1>6, <1>9, <2>2 DEF assessmentAtOrBefore
<1>10. ASSUME fraction = 0 PROVE atCursor(s) \in {None, sc.start}
  <2>1. at = sc.start
    BY <1>7, <1>10 DEF at
  <2> DEFINE row == assessmentAtOrBefore(rows, at)
  <2>2. row # None => row \in rows /\ row <= at
    BY <1>7, <1>8, RowIsTheNewest
  <2> HIDE DEF row
  <2>3. row # None => row \in Nat /\ sc.start <= row /\ row <= sc.start
    BY <1>8, <2>1, <2>2
  <2>4. sc.start \in Nat
    BY <1>4
  <2>5. row # None => row = sc.start
    BY <2>3, <2>4
  <2>6. QED
    BY <1>6, <2>5 DEF row
<1>11. QED
  BY <1>9, <1>10 DEF sc, rows

\* Playback takes no side back in time, and stops at the end only.
LEMMA PlaybackGoesForward ==
  ASSUME ComparisonAssumption, ComparisonInv, PlaybackTick
  PROVE  /\ \A s \in Sides : atCursor(s)' >= atCursor(s)
         /\ ~playing' => fraction' = SCRUB_STEPS
<1>1. fraction \in 0 .. SCRUB_STEPS
  BY FractionMovesOn
<1>2. fraction' \in 0 .. SCRUB_STEPS /\ fraction <= fraction'
  BY FractionMovesOn
<1>3. ~playing' => fraction' = SCRUB_STEPS
  BY DEF PlaybackTick
<1>4. UNCHANGED <<side, detail, answered, kept>>
  BY DEF PlaybackTick
<1>5. ASSUME NEW s \in Sides PROVE atCursor(s)' >= atCursor(s)
  <2>1. ShownZone(s)' = ShownZone(s)
    BY <1>4 DEF ShownZone
  <2>2. CASE side[s].key \notin detail \/ ShownZone(s) = ""
    <3>1. atCursor(s) = None
      BY <2>2 DEF atCursor
    <3>2. atCursor(s)' = None
      BY <1>4, <2>1, <2>2 DEF atCursor
    <3>3. QED
      BY <3>1, <3>2 DEF None
  <2>3. CASE side[s].key \in detail /\ ShownZone(s) # ""
    <3> DEFINE sc == Scenario(side[s].key)
               rows == {t \in History(ShownZone(s)) : sc.start <= t /\ t <= sc.end}
               at == timeAtFraction(sc.start, sc.end, fraction)
               later == timeAtFraction(sc.start, sc.end, fraction')
    <3>1. side[s].key \in Keys /\ rows \subseteq Nat
      BY <2>3, SideHasRows
    <3>2. sc.start \in Nat /\ sc.end \in Nat /\ sc.start <= sc.end
      BY <3>1, KeyIsOfAScenario
    <3>3. at \in Nat /\ later \in Nat /\ at <= later
      <4> HIDE DEF sc
      <4>1. QED
        BY <1>1, <1>2, <3>2, TimesGrow
    <3>4. atCursor(s) = assessmentAtOrBefore(rows, at)
      BY <2>3 DEF atCursor
    <3>5. atCursor(s)' = assessmentAtOrBefore(rows, later)
      BY <1>4, <2>1, <2>3 DEF atCursor
    <3> HIDE DEF rows, at, later
    <3>6. QED
      BY <3>1, <3>3, <3>4, <3>5, RowsMoveOn
  <2>4. QED
    BY <2>2, <2>3
<1>6. QED
  BY <1>3, <1>5

\* ReplayComparisonPage: every picker names a zone of its scenario, a fraction of 1
\* shows either incident at its end and one of 0 nothing later than its start, and
\* playback takes no side back in time, for every catalogue, assessments, number of
\* steps and speeds.
THEOREM SidesAreAligned ==
  ASSUME ComparisonAssumption
  PROVE  ComparisonSpec => SidesStayAligned
<1>1. ComparisonInit => ComparisonInv
  BY ComparisonStarts
<1>2. ComparisonInv /\ [ComparisonNext]_comparisonVars => ComparisonInv'
  BY ComparisonStepKeeps
<1>3. ComparisonInv => ComparisonTypeOK /\ EndsAreEnds
  BY EndsHold DEF ComparisonInv
<1>4. ComparisonInv /\ [ComparisonNext]_comparisonVars
        => [PlaybackTick => /\ \A s \in Sides : atCursor(s)' >= atCursor(s)
                            /\ ~playing' => fraction' = SCRUB_STEPS]_comparisonVars
  BY PlaybackGoesForward
<1>5. QED
  BY <1>1, <1>2, <1>3, <1>4, PTL DEF ComparisonSpec, SidesStayAligned, PlaybackMovesOn

-----------------------------------------------------------------------------
(* The operations center. *)

\* What the cards are made of depends on the state of the page alone.
LEMMA NothingChangesOnTheScreen ==
  ASSUME UNCHANGED operationsVars
  PROVE  displayQueue' = displayQueue /\ CardsMounted' = CardsMounted
<1>1. UNCHANGED <<live, replaying, cursor, page, focused>>
  BY DEF operationsVars, data
<1>2. entries' = entries
  BY <1>1 DEF entries, zoneIds, AssessmentOf, assessmentAt, isReplayMode
<1>3. displayAssessment' = displayAssessment /\ displayZoneId' = displayZoneId
  BY <1>1, <1>2 DEF displayAssessment, displayZoneId, AssessmentOf, assessmentAt, isReplayMode
<1>4. displayQueue' = displayQueue
  BY <1>3 DEF displayQueue
<1>5. OperationsScreen' = OperationsScreen
  BY <1>1, <1>2, <1>3 DEF OperationsScreen, isLoading
<1>6. QED
  BY <1>1, <1>4, <1>5 DEF CardsMounted, OnOperations

\* A render keeps no card and no animation that is not on the screen.
LEMMA RenderKeepsWhatIsShown ==
  ASSUME NEW cards, NEW trace, Rendered(cards, trace)
  PROVE  UnfoldedIsShown'
<1>1. expanded' = IF CardsMounted' THEN cards \cap displayQueue' ELSE {}
  BY DEF Rendered
<1>2. tracing' => CardsMounted'
  BY DEF Rendered
<1>3. expanded' \subseteq displayQueue'
  BY <1>1
<1>4. QED
  BY <1>2, <1>3 DEF UnfoldedIsShown

\* Every step ends in a render.
LEMMA EveryStepRenders ==
  ASSUME OperationsNext
  PROVE  UnfoldedIsShown'
<1>1. \E cards, trace : Rendered(cards, trace)
  <2>1. CASE LiveArrives \/ LoadReplay \/ ReplayArrives \/ MoveCursor \/ ExitReplay
    BY <2>1 DEF LiveArrives, LoadReplay, ReplayArrives, MoveCursor, ExitReplay, Keep
  <2>2. CASE CountAnswers \/ VerdictAnswers
    BY <2>2 DEF CountAnswers, VerdictAnswers, Keep
  <2>3. CASE setFocusedZoneId \/ onJump \/ setSelectedZoneId
    BY <2>3 DEF setFocusedZoneId, onJump, setSelectedZoneId, Keep
  <2>4. CASE ToggleCard
    BY <2>4 DEF ToggleCard
  <2>5. CASE Trace \/ TraceTimer \/ OpenTwin
    BY <2>5 DEF Trace, TraceTimer, OpenTwin
  <2>6. CASE OpenOperations \/ Navigate
    BY <2>6 DEF OpenOperations, Navigate, Keep
  <2>7. QED
    BY <2>1, <2>2, <2>3, <2>4, <2>5, <2>6 DEF OperationsNext
<1>2. QED
  BY <1>1, RenderKeepsWhatIsShown

\* A step that changes the focus puts it into the address, or leaves the page.
LEMMA AddressTakesTheChoice ==
  ASSUME OperationsNext
  PROVE  OnOperations' /\ focused' # focused => param' = focused'
<1> USE DEF OnOperations
<1>1. CASE LiveArrives
  BY <1>1 DEF LiveArrives
<1>2. CASE LoadReplay
  BY <1>2 DEF LoadReplay
<1>3. CASE ReplayArrives
  BY <1>3 DEF ReplayArrives
<1>4. CASE MoveCursor
  BY <1>4 DEF MoveCursor
<1>5. CASE ExitReplay
  BY <1>5 DEF ExitReplay
<1>6. CASE CountAnswers
  BY <1>6 DEF CountAnswers
<1>7. CASE VerdictAnswers
  BY <1>7 DEF VerdictAnswers
<1>8. CASE setFocusedZoneId
  BY <1>8 DEF setFocusedZoneId
<1>9. CASE ToggleCard
  BY <1>9 DEF ToggleCard
<1>10. CASE Trace
  BY <1>10 DEF Trace
<1>11. CASE TraceTimer
  BY <1>11 DEF TraceTimer
<1>12. CASE onJump
  BY <1>12 DEF onJump
<1>13. CASE OpenOperations
  BY <1>13 DEF OpenOperations
<1>14. CASE OpenTwin
  BY <1>14 DEF OpenTwin
<1>15. CASE setSelectedZoneId
  BY <1>15 DEF setSelectedZoneId
<1>16. CASE Navigate
  BY <1>16 DEF Navigate
<1>17. QED
  BY <1>1, <1>2, <1>3, <1>4, <1>5, <1>6, <1>7, <1>8, <1>9, <1>10, <1>11, <1>12, <1>13, <1>14,
     <1>15, <1>16 DEF OperationsNext

\* The invariant holds at the start.
LEMMA CardsStart ==
  ASSUME OperationsInit
  PROVE  UnfoldedIsShown
<1>1. expanded = {} /\ tracing = FALSE
  BY DEF OperationsInit
<1>2. QED
  BY <1>1 DEF UnfoldedIsShown

\* Every step keeps the invariant.
LEMMA CardsStepKeeps ==
  ASSUME UnfoldedIsShown, [OperationsNext]_operationsVars
  PROVE  UnfoldedIsShown'
<1>1. CASE OperationsNext
  BY <1>1, EveryStepRenders
<1>2. CASE UNCHANGED operationsVars
  <2>1. displayQueue' = displayQueue /\ CardsMounted' = CardsMounted
    BY <1>2, NothingChangesOnTheScreen
  <2>2. UNCHANGED <<expanded, tracing>>
    BY <1>2 DEF operationsVars
  <2>3. QED
    BY <2>1, <2>2 DEF UnfoldedIsShown
<1>3. QED
  BY <1>1, <1>2

\* The place of a zone among the entries is the place of its verdict.
LEMMA VerdictIsFoundByItsPlace ==
  ComparisonIsOfTheTick
<1> SUFFICES ASSUME CardsMounted, NEW card \in ActionQueue
             PROVE  card.comparison \in {<<>>, <<card.zone, card.timestamp>>}
  BY DEF ComparisonIsOfTheTick
<1>1. displayAssessment # 0
  BY DEF CardsMounted, OperationsScreen
<1>2. displayZoneId \in ToSet(entries) /\ displayAssessment = AssessmentOf(displayZoneId)
  BY <1>1 DEF displayAssessment
<1>3. \E i \in DOMAIN entries : entries[i] = displayZoneId
  BY <1>2 DEF ToSet
<1>4. displayIndex \in DOMAIN entries /\ entries[displayIndex] = displayZoneId
  BY <1>3 DEF displayIndex
<1>5. displayCounterfactual = counterfactuals[displayIndex]
  BY <1>1 DEF displayCounterfactual
<1>6. counterfactuals[displayIndex] \in {<<>>, <<displayZoneId, AssessmentOf(displayZoneId)>>}
  BY <1>4 DEF counterfactuals
<1>7. PICK id \in displayQueue : card = ActionCard(id)
  BY DEF ActionQueue
<1>8. /\ card.zone = displayZoneId /\ card.timestamp = displayAssessment
      /\ card.comparison = displayCounterfactual
  BY <1>7 DEF ActionCard
<1>9. QED
  BY <1>2, <1>5, <1>6, <1>8

\* OperationsCenterPage: whatever polls, ticks, answers and links come between, the
\* comparison on a card is of the card's own tick though it is found by its place in a
\* list, a folded-out card and a running trace are on the screen, a zone the operator has
\* chosen stays until the operator chooses another, and each choice is in the address.
THEOREM CardsAreInStep ==
  OperationsSpec => CardsStayInStep
<1>1. OperationsInit => UnfoldedIsShown
  BY CardsStart
<1>2. UnfoldedIsShown /\ [OperationsNext]_operationsVars => UnfoldedIsShown'
  BY CardsStepKeeps
<1>3. ComparisonIsOfTheTick
  BY VerdictIsFoundByItsPlace
<1>4. [OperationsNext]_operationsVars
        => [OnOperations /\ OnOperations' /\ focused # 0 /\ displayZoneId' # displayZoneId
                => focused' # focused]_operationsVars
  BY DEF displayZoneId
<1>5. [OperationsNext]_operationsVars
        => [OnOperations' /\ focused' # focused => param' = focused']_operationsVars
  BY AddressTakesTheChoice
<1>6. QED
  BY <1>1, <1>2, <1>3, <1>4, <1>5, PTL
     DEF OperationsSpec, CardsStayInStep, ChosenZoneStays, AddressFollowsTheChoice

-----------------------------------------------------------------------------
(* The client's checks and the backend's. *)

\* The numbers of a draft are whole minutes, as its number fields give them.
NumbersAreWhole(d) ==
    /\ \A e \in ToSet(d.sensor_events) :
          e.sim_time \in Int /\ e.duration_minutes \in Int /\ e.sample_interval_minutes \in Int
    /\ \A e \in ToSet(d.permit_events) : e.sim_time \in Int /\ e.duration_minutes \in Int

GoesNegative(e) ==
    \E i \in 0 .. e.duration_minutes \div e.sample_interval_minutes :
        evaluateCurve(e.curve, i * e.sample_interval_minutes, e.params) < 0

HasItsParams(e) == CURVE_REQUIRED_PARAMS[e.curve] \subseteq DOMAIN e.params

\* What it takes for the client to find nothing wrong with an event.
SensorIsSound(e, plant) ==
    /\ ~(e.sim_time < 0) /\ ~(e.duration_minutes <= 0) /\ ~(e.sample_interval_minutes <= 0)
    /\ e.curve \in CURVES /\ HasItsParams(e) /\ ~GoesNegative(e)
    /\ e.zone_id \in plant.zones /\ e.gas_type \in knownGas(plant, e.zone_id)

PermitIsSound(e, plant) ==
    /\ ~(e.sim_time < 0) /\ ~(e.duration_minutes <= 0)
    /\ e.zone_id \in plant.zones
    /\ e.authorizing_officer_id \in plant.workers /\ e.authorizing_officer_id \notin plant.unassigned

\* The samples of an event are the ones the backend evaluates.
LEMMA SamplesAreTheBackends ==
  ASSUME NEW e
  PROVE  (\E t \in Samples(e) : evaluateCurve(e.curve, t, e.params) < 0) <=> GoesNegative(e)
BY DEF Samples, GoesNegative

\* A union is empty when each of its sets is.
LEMMA EmptyUnion ==
  ASSUME NEW S, NEW f
  PROVE  UNION {f[e] : e \in S} = {} <=> \A e \in S : f[e] = {}
<1>1. ASSUME UNION {f[e] : e \in S} = {}, NEW e \in S PROVE f[e] = {}
  BY <1>1
<1>2. ASSUME \A e \in S : f[e] = {} PROVE UNION {f[e] : e \in S} = {}
  BY <1>2
<1>3. QED
  BY <1>1, <1>2

\* A union of sets is empty when its parts are.
LEMMA EmptyParts ==
  ASSUME NEW A, NEW B, NEW C
  PROVE  /\ A \cup B \cup C = {} <=> A = {} /\ B = {} /\ C = {}
         /\ A \cup B = {} <=> A = {} /\ B = {}
OBVIOUS

\* An error is reported exactly when it is there.
LEMMA ErrorIsReported ==
  ASSUME NEW e, NEW kind, NEW holds \in BOOLEAN
  PROVE  (Error(e, kind, holds) = {} <=> ~holds) /\ Error(e, kind, holds) \subseteq {<<e.name, kind>>}
         /\ (holds => <<e.name, kind>> \in Error(e, kind, holds))
BY DEF Error

\* The checks of the times are about the start and the duration.
LEMMA TimesAreChecked ==
  ASSUME NEW e
  PROVE  TimeErrors(e) = {} <=> ~(e.sim_time < 0) /\ ~(e.duration_minutes <= 0)
BY DEF TimeErrors, Error

\* An event the client finds nothing wrong with.
LEMMA SensorIsChecked ==
  ASSUME NEW e, NEW plant, e.duration_minutes \in Int, e.sample_interval_minutes \in Int
  PROVE  validateSensorEvent(e, plant) = {} <=> SensorIsSound(e, plant)
<1> DEFINE missing == CURVE_REQUIRED_PARAMS[e.curve] \ DOMAIN e.params
           known == e.curve \in CURVES
           sampled == known /\ missing = {} /\ e.duration_minutes > 0 /\ e.sample_interval_minutes > 0
           negative == sampled /\ \E t \in Samples(e) : evaluateCurve(e.curve, t, e.params) < 0
           A == TimeErrors(e)
           B == Error(e, "interval", e.sample_interval_minutes <= 0)
           C == Error(e, "curve", ~known)
           D == Error(e, "params", known /\ missing # {})
           E == Error(e, "negative", negative)
           F == Error(e, "zone", e.zone_id \notin plant.zones)
           G == Error(e, "sensor", e.zone_id \in plant.zones /\ e.gas_type \notin knownGas(plant, e.zone_id))
<1>1. validateSensorEvent(e, plant) = A \cup B \cup C \cup D \cup E \cup F \cup G
  BY DEF validateSensorEvent
<1>2. A = {} <=> ~(e.sim_time < 0) /\ ~(e.duration_minutes <= 0)
  BY TimesAreChecked
<1>3. B = {} <=> ~(e.sample_interval_minutes <= 0)
  BY DEF Error
<1>4. (C = {} <=> known) /\ (D = {} <=> ~(known /\ missing # {})) /\ (E = {} <=> ~negative)
  BY DEF Error
<1>5. F = {} <=> e.zone_id \in plant.zones
  BY DEF Error
<1>6. G = {} <=> ~(e.zone_id \in plant.zones /\ e.gas_type \notin knownGas(plant, e.zone_id))
  BY DEF Error
<1>7. negative <=> sampled /\ GoesNegative(e)
  BY SamplesAreTheBackends
<1>8. missing = {} <=> HasItsParams(e)
  BY DEF HasItsParams
<1> HIDE DEF A, B, C, D, E, F, G, negative
<1>9. validateSensorEvent(e, plant) = {}
        <=> A = {} /\ B = {} /\ C = {} /\ D = {} /\ E = {} /\ F = {} /\ G = {}
  BY <1>1
<1> HIDE DEF missing
<1>10. ~(e.duration_minutes <= 0) <=> e.duration_minutes > 0
  OBVIOUS
<1>11. ~(e.sample_interval_minutes <= 0) <=> e.sample_interval_minutes > 0
  OBVIOUS
<1>12. QED
  BY <1>2, <1>3, <1>4, <1>5, <1>6, <1>7, <1>8, <1>9, <1>10, <1>11 DEF SensorIsSound

\* The client finds nothing wrong with a permit event exactly when it is sound.
LEMMA PermitIsChecked ==
  ASSUME NEW e, NEW plant
  PROVE  validatePermitEvent(e, plant) = {} <=> PermitIsSound(e, plant)
<1>1. TimeErrors(e) = {} <=> ~(e.sim_time < 0) /\ ~(e.duration_minutes <= 0)
  BY TimesAreChecked
<1>2. Error(e, "zone", e.zone_id \notin plant.zones) = {} <=> e.zone_id \in plant.zones
  BY DEF Error
<1>3. Error(e, "officer", e.authorizing_officer_id \notin plant.workers) = {}
        <=> e.authorizing_officer_id \in plant.workers
  BY DEF Error
<1>4. Error(e, "unassigned", e.authorizing_officer_id \in plant.unassigned) = {}
        <=> e.authorizing_officer_id \notin plant.unassigned
  BY DEF Error
<1>5. QED
  BY <1>1, <1>2, <1>3, <1>4 DEF validatePermitEvent, PermitIsSound

\* A draft the client finds nothing wrong with: no name twice and sound events.
LEMMA DraftIsChecked ==
  ASSUME NEW d, NEW plant, NumbersAreWhole(d)
  PROVE  validateScenarioDraft(d, plant) = {}
           <=> /\ duplicates(d) = {}
               /\ \A e \in ToSet(d.sensor_events) : SensorIsSound(e, plant)
               /\ \A e \in ToSet(d.permit_events) : PermitIsSound(e, plant)
<1>1. validateScenarioDraft(d, plant) = {}
        <=> /\ duplicates(d) = {}
            /\ \A e \in ToSet(d.sensor_events) : validateSensorEvent(e, plant) = {}
            /\ \A e \in ToSet(d.permit_events) : validatePermitEvent(e, plant) = {}
  <2> DEFINE S == ToSet(d.sensor_events)
             P == ToSet(d.permit_events)
             s == [e \in S |-> validateSensorEvent(e, plant)]
             p == [e \in P |-> validatePermitEvent(e, plant)]
  <2>1. /\ UNION {validateSensorEvent(e, plant) : e \in S} = UNION {s[e] : e \in S}
        /\ UNION {validatePermitEvent(e, plant) : e \in P} = UNION {p[e] : e \in P}
    OBVIOUS
  <2>2. /\ UNION {s[e] : e \in S} = {} <=> \A e \in S : s[e] = {}
        /\ UNION {p[e] : e \in P} = {} <=> \A e \in P : p[e] = {}
    <3> HIDE DEF S, P, s, p
    <3>1. QED
      BY EmptyUnion
  <2>3. validateScenarioDraft(d, plant) = {}
          <=> duplicates(d) = {} /\ UNION {s[e] : e \in S} = {} /\ UNION {p[e] : e \in P} = {}
    <3>1. validateScenarioDraft(d, plant)
            = duplicates(d) \cup (UNION {validateSensorEvent(e, plant) : e \in S})
                            \cup (UNION {validatePermitEvent(e, plant) : e \in P})
      BY DEF validateScenarioDraft
    <3>2. validateScenarioDraft(d, plant)
            = duplicates(d) \cup (UNION {s[e] : e \in S}) \cup (UNION {p[e] : e \in P})
      BY <2>1, <3>1
    <3> DEFINE D == duplicates(d)
               X == UNION {s[e] : e \in S}
               Y == UNION {p[e] : e \in P}
    <3>3. validateScenarioDraft(d, plant) = D \cup X \cup Y
      BY <3>2
    <3> HIDE DEF D, X, Y
    <3>4. validateScenarioDraft(d, plant) = {} <=> D = {} /\ X = {} /\ Y = {}
      BY <3>3, EmptyParts
    <3>5. QED
      BY <3>4 DEF D, X, Y
  <2>4. QED
    BY <2>2, <2>3
<1>2. \A e \in ToSet(d.sensor_events) : validateSensorEvent(e, plant) = {} <=> SensorIsSound(e, plant)
  BY SensorIsChecked DEF NumbersAreWhole
<1>3. \A e \in ToSet(d.permit_events) : validatePermitEvent(e, plant) = {} <=> PermitIsSound(e, plant)
  BY PermitIsChecked
<1>4. QED
  BY <1>1, <1>2, <1>3

\* The stages of the backend find nothing when each of their checks does.
LEMMA StructureIsChecked ==
  ASSUME NEW d
  PROVE  validate_structure(d) = {}
           <=> /\ duplicates(d) = {}
               /\ \A e \in ToSet(d.sensor_events) : e.curve \in CURVES /\ HasItsParams(e)
<1> DEFINE S == ToSet(d.sensor_events)
           C(e) == Error(e, "curve", e.curve \notin CURVES)
           P(e) == Error(e, "params", e.curve \in CURVES /\ ~(CURVE_REQUIRED_PARAMS[e.curve] \subseteq DOMAIN e.params))
           c == [e \in S |-> C(e)]
           p == [e \in S |-> P(e)]
<1>1. validate_structure(d) = duplicates(d) \cup (UNION {C(e) : e \in S}) \cup (UNION {P(e) : e \in S})
  BY DEF validate_structure
<1>2. ASSUME NEW e
      PROVE  /\ C(e) = {} <=> e.curve \in CURVES
             /\ P(e) = {} <=> ~(e.curve \in CURVES /\ ~HasItsParams(e))
  BY DEF Error, HasItsParams
<1> HIDE DEF C, P, S
<1>3. /\ UNION {C(e) : e \in S} = UNION {c[e] : e \in S}
      /\ UNION {P(e) : e \in S} = UNION {p[e] : e \in S}
  OBVIOUS
<1>4. (\A e \in S : c[e] = C(e)) /\ (\A e \in S : p[e] = P(e))
  OBVIOUS
<1> HIDE DEF c, p
<1>5. /\ UNION {c[e] : e \in S} = {} <=> \A e \in S : c[e] = {}
      /\ UNION {p[e] : e \in S} = {} <=> \A e \in S : p[e] = {}
  BY EmptyUnion
<1>6. validate_structure(d) = {}
        <=> duplicates(d) = {} /\ UNION {c[e] : e \in S} = {} /\ UNION {p[e] : e \in S} = {}
  <2>1. validate_structure(d) = duplicates(d) \cup (UNION {c[e] : e \in S}) \cup (UNION {p[e] : e \in S})
    BY <1>1, <1>3
  <2> DEFINE D == duplicates(d)
             X == UNION {c[e] : e \in S}
             Y == UNION {p[e] : e \in S}
  <2>2. validate_structure(d) = D \cup X \cup Y
    BY <2>1
  <2> HIDE DEF D, X, Y
  <2>3. validate_structure(d) = {} <=> D = {} /\ X = {} /\ Y = {}
    BY <2>2, EmptyParts
  <2>4. QED
    BY <2>3 DEF D, X, Y
<1>7. QED
  BY <1>2, <1>4, <1>5, <1>6 DEF S

\* validate_references: every zone, sensor and officer that is named exists.
LEMMA ReferencesAreChecked ==
  ASSUME NEW d, NEW plant
  PROVE  References(d, plant) = {}
           <=> /\ \A e \in ToSet(d.sensor_events) :
                     e.zone_id \in plant.zones /\ e.gas_type \in knownGas(plant, e.zone_id)
               /\ \A e \in ToSet(d.permit_events) :
                     /\ e.zone_id \in plant.zones
                     /\ e.authorizing_officer_id \in plant.workers
                     /\ e.authorizing_officer_id \notin plant.unassigned
<1> DEFINE S(e) == IF e.zone_id \notin plant.zones THEN {<<e.name, "zone">>}
                   ELSE Error(e, "sensor", e.gas_type \notin knownGas(plant, e.zone_id))
           P(e) == Error(e, "zone", e.zone_id \notin plant.zones)
                   \cup Error(e, "officer", e.authorizing_officer_id \notin plant.workers)
                   \cup Error(e, "unassigned", e.authorizing_officer_id \in plant.unassigned)
<1>1. References(d, plant) = (UNION {S(e) : e \in ToSet(d.sensor_events)}) \cup (UNION {P(e) : e \in ToSet(d.permit_events)})
  BY DEF References
<1>2. ASSUME NEW e
      PROVE  S(e) = {} <=> e.zone_id \in plant.zones /\ e.gas_type \in knownGas(plant, e.zone_id)
  BY DEF Error
<1>3. ASSUME NEW e
      PROVE  P(e) = {} <=> /\ e.zone_id \in plant.zones
                           /\ e.authorizing_officer_id \in plant.workers
                           /\ e.authorizing_officer_id \notin plant.unassigned
  BY DEF Error
<1> HIDE DEF S, P
<1> DEFINE T == ToSet(d.sensor_events)
           U == ToSet(d.permit_events)
           s == [e \in T |-> S(e)]
           p == [e \in U |-> P(e)]
<1>4. References(d, plant) = (UNION {S(e) : e \in T}) \cup (UNION {P(e) : e \in U})
  BY <1>1
<1> HIDE DEF T, U
<1>5. /\ UNION {S(e) : e \in T} = UNION {s[e] : e \in T}
      /\ UNION {P(e) : e \in U} = UNION {p[e] : e \in U}
  OBVIOUS
<1>6. (\A e \in T : s[e] = S(e)) /\ (\A e \in U : p[e] = P(e))
  OBVIOUS
<1> HIDE DEF s, p
<1>7. /\ UNION {s[e] : e \in T} = {} <=> \A e \in T : s[e] = {}
      /\ UNION {p[e] : e \in U} = {} <=> \A e \in U : p[e] = {}
  BY EmptyUnion
<1>8. References(d, plant) = {} <=> UNION {s[e] : e \in T} = {} /\ UNION {p[e] : e \in U} = {}
  <2>1. References(d, plant) = (UNION {s[e] : e \in T}) \cup (UNION {p[e] : e \in U})
    BY <1>4, <1>5
  <2> DEFINE X == UNION {s[e] : e \in T}
             Y == UNION {p[e] : e \in U}
  <2>2. References(d, plant) = X \cup Y
    BY <2>1
  <2> HIDE DEF X, Y
  <2>3. References(d, plant) = {} <=> X = {} /\ Y = {}
    BY <2>2, EmptyParts
  <2>4. QED
    BY <2>3 DEF X, Y
<1>9. QED
  BY <1>2, <1>3, <1>6, <1>7, <1>8 DEF T, U

\* The last stage of the backend: no reading is negative.
LEMMA ReadingsAreChecked ==
  ASSUME NEW d
  PROVE  Negative(d) = {} <=> \A e \in ToSet(d.sensor_events) : ~GoesNegative(e)
<1>1. Negative(d) = UNION {Error(e, "negative", GoesNegative(e)) : e \in ToSet(d.sensor_events)}
  BY DEF Negative, GoesNegative
<1>2. ASSUME NEW e PROVE Error(e, "negative", GoesNegative(e)) = {} <=> ~GoesNegative(e)
  BY DEF Error
<1>3. QED
  BY <1>1, <1>2
\* The request schema lets a draft with whole numbers pass when they are in range.
LEMMA SchemaIsChecked ==
  ASSUME NEW d
  PROVE  Unprocessable(d)
           <=> \/ ~d.integralSeed
               \/ \E e \in ToSet(d.sensor_events) :
                     e.sim_time < 0 \/ e.duration_minutes <= 0 \/ e.sample_interval_minutes <= 0
               \/ \E e \in ToSet(d.permit_events) : e.sim_time < 0 \/ e.duration_minutes <= 0
BY DEF Unprocessable

\* scenarioBuilderValidation.ts, "independent client-side mirror of the same checks": for
\* every draft with whole numbers, of any length, and every plant, the client finds no
\* error exactly when the backend, which stops at its first stage, accepts the draft with
\* an integral seed.
THEOREM ClientMirrors ==
  ASSUME NEW d, NEW plant, NumbersAreWhole(d), d.integralSeed
  PROVE  validateScenarioDraft(d, plant) = {} <=> Accepted(d, plant)
<1> DEFINE sensors == ToSet(d.sensor_events)
           permits == ToSet(d.permit_events)
<1>1. validateScenarioDraft(d, plant) = {}
        <=> /\ duplicates(d) = {}
            /\ \A e \in sensors : SensorIsSound(e, plant)
            /\ \A e \in permits : PermitIsSound(e, plant)
  BY DraftIsChecked
<1>2. Unprocessable(d)
        <=> \/ \E e \in sensors : e.sim_time < 0 \/ e.duration_minutes <= 0 \/ e.sample_interval_minutes <= 0
            \/ \E e \in permits : e.sim_time < 0 \/ e.duration_minutes <= 0
  BY SchemaIsChecked
<1>3. validate_structure(d) = {}
        <=> duplicates(d) = {} /\ \A e \in sensors : e.curve \in CURVES /\ HasItsParams(e)
  BY StructureIsChecked
<1>4. References(d, plant) = {}
        <=> /\ \A e \in sensors : e.zone_id \in plant.zones /\ e.gas_type \in knownGas(plant, e.zone_id)
            /\ \A e \in permits : /\ e.zone_id \in plant.zones
                                  /\ e.authorizing_officer_id \in plant.workers
                                  /\ e.authorizing_officer_id \notin plant.unassigned
  BY ReferencesAreChecked
<1>5. Negative(d) = {} <=> \A e \in sensors : ~GoesNegative(e)
  BY ReadingsAreChecked
<1>6. validate_builder_scenario(d, plant) = {}
        <=> validate_structure(d) = {} /\ References(d, plant) = {} /\ Negative(d) = {}
  BY DEF validate_builder_scenario
<1> HIDE DEF sensors, permits
<1>7. ASSUME validateScenarioDraft(d, plant) = {} PROVE Accepted(d, plant)
  <2>1. /\ \A e \in sensors : SensorIsSound(e, plant)
        /\ \A e \in permits : PermitIsSound(e, plant)
        /\ duplicates(d) = {}
    BY <1>1, <1>7
  <2>2. ~Unprocessable(d)
    BY <1>2, <2>1 DEF SensorIsSound, PermitIsSound
  <2>3. validate_structure(d) = {}
    BY <1>3, <2>1 DEF SensorIsSound
  <2>4. References(d, plant) = {}
    BY <1>4, <2>1 DEF SensorIsSound, PermitIsSound
  <2>5. Negative(d) = {}
    BY <1>5, <2>1 DEF SensorIsSound
  <2>6. QED
    BY <1>6, <2>2, <2>3, <2>4, <2>5 DEF Accepted
<1>8. ASSUME Accepted(d, plant) PROVE validateScenarioDraft(d, plant) = {}
  <2>1. /\ ~Unprocessable(d) /\ validate_structure(d) = {}
        /\ References(d, plant) = {} /\ Negative(d) = {}
    BY <1>6, <1>8 DEF Accepted
  <2>2. ASSUME NEW e \in sensors PROVE SensorIsSound(e, plant)
    BY <1>2, <1>3, <1>4, <1>5, <2>1 DEF SensorIsSound
  <2>3. ASSUME NEW e \in permits PROVE PermitIsSound(e, plant)
    BY <1>2, <1>4, <2>1 DEF PermitIsSound
  <2>4. duplicates(d) = {}
    BY <1>3, <2>1
  <2>5. QED
    BY <1>1, <2>2, <2>3, <2>4
<1>9. QED
  BY <1>7, <1>8

\* What the client reports of one event is in what it reports of the draft.
LEMMA ErrorsAreCollected ==
  ASSUME NEW d, NEW plant
  PROVE  /\ duplicates(d) \subseteq validateScenarioDraft(d, plant)
         /\ \A e \in ToSet(d.sensor_events) :
               validateSensorEvent(e, plant) \subseteq validateScenarioDraft(d, plant)
         /\ \A e \in ToSet(d.permit_events) :
               validatePermitEvent(e, plant) \subseteq validateScenarioDraft(d, plant)
BY DEF validateScenarioDraft

\* scenarioBuilderValidation.ts: of a draft its schema lets pass, the client reports at
\* once whatever the backend reports of the stage it stops at.
THEOREM ClientReportsAll ==
  ASSUME NEW d, NEW plant, NumbersAreWhole(d), ~Unprocessable(d)
  PROVE  validate_builder_scenario(d, plant) \subseteq validateScenarioDraft(d, plant)
<1> DEFINE sensors == ToSet(d.sensor_events)
           permits == ToSet(d.permit_events)
           all == validateScenarioDraft(d, plant)
<1>1. /\ duplicates(d) \subseteq all
      /\ \A e \in sensors : validateSensorEvent(e, plant) \subseteq all
      /\ \A e \in permits : validatePermitEvent(e, plant) \subseteq all
  BY ErrorsAreCollected
<1>2. \A e \in sensors : e.duration_minutes > 0 /\ e.sample_interval_minutes > 0
  BY SchemaIsChecked DEF NumbersAreWhole
<1> HIDE DEF all
<1>3. validate_structure(d) \subseteq all
  <2>1. ASSUME NEW e \in sensors
        PROVE  /\ Error(e, "curve", e.curve \notin CURVES) \subseteq validateSensorEvent(e, plant)
               /\ Error(e, "params", e.curve \in CURVES /\ ~(CURVE_REQUIRED_PARAMS[e.curve] \subseteq DOMAIN e.params))
                    \subseteq validateSensorEvent(e, plant)
    <3>1. Error(e, "curve", e.curve \notin CURVES) \subseteq validateSensorEvent(e, plant)
      BY DEF validateSensorEvent
    <3>2. CURVE_REQUIRED_PARAMS[e.curve] \ DOMAIN e.params # {}
            <=> ~(CURVE_REQUIRED_PARAMS[e.curve] \subseteq DOMAIN e.params)
      OBVIOUS
    <3>3. Error(e, "params", e.curve \in CURVES /\ CURVE_REQUIRED_PARAMS[e.curve] \ DOMAIN e.params # {})
            \subseteq validateSensorEvent(e, plant)
      BY DEF validateSensorEvent
    <3>4. QED
      BY <3>1, <3>2, <3>3 DEF Error
  <2>2. QED
    BY <1>1, <2>1 DEF validate_structure
<1>4. References(d, plant) \subseteq all
  <2>1. ASSUME NEW e \in sensors
        PROVE  (IF e.zone_id \notin plant.zones THEN {<<e.name, "zone">>}
                ELSE Error(e, "sensor", e.gas_type \notin knownGas(plant, e.zone_id)))
                    \subseteq validateSensorEvent(e, plant)
    <3>1. /\ Error(e, "zone", e.zone_id \notin plant.zones) \subseteq validateSensorEvent(e, plant)
          /\ Error(e, "sensor", e.zone_id \in plant.zones /\ e.gas_type \notin knownGas(plant, e.zone_id))
               \subseteq validateSensorEvent(e, plant)
      BY DEF validateSensorEvent
    <3>2. QED
      BY <3>1 DEF Error
  <2>2. ASSUME NEW e \in permits
        PROVE  (Error(e, "zone", e.zone_id \notin plant.zones)
                \cup Error(e, "officer", e.authorizing_officer_id \notin plant.workers)
                \cup Error(e, "unassigned", e.authorizing_officer_id \in plant.unassigned))
                    \subseteq validatePermitEvent(e, plant)
    BY DEF validatePermitEvent
  <2>3. QED
    BY <1>1, <2>1, <2>2 DEF References
<1>5. ASSUME validate_structure(d) = {} PROVE Negative(d) \subseteq all
  <2>1. \A e \in sensors : e.curve \in CURVES /\ HasItsParams(e)
    BY <1>5, StructureIsChecked
  <2>2. ASSUME NEW e \in sensors
        PROVE  Error(e, "negative", GoesNegative(e)) \subseteq validateSensorEvent(e, plant)
    <3> DEFINE missing == CURVE_REQUIRED_PARAMS[e.curve] \ DOMAIN e.params
               sampled == /\ e.curve \in CURVES /\ missing = {}
                          /\ e.duration_minutes > 0 /\ e.sample_interval_minutes > 0
               negative == sampled /\ \E t \in Samples(e) : evaluateCurve(e.curve, t, e.params) < 0
    <3>1. missing = {}
      BY <2>1 DEF HasItsParams
    <3>2. sampled
      BY <1>2, <2>1, <3>1
    <3>3. negative <=> GoesNegative(e)
      BY <3>2, SamplesAreTheBackends
    <3>4. Error(e, "negative", negative) \subseteq validateSensorEvent(e, plant)
      BY DEF validateSensorEvent
    <3> HIDE DEF negative
    <3>5. QED
      BY <3>3, <3>4 DEF Error
  <2>3. Negative(d) = UNION {Error(e, "negative", GoesNegative(e)) : e \in sensors}
    BY DEF Negative, GoesNegative
  <2>4. QED
    BY <1>1, <2>2, <2>3
<1>6. QED
  BY <1>3, <1>4, <1>5 DEF validate_builder_scenario, all

-----------------------------------------------------------------------------
(* The forms. *)

WholeSensor(e) == e.sim_time \in Int /\ e.duration_minutes \in Int /\ e.sample_interval_minutes \in Int
WholePermit(e) == e.sim_time \in Int /\ e.duration_minutes \in Int

\* A sensor event as the form adds it.
RealSensor(e) ==
    /\ e.name = Name /\ e.curve \in CURVES
    /\ e.zone_id \in Facility.zones /\ e.gas_type \in knownGas(Facility, e.zone_id)

\* The invariant: what has been loaded is of the plant, a gas type that is chosen is one
\* of the chosen zone, and what was added last is real.
LoadedOK ==
    /\ ctx = [zones |-> ctx.zones, workers |-> ctx.workers, unassigned |-> ctx.unassigned,
              gasTypes |-> ctx.gasTypes, options |-> ctx.options]
    /\ ctx.zones \in {{}, Facility.zones}
    /\ DOMAIN ctx.gasTypes \subseteq Facility.zones
    /\ \A z \in DOMAIN ctx.gasTypes : ctx.gasTypes[z] = Facility.gasTypes[z]

SensorFormOK ==
    /\ sensorForm = [zone |-> sensorForm.zone, gas |-> sensorForm.gas,
                     curve |-> sensorForm.curve, params |-> sensorForm.params]
    /\ sensorForm.zone \in ctx.zones \cup {Unset}
    /\ sensorForm.curve \in CURVES
    /\ DOMAIN sensorForm.params \subseteq CURVE_REQUIRED_PARAMS[sensorForm.curve]
    /\ sensorForm.gas # Unset =>
          sensorForm.zone # Unset /\ sensorForm.gas \in knownGas(Facility, sensorForm.zone)

AddedOK ==
    \/ added = Nothing
    \/ added.kind = "sensor" /\ RealSensor(added.event) /\ WholeSensor(added.event)
    \/ added.kind = "permit" /\ WholePermit(added.event)

FormsInv == LoadedOK /\ SensorFormOK /\ permitForm.zone \in ctx.zones \cup {Unset} /\ AddedOK

\* Both forms are empty at first and nothing has been loaded.
LEMMA FormsStart ==
  ASSUME FormsInit
  PROVE  FormsInv
<1>1. ctx = [zones |-> {}, workers |-> {}, unassigned |-> {}, gasTypes |-> [z \in {} |-> {}], options |-> FALSE]
  BY DEF FormsInit
<1>2. LoadedOK
  BY <1>1 DEF LoadedOK
<1>3. sensorForm = [zone |-> Unset, gas |-> Unset, curve |-> "linear_ramp", params |-> NoParams]
  BY DEF FormsInit
<1>4. DOMAIN NoParams = {} /\ "linear_ramp" \in CURVES
  BY DEF NoParams, CURVES, CURVE_REQUIRED_PARAMS
<1>5. SensorFormOK
  BY <1>3, <1>4 DEF SensorFormOK
<1>6. permitForm.zone = Unset /\ added = Nothing
  BY DEF FormsInit
<1>7. QED
  BY <1>2, <1>5, <1>6 DEF FormsInv, AddedOK

\* The gases of a zone that the page knows are the plant's.
LEMMA KnownGasIsThePlants ==
  ASSUME FormsAssumption, LoadedOK, NEW z
  PROVE  knownGas(ctx, z) \subseteq knownGas(Facility, z)
BY DEF FormsAssumption, LoadedOK, knownGas

\* An answer that arrives adds to what is loaded.
LEMMA LoadingKeeps ==
  ASSUME FormsAssumption, FormsInv,
         useZones \/ useWorkers \/ useBuilderOptions \/ \E z \in Facility.zones : useAllZoneSensors(z)
  PROVE  FormsInv'
<1>1. UNCHANGED <<sensorForm, permitForm, added>>
  BY DEF useZones, useWorkers, useBuilderOptions, useAllZoneSensors, Loads
<1>2. LoadedOK' /\ ctx.zones \subseteq ctx'.zones
  <2>1. LoadedOK
    BY DEF FormsInv
  <2>2. CASE useZones
    <3>1. ctx' = [ctx EXCEPT !.zones = Facility.zones]
      BY <2>2 DEF useZones, Loads
    <3>2. ctx' = [zones |-> Facility.zones, workers |-> ctx.workers, unassigned |-> ctx.unassigned,
                  gasTypes |-> ctx.gasTypes, options |-> ctx.options]
      BY <2>1, <3>1 DEF LoadedOK
    <3>3. QED
      BY <2>1, <3>2 DEF LoadedOK
  <2>3. CASE useWorkers
    <3>1. ctx' = [ctx EXCEPT !.workers = Facility.workers, !.unassigned = Facility.unassigned]
      BY <2>3 DEF useWorkers, Loads
    <3>2. ctx' = [zones |-> ctx.zones, workers |-> Facility.workers, unassigned |-> Facility.unassigned,
                  gasTypes |-> ctx.gasTypes, options |-> ctx.options]
      BY <2>1, <3>1 DEF LoadedOK
    <3>3. QED
      BY <2>1, <3>2 DEF LoadedOK
  <2>4. CASE useBuilderOptions
    <3>1. ctx' = [ctx EXCEPT !.options = TRUE]
      BY <2>4 DEF useBuilderOptions, Loads
    <3>2. ctx' = [zones |-> ctx.zones, workers |-> ctx.workers, unassigned |-> ctx.unassigned,
                  gasTypes |-> ctx.gasTypes, options |-> TRUE]
      BY <2>1, <3>1 DEF LoadedOK
    <3>3. QED
      BY <2>1, <3>2 DEF LoadedOK
  <2>5. CASE \E z \in Facility.zones : useAllZoneSensors(z)
    <3>1. PICK z \in Facility.zones : useAllZoneSensors(z)
      BY <2>5
    <3> DEFINE gases == [y \in DOMAIN ctx.gasTypes \cup {z} |-> IF y = z THEN Facility.gasTypes[z] ELSE ctx.gasTypes[y]]
    <3>2. ctx' = [ctx EXCEPT !.gasTypes = gases]
      BY <3>1 DEF useAllZoneSensors, Loads
    <3>3. DOMAIN gases \subseteq Facility.zones /\ \A y \in DOMAIN gases : gases[y] = Facility.gasTypes[y]
      BY <2>1 DEF LoadedOK
    <3> HIDE DEF gases
    <3>4. ctx' = [zones |-> ctx.zones, workers |-> ctx.workers, unassigned |-> ctx.unassigned,
                  gasTypes |-> gases, options |-> ctx.options]
      BY <2>1, <3>2 DEF LoadedOK
    <3>5. QED
      BY <2>1, <3>3, <3>4 DEF LoadedOK
  <2>6. QED
    BY <2>2, <2>3, <2>4, <2>5
<1>3. SensorFormOK' /\ AddedOK'
  BY <1>1, <1>2 DEF FormsInv, SensorFormOK, AddedOK
<1>4. QED
  BY <1>1, <1>2, <1>3 DEF FormsInv

\* A field that is filled in holds what is listed for it.
LEMMA FillingKeeps ==
  ASSUME FormsAssumption, FormsInv,
         \/ \E z \in Facility.zones \cup {Unset} : setZoneId(z)
         \/ \E g \in (UNION {Facility.gasTypes[z] : z \in Facility.zones}) \cup {Unset} : setGasType(g)
         \/ \E c \in CURVES : setCurve(c)
         \/ \E p \in UNION {CURVE_REQUIRED_PARAMS[c] : c \in CURVES}, v \in ParamValues : setParams(p, v)
  PROVE  FormsInv'
<1>1. UNCHANGED <<ctx, permitForm>> /\ added' = Nothing
  BY DEF setZoneId, setGasType, setCurve, setParams, Fills
<1>2. SensorFormOK /\ LoadedOK
  BY DEF FormsInv
<1>3. SensorFormOK'
  <2>1. CASE \E z \in Facility.zones \cup {Unset} : setZoneId(z)
    <3>1. PICK z : z \in ctx.zones \cup {Unset} /\ sensorForm' = [sensorForm EXCEPT !.zone = z, !.gas = Unset]
      BY <2>1 DEF setZoneId, Fills
    <3>2. sensorForm' = [zone |-> z, gas |-> Unset, curve |-> sensorForm.curve, params |-> sensorForm.params]
      BY <1>2, <3>1 DEF SensorFormOK
    <3>3. QED
      BY <1>1, <1>2, <3>1, <3>2 DEF SensorFormOK
  <2>2. CASE \E g \in (UNION {Facility.gasTypes[z] : z \in Facility.zones}) \cup {Unset} : setGasType(g)
    <3>1. PICK g : setGasType(g)
      BY <2>2
    <3>2. sensorForm' = [sensorForm EXCEPT !.gas = g]
      BY <3>1 DEF setGasType, Fills
    <3>3. sensorForm' = [zone |-> sensorForm.zone, gas |-> g, curve |-> sensorForm.curve, params |-> sensorForm.params]
      BY <1>2, <3>2 DEF SensorFormOK
    <3>4. sensorForm.zone # Unset /\ (g # Unset => g \in knownGas(Facility, sensorForm.zone))
      <4>1. sensorForm.zone # Unset /\ g \in availableGasTypes(sensorForm.zone) \cup {Unset}
        BY <3>1 DEF setGasType
      <4>2. availableGasTypes(sensorForm.zone) = knownGas(ctx, sensorForm.zone)
        BY <4>1 DEF availableGasTypes
      <4>3. knownGas(ctx, sensorForm.zone) \subseteq knownGas(Facility, sensorForm.zone)
        BY <1>2, KnownGasIsThePlants
      <4>4. QED
        BY <4>1, <4>2, <4>3
    <3>5. QED
      BY <1>1, <1>2, <3>3, <3>4 DEF SensorFormOK
  <2>3. CASE \E c \in CURVES : setCurve(c)
    <3>1. PICK c \in CURVES : sensorForm' = [sensorForm EXCEPT !.curve = c, !.params = NoParams]
      BY <2>3 DEF setCurve, Fills
    <3>2. sensorForm' = [zone |-> sensorForm.zone, gas |-> sensorForm.gas, curve |-> c, params |-> NoParams]
      BY <1>2, <3>1 DEF SensorFormOK
    <3>3. DOMAIN NoParams = {}
      BY DEF NoParams
    <3>4. QED
      BY <1>1, <1>2, <3>1, <3>2, <3>3 DEF SensorFormOK
  <2>4. CASE \E p \in UNION {CURVE_REQUIRED_PARAMS[c] : c \in CURVES}, v \in ParamValues : setParams(p, v)
    <3>1. PICK p, v : setParams(p, v)
      BY <2>4
    <3> DEFINE params == [q \in DOMAIN sensorForm.params \cup {p} |-> IF q = p THEN v ELSE sensorForm.params[q]]
    <3>2. sensorForm' = [sensorForm EXCEPT !.params = params]
      BY <3>1 DEF setParams, Fills
    <3>3. p \in CURVE_REQUIRED_PARAMS[sensorForm.curve]
      BY <3>1 DEF setParams, requiredParams
    <3>4. DOMAIN params \subseteq CURVE_REQUIRED_PARAMS[sensorForm.curve]
      BY <1>2, <3>3 DEF SensorFormOK
    <3> HIDE DEF params
    <3>5. sensorForm' = [zone |-> sensorForm.zone, gas |-> sensorForm.gas, curve |-> sensorForm.curve, params |-> params]
      BY <1>2, <3>2 DEF SensorFormOK
    <3>6. QED
      BY <1>1, <1>2, <3>4, <3>5 DEF SensorFormOK
  <2>5. QED
    BY <2>1, <2>2, <2>3, <2>4
<1>4. LoadedOK' /\ AddedOK'
  BY <1>1, <1>2 DEF LoadedOK, AddedOK
<1>5. QED
  BY <1>1, <1>3, <1>4 DEF FormsInv

\* A step of a form, or an answer that arrives, keeps the invariant.
LEMMA FormsStepKeeps ==
  ASSUME FormsAssumption, FormsInv, [FormsNext]_formVars
  PROVE  FormsInv'
<1>1. CASE \/ useZones \/ useWorkers \/ useBuilderOptions
           \/ \E z \in Facility.zones : useAllZoneSensors(z)
  BY <1>1, LoadingKeeps
<1>2. CASE \/ \E z \in Facility.zones \cup {Unset} : setZoneId(z)
           \/ \E g \in (UNION {Facility.gasTypes[z] : z \in Facility.zones}) \cup {Unset} : setGasType(g)
           \/ \E c \in CURVES : setCurve(c)
           \/ \E p \in UNION {CURVE_REQUIRED_PARAMS[c] : c \in CURVES}, v \in ParamValues : setParams(p, v)
  BY <1>2, FillingKeeps
<1>3. CASE \E sim \in SimTimes, dur \in Durations, step \in Intervals : AddSensorEvent(Name, sim, dur, step)
  <2>1. PICK sim \in SimTimes, dur \in Durations, step \in Intervals : AddSensorEvent(Name, sim, dur, step)
    BY <1>3
  <2>2. sim \in Int /\ dur \in Int /\ step \in Int
    BY DEF FormsAssumption
  <2>3. UNCHANGED <<ctx, sensorForm, permitForm>> /\ sensorForm.zone # Unset /\ sensorForm.gas # Unset
    BY <2>1 DEF AddSensorEvent
  <2>4. added' = [kind |-> "sensor", event |->
            [name |-> Name, zone_id |-> sensorForm.zone, gas_type |-> sensorForm.gas, sim_time |-> sim,
             duration_minutes |-> dur, sample_interval_minutes |-> step,
             curve |-> sensorForm.curve, params |-> sensorForm.params]]
    BY <2>1 DEF AddSensorEvent
  <2>5. sensorForm.zone \in Facility.zones
    BY <2>3 DEF FormsInv, LoadedOK, SensorFormOK
  <2>6. added'.kind = "sensor" /\ RealSensor(added'.event) /\ WholeSensor(added'.event)
    BY <2>2, <2>3, <2>4, <2>5 DEF FormsInv, SensorFormOK, RealSensor, WholeSensor
  <2>7. LoadedOK' /\ SensorFormOK'
    BY <2>3 DEF FormsInv, LoadedOK, SensorFormOK
  <2>8. QED
    BY <2>3, <2>6, <2>7 DEF FormsInv, AddedOK
<1>4. CASE \E z \in Facility.zones \cup {Unset}, w \in Facility.workers \cup {Unset} : setPermitForm(z, w)
  <2>1. PICK z, w : setPermitForm(z, w)
    BY <1>4
  <2>2. UNCHANGED <<ctx, sensorForm>> /\ added' = Nothing /\ permitForm'.zone \in ctx.zones \cup {Unset}
    BY <2>1 DEF setPermitForm
  <2>3. QED
    BY <2>2 DEF FormsInv, LoadedOK, SensorFormOK, AddedOK
<1>5. CASE \E sim \in SimTimes, dur \in Durations : AddPermitEvent(Name, sim, dur)
  <2>1. PICK sim \in SimTimes, dur \in Durations : AddPermitEvent(Name, sim, dur)
    BY <1>5
  <2>2. sim \in Int /\ dur \in Int
    BY DEF FormsAssumption
  <2>3. UNCHANGED <<ctx, sensorForm, permitForm>>
    BY <2>1 DEF AddPermitEvent
  <2>4. added'.kind = "permit" /\ added'.event.sim_time = sim /\ added'.event.duration_minutes = dur
    BY <2>1 DEF AddPermitEvent
  <2>5. QED
    BY <2>2, <2>3, <2>4 DEF FormsInv, LoadedOK, SensorFormOK, AddedOK, WholePermit
<1>6. CASE UNCHANGED formVars
  BY <1>6 DEF formVars, FormsInv, LoadedOK, SensorFormOK, AddedOK
<1>7. QED
  BY <1>1, <1>2, <1>3, <1>4, <1>5, <1>6 DEF FormsNext

\* No error of a real sensor event names its zone, its sensor or its curve.
LEMMA RealSensorsHaveNone ==
  ASSUME NEW e, RealSensor(e), NEW kind \in {"zone", "sensor", "curve"}
  PROVE  <<Name, kind>> \notin validateSensorEvent(e, Facility)
<1> DEFINE missing == CURVE_REQUIRED_PARAMS[e.curve] \ DOMAIN e.params
           known == e.curve \in CURVES
           sampled == known /\ missing = {} /\ e.duration_minutes > 0 /\ e.sample_interval_minutes > 0
           timing == TimeErrors(e) \cup Error(e, "interval", e.sample_interval_minutes <= 0)
           measured == Error(e, "params", known /\ missing # {})
                       \cup Error(e, "negative", sampled /\ \E t \in Samples(e) : evaluateCurve(e.curve, t, e.params) < 0)
           naming == Error(e, "curve", ~known)
                     \cup Error(e, "zone", e.zone_id \notin Facility.zones)
                     \cup Error(e, "sensor", e.zone_id \in Facility.zones
                                               /\ e.gas_type \notin knownGas(Facility, e.zone_id))
<1>1. validateSensorEvent(e, Facility) \subseteq timing \cup measured \cup naming
  BY DEF validateSensorEvent
<1>2. naming = {}
  BY DEF RealSensor, Error
<1>3. timing \subseteq {<<Name, "sim_time">>, <<Name, "duration">>, <<Name, "interval">>}
  BY DEF TimeErrors, Error, RealSensor
<1>4. measured \subseteq {<<Name, "params">>, <<Name, "negative">>}
  <2> HIDE DEF missing, sampled
  <2>1. QED
    BY DEF Error, RealSensor
<1> HIDE DEF timing, measured, naming
<1>5. <<Name, kind>> \notin timing \cup measured
  BY <1>3, <1>4
<1>6. QED
  BY <1>1, <1>2, <1>5

\* The client's checks look at what it has loaded of the plant and at nothing else.
LEMMA ChecksLookAtThePlant ==
  ASSUME FormsAssumption, AsTheBackend = Facility, NEW d
  PROVE  validateScenarioDraft(d, ctx) = validateScenarioDraft(d, Facility)
<1>1. \A f \in {"zones", "workers", "unassigned", "gasTypes"} : AsTheBackend[f] = ctx[f]
  BY DEF AsTheBackend, FormsAssumption
<1>2. /\ ctx.zones = Facility.zones /\ ctx.workers = Facility.workers
      /\ ctx.unassigned = Facility.unassigned /\ ctx.gasTypes = Facility.gasTypes
  BY <1>1
<1>3. \A z : knownGas(ctx, z) = knownGas(Facility, z)
  BY <1>2 DEF knownGas
<1>4. \A e : validateSensorEvent(e, ctx) = validateSensorEvent(e, Facility)
  BY <1>2, <1>3 DEF validateSensorEvent
<1>5. \A e : validatePermitEvent(e, ctx) = validatePermitEvent(e, Facility)
  BY <1>2 DEF validatePermitEvent
<1>6. QED
  BY <1>4, <1>5 DEF validateScenarioDraft

\* What a form adds has whole minutes.
LEMMA AddedIsWhole ==
  ASSUME AddedOK, added # Nothing
  PROVE  NumbersAreWhole(Only(added)) /\ Only(added).integralSeed
<1> DEFINE sensors == IF added.kind = "sensor" THEN <<added.event>> ELSE <<>>
           permits == IF added.kind = "permit" THEN <<added.event>> ELSE <<>>
<1>1. Only(added).sensor_events = sensors /\ Only(added).permit_events = permits /\ Only(added).integralSeed
  BY DEF Only
<1>2. \A e \in ToSet(sensors) : added.kind = "sensor" /\ e = added.event
  BY DEF ToSet
<1>3. \A e \in ToSet(permits) : added.kind = "permit" /\ e = added.event
  BY DEF ToSet
<1> HIDE DEF sensors, permits
<1>4. added.kind = "sensor" => WholeSensor(added.event)
  BY DEF AddedOK
<1>5. added.kind = "permit" => WholePermit(added.event)
  BY DEF AddedOK
<1>6. QED
  BY <1>1, <1>2, <1>3, <1>4, <1>5 DEF NumbersAreWhole, WholeSensor, WholePermit

\* The invariant is enough for what the forms promise.
LEMMA FormsInvIsSound ==
  ASSUME FormsAssumption, FormsInv
  PROVE  FormsAreSound
<1>1. FormsTypeOK
  BY DEF FormsInv, SensorFormOK, FormsTypeOK
<1>2. OnlyRealSensors
  <2>1. SUFFICES ASSUME added # Nothing, added.kind = "sensor", NEW kind \in {"zone", "sensor", "curve"}
                 PROVE  <<Name, kind>> \notin validateSensorEvent(added.event, Facility)
    BY DEF OnlyRealSensors
  <2>2. RealSensor(added.event)
    BY <2>1 DEF FormsInv, AddedOK
  <2>3. QED
    BY <2>1, <2>2, RealSensorsHaveNone
<1>3. ClientMirrorsBackend
  <2>1. SUFFICES ASSUME added # Nothing, AsTheBackend = Facility
                 PROVE  /\ validateScenarioDraft(Only(added), ctx) = {} <=> Accepted(Only(added), Facility)
                        /\ ~Unprocessable(Only(added)) =>
                             validate_builder_scenario(Only(added), Facility)
                                \subseteq validateScenarioDraft(Only(added), ctx)
    BY DEF ClientMirrorsBackend
  <2>2. NumbersAreWhole(Only(added)) /\ Only(added).integralSeed
    BY <2>1, AddedIsWhole DEF FormsInv
  <2>3. validateScenarioDraft(Only(added), ctx) = validateScenarioDraft(Only(added), Facility)
    BY <2>1, ChecksLookAtThePlant
  <2>4. QED
    BY <2>2, <2>3, ClientMirrors, ClientReportsAll
<1>4. QED
  BY <1>1, <1>2, <1>3 DEF FormsAreSound

\* SensorEventForm.tsx, PermitEventForm.tsx: in whatever order the lists of the plant
\* arrive and the fields change, a form holds what is listed, an added sensor event names
\* a zone, a sensor and a curve that exist, and once the plant is loaded the client finds
\* an added event wanting exactly when the backend does.
THEOREM FormsAddWhatExists ==
  ASSUME FormsAssumption
  PROVE  FormsSpec => []FormsAreSound
<1>1. FormsInit => FormsInv
  BY FormsStart
<1>2. FormsInv /\ [FormsNext]_formVars => FormsInv'
  BY FormsStepKeeps
<1>3. FormsInv => FormsAreSound
  BY FormsInvIsSound
<1>4. QED
  BY <1>1, <1>2, <1>3, PTL DEF FormsSpec

-----------------------------------------------------------------------------
(* The page: what a drag changes and what an import restores. *)

\* Numbers a start time can be.
Times == Int \cup {BadTime}

\* A list of events without ids, as it is sent and exported.
Stripped(events) == Strip(events) = events

\* A file this page exported.
Exported(f) ==
    /\ f.kind = "ok" /\ f.start_time \in Int
    /\ Stripped(f.sensor_events) /\ Stripped(f.permit_events)

\* The invariant: on a page that is drawn the start time is a number; the last export, also
\* while it is read, is one of this page; and a file that has a start time is read for it.
PageInv ==
    /\ startTime \in Times /\ (~crashed => startTime \in Int)
    /\ file = NoFile \/ Exported(file)
    /\ reading # NoFile =>
          /\ reading = [file |-> reading.file, startTime |-> reading.startTime]
          /\ reading.startTime \in Times
          /\ reading.file.start_time # NoFile => reading.startTime = reading.file.start_time
          /\ reading.file \in Files \/ Exported(reading.file)

\* What has been stripped has no id to strip.
LEMMA StrippingIsFinal ==
  ASSUME NEW events
  PROVE  Stripped(Strip(events))
<1> DEFINE once == Strip(events)
           bare(e) == [f \in DOMAIN e \ {"id"} |-> e[f]]
<1>1. once = [i \in DOMAIN events |-> bare(events[i])]
  BY DEF Strip
<1>2. ASSUME NEW e PROVE bare(bare(e)) = bare(e)
  OBVIOUS
<1>3. Strip(once) = [i \in DOMAIN once |-> bare(once[i])]
  BY DEF Strip
<1> HIDE DEF once, bare
<1>4. DOMAIN once = DOMAIN events /\ \A i \in DOMAIN events : once[i] = bare(events[i])
  BY <1>1
<1>5. Strip(once) = [i \in DOMAIN events |-> bare(events[i])]
  BY <1>2, <1>3, <1>4
<1>6. QED
  BY <1>1, <1>5 DEF once, Stripped

\* The ids an import gives are the only thing it adds.
LEMMA IdsAreStripped ==
  ASSUME NEW events, NEW first, Stripped(events)
  PROVE  Strip(WithIds(events, first)) = events
<1> DEFINE given == WithIds(events, first)
           bare(e) == [f \in DOMAIN e \ {"id"} |-> e[f]]
<1>1. given = [i \in DOMAIN events |-> WithId(events[i], newId(first + i))]
  BY DEF WithIds
<1>2. ASSUME NEW e, NEW id PROVE bare(WithId(e, id)) = bare(e)
  BY DEF WithId
<1>3. Strip(given) = [i \in DOMAIN given |-> bare(given[i])] /\ Strip(events) = [i \in DOMAIN events |-> bare(events[i])]
  BY DEF Strip
<1> HIDE DEF given, bare
<1>4. DOMAIN given = DOMAIN events /\ \A i \in DOMAIN events : given[i] = WithId(events[i], newId(first + i))
  BY <1>1
<1>5. \A i \in DOMAIN events : bare(given[i]) = bare(events[i])
  BY <1>2, <1>4
<1>6. Strip(given) = Strip(events)
  BY <1>3, <1>4, <1>5
<1>7. QED
  BY <1>6 DEF given, Stripped

\* The page opens on a start time and has exported nothing.
LEMMA PageStarts ==
  ASSUME BuilderAssumption, BuilderInit
  PROVE  PageInv
<1>1. \E t \in StartTimes : TRUE
  BY DEF BuilderAssumption
<1>2. startTime \in StartTimes
  BY <1>1 DEF BuilderInit
<1>3. startTime \in Times /\ startTime \in Int
  BY <1>2 DEF BuilderAssumption, Times
<1>4. file = NoFile /\ reading = NoFile
  BY DEF BuilderInit
<1>5. QED
  BY <1>3, <1>4 DEF PageInv

\* An export writes what the page has made of its draft.
LEMMA ExportsAreExported ==
  ASSUME BuilderAssumption, PageInv, ~crashed, exportDraft
  PROVE  Exported(file')
<1> DEFINE written == [kind |-> "ok", seed |-> seed, start_time |-> draft.start_time,
                       sensor_events |-> draft.sensor_events, permit_events |-> draft.permit_events]
<1>1. file' = written
  BY DEF exportDraft
<1>2. draft = [seed |-> seed.value, integralSeed |-> seed.integral,
               start_time |-> IF startTime = BadTime THEN BadTime ELSE startTime - Offset,
               sensor_events |-> Strip(sensorEvents), permit_events |-> Strip(permitEvents)]
  BY DEF draft, Draft
<1>3. draft.start_time \in Int
  <2>1. startTime \in Int /\ startTime # BadTime /\ Offset \in Int
    BY DEF BuilderAssumption, PageInv
  <2>2. draft.start_time = IF startTime = BadTime THEN BadTime ELSE startTime - Offset
    BY <1>2
  <2>3. QED
    BY <2>1, <2>2
<1>4. Stripped(draft.sensor_events) /\ Stripped(draft.permit_events)
  BY <1>2, StrippingIsFinal
<1>5. written.kind = "ok" /\ written.start_time \in Int
      /\ Stripped(written.sensor_events) /\ Stripped(written.permit_events)
  BY <1>3, <1>4
<1>6. QED
  BY <1>1, <1>5 DEF Exported

\* A file that is taken up is a foreign one or the last export, and is read for the start
\* time it has, or else for the one of the page.
LEMMA FilesAreTakenUp ==
  ASSUME BuilderAssumption, PageInv, NEW f \in Files \cup {file}, importDraft(f)
  PROVE  PageInv'
<1> DEFINE t == IF f.start_time = NoFile THEN startTime ELSE f.start_time
           taken == [file |-> f, startTime |-> t]
<1>1. reading' = taken /\ f # NoFile /\ UNCHANGED <<startTime, file, crashed>>
  BY DEF importDraft, editVars
<1>2. taken = [file |-> taken.file, startTime |-> taken.startTime] /\ taken.file = f /\ taken.startTime = t
  OBVIOUS
<1>3. f \in Files \/ Exported(f)
  BY <1>1 DEF PageInv
<1>4. f.start_time \in Times \cup {NoFile}
  BY <1>3 DEF BuilderAssumption, Exported, Times
<1>5. t \in Times /\ (f.start_time # NoFile => t = f.start_time)
  BY <1>4 DEF PageInv
<1> HIDE DEF taken, t
<1>6. QED
  BY <1>1, <1>2, <1>3, <1>5 DEF PageInv

\* What a file is read for is a time, and no page is drawn of what no date is.
LEMMA ReadingsAreTimes ==
  ASSUME BuilderAssumption, PageInv, reading # NoFile, onload
  PROVE  startTime' \in Times /\ (~crashed' => startTime' \in Int)
<1>1. reading.startTime \in Times
  BY DEF PageInv
<1>2. CASE reading.file.kind = "unparsable"
  BY <1>2 DEF onload, editVars, PageInv
<1>3. CASE reading.file.kind # "unparsable"
  <2>1. startTime' = reading.startTime /\ crashed' = (startTime' = BadTime)
    BY <1>3 DEF onload, Restores, Renders
  <2>2. QED
    BY <1>1, <2>1 DEF Times
<1>4. QED
  BY <1>2, <1>3

\* A step of the page keeps the invariant.
LEMMA PageStepKeeps ==
  ASSUME BuilderAssumption, PageInv, [BuilderNext]_builderVars
  PROVE  PageInv'
<1>1. CASE UNCHANGED <<startTime, file, reading, crashed>>
  BY <1>1 DEF PageInv
<1>2. CASE \E t \in StartTimes \cup {BadTime} : setStartTime(t)
  <2>1. startTime' \in StartTimes \cup {BadTime} /\ UNCHANGED <<file, reading>>
    BY <1>2 DEF setStartTime
  <2>2. startTime' \in Times /\ (~crashed' => startTime' \in Int)
    BY <1>2, <2>1 DEF BuilderAssumption, Times, setStartTime, Renders
  <2>3. QED
    BY <2>1, <2>2 DEF PageInv
<1>3. CASE ~crashed /\ exportDraft
  <2>1. Exported(file')
    BY <1>3, ExportsAreExported
  <2>2. UNCHANGED <<startTime, reading, crashed>>
    BY <1>3 DEF exportDraft, editVars, dragVars
  <2>3. QED
    BY <2>1, <2>2 DEF PageInv
<1>4. CASE \E f \in Files \cup {file} : importDraft(f)
  BY <1>4, FilesAreTakenUp
<1>5. CASE onload
  <2>1. reading # NoFile /\ reading' = NoFile /\ UNCHANGED file
    BY <1>5 DEF onload
  <2>2. startTime' \in Times /\ (~crashed' => startTime' \in Int)
    BY <1>5, <2>1, ReadingsAreTimes
  <2>3. QED
    BY <2>1, <2>2 DEF PageInv
<1>6. CASE DraftNext
  <2>1. ASSUME NEW s, setSeed(s) PROVE UNCHANGED <<startTime, file, reading, crashed>>
    BY <2>1 DEF setSeed
  <2>2. ASSUME NEW x, NEW y, onAdd(x, y) PROVE UNCHANGED <<startTime, file, reading, crashed>>
    BY <2>2 DEF onAdd
  <2>3. ASSUME NEW id, deleteEvent(id) PROVE UNCHANGED <<startTime, file, reading, crashed>>
    BY <2>3 DEF deleteEvent
  <2>4. QED
    BY <1>1, <1>2, <1>6, <2>1, <2>2, <2>3 DEF DraftNext
<1>7. CASE DragNext
  <2>1. ASSUME NEW e, NEW mode, handlePointerDown(e, mode) PROVE UNCHANGED <<startTime, file, reading, crashed>>
    BY <2>1 DEF handlePointerDown, editVars, dragVars
  <2>2. ASSUME NEW delta, handlePointerMove(delta) PROVE UNCHANGED <<startTime, file, reading, crashed>>
    BY <2>2 DEF handlePointerMove
  <2>3. ASSUME handlePointerUp PROVE UNCHANGED <<startTime, file, reading, crashed>>
    BY <2>3 DEF handlePointerUp, editVars, dragVars
  <2>4. QED
    BY <1>1, <1>7, <2>1, <2>2, <2>3 DEF DragNext
<1>8. CASE ~crashed /\ FileNext
  BY <1>3, <1>4, <1>5, <1>8 DEF FileNext
<1>9. CASE validate \/ execute
  BY <1>1, <1>9 DEF validate, execute, editVars, dragVars
<1>10. CASE AnswerNext
  <2>1. ASSUME NEW answer, ValidateAnswers(answer) \/ ExecuteAnswers(answer)
        PROVE  UNCHANGED <<startTime, file, reading, crashed>>
    BY <2>1 DEF ValidateAnswers, ExecuteAnswers, editVars, dragVars
  <2>2. ASSUME NEW p, Finishes(p) PROVE UNCHANGED <<startTime, file, reading, crashed>>
    BY <2>2 DEF Finishes, editVars, dragVars
  <2>3. QED
    BY <1>1, <1>10, <2>1, <2>2 DEF AnswerNext
<1>11. CASE UNCHANGED builderVars
  BY <1>1, <1>11 DEF builderVars, editVars, dragVars
<1>12. QED
  BY <1>6, <1>7, <1>8, <1>9, <1>10, <1>11 DEF BuilderNext

\* One list of the timeline under a drag.
LEMMA OneEventIsDragged ==
  ASSUME NEW events, NEW id, NEW field, NEW value, NEW i \in DOMAIN events,
         MoveOrResize(events, id, field, value)[i] # events[i]
  PROVE  events[i].id = id
BY DEF MoveOrResize

\* TimelineEditor.tsx: what a pointer moves is what it took hold of.
LEMMA DragsTouchOne ==
  ASSUME NEW delta, handlePointerMove(delta)
  PROVE  /\ \A i \in DOMAIN sensorEvents :
              sensorEvents'[i] # sensorEvents[i] => sensorEvents[i].id = dragging.id
         /\ \A j \in DOMAIN permitEvents :
              permitEvents'[j] # permitEvents[j] => permitEvents[j].id = dragging.id
<1>1. PICK field, value : /\ sensorEvents' = MoveOrResize(sensorEvents, dragging.id, field, value)
                          /\ permitEvents' = MoveOrResize(permitEvents, dragging.id, field, value)
  BY DEF handlePointerMove
<1>2. QED
  BY <1>1, OneEventIsDragged

\* importDraft restores what exportDraft wrote, read as local time.
LEMMA ImportsRestore ==
  ASSUME BuilderAssumption, PageInv, reading # NoFile, onload, reading.file = file
  PROVE  LET restored == Draft(seed', startTime', sensorEvents', permitEvents')
         IN  /\ seed' = file.seed
             /\ restored.start_time = file.start_time - Offset
             /\ restored.sensor_events = file.sensor_events
             /\ restored.permit_events = file.permit_events
<1>1. Exported(file)
  <2>1. file = NoFile => reading.file \notin Files
    BY DEF BuilderAssumption
  <2>2. QED
    BY <2>1 DEF PageInv
<1>2. file.kind = "ok" /\ file.start_time \in Int /\ file.start_time \notin {NoFile, BadTime}
  BY <1>1 DEF Exported, BuilderAssumption
<1>3. Restores(file, reading.startTime) /\ reading.startTime = file.start_time
  BY <1>2 DEF onload, PageInv
<1>4. seed' = file.seed /\ startTime' = file.start_time
  BY <1>3 DEF Restores
<1>5. /\ sensorEvents' = WithIds(file.sensor_events, 0)
      /\ permitEvents' = WithIds(file.permit_events, Len(file.sensor_events))
  BY <1>2, <1>3 DEF Restores
<1>6. Strip(sensorEvents') = file.sensor_events /\ Strip(permitEvents') = file.permit_events
  BY <1>1, <1>5, IdsAreStripped DEF Exported
<1> DEFINE restored == Draft(seed', startTime', sensorEvents', permitEvents')
<1>7. restored = [seed |-> seed'.value, integralSeed |-> seed'.integral,
                  start_time |-> IF startTime' = BadTime THEN BadTime ELSE startTime' - Offset,
                  sensor_events |-> Strip(sensorEvents'), permit_events |-> Strip(permitEvents')]
  BY DEF Draft
<1> HIDE DEF restored
<1>8. /\ restored.start_time = IF startTime' = BadTime THEN BadTime ELSE startTime' - Offset
      /\ restored.sensor_events = Strip(sensorEvents') /\ restored.permit_events = Strip(permitEvents')
  BY <1>7
<1>9. QED
  BY <1>2, <1>4, <1>6, <1>8 DEF restored

\* ScenarioBuilderPage.tsx, TimelineEditor.tsx: a drag changes no event but the one with
\* the id it took hold of, and an import of the last export restores seed and events,
\* whatever was edited before it was read, and the start time but for the hours by which
\* local time is ahead of UTC.
THEOREM EditsDoWhatTheyName ==
  ASSUME BuilderAssumption
  PROVE  BuilderSpec => DragTouchesOneEvent /\ ImportRestores
<1> DEFINE Drags == \A delta \in Deltas : handlePointerMove(delta) =>
               /\ \A i \in DOMAIN sensorEvents :
                   sensorEvents'[i] # sensorEvents[i] => sensorEvents[i].id = dragging.id
               /\ \A j \in DOMAIN permitEvents :
                   permitEvents'[j] # permitEvents[j] => permitEvents[j].id = dragging.id
           Imports == reading # NoFile /\ onload /\ reading.file = file =>
               LET restored == Draft(seed', startTime', sensorEvents', permitEvents')
               IN  /\ seed' = file.seed
                   /\ restored.start_time = file.start_time - Offset
                   /\ restored.sensor_events = file.sensor_events
                   /\ restored.permit_events = file.permit_events
<1>1. BuilderInit => PageInv
  BY PageStarts
<1>2. PageInv /\ [BuilderNext]_builderVars => PageInv'
  BY PageStepKeeps
<1>3. Drags
  BY DragsTouchOne
<1>4. PageInv => Imports
  BY ImportsRestore
<1> HIDE DEF Drags, Imports
<1>5. BuilderSpec => [][Drags]_builderVars /\ [][Imports]_builderVars
  BY <1>1, <1>2, <1>3, <1>4, PTL DEF BuilderSpec
<1>6. QED
  BY <1>5 DEF Drags, Imports, DragTouchesOneEvent, ImportRestores
=============================================================================
