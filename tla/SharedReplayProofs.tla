------------------------- MODULE SharedReplayProofs -------------------------
(***************************************************************************)
(* The shared replay cursor, the guided tour and the launch modes over it, *)
(* for any catalogue of scenarios, any histories and any script of scenes. *)
(***************************************************************************)
EXTENDS PresentationTour, LaunchModes, FiniteSetTheorems, SequenceTheorems, WellFoundedInduction, TLAPS

\* A set of natural numbers has a least element.
LEMMA LeastStamp ==
  ASSUME NEW T, T \subseteq Nat, T # {}
  PROVE  \E m \in T : \A k \in T : m <= k
<1>1. \E m \in T : \A k \in T : ~(<<k, m>> \in OpToRel(<, Nat))
  BY WFMin, NatLessThanWellFounded
<1>2. PICK m \in T : \A k \in T : ~(<<k, m>> \in OpToRel(<, Nat))
  BY <1>1
<1>3. \A k \in T : ~(k < m)
  BY <1>2 DEF OpToRel
<1>4. QED
  BY <1>3

\* Natural numbers below a bound have a greatest.
LEMMA GreatestStamp ==
  ASSUME NEW T, T # {}, NEW b \in Nat, T \subseteq 0 .. b
  PROVE  \E m \in T : \A k \in T : k <= m
<1> DEFINE U == {n \in 0 .. b : b - n \in T}
<1>1. U \subseteq Nat
  OBVIOUS
<1>2. U # {}
  <2>1. PICK t : t \in T
    OBVIOUS
  <2>2. b - t \in 0 .. b /\ b - (b - t) = t
    BY <2>1
  <2>3. QED
    BY <2>1, <2>2
<1>3. PICK u \in U : \A k \in U : u <= k
  BY <1>1, <1>2, LeastStamp
<1>4. b - u \in T /\ \A k \in T : k <= b - u
  <2> SUFFICES ASSUME NEW k \in T PROVE k <= b - u
    BY <1>3
  <2>1. b - k \in 0 .. b /\ b - (b - k) = k
    OBVIOUS
  <2>2. b - k \in U
    BY <2>1
  <2>3. u <= b - k
    BY <1>3, <2>2
  <2>4. QED
    BY <1>3, <2>1, <2>3
<1>5. QED
  BY <1>4

\* Least and greatest elements are what Min and Max choose.
LEMMA MinIsLeast ==
  ASSUME NEW T, T \subseteq Nat, T # {}
  PROVE  Min(T) \in T /\ \A k \in T : Min(T) <= k
BY LeastStamp DEF Min

\* Below a bound Max chooses a greatest element.
LEMMA MaxIsGreatest ==
  ASSUME NEW T, T # {}, NEW b \in Nat, T \subseteq 0 .. b
  PROVE  Max(T) \in T /\ \A k \in T : k <= Max(T)
BY GreatestStamp DEF Max

-----------------------------------------------------------------------------
(* The axis of a replay. *)

\* What the cache of a target can hold.
IsHistory(timelines) == timelines = Nothing \/ \E t \in Targets : timelines = Timeline[t]

StampsOf(timelines) == UNION {timelines[z] : z \in Zones}

\* A history is finite.
LEMMA HistoryFacts ==
  ASSUME TimelineAssumption, NEW tl, IsHistory(tl)
  PROVE  /\ \A z \in Zones : tl[z] \subseteq Nat
         /\ StampsOf(tl) \subseteq Nat /\ IsFiniteSet(StampsOf(tl))
         /\ tl \in [Zones -> SUBSET Nat]
         /\ \A z \in Zones : \A s \in tl[z] : s \in StampsOf(tl) /\ Tier[z][s] \in 0 .. 3
<1>1. tl \in [Zones -> SUBSET Nat]
  BY DEF TimelineAssumption, IsHistory, Nothing
<1>2. \A z \in Zones : IsFiniteSet(tl[z])
  <2>1. CASE tl = Nothing
    BY <2>1, FS_EmptySet DEF Nothing
  <2>2. CASE tl # Nothing
    BY <2>2 DEF TimelineAssumption, IsHistory
  <2>3. QED
    BY <2>1, <2>2
<1> DEFINE F == {tl[z] : z \in Zones}
           f == [z \in Zones |-> tl[z]]
<1>3. IsFiniteSet(F)
  <2>1. f \in Surjection(Zones, F)
    BY DEF Surjection
  <2>2. QED
    BY <2>1, FS_Surjection DEF TimelineAssumption
<1>4. \A x \in F : IsFiniteSet(x)
  BY <1>2
<1>5. IsFiniteSet(UNION F)
  <2> HIDE DEF F
  <2>1. QED
    BY <1>3, <1>4, FS_UNION
<1>6. StampsOf(tl) \subseteq Nat /\ \A z \in Zones : \A s \in tl[z] : s \in StampsOf(tl)
  BY <1>1 DEF StampsOf
<1>7. \A z \in Zones : \A s \in tl[z] : Tier[z][s] \in 0 .. 3
  BY DEF TimelineAssumption, IsHistory, Nothing
<1>8. QED
  BY <1>1, <1>5, <1>6, <1>7 DEF StampsOf

Below(S, s) == {u \in S : u <= s}

\* Ranks in a finite set of numbers.
LEMMA RankFacts ==
  ASSUME NEW S, S \subseteq Nat, IsFiniteSet(S)
  PROVE  /\ Cardinality(S) \in Nat
         /\ \A s \in S : Cardinality(Below(S, s)) \in 1 .. Cardinality(S)
         /\ \A s, t \in S : s < t => Cardinality(Below(S, s)) < Cardinality(Below(S, t))
<1>1. Cardinality(S) \in Nat
  BY FS_CardinalityType
<1>2. ASSUME NEW s \in S
      PROVE  /\ IsFiniteSet(Below(S, s)) /\ Cardinality(Below(S, s)) \in Nat
             /\ Cardinality(Below(S, s)) <= Cardinality(S) /\ Cardinality(Below(S, s)) # 0
  <2>1. Below(S, s) \in SUBSET S /\ s \in Below(S, s)
    BY DEF Below
  <2>2. IsFiniteSet(Below(S, s)) /\ Cardinality(Below(S, s)) <= Cardinality(S)
    BY <2>1, FS_Subset
  <2>3. QED
    BY <2>1, <2>2, FS_CardinalityType, FS_EmptySet
<1>3. ASSUME NEW s \in S, NEW t \in S, s < t
      PROVE  Cardinality(Below(S, s)) < Cardinality(Below(S, t))
  <2>1. Below(S, s) \in SUBSET Below(S, t) /\ t \in Below(S, t) /\ t \notin Below(S, s)
    <3>1. s \in Nat /\ t \in Nat
      OBVIOUS
    <3>2. \A u \in S : u \in Nat
      OBVIOUS
    <3>3. (\A u \in S : u <= s => u <= t) /\ t <= t /\ ~(t <= s)
      BY <1>3, <3>1, <3>2
    <3>4. Below(S, s) \in SUBSET Below(S, t)
      BY <3>3 DEF Below
    <3>5. QED
      BY <3>3, <3>4 DEF Below
  <2>2. /\ Cardinality(Below(S, s)) <= Cardinality(Below(S, t))
        /\ Cardinality(Below(S, t)) # Cardinality(Below(S, s))
    BY <1>2, <2>1, FS_Subset
  <2>3. QED
    BY <1>2, <2>2
<1>4. QED
  BY <1>1, <1>2, <1>3

\* Every rank is taken.
LEMMA RanksAreTaken ==
  ASSUME NEW S, S \subseteq Nat, IsFiniteSet(S), NEW n \in 1 .. Cardinality(S)
  PROVE  \E s \in S : Cardinality(Below(S, s)) = n
<1> DEFINE N == Cardinality(S)
           f == [s \in S |-> Cardinality(Below(S, s))]
<1>1. N \in Nat /\ f \in [S -> 1 .. N]
  BY RankFacts
<1>2. \A s, t \in S : s # t => f[s] # f[t]
  <2> SUFFICES ASSUME NEW s \in S, NEW t \in S, s # t
               PROVE  Cardinality(Below(S, s)) # Cardinality(Below(S, t))
    OBVIOUS
  <2>1. s \in Nat /\ t \in Nat
    OBVIOUS
  <2>2. s < t \/ t < s
    BY <2>1
  <2>3. Cardinality(Below(S, s)) \in 1 .. N /\ Cardinality(Below(S, t)) \in 1 .. N
    BY RankFacts
  <2>4. \/ Cardinality(Below(S, s)) < Cardinality(Below(S, t))
        \/ Cardinality(Below(S, t)) < Cardinality(Below(S, s))
    BY <2>2, RankFacts
  <2> HIDE DEF N
  <2>5. QED
    BY <1>1, <2>3, <2>4
<1>3. f \in Injection(S, 1 .. N)
  BY <1>1, <1>2 DEF Injection, IsInjective
<1>4. IsFiniteSet(1 .. N) /\ Cardinality(1 .. N) = N
  BY <1>1, FS_Interval
<1>5. f \in Surjection(S, 1 .. N)
  BY <1>3, <1>4, FS_Injection
<1>6. QED
  BY <1>5 DEF Surjection

\* The shared tick axis has every stamp of every zone once, in ascending order
\* (lib/replayTimeline.ts, mergeTimestamps).
THEOREM AxisIsSorted ==
  ASSUME TimelineAssumption, NEW tl, IsHistory(tl)
  PROVE  LET m == mergeTimestamps(tl)
         IN  /\ m \in Seq(Nat) /\ Len(m) = Cardinality(StampsOf(tl))
             /\ \A i \in 1 .. Len(m) : m[i] \in StampsOf(tl)
             /\ \A s \in StampsOf(tl) : \E i \in 1 .. Len(m) : m[i] = s
             /\ \A i, j \in 1 .. Len(m) : i < j => m[i] < m[j]
<1> DEFINE S == StampsOf(tl)
           N == Cardinality(S)
           at(n) == CHOOSE s \in S : Cardinality(Below(S, s)) = n
           m == mergeTimestamps(tl)
<1>1. S \subseteq Nat /\ IsFiniteSet(S) /\ N \in Nat
  BY HistoryFacts, RankFacts
<1>2. m = [n \in 1 .. N |-> at(n)]
  BY DEF mergeTimestamps, StampsOf, Below
<1>3. ASSUME NEW n \in 1 .. N PROVE at(n) \in S /\ Cardinality(Below(S, at(n))) = n
  <2> HIDE DEF S
  <2>1. \E s \in S : Cardinality(Below(S, s)) = n
    BY <1>1, RanksAreTaken
  <2>2. QED
    BY <2>1
<1> HIDE DEF S, at, m
<1>4. m \in Seq(Nat) /\ Len(m) = N /\ \A i \in 1 .. N : m[i] = at(i)
  <2>1. \A n \in 1 .. N : at(n) \in Nat
    BY <1>1, <1>3
  <2> HIDE DEF N
  <2>2. QED
    BY <1>1, <1>2, <2>1
<1>5. ASSUME NEW s \in S PROVE \E i \in 1 .. N : m[i] = s
  <2> DEFINE i == Cardinality(Below(S, s))
  <2>1. i \in 1 .. N
    BY <1>1, RankFacts
  <2>2. at(i) \in S /\ Cardinality(Below(S, at(i))) = i
    BY <1>3, <2>1
  <2>3. at(i) \in Nat /\ s \in Nat /\ ~(at(i) < s) /\ ~(s < at(i))
    <3>1. at(i) \in Nat /\ s \in Nat
      BY <1>1, <2>2
    <3>2. i \in Int
      <4> HIDE DEF i, N
      <4>1. QED
        BY <1>1, <2>1
    <3>3. at(i) < s => i < i
      BY <1>1, <2>2, RankFacts
    <3>4. s < at(i) => i < i
      BY <1>1, <2>2, RankFacts
    <3> HIDE DEF i
    <3>5. QED
      BY <3>1, <3>2, <3>3, <3>4
  <2>4. at(i) = s
    BY <2>3
  <2>5. QED
    BY <1>4, <2>1, <2>4
<1>6. ASSUME NEW i \in 1 .. N, NEW j \in 1 .. N, i < j PROVE m[i] < m[j]
  <2>1. /\ at(i) \in S /\ Cardinality(Below(S, at(i))) = i
        /\ at(j) \in S /\ Cardinality(Below(S, at(j))) = j
    BY <1>3
  <2>2. at(j) < at(i) => j < i
    BY <1>1, <2>1, RankFacts
  <2>3. at(i) \in Nat /\ at(j) \in Nat /\ at(i) # at(j)
    <3>1. i # j
      BY <1>1, <1>6
    <3>2. QED
      BY <1>1, <2>1, <3>1
  <2>4. QED
    BY <1>1, <1>4, <1>6, <2>2, <2>3
<1>7. QED
  BY <1>3, <1>4, <1>5, <1>6 DEF S, m

\* The index found for an instant is one of the axis, and that of the instant
\* itself when the axis has it.
LEMMA NearestFacts ==
  ASSUME TimelineAssumption, NEW tl, IsHistory(tl), NEW s \in Int
  PROVE  LET m == mergeTimestamps(tl)
             k == findNearestTimestampIndex(m, s)
         IN  /\ Len(m) \in Nat
             /\ Len(m) = 0 => k = 0
             /\ Len(m) # 0 => k \in 0 .. Len(m) - 1
             /\ s \in StampsOf(tl) => Len(m) # 0 /\ m[k + 1] = s
<1> DEFINE m == mergeTimestamps(tl)
           N == Len(m)
           k == findNearestTimestampIndex(m, s)
           delta(i) == Distance(m[i], s)
           first(i) == \A j \in 1 .. N : delta(i) < delta(j) \/ (delta(i) = delta(j) /\ i <= j)
<1>1. /\ m \in Seq(Nat) /\ N \in Nat /\ DOMAIN m = 1 .. N
      /\ \A t \in StampsOf(tl) : \E i \in 1 .. N : m[i] = t
  BY AxisIsSorted
<1> HIDE DEF m
<1>2. \A i \in 1 .. N : m[i] \in Nat /\ delta(i) \in Nat /\ (delta(i) = 0 <=> m[i] = s)
  BY <1>1 DEF Distance
<1>3. CASE N = 0
  <2>1. m = <<>>
    BY <1>1, <1>3
  <2>2. k = 0
    BY <2>1 DEF findNearestTimestampIndex
  <2>3. s \notin StampsOf(tl)
    BY <1>1, <1>3
  <2>4. QED
    BY <1>1, <1>3, <2>2, <2>3 DEF m
<1>4. CASE N # 0
  <2>1. m # <<>> /\ 1 \in 1 .. N
    BY <1>1, <1>4
  <2> DEFINE D == {delta(i) : i \in 1 .. N}
  <2>2. D \subseteq Nat /\ D # {}
    BY <1>2, <2>1
  <2>3. PICK d \in D : \A e \in D : d <= e
    BY <2>2, LeastStamp
  <2> DEFINE I == {i \in 1 .. N : delta(i) = d}
  <2>4. I \subseteq Nat /\ I # {}
    BY <2>3
  <2>5. PICK b \in I : \A i \in I : b <= i
    BY <2>4, LeastStamp
  <2>6. first(b)
    <3> SUFFICES ASSUME NEW j \in 1 .. N
                 PROVE  delta(b) < delta(j) \/ (delta(b) = delta(j) /\ b <= j)
      OBVIOUS
    <3>1. d <= delta(j) /\ delta(b) = d /\ delta(j) \in Nat /\ d \in Nat
      BY <1>2, <2>2, <2>3, <2>5
    <3>2. delta(j) = d => b <= j
      BY <2>5
    <3> HIDE DEF delta
    <3>3. QED
      BY <3>1, <3>2
  <2> DEFINE best == CHOOSE i \in 1 .. N : first(i)
  <2>7. best \in 1 .. N /\ first(best)
    <3>1. \E i \in 1 .. N : first(i)
      BY <2>5, <2>6
    <3> HIDE DEF first
    <3>2. QED
      BY <3>1, Zenon
  <2>8. k = best - 1
    BY <1>1, <2>1 DEF findNearestTimestampIndex
  <2> HIDE DEF best
  <2>9. k \in 0 .. N - 1 /\ k + 1 = best
    BY <1>1, <2>7, <2>8
  <2>10. ASSUME s \in StampsOf(tl) PROVE m[k + 1] = s
    <3>1. PICK j \in 1 .. N : m[j] = s
      BY <1>1, <2>10
    <3>2. delta(j) = 0 /\ delta(best) \in Nat
      BY <1>2, <2>7, <3>1
    <3>3. delta(best) = 0
      BY <2>7, <3>2
    <3>4. QED
      BY <1>2, <2>7, <2>9, <3>3
  <2>11. QED
    BY <1>1, <1>4, <2>9, <2>10 DEF m
<1>5. QED
  BY <1>3, <1>4

-----------------------------------------------------------------------------
(* The replay cursor. *)

\* The cache holds what the backend answered, the cursor and the bookmarks lie
\* on the axis.
ReplayInv ==
    /\ TypeOK
    /\ \A t \in Targets : IsHistory(payload[t])
    /\ CursorInRange
    /\ BookmarksOnAxis

CursorFits(index, length) == IF length = 0 THEN index = 0 ELSE index \in 0 .. length - 1

\* The first tick fits any axis.
LEMMA ZeroFits ==
  ASSUME NEW n \in Nat
  PROVE  CursorFits(0, n)
BY DEF CursorFits

\* The replay of no data.
LEMMA NothingFacts ==
  ASSUME TimelineAssumption
  PROVE  IsHistory(Nothing) /\ StampsOf(Nothing) = {} /\ Len(mergeTimestamps(Nothing)) = 0
<1>1. IsHistory(Nothing)
  BY DEF IsHistory
<1>2. StampsOf(Nothing) = {}
  BY DEF StampsOf, Nothing
<1>3. Len(mergeTimestamps(Nothing)) = Cardinality(StampsOf(Nothing))
  BY <1>1, AxisIsSorted
<1>4. QED
  BY <1>1, <1>2, <1>3, FS_EmptySet

\* What the invariant says of the axis shown.
LEMMA AxisFacts ==
  ASSUME TimelineAssumption, ReplayInv
  PROVE  /\ IsHistory(zone_timelines)
         /\ PayloadStamps = StampsOf(zone_timelines) /\ PayloadStamps \subseteq Nat
         /\ allTimestamps = mergeTimestamps(zone_timelines) /\ allTimestamps \in Seq(Nat)
         /\ Ticks = Len(allTimestamps) /\ Ticks \in Nat
         /\ \A i \in 1 .. Ticks : allTimestamps[i] \in PayloadStamps
         /\ PayloadStamps # {} => Ticks # 0
         /\ currentIndex \in Nat /\ CursorFits(currentIndex, Ticks)
         /\ HasCursor <=> Ticks # 0
         /\ target # NoTarget => target \in Targets
<1>1. IsHistory(zone_timelines)
  BY NothingFacts DEF ReplayInv, TypeOK, zone_timelines
<1>2. PayloadStamps = StampsOf(zone_timelines) /\ PayloadStamps \subseteq Nat
  BY <1>1, HistoryFacts DEF PayloadStamps, StampsOf
<1>3. allTimestamps = mergeTimestamps(zone_timelines) /\ Ticks = Len(allTimestamps)
  BY DEF allTimestamps, Ticks
<1>4. /\ allTimestamps \in Seq(Nat)
      /\ \A i \in 1 .. Ticks : allTimestamps[i] \in PayloadStamps
      /\ \A s \in PayloadStamps : \E i \in 1 .. Ticks : allTimestamps[i] = s
  BY <1>1, <1>2, <1>3, AxisIsSorted
<1>5. Ticks \in Nat
  BY <1>3, <1>4
<1>6. PayloadStamps # {} => Ticks # 0
  BY <1>4, <1>5
<1>7. /\ currentIndex \in Nat /\ CursorFits(currentIndex, Ticks)
      /\ HasCursor <=> Ticks # 0
  BY <1>5 DEF ReplayInv, TypeOK, CursorInRange, HasCursor, CursorFits
<1>8. target # NoTarget => target \in Targets
  BY DEF ReplayInv, TypeOK
<1>9. QED
  BY <1>1, <1>2, <1>3, <1>4, <1>5, <1>6, <1>7, <1>8

\* An action over the same axis keeps the invariant when it keeps the cursor and
\* the bookmarks on it.
LEMMA SameAxis ==
  ASSUME TimelineAssumption, ReplayInv, TypeOK', zone_timelines' = zone_timelines,
         \A t \in Targets : IsHistory(payload'[t]),
         CursorFits(currentIndex', Ticks),
         customBookmarks' \subseteq customBookmarks \cup PayloadStamps
  PROVE  ReplayInv'
<1>1. Ticks' = Ticks /\ PayloadStamps' = PayloadStamps
  BY DEF Ticks, allTimestamps, PayloadStamps
<1>2. CursorInRange'
  BY <1>1 DEF CursorInRange, CursorFits, HasCursor
<1>3. BookmarksOnAxis'
  BY <1>1 DEF ReplayInv, BookmarksOnAxis
<1>4. QED
  BY <1>2, <1>3 DEF ReplayInv

\* The replay of another target starts at its first tick, without bookmarks.
LEMMA NewAxis ==
  ASSUME TimelineAssumption, TypeOK', \A t \in Targets : IsHistory(payload'[t]),
         customBookmarks' = {}, CursorFits(currentIndex', Ticks')
  PROVE  ReplayInv'
<1>1. CursorInRange'
  BY DEF CursorInRange, CursorFits, HasCursor
<1>2. BookmarksOnAxis'
  BY DEF BookmarksOnAxis
<1>3. QED
  BY <1>1, <1>2 DEF ReplayInv

\* A move of the cursor, of the speed or of the play button.
LEMMA MoveKeeps ==
  ASSUME TimelineAssumption, ReplayInv,
         CursorFits(currentIndex', Ticks), playing' \in BOOLEAN, speed' \in SPEED_OPTIONS,
         customBookmarks' \subseteq customBookmarks \cup PayloadStamps,
         UNCHANGED <<executed, cache, target>>
  PROVE  ReplayInv'
<1>1. executed' = executed /\ query' = query /\ payload' = payload /\ target' = target
  BY DEF cache
<1>2. zone_timelines' = zone_timelines
  BY <1>1 DEF zone_timelines
<1>3. TypeOK'
  <2>1. currentIndex' \in Int
    BY AxisFacts DEF CursorFits
  <2>2. customBookmarks' \subseteq Nat
    BY AxisFacts DEF ReplayInv, TypeOK
  <2>3. QED
    BY <1>1, <2>1, <2>2 DEF ReplayInv, TypeOK
<1>4. QED
  BY <1>1, <1>2, <1>3, SameAxis DEF ReplayInv

\* A query that is not the one shown changes, or one without data does.
LEMMA QueryKeeps ==
  ASSUME TimelineAssumption, ReplayInv, executed' \subseteq Targets,
         query' \in [Targets -> {"idle", "pending", "error", "success"}],
         payload' \in [Targets -> [Zones -> SUBSET Nat]],
         \A t \in Targets : IsHistory(payload'[t]),
         zone_timelines' = zone_timelines, UNCHANGED player
  PROVE  ReplayInv'
<1>1. UNCHANGED <<target, currentIndex, playing, speed, customBookmarks>>
  BY DEF player
<1>2. TypeOK'
  BY <1>1 DEF ReplayInv, TypeOK
<1>3. CursorFits(currentIndex', Ticks)
  BY <1>1, AxisFacts
<1>4. QED
  BY <1>1, <1>2, <1>3, SameAxis

\* A replay is started.
LEMMA StartKeeps ==
  ASSUME TimelineAssumption, ReplayInv, NEW t \in Targets, startReplay(t)
  PROVE  ReplayInv'
<1>1. /\ target' = t /\ query' = Fetch(t) /\ currentIndex' = 0 /\ playing' = FALSE
      /\ customBookmarks' = {} /\ executed' = executed /\ payload' = payload /\ speed' = speed
  BY DEF startReplay, TargetEffect
<1>2. query' \in [Targets -> {"idle", "pending", "error", "success"}]
  BY <1>1 DEF ReplayInv, TypeOK, Fetch
<1>3. TypeOK'
  <2>1. currentIndex' \in Int /\ customBookmarks' \subseteq Nat
    BY <1>1
  <2>2. playing' \in BOOLEAN
    BY <1>1
  <2>3. executed' \subseteq Targets /\ target' \in Targets \cup {NoTarget} /\ speed' \in SPEED_OPTIONS
    BY <1>1 DEF ReplayInv, TypeOK
  <2>4. payload' \in [Targets -> [Zones -> SUBSET Nat]]
    BY <1>1 DEF ReplayInv, TypeOK
  <2>5. QED
    BY <1>2, <2>1, <2>2, <2>3, <2>4 DEF TypeOK
<1>4. CursorFits(currentIndex', Ticks')
  <2>1. IsHistory(zone_timelines')
    BY <1>1, NothingFacts DEF ReplayInv, zone_timelines
  <2>2. Ticks' = Len(mergeTimestamps(zone_timelines'))
    BY DEF Ticks, allTimestamps
  <2>3. Ticks' \in Nat
    BY <2>1, <2>2, AxisIsSorted
  <2>4. QED
    BY <1>1, <2>3, ZeroFits
<1>5. QED
  BY <1>1, <1>3, <1>4, NewAxis DEF ReplayInv

\* A replay is left.
LEMMA ExitKeeps ==
  ASSUME TimelineAssumption, ReplayInv, exitReplay
  PROVE  ReplayInv'
<1>1. /\ target' = NoTarget /\ currentIndex' = 0 /\ playing' = FALSE /\ customBookmarks' = {}
      /\ executed' = executed /\ query' = query /\ payload' = payload /\ speed' = speed
  BY DEF exitReplay, TargetEffect, cache
<1>2. TypeOK'
  <2>1. currentIndex' \in Int /\ customBookmarks' \subseteq Nat
    BY <1>1
  <2>2. playing' \in BOOLEAN
    BY <1>1
  <2>3. executed' \subseteq Targets /\ target' \in Targets \cup {NoTarget} /\ speed' \in SPEED_OPTIONS
    BY <1>1 DEF ReplayInv, TypeOK
  <2>4. /\ payload' \in [Targets -> [Zones -> SUBSET Nat]]
        /\ query' \in [Targets -> {"idle", "pending", "error", "success"}]
    BY <1>1 DEF ReplayInv, TypeOK
  <2>5. QED
    BY <2>1, <2>2, <2>3, <2>4 DEF TypeOK
<1>3. zone_timelines' = Nothing
  BY <1>1 DEF zone_timelines
<1>4. Ticks' = 0
  BY <1>3, NothingFacts DEF Ticks, allTimestamps
<1>5. CursorFits(currentIndex', Ticks')
  BY <1>1, <1>4 DEF CursorFits
<1>6. QED
  BY <1>1, <1>2, <1>5, NewAxis DEF ReplayInv

\* While the query of the target has no data there is no tick to be at.
LEMMA PendingFacts ==
  ASSUME TimelineAssumption, ReplayInv, NEW t \in Targets, query[t] # "success"
  PROVE  target = t => /\ zone_timelines = Nothing /\ Ticks = 0 /\ PayloadStamps = {}
                       /\ currentIndex = 0 /\ customBookmarks = {}
<1> SUFFICES ASSUME target = t
             PROVE  /\ zone_timelines = Nothing /\ Ticks = 0 /\ PayloadStamps = {}
                    /\ currentIndex = 0 /\ customBookmarks = {}
  OBVIOUS
<1>1. zone_timelines = Nothing
  BY DEF zone_timelines
<1>2. Ticks = 0 /\ PayloadStamps = {}
  BY <1>1, NothingFacts, AxisFacts
<1>3. currentIndex = 0 /\ customBookmarks = {}
  BY <1>2, AxisFacts DEF ReplayInv, CursorFits, BookmarksOnAxis
<1>4. QED
  BY <1>1, <1>2, <1>3

\* An answer lands in the cache; the cursor stays, or moves on the axis of the
\* answer when that is the one shown.
LEMMA AnswerKeeps ==
  ASSUME TimelineAssumption, ReplayInv, NEW t \in Targets, Answer(t), playing' \in BOOLEAN,
         UNCHANGED <<executed, target, speed, customBookmarks>>,
         \/ currentIndex' = currentIndex
         \/ t = target /\ CursorFits(currentIndex', Len(mergeTimestamps(getReplay(t))))
  PROVE  /\ ReplayInv'
         /\ IsHistory(getReplay(t))
         /\ zone_timelines' = IF t = target THEN getReplay(t) ELSE zone_timelines
<1>1. /\ query[t] = "pending" /\ query' = [query EXCEPT ![t] = "success"]
      /\ payload' = [payload EXCEPT ![t] = getReplay(t)]
      /\ executed' = executed /\ target' = target /\ speed' = speed
      /\ customBookmarks' = customBookmarks
  BY DEF Answer
<1>2. /\ query \in [Targets -> {"idle", "pending", "error", "success"}]
      /\ payload \in [Targets -> [Zones -> SUBSET Nat]]
      /\ \A u \in Targets : IsHistory(payload[u])
      /\ target \in Targets \cup {NoTarget} /\ NoTarget \notin Targets
  BY DEF ReplayInv, TypeOK, TimelineAssumption
<1>3. IsHistory(getReplay(t)) /\ getReplay(t) \in [Zones -> SUBSET Nat]
  <2>1. IsHistory(getReplay(t))
    BY NothingFacts DEF getReplay, IsHistory
  <2>2. QED
    BY <2>1, HistoryFacts
<1>4. /\ query' \in [Targets -> {"idle", "pending", "error", "success"}]
      /\ payload' \in [Targets -> [Zones -> SUBSET Nat]]
      /\ \A u \in Targets : IsHistory(payload'[u])
      /\ query'[t] = "success" /\ payload'[t] = getReplay(t)
      /\ \A u \in Targets \ {t} : query'[u] = query[u] /\ payload'[u] = payload[u]
  BY <1>1, <1>2, <1>3
<1>5. zone_timelines' = IF t = target THEN getReplay(t) ELSE zone_timelines
  BY <1>1, <1>2, <1>4 DEF zone_timelines
<1>6. CASE t # target
  <2>1. CursorFits(currentIndex', Ticks) /\ currentIndex' \in Int
    BY <1>6, AxisFacts
  <2>2. TypeOK'
    BY <1>1, <1>4, <2>1 DEF ReplayInv, TypeOK
  <2>3. QED
    BY <1>1, <1>3, <1>4, <1>5, <1>6, <2>1, <2>2, SameAxis
<1>7. CASE t = target
  <2>1. currentIndex = 0 /\ customBookmarks = {}
    BY <1>1, <1>7, PendingFacts
  <2>2. Ticks' = Len(mergeTimestamps(getReplay(t)))
    BY <1>5, <1>7 DEF Ticks, allTimestamps
  <2>3. Ticks' \in Nat
    BY <1>3, <2>2, AxisIsSorted
  <2>4. CursorFits(currentIndex', Ticks') /\ currentIndex' \in Int
    BY <2>1, <2>2, <2>3, ZeroFits DEF CursorFits
  <2>5. TypeOK'
    BY <1>1, <1>4, <2>4 DEF ReplayInv, TypeOK
  <2>6. QED
    BY <1>1, <1>3, <1>4, <1>5, <2>1, <2>4, <2>5, NewAxis
<1>8. QED
  BY <1>6, <1>7

\* Where the controls put the cursor.
LEMMA ControlsFit ==
  ASSUME NEW n \in Nat \ {0}, NEW k \in Nat, CursorFits(k, n), NEW i \in 0 .. n - 1
  PROVE  /\ CursorFits(IF k + 1 < n - 1 THEN k + 1 ELSE n - 1, n)
         /\ CursorFits(IF k - 1 > 0 THEN k - 1 ELSE 0, n)
         /\ CursorFits(LET low == IF i < n - 1 THEN i ELSE n - 1 IN IF low > 0 THEN low ELSE 0, n)
         /\ k >= n - 1 \/ CursorFits(k + 1, n)
BY DEF CursorFits

\* A jump lands on the axis.
LEMMA JumpFits ==
  ASSUME TimelineAssumption, ReplayInv, NEW s \in Int
  PROVE  CursorFits(findNearestTimestampIndex(allTimestamps, s), Ticks)
<1>1. IsHistory(zone_timelines) /\ allTimestamps = mergeTimestamps(zone_timelines) /\ Ticks = Len(allTimestamps)
  BY AxisFacts
<1>2. QED
  BY <1>1, NearestFacts DEF CursorFits

\* MoveTo keeps the invariant.
LEMMA MoveToKeeps ==
  ASSUME TimelineAssumption, ReplayInv, NEW index, CursorFits(index, Ticks), MoveTo(index)
  PROVE  ReplayInv'
<1>1. playing' \in BOOLEAN
  BY DEF MoveTo
<1>2. /\ currentIndex' = index /\ executed' = executed /\ cache' = cache /\ target' = target
      /\ speed' = speed /\ customBookmarks' = customBookmarks
  BY DEF MoveTo
<1>3. speed' \in SPEED_OPTIONS
  BY <1>2 DEF ReplayInv, TypeOK
<1>4. QED
  BY <1>1, <1>2, <1>3, MoveKeeps

\* A jump of a control, a bookmark or a timeline node.
LEMMA JumpKeeps ==
  ASSUME TimelineAssumption, ReplayInv, NEW s \in Int, jumpToTimestamp(s)
  PROVE  ReplayInv'
BY JumpFits, MoveToKeeps DEF jumpToTimestamp

\* A click on a tick.
LEMMA ScrubKeeps ==
  ASSUME TimelineAssumption, ReplayInv, Ticks > 0, NEW i \in 0 .. Ticks - 1, scrubToIndex(i)
  PROVE  ReplayInv'
<1>1. Ticks \in Nat /\ currentIndex \in Nat /\ CursorFits(currentIndex, Ticks)
  BY AxisFacts
<1>2. PICK n \in Nat \ {0} : n = Ticks
  BY <1>1
<1>3. CursorFits(LET low == IF i < Ticks - 1 THEN i ELSE Ticks - 1 IN IF low > 0 THEN low ELSE 0, Ticks)
  BY <1>1, <1>2, ControlsFit
<1>4. QED
  BY <1>3, MoveToKeeps DEF scrubToIndex

\* The buttons of the controller.
LEMMA ControllerKeeps ==
  ASSUME TimelineAssumption, ReplayInv, ReplayController
  PROVE  ReplayInv'
<1>1. Ticks > 0
  BY DEF ReplayController, ControllerShown
<1>2. Ticks \in Nat /\ currentIndex \in Nat /\ CursorFits(currentIndex, Ticks)
  BY AxisFacts
<1>3. PICK n \in Nat \ {0} : n = Ticks
  BY <1>1, <1>2
<1>4. 0 \in 0 .. n - 1
  BY <1>3
<1>5. CASE reset
  BY <1>2, <1>5, ZeroFits, MoveToKeeps DEF reset
<1>6. CASE previous
  BY <1>2, <1>3, <1>4, <1>6, ControlsFit, MoveToKeeps DEF previous
<1>7. CASE next
  BY <1>2, <1>3, <1>4, <1>7, ControlsFit, MoveToKeeps DEF next
<1>8. ASSUME NEW on \in BOOLEAN, SetPlaying(on) PROVE ReplayInv'
  <2>1. playing' \in BOOLEAN
    BY <1>8 DEF SetPlaying
  <2>2. /\ currentIndex' = currentIndex /\ executed' = executed /\ cache' = cache /\ target' = target
        /\ speed' = speed /\ customBookmarks' = customBookmarks
    BY <1>8 DEF SetPlaying
  <2>3. speed' \in SPEED_OPTIONS
    BY <2>2 DEF ReplayInv, TypeOK
  <2>4. QED
    BY <1>2, <2>1, <2>2, <2>3, MoveKeeps
<1>9. ASSUME NEW s \in SPEED_OPTIONS, setSpeed(s) PROVE ReplayInv'
  <2>1. /\ currentIndex' = currentIndex /\ executed' = executed /\ cache' = cache /\ target' = target
        /\ speed' = s /\ customBookmarks' = customBookmarks /\ playing' = playing
    BY <1>9 DEF setSpeed
  <2>2. playing' \in BOOLEAN
    BY <2>1 DEF ReplayInv, TypeOK
  <2>3. QED
    BY <1>2, <2>1, <2>2, MoveKeeps
<1>10. ASSUME NEW s \in Instants, jumpToTimestamp(s) PROVE ReplayInv'
  BY <1>10, JumpKeeps DEF TimelineAssumption
<1>11. CASE exitReplay
  BY <1>11, ExitKeeps
<1>12. ASSUME NEW i \in 0 .. Ticks - 1, scrubToIndex(i) PROVE ReplayInv'
  BY <1>1, <1>12, ScrubKeeps
<1>13. QED
  BY <1>5, <1>6, <1>7, <1>8, <1>9, <1>10, <1>11, <1>12 DEF ReplayController

\* The interval that plays the replay.
LEMMA TickKeeps ==
  ASSUME TimelineAssumption, ReplayInv, Tick
  PROVE  ReplayInv'
<1>1. Ticks \in Nat /\ Ticks > 0 /\ currentIndex \in Nat /\ CursorFits(currentIndex, Ticks)
  BY AxisFacts DEF Tick
<1>2. PICK n \in Nat \ {0} : n = Ticks
  BY <1>1
<1>3. 0 \in 0 .. n - 1
  BY <1>2
<1>4. CursorFits(currentIndex', Ticks)
  <2>1. CASE currentIndex >= Ticks - 1
    BY <1>1, <2>1 DEF Tick
  <2>2. CASE ~(currentIndex >= Ticks - 1)
    BY <1>1, <1>2, <1>3, <2>2, ControlsFit DEF Tick
  <2>3. QED
    BY <2>1, <2>2
<1>5. playing' \in BOOLEAN
  BY DEF Tick, ReplayInv, TypeOK
<1>6. /\ executed' = executed /\ cache' = cache /\ target' = target
      /\ speed' = speed /\ customBookmarks' = customBookmarks
  BY DEF Tick
<1>7. speed' \in SPEED_OPTIONS
  BY <1>6 DEF ReplayInv, TypeOK
<1>8. QED
  BY <1>4, <1>5, <1>6, <1>7, MoveKeeps

\* The bookmarks panel sets and visits stamps of the axis.
LEMMA BookmarksKeep ==
  ASSUME TimelineAssumption, ReplayInv, BookmarksPanel
  PROVE  ReplayInv'
<1>1. CASE addCustomBookmark
  <2>1. /\ HasCursor /\ customBookmarks' = customBookmarks \cup {currentTimestamp}
        /\ currentIndex' = currentIndex /\ executed' = executed /\ cache' = cache /\ target' = target
        /\ speed' = speed /\ playing' = playing
    BY <1>1 DEF addCustomBookmark
  <2>2. currentTimestamp \in PayloadStamps
    <3>1. /\ \A i \in 1 .. Ticks : allTimestamps[i] \in PayloadStamps
          /\ Ticks \in Nat
      BY AxisFacts
    <3>2. currentIndex + 1 \in 1 .. Ticks
      BY <2>1, <3>1 DEF HasCursor
    <3>3. QED
      BY <3>1, <3>2 DEF currentTimestamp
  <2>3. CursorFits(currentIndex', Ticks)
    BY <2>1, AxisFacts
  <2>4. playing' \in BOOLEAN
    BY <2>1 DEF ReplayInv, TypeOK
  <2>5. speed' \in SPEED_OPTIONS
    BY <2>1 DEF ReplayInv, TypeOK
  <2>6. QED
    BY <2>1, <2>2, <2>3, <2>4, <2>5, MoveKeeps
<1>2. ASSUME NEW s \in PayloadStamps \cup customBookmarks, jumpToTimestamp(s) PROVE ReplayInv'
  <2>1. s \in Int
    BY AxisFacts DEF ReplayInv, BookmarksOnAxis
  <2>2. QED
    BY <1>2, <2>1, JumpKeeps
<1>3. QED
  BY <1>1, <1>2 DEF BookmarksPanel

\* The server, the network and the query cache.
LEMMA ExecuteKeeps ==
  ASSUME TimelineAssumption, ReplayInv, NEW t \in Targets, Execute(t)
  PROVE  ReplayInv'
<1>1. executed' = executed \cup {t} /\ query' = query /\ payload' = payload /\ player' = player
  BY DEF Execute, cache
<1>2. target' = target
  BY <1>1 DEF player
<1>3. zone_timelines' = zone_timelines
  BY <1>1, <1>2 DEF zone_timelines
<1>4. QED
  BY <1>1, <1>3, QueryKeeps DEF ReplayInv, TypeOK

\* A query without data that is retried, or fails.
LEMMA FetchKeeps ==
  ASSUME TimelineAssumption, ReplayInv, NEW t \in Targets, query[t] # "success",
         NEW outcome \in {"pending", "error"}, query' = [query EXCEPT ![t] = outcome],
         UNCHANGED <<executed, payload, player>>
  PROVE  ReplayInv'
<1>1. target' = target
  BY DEF player
<1>2. zone_timelines' = zone_timelines
  BY <1>1 DEF zone_timelines, ReplayInv, TypeOK
<1>3. query' \in [Targets -> {"idle", "pending", "error", "success"}]
  BY DEF ReplayInv, TypeOK
<1>4. QED
  BY <1>2, <1>3, QueryKeeps DEF ReplayInv, TypeOK

\* A query nobody looks at is dropped.
LEMMA CollectKeeps ==
  ASSUME TimelineAssumption, ReplayInv, NEW t \in Targets, GarbageCollect(t)
  PROVE  ReplayInv'
<1>1. /\ t # target /\ query' = [query EXCEPT ![t] = "idle"]
      /\ payload' = [payload EXCEPT ![t] = Nothing] /\ executed' = executed /\ player' = player
  BY DEF GarbageCollect
<1>2. target' = target
  BY <1>1 DEF player
<1>3. /\ query' \in [Targets -> {"idle", "pending", "error", "success"}]
      /\ \A u \in Targets \ {t} : query'[u] = query[u] /\ payload'[u] = payload[u]
  BY <1>1 DEF ReplayInv, TypeOK
<1>4. payload' \in [Targets -> [Zones -> SUBSET Nat]]
  BY <1>1, NothingFacts, HistoryFacts DEF ReplayInv, TypeOK
<1>5. \A u \in Targets : IsHistory(payload'[u])
  BY <1>1, NothingFacts DEF ReplayInv, TypeOK
<1>6. zone_timelines' = zone_timelines
  BY <1>1, <1>2, <1>3 DEF zone_timelines, ReplayInv, TypeOK
<1>7. executed' \subseteq Targets
  BY <1>1 DEF ReplayInv, TypeOK
<1>8. QED
  BY <1>1, <1>3, <1>4, <1>5, <1>6, <1>7, QueryKeeps
\* A page is opened on an empty cache.
LEMMA InitReplay ==
  ASSUME TimelineAssumption, Init
  PROVE  ReplayInv /\ zone_timelines = Nothing
<1>1. zone_timelines = Nothing
  BY DEF Init, zone_timelines
<1>2. Ticks = 0 /\ currentIndex = 0 /\ customBookmarks = {}
  BY <1>1, NothingFacts DEF Ticks, allTimestamps, Init
<1>3. Nothing \in [Zones -> SUBSET Nat] /\ IsHistory(Nothing)
  BY NothingFacts, HistoryFacts
<1>4. speed \in SPEED_OPTIONS
  BY DEF Init, TimelineAssumption
<1>5. playing \in BOOLEAN
  BY DEF Init
<1>6. executed \subseteq Targets /\ query \in [Targets -> {"idle", "pending", "error", "success"}]
  BY DEF Init
<1>7. payload \in [Targets -> [Zones -> SUBSET Nat]] /\ \A t \in Targets : IsHistory(payload[t])
  BY <1>3 DEF Init
<1>8. target \in Targets \cup {NoTarget}
  BY DEF Init
<1>9. currentIndex \in Int /\ customBookmarks \subseteq Nat
  BY <1>2
<1>10. TypeOK
  BY <1>4, <1>5, <1>6, <1>7, <1>8, <1>9 DEF TypeOK
<1>11. CursorInRange /\ BookmarksOnAxis
  BY <1>2 DEF CursorInRange, BookmarksOnAxis
<1>12. QED
  BY <1>1, <1>7, <1>10, <1>11 DEF ReplayInv

\* Every handler, answer and timer keeps the invariant.
LEMMA NextReplay ==
  ASSUME TimelineAssumption, ReplayInv, [Next]_vars
  PROVE  ReplayInv'
<1>1. CASE ReplayController
  BY <1>1, ControllerKeeps
<1>2. CASE BookmarksPanel
  BY <1>2, BookmarksKeep
<1>3. CASE ScenarioLauncher
  BY <1>3, StartKeeps DEF ScenarioLauncher, ScenarioPicker
<1>4. CASE DemoTimelinePage
  BY <1>4, ScrubKeeps DEF DemoTimelinePage, ControllerShown
<1>5. CASE Relaunch
  BY <1>5, StartKeeps DEF Relaunch
<1>6. CASE Tick
  BY <1>6, TickKeeps
<1>7. CASE Environment
  <2>1. ASSUME NEW t \in Targets, Execute(t) PROVE ReplayInv'
    BY <2>1, ExecuteKeeps
  <2>2. ASSUME NEW t \in Targets, Arrive(t) PROVE ReplayInv'
    <3>1. Answer(t) /\ executed' = executed /\ target' = target /\ speed' = speed
          /\ customBookmarks' = customBookmarks /\ currentIndex' = currentIndex /\ playing' = playing
      BY <2>2 DEF Arrive, player
    <3>2. playing' \in BOOLEAN
      BY <3>1 DEF ReplayInv, TypeOK
    <3>3. QED
      BY <3>1, <3>2, AnswerKeeps
  <2>3. ASSUME NEW t \in Targets, Fail(t) PROVE ReplayInv'
    BY <2>3, FetchKeeps DEF Fail
  <2>4. ASSUME NEW t \in Targets, GarbageCollect(t) PROVE ReplayInv'
    BY <2>4, CollectKeeps
  <2>5. CASE WindowFocus
    <3>1. target \in Targets
      BY <2>5, AxisFacts DEF WindowFocus
    <3>2. QED
      BY <2>5, <3>1, FetchKeeps DEF WindowFocus
  <2>6. QED
    BY <1>7, <2>1, <2>2, <2>3, <2>4, <2>5 DEF Environment
<1>8. CASE UNCHANGED vars
  <2>1. /\ executed' = executed /\ query' = query /\ payload' = payload /\ player' = player
        /\ target' = target
    BY <1>8 DEF vars, cache, player
  <2>2. zone_timelines' = zone_timelines
    BY <2>1 DEF zone_timelines
  <2>3. QED
    BY <2>1, <2>2, QueryKeeps DEF ReplayInv, TypeOK
<1>9. QED
  BY <1>1, <1>2, <1>3, <1>4, <1>5, <1>6, <1>7, <1>8 DEF Next

\* What holds of every replay.
LEMMA ReplayInvariant ==
  ASSUME TimelineAssumption
  PROVE  Spec => []ReplayInv
<1>1. Init => ReplayInv
  BY InitReplay
<1>2. ReplayInv /\ [Next]_vars => ReplayInv'
  BY NextReplay
<1>3. QED
  BY <1>1, <1>2, PTL DEF Spec

\* The shared cursor names a tick of the replay that is loaded, and the custom
\* bookmarks lie on its axis, whatever the controls, the pages, the interval and
\* late answers do (context/ReplayContext.tsx).
THEOREM CursorStaysOnAxis ==
  ASSUME TimelineAssumption
  PROVE  Spec => [](TypeOK /\ CursorInRange /\ BookmarksOnAxis)
<1>1. ReplayInv => TypeOK /\ CursorInRange /\ BookmarksOnAxis
  BY DEF ReplayInv
<1>2. QED
  BY <1>1, ReplayInvariant, PTL

\* A jump to a stamp of the replay lands on its tick.
LEMMA JumpLands ==
  ASSUME TimelineAssumption, ReplayInv
  PROVE  [\A s \in PayloadStamps : jumpToTimestamp(s) => allTimestamps[currentIndex' + 1] = s]_vars
<1>1. ASSUME NEW s \in PayloadStamps, jumpToTimestamp(s)
      PROVE  allTimestamps[currentIndex' + 1] = s
  <2>1. /\ IsHistory(zone_timelines) /\ allTimestamps = mergeTimestamps(zone_timelines)
        /\ s \in StampsOf(zone_timelines) /\ s \in Int
    BY <1>1, AxisFacts
  <2>2. currentIndex' = findNearestTimestampIndex(allTimestamps, s)
    BY <1>1 DEF jumpToTimestamp, MoveTo
  <2>3. QED
    BY <2>1, <2>2, NearestFacts
<1>2. QED
  BY <1>1

\* A click on a bookmark or on a node of the Decision Timeline lands on that very
\* tick (lib/replayTimeline.ts, findNearestTimestampIndex).
THEOREM JumpsLand ==
  ASSUME TimelineAssumption
  PROVE  Spec => JumpLandsOnStamp
BY JumpLands, ReplayInvariant, PTL DEF JumpLandsOnStamp

\* The first zone of the worst rank has the worst rank.
LEMMA WorstZone ==
  ASSUME NEW Z, Z \subseteq Nat, Z # {}, NEW b \in Nat, NEW r \in [Z -> 0 .. b]
  PROVE  \E w \in Z : /\ r[w] = Max({r[z] : z \in Z})
                      /\ \A y \in Z : r[w] > r[y] \/ (r[w] = r[y] /\ w <= y)
<1> DEFINE R == {r[z] : z \in Z}
           worst(z) == \A y \in Z : r[z] > r[y] \/ (r[z] = r[y] /\ z <= y)
<1>1. R # {} /\ R \subseteq 0 .. b
  OBVIOUS
<1>2. Max(R) \in R /\ \A k \in R : k <= Max(R)
  BY <1>1, MaxIsGreatest
<1> DEFINE top == Max(R)
           W == {z \in Z : r[z] = top}
<1>3. W \subseteq Nat /\ W # {}
  BY <1>2
<1>4. PICK w \in W : \A k \in W : w <= k
  BY <1>3, LeastStamp
<1>5. worst(w)
  <2> SUFFICES ASSUME NEW y \in Z PROVE r[w] > r[y] \/ (r[w] = r[y] /\ w <= y)
    OBVIOUS
  <2>1. r[y] <= top /\ r[w] = top /\ r[y] \in Int /\ top \in Int
    BY <1>1, <1>2, <1>4
  <2>2. r[y] = top => w <= y
    BY <1>4
  <2> HIDE DEF top
  <2>3. QED
    BY <2>1, <2>2
<1>6. QED
  BY <1>4, <1>5

\* What the views show of a zone: the newest stamp at or before the cursor.
LEMMA ShownFacts ==
  ASSUME TimelineAssumption, ReplayInv, HasCursor, NEW z \in Zones
  PROVE  /\ currentTimestamp \in PayloadStamps /\ currentTimestamp \in Nat
         /\ upToCursor(z) \subseteq zone_timelines[z] /\ upToCursor(z) \subseteq 0 .. currentTimestamp
         /\ upToCursor(z) = {} => assessmentAt(z) = {}
         /\ upToCursor(z) # {} =>
              /\ assessmentAt(z) = {Max(upToCursor(z))} /\ Max(upToCursor(z)) \in upToCursor(z)
              /\ \A s \in upToCursor(z) : s <= Max(upToCursor(z))
              /\ rankAtCursor(z) = Tier[z][Max(upToCursor(z))] /\ rankAtCursor(z) \in 0 .. 3
<1>1. currentTimestamp \in PayloadStamps /\ currentTimestamp \in Nat
  <2>1. /\ \A i \in 1 .. Ticks : allTimestamps[i] \in PayloadStamps
        /\ Ticks \in Nat /\ PayloadStamps \subseteq Nat
    BY AxisFacts
  <2>2. currentIndex + 1 \in 1 .. Ticks
    BY <2>1 DEF HasCursor
  <2>3. QED
    BY <2>1, <2>2 DEF currentTimestamp
<1>2. /\ upToCursor(z) = {s \in zone_timelines[z] : s <= currentTimestamp}
      /\ zone_timelines[z] \subseteq Nat
      /\ \A s \in zone_timelines[z] : Tier[z][s] \in 0 .. 3
  BY AxisFacts, HistoryFacts DEF upToCursor
<1>3. upToCursor(z) \subseteq zone_timelines[z] /\ upToCursor(z) \subseteq 0 .. currentTimestamp
  BY <1>1, <1>2
<1>4. assessmentAt(z) = IF upToCursor(z) = {} THEN {} ELSE {Max(upToCursor(z))}
  BY <1>2 DEF assessmentAt, assessmentAtOrBefore
<1>5. ASSUME upToCursor(z) # {}
      PROVE  /\ Max(upToCursor(z)) \in upToCursor(z)
             /\ \A s \in upToCursor(z) : s <= Max(upToCursor(z))
             /\ rankAtCursor(z) = Tier[z][Max(upToCursor(z))] /\ rankAtCursor(z) \in 0 .. 3
  <2>1. Max(upToCursor(z)) \in upToCursor(z) /\ \A s \in upToCursor(z) : s <= Max(upToCursor(z))
    BY <1>1, <1>3, <1>5, MaxIsGreatest
  <2>2. rankAtCursor(z) = Tier[z][Max(upToCursor(z))]
    BY <1>4, <1>5 DEF rankAtCursor
  <2>3. QED
    BY <1>2, <1>3, <2>1, <2>2
<1>6. QED
  BY <1>1, <1>3, <1>4, <1>5

\* Every synchronized view tells the same story at the cursor.
LEMMA ViewsFollow ==
  ASSUME TimelineAssumption, ReplayInv
  PROVE  ViewsAgree
<1> USE DEF boardShown
<1>1. CASE ~HasCursor
  <2>1. \A z \in Zones : upToCursor(z) = {} /\ assessmentAt(z) = {}
    BY <1>1 DEF upToCursor, assessmentAt
  <2>2. assessmentsAtCursor = {} /\ displayZone = {} /\ StoryLines = {}
    BY <2>1 DEF assessmentsAtCursor, displayZone, StoryLines
  <2>3. ~boardShown
    BY <1>1, AxisFacts
  <2>4. QED
    BY <1>1, <2>1, <2>2, <2>3 DEF ViewsAgree
<1>2. CASE HasCursor
  <2> DEFINE seen == assessmentsAtCursor
             r == [z \in seen |-> rankAtCursor(z)]
  <2>1. \A z \in Zones : IF upToCursor(z) = {} THEN assessmentAt(z) = {}
                         ELSE assessmentAt(z) = {Max(upToCursor(z))}
    BY <1>2, ShownFacts
  <2>2. seen = {z \in Zones : upToCursor(z) # {}} /\ seen \subseteq Nat
    BY <2>1 DEF assessmentsAtCursor, TimelineAssumption
  <2>3. r \in [seen -> 0 .. 3]
    BY <1>2, <2>2, ShownFacts
  <2>4. worstTier = IF EventZone(currentIndex) = {} THEN -1
                    ELSE rankAtCursor(CHOOSE z \in EventZone(currentIndex) : TRUE)
    <3> DEFINE best == CHOOSE z \in seen : \A y \in seen : r[z] > r[y] \/ (r[z] = r[y] /\ z <= y)
               first == CHOOSE z \in seen : \A y \in seen :
                           \/ rankAtCursor(z) > rankAtCursor(y)
                           \/ rankAtCursor(z) = rankAtCursor(y) /\ z <= y
    <3>1. EventZone(currentIndex) = IF seen = {} THEN {} ELSE {first}
      BY <1>2 DEF EventZone, assessmentsAtCursor, rankAtCursor, assessmentAt, currentTimestamp
    <3>2. first = best
      OBVIOUS
    <3>3. CASE seen = {}
      BY <3>1, <3>3 DEF worstTier
    <3>4. CASE seen # {}
      <4>1. best \in seen /\ Max({r[z] : z \in seen}) = r[best]
        <5> DEFINE worst(z) == \A y \in seen : r[z] > r[y] \/ (r[z] = r[y] /\ z <= y)
        <5> HIDE DEF seen, r
        <5>1. PICK w \in seen : r[w] = Max({r[z] : z \in seen}) /\ worst(w)
          <6>1. PICK b \in Nat : b = 3
            OBVIOUS
          <6>2. r \in [seen -> 0 .. b]
            BY <2>3, <6>1
          <6>3. QED
            BY <2>2, <3>4, <6>2, WorstZone
        <5>2. best \in seen /\ worst(best)
          BY <5>1, Zenon
        <5> HIDE DEF best
        <5>3. r[best] \in Int /\ r[w] \in Int
          BY <2>3, <5>1, <5>2
        <5>4. r[best] = r[w]
          BY <5>1, <5>2, <5>3
        <5>5. QED
          BY <5>1, <5>2, <5>4
      <4> HIDE DEF best
      <4>2. {r[z] : z \in seen} = {rankAtCursor(z) : z \in seen}
        OBVIOUS
      <4>3. worstTier = rankAtCursor(best)
        BY <3>4, <4>1, <4>2 DEF worstTier
      <4> HIDE DEF first
      <4>4. QED
        BY <3>1, <3>2, <3>4, <4>3
    <3>5. QED
      BY <3>3, <3>4
  <2>5. \A z \in displayZone : previousAssessment(z) \subseteq upToCursor(z) \ assessmentAt(z)
    <3> SUFFICES ASSUME NEW z \in displayZone, NEW p \in previousAssessment(z)
                 PROVE  p \in upToCursor(z) /\ p \notin assessmentAt(z)
      OBVIOUS
    <3>1. seen # {} /\ z = Min(seen)
      BY DEF displayZone
    <3>2. z \in seen /\ z \in Zones /\ upToCursor(z) # {}
      <4> HIDE DEF seen
      <4>1. z \in seen
        BY <2>2, <3>1, MinIsLeast
      <4>2. QED
        BY <2>2, <4>1
    <3> DEFINE top == Max(upToCursor(z))
               before == {s \in zone_timelines[z] : \E now \in assessmentAt(z) : s < now}
    <3>3. /\ assessmentAt(z) = {top} /\ top \in upToCursor(z) /\ upToCursor(z) \subseteq 0 .. currentTimestamp
          /\ currentTimestamp \in Nat
      BY <1>2, <3>2, ShownFacts
    <3> HIDE DEF top
    <3>4. top \in Nat /\ top <= currentTimestamp
      BY <3>3
    <3>5. zone_timelines[z] \subseteq Nat
      BY <3>2, AxisFacts, HistoryFacts
    <3>6. before = {s \in zone_timelines[z] : s < top} /\ before \subseteq 0 .. top
      BY <3>3, <3>4, <3>5
    <3>7. before # {} /\ p = Max(before)
      BY DEF previousAssessment
    <3> HIDE DEF before
    <3>8. p \in before
      BY <3>4, <3>6, <3>7, MaxIsGreatest
    <3>9. p \in zone_timelines[z] /\ p < top /\ p \in Nat
      BY <3>5, <3>6, <3>8
    <3>10. p <= currentTimestamp /\ p # top
      BY <3>3, <3>4, <3>9
    <3>11. QED
      BY <1>2, <3>3, <3>9, <3>10 DEF upToCursor
  <2>6. displayZone # {}
    <3>1. currentTimestamp \in Nat /\ \E z \in Zones : currentTimestamp \in zone_timelines[z]
      <4>1. currentTimestamp \in PayloadStamps /\ currentTimestamp \in Nat
        <5>1. /\ \A i \in 1 .. Ticks : allTimestamps[i] \in PayloadStamps
              /\ Ticks \in Nat /\ PayloadStamps \subseteq Nat
          BY AxisFacts
        <5>2. currentIndex + 1 \in 1 .. Ticks
          BY <1>2, <5>1 DEF HasCursor
        <5>3. QED
          BY <5>1, <5>2 DEF currentTimestamp
      <4>2. QED
        BY <4>1 DEF PayloadStamps
    <3>2. PICK z \in Zones : currentTimestamp \in zone_timelines[z]
      BY <3>1
    <3>3. currentTimestamp \in upToCursor(z)
      BY <1>2, <3>1, <3>2 DEF upToCursor
    <3>4. QED
      BY <2>2, <3>3 DEF displayZone
  <2>7. {line[1] : line \in StoryLines} = assessmentsAtCursor
    <3>1. \A z : z \in {line[1] : line \in StoryLines} <=> z \in Zones /\ upToCursor(z) # {}
      <4>1. ASSUME NEW line \in StoryLines PROVE line[1] \in Zones /\ upToCursor(line[1]) # {}
        BY <4>1 DEF StoryLines
      <4>2. ASSUME NEW z \in Zones, upToCursor(z) # {} PROVE \E line \in StoryLines : line[1] = z
        <5>1. PICK s : s \in upToCursor(z)
          BY <4>2
        <5>2. <<z, s>> \in StoryLines
          BY <5>1 DEF StoryLines
        <5>3. QED
          BY <5>2
      <4>3. QED
        BY <4>1, <4>2
    <3>2. QED
      BY <2>2, <3>1
  <2>8. QED
    BY <2>1, <2>4, <2>5, <2>6, <2>7 DEF ViewsAgree
<1>3. QED
  BY <1>1, <1>2

\* Time Machine, the demo timeline, Decision Evolution and the executive story
\* show one assessment per zone, one plant tier and one set of zones at every
\* position of the cursor, although each page computes them in its own way.
THEOREM ViewsTellTheSameStory ==
  ASSUME TimelineAssumption
  PROVE  Spec => []ViewsAgree
<1>1. ReplayInv => ViewsAgree
  BY ViewsFollow
<1>2. QED
  BY <1>1, ReplayInvariant, PTL

\* What the invariant makes of any behaviour that keeps it, whichever page drives
\* the replay.
LEMMA KeptIsCoherent ==
  ASSUME TimelineAssumption
  PROVE  []ReplayInv => ReplayIsCoherent
<1>1. ReplayInv => TypeOK /\ CursorInRange /\ BookmarksOnAxis /\ ViewsAgree
  BY ViewsFollow DEF ReplayInv
<1>2. QED
  BY <1>1, JumpLands, PTL DEF ReplayIsCoherent, JumpLandsOnStamp

\* ReplayContext as a whole, for any targets, zones, histories and speeds.
THEOREM ReplayStaysCoherent ==
  ASSUME TimelineAssumption
  PROVE  Spec => ReplayIsCoherent
BY KeptIsCoherent, ReplayInvariant, PTL

-----------------------------------------------------------------------------
(* The guided tour. *)

\* The script of the tour.
LEMMA SceneFacts ==
  ASSUME TourAssumption
  PROVE  /\ Scenes \in Nat \ {0} /\ TICK_MS \in Nat \ {0} /\ 0 \in 0 .. Scenes - 1
         /\ scene(0).key = "introduction"
         /\ \A i \in 0 .. Scenes - 1 : scene(i).durationMs \in Nat
<1>1. /\ PRESENTATION_SCENES \in Seq([key : STRING, durationMs : Nat])
      /\ PRESENTATION_SCENES # <<>> /\ PRESENTATION_SCENES[1].key = "introduction"
      /\ TICK_MS \in Nat \ {0}
  BY DEF TourAssumption
<1>2. Scenes \in Nat \ {0} /\ DOMAIN PRESENTATION_SCENES = 1 .. Scenes
  BY <1>1 DEF Scenes
<1>3. scene(0).key = "introduction"
  BY <1>1 DEF scene
<1>4. ASSUME NEW i \in 0 .. Scenes - 1
      PROVE  scene(i).durationMs \in Nat
  <2>1. i + 1 \in DOMAIN PRESENTATION_SCENES
    BY <1>2
  <2>2. PRESENTATION_SCENES[i + 1].durationMs \in Nat
    <3>1. PRESENTATION_SCENES[i + 1] \in [key : STRING, durationMs : Nat]
      <4> DEFINE S == [key : STRING, durationMs : Nat]
      <4>1. PRESENTATION_SCENES \in Seq(S) /\ i + 1 \in 1 .. Len(PRESENTATION_SCENES)
        BY <1>1, <1>2, <2>1
      <4> HIDE DEF S
      <4>2. PRESENTATION_SCENES[i + 1] \in S
        BY <4>1, ElementOfSeq
      <4>3. QED
        BY <4>2 DEF S
    <3>2. QED
      BY <3>1
  <2>3. QED
    BY <2>2 DEF scene
<1>5. QED
  BY <1>1, <1>2, <1>3, <1>4

\* The two timers of a scene: between them, what the interval has counted and what
\* the timeout has left are the duration of the scene, or at most a tick more.
ClockFits(i, on, shown, counted, left) ==
    /\ i \in 0 .. Scenes - 1 /\ on \in BOOLEAN
    /\ shown \in Nat /\ shown <= scene(i).durationMs + TICK_MS
    /\ counted \in 0 .. TICK_MS
    /\ on => left \in Nat /\ left + shown + counted - scene(i).durationMs \in 0 .. TICK_MS
    /\ ~on => left = -1 /\ counted = 0

\* What the clock invariant says of the numbers.
LEMMA ClockFacts ==
  ASSUME TourAssumption, NEW i, NEW on, NEW shown, NEW counted, NEW left,
         ClockFits(i, on, shown, counted, left)
  PROVE  /\ scene(i).durationMs \in Nat /\ TICK_MS \in Nat \ {0}
         /\ left \in Nat \cup {-1} /\ (left >= 0 <=> on)
<1>1. scene(i).durationMs \in Nat /\ TICK_MS \in Nat \ {0}
  BY SceneFacts DEF ClockFits
<1>2. CASE on
  BY <1>1, <1>2 DEF ClockFits
<1>3. CASE ~on
  BY <1>1, <1>3 DEF ClockFits
<1>4. QED
  BY <1>2, <1>3

\* A scene starts with nothing shown and the time the interval has counted so far.
LEMMA SceneStarts ==
  ASSUME TourAssumption, NEW i \in 0 .. Scenes - 1, NEW on \in BOOLEAN,
         NEW counted \in 0 .. TICK_MS, ~on => counted = 0
  PROVE  ClockFits(i, on, 0, counted, Armed(i, on, 0))
<1> DEFINE D == scene(i).durationMs
<1>1. D \in Nat /\ TICK_MS \in Nat
  BY SceneFacts
<1>2. Armed(i, on, 0) = IF on THEN D ELSE -1
  BY <1>1 DEF Armed, Least0
<1>3. 0 \in Nat /\ 0 <= D + TICK_MS /\ D + 0 + counted - D \in 0 .. TICK_MS
  <2> HIDE DEF D
  <2>1. QED
    BY <1>1
<1>4. QED
  BY <1>1, <1>2, <1>3 DEF ClockFits

\* A pause clears what the interval has counted, and the timeout is armed again with
\* what has not been shown.
LEMMA TimersSetAnew ==
  ASSUME TourAssumption, NEW i, NEW on0, NEW shown, NEW counted, NEW left,
         ClockFits(i, on0, shown, counted, left), NEW on \in BOOLEAN
  PROVE  ClockFits(i, on, shown, 0, Armed(i, on, shown))
<1> DEFINE D == scene(i).durationMs
<1>1. i \in 0 .. Scenes - 1 /\ shown \in Nat /\ shown <= D + TICK_MS
  BY DEF ClockFits
<1>2. D \in Nat /\ TICK_MS \in Nat
  BY <1>1, SceneFacts
<1>3. Armed(i, on, shown) = IF on THEN Least0(D - shown) ELSE -1
  BY DEF Armed
<1>4. Least0(D - shown) \in Nat /\ Least0(D - shown) + shown + 0 - D \in 0 .. TICK_MS
  <2> HIDE DEF D
  <2>1. QED
    BY <1>1, <1>2 DEF Least0
<1>5. QED
  BY <1>1, <1>2, <1>3, <1>4 DEF ClockFits

\* A change of scene, a pause or a restart leaves the timers right.
LEMMA ToSceneFits ==
  ASSUME TourAssumption, NEW i0, NEW on0, NEW e0, NEW p0, NEW d0, ClockFits(i0, on0, e0, p0, d0),
         NEW i \in 0 .. Scenes - 1, NEW on \in BOOLEAN, NEW e1, NEW p1, NEW d1,
         e1 = IF i = i0 THEN e0 ELSE 0,
         p1 = IF on = on0 THEN p0 ELSE 0,
         d1 = IF i = i0 /\ on = on0 THEN d0 ELSE Armed(i, on, e1)
  PROVE  ClockFits(i, on, e1, p1, d1)
<1>1. CASE i = i0 /\ on = on0
  BY <1>1
<1>2. CASE i = i0 /\ on # on0
  <2>1. e1 = e0 /\ p1 = 0 /\ d1 = Armed(i, on, e0)
    BY <1>2
  <2>2. ClockFits(i, on, e0, 0, Armed(i, on, e0))
    BY <1>2, TimersSetAnew
  <2>3. QED
    BY <2>1, <2>2
<1>3. CASE i # i0
  <2>1. e1 = 0 /\ d1 = Armed(i, on, 0)
    BY <1>3
  <2>2. p1 \in 0 .. TICK_MS /\ (~on => p1 = 0)
    <3>1. p0 \in 0 .. TICK_MS /\ (~on0 => p0 = 0) /\ 0 \in 0 .. TICK_MS
      BY SceneFacts DEF ClockFits
    <3>2. QED
      BY <3>1
  <2>3. QED
    BY <2>1, <2>2, SceneStarts
<1>4. QED
  BY <1>1, <1>2, <1>3

\* Time passes under both timers.
LEMMA TimeFits ==
  ASSUME TourAssumption, NEW i, NEW on, NEW e, NEW p, NEW d, ClockFits(i, on, e, p, d),
         NEW span \in Nat \ {0}, span <= d, p + span <= TICK_MS
  PROVE  ClockFits(i, on, e, p + span, d - span)
<1> DEFINE D == scene(i).durationMs
<1>1. D \in Nat /\ TICK_MS \in Nat \ {0} /\ d \in Nat \cup {-1} /\ (d >= 0 <=> on)
  BY ClockFacts
<1>2. i \in 0 .. Scenes - 1 /\ on \in BOOLEAN /\ e \in Nat /\ e <= D + TICK_MS /\ p \in 0 .. TICK_MS
  BY DEF ClockFits
<1>3. on /\ d \in Nat
  BY <1>1, <1>2
<1>4. d + e + p - D \in 0 .. TICK_MS
  BY <1>3 DEF ClockFits
<1>5. /\ d - span \in Nat /\ p + span \in 0 .. TICK_MS
      /\ (d - span) + e + (p + span) - D \in 0 .. TICK_MS
  <2> HIDE DEF D
  <2>1. QED
    BY <1>1, <1>2, <1>3, <1>4
<1>6. QED
  BY <1>2, <1>3, <1>5 DEF ClockFits

\* The interval fires, and shows what it has counted.
LEMMA IntervalFits ==
  ASSUME TourAssumption, NEW i, NEW on, NEW e, NEW d, ClockFits(i, on, e, TICK_MS, d), on
  PROVE  ClockFits(i, on, e + TICK_MS, 0, d)
<1> DEFINE D == scene(i).durationMs
<1>1. D \in Nat /\ TICK_MS \in Nat \ {0}
  BY ClockFacts
<1>2. /\ i \in 0 .. Scenes - 1 /\ on \in BOOLEAN /\ e \in Nat /\ d \in Nat
      /\ d + e + TICK_MS - D \in 0 .. TICK_MS
  BY DEF ClockFits
<1>3. /\ e + TICK_MS \in Nat /\ e + TICK_MS <= D + TICK_MS /\ 0 \in 0 .. TICK_MS
      /\ d + (e + TICK_MS) + 0 - D \in 0 .. TICK_MS
  <2> HIDE DEF D
  <2>1. QED
    BY <1>1, <1>2
<1>4. QED
  BY <1>2, <1>3 DEF ClockFits

\* The first of the highest scores exists.
LEMMA PeakExists ==
  ASSUME NEW H, H \subseteq Nat, H # {}, NEW z, \A s \in H : Score[z][s] \in 0 .. 100
  PROVE  \E s \in H : \A u \in H : \/ Score[z][u] < Score[z][s]
                                   \/ Score[z][u] = Score[z][s] /\ s <= u
<1> DEFINE r == [s \in H |-> Score[z][s]]
<1>1. PICK b \in Nat : b = 100
  OBVIOUS
<1>2. r \in [H -> 0 .. b]
  BY <1>1
<1>3. PICK w \in H : \A y \in H : r[w] > r[y] \/ (r[w] = r[y] /\ w <= y)
  <2> HIDE DEF r
  <2>1. QED
    BY <1>2, WorstZone
<1>4. \A u \in H : Score[z][u] < Score[z][w] \/ (Score[z][u] = Score[z][w] /\ w <= u)
  <2> TAKE u \in H
  <2>1. r[u] = Score[z][u] /\ r[w] = Score[z][w] /\ r[u] \in Int /\ r[w] \in Int
    <3>1. r[u] = Score[z][u] /\ r[w] = Score[z][w]
      OBVIOUS
    <3>2. Score[z][u] \in 0 .. 100 /\ Score[z][w] \in 0 .. 100
      BY <1>3, Zenon
    <3>3. QED
      BY <3>1, <3>2
  <2>2. r[w] > r[u] \/ (r[w] = r[u] /\ w <= u)
    BY <1>3
  <2>3. QED
    BY <2>1, <2>2
<1>5. QED
  BY <1>4

\* The zone the tour is about.
LEMMA FocusFacts ==
  ASSUME TimelineAssumption, TourAssumption
  PROVE  focusZone \in Zones
BY MinIsLeast DEF focusZone, TimelineAssumption, TourAssumption

\* Where a scene takes the cursor: to a stamp of the zone in focus.
LEMMA StampFacts ==
  ASSUME TimelineAssumption, TourAssumption, NEW tl, IsHistory(tl), NEW i
  PROVE  /\ Focus(tl) = {} => SceneStamp(i, tl) = {}
         /\ SceneStamp(i, tl) # {} => \E x : SceneStamp(i, tl) = {x}
         /\ \A s \in SceneStamp(i, tl) :
               /\ s \in tl[focusZone] /\ s \in StampsOf(tl) /\ s \in Nat
               /\ scene(i).key = "incident-begins" \/ scene(i).key \in PEAK_TICK_SCENES
         /\ SceneStamp(0, tl) = {}
<1> DEFINE H == Focus(tl)
<1>1. H \subseteq Nat /\ H = tl[focusZone] /\ \A s \in H : s \in StampsOf(tl)
  BY FocusFacts, HistoryFacts DEF Focus
<1>2. \A s \in H : Score[focusZone][s] \in 0 .. 100
  BY FocusFacts DEF TourAssumption, IsHistory, Focus, Nothing
<1> HIDE DEF H
<1>3. ASSUME H # {} PROVE findFirstEscalation(H) \in H
  <2> DEFINE hot == {s \in H : Tier[focusZone][s] # 0}
             pool == IF hot = {} THEN H ELSE hot
  <2>1. pool \subseteq Nat /\ pool # {} /\ pool \subseteq H
    BY <1>1, <1>3
  <2>2. findFirstEscalation(H) = Min(pool)
    BY DEF findFirstEscalation
  <2> HIDE DEF pool
  <2>3. QED
    BY <2>1, <2>2, MinIsLeast
<1>4. ASSUME H # {} PROVE findPeak(H) \in H
  <2> DEFINE top(s) == \A u \in H : \/ Score[focusZone][u] < Score[focusZone][s]
                                    \/ Score[focusZone][u] = Score[focusZone][s] /\ s <= u
  <2>1. \E s \in H : top(s)
    BY <1>1, <1>2, <1>4, PeakExists
  <2>2. findPeak(H) = CHOOSE s \in H : top(s)
    BY DEF findPeak
  <2> HIDE DEF top
  <2>3. QED
    BY <2>1, <2>2, Zenon
<1>5. H = {} => SceneStamp(i, tl) = {}
  BY DEF SceneStamp, H
<1>6. ASSUME H # {} PROVE SceneStamp(i, tl) =
         CASE scene(i).key = "incident-begins" -> {findFirstEscalation(H)}
           [] scene(i).key \in PEAK_TICK_SCENES -> {findPeak(H)}
           [] OTHER -> {}
  BY <1>6 DEF SceneStamp, H
<1>7. "incident-begins" \notin PEAK_TICK_SCENES /\ "introduction" \notin PEAK_TICK_SCENES
  BY DEF PEAK_TICK_SCENES
<1>8. SceneStamp(i, tl) # {} =>
         /\ H # {}
         /\ \/ SceneStamp(i, tl) = {findFirstEscalation(H)} /\ scene(i).key = "incident-begins"
            \/ SceneStamp(i, tl) = {findPeak(H)} /\ scene(i).key \in PEAK_TICK_SCENES
  <2>1. CASE scene(i).key = "incident-begins"
    BY <1>5, <1>6, <1>7, <2>1
  <2>2. CASE scene(i).key \in PEAK_TICK_SCENES
    BY <1>5, <1>6, <1>7, <2>2
  <2>3. CASE scene(i).key # "incident-begins" /\ scene(i).key \notin PEAK_TICK_SCENES
    BY <1>5, <1>6, <2>3
  <2>4. QED
    BY <2>1, <2>2, <2>3
<1>9. SceneStamp(0, tl) = {}
  <2>1. scene(0).key = "introduction"
    BY SceneFacts
  <2>2. QED
    BY <1>7, <2>1 DEF SceneStamp
<1>10. \A s \in SceneStamp(i, tl) :
               /\ s \in tl[focusZone] /\ s \in StampsOf(tl) /\ s \in Nat
               /\ scene(i).key = "incident-begins" \/ scene(i).key \in PEAK_TICK_SCENES
  BY <1>1, <1>3, <1>4, <1>8
<1>11. QED
  BY <1>5, <1>8, <1>9, <1>10 DEF H

\* While the replay shows a history, the cursor is on the moment of the scene.
SceneMoment ==
    started /\ Focus(zone_timelines) # {} =>
        \A s \in SceneStamp(sceneIndex, zone_timelines) : HasCursor /\ currentTimestamp = s

\* A replay that is not open, or that the tour drives, does not play.
StillReplay == (target = NoTarget \/ started) => playing = FALSE

PageInv ==
    /\ onPage \in BOOLEAN /\ scenarios \in BOOLEAN /\ started \in BOOLEAN
    /\ judgeMode \in BOOLEAN /\ notesVisible \in BOOLEAN /\ hudVisible \in BOOLEAN
    /\ commands \in 0 .. MaxCommands
    /\ tourPlaying => started
    /\ started => onPage

ClockInv == ClockFits(sceneIndex, tourPlaying, elapsed, phase, due)

TourInv == ReplayInv /\ ClockInv /\ PageInv /\ StillReplay /\ SceneMoment

\* The scene effect puts the cursor on the stamp of the scene, when it has one.
LEMMA EffectLands ==
  ASSUME TimelineAssumption, TourAssumption, NEW tl, IsHistory(tl), NEW i, SceneEffect(i, tl)
  PROVE  /\ playing' = FALSE
         /\ \/ currentIndex' = currentIndex /\ SceneStamp(i, tl) = {}
            \/ \E s \in Int : currentIndex' = findNearestTimestampIndex(mergeTimestamps(tl), s)
         /\ \A s \in SceneStamp(i, tl) :
               /\ currentIndex' \in 0 .. Len(mergeTimestamps(tl)) - 1
               /\ mergeTimestamps(tl)[currentIndex' + 1] = s
<1>1. playing' = FALSE
  BY DEF SceneEffect
<1>2. CASE SceneStamp(i, tl) = {}
  BY <1>1, <1>2 DEF SceneEffect
<1>3. CASE SceneStamp(i, tl) # {}
  <2>1. PICK x : SceneStamp(i, tl) = {x}
    BY <1>3, StampFacts
  <2>2. x \in StampsOf(tl) /\ x \in Nat
    BY <2>1, StampFacts
  <2>3. (CHOOSE s \in {x} : TRUE) = x
    OBVIOUS
  <2>4. currentIndex' = findNearestTimestampIndex(mergeTimestamps(tl), x)
    BY <2>1, <2>3 DEF SceneEffect
  <2>5. /\ currentIndex' \in 0 .. Len(mergeTimestamps(tl)) - 1
        /\ mergeTimestamps(tl)[currentIndex' + 1] = x
    <3>1. x \in Int
      BY <2>2
    <3> DEFINE k == findNearestTimestampIndex(mergeTimestamps(tl), x)
    <3>2. k \in 0 .. Len(mergeTimestamps(tl)) - 1 /\ mergeTimestamps(tl)[k + 1] = x
      BY <2>2, <3>1, NearestFacts
    <3> HIDE DEF k
    <3>3. currentIndex' = k
      BY <2>4 DEF k
    <3>4. QED
      BY <3>2, <3>3
  <2>6. QED
    BY <1>1, <2>1, <2>2, <2>4, <2>5
<1>4. QED
  BY <1>2, <1>3

\* ... and so the scene shows its moment.
LEMMA EffectMoment ==
  ASSUME TimelineAssumption, TourAssumption, NEW tl, IsHistory(tl), NEW i, SceneEffect(i, tl),
         zone_timelines' = tl, sceneIndex' = i
  PROVE  SceneMoment'
<1>1. allTimestamps' = mergeTimestamps(tl) /\ Ticks' = Len(mergeTimestamps(tl))
  BY DEF allTimestamps, Ticks
<1>2. \A s \in SceneStamp(i, tl) : HasCursor' /\ currentTimestamp' = s
  BY <1>1, EffectLands DEF HasCursor, currentTimestamp
<1>3. QED
  BY <1>2 DEF SceneMoment, SceneStamp, Focus, scene

\* A step that leaves scene, axis and cursor alone shows what was shown.
LEMMA SameMoment ==
  ASSUME SceneMoment, started' => started, sceneIndex' = sceneIndex,
         zone_timelines' = zone_timelines, currentIndex' = currentIndex
  PROVE  SceneMoment'
<1>1. allTimestamps' = allTimestamps /\ Ticks' = Ticks
  BY DEF allTimestamps, Ticks
<1>2. (HasCursor' <=> HasCursor) /\ currentTimestamp' = currentTimestamp
  BY <1>1 DEF HasCursor, currentTimestamp
<1>3. QED
  BY <1>2 DEF SceneMoment, SceneStamp, Focus, scene

\* No scene has a moment over a replay without a history.
LEMMA NoMomentYet ==
  ASSUME TimelineAssumption, TourAssumption, IsHistory(zone_timelines'),
         sceneIndex' = 0 \/ target' = NoTarget
  PROVE  SceneMoment'
<1>1. CASE sceneIndex' = 0
  <2>1. SceneStamp(sceneIndex', zone_timelines') = {}
    BY <1>1, StampFacts
  <2>2. QED
    BY <2>1 DEF SceneMoment, SceneStamp, Focus, scene
<1>2. CASE target' = NoTarget
  <2>1. zone_timelines' = Nothing
    BY <1>2 DEF zone_timelines
  <2>2. Focus(zone_timelines') = {}
    BY <2>1, FocusFacts DEF Focus, Nothing
  <2>3. QED
    BY <2>2 DEF SceneMoment, Focus
<1>3. QED
  BY <1>1, <1>2
\* A step of the tour over the replay that is open.
LEMMA RestlessKeeps ==
  ASSUME TimelineAssumption, ReplayInv, Restless, playing' \in BOOLEAN,
         CursorFits(currentIndex', Ticks)
  PROVE  ReplayInv' /\ zone_timelines' = zone_timelines /\ target' = target
<1>1. /\ executed' = executed /\ cache' = cache /\ query' = query /\ payload' = payload
      /\ target' = target /\ speed' = speed /\ customBookmarks' = customBookmarks
  BY DEF Restless, cache
<1>2. zone_timelines' = zone_timelines
  BY <1>1 DEF zone_timelines
<1>3. speed' \in SPEED_OPTIONS
  BY <1>1 DEF ReplayInv, TypeOK
<1>4. QED
  BY <1>1, <1>2, <1>3, MoveKeeps

\* A step that leaves the replay alone.
LEMMA QuietKeeps ==
  ASSUME TimelineAssumption, ReplayInv, UNCHANGED vars
  PROVE  /\ ReplayInv' /\ zone_timelines' = zone_timelines /\ target' = target
         /\ currentIndex' = currentIndex /\ playing' = playing
<1>1. /\ executed' = executed /\ query' = query /\ payload' = payload /\ target' = target
      /\ currentIndex' = currentIndex /\ playing' = playing
  BY DEF vars, cache, player
<1>2. zone_timelines' = zone_timelines
  BY <1>1 DEF zone_timelines
<1>3. QED
  BY <1>1, <1>2, NextReplay

\* The timers of a change of scene.
LEMMA ToSceneKeeps ==
  ASSUME TourAssumption, ClockInv, NEW i \in 0 .. Scenes - 1, NEW on \in BOOLEAN, ToScene(i, on)
  PROVE  ClockInv' /\ sceneIndex' = i /\ tourPlaying' = on
<1>1. /\ sceneIndex' = i /\ tourPlaying' = on
      /\ elapsed' = IF i = sceneIndex THEN elapsed ELSE 0
      /\ phase' = IF on = tourPlaying THEN phase ELSE 0
      /\ due' = IF i = sceneIndex /\ on = tourPlaying THEN due ELSE Armed(i, on, elapsed')
  BY DEF ToScene
<1>2. ClockFits(i, on, elapsed', phase', due')
  BY <1>1, ToSceneFits DEF ClockInv
<1>3. ClockFits(sceneIndex', tourPlaying', elapsed', phase', due')
  BY <1>1, <1>2
<1>4. QED
  BY <1>1, <1>3 DEF ClockInv, ClockFits, scene, Scenes

\* The scene effect over the replay that is open.
LEMMA EffectKeeps ==
  ASSUME TimelineAssumption, TourAssumption, ReplayInv, Restless, NEW i,
         sceneIndex' = i, SceneEffect(i, zone_timelines)
  PROVE  ReplayInv' /\ SceneMoment' /\ playing' = FALSE /\ target' = target
<1>1. IsHistory(zone_timelines)
  BY AxisFacts
<1>2. playing' = FALSE
  BY <1>1, EffectLands
<1>3. playing' \in BOOLEAN
  BY <1>2
<1>4. CursorFits(currentIndex', Ticks)
  <2>1. CASE currentIndex' = currentIndex
    BY <2>1, AxisFacts
  <2>2. CASE \E s \in Int : currentIndex' = findNearestTimestampIndex(mergeTimestamps(zone_timelines), s)
    BY <2>2, JumpFits DEF allTimestamps
  <2>3. QED
    BY <1>1, <2>1, <2>2, EffectLands
<1>5. ReplayInv' /\ zone_timelines' = zone_timelines /\ target' = target
  BY <1>3, <1>4, RestlessKeeps
<1>6. SceneMoment'
  BY <1>1, <1>5, EffectMoment
<1>7. QED
  BY <1>2, <1>5, <1>6

\* Next, previous, pause and the timeout of a scene.
LEMMA GoToKeeps ==
  ASSUME TimelineAssumption, TourAssumption, TourInv,
         NEW i \in 0 .. Scenes - 1, NEW on \in BOOLEAN, GoTo(i, on)
  PROVE  ReplayInv' /\ ClockInv' /\ StillReplay' /\ SceneMoment' /\ started' = started /\ tourPlaying' = on
<1>1. ReplayInv /\ ClockInv /\ StillReplay /\ SceneMoment
  BY DEF TourInv
<1>2. ToScene(i, on) /\ Restless /\ started' = started
  BY DEF GoTo
<1>3. ClockInv' /\ sceneIndex' = i /\ tourPlaying' = on
  BY <1>1, <1>2, ToSceneKeeps
<1>4. CASE i # sceneIndex /\ target # NoTarget
  <2>1. SceneEffect(i, zone_timelines)
    BY <1>4 DEF GoTo
  <2>2. ReplayInv' /\ SceneMoment' /\ playing' = FALSE /\ target' = target
    BY <1>1, <1>2, <1>3, <2>1, EffectKeeps
  <2>3. StillReplay'
    BY <2>2 DEF StillReplay
  <2>4. QED
    BY <1>2, <1>3, <2>2, <2>3
<1>5. CASE ~(i # sceneIndex /\ target # NoTarget)
  <2>1. currentIndex' = currentIndex /\ playing' = playing
    BY <1>5 DEF GoTo, NoSceneEffect
  <2>2. playing' \in BOOLEAN
    BY <1>1, <2>1 DEF ReplayInv, TypeOK
  <2>3. CursorFits(currentIndex', Ticks)
    BY <1>1, <2>1, AxisFacts
  <2>4. ReplayInv' /\ zone_timelines' = zone_timelines /\ target' = target
    BY <1>1, <1>2, <2>2, <2>3, RestlessKeeps
  <2>5. StillReplay'
    BY <1>1, <1>2, <2>1, <2>4 DEF StillReplay
  <2>6. SceneMoment'
    <3>1. CASE i = sceneIndex
      BY <1>1, <1>2, <1>3, <2>1, <2>4, <3>1, SameMoment
    <3>2. CASE target = NoTarget
      <4>1. IsHistory(zone_timelines')
        BY <1>1, <2>4, AxisFacts
      <4>2. QED
        BY <2>4, <3>2, <4>1, NoMomentYet
    <3>3. QED
      BY <1>5, <3>1, <3>2
  <2>7. QED
    BY <1>2, <1>3, <2>4, <2>5, <2>6
<1>6. QED
  BY <1>4, <1>5

\* A command counts.
LEMMA CommandFacts ==
  ASSUME TourAssumption, PageInv, Command
  PROVE  commands' \in 0 .. MaxCommands /\ onPage
BY DEF TourAssumption, PageInv, Command

\* The presenter starts the tour.
LEMMA HandleStartKeeps ==
  ASSUME TimelineAssumption, TourAssumption, TourInv, handleStart
  PROVE  TourInv'
<1>1. ReplayInv /\ ClockInv /\ PageInv /\ StillReplay
  BY DEF TourInv
<1>2. /\ Command /\ started' = TRUE /\ ToScene(0, TRUE) /\ onPage' = onPage /\ scenarios' = scenarios
      /\ judgeMode' = judgeMode /\ notesVisible' = notesVisible /\ hudVisible' = hudVisible
  BY DEF handleStart, panels
<1>3. commands' \in 0 .. MaxCommands /\ onPage
  BY <1>1, <1>2, CommandFacts
<1>4. PageInv'
  BY <1>1, <1>2, <1>3 DEF PageInv
<1>5. ClockInv' /\ sceneIndex' = 0
  BY <1>1, <1>2, ToSceneKeeps, SceneFacts
<1>6. CASE scenarios /\ target = NoTarget
  <2>1. Presented \in Targets /\ startReplay(Presented)
    BY <1>6 DEF handleStart, TourAssumption
  <2>2. ReplayInv'
    BY <1>1, <2>1, StartKeeps
  <2>3. playing' = FALSE
    BY <2>1 DEF startReplay, TargetEffect
  <2>4. IsHistory(zone_timelines')
    <3>1. payload' = payload /\ target' \in Targets
      BY <2>1 DEF startReplay
    <3>2. QED
      BY <1>1, <3>1, NothingFacts DEF ReplayInv, zone_timelines
  <2>5. SceneMoment' /\ StillReplay'
    BY <1>5, <2>3, <2>4, NoMomentYet DEF StillReplay
  <2>6. QED
    BY <1>4, <1>5, <2>2, <2>5 DEF TourInv
<1>7. CASE ~(scenarios /\ target = NoTarget)
  <2>1. Restless
    BY <1>7 DEF handleStart
  <2>2. CASE target # NoTarget
    <3>1. SceneEffect(0, zone_timelines)
      BY <1>7, <2>2 DEF handleStart
    <3>2. ReplayInv' /\ SceneMoment' /\ playing' = FALSE
      BY <1>1, <1>5, <2>1, <3>1, EffectKeeps
    <3>3. StillReplay'
      BY <3>2 DEF StillReplay
    <3>4. QED
      BY <1>4, <1>5, <3>2, <3>3 DEF TourInv
  <2>3. CASE target = NoTarget
    <3>1. currentIndex' = currentIndex /\ playing' = playing
      BY <1>7, <2>3 DEF handleStart, NoSceneEffect
    <3>2. playing' = FALSE
      BY <1>1, <2>3, <3>1 DEF StillReplay
    <3>3. playing' \in BOOLEAN
      BY <3>2
    <3>4. CursorFits(currentIndex', Ticks)
      BY <1>1, <3>1, AxisFacts
    <3>5. ReplayInv' /\ zone_timelines' = zone_timelines
      BY <1>1, <2>1, <3>3, <3>4, RestlessKeeps
    <3>6. IsHistory(zone_timelines')
      BY <1>1, <3>5, AxisFacts
    <3>7. SceneMoment' /\ StillReplay'
      BY <1>5, <3>2, <3>6, NoMomentYet DEF StillReplay
    <3>8. QED
      BY <1>4, <1>5, <3>5, <3>7 DEF TourInv
  <2>4. QED
    BY <2>2, <2>3
<1>8. QED
  BY <1>6, <1>7

\* The presenter starts it over.
LEMMA HandleRestartKeeps ==
  ASSUME TimelineAssumption, TourAssumption, TourInv, handleRestart
  PROVE  TourInv'
<1>1. ReplayInv /\ ClockInv /\ PageInv /\ StillReplay
  BY DEF TourInv
<1>2. /\ Command /\ started' = started /\ started /\ ToScene(0, TRUE) /\ onPage' = onPage
      /\ scenarios' = scenarios /\ judgeMode' = judgeMode /\ notesVisible' = notesVisible
      /\ hudVisible' = hudVisible /\ currentIndex' = 0 /\ playing' = FALSE /\ Restless
  BY DEF handleRestart, panels
<1>3. commands' \in 0 .. MaxCommands /\ onPage
  BY <1>1, <1>2, CommandFacts
<1>4. PageInv'
  BY <1>1, <1>2, <1>3 DEF PageInv
<1>5. ClockInv' /\ sceneIndex' = 0
  BY <1>1, <1>2, ToSceneKeeps, SceneFacts
<1>6. playing' \in BOOLEAN
  BY <1>2
<1>7. CursorFits(currentIndex', Ticks)
  BY <1>1, <1>2, AxisFacts, ZeroFits
<1>8. ReplayInv' /\ zone_timelines' = zone_timelines
  BY <1>1, <1>2, <1>6, <1>7, RestlessKeeps
<1>9. IsHistory(zone_timelines')
  BY <1>1, <1>8, AxisFacts
<1>10. SceneMoment' /\ StillReplay'
  BY <1>2, <1>5, <1>9, NoMomentYet DEF StillReplay
<1>11. QED
  BY <1>4, <1>5, <1>8, <1>10 DEF TourInv
\* The presenter steps, plays or pauses.
LEMMA PresenterKeeps ==
  ASSUME TimelineAssumption, TourAssumption, TourInv, Step \/ PlayPause
  PROVE  TourInv'
<1>1. ReplayInv /\ ClockInv /\ PageInv /\ StillReplay
  BY DEF TourInv
<1>2. /\ Command /\ started /\ onPage' = onPage /\ scenarios' = scenarios
      /\ judgeMode' = judgeMode /\ notesVisible' = notesVisible /\ hudVisible' = hudVisible
  BY DEF Step, PlayPause, panels
<1>3. commands' \in 0 .. MaxCommands /\ onPage
  BY <1>1, <1>2, CommandFacts
<1>4. sceneIndex \in 0 .. Scenes - 1 /\ tourPlaying \in BOOLEAN /\ Scenes \in Nat \ {0}
  BY <1>1, SceneFacts DEF ClockInv, ClockFits
<1>5. \E i \in 0 .. Scenes - 1, on \in BOOLEAN : GoTo(i, on)
  <2>1. CASE PlayPause
    <3>1. GoTo(sceneIndex, ~tourPlaying) /\ (~tourPlaying) \in BOOLEAN
      BY <1>4, <2>1 DEF PlayPause
    <3>2. QED
      BY <1>4, <3>1
  <2>2. CASE Step
    <3>1. (IF sceneIndex + 1 < Scenes - 1 THEN sceneIndex + 1 ELSE Scenes - 1) \in 0 .. Scenes - 1
      BY <1>4
    <3>2. (IF sceneIndex > 0 THEN sceneIndex - 1 ELSE 0) \in 0 .. Scenes - 1
      BY <1>4
    <3>3. QED
      BY <1>4, <2>2, <3>1, <3>2 DEF Step
  <2>3. QED
    BY <2>1, <2>2
<1>6. PICK i \in 0 .. Scenes - 1, on \in BOOLEAN : GoTo(i, on)
  BY <1>5
<1>7. ReplayInv' /\ ClockInv' /\ StillReplay' /\ SceneMoment' /\ started' = started
  BY <1>6, GoToKeeps
<1>8. PageInv'
  BY <1>1, <1>2, <1>3, <1>7 DEF PageInv
<1>9. QED
  BY <1>7, <1>8 DEF TourInv

\* The timeout of a scene goes to the next one, or ends the tour.
LEMMA TimeoutKeeps ==
  ASSUME TimelineAssumption, TourAssumption, TourInv, SceneTimeout
  PROVE  TourInv'
<1>1. ReplayInv /\ ClockInv /\ PageInv /\ StillReplay
  BY DEF TourInv
<1>2. /\ due = 0 /\ onPage' = onPage /\ scenarios' = scenarios /\ commands' = commands
      /\ judgeMode' = judgeMode /\ notesVisible' = notesVisible /\ hudVisible' = hudVisible
  BY DEF SceneTimeout, panels
<1>3. sceneIndex \in 0 .. Scenes - 1 /\ Scenes \in Nat \ {0}
  BY <1>1, SceneFacts DEF ClockInv, ClockFits
<1>4. tourPlaying
  <2>1. due >= 0
    BY <1>2
  <2>2. QED
    BY <1>1, <2>1, ClockFacts DEF ClockInv
<1>5. \E i \in 0 .. Scenes - 1, on \in BOOLEAN : GoTo(i, on)
  <2>1. CASE sceneIndex >= Scenes - 1
    BY <1>3, <2>1 DEF SceneTimeout
  <2>2. CASE ~(sceneIndex >= Scenes - 1)
    <3>1. sceneIndex + 1 \in 0 .. Scenes - 1
      BY <1>3, <2>2
    <3>2. QED
      BY <2>2, <3>1 DEF SceneTimeout
  <2>3. QED
    BY <2>1, <2>2
<1>6. PICK i \in 0 .. Scenes - 1, on \in BOOLEAN : GoTo(i, on)
  BY <1>5
<1>7. ReplayInv' /\ ClockInv' /\ StillReplay' /\ SceneMoment' /\ started' = started
  BY <1>6, GoToKeeps
<1>8. PageInv'
  BY <1>1, <1>2, <1>4, <1>7 DEF PageInv
<1>9. QED
  BY <1>7, <1>8 DEF TourInv

\* The presenter goes back to the launcher.
LEMMA EscapeKeeps ==
  ASSUME TimelineAssumption, TourAssumption, TourInv, Escape
  PROVE  TourInv'
<1>1. ReplayInv /\ ClockInv /\ PageInv /\ StillReplay /\ SceneMoment
  BY DEF TourInv
<1>2. /\ Command /\ started' = FALSE /\ ToScene(sceneIndex, FALSE) /\ UNCHANGED vars
      /\ onPage' = onPage /\ scenarios' = scenarios
      /\ judgeMode' = judgeMode /\ notesVisible' = notesVisible /\ hudVisible' = hudVisible
  BY DEF Escape, panels
<1>3. commands' \in 0 .. MaxCommands
  BY <1>1, <1>2, CommandFacts
<1>4. sceneIndex \in 0 .. Scenes - 1
  BY <1>1 DEF ClockInv, ClockFits
<1>5. ClockInv' /\ sceneIndex' = sceneIndex /\ tourPlaying' = FALSE
  BY <1>1, <1>2, <1>4, ToSceneKeeps
<1>6. PageInv'
  BY <1>1, <1>2, <1>3, <1>5 DEF PageInv
<1>7. /\ ReplayInv' /\ zone_timelines' = zone_timelines /\ target' = target
      /\ currentIndex' = currentIndex /\ playing' = playing
  BY <1>1, <1>2, QuietKeeps
<1>8. StillReplay' /\ SceneMoment'
  BY <1>1, <1>2, <1>5, <1>7, SameMoment DEF StillReplay
<1>9. QED
  BY <1>5, <1>6, <1>7, <1>8 DEF TourInv

\* Steps that leave the replay, the scene and the timer alone.
LEMMA AsideKeeps ==
  ASSUME TimelineAssumption, TourAssumption, TourInv, UNCHANGED <<vars, tour>>, PageInv'
  PROVE  TourInv'
<1>1. ReplayInv /\ ClockInv /\ PageInv /\ StillReplay /\ SceneMoment
  BY DEF TourInv
<1>2. UNCHANGED vars /\ started' = started /\ sceneIndex' = sceneIndex /\ tourPlaying' = tourPlaying
      /\ elapsed' = elapsed /\ phase' = phase /\ due' = due
  BY DEF tour
<1>3. /\ ReplayInv' /\ zone_timelines' = zone_timelines /\ target' = target
      /\ currentIndex' = currentIndex /\ playing' = playing
  BY <1>1, <1>2, QuietKeeps
<1>4. ClockInv'
  BY <1>1, <1>2 DEF ClockInv, ClockFits, scene, Scenes
<1>5. StillReplay' /\ SceneMoment'
  BY <1>1, <1>2, <1>3, SameMoment DEF StillReplay
<1>6. QED
  BY <1>3, <1>4, <1>5 DEF TourInv

\* The panels.
LEMMA PanelsKeep ==
  ASSUME TimelineAssumption, TourAssumption, TourInv, Panels
  PROVE  TourInv'
<1>1. PageInv
  BY DEF TourInv
<1>2. Command /\ UNCHANGED <<vars, tour>> /\ onPage' = onPage /\ scenarios' = scenarios
      /\ started' = started /\ tourPlaying' = tourPlaying
  BY DEF Panels, tour
<1>3. commands' \in 0 .. MaxCommands
  BY <1>1, <1>2, CommandFacts
<1>4. judgeMode' \in BOOLEAN /\ notesVisible' \in BOOLEAN /\ hudVisible' \in BOOLEAN
  BY <1>1 DEF Panels, PageInv
<1>5. PageInv'
  BY <1>1, <1>2, <1>3, <1>4 DEF PageInv
<1>6. QED
  BY <1>2, <1>5, AsideKeeps

\* The two timers of the scene.
LEMMA ClockKeeps ==
  ASSUME TimelineAssumption, TourAssumption, TourInv,
         Clock \/ \E span \in Spans : TimePasses(span)
  PROVE  TourInv'
<1>1. ReplayInv /\ ClockInv /\ PageInv /\ StillReplay /\ SceneMoment
  BY DEF TourInv
<1>2. /\ UNCHANGED vars /\ onPage' = onPage /\ scenarios' = scenarios /\ started' = started
      /\ sceneIndex' = sceneIndex /\ tourPlaying' = tourPlaying /\ commands' = commands
      /\ judgeMode' = judgeMode /\ notesVisible' = notesVisible /\ hudVisible' = hudVisible
  BY DEF Clock, TimePasses, panels
<1>3. ClockFits(sceneIndex, tourPlaying, elapsed', phase', due')
  <2>1. CASE Clock
    <3>1. tourPlaying /\ phase = TICK_MS /\ elapsed' = elapsed + TICK_MS /\ phase' = 0 /\ due' = due
      BY <2>1 DEF Clock
    <3>2. ClockFits(sceneIndex, tourPlaying, elapsed, TICK_MS, due)
      BY <1>1, <3>1 DEF ClockInv
    <3>3. QED
      BY <3>1, <3>2, IntervalFits
  <2>2. CASE \E span \in Spans : TimePasses(span)
    <3>1. PICK span \in Spans : TimePasses(span)
      BY <2>2
    <3>2. /\ span <= due /\ phase + span <= TICK_MS /\ elapsed' = elapsed
          /\ phase' = phase + span /\ due' = due - span
      BY <3>1 DEF TimePasses
    <3>3. span \in Nat \ {0}
      BY <3>1 DEF TourAssumption
    <3>4. ClockFits(sceneIndex, tourPlaying, elapsed, phase, due)
      BY <1>1 DEF ClockInv
    <3>5. QED
      BY <3>2, <3>3, <3>4, TimeFits
  <2>3. QED
    BY <2>1, <2>2
<1>4. ClockFits(sceneIndex', tourPlaying', elapsed', phase', due')
  BY <1>2, <1>3
<1>5. ClockInv'
  BY <1>4 DEF ClockInv, ClockFits, scene, Scenes
<1>6. /\ ReplayInv' /\ zone_timelines' = zone_timelines /\ target' = target
      /\ currentIndex' = currentIndex /\ playing' = playing
  BY <1>1, <1>2, QuietKeeps
<1>7. StillReplay' /\ SceneMoment'
  BY <1>1, <1>2, <1>6, SameMoment DEF StillReplay
<1>8. PageInv'
  BY <1>1, <1>2 DEF PageInv
<1>9. QED
  BY <1>5, <1>6, <1>7, <1>8 DEF TourInv

\* The page is left, or opened.
LEMMA MountKeeps ==
  ASSUME TimelineAssumption, TourAssumption, TourInv, NEW on \in BOOLEAN, Mount(on)
  PROVE  TourInv'
<1>1. ReplayInv /\ ClockInv /\ PageInv /\ StillReplay
  BY DEF TourInv
<1>2. /\ onPage' = on /\ started' = FALSE /\ sceneIndex' = 0 /\ tourPlaying' = FALSE /\ elapsed' = 0
      /\ phase' = 0 /\ due' = -1 /\ judgeMode' = FALSE /\ notesVisible' = FALSE /\ hudVisible' = FALSE
      /\ UNCHANGED vars /\ scenarios' = scenarios /\ commands' = commands
  BY DEF Mount
<1>3. PageInv'
  BY <1>1, <1>2 DEF PageInv
<1>4. ClockFits(0, FALSE, 0, 0, -1)
  <2>1. 0 \in 0 .. Scenes - 1 /\ 0 \in 0 .. TICK_MS
    BY SceneFacts
  <2>2. Armed(0, FALSE, 0) = -1
    BY DEF Armed
  <2>3. QED
    BY <2>1, <2>2, SceneStarts
<1>5. ClockInv'
  BY <1>2, <1>4 DEF ClockInv, ClockFits, scene, Scenes
<1>6. /\ ReplayInv' /\ zone_timelines' = zone_timelines /\ target' = target /\ playing' = playing
  BY <1>1, <1>2, QuietKeeps
<1>7. StillReplay' /\ SceneMoment'
  BY <1>1, <1>2, <1>6 DEF StillReplay, SceneMoment
<1>8. QED
  BY <1>3, <1>5, <1>6, <1>7 DEF TourInv

\* The history arrives, before or after the scene that is about it.
LEMMA ArriveKeeps ==
  ASSUME TimelineAssumption, TourAssumption, TourInv, NEW t \in Targets, TourArrive(t)
  PROVE  TourInv'
<1>1. ReplayInv /\ ClockInv /\ PageInv /\ StillReplay /\ SceneMoment
  BY DEF TourInv
<1>2. /\ Answer(t) /\ executed' = executed /\ target' = target /\ speed' = speed
      /\ customBookmarks' = customBookmarks /\ onPage' = onPage /\ scenarios' = scenarios
      /\ started' = started /\ sceneIndex' = sceneIndex /\ tourPlaying' = tourPlaying
      /\ elapsed' = elapsed /\ phase' = phase /\ due' = due /\ commands' = commands
      /\ judgeMode' = judgeMode /\ notesVisible' = notesVisible /\ hudVisible' = hudVisible
  BY DEF TourArrive, tour, panels
<1>3. PageInv'
  BY <1>1, <1>2 DEF PageInv
<1>4. ClockInv'
  BY <1>1, <1>2 DEF ClockInv, ClockFits, scene, Scenes
<1>5. IsHistory(getReplay(t))
  BY NothingFacts DEF getReplay, IsHistory
<1>6. CASE t = target /\ started /\ Focus(getReplay(t)) # {}
  <2>1. SceneEffect(sceneIndex, getReplay(t))
    BY <1>6 DEF TourArrive
  <2>2. playing' = FALSE
    BY <1>5, <2>1, EffectLands
  <2>3. playing' \in BOOLEAN
    BY <2>2
  <2>4. \/ currentIndex' = currentIndex
        \/ CursorFits(currentIndex', Len(mergeTimestamps(getReplay(t))))
    <3>1. CASE currentIndex' = currentIndex
      BY <3>1
    <3>2. CASE currentIndex' # currentIndex
      <4>1. PICK s \in Int : currentIndex' = findNearestTimestampIndex(mergeTimestamps(getReplay(t)), s)
        BY <1>5, <2>1, <3>2, EffectLands
      <4>2. QED
        BY <1>5, <4>1, NearestFacts DEF CursorFits
    <3>3. QED
      BY <3>1, <3>2
  <2>5. ReplayInv' /\ zone_timelines' = getReplay(t)
    BY <1>1, <1>2, <1>6, <2>3, <2>4, AnswerKeeps
  <2>6. SceneMoment'
    BY <1>2, <1>5, <2>1, <2>5, EffectMoment
  <2>7. StillReplay'
    BY <2>2 DEF StillReplay
  <2>8. QED
    BY <1>3, <1>4, <2>5, <2>6, <2>7 DEF TourInv
<1>7. CASE ~(t = target /\ started /\ Focus(getReplay(t)) # {})
  <2>1. currentIndex' = currentIndex /\ playing' = playing
    BY <1>7 DEF TourArrive, NoSceneEffect
  <2>2. playing' \in BOOLEAN
    BY <1>1, <2>1 DEF ReplayInv, TypeOK
  <2>3. ReplayInv' /\ zone_timelines' = IF t = target THEN getReplay(t) ELSE zone_timelines
    BY <1>1, <1>2, <2>1, <2>2, AnswerKeeps
  <2>4. SceneMoment'
    <3>1. CASE t = target
      <4>1. started' => Focus(zone_timelines') = {}
        BY <1>2, <1>7, <2>3, <3>1
      <4>2. QED
        BY <4>1 DEF SceneMoment, Focus
    <3>2. CASE t # target
      BY <1>1, <1>2, <2>1, <2>3, <3>2, SameMoment
    <3>3. QED
      BY <3>1, <3>2
  <2>5. StillReplay'
    BY <1>1, <1>2, <2>1 DEF StillReplay
  <2>6. QED
    BY <1>3, <1>4, <2>3, <2>4, <2>5 DEF TourInv
<1>8. QED
  BY <1>6, <1>7

\* The other pages move the replay while the tour's page is closed.
LEMMA ElsewhereKeeps ==
  ASSUME TimelineAssumption, TourAssumption, TourInv, Elsewhere
  PROVE  TourInv'
<1>1. ReplayInv /\ ClockInv /\ PageInv /\ StillReplay
  BY DEF TourInv
<1>2. /\ ~onPage /\ (ReplayController \/ ScenarioPicker) /\ onPage' = onPage /\ scenarios' = scenarios
      /\ started' = started /\ sceneIndex' = sceneIndex /\ tourPlaying' = tourPlaying
      /\ elapsed' = elapsed /\ phase' = phase /\ due' = due /\ commands' = commands
      /\ judgeMode' = judgeMode /\ notesVisible' = notesVisible /\ hudVisible' = hudVisible
  BY DEF Elsewhere, tour, panels
<1>3. PageInv' /\ ~started'
  BY <1>1, <1>2 DEF PageInv
<1>4. ClockInv'
  BY <1>1, <1>2 DEF ClockInv, ClockFits, scene, Scenes
<1>5. ReplayInv'
  BY <1>1, <1>2, ControllerKeeps, StartKeeps DEF ScenarioPicker
<1>6. target' = NoTarget => playing' = FALSE
  <2>1. CASE ScenarioPicker
    BY <2>1 DEF ScenarioPicker, startReplay, TargetEffect
  <2>2. CASE ReplayController
    <3>1. target # NoTarget
      BY <2>2 DEF ReplayController, ControllerShown
    <3>2. target' = target \/ playing' = FALSE
      BY <2>2 DEF ReplayController, reset, previous, next, scrubToIndex, jumpToTimestamp, MoveTo,
                  SetPlaying, setSpeed, exitReplay, TargetEffect
    <3>3. QED
      BY <3>1, <3>2
  <2>3. QED
    BY <1>2, <2>1, <2>2
<1>7. StillReplay' /\ SceneMoment'
  BY <1>3, <1>6 DEF StillReplay, SceneMoment
<1>8. QED
  BY <1>3, <1>4, <1>5, <1>7 DEF TourInv

\* The server, the network and the replay's interval go on under the tour.
LEMMA ServerKeeps ==
  ASSUME TimelineAssumption, TourAssumption, TourInv, TourServer
  PROVE  TourInv'
<1>1. ReplayInv /\ ClockInv /\ PageInv /\ StillReplay /\ SceneMoment
  BY DEF TourInv
<1>2. /\ onPage' = onPage /\ scenarios' = scenarios
      /\ started' = started /\ sceneIndex' = sceneIndex /\ tourPlaying' = tourPlaying
      /\ elapsed' = elapsed /\ phase' = phase /\ due' = due /\ commands' = commands
      /\ judgeMode' = judgeMode /\ notesVisible' = notesVisible /\ hudVisible' = hudVisible
  BY DEF TourServer, tour, panels
<1>3. PageInv'
  BY <1>1, <1>2 DEF PageInv
<1>4. ClockInv'
  BY <1>1, <1>2 DEF ClockInv, ClockFits, scene, Scenes
<1>5. CASE Tick
  <2>1. ReplayInv'
    BY <1>1, <1>5, TickKeeps
  <2>2. ~started /\ target # NoTarget /\ target' = target
    BY <1>1, <1>5 DEF Tick, StillReplay
  <2>3. StillReplay' /\ SceneMoment'
    BY <1>2, <2>2 DEF StillReplay, SceneMoment
  <2>4. QED
    BY <1>3, <1>4, <2>1, <2>3 DEF TourInv
<1>6. CASE WindowFocus \/ \E t \in Targets : Execute(t) \/ Fail(t)
  <2>1. target \in Targets \cup {NoTarget} /\ query \in [Targets -> {"idle", "pending", "error", "success"}]
    BY <1>1 DEF ReplayInv, TypeOK
  <2>2. /\ target' = target /\ currentIndex' = currentIndex /\ playing' = playing /\ payload' = payload
    BY <1>6 DEF WindowFocus, Execute, Fail, player, cache
  <2>3. target # NoTarget => (query'[target] = "success" <=> query[target] = "success")
    BY <1>6, <2>1 DEF WindowFocus, Execute, Fail, cache
  <2>4. zone_timelines' = zone_timelines
    BY <2>2, <2>3 DEF zone_timelines
  <2>5. ReplayInv'
    <3>1. Next
      BY <1>6 DEF Next, Environment
    <3>2. QED
      BY <1>1, <3>1, NextReplay
  <2>6. StillReplay' /\ SceneMoment'
    BY <1>1, <1>2, <2>2, <2>4, SameMoment DEF StillReplay
  <2>7. QED
    BY <1>3, <1>4, <2>5, <2>6 DEF TourInv
<1>7. QED
  BY <1>5, <1>6 DEF TourServer

\* What holds of every tour.
LEMMA TourInvariant ==
  ASSUME TimelineAssumption, TourAssumption
  PROVE  TourSpec => []TourInv
<1>1. TourInit => TourInv
  <2> SUFFICES ASSUME TourInit PROVE TourInv
    OBVIOUS
  <2>1. Init /\ sceneIndex = 0 /\ tourPlaying = FALSE /\ elapsed = 0 /\ phase = 0
        /\ due = -1 /\ started = FALSE /\ playing = FALSE
    BY DEF TourInit, Init
  <2>2. ReplayInv
    BY <2>1, InitReplay
  <2>3. PageInv
    <3>1. onPage = FALSE /\ scenarios = FALSE /\ judgeMode = FALSE /\ notesVisible = FALSE
          /\ hudVisible = FALSE /\ commands = 0
      BY DEF TourInit
    <3>2. commands \in 0 .. MaxCommands
      BY <3>1 DEF TourAssumption
    <3>3. QED
      BY <2>1, <3>1, <3>2, Zenon DEF PageInv
  <2>4. ClockInv
    <3>1. 0 \in 0 .. Scenes - 1 /\ 0 \in 0 .. TICK_MS
      BY SceneFacts
    <3>2. Armed(0, FALSE, 0) = -1
      BY DEF Armed
    <3>3. QED
      BY <2>1, <3>1, <3>2, SceneStarts DEF ClockInv
  <2>5. QED
    BY <2>1, <2>2, <2>3, <2>4 DEF TourInv, StillReplay, SceneMoment
<1>2. TourInv /\ [TourNext]_tourVars => TourInv'
  <2> SUFFICES ASSUME TourInv, [TourNext]_tourVars PROVE TourInv'
    OBVIOUS
  <2>1. CASE handleStart
    BY <2>1, HandleStartKeeps
  <2>2. CASE handleRestart
    BY <2>2, HandleRestartKeeps
  <2>3. CASE Step \/ PlayPause
    BY <2>3, PresenterKeeps
  <2>4. CASE Escape
    BY <2>4, EscapeKeeps
  <2>5. CASE Panels
    BY <2>5, PanelsKeep
  <2>6. CASE Clock \/ \E span \in Spans : TimePasses(span)
    BY <2>6, ClockKeeps
  <2>7. CASE SceneTimeout
    BY <2>7, TimeoutKeeps
  <2>8. CASE \E t \in Targets : TourArrive(t)
    BY <2>8, ArriveKeeps
  <2>9. CASE \E on \in BOOLEAN : on # onPage /\ Mount(on)
    BY <2>9, MountKeeps
  <2>10. CASE Elsewhere
    BY <2>10, ElsewhereKeeps
  <2>11. CASE TourServer
    BY <2>11, ServerKeeps
  <2>12. CASE CatalogueArrives
    <3>1. /\ UNCHANGED <<vars, tour>> /\ scenarios' = TRUE /\ onPage' = onPage /\ commands' = commands
          /\ judgeMode' = judgeMode /\ notesVisible' = notesVisible /\ hudVisible' = hudVisible
          /\ started' = started /\ tourPlaying' = tourPlaying
      BY <2>12 DEF CatalogueArrives, tour, panels
    <3>2. PageInv'
      BY <3>1 DEF TourInv, PageInv
    <3>3. QED
      BY <3>1, <3>2, AsideKeeps
  <2>13. CASE UNCHANGED tourVars
    <3>1. /\ UNCHANGED <<vars, tour>> /\ scenarios' = scenarios /\ onPage' = onPage /\ commands' = commands
          /\ judgeMode' = judgeMode /\ notesVisible' = notesVisible /\ hudVisible' = hudVisible
          /\ started' = started /\ tourPlaying' = tourPlaying
      BY <2>13 DEF tourVars, tour, panels
    <3>2. PageInv'
      BY <3>1 DEF TourInv, PageInv
    <3>3. QED
      BY <3>1, <3>2, AsideKeeps
  <2>14. QED
    BY <2>1, <2>2, <2>3, <2>4, <2>5, <2>6, <2>7, <2>8, <2>9, <2>10, <2>11, <2>12, <2>13 DEF TourNext
<1>3. QED
  BY <1>1, <1>2, PTL DEF TourSpec

\* The stage of a scene that is on its moment.
LEMMA StageFacts ==
  ASSUME TimelineAssumption, TourAssumption, TourInv
  PROVE  SceneShowsItsMoment
<1> SUFFICES ASSUME started, Focus(zone_timelines) # {},
                    NEW s \in SceneStamp(sceneIndex, zone_timelines)
             PROVE  <<focusZone, s>> \in Stage /\ \A shown \in Stage : shown[2] <= s
  BY DEF SceneShowsItsMoment
<1>1. ReplayInv /\ HasCursor /\ currentTimestamp = s
  BY DEF TourInv, SceneMoment
<1>2. IsHistory(zone_timelines) /\ focusZone \in Zones
  BY <1>1, AxisFacts, FocusFacts
<1>3. /\ s \in zone_timelines[focusZone] /\ s \in Nat
      /\ scene(sceneIndex).key = "incident-begins" \/ scene(sceneIndex).key \in PEAK_TICK_SCENES
  BY <1>2, StampFacts
<1>4. \A z \in Zones : \A u \in upToCursor(z) : u <= s
  BY <1>1 DEF upToCursor
<1>5. \A z \in Zones : \A u \in assessmentAt(z) : u <= s
  BY <1>1, <1>4, ShownFacts
<1>6. s \in upToCursor(focusZone)
  BY <1>1, <1>3 DEF upToCursor
<1>7. s \in assessmentAt(focusZone)
  <2> DEFINE top == Max(upToCursor(focusZone))
  <2>1. assessmentAt(focusZone) = {top} /\ top \in upToCursor(focusZone) /\ s <= top
    BY <1>1, <1>2, <1>6, ShownFacts
  <2>2. top <= s /\ upToCursor(focusZone) \subseteq 0 .. currentTimestamp
    BY <1>1, <1>2, <1>4, <2>1, ShownFacts
  <2>3. top \in Nat
    BY <1>1, <1>3, <2>1, <2>2
  <2> HIDE DEF top
  <2>4. top = s
    BY <1>3, <2>1, <2>2, <2>3
  <2>5. QED
    BY <2>1, <2>4
<1> DEFINE all == UNION {{z} \X assessmentAt(z) : z \in Zones}
           sofar == {focusZone} \X upToCursor(focusZone)
<1>8. <<focusZone, s>> \in focusAssessment /\ \A shown \in focusAssessment : shown[2] <= s
  BY <1>2, <1>5, <1>7 DEF focusAssessment
<1>9. <<focusZone, s>> \in all /\ \A shown \in all : shown[2] <= s
  BY <1>2, <1>5, <1>7
<1>10. \A shown \in sofar : shown[2] <= s
  BY <1>2, <1>4
<1>11. Stage \in {focusAssessment, focusAssessment \cup sofar, all}
  <2> DEFINE k == scene(sceneIndex).key
  <2>1. k \in {"incident-begins", "multi-agent-reasoning", "counterfactual", "executive-dashboard",
               "mission-control", "final-recommendation"}
    BY <1>3 DEF PEAK_TICK_SCENES
  <2>2. Stage = CASE k = "incident-begins" -> focusAssessment
                  [] k = "multi-agent-reasoning" -> focusAssessment \cup sofar
                  [] k = "counterfactual" -> focusAssessment
                  [] k = "executive-dashboard" -> all
                  [] k = "mission-control" -> all
                  [] k = "final-recommendation" -> focusAssessment
                  [] OTHER -> {}
    BY DEF Stage, Scene3Incident, Scene4MultiAgentReasoning, Scene8Counterfactual, Scene7Executive,
           Scene7MissionControl, Scene8FinalRecommendation
  <2> HIDE DEF k, all, sofar
  <2>3. CASE k = "incident-begins"
    BY <2>2, <2>3
  <2>4. CASE k = "multi-agent-reasoning"
    BY <2>2, <2>4
  <2>5. CASE k = "counterfactual"
    BY <2>2, <2>5
  <2>6. CASE k = "executive-dashboard"
    BY <2>2, <2>6
  <2>7. CASE k = "mission-control"
    BY <2>2, <2>7
  <2>8. CASE k = "final-recommendation"
    BY <2>2, <2>8
  <2>9. QED
    BY <2>1, <2>3, <2>4, <2>5, <2>6, <2>7, <2>8
<1> HIDE DEF all, sofar
<1>12. QED
  BY <1>8, <1>9, <1>10, <1>11

\* A scene about a moment of the incident shows that moment whenever the history
\* is there, however the presenter came to it and whenever the history arrived
\* (pages/PresentationModePage.tsx, the scene-driven effect).
THEOREM ScenesShowTheirMoment ==
  ASSUME TimelineAssumption, TourAssumption
  PROVE  TourSpec => []SceneShowsItsMoment
<1>1. TourInv => SceneShowsItsMoment
  BY StageFacts
<1>2. QED
  BY <1>1, TourInvariant, PTL

\* The state of the tour has its type, one timer is armed exactly while it plays,
\* and only on its page (pages/PresentationModePage.tsx, the timeout effect).
THEOREM TimerFollowsPlaying ==
  ASSUME TimelineAssumption, TourAssumption
  PROVE  TourSpec => [](TourTypeOK /\ TimerIffPlaying)
<1>1. ASSUME TourInv PROVE TourTypeOK /\ TimerIffPlaying
  <2>1. TypeOK /\ ClockInv /\ PageInv
    BY <1>1 DEF TourInv, ReplayInv
  <2>2. /\ due \in Nat \cup {-1} /\ (due >= 0 <=> tourPlaying)
    BY <2>1, ClockFacts DEF ClockInv
  <2>3. sceneIndex \in 0 .. Scenes - 1 /\ elapsed \in Nat /\ phase \in 0 .. TICK_MS
    BY <2>1 DEF ClockInv, ClockFits
  <2>4. tourPlaying \in BOOLEAN
    BY <2>1 DEF ClockInv, ClockFits
  <2>5. {onPage, scenarios, started, tourPlaying, judgeMode, notesVisible, hudVisible} \subseteq BOOLEAN
    BY <2>1, <2>4, Zenon DEF PageInv
  <2>6. commands \in 0 .. MaxCommands /\ (tourPlaying => onPage /\ started)
    BY <2>1 DEF PageInv
  <2>7. QED
    BY <2>1, <2>2, <2>3, <2>5, <2>6 DEF TourTypeOK, TimerIffPlaying
<1>2. QED
  BY <1>1, TourInvariant, PTL

\* A function that adds up the durations of the first scenes.
AddsUp(f, n) == f = [i \in 0 .. n |-> IF i = 0 THEN 0 ELSE f[i - 1] + PRESENTATION_SCENES[i].durationMs]

\* There is one, for any number of scenes.
LEMMA SumExists ==
  ASSUME NEW n \in Nat
  PROVE  \E f : AddsUp(f, n)
<1> DEFINE Bad == {m \in Nat : ~ \E f : AddsUp(f, m)}
<1>1. SUFFICES ASSUME Bad # {} PROVE FALSE
  OBVIOUS
<1>2. PICK m \in Bad : \A k \in Bad : m <= k
  BY <1>1, LeastStamp, Bad \subseteq Nat
<1>3. m # 0
  <2>1. AddsUp([i \in 0 .. 0 |-> 0], 0)
    BY DEF AddsUp
  <2>2. QED
    BY <1>2, <2>1
<1>4. m - 1 \in Nat /\ m - 1 \notin Bad
  BY <1>2, <1>3
<1>5. PICK g : AddsUp(g, m - 1)
  BY <1>4
<1> DEFINE h == [i \in 0 .. m |-> IF i = 0 THEN 0 ELSE g[i - 1] + PRESENTATION_SCENES[i].durationMs]
<1>6. \A i \in 0 .. m - 1 : g[i] = h[i]
  <2> TAKE i \in 0 .. m - 1
  <2>1. i \in 0 .. m
    BY <1>2
  <2>2. h[i] = IF i = 0 THEN 0 ELSE g[i - 1] + PRESENTATION_SCENES[i].durationMs
    BY <2>1
  <2>3. g = [j \in 0 .. m - 1 |-> IF j = 0 THEN 0 ELSE g[j - 1] + PRESENTATION_SCENES[j].durationMs]
    BY <1>5 DEF AddsUp
  <2>4. g[i] = IF i = 0 THEN 0 ELSE g[i - 1] + PRESENTATION_SCENES[i].durationMs
    BY <2>3, Zenon
  <2>5. QED
    BY <2>2, <2>4
<1>7. \A i \in 0 .. m : i # 0 => g[i - 1] = h[i - 1]
  <2> TAKE i \in 0 .. m
  <2>1. i # 0 => i - 1 \in 0 .. m - 1
    BY <1>2
  <2> HIDE DEF h
  <2>2. QED
    BY <1>6, <2>1
<1>8. h = [i \in 0 .. m |-> IF i = 0 THEN 0 ELSE h[i - 1] + PRESENTATION_SCENES[i].durationMs]
  BY <1>7
<1>9. QED
  BY <1>2, <1>8 DEF AddsUp

\* The total of the first scenes is a number of milliseconds.
LEMMA DurationFacts ==
  ASSUME TourAssumption
  PROVE  \A n \in 0 .. Scenes : duration[n] \in Nat
<1>1. Scenes \in Nat
  BY SceneFacts
<1>2. duration = CHOOSE f : AddsUp(f, Scenes)
  BY DEF duration, AddsUp
<1>3. AddsUp(duration, Scenes)
  <2>1. \E f : AddsUp(f, Scenes)
    BY <1>1, SumExists
  <2>2. QED
    BY <1>2, <2>1, Zenon
<1>4. \A i \in 0 .. Scenes : duration[i] = IF i = 0 THEN 0 ELSE duration[i - 1] + PRESENTATION_SCENES[i].durationMs
  BY <1>3, Zenon DEF AddsUp
<1>5. \A i \in 1 .. Scenes : PRESENTATION_SCENES[i].durationMs \in Nat
  <2> TAKE i \in 1 .. Scenes
  <2>1. i - 1 \in 0 .. Scenes - 1 /\ (i - 1) + 1 = i
    BY <1>1
  <2>2. scene(i - 1).durationMs \in Nat
    BY <2>1, SceneFacts
  <2>3. QED
    BY <2>1, <2>2 DEF scene
<1> DEFINE Bad == {n \in 0 .. Scenes : duration[n] \notin Nat}
<1>6. SUFFICES ASSUME Bad # {} PROVE FALSE
  OBVIOUS
<1>7. PICK n \in Bad : \A k \in Bad : n <= k
  <2>1. Bad \subseteq Nat
    BY <1>1
  <2>2. QED
    BY <1>6, <2>1, LeastStamp
<1>8. n \in 0 .. Scenes /\ n # 0
  BY <1>4, <1>7
<1>9. n - 1 \in 0 .. Scenes /\ n \in 1 .. Scenes /\ n - 1 \notin Bad
  BY <1>1, <1>7, <1>8
<1>10. duration[n - 1] \in Nat /\ PRESENTATION_SCENES[n].durationMs \in Nat
  BY <1>5, <1>9
<1>11. duration[n] = duration[n - 1] + PRESENTATION_SCENES[n].durationMs
  BY <1>4, <1>8
<1>12. QED
  BY <1>7, <1>10, <1>11

\* The speaker's clock adds up to the length of the tour and tells the end of the
\* scene, each to a tick, whatever was stepped, paused, left or restarted in between
\* (lib/presentationScript.ts, elapsedBeforeScene and remainingAfterScene;
\* pages/PresentationModePage.tsx, the interval and the timeout of the scene timer).
THEOREM TheSpeakersClockAddsUp ==
  ASSUME TimelineAssumption, TourAssumption
  PROVE  TourSpec => []SpeakerClockAddsUp
<1>1. ASSUME TourInv PROVE SpeakerClockAddsUp
  <2> DEFINE i == sceneIndex
             d == scene(i).durationMs
             before == duration[i]
             total == duration[Scenes]
  <2>1. ClockFits(sceneIndex, tourPlaying, elapsed, phase, due)
    BY <1>1 DEF TourInv, ClockInv
  <2>2. /\ i \in 0 .. Scenes - 1 /\ elapsed \in Nat /\ tourPlaying \in BOOLEAN
        /\ elapsed <= d + TICK_MS /\ phase \in 0 .. TICK_MS
    BY <2>1 DEF ClockFits
  <2>3. Scenes \in Nat
    BY SceneFacts
  <2>4. i \in 0 .. Scenes /\ Scenes \in 0 .. Scenes
    BY <2>2, <2>3
  <2>5. before \in Nat /\ total \in Nat
    BY <2>4, DurationFacts
  <2>6. d \in Nat /\ TICK_MS \in Nat \ {0} /\ due \in Nat \cup {-1} /\ (due >= 0 <=> tourPlaying)
    BY <2>1, ClockFacts
  <2>7. due >= 0 => due \in Nat /\ due + elapsed + phase - d \in 0 .. TICK_MS
    BY <2>1, <2>6 DEF ClockFits
  <2>8. totalElapsed = before + elapsed
    BY DEF totalElapsed, elapsedBeforeScene
  <2>9. remainingMs = Least0(d - elapsed) + (total - before - d)
    BY DEF remainingMs, remainingAfterScene, TOTAL_PRESENTATION_DURATION_MS, elapsedBeforeScene
  <2>10. TOTAL_PRESENTATION_DURATION_MS = total
    BY DEF TOTAL_PRESENTATION_DURATION_MS
  <2> HIDE DEF d, before, total, i
  <2>11. Least0(d - elapsed) = IF elapsed <= d THEN d - elapsed ELSE 0
    BY <2>2, <2>6 DEF Least0
  <2>12. totalElapsed + remainingMs \in total .. total + TICK_MS
    BY <2>2, <2>5, <2>6, <2>8, <2>9, <2>11
  <2>13. due >= 0 => due - Least0(d - elapsed) \in -TICK_MS .. TICK_MS
    BY <2>2, <2>6, <2>7, <2>11
  <2>14. QED
    BY <2>10, <2>12, <2>13 DEF SpeakerClockAddsUp, d, i
<1>2. QED
  BY <1>1, TourInvariant, PTL

\* PresentationModePage as a whole, for any histories and script of scenes: the
\* scene shows its moment, the pending timeout is of the scene that is shown, the
\* clocks add up, and the replay below the tour stays coherent.
THEOREM TourStaysInStep ==
  ASSUME TimelineAssumption, TourAssumption
  PROVE  TourSpec => []TourIsInStep /\ ReplayIsCoherent
<1>1. TourTypeOK /\ TimerIffPlaying /\ SceneShowsItsMoment /\ SpeakerClockAddsUp => TourIsInStep
  BY DEF TourIsInStep
<1>2. TourInv => ReplayInv
  BY DEF TourInv
<1>3. QED
  BY <1>1, <1>2, TimerFollowsPlaying, ScenesShowTheirMoment, TheSpeakersClockAddsUp,
     TourInvariant, KeptIsCoherent, PTL
-----------------------------------------------------------------------------
(* The launch modes. *)

\* A promise of either launch is not both open and kept; the overlay is on top of
\* the chrome only.
ModesInv ==
    /\ page \in {"challenge", "mission-control", "other"}
    /\ catalogue \in BOOLEAN
    /\ awaitingAutoPlay \in BOOLEAN /\ autoPlayedRef \in BOOLEAN
    /\ pendingActivation \in BOOLEAN /\ scrubbedRef \in BOOLEAN
    /\ talkingPointsVisible \in BOOLEAN /\ launchTriggered \in BOOLEAN
    /\ active \in BOOLEAN /\ fullscreen \in BOOLEAN
    /\ fullscreenOps \in Seq({"request", "exit"})
    /\ talkingPointsVisible => active
    /\ awaitingAutoPlay => ~autoPlayedRef

LaunchInv == ReplayInv /\ ModesInv

\* The full-screen calls stay full-screen calls.
LEMMA OpsFacts ==
  ASSUME NEW ops \in Seq({"request", "exit"})
  PROVE  /\ Append(ops, "request") \in Seq({"request", "exit"}) /\ Append(ops, "exit") \in Seq({"request", "exit"})
         /\ ops # <<>> => Tail(ops) \in Seq({"request", "exit"})
         /\ <<>> \in Seq({"request", "exit"})
OBVIOUS

\* The chrome moves by itself.
LEMMA ChromeIsApart ==
  ASSUME toggle \/ exit \/ RequestGranted \/ RequestRefused \/ ExitDone \/ NativeEscape
  PROVE  /\ UNCHANGED vars
         /\ page' = page /\ catalogue' = catalogue /\ awaitingAutoPlay' = awaitingAutoPlay
         /\ autoPlayedRef' = autoPlayedRef /\ pendingActivation' = pendingActivation /\ scrubbedRef' = scrubbedRef
<1>1. Untouched
  <2>1. CASE toggle
    BY <2>1 DEF toggle
  <2>2. CASE exit
    BY <2>2 DEF exit
  <2>3. CASE RequestGranted
    BY <2>3 DEF RequestGranted
  <2>4. CASE RequestRefused
    BY <2>4 DEF RequestRefused
  <2>5. CASE ExitDone
    BY <2>5 DEF ExitDone, handleFullscreenChange
  <2>6. CASE NativeEscape
    BY <2>6 DEF NativeEscape, handleFullscreenChange
  <2>7. QED
    BY <2>1, <2>2, <2>3, <2>4, <2>5, <2>6
<1>2. QED
  BY <1>1 DEF Untouched, challenge

\* The chrome moves on: entered, left, or by an answer of the browser.
LEMMA ChromeKeeps ==
  ASSUME LaunchInv, toggle \/ exit \/ RequestGranted \/ RequestRefused \/ ExitDone \/ NativeEscape
  PROVE  ModesInv'
<1>1. ModesInv
  BY DEF LaunchInv
<1>2. /\ page' = page /\ catalogue' = catalogue /\ awaitingAutoPlay' = awaitingAutoPlay
      /\ autoPlayedRef' = autoPlayedRef /\ pendingActivation' = pendingActivation /\ scrubbedRef' = scrubbedRef
  BY ChromeIsApart
<1>3. fullscreenOps' \in Seq({"request", "exit"})
  BY <1>1, OpsFacts DEF ModesInv, toggle, exit, RequestGranted, RequestRefused, ExitDone, NativeEscape,
     enter, ExitChrome, handleFullscreenChange
<1>4. active' \in BOOLEAN /\ fullscreen' \in BOOLEAN
  BY <1>1, Zenon DEF ModesInv, toggle, exit, RequestGranted, RequestRefused, ExitDone, NativeEscape,
     enter, ExitChrome, handleFullscreenChange
<1>5. \/ OverlayEffect
      \/ talkingPointsVisible' = talkingPointsVisible /\ launchTriggered' = launchTriggered /\ active' = active
  BY Zenon DEF toggle, exit, RequestGranted, RequestRefused, ExitDone, NativeEscape,
     enter, ExitChrome, handleFullscreenChange, OverlayStays
<1>6. talkingPointsVisible' \in BOOLEAN /\ launchTriggered' \in BOOLEAN
  BY <1>1, <1>5, Zenon DEF ModesInv, OverlayEffect
<1>7. talkingPointsVisible' => active'
  BY <1>1, <1>5, Zenon DEF ModesInv, OverlayEffect
<1>8. QED
  BY <1>1, <1>2, <1>3, <1>4, <1>6, <1>7, Zenon DEF ModesInv

\* Waiting effects that fire are done, the others still wait.
LEMMA FiresOnce ==
  ASSUME NEW waiting \in BOOLEAN, NEW done \in BOOLEAN, NEW ticks
  PROVE  LET fires == AutoPlays(waiting, done, ticks)
         IN  /\ fires \in BOOLEAN
             /\ (waiting /\ ~fires) \in BOOLEAN /\ (done \/ fires) \in BOOLEAN
             /\ (waiting => ~done) => (waiting /\ ~fires => ~(done \/ fires))
BY Zenon DEF AutoPlays

\* A challenge or another replay is started.
LEMMA StartsKeep ==
  ASSUME LaunchInv, NEW t \in Targets, startChallenge(t) \/ PickScenario(t)
  PROVE  ModesInv'
<1>1. ModesInv
  BY DEF LaunchInv
<1>2. /\ page' = page /\ catalogue' = catalogue /\ talkingPointsVisible' = talkingPointsVisible
      /\ launchTriggered' = launchTriggered /\ active' = active /\ fullscreen' = fullscreen
      /\ fullscreenOps' = fullscreenOps
  BY DEF startChallenge, PickScenario, chrome
<1>3. LET fires == AutoPlays(pendingActivation, scrubbedRef, Loaded(t))
      IN  pendingActivation' = (pendingActivation /\ ~fires) /\ scrubbedRef' = (scrubbedRef \/ fires)
  BY DEF startChallenge, PickScenario
<1>4. pendingActivation' \in BOOLEAN /\ scrubbedRef' \in BOOLEAN
  BY <1>1, <1>3, FiresOnce, Zenon DEF ModesInv
<1>5. awaitingAutoPlay' \in BOOLEAN /\ autoPlayedRef' \in BOOLEAN /\ (awaitingAutoPlay' => ~autoPlayedRef')
  <2>1. CASE startChallenge(t)
    <3>1. LET fires == AutoPlays(TRUE, FALSE, Loaded(t)) IN awaitingAutoPlay' = ~fires /\ autoPlayedRef' = fires
      BY <2>1 DEF startChallenge
    <3>2. QED
      BY <3>1, Zenon DEF AutoPlays
  <2>2. CASE PickScenario(t)
    BY <1>1, <2>2 DEF PickScenario, challenge, ModesInv
  <2>3. QED
    BY <2>1, <2>2
<1>6. QED
  BY <1>1, <1>2, <1>4, <1>5, Zenon DEF ModesInv

\* The history arrives.
LEMMA ArrivalKeeps ==
  ASSUME TimelineAssumption, LaunchInv, NEW t \in Targets, HistoryArrives(t)
  PROVE  LaunchInv'
<1> DEFINE ticks == IF t = target THEN Len(mergeTimestamps(getReplay(t))) ELSE 0
           plays == AutoPlays(awaitingAutoPlay, autoPlayedRef, ticks)
           jumps == AutoPlays(pendingActivation, scrubbedRef, ticks)
<1>1. ModesInv /\ ReplayInv
  BY DEF LaunchInv
<1>2. /\ Answer(t)
      /\ playing' = ((playing \/ plays) /\ ~jumps)
      /\ currentIndex' = IF jumps THEN ticks - 1 ELSE currentIndex
      /\ awaitingAutoPlay' = (awaitingAutoPlay /\ ~plays) /\ autoPlayedRef' = (autoPlayedRef \/ plays)
      /\ pendingActivation' = (pendingActivation /\ ~jumps) /\ scrubbedRef' = (scrubbedRef \/ jumps)
      /\ executed' = executed /\ target' = target /\ speed' = speed /\ customBookmarks' = customBookmarks
      /\ catalogue' = catalogue /\ page' = page /\ talkingPointsVisible' = talkingPointsVisible
      /\ launchTriggered' = launchTriggered /\ active' = active /\ fullscreen' = fullscreen
      /\ fullscreenOps' = fullscreenOps
  BY DEF HistoryArrives, chrome
<1>3. IsHistory(getReplay(t))
  BY NothingFacts DEF getReplay, IsHistory
<1>4. Len(mergeTimestamps(getReplay(t))) \in Nat
  BY <1>3, AxisIsSorted
<1>5. jumps => t = target /\ ticks > 0 /\ ticks = Len(mergeTimestamps(getReplay(t)))
  BY DEF AutoPlays
<1>6. currentIndex' = currentIndex \/ (t = target /\ CursorFits(currentIndex', Len(mergeTimestamps(getReplay(t)))))
  BY <1>2, <1>4, <1>5 DEF CursorFits
<1>7. playing' \in BOOLEAN
  BY <1>2, Zenon
<1>8. ReplayInv'
  BY <1>1, <1>2, <1>6, <1>7, AnswerKeeps
<1>9. /\ awaitingAutoPlay' \in BOOLEAN /\ autoPlayedRef' \in BOOLEAN
      /\ pendingActivation' \in BOOLEAN /\ scrubbedRef' \in BOOLEAN
      /\ awaitingAutoPlay' => ~autoPlayedRef'
  BY <1>1, <1>2, FiresOnce, Zenon DEF ModesInv
<1>10. ModesInv'
  BY <1>1, <1>2, <1>9, Zenon DEF ModesInv
<1>11. QED
  BY <1>8, <1>10 DEF LaunchInv

\* Judge Quick View is activated.
LEMMA ActivateKeeps ==
  ASSUME TimelineAssumption, DramaticAssumption, LaunchInv, activate
  PROVE  LaunchInv'
<1> DEFINE begins == catalogue /\ target = NoTarget
           ref == IF begins THEN FALSE ELSE scrubbedRef
           ticks == IF begins THEN Loaded(Dramatic) ELSE Ticks
           jumps == AutoPlays(TRUE, ref, ticks)
<1>1. ModesInv /\ ReplayInv
  BY DEF LaunchInv
<1>2. /\ enter /\ Navigate("mission-control") /\ catalogue' = catalogue
      /\ launchTriggered' = TRUE /\ talkingPointsVisible' = TRUE
      /\ pendingActivation' = ~jumps /\ scrubbedRef' = (ref \/ jumps)
      /\ \/ startReplay(Dramatic)
         \/ ~begins /\ jumps /\ scrubToIndex(Ticks - 1)
         \/ UNCHANGED vars
  BY DEF activate
<1>3. ReplayInv'
  <2>1. CASE startReplay(Dramatic)
    BY <1>1, <2>1, StartKeeps DEF DramaticAssumption
  <2>2. CASE ~begins /\ jumps /\ scrubToIndex(Ticks - 1)
    <3>1. Ticks > 0 /\ Ticks \in Nat
      BY <1>1, <2>2, AxisFacts DEF AutoPlays
    <3>2. Ticks - 1 \in 0 .. Ticks - 1
      BY <3>1
    <3>3. QED
      BY <1>1, <2>2, <3>1, <3>2, ScrubKeeps
  <2>3. CASE UNCHANGED vars
    BY <1>1, <2>3, NextReplay
  <2>4. QED
    BY <1>2, <2>1, <2>2, <2>3
<1>4. page' = "mission-control" /\ awaitingAutoPlay' = FALSE /\ autoPlayedRef' = FALSE
  BY <1>2 DEF Navigate
<1>5. active' = TRUE /\ fullscreen' = fullscreen /\ fullscreenOps' \in Seq({"request", "exit"})
  BY <1>1, <1>2, OpsFacts DEF enter, ModesInv
<1>6. pendingActivation' \in BOOLEAN /\ scrubbedRef' \in BOOLEAN
  <2>1. ref \in BOOLEAN
    BY <1>1, Zenon DEF ModesInv
  <2>2. jumps \in BOOLEAN
    BY Zenon DEF AutoPlays
  <2> HIDE DEF ref, jumps
  <2>3. QED
    BY <1>2, <2>1, <2>2, Zenon
<1>7. ModesInv'
  BY <1>1, <1>2, <1>4, <1>5, <1>6, Zenon DEF ModesInv
<1>8. QED
  BY <1>3, <1>7 DEF LaunchInv

\* The user goes to another page, or dismisses the talking points; the catalogue
\* arrives.
LEMMA AwayKeeps ==
  ASSUME LaunchInv,
         \/ ScenariosArrive \/ dismissTalkingPoints
         \/ \E p \in {"challenge", "other"} : Navigate(p) /\ UNCHANGED <<vars, catalogue, judge, chrome>>
  PROVE  ModesInv'
<1>1. ModesInv
  BY DEF LaunchInv
<1>2. /\ pendingActivation' = pendingActivation /\ scrubbedRef' = scrubbedRef
      /\ active' = active /\ fullscreen' = fullscreen /\ fullscreenOps' = fullscreenOps
  BY DEF ScenariosArrive, dismissTalkingPoints, judge, chrome
<1>3. CASE ScenariosArrive
  BY <1>1, <1>2, <1>3, Zenon DEF ScenariosArrive, challenge, judge, ModesInv
<1>4. CASE dismissTalkingPoints
  BY <1>1, <1>2, <1>4, Zenon DEF dismissTalkingPoints, challenge, ModesInv
<1>5. ASSUME NEW p \in {"challenge", "other"}, Navigate(p), UNCHANGED <<vars, catalogue, judge, chrome>>
      PROVE  ModesInv'
  <2>1. page' = p /\ catalogue' = catalogue /\ talkingPointsVisible' = talkingPointsVisible
        /\ launchTriggered' = launchTriggered
    BY <1>5 DEF Navigate, judge
  <2>2. /\ awaitingAutoPlay' = (p = "challenge" /\ page = "challenge" /\ awaitingAutoPlay)
        /\ autoPlayedRef' = (p = "challenge" /\ page = "challenge" /\ autoPlayedRef)
    BY <1>5 DEF Navigate
  <2>3. awaitingAutoPlay' \in BOOLEAN /\ autoPlayedRef' \in BOOLEAN /\ (awaitingAutoPlay' => ~autoPlayedRef')
    BY <1>1, <2>2, Zenon DEF ModesInv
  <2>4. page' \in {"challenge", "mission-control", "other"}
    BY <2>1
  <2>5. QED
    BY <1>1, <1>2, <2>1, <2>3, <2>4, Zenon DEF ModesInv
<1>6. QED
  BY <1>3, <1>4, <1>5

\* Every handler, answer and call of the browser keeps the invariant.
LEMMA LaunchStep ==
  ASSUME TimelineAssumption, DramaticAssumption, LaunchInv, [LaunchNext]_allVars
  PROVE  LaunchInv'
<1>1. ReplayInv /\ ModesInv
  BY DEF LaunchInv
<1>2. ASSUME UNCHANGED modes PROVE ModesInv'
  BY <1>1, <1>2, Zenon DEF modes, challenge, judge, chrome, ModesInv
<1>3. ASSUME UNCHANGED vars PROVE ReplayInv'
  BY <1>1, <1>3, NextReplay
<1>4. CASE UNCHANGED allVars
  BY <1>2, <1>3, <1>4 DEF allVars, LaunchInv
<1>5. CASE ScenariosArrive \/ dismissTalkingPoints
  BY <1>3, <1>5, AwayKeeps DEF ScenariosArrive, dismissTalkingPoints, LaunchInv
<1>6. CASE \E p \in {"challenge", "other"} : Navigate(p) /\ UNCHANGED <<vars, catalogue, judge, chrome>>
  <2>1. UNCHANGED vars
    BY <1>6
  <2>2. QED
    BY <1>3, <1>6, <2>1, AwayKeeps DEF LaunchInv
<1>7. CASE \E t \in Targets : startChallenge(t) \/ PickScenario(t)
  <2>1. PICK t \in Targets : startChallenge(t) \/ PickScenario(t)
    BY <1>7
  <2>2. startReplay(t)
    BY <2>1 DEF startChallenge, PickScenario
  <2>3. QED
    BY <1>1, <2>1, <2>2, StartKeeps, StartsKeep DEF LaunchInv
<1>8. CASE \E t \in Targets : HistoryArrives(t)
  BY <1>8, ArrivalKeeps
<1>9. CASE activate
  BY <1>9, ActivateKeeps
<1>10. CASE toggle \/ exit \/ RequestGranted \/ RequestRefused \/ ExitDone \/ NativeEscape
  <2>1. UNCHANGED vars
    BY <1>10, ChromeIsApart
  <2>2. QED
    BY <1>3, <1>10, <2>1, ChromeKeeps DEF LaunchInv
<1>11. CASE Controls
  <2>1. UNCHANGED modes
    BY <1>11 DEF Controls
  <2>2. ReplayInv'
    BY <1>1, <1>11, ControllerKeeps, TickKeeps DEF Controls
  <2>3. QED
    BY <1>2, <2>1, <2>2 DEF LaunchInv
<1>12. CASE Server
  <2>1. UNCHANGED modes
    BY <1>12 DEF Server
  <2>2. Next
    BY <1>12 DEF Server, Next, Environment
  <2>3. QED
    BY <1>1, <1>2, <2>1, <2>2, NextReplay DEF LaunchInv
<1>13. QED
  BY <1>4, <1>5, <1>6, <1>7, <1>8, <1>9, <1>10, <1>11, <1>12 DEF LaunchNext

\* A challenge that waits for its history plays when it comes.
LEMMA ArrivalPlays ==
  ASSUME TimelineAssumption, LaunchInv, NEW t \in Targets,
         HistoryArrives(t), t = target, awaitingAutoPlay, getReplay(t) # Nothing
  PROVE  \/ playing' /\ ~awaitingAutoPlay'
         \/ pendingActivation /\ currentIndex' = Len(mergeTimestamps(getReplay(t))) - 1
<1> DEFINE ticks == Len(mergeTimestamps(getReplay(t)))
           plays == AutoPlays(awaitingAutoPlay, autoPlayedRef, ticks)
           jumps == AutoPlays(pendingActivation, scrubbedRef, ticks)
<1>1. /\ playing' = ((playing \/ plays) /\ ~jumps)
      /\ currentIndex' = IF jumps THEN ticks - 1 ELSE currentIndex
      /\ awaitingAutoPlay' = (awaitingAutoPlay /\ ~plays)
  BY DEF HistoryArrives
<1>2. ~autoPlayedRef
  BY DEF LaunchInv, ModesInv
<1>3. ticks > 0
  <2>1. IsHistory(getReplay(t)) /\ getReplay(t) = Timeline[t]
    BY DEF getReplay, IsHistory
  <2>2. PICK z \in Zones : getReplay(t)[z] # {}
    BY <2>1 DEF Nothing, TimelineAssumption
  <2>3. StampsOf(getReplay(t)) # {}
    BY <2>2 DEF StampsOf
  <2>4. ticks # 0 /\ ticks \in Nat
    BY <2>1, <2>3, AxisIsSorted
  <2>5. QED
    BY <2>4
<1>4. plays
  BY <1>2, <1>3 DEF AutoPlays
<1>5. CASE jumps
  BY <1>1, <1>5 DEF AutoPlays
<1>6. CASE ~jumps
  BY <1>1, <1>4, <1>6
<1>7. QED
  BY <1>5, <1>6

\* ChallengeModePage, JudgeQuickViewContext and PresentationModeContext, for any
\* targets, histories and bound on full-screen calls: the talking points leave with
\* the chrome, whichever way that went; a challenge plays when its history comes,
\* unless a judge launch takes it to its end; the shared replay stays coherent.
THEOREM LaunchesTakeEffect ==
  ASSUME TimelineAssumption, DramaticAssumption
  PROVE  LaunchSpec => LaunchTakesEffect /\ ReplayIsCoherent
<1>1. ASSUME LaunchInit PROVE LaunchInv
  <2>1. ReplayInv
    BY <1>1, InitReplay DEF LaunchInit
  <2>2. <<>> \in Seq({"request", "exit"})
    BY OpsFacts
  <2>3. ModesInv
    BY <1>1, <2>2, Zenon DEF LaunchInit, ModesInv
  <2>4. QED
    BY <2>1, <2>3 DEF LaunchInv
<1>2. LaunchInv /\ [LaunchNext]_allVars => LaunchInv'
  BY LaunchStep
<1>3. ASSUME LaunchInv PROVE LaunchTypeOK /\ OverlayLeavesWithChrome /\ ReplayInv
  <2>1. ReplayInv /\ ModesInv /\ TypeOK
    BY <1>3 DEF LaunchInv, ReplayInv
  <2>2. /\ {catalogue, awaitingAutoPlay, autoPlayedRef, pendingActivation, scrubbedRef} \subseteq BOOLEAN
        /\ {talkingPointsVisible, launchTriggered, active, fullscreen} \subseteq BOOLEAN
    BY <2>1, Zenon DEF ModesInv
  <2>3. QED
    BY <2>1, <2>2 DEF ModesInv, LaunchTypeOK, OverlayLeavesWithChrome
<1>4. LaunchInv => [\A t \in Targets :
                      HistoryArrives(t) /\ t = target /\ awaitingAutoPlay /\ getReplay(t) # Nothing
                        => \/ playing' /\ ~awaitingAutoPlay'
                           \/ pendingActivation /\ currentIndex' = Len(mergeTimestamps(getReplay(t))) - 1]_allVars
  BY ArrivalPlays
<1>5. QED
  BY <1>1, <1>2, <1>3, <1>4, KeptIsCoherent, PTL DEF LaunchSpec, LaunchTakesEffect, ArrivedChallengePlays
=============================================================================
